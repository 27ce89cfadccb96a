----------------------------- MODULE StateFile ------------------------------
(***************************************************************************)
(* Package state: the file state.json that records what "on" installed.    *)
(* Which file a process uses depends on who runs it (Dir); os.WriteFile    *)
(* truncates the file before it writes, so a file can be caught torn.      *)
(***************************************************************************)
EXTENDS Platform

VARIABLE file  \* file[d]: the content of state.json in directory d

Dirs == {"user", "root", "system"}

(* The override wins; sudo resolves the invoking user's directory; another
   account has its own, which on Unix the boot hook shares; a boot process
   without a home directory has none, and every access fails. *)
Dir(c) ==
  CASE EnvDir \/ c \in {"user", "sudo"}               -> "user"
    [] ~EnvDir /\ c = "root"                           -> "root"
    [] ~EnvDir /\ c = "boot" /\ ~BootHome              -> "nowhere"
    [] ~EnvDir /\ c = "boot" /\ BootHome               ->
         IF OS = "windows" THEN "system" ELSE "root"

Content ==
  [kind : {"none", "torn", "saved"}, hosts : SUBSET Host, applied : SUBSET Addr]

Missing == [kind |-> "none", hosts |-> {}, applied |-> {}]
Torn    == [kind |-> "torn", hosts |-> {}, applied |-> {}]
Saved(hs, as) == [kind |-> "saved", hosts |-> hs, applied |-> as]

(* Load always fails where there is no directory or the JSON does not parse. *)
LoadFails(d) == d \in Dirs => file[d].kind = "torn"

(* It may also fail on a file, whole or not, because reading it fails. *)
LoadMayFail(d) == LoadFails(d) \/ May({"readfail"})

(* The records of a Load that does not fail on reading: none without a file.
   A Load that fails returns none. *)
LoadApplied(d) == IF d \in Dirs THEN file[d].applied ELSE {}

(* Mutant: the two lists are swapped. *)
SaveSwapped(d, hs, as) == d \in Dirs /\ file' = [file EXCEPT ![d] = Saved(as, hs)]

(* Save: os.WriteFile opens with O_TRUNC, then writes. *)
SaveOpen(d)          == d \in Dirs /\ file' = [file EXCEPT ![d] = Torn]
SaveWrite(d, hs, as) == d \in Dirs /\ file' = [file EXCEPT ![d] = Saved(hs, as)]

Clear(d) == d \in Dirs /\ file' = [file EXCEPT ![d] = Missing]
=============================================================================
