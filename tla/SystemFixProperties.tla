------------------------ MODULE SystemFixProperties -------------------------
(***************************************************************************)
(* What SystemFix must satisfy. Most of it holds only while certain        *)
(* mishaps stay away; each comment names them, the configurations and the  *)
(* theorems fix them.                                                      *)
(***************************************************************************)
EXTENDS SystemFix

(* Every variable keeps its type. *)
TypeOK ==
  /\ table \subseteq Addr
  /\ file \in [Dirs -> Content]
  /\ hook \in Hook
  /\ bootJob \subseteq Host
  /\ unitActive \in BOOLEAN
  /\ stable \in Copy
  /\ pc \in [Proc -> Labels]
  /\ loc \in [Proc -> Local]

Quiescent == \A p \in Proc : ~Running(p)

(* What some state file can still undo. *)
Recorded == UNION {file[d].applied : d \in Dirs}

(* What the files other than p's record. *)
Elsewhere(p) == UNION {file[d].applied : d \in Dirs \ {MyDir(p)}}

(* What cmdStatus prints, run in context c. *)

StatusSaysOn(c) == ~LoadFails(Dir(c)) /\ LoadApplied(Dir(c)) # {}

StatusSaysPersistent(c) == StatusSaysOn(c) /\ Installed

(* Whenever no command runs, everything the system blocks is recorded in a
   state file, so that an "off" can undo it. (cmdOn: clean up, apply, save;
   cmdOff: remove, clear.) Needs: no overlap, cmdfail, iofail, readfail or
   crash, and no boot process without a state directory. *)
NoOrphan == Quiescent => table \subseteq Recorded

(* When "off" prints "Back to default", or "Nothing to undo" because it found
   no record, nothing is blocked and status says that nothing is on; and after
   "Back to default" without a warning no hook will block anything at the next
   boot. Needs: as NoOrphan, and one state directory for all. *)
BackToDefault ==
  \A p \in Proc :
    /\ pc[p] \in {"said_off", "said_nothing"} =>
         table = {} /\ ~StatusSaysOn(loc[p].ctx)
    /\ pc[p] = "said_off" => loc[p].warned \/ ~Armed

(* When "on" reports success, every address it resolved is blocked and on
   record with its domains, whatever failed, was killed or was restarted
   before. Needs: no overlap. *)
OnHonest ==
  \A p \in Proc :
    pc[p] = "said_on" =>
      /\ loc[p].want # {} /\ loc[p].want \subseteq table
      /\ file[MyDir(p)] = Saved(loc[p].hosts, loc[p].want)

(* A state file is deleted only when nothing it records is still blocked:
   a failed or interrupted "off" can always be repeated. Needs: no overlap. *)
OffNeverForgets ==
  [][\A d \in Dirs : file[d].kind = "saved" /\ file'[d].kind = "none"
                       => file[d].applied \cap table = {}]_vars

(* A blocked address loses its last record only in the truncating write of a
   run that is about to record it again. Needs: no overlap, cmdfail or
   readfail. *)
RecordsNotDropped ==
  [][\A a \in table' : a \in Recorded /\ a \notin Recorded' =>
       \E p \in Proc : pc'[p] = "write" /\ a \in loc'[p].want]_vars

(* When "off" has printed no warning, the hook is gone ("Removed boot
   persistence"). Needs: no overlap, and not Windows. *)
OffEndsPersistence ==
  \A p \in Proc : pc[p] = "said_off" /\ ~loc[p].warned => ~Installed

(* After the clean-up of a re-run, the previous record holds nothing that is
   still blocked and not about to be recorded again. Needs: no overlap,
   cmdfail or readfail. *)
RerunCleansFirst ==
  [][\A p \in Proc : pc[p] = "unwind" /\ pc'[p] = "apply" =>
       (LoadApplied(MyDir(p)) \cap table) \subseteq loc[p].want]_vars

(* "Persistence: ON (re-applies at every boot)": the service manager will
   run the hook at the next boot, and its program is a whole copy.
   Needs: no overlap, cmdfail, iofail, readfail or crash. *)
PersistenceArmed ==
  Quiescent /\ StatusSaysPersistent("user") =>
    Armed /\ hook.prog = "stable" /\ stable = "whole"

(* Whatever fails or is killed, now or in an earlier run, a hook is never
   pointed at a torn copy of the program. Needs: no overlap. *)
HookNamesProgram ==
  [][hook' # hook /\ Installed' /\ hook'.prog = "stable" /\ hook'.prog # hook.prog
       => stable' = "whole"]_vars

(* Only a person's "off" takes the hook away. Needs: macOS or Windows, where
   stopping the boot job runs no "off". *)
PersistsUntilOff ==
  [][Installed /\ ~Installed' =>
       \E p \in Proc : pc[p] = "unlink" /\ loc[p].ctx # "boot"]_vars

-----------------------------------------------------------------------------
(* The ledger view: a run of "on" is pending until it truncates the file for
   its new records, from then on these are what "off" will undo. *)
InFlight == {p \in Proc : pc[p] \in {"load", "unwind", "apply", "save"}}

Pending == UNION {loc[p].want : p \in InFlight}

Promised ==
  Recorded \cup UNION {loc[p].want : p \in {q \in Proc : pc[q] = "write"}}

Ledger == INSTANCE FixLedger
  WITH blocked <- table, promised <- Promised, pending <- Pending

(* on, off, restarts and the hook implement the ledger. Needs: as NoOrphan. *)
ImplementsLedger == Ledger!Spec

(* What is blocked and on no record, nor about to be. *)
Stranded == table \ (Promised \cup Pending)

(* Only an "on" strands an address: one that fails or is killed before it has
   saved, for the addresses it was to block, or one whose save replaces a
   record that its clean-up left something of. An "off", the hook's change, a
   restart, or any failure or kill elsewhere strands nothing.
   Needs: no overlap. *)
OnlyOnStrands ==
  [][\A a \in Stranded' \ Stranded :
       \E p \in Proc :
         \/ /\ pc[p] \in {"load", "unwind", "apply", "save", "write"}
            /\ pc'[p] \in {"failed", "idle"}
            /\ a \in loc[p].want
         \/ /\ pc[p] = "save" /\ pc'[p] = "write"
            /\ a \in LoadApplied(MyDir(p)) \ loc[p].want]_vars

-----------------------------------------------------------------------------
(* Every command that starts ends, whatever happens around it. *)
CommandsFinish == \A p \in Proc : Running(p) ~> ~Running(p)

(* A queued boot job ends in a successful "on", unless somebody takes the
   hook away, or the hook's program is not a whole copy: a second "on" is
   rewriting it, or could not while it ran. Needs: no cmdfail, iofail, crash
   or nodns, and a state directory for the boot process. *)
HookReapplies ==
  bootJob # {} ~>
    \/ ~Installed
    \/ hook.prog = "other" \/ stable # "whole"
    \/ \E p \in Proc : pc[p] = "said_on" /\ loc[p].ctx = "boot"

-----------------------------------------------------------------------------
(* What makes the safety properties inductive. *)

(* Only a saved file has records. *)
OnlySavedRecords == \A d \in Dirs : file[d].kind # "saved" => file[d].applied = {}

OneAtATime == \A p, q \in Proc : Active(p) /\ Active(q) => p = q

(* How far "on" has come: what it no longer has to add is in the table, and
   from the first complete write on its file holds its records. *)
OnProgress(p) ==
  LET l == loc[p] IN
  /\ pc[p] \in {"load", "unwind", "apply", "save", "write", "copy", "fill",
               "install", "enable", "said_on"}
       => l.want # {}
  /\ pc[p] = "apply" => l.todo \subseteq l.want /\ (l.want \ l.todo) \subseteq table
  /\ pc[p] \in {"save", "write", "copy", "fill", "install", "enable", "said_on"} =>
        l.want \subseteq table
  /\ pc[p] \in {"copy", "fill", "install", "enable", "said_on"} =>
       MyDir(p) \in Dirs /\ file[MyDir(p)] = Saved(l.hosts, l.want)

(* The copy that "on" is about to name in the hook is whole. *)
CopyProgress(p) ==
  /\ pc[p] \in {"load", "unwind", "apply", "save", "write", "copy", "fill"}
       => loc[p].prog = "other"
  /\ pc[p] = "install" /\ loc[p].prog = "stable" => stable = "whole"

(* How far "off" has come: as long as no removal failed, what its file
   records and the table still holds is left to remove. *)
OffProgress(p) ==
  /\ pc[p] \in {"remove", "clear"} => MyDir(p) \in Dirs
  /\ pc[p] = "remove" /\ ~loc[p].warned =>
       file[MyDir(p)].applied \cap table \subseteq loc[p].todo
  /\ pc[p] = "clear" => file[MyDir(p)].applied \cap table = {}

(* Inductive while commands do not overlap. *)
ProgressInv ==
  /\ TypeOK
  /\ OnlySavedRecords
  /\ OneAtATime
  /\ \A p \in Proc : OnProgress(p) /\ OffProgress(p) /\ CopyProgress(p)

(* What becomes of the records that a run finds: of those that it replaces, what
   is blocked is left to clean up, then to be recorded again; the entries that
   a loop removes are on record. An unprivileged process (Windows) gets stuck
   before it replaces any. *)
RecordProgress(p) ==
  LET l == loc[p]
      old == LoadApplied(MyDir(p))
  IN
  /\ pc[p] \in {"unwind", "remove"} => l.todo \subseteq old
  /\ pc[p] = "unwind" /\ Privileged(l.ctx) => old \cap table \subseteq l.todo
  /\ pc[p] = "apply" =>
       IF Privileged(l.ctx) THEN old \cap table \subseteq l.want ELSE l.todo # {}
  /\ pc[p] = "save" => old \cap table \subseteq l.want
  /\ pc[p] = "write" => old = {}

(* Inductive while commands do not overlap, what they call does not fail and
   the state file can be read. *)
RecordInv == ProgressInv /\ \A p \in Proc : RecordProgress(p)

(* Where the table's entries are accounted for while p runs. *)
Accounted(p) ==
  LET l == loc[p] IN
  /\ pc[p] \in {"load", "copy", "fill", "install", "enable", "remove", "unhook",
                "unlink"} \cup Ends
       => table \subseteq Recorded
  /\ pc[p] = "unwind" =>
       table \subseteq IF Privileged(l.ctx) THEN Elsewhere(p) \cup l.todo ELSE Recorded
  /\ pc[p] = "apply" =>
       table \subseteq IF Privileged(l.ctx) THEN Elsewhere(p) \cup l.want ELSE Recorded
  /\ pc[p] \in {"save", "write"} => table \subseteq Elsewhere(p) \cup l.want
  /\ pc[p] = "remove" /\ ~l.warned => table \subseteq Elsewhere(p) \cup l.todo
  /\ pc[p] = "clear" => table \subseteq Elsewhere(p)

(* An unprivileged process (Windows) gets no further than its first command. *)
UnprivilegedStuck(p) ==
  ~Privileged(loc[p].ctx) =>
    /\ pc[p] \notin {"save", "write", "copy", "fill", "install", "enable", "clear",
                    "unhook", "unlink"}
    /\ pc[p] = "apply" => loc[p].todo # {}
    /\ pc[p] = "remove" => loc[p].warned \/ loc[p].todo # {}

(* Inductive while nothing goes wrong but restarts, missing DNS answers and
   the use of several state directories. *)
AccountInv ==
  /\ ProgressInv
  /\ \A p \in Proc :
       /\ Running(p) => MyDir(p) \in Dirs
       /\ Accounted(p)
       /\ UnprivilegedStuck(p)
  /\ (\A p \in Proc : ~Active(p)) => table \subseteq Recorded
=============================================================================
