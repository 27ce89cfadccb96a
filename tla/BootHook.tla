------------------------------ MODULE BootHook ------------------------------
(***************************************************************************)
(* Package boot: the hook that re-runs "on" at every boot. On Linux it is  *)
(* a systemd unit file and its enablement, with ExecStop running "off"; on *)
(* macOS a LaunchDaemon with RunAtLoad, which launchctl also starts when   *)
(* the plist is loaded; on Windows a scheduled task. The service manager   *)
(* is external.                                                            *)
(***************************************************************************)
EXTENDS Platform

VARIABLES
  hook,        \* the hook on disk
  bootJob,     \* domains of the boot job waiting to be started, {} if none
  unitActive,  \* Linux: the unit's ExecStart has succeeded since boot
  stable       \* the program at StableBinPath

(* The hook names the program at StableBinPath or any other one. *)
Program == {"stable", "other"}

Copy == {"absent", "torn", "whole"}

Hook ==
  [present : BOOLEAN, enabled : BOOLEAN, hosts : SUBSET Host, prog : Program]

(* launchd runs a plist unless it was unloaded with -w. *)
NoHook ==
  [present |-> FALSE, enabled |-> OS = "darwin", hosts |-> {}, prog |-> "other"]

(* Installed looks at the unit file, the plist or the task, not at whether
   the service manager has it enabled. *)
Installed == hook.present

(* The next boot runs the hook. *)
Armed == hook.present /\ hook.enabled

(* Whether the hook's program starts: one that is elsewhere may be gone, of
   the copy only a whole one starts. *)
MayStart == hook.prog = "other" \/ stable = "whole"
MayNotStart == hook.prog = "other" \/ stable # "whole"

(* Install, first part. Linux: the unit file is written. macOS: the plist is
   written and loaded, which starts the job unless it was loaded already; a
   failure to load is ignored. Windows: the task is created, enabled. *)
WriteHook(hs, prog) ==
  LET written == [hook EXCEPT !.present = TRUE, !.hosts = hs, !.prog = prog]
      armed == [present |-> TRUE, enabled |-> TRUE, hosts |-> hs, prog |-> prog]
  IN \/ OS = "linux" /\ hook' = written /\ UNCHANGED bootJob
     \/ OS = "darwin" /\ hook' = armed /\ bootJob' \in {bootJob, hs}
     \/ OS = "darwin" /\ May({"cmdfail"}) /\ hook' = written /\ UNCHANGED bootJob
     \/ OS = "windows" /\ hook' = armed /\ UNCHANGED bootJob

(* Mutant: the unit is written and not enabled. *)
EnableNothing == UNCHANGED <<hook, bootJob>>

(* Install on Linux, second part: daemon-reload and enable. *)
EnableHook == hook' = [hook EXCEPT !.enabled = TRUE] /\ UNCHANGED bootJob

(* Remove, first part: "systemctl disable", "launchctl unload -w" or
   "schtasks /delete". *)
DisableHook ==
  \/ OS = "linux" /\ hook' = [hook EXCEPT !.enabled = FALSE] /\ UNCHANGED bootJob
  \/ OS = "darwin" /\ hook' = [hook EXCEPT !.enabled = FALSE] /\ bootJob' = {}
  \/ OS = "windows" /\ hook' = NoHook /\ UNCHANGED bootJob

(* Remove on Linux and macOS, second part: the file is unlinked. *)
UnlinkHook ==
  /\ hook' = [hook EXCEPT !.present = FALSE, !.hosts = {}, !.prog = "other"]
  /\ UNCHANGED bootJob

(* A restart queues the job of an armed hook. *)
BootJobAfterReboot == IF Armed THEN hook.hosts ELSE {}
=============================================================================
