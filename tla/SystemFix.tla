----------------------------- MODULE SystemFix ------------------------------
(***************************************************************************)
(* The commands "on", "off" and "status" on one machine: processes that    *)
(* change the system's blocking table, the state file and the boot hook,   *)
(* one system call or command at a time, with no lock between them. The    *)
(* boot hook runs "on" after a restart and, on Linux, "off" when its unit  *)
(* is stopped.                                                             *)
(*                                                                         *)
(* DNS answers are the environment's: a resolution returns any set of      *)
(* addresses. Addresses are handled one at a time in any order.            *)
(***************************************************************************)
EXTENDS Route, StateFile, BootHook

CONSTANT Proc   \* the processes that may run at the same time

VARIABLES
  pc,   \* pc[p]: where process p is in its command
  loc   \* loc[p]: its local variables

fixVars  == <<table, file>>
hookVars == <<hook, bootJob, unitActive, stable>>
vars     == <<table, file, hook, bootJob, unitActive, stable, pc, loc>>

OnLabels  == {"load", "unwind", "apply", "save", "write", "copy", "fill", "install",
              "enable"}
OffLabels == {"remove", "clear", "unhook", "unlink"}
Ends      == {"said_on", "said_off", "said_nothing", "failed"}
Labels    == {"idle"} \cup OnLabels \cup OffLabels \cup Ends

Local ==
  [ctx : Contexts,
   hosts : SUBSET Host,         \* on: the domains
   want : SUBSET Addr,          \* on: the addresses they resolved to
   todo : SUBSET Addr,          \* entries the current loop still has to handle
   replacing : SUBSET Addr,     \* Windows: deleted, to be added again next
   persist : BOOLEAN,           \* on: --persist
   prog : Program,              \* on: what persistentBinPath returns
   warned : BOOLEAN]            \* an error was met and only reported

Fresh ==
  [ctx |-> "user", hosts |-> {}, want |-> {}, todo |-> {}, replacing |-> {},
   persist |-> FALSE, prog |-> "other", warned |-> FALSE]

Init ==
  /\ table = {}
  /\ file = [d \in Dirs |-> Missing]
  /\ hook = NoHook
  /\ bootJob = {}
  /\ unitActive = FALSE
  /\ stable \in {"absent", "whole"}   \* whole: put there by the installer
  /\ pc = [p \in Proc |-> "idle"]
  /\ loc = [p \in Proc |-> Fresh]

(* Process p is at label from and goes on to label to. *)
Go(p, from, to) == pc[p] = from /\ pc' = [pc EXCEPT ![p] = to]

Running(p) == pc[p] \notin {"idle"} \cup Ends

Active(p) == pc[p] # "idle"

MyDir(p) == Dir(loc[p].ctx)

(* A process starts in context c; it is a mishap to start while another
   command runs, or with a state directory other than the user's. *)
Start(p, c, to) ==
  /\ Go(p, "idle", to)
  /\ (\E q \in Proc : Active(q)) => May({"overlap"})
  /\ Dir(c) # "user" => May({"split"})

-----------------------------------------------------------------------------
(* on *)

(* dnsutil.Resolve: a host has any addresses, or none if the lookup fails. *)
Resolve == SUBSET Addr

(* What ResolveAll may return: the union of the hosts' answers, of which some
   may be missing. *)
ResolveAll(hs) == {UNION {answer[h] : h \in hs} : answer \in [hs -> Resolve]}

(* cmdOn up to the resolution of the domains. *)
BeginOn(p, c, hs, per) ==
  \E as \in ResolveAll(hs) :
    /\ Start(p, c, IF NeedsElevation(c) \/ as = {} THEN "failed" ELSE "load")
    /\ as = {} => May({"nodns"})
    /\ loc' = [loc EXCEPT ![p] = [Fresh EXCEPT !.ctx = c, !.hosts = hs,
                                               !.want = as, !.persist = per]]
    /\ UNCHANGED fixVars

StartOn(p) ==
  /\ \E c \in Contexts \ {"boot"}, hs \in (SUBSET Host) \ {{}}, per \in BOOLEAN :
       BeginOn(p, c, hs, per)
  /\ UNCHANGED hookVars

(* The boot hook: "on --domains <hosts>", without --persist. *)
BootOn(p) ==
  /\ bootJob # {} /\ MayStart
  /\ BeginOn(p, "boot", bootJob, FALSE)
  /\ bootJob' = {}
  /\ UNCHANGED <<hook, unitActive, stable>>

(* Mutant: no previous mitigation is looked for. *)
OnLoadForgets(p) ==
  Go(p, "load", "unwind") /\ UNCHANGED <<loc, fixVars, hookVars>>

(* prev, _ := state.Load(): an error counts as nothing to clean up. *)
OnLoad(p) ==
  /\ Go(p, "load", "unwind")
  /\ \/ loc' = [loc EXCEPT ![p].todo = LoadApplied(MyDir(p))]
     \/ LoadMayFail(MyDir(p)) /\ loc' = [loc EXCEPT ![p].todo = {}]
  /\ UNCHANGED <<fixVars, hookVars>>

(* _ = route.Remove(prev.Applied): a failed command is passed over. *)
OnUnwind(p) ==
  /\ pc[p] = "unwind"
  /\ \E a \in loc[p].todo :
       /\ \/ DeleteEntry(loc[p].ctx, a)
          \/ CommandFails(loc[p].ctx) /\ UNCHANGED table
       /\ loc' = [loc EXCEPT ![p].todo = @ \ {a}]
  /\ UNCHANGED <<pc, file, hookVars>>

OnUnwindDone(p) ==
  /\ loc[p].todo = {}
  /\ Go(p, "unwind", "apply")
  /\ loc' = [loc EXCEPT ![p].todo = loc[p].want]
  /\ UNCHANGED <<fixVars, hookVars>>

OnApplyDelete(p) ==
  /\ pc[p] = "apply" /\ DeletesFirst /\ loc[p].replacing = {}
  /\ \E a \in loc[p].todo :
       /\ DeleteEntry(loc[p].ctx, a)
       /\ loc' = [loc EXCEPT ![p].replacing = {a}]
  /\ UNCHANGED <<pc, file, hookVars>>

OnApplyAdd(p) ==
  /\ pc[p] = "apply"
  /\ \E a \in loc[p].todo :
       /\ DeletesFirst => a \in loc[p].replacing
       /\ AddEntry(loc[p].ctx, a)
       /\ loc' = [loc EXCEPT ![p] = [loc[p] EXCEPT !.todo = @ \ {a}, !.replacing = {}]]
  /\ UNCHANGED <<pc, file, hookVars>>

(* Mutant: the first command to fail ends the loop only. *)
OnApplyGivesUp(p) ==
  /\ loc[p].todo # {}
  /\ CommandFails(loc[p].ctx)
  /\ Go(p, "apply", "save")
  /\ UNCHANGED <<loc, fixVars, hookVars>>

(* The first command to fail ends "on": nothing is saved or rolled back. *)
OnApplyFail(p) ==
  /\ loc[p].todo # {}
  /\ CommandFails(loc[p].ctx)
  /\ Go(p, "apply", "failed")
  /\ UNCHANGED <<loc, fixVars, hookVars>>

OnApplyDone(p) ==
  /\ loc[p].todo = {}
  /\ Go(p, "apply", "save")
  /\ UNCHANGED <<loc, fixVars, hookVars>>

OnSaveOpen(p) ==
  /\ Go(p, "save", "write")
  /\ SaveOpen(MyDir(p))
  /\ UNCHANGED <<loc, table, hookVars>>

OnSaveWrite(p) ==
  /\ Go(p, "write", IF loc[p].persist THEN "copy" ELSE "said_on")
  /\ SaveWrite(MyDir(p), loc[p].hosts, loc[p].want)
  /\ UNCHANGED <<loc, table, hookVars>>

(* "fix applied but state not saved": no directory, or a failed mkdir, open
   or write; a failed write leaves the file truncated. *)
OnSaveFail(p) ==
  /\ \/ Go(p, "save", "failed") /\ MyDir(p) = "nowhere"
     \/ \E from \in {"save", "write"} : Go(p, from, "failed") /\ May({"iofail"})
  /\ UNCHANGED <<loc, fixVars, hookVars>>

(* persistentBinPath: the program that runs is the one at StableBinPath, or it
   is copied there: the file is truncated first, which fails with an I/O error
   or while another process runs it. *)
OnCopy(p) ==
  /\ \/ /\ Go(p, "copy", "install") /\ stable = "whole"
        /\ loc' = [loc EXCEPT ![p].prog = "stable"]
        /\ UNCHANGED stable
     \/ /\ Go(p, "copy", "install")
        /\ May({"iofail"}) \/ \E q \in Proc \ {p} : Active(q)
        /\ UNCHANGED <<loc, stable>>
     \/ /\ Go(p, "copy", "fill")
        /\ stable' = "torn"
        /\ UNCHANGED loc
  /\ UNCHANGED <<fixVars, hook, bootJob, unitActive>>

(* Mutant: the error of WriteFile is dropped. *)
OnFillReturnsTarget(p) ==
  /\ Go(p, "fill", "install")
  /\ stable' = "whole" \/ (May({"iofail"}) /\ UNCHANGED stable)
  /\ loc' = [loc EXCEPT ![p].prog = "stable"]
  /\ UNCHANGED <<fixVars, hook, bootJob, unitActive>>

(* The copy is written. A failed write leaves it torn, and the hook will name
   the program that runs. *)
OnFill(p) ==
  /\ Go(p, "fill", "install")
  /\ \/ stable' = "whole" /\ loc' = [loc EXCEPT ![p].prog = "stable"]
     \/ May({"iofail"}) /\ UNCHANGED <<loc, stable>>
  /\ UNCHANGED <<fixVars, hook, bootJob, unitActive>>

(* boot.Install; an error is only a warning. *)
OnInstall(p) ==
  /\ \/ /\ Go(p, "install", IF OS = "linux" THEN "enable" ELSE "said_on")
        /\ WriteHook(loc[p].hosts, loc[p].prog)
        /\ UNCHANGED loc
     \/ /\ Go(p, "install", "said_on")
        /\ May(IF OS = "windows" THEN {"cmdfail"} ELSE {"iofail"})
        /\ loc' = [loc EXCEPT ![p].warned = TRUE]
        /\ UNCHANGED <<hook, bootJob>>
  /\ UNCHANGED <<fixVars, unitActive, stable>>

OnEnable(p) ==
  /\ Go(p, "enable", "said_on")
  /\ \/ EnableHook /\ UNCHANGED loc
     \/ /\ May({"cmdfail"})
        /\ loc' = [loc EXCEPT ![p].warned = TRUE]
        /\ UNCHANGED <<hook, bootJob>>
  /\ UNCHANGED <<fixVars, unitActive, stable>>

-----------------------------------------------------------------------------
(* off *)

(* cmdOff up to route.Remove. *)
BeginOff(p, c) ==
  LET applied == LoadApplied(Dir(c))
      begun   == [Fresh EXCEPT !.ctx = c]
  IN
  /\ \/ /\ LoadMayFail(Dir(c))
        /\ Start(p, c, "failed")
        /\ loc' = [loc EXCEPT ![p] = begun]
     \/ /\ ~LoadFails(Dir(c))
        /\ Start(p, c, IF applied = {} THEN "said_nothing"
                       ELSE IF NeedsElevation(c) THEN "failed" ELSE "remove")
        /\ loc' = [loc EXCEPT ![p] = [begun EXCEPT !.todo = applied]]
  /\ UNCHANGED <<fixVars, hook, bootJob, stable>>

StartOff(p) ==
  /\ \E c \in Contexts \ {"boot"} : BeginOff(p, c)
  /\ UNCHANGED unitActive

(* systemd stops the unit (at shutdown, or on request): ExecStop=... off. *)
ExecStop(p) ==
  /\ OS = "linux" /\ unitActive /\ hook.present /\ MayStart
  /\ BeginOff(p, "boot")
  /\ unitActive' = FALSE

(* Mutant: a record is retried until its command succeeds, and "not in table"
   is not tolerated. *)
OffRemoveRetries(p) ==
  /\ pc[p] = "remove"
  /\ \E a \in loc[p].todo \cap table :
       /\ DeleteEntry(loc[p].ctx, a)
       /\ loc' = [loc EXCEPT ![p].todo = @ \ {a}]
  /\ UNCHANGED <<pc, file, hookVars>>

(* route.Remove tries every record and returns the first error. *)
OffRemove(p) ==
  /\ pc[p] = "remove"
  /\ \E a \in loc[p].todo :
       \/ /\ DeleteEntry(loc[p].ctx, a)
          /\ loc' = [loc EXCEPT ![p].todo = @ \ {a}]
       \/ /\ CommandFails(loc[p].ctx)
          /\ loc' = [loc EXCEPT ![p] = [loc[p] EXCEPT !.todo = @ \ {a}, !.warned = TRUE]]
          /\ UNCHANGED table
  /\ UNCHANGED <<pc, file, hookVars>>

(* Mutant: the error of route.Remove is dropped. *)
OffRemoveShrugs(p) ==
  /\ loc[p].todo = {}
  /\ Go(p, "remove", "clear")
  /\ UNCHANGED <<loc, fixVars, hookVars>>

(* Mutant: the loop stops after its first record. *)
OffRemoveOne(p) ==
  /\ Go(p, "remove", IF loc[p].warned THEN "failed" ELSE "clear")
  /\ UNCHANGED <<loc, fixVars, hookVars>>

OffRemoveDone(p) ==
  /\ loc[p].todo = {}
  /\ Go(p, "remove", IF loc[p].warned THEN "failed" ELSE "clear")
  /\ UNCHANGED <<loc, fixVars, hookVars>>

(* Mutant: the user's state is cleared, whoever runs "off". *)
OffClearUsers(p) ==
  /\ Go(p, "clear", "unhook") /\ Clear("user")
  /\ UNCHANGED <<loc, table, hookVars>>

OffClear(p) ==
  /\ \/ Go(p, "clear", "unhook") /\ Clear(MyDir(p))
     \/ Go(p, "clear", "failed") /\ May({"iofail"}) /\ UNCHANGED file
  /\ UNCHANGED <<loc, table, hookVars>>

(* Mutant: the hook is left alone. *)
OffUnhookSkipped(p) ==
  Go(p, "unhook", "said_off") /\ UNCHANGED <<loc, fixVars, hookVars>>

(* boot.Installed, then the first command of boot.Remove, whose error is
   ignored. *)
OffUnhook(p) ==
  /\ \/ ~Installed /\ Go(p, "unhook", "said_off") /\ UNCHANGED <<hook, bootJob>>
     \/ /\ Installed
        /\ Go(p, "unhook", IF OS = "windows" THEN "said_off" ELSE "unlink")
        /\ DisableHook \/ (CommandFails(loc[p].ctx) /\ UNCHANGED <<hook, bootJob>>)
  /\ UNCHANGED <<loc, fixVars, unitActive, stable>>

(* Mutant: an error is not even a warning. *)
OffUnlinkSilent(p) ==
  /\ Go(p, "unlink", "said_off")
  /\ \/ UnlinkHook
     \/ May({"iofail"}) /\ UNCHANGED <<hook, bootJob>>
  /\ UNCHANGED <<loc, fixVars, unitActive, stable>>

(* The rest of boot.Remove; an error is only a warning. On Linux
   daemon-reload may fail after the file is gone. *)
OffUnlink(p) ==
  /\ Go(p, "unlink", "said_off")
  /\ \/ UnlinkHook /\ UNCHANGED loc
     \/ /\ \/ OS = "linux" /\ May({"cmdfail"}) /\ UnlinkHook
           \/ May({"iofail"}) /\ UNCHANGED <<hook, bootJob>>
        /\ loc' = [loc EXCEPT ![p].warned = TRUE]
  /\ UNCHANGED <<fixVars, unitActive, stable>>

-----------------------------------------------------------------------------
(* Processes and the machine *)

(* A command ends. systemd counts a unit whose ExecStart succeeded active. *)
Exit(p) ==
  /\ \E from \in Ends : Go(p, from, "idle")
  /\ loc' = [loc EXCEPT ![p] = Fresh]
  /\ unitActive' = (unitActive \/ /\ OS = "linux" /\ pc[p] = "said_on"
                                  /\ loc[p].ctx = "boot")
  /\ UNCHANGED <<fixVars, hook, bootJob, stable>>

(* A command is killed: the system stays as it is. *)
Crash(p) ==
  /\ Running(p) /\ May({"crash"})
  /\ pc' = [pc EXCEPT ![p] = "idle"]
  /\ loc' = [loc EXCEPT ![p] = Fresh]
  /\ UNCHANGED <<fixVars, hookVars>>

(* The service manager cannot start the hook's program, for its "on" or for
   its "off". *)
ProgramMissing ==
  /\ MayNotStart
  /\ \/ bootJob # {} /\ bootJob' = {} /\ UNCHANGED unitActive
     \/ unitActive /\ unitActive' = FALSE /\ UNCHANGED bootJob
  /\ UNCHANGED <<fixVars, hook, stable, pc, loc>>

(* The machine restarts, killing what runs; an armed hook is queued. *)
Reboot ==
  /\ May({"reboot"})
  /\ (\E p \in Proc : Running(p)) => May({"crash"})
  /\ table' = TableAfterReboot
  /\ bootJob' = BootJobAfterReboot
  /\ unitActive' = FALSE
  /\ pc' = [p \in Proc |-> "idle"]
  /\ loc' = [p \in Proc |-> Fresh]
  /\ UNCHANGED <<file, hook, stable>>

OnStep(p) ==
  \/ OnLoad(p) \/ OnUnwind(p) \/ OnUnwindDone(p) \/ OnApplyDelete(p)
  \/ OnApplyAdd(p) \/ OnApplyFail(p) \/ OnApplyDone(p) \/ OnSaveOpen(p)
  \/ OnSaveWrite(p) \/ OnSaveFail(p) \/ OnCopy(p) \/ OnFill(p)
  \/ OnInstall(p) \/ OnEnable(p)

OffStep(p) ==
  \/ OffRemove(p) \/ OffRemoveDone(p) \/ OffClear(p) \/ OffUnhook(p)
  \/ OffUnlink(p)

Next ==
  \/ Reboot \/ ProgramMissing
  \/ \E p \in Proc :
       \/ StartOn(p) \/ BootOn(p) \/ StartOff(p) \/ ExecStop(p)
       \/ OnStep(p) \/ OffStep(p) \/ Exit(p) \/ Crash(p)

Spec == Init /\ [][Next]_vars

(* A started command keeps being scheduled, and the service manager starts a
   queued job as soon as nothing in the way of it recurs for ever. *)
FairSpec ==
  /\ Spec
  /\ \A p \in Proc : WF_vars(OnStep(p) \/ OffStep(p) \/ Exit(p))
  /\ SF_vars(\E p \in Proc : BootOn(p))
=============================================================================
