------------------------- MODULE PersistenceProofs --------------------------
(***************************************************************************)
(* Theorems about the boot hook: what "off" leaves of it, and what a hook  *)
(* that is installed is good for.                                          *)
(***************************************************************************)
EXTENDS SystemFixProofs

(* Only four steps touch the hook ... *)
LEMMA HookKept ==
  ASSUME NEW p \in Proc, Step(p), pc[p] \notin {"install", "enable", "unhook", "unlink"}
  PROVE  hook' = hook
<1>1. CASE StartOn(p) \/ BootOn(p) \/ StartOff(p) \/ ExecStop(p) \/ Exit(p) \/ Crash(p)
  BY <1>1 DEF StartOn, BootOn, StartOff, ExecStop, BeginOff, Exit, Crash, hookVars
<1>2. CASE OnStep(p)
  BY <1>2
  DEF OnStep, OnLoad, OnUnwind, OnUnwindDone, OnApplyDelete, OnApplyAdd, OnApplyFail,
      OnApplyDone, OnSaveOpen, OnSaveWrite, OnSaveFail, OnCopy, OnFill, OnInstall, OnEnable,
      Go, hookVars
<1>3. CASE OffStep(p)
  BY <1>3 DEF OffStep, OffRemove, OffRemoveDone, OffClear, OffUnhook, OffUnlink, Go, hookVars
<1> QED BY <1>1, <1>2, <1>3 DEF Step

(* ... and two the copy of the program. *)
LEMMA CopyKept ==
  ASSUME NEW p \in Proc, Step(p), pc[p] \notin {"copy", "fill"}
  PROVE  stable' = stable
<1>1. CASE StartOn(p) \/ BootOn(p) \/ StartOff(p) \/ ExecStop(p) \/ Exit(p) \/ Crash(p)
  BY <1>1 DEF StartOn, BootOn, StartOff, ExecStop, BeginOff, Exit, Crash, hookVars
<1>2. CASE OnStep(p)
  BY <1>2
  DEF OnStep, OnLoad, OnUnwind, OnUnwindDone, OnApplyDelete, OnApplyAdd, OnApplyFail,
      OnApplyDone, OnSaveOpen, OnSaveWrite, OnSaveFail, OnCopy, OnFill, OnInstall, OnEnable,
      Go, hookVars
<1>3. CASE OffStep(p)
  BY <1>3 DEF OffStep, OffRemove, OffRemoveDone, OffClear, OffUnhook, OffUnlink, Go, hookVars
<1> QED BY <1>1, <1>2, <1>3 DEF Step

(* How a command comes to the labels of the hook. *)
LEMMA HookLabels ==
  ASSUME TypeOK, NEW p \in Proc, Step(p)
  PROVE  /\ pc'[p] = "install" => OnCopy(p) \/ OnFill(p)
         /\ pc'[p] \in {"unhook", "unlink", "said_off"} =>
              OffClear(p) \/ OffUnhook(p) \/ OffUnlink(p)
<1> USE DEF TypeOK, Go
<1>1. CASE StartOn(p) \/ BootOn(p) \/ StartOff(p) \/ ExecStop(p)
  <2>1. pc'[p] \in {"failed", "load", "said_nothing", "remove"}
    <3>1. CASE StartOn(p) \/ BootOn(p)
      BY <3>1 DEF StartOn, BootOn, BeginOn, Start
    <3>2. CASE StartOff(p) \/ ExecStop(p)
      <4>1. PICK c : BeginOff(p, c)
        BY <3>2 DEF StartOff, ExecStop
      <4> QED BY <4>1 DEF BeginOff, Start
    <3> QED BY <1>1, <3>1, <3>2
  <2> QED BY <2>1
<1>2. CASE OnStep(p)
  <2>1. CASE OnCopy(p) \/ OnFill(p)
    <3>1. pc'[p] \in {"fill", "install", "failed"}
      BY <2>1 DEF OnCopy, OnFill
    <3> QED BY <2>1, <3>1
  <2>2. CASE ~(OnCopy(p) \/ OnFill(p))
    <3>1. pc'[p] \notin {"install", "unhook", "unlink", "said_off"}
      BY <1>2, <2>2
      DEF OnStep, OnLoad, OnUnwind, OnUnwindDone, OnApplyDelete, OnApplyAdd, OnApplyFail,
          OnApplyDone, OnSaveOpen, OnSaveWrite, OnSaveFail, OnInstall, OnEnable
    <3> QED BY <3>1
  <2> QED BY <2>1, <2>2
<1>3. CASE OffStep(p)
  BY <1>3 DEF OffStep, OffRemove, OffRemoveDone, OffClear, OffUnhook, OffUnlink
<1>4. CASE Exit(p) \/ Crash(p)
  <2>1. pc'[p] = "idle"
    BY <1>4 DEF Exit, Crash
  <2> QED BY <2>1
<1> QED BY <1>1, <1>2, <1>3, <1>4 DEF Step

(* Only an "off" that starts says that there is nothing to undo. *)
LEMMA NothingLabel ==
  ASSUME TypeOK, NEW p \in Proc, Step(p), pc'[p] = "said_nothing"
  PROVE  \E c \in Contexts : BeginOff(p, c)
<1> USE DEF TypeOK, Go
<1>1. CASE StartOn(p) \/ BootOn(p)
  BY <1>1 DEF StartOn, BootOn, BeginOn, Start
<1>2. CASE StartOff(p) \/ ExecStop(p)
  BY <1>2 DEF StartOff, ExecStop, Contexts
<1>3. CASE OnStep(p)
  <2>1. pc'[p] # "said_nothing"
    BY <1>3
    DEF OnStep, OnLoad, OnUnwind, OnUnwindDone, OnApplyDelete, OnApplyAdd, OnApplyFail,
        OnApplyDone, OnSaveOpen, OnSaveWrite, OnSaveFail, OnCopy, OnFill, OnInstall, OnEnable
  <2> QED BY <2>1
<1>4. CASE OffStep(p)
  BY <1>4 DEF OffStep, OffRemove, OffRemoveDone, OffClear, OffUnhook, OffUnlink
<1>5. CASE Exit(p) \/ Crash(p)
  BY <1>5 DEF Exit, Crash
<1> QED BY <1>1, <1>2, <1>3, <1>4, <1>5 DEF Step

-----------------------------------------------------------------------------
(* What "off" says *)

(* The body of OffEndsPersistence. *)
HookGone(p) == pc[p] = "said_off" /\ ~loc[p].warned => ~Installed

(* On Linux and macOS, whatever fails, is killed or is restarted, an "off"
   that printed no warning has removed the hook. *)
THEOREM OffEndsHook ==
  ASSUME "overlap" \notin Hazards, OS # "windows"
  PROVE  Spec => []OffEndsPersistence
<1> DEFINE Inv == ProgressInv /\ \A p \in Proc : HookGone(p)
<1>1. ASSUME Inv, [Next]_vars
      PROVE  \A q \in Proc : HookGone(q)'
  <2>0. TypeOK /\ OneAtATime
    BY <1>1 DEF ProgressInv
  <2>1. ASSUME NEW p \in Proc, Step(p), NEW q \in Proc
        PROVE  HookGone(q)'
    <3>1. CASE q # p
      <4>1. pc'[q] = "idle"
        BY <2>0, <2>1, <3>1, StepAlone
      <4> QED BY <4>1 DEF HookGone
    <3>2. CASE q = p /\ pc'[p] = "said_off" /\ ~loc'[p].warned
      <4>1. OffUnhook(p) \/ OffUnlink(p)
        <5>1. OffClear(p) => pc'[p] \in {"unhook", "failed"}
          BY <2>0 DEF OffClear, Go, TypeOK
        <5>2. pc'[p] = "said_off"
          BY <3>2
        <5> QED BY <2>0, <2>1, <5>1, <5>2, HookLabels
      <4>2. ASSUME OffUnhook(p) PROVE ~Installed'
        <5>1. ~Installed /\ hook' = hook
          BY <2>0, <3>2, <4>2 DEF OffUnhook, Go, TypeOK
        <5> QED BY <5>1 DEF Installed
      <4>3. ASSUME OffUnlink(p) PROVE ~Installed'
        <5>1. loc' = [loc EXCEPT ![p].warned = TRUE] => loc'[p].warned
          BY <2>0 DEF TypeOK, Local
        <5>2. UnlinkHook
          BY <3>2, <4>3, <5>1 DEF OffUnlink
        <5>3. ~hook'.present
          BY <2>0, <5>2 DEF UnlinkHook, TypeOK, Hook
        <5> QED BY <5>3 DEF Installed
      <4>4. ~Installed'
        BY <4>1, <4>2, <4>3
      <4> QED BY <3>2, <4>4 DEF HookGone
    <3> QED BY <3>1, <3>2 DEF HookGone
  <2>2. CASE Reboot
    BY <2>2 DEF Reboot, HookGone
  <2>3. CASE UNCHANGED vars \/ ProgramMissing
    BY <1>1, <2>3 DEF vars, ProgramMissing, HookGone, Installed
  <2> QED BY <1>1, <2>1, <2>2, <2>3 DEF Next, Step
<1>2. Init => Inv
  BY InitProgress DEF Init, HookGone
<1>3. Inv /\ [Next]_vars => Inv'
  BY <1>1, NextProgress
<1>4. Inv => OffEndsPersistence
  BY DEF OffEndsPersistence, HookGone
<1> QED BY <1>2, <1>3, <1>4, PTL DEF Spec

(* Every command uses the user's state directory. *)
OneDirectory == EnvDir \/ "split" \notin Hazards

(* A command that runs uses it, and no other directory has records. *)
AtHome ==
  /\ \A p \in Proc : Active(p) => MyDir(p) = "user"
  /\ \A d \in Dirs \ {"user"} : file[d].applied = {}

(* A step of a command keeps it. *)
LEMMA AtHomeStep ==
  ASSUME OneDirectory, TypeOK, AtHome, NEW p \in Proc, Step(p)
  PROVE  AtHome'
<1>1. Active(p)' => MyDir(p)' = "user"
  <2>1. CASE StartOn(p) \/ BootOn(p) \/ StartOff(p) \/ ExecStop(p)
    <3>1. PICK c \in Contexts :
             \/ \E hs, per : BeginOn(p, c, hs, per)
             \/ BeginOff(p, c)
      BY <2>1 DEF StartOn, BootOn, StartOff, ExecStop, Contexts
    <3>2. loc'[p].ctx = c
      <4>1. CASE \E hs, per : BeginOn(p, c, hs, per)
        BY <4>1 DEF BeginOn, TypeOK, Fresh
      <4>2. CASE BeginOff(p, c)
        BY <4>2 DEF BeginOff, TypeOK, Fresh
      <4> QED BY <3>1, <4>1, <4>2
    <3>3. \E to : Start(p, c, to)
      BY <3>1 DEF BeginOn, BeginOff
    <3>4. Dir(c) = "user"
      BY <3>3 DEF Start, May, OneDirectory, Dir
    <3> QED BY <3>2, <3>4 DEF MyDir
  <2>2. CASE OnStep(p) \/ OffStep(p)
    <3>1. Active(p)
      BY <2>2
      DEF OnStep, OnLoad, OnUnwind, OnUnwindDone, OnApplyDelete, OnApplyAdd, OnApplyFail,
          OnApplyDone, OnSaveOpen, OnSaveWrite, OnSaveFail, OnCopy, OnFill, OnInstall,
          OnEnable, OffStep, OffRemove, OffRemoveDone, OffClear, OffUnhook, OffUnlink, Go,
          Active
    <3> QED BY <2>2, <3>1, RunFrame DEF AtHome, MyDir
  <2>3. CASE Exit(p) \/ Crash(p)
    BY <2>3 DEF Exit, Crash, Go, TypeOK, Active
  <2> QED BY <2>1, <2>2, <2>3 DEF Step
<1>2. ASSUME NEW q \in Proc, q # p
      PROVE  Active(q)' => MyDir(q)' = "user"
  BY <1>2, StepFrame DEF AtHome, Active, MyDir
<1>3. ASSUME NEW d \in Dirs \ {"user"}
      PROVE  file'[d].applied = {}
  <2>1. CASE OnSaveOpen(p) \/ OnSaveWrite(p) \/ OffClear(p)
    <3>1. Active(p)
      BY <2>1 DEF OnSaveOpen, OnSaveWrite, OffClear, Go, Active
    <3>2. MyDir(p) # d
      BY <3>1 DEF AtHome
    <3>3. file'[d] = file[d]
      BY <2>1, <3>2
      DEF OnSaveOpen, OnSaveWrite, OffClear, SaveOpen, SaveWrite, Clear, TypeOK
    <3> QED BY <3>3 DEF AtHome
  <2>2. CASE ~(OnSaveOpen(p) \/ OnSaveWrite(p) \/ OffClear(p))
    BY <2>2, FileKept DEF AtHome
  <2> QED BY <2>1, <2>2
<1> QED BY <1>1, <1>2, <1>3 DEF AtHome

(* What "off" has undone, from its Clear on, or that it has found no record. *)
Undone(p) ==
  /\ pc[p] \in {"unhook", "unlink", "said_off"} =>
       table \subseteq Elsewhere(p) /\ file[MyDir(p)] = Missing
  /\ pc[p] = "said_off" => loc[p].warned \/ ~Armed
  /\ pc[p] = "said_nothing" => LoadApplied(MyDir(p)) = {}

(* A step of a command keeps it. *)
LEMMA UndoneStep ==
  ASSUME Calm, AccountInv, NEW p \in Proc, Step(p), Undone(p)
  PROVE  Undone(p)'
<1> USE DEF MyDir, Elsewhere
<1>0. TypeOK
  BY DEF AccountInv, ProgressInv
<1>1. CASE OffClear(p)
  <2>1. pc[p] = "clear" /\ pc'[p] = "unhook" /\ Clear(MyDir(p)) /\ loc' = loc /\ table' = table
    BY <1>0, <1>1 DEF OffClear, Go, Calm, May, TypeOK
  <2>2. table \subseteq Elsewhere(p)
    BY <2>1 DEF AccountInv, Accounted
  <2>3. file' = [file EXCEPT ![MyDir(p)] = Missing] /\ MyDir(p) \in Dirs
    BY <2>1 DEF Clear
  <2>4. file'[MyDir(p)] = Missing /\ \A d \in Dirs \ {MyDir(p)} : file'[d] = file[d]
    BY <1>0, <2>3 DEF TypeOK
  <2> QED BY <2>1, <2>2, <2>4 DEF Undone
<1>2. CASE OffUnhook(p)
  <2>1. /\ pc[p] = "unhook" /\ pc'[p] \in {"said_off", "unlink"}
        /\ loc' = loc /\ table' = table /\ file' = file
    BY <1>0, <1>2 DEF OffUnhook, Go, TypeOK, fixVars
  <2>2. ~CommandFails(loc[p].ctx)
    BY <2>1 DEF AccountInv, UnprivilegedStuck, CommandFails, Calm, May
  <2>3. pc'[p] = "said_off" => ~hook'.present
    <3>1. CASE OS = "windows"
      BY <1>2, <2>2, <3>1 DEF OffUnhook, DisableHook, NoHook, Installed
    <3>2. CASE OS # "windows"
      BY <1>0, <1>2, <3>2 DEF OffUnhook, Go, TypeOK, Installed
    <3> QED BY <3>1, <3>2
  <2> QED BY <2>1, <2>3 DEF Undone, Armed
<1>3. CASE OffUnlink(p)
  <2>1. /\ pc[p] = "unlink" /\ pc'[p] = "said_off" /\ table' = table /\ file' = file
        /\ UnlinkHook /\ loc' = loc
    BY <1>0, <1>3 DEF OffUnlink, Go, TypeOK, fixVars, Calm, May
  <2>2. ~hook'.present
    BY <1>0, <2>1 DEF UnlinkHook, TypeOK, Hook
  <2> QED BY <2>1, <2>2 DEF Undone, Armed
<1>4. CASE pc'[p] = "said_nothing"
  <2>1. PICK c \in Contexts : BeginOff(p, c)
    BY <1>0, <1>4, NothingLabel
  <2>2. loc'[p].ctx = c /\ LoadApplied(Dir(c)) = {} /\ file' = file
    BY <1>0, <1>4, <2>1 DEF BeginOff, Start, Go, TypeOK, Fresh, fixVars
  <2> QED BY <1>4, <2>2 DEF Undone, LoadApplied
<1>5. CASE pc'[p] \notin {"unhook", "unlink", "said_off", "said_nothing"}
  BY <1>5 DEF Undone
<1> QED BY <1>0, <1>1, <1>2, <1>3, <1>4, <1>5, HookLabels

(* In calm conditions, where every command uses the same state directory, the
   last words of "off" are true: on every operating system, after "Back to
   default" and after "Nothing to undo" alike, nothing is blocked, and after
   the former no hook will block anything at the next boot. *)
THEOREM OffRestoresDefault ==
  ASSUME Calm, OneDirectory
  PROVE  Spec => []BackToDefault
<1> DEFINE Inv == AccountInv /\ AtHome /\ \A p \in Proc : Undone(p)
<1>1. ASSUME Inv, [Next]_vars
      PROVE  AtHome' /\ \A q \in Proc : Undone(q)'
  <2>0. TypeOK /\ OneAtATime /\ "overlap" \notin Hazards
    BY <1>1 DEF AccountInv, ProgressInv, Calm
  <2>1. ASSUME NEW p \in Proc, Step(p), NEW q \in Proc
        PROVE  Undone(q)'
    <3>1. CASE q # p
      BY <2>0, <2>1, <3>1, StepAlone DEF Undone
    <3> QED BY <1>1, <2>1, <3>1, UndoneStep
  <2>2. ASSUME NEW p \in Proc, Step(p)
        PROVE  AtHome'
    BY <1>1, <2>0, <2>2, AtHomeStep
  <2>3. CASE Reboot
    BY <1>1, <2>3 DEF Reboot, Undone, AtHome, Active
  <2>4. CASE UNCHANGED vars \/ ProgramMissing
    BY <1>1, <2>4
    DEF vars, ProgramMissing, fixVars, Undone, AtHome, Active, Elsewhere, MyDir, Armed,
        LoadApplied
  <2> QED BY <1>1, <2>1, <2>2, <2>3, <2>4 DEF Next, Step
<1>2. Init => Inv
  BY InitAccount DEF Init, Undone, AtHome, Active, Missing
<1>3. Inv /\ [Next]_vars => Inv'
  BY <1>1, NextAccount
<1>4. Inv => BackToDefault
  <2> SUFFICES ASSUME Inv, NEW p \in Proc, pc[p] \in {"said_off", "said_nothing"}
               PROVE  /\ table = {} /\ ~StatusSaysOn(loc[p].ctx)
                      /\ pc[p] = "said_off" => loc[p].warned \/ ~Armed
    BY DEF BackToDefault
  <2>1. LoadApplied(MyDir(p)) = {}
    BY DEF Undone, LoadApplied, Missing
  <2>2. table \subseteq Recorded
    BY EndAccounted DEF AccountInv, Ends
  <2>3. Recorded = {}
    <3>1. MyDir(p) = "user"
      BY DEF AtHome, Active
    <3>2. file["user"].applied = {}
      BY <2>1, <3>1 DEF LoadApplied, Dirs
    <3> QED BY <3>2 DEF AtHome, Recorded
  <2> QED BY <2>1, <2>2, <2>3 DEF Undone, StatusSaysOn, MyDir
<1> QED BY <1>2, <1>3, <1>4, PTL DEF Spec

-----------------------------------------------------------------------------
(* What an installed hook is good for *)

(* In calm conditions a hook on disk names a whole copy and is enabled, but
   while the copy is made, the hook is enabled, or the hook is removed. *)
HookSound ==
  /\ \A p \in Proc : pc[p] = "install" => loc[p].prog = "stable"
  /\ Installed => hook.prog = "stable"
  /\ Installed /\ stable # "whole" => \E p \in Proc : pc[p] = "fill"
  /\ Installed /\ ~hook.enabled => \E p \in Proc : pc[p] \in {"enable", "unlink"}

(* A step of a command keeps it. *)
LEMMA HookSoundStep ==
  ASSUME Calm, AccountInv, NEW p \in Proc, Step(p), HookSound
  PROVE  HookSound'
<1> USE DEF Installed
<1>0. TypeOK /\ OneAtATime /\ "overlap" \notin Hazards
  BY DEF AccountInv, ProgressInv, Calm
<1>1. \A q \in Proc : q # p => pc[q] = "idle" /\ pc'[q] = "idle"
  BY <1>0, StepAlone
<1>2. hook.present =>
        /\ stable # "whole" => pc[p] = "fill"
        /\ ~hook.enabled => pc[p] \in {"enable", "unlink"}
  BY <1>1 DEF HookSound
<1>3. SUFFICES /\ pc'[p] = "install" => loc'[p].prog = "stable"
               /\ hook'.present => hook'.prog = "stable"
               /\ hook'.present /\ stable' # "whole" => pc'[p] = "fill"
               /\ hook'.present /\ ~hook'.enabled => pc'[p] \in {"enable", "unlink"}
  BY <1>1 DEF HookSound
<1>4. CASE OnCopy(p) \/ OnFill(p)
  <2>1. hook' = hook /\ pc[p] \in {"copy", "fill"} /\ pc' = [pc EXCEPT ![p] = pc'[p]]
    BY <1>0, <1>4 DEF OnCopy, OnFill, Go, TypeOK
  <2>2. \/ pc'[p] = "install" /\ stable' = "whole"
           /\ loc' = [loc EXCEPT ![p].prog = "stable"]
        \/ pc'[p] = "fill"
    <3>1. \A q \in Proc \ {p} : ~Active(q)
      BY <1>1 DEF Active
    <3> QED BY <1>0, <1>4, <3>1 DEF OnCopy, OnFill, Go, TypeOK, Calm, May
  <2>3. pc'[p] = "install" => loc'[p].prog = "stable"
    BY <1>0, <2>2 DEF TypeOK, Local
  <2> QED BY <1>2, <2>1, <2>2, <2>3 DEF HookSound
<1>5. CASE OnInstall(p)
  <2>1. /\ pc[p] = "install" /\ stable' = stable
        /\ WriteHook(loc[p].hosts, loc[p].prog)
        /\ pc'[p] = IF OS = "linux" THEN "enable" ELSE "said_on"
    BY <1>0, <1>5 DEF OnInstall, Go, TypeOK, Calm, May
  <2>2. loc[p].prog = "stable" /\ stable = "whole"
    BY <2>1 DEF HookSound, AccountInv, ProgressInv, CopyProgress
  <2>3. hook'.prog = "stable"
    BY <1>0, <2>1, <2>2, WriteHookProg DEF TypeOK
  <2>4. OS # "linux" => hook'.enabled
    BY <2>1 DEF WriteHook, Calm, May
  <2> QED BY <2>1, <2>2, <2>3, <2>4
<1>6. CASE OnEnable(p)
  <2>1. /\ pc[p] = "enable" /\ pc'[p] = "said_on" /\ stable' = stable
        /\ hook' = [hook EXCEPT !.enabled = TRUE]
    BY <1>0, <1>6 DEF OnEnable, EnableHook, Go, TypeOK, Calm, May
  <2>2. hook'.enabled /\ hook'.prog = hook.prog /\ hook'.present = hook.present
    BY <1>0, <2>1 DEF TypeOK, Hook
  <2> QED BY <1>2, <2>1, <2>2 DEF HookSound
<1>7. CASE OffUnhook(p)
  <2>1. /\ pc[p] = "unhook" /\ pc'[p] \in {"said_off", "unlink"} /\ stable' = stable
    BY <1>0, <1>7 DEF OffUnhook, Go, TypeOK
  <2>2. ~CommandFails(loc[p].ctx)
    BY <2>1 DEF AccountInv, UnprivilegedStuck, CommandFails, Calm, May
  <2>3. \/ ~hook'.present
        \/ /\ pc'[p] = "unlink"
           /\ hook' = [hook EXCEPT !.enabled = FALSE]
    BY <1>0, <1>7, <2>2 DEF OffUnhook, DisableHook, NoHook, Go, TypeOK
  <2>4. hook' = [hook EXCEPT !.enabled = FALSE] =>
          hook'.prog = hook.prog /\ hook'.present = hook.present
    BY <1>0 DEF TypeOK, Hook
  <2> QED BY <1>2, <2>1, <2>3, <2>4 DEF HookSound
<1>8. CASE OffUnlink(p)
  <2>1. pc'[p] = "said_off" /\ UnlinkHook
    BY <1>0, <1>8 DEF OffUnlink, Go, TypeOK, Calm, May
  <2>2. ~hook'.present
    BY <1>0, <2>1 DEF UnlinkHook, TypeOK, Hook
  <2> QED BY <2>1, <2>2
<1>9. CASE ~(\/ OnCopy(p) \/ OnFill(p) \/ OnInstall(p) \/ OnEnable(p)
             \/ OffUnhook(p) \/ OffUnlink(p))
  <2>1. pc[p] \notin {"copy", "fill", "install", "enable", "unhook", "unlink"}
    <3>1. ~Crash(p)
      BY DEF Crash, Calm, May
    <3> QED
      BY <1>9, <3>1
      DEF Step, StartOn, BootOn, BeginOn, StartOff, ExecStop, BeginOff, Start, Exit, OnStep,
          OnLoad, OnUnwind, OnUnwindDone, OnApplyDelete, OnApplyAdd, OnApplyFail, OnApplyDone,
          OnSaveOpen, OnSaveWrite, OnSaveFail, OffStep, OffRemove, OffRemoveDone, OffClear,
          Go, Ends
  <2>2. hook' = hook /\ stable' = stable /\ pc'[p] # "install"
    BY <1>0, <1>9, <2>1, HookKept, CopyKept, HookLabels
  <2> QED BY <1>2, <2>1, <2>2 DEF HookSound
<1> QED BY <1>4, <1>5, <1>6, <1>7, <1>8, <1>9

(* In calm conditions, a persistence that status reports is one: on every
   operating system, the next boot runs a whole copy of the program. *)
THEOREM PersistenceIsArmed ==
  ASSUME Calm
  PROVE  Spec => []PersistenceArmed
<1> DEFINE Inv == AccountInv /\ HookSound
<1>1. ASSUME Inv, [Next]_vars
      PROVE  HookSound'
  <2>1. ASSUME NEW p \in Proc, Step(p)
        PROVE  HookSound'
    BY <1>1, <2>1, HookSoundStep
  <2>2. CASE Reboot
    <3>1. \A q \in Proc : pc[q] \notin {"fill", "enable", "unlink"}
      BY <2>2 DEF Reboot, Calm, May, Running, Ends
    <3> QED BY <1>1, <2>2, <3>1 DEF Reboot, HookSound, Installed
  <2>3. CASE UNCHANGED vars \/ ProgramMissing
    BY <1>1, <2>3 DEF vars, ProgramMissing, HookSound, Installed
  <2> QED BY <1>1, <2>1, <2>2, <2>3 DEF Next, Step
<1>2. Init => Inv
  BY InitAccount DEF Init, HookSound, Installed, NoHook
<1>3. Inv /\ [Next]_vars => Inv'
  BY <1>1, NextAccount
<1>4. Inv => PersistenceArmed
  BY DEF HookSound, PersistenceArmed, StatusSaysPersistent, Quiescent, Running, Ends, Armed,
         Installed
<1> QED BY <1>2, <1>3, <1>4, PTL DEF Spec

-----------------------------------------------------------------------------
(* Who takes the hook away *)

(* Except on Linux, whose unit has an ExecStop, only a person runs "off". *)
OffByHand(p) == pc[p] \in OffLabels => loc[p].ctx # "boot"

(* A command that starts, other than at boot, is a person's. *)
LEMMA ByHandBegin ==
  ASSUME TypeOK, NEW p \in Proc, NEW c \in Contexts,
         \/ \E hs, per : BeginOn(p, c, hs, per)
         \/ c # "boot" /\ BeginOff(p, c)
  PROVE  OffByHand(p)'
<1>1. CASE \E hs, per : BeginOn(p, c, hs, per)
  <2>1. pc'[p] \in {"failed", "load"}
    BY <1>1 DEF BeginOn, Start, Go, TypeOK
  <2> QED BY <2>1 DEF OffByHand, OffLabels
<1>2. CASE c # "boot" /\ BeginOff(p, c)
  <2>1. loc'[p].ctx = c
    BY <1>2 DEF BeginOff, Fresh, TypeOK
  <2> QED BY <1>2, <2>1 DEF OffByHand
<1> QED BY <1>1, <1>2

(* On macOS only the unlinking of the plist takes a hook away. *)
LEMMA UnlinkOnly ==
  ASSUME TypeOK, OS = "darwin", NEW p \in Proc, Step(p), Installed, ~Installed'
  PROVE  OffUnlink(p)
<1>1. pc[p] \in {"install", "enable", "unhook", "unlink"}
  BY HookKept DEF Installed
<1>2. ~OnInstall(p)
  <2>1. ASSUME OnInstall(p) PROVE Installed'
    <3>1. CASE UNCHANGED <<hook, bootJob>>
      BY <3>1 DEF Installed
    <3>2. CASE WriteHook(loc[p].hosts, loc[p].prog)
      <4>1. [hook EXCEPT !.present = TRUE, !.hosts = loc[p].hosts,
                         !.prog = loc[p].prog].present = TRUE
        BY DEF TypeOK, Hook
      <4>2. [present |-> TRUE, enabled |-> TRUE, hosts |-> loc[p].hosts,
             prog |-> loc[p].prog].present = TRUE
        OBVIOUS
      <4>3. hook'.present = TRUE
        BY <3>2, <4>1, <4>2 DEF WriteHook
      <4> QED BY <4>3 DEF Installed
    <3> QED BY <2>1, <3>1, <3>2 DEF OnInstall
  <2> QED BY <2>1
<1>3. ~OnEnable(p) /\ ~OffUnhook(p)
  <2>1. ASSUME EnableHook \/ DisableHook \/ UNCHANGED <<hook, bootJob>>
        PROVE  Installed'
    BY <2>1 DEF EnableHook, DisableHook, Installed, TypeOK, Hook
  <2> QED BY <2>1 DEF OnEnable, OffUnhook
<1>4. ~(StartOn(p) \/ BootOn(p) \/ StartOff(p) \/ ExecStop(p) \/ Exit(p))
  BY <1>1 DEF StartOn, BootOn, BeginOn, StartOff, ExecStop, BeginOff, Start, Exit, Go, Ends
<1>5. ~Crash(p)
  BY DEF Crash, hookVars, Installed
<1>6. OnStep(p) => OnInstall(p) \/ OnEnable(p)
  BY <1>1
  DEF OnStep, OnLoad, OnUnwind, OnUnwindDone, OnApplyDelete, OnApplyAdd, OnApplyFail,
      OnApplyDone, OnSaveOpen, OnSaveWrite, OnSaveFail, OnCopy, OnFill, Go
<1>7. OffStep(p) => OffUnhook(p) \/ OffUnlink(p)
  BY <1>1 DEF OffStep, OffRemove, OffRemoveDone, OffClear, Go
<1> QED BY <1>2, <1>3, <1>4, <1>5, <1>6, <1>7 DEF Step

(* On macOS, whatever overlaps, fails, is killed or is restarted, only a
   person's "off" takes the hook away. (On Linux the "off" of a unit's
   ExecStop may, once the unit has become active.) *)
THEOREM PersistsOnMac ==
  ASSUME OS = "darwin"
  PROVE  Spec => PersistsUntilOff
<1> DEFINE Inv == TypeOK /\ \A p \in Proc : OffByHand(p)
           A == Installed /\ ~Installed' =>
                  \E p \in Proc : pc[p] = "unlink" /\ loc[p].ctx # "boot"
<1>1. Init => Inv
  BY InitType DEF Init, OffByHand, OffLabels
<1>2. ASSUME Inv, [Next]_vars
      PROVE  \A q \in Proc : OffByHand(q)'
  <2>1. ASSUME NEW p \in Proc, Step(p), NEW q \in Proc
        PROVE  OffByHand(q)'
    <3>1. CASE q # p
      BY <1>2, <2>1, <3>1, StepFrame DEF OffByHand
    <3>2. CASE StartOn(p) \/ BootOn(p) \/ StartOff(p) \/ ExecStop(p)
      <4>1. PICK c \in Contexts :
               \/ \E hs, per : BeginOn(p, c, hs, per)
               \/ c # "boot" /\ BeginOff(p, c)
        BY <3>2 DEF StartOn, BootOn, StartOff, ExecStop, Contexts
      <4> QED BY <1>2, <3>1, <4>1, ByHandBegin
    <3>3. CASE OnStep(p)
      <4>1. pc'[p] \notin OffLabels
        BY <1>2, <3>3
        DEF OnStep, OnLoad, OnUnwind, OnUnwindDone, OnApplyDelete, OnApplyAdd, OnApplyFail,
            OnApplyDone, OnSaveOpen, OnSaveWrite, OnSaveFail, OnCopy, OnFill, OnInstall,
            OnEnable, Go, TypeOK, OffLabels
      <4> QED BY <3>1, <4>1 DEF OffByHand
    <3>4. CASE OffStep(p)
      <4>1. pc[p] \in OffLabels
        BY <3>4
        DEF OffStep, OffRemove, OffRemoveDone, OffClear, OffUnhook, OffUnlink, Go, OffLabels
      <4>2. loc'[p].ctx = loc[p].ctx
        BY <1>2, <3>4, RunFrame
      <4> QED BY <1>2, <3>1, <4>1, <4>2 DEF OffByHand
    <3>5. CASE Exit(p) \/ Crash(p)
      <4>1. pc'[p] = "idle"
        BY <1>2, <3>5 DEF Exit, Crash, Go, TypeOK
      <4> QED BY <3>1, <4>1 DEF OffByHand, OffLabels
    <3> QED BY <2>1, <3>2, <3>3, <3>4, <3>5 DEF Step
  <2>2. CASE Reboot
    BY <2>2 DEF Reboot, OffByHand, OffLabels
  <2>3. CASE UNCHANGED vars \/ ProgramMissing
    BY <1>2, <2>3 DEF vars, ProgramMissing, OffByHand
  <2> QED BY <1>2, <2>1, <2>2, <2>3 DEF Next, Step
<1>3. Inv /\ [Next]_vars => Inv'
  BY <1>2, NextType
<1>4. ASSUME Inv, [Next]_vars
      PROVE  A
  <2>1. ASSUME NEW p \in Proc, Step(p), Installed, ~Installed'
        PROVE  pc[p] = "unlink" /\ loc[p].ctx # "boot"
    <3>1. pc[p] = "unlink"
      BY <1>4, <2>1, UnlinkOnly DEF OffUnlink, Go
    <3> QED BY <1>4, <3>1 DEF OffByHand, OffLabels
  <2>2. CASE Reboot \/ ProgramMissing \/ UNCHANGED vars
    BY <2>2 DEF Reboot, ProgramMissing, vars, Installed
  <2> QED BY <1>4, <2>1, <2>2 DEF Next, Step
<1>5. Inv /\ [Next]_vars => [A]_vars
  BY <1>4
<1> QED BY <1>1, <1>3, <1>5, PTL DEF Spec, PersistsUntilOff
=============================================================================
