-------------------------- MODULE SystemFixProofs ---------------------------
(***************************************************************************)
(* Theorems about SystemFix for every operating system, every set of       *)
(* addresses, domains and processes.                                       *)
(***************************************************************************)
EXTENDS SystemFixProperties, TLAPS

(* Domains resolve to addresses. *)
LEMMA ResolvedType ==
  ASSUME NEW hs, NEW as \in ResolveAll(hs)
  PROVE  as \in SUBSET Addr
<1>1. PICK answer \in [hs -> Resolve] : as = UNION {answer[h] : h \in hs}
  BY Zenon DEF ResolveAll
<1>2. \A h \in hs : answer[h] \subseteq Addr
  BY DEF Resolve
<1> QED BY <1>1, <1>2

(* A state directory is one of three, or there is none. *)
LEMMA DirType ==
  ASSUME NEW c \in Contexts
  PROVE  Dir(c) \in Dirs \cup {"nowhere"}
BY DEF Dir, Dirs, Contexts

(* The locals of a process that has not started are well typed. *)
LEMMA FreshType == Fresh \in Local
BY DEF Fresh, Local, Contexts, Program

(* The hook of a machine without one is well typed. *)
LEMMA NoHookType == NoHook \in Hook
<1>1. (OS = "darwin") \in BOOLEAN OBVIOUS
<1> QED BY <1>1 DEF NoHook, Hook, Program

(* A hook that is written is well typed. *)
LEMMA WriteHookType ==
  ASSUME hook \in Hook, bootJob \subseteq Host, NEW hs \in SUBSET Host,
         NEW prog \in Program, WriteHook(hs, prog)
  PROVE  hook' \in Hook /\ bootJob' \subseteq Host
<1>1. [hook EXCEPT !.present = TRUE, !.hosts = hs, !.prog = prog] \in Hook
  BY DEF Hook
<1>2. [present |-> TRUE, enabled |-> TRUE, hosts |-> hs, prog |-> prog] \in Hook
  BY DEF Hook
<1>3. hook' \in Hook
  BY <1>1, <1>2 DEF WriteHook
<1>4. bootJob' \subseteq Host
  BY DEF WriteHook
<1> QED BY <1>3, <1>4

(* The other commands of package boot leave a well-typed hook. *)
LEMMA HookType ==
  ASSUME hook \in Hook, bootJob \subseteq Host,
         \/ EnableHook \/ DisableHook \/ UnlinkHook
         \/ UNCHANGED <<hook, bootJob>>
  PROVE  hook' \in Hook /\ bootJob' \subseteq Host
<1>1. CASE EnableHook BY <1>1 DEF EnableHook, Hook
<1>2. CASE DisableHook
  BY <1>2, NoHookType DEF DisableHook, Hook
<1>3. CASE UnlinkHook BY <1>3 DEF UnlinkHook, Hook, Program
<1>4. CASE UNCHANGED <<hook, bootJob>> BY <1>4
<1> QED BY <1>1, <1>2, <1>3, <1>4

(* The machine before the first command is well typed. *)
LEMMA InitType == Init => TypeOK
<1> SUFFICES ASSUME Init PROVE TypeOK
  OBVIOUS
<1>1. Missing \in Content
  BY DEF Missing, Content
<1> QED BY <1>1, NoHookType, FreshType DEF Init, TypeOK, Labels, Copy

(* One step of one process keeps the types. *)
LEMMA ProcessType ==
  ASSUME TypeOK, NEW p \in Proc,
         \/ StartOn(p) \/ BootOn(p) \/ StartOff(p) \/ ExecStop(p)
         \/ OnStep(p) \/ OffStep(p) \/ Exit(p) \/ Crash(p)
  PROVE  TypeOK'
<1> USE DEF TypeOK
<1>1. ASSUME NEW c \in Contexts, NEW hs \in SUBSET Host, NEW per \in BOOLEAN,
             BeginOn(p, c, hs, per)
      PROVE  /\ table' \subseteq Addr /\ file' \in [Dirs -> Content]
             /\ pc' \in [Proc -> Labels] /\ loc' \in [Proc -> Local]
  <2> PICK as \in SUBSET Addr :
        /\ Start(p, c, IF NeedsElevation(c) \/ as = {} THEN "failed" ELSE "load")
        /\ loc' = [loc EXCEPT ![p] = [Fresh EXCEPT !.ctx = c, !.hosts = hs,
                                                   !.want = as, !.persist = per]]
    BY <1>1, ResolvedType DEF BeginOn
  <2>1. [Fresh EXCEPT !.ctx = c, !.hosts = hs, !.want = as, !.persist = per] \in Local
    BY FreshType DEF Local
  <2>2. pc' \in [Proc -> Labels]
    BY DEF Start, Go, Labels, OnLabels, Ends
  <2> QED BY <1>1, <2>1, <2>2 DEF BeginOn, fixVars
<1>2. ASSUME NEW c \in Contexts, BeginOff(p, c)
      PROVE  /\ table' \subseteq Addr /\ file' \in [Dirs -> Content]
             /\ hook' \in Hook /\ bootJob' \subseteq Host /\ stable' \in Copy
             /\ pc' \in [Proc -> Labels] /\ loc' \in [Proc -> Local]
  <2>1. LoadApplied(Dir(c)) \in SUBSET Addr
    BY DEF LoadApplied, Content
  <2>2. PICK to \in Labels : pc' = [pc EXCEPT ![p] = to]
    BY <1>2 DEF BeginOff, Start, Go, Labels, OffLabels, Ends
  <2>3. /\ [Fresh EXCEPT !.ctx = c] \in Local
        /\ [[Fresh EXCEPT !.ctx = c] EXCEPT !.todo = LoadApplied(Dir(c))] \in Local
    BY <2>1, FreshType DEF Local
  <2>4. loc' \in [Proc -> Local]
    BY <1>2, <2>3 DEF BeginOff
  <2> QED BY <1>2, <2>2, <2>4 DEF BeginOff, fixVars
<1>3. CASE StartOn(p)
  BY <1>1, <1>3 DEF StartOn, hookVars
<1>4. CASE BootOn(p)
  BY <1>1, <1>4 DEF BootOn, Contexts
<1>5. CASE StartOff(p)
  BY <1>2, <1>5 DEF StartOff
<1>6. CASE ExecStop(p)
  BY <1>2, <1>6 DEF ExecStop, Contexts
<1>7. CASE OnStep(p)
  <2> USE DEF hookVars, fixVars, Go, Labels, OnLabels, Ends
  <2>1. CASE OnLoad(p)
    <3>1. LoadApplied(MyDir(p)) \in SUBSET Addr
      BY DEF LoadApplied, Content
    <3> QED BY <2>1, <3>1 DEF OnLoad, Local
  <2>2. CASE OnUnwind(p) BY <2>2 DEF OnUnwind, Local, DeleteEntry
  <2>3. CASE OnUnwindDone(p) BY <2>3 DEF OnUnwindDone, Local
  <2>4. CASE OnApplyDelete(p) BY <2>4 DEF OnApplyDelete, Local, DeleteEntry
  <2>5. CASE OnApplyAdd(p)
    <3>1. PICK a \in loc[p].todo :
            /\ AddEntry(loc[p].ctx, a)
            /\ loc' = [loc EXCEPT ![p] =
                         [loc[p] EXCEPT !.todo = @ \ {a}, !.replacing = {}]]
      BY <2>5 DEF OnApplyAdd
    <3> DEFINE l == [loc[p] EXCEPT !.todo = @ \ {a}, !.replacing = {}]
    <3>2. l \in Local
      BY DEF Local
    <3>3. loc' \in [Proc -> Local]
      <4>1. loc' = [loc EXCEPT ![p] = l]
        BY <3>1
      <4> HIDE DEF l
      <4> QED BY <3>2, <4>1
    <3>4. table' \subseteq Addr
      BY <3>1 DEF AddEntry, Local
    <3> QED BY <2>5, <3>3, <3>4 DEF OnApplyAdd
  <2>6. CASE OnApplyFail(p) BY <2>6 DEF OnApplyFail
  <2>7. CASE OnApplyDone(p) BY <2>7 DEF OnApplyDone
  <2>8. CASE OnSaveOpen(p)
    BY <2>8 DEF OnSaveOpen, SaveOpen, Torn, Content
  <2>9. CASE OnSaveWrite(p)
    BY <2>9 DEF OnSaveWrite, SaveWrite, Saved, Content, Local
  <2>10. CASE OnSaveFail(p) BY <2>10 DEF OnSaveFail
  <2>11. CASE OnInstall(p)
    <3>1. loc[p].hosts \in SUBSET Host /\ loc[p].prog \in Program
      BY DEF Local
    <3>2. hook' \in Hook /\ bootJob' \subseteq Host
      BY <2>11, <3>1, WriteHookType DEF OnInstall
    <3>3. loc' \in [Proc -> Local]
      <4>1. loc' = loc \/ loc' = [loc EXCEPT ![p].warned = TRUE]
        BY <2>11 DEF OnInstall
      <4>2. [loc[p] EXCEPT !.warned = TRUE] \in Local
        BY DEF Local
      <4> QED BY <4>1, <4>2
    <3> QED BY <2>11, <3>2, <3>3 DEF OnInstall
  <2>12. CASE OnEnable(p)
    <3>1. hook' \in Hook /\ bootJob' \subseteq Host
      BY <2>12, HookType DEF OnEnable
    <3>2. loc' = loc \/ loc' = [loc EXCEPT ![p].warned = TRUE]
      BY <2>12 DEF OnEnable
    <3>3. [loc[p] EXCEPT !.warned = TRUE] \in Local
      BY DEF Local
    <3>4. loc' \in [Proc -> Local]
      BY <3>2, <3>3
    <3> QED BY <2>12, <3>1, <3>4 DEF OnEnable
  <2>13. CASE OnCopy(p) \/ OnFill(p)
    <3>1. loc' = loc \/ loc' = [loc EXCEPT ![p].prog = "stable"]
      BY <2>13 DEF OnCopy, OnFill
    <3>2. [loc[p] EXCEPT !.prog = "stable"] \in Local
      BY DEF Local, Program
    <3>3. loc' \in [Proc -> Local]
      BY <3>1, <3>2
    <3>4. pc' \in [Proc -> Labels] /\ stable' \in Copy
      BY <2>13 DEF OnCopy, OnFill, Copy
    <3> QED BY <2>13, <3>3, <3>4 DEF OnCopy, OnFill
  <2> QED
    BY <1>7, <2>1, <2>2, <2>3, <2>4, <2>5, <2>6, <2>7, <2>8, <2>9, <2>10,
       <2>11, <2>12, <2>13 DEF OnStep
<1>8. CASE OffStep(p)
  <2> USE DEF hookVars, fixVars, Go, Labels, OffLabels, Ends
  <2>1. CASE OffRemove(p)
    <3>1. PICK a \in loc[p].todo :
            /\ table' \subseteq table
            /\ \/ loc' = [loc EXCEPT ![p].todo = @ \ {a}]
               \/ loc' = [loc EXCEPT ![p] =
                            [loc[p] EXCEPT !.todo = @ \ {a}, !.warned = TRUE]]
      BY <2>1 DEF OffRemove, DeleteEntry
    <3> DEFINE l1 == [loc[p] EXCEPT !.todo = @ \ {a}]
               l2 == [loc[p] EXCEPT !.todo = @ \ {a}, !.warned = TRUE]
    <3>2. l1 \in Local /\ l2 \in Local
      BY DEF Local
    <3>4. loc' \in [Proc -> Local]
      <4>1. loc' = [loc EXCEPT ![p] = l1] \/ loc' = [loc EXCEPT ![p] = l2]
        BY <3>1
      <4> HIDE DEF l1, l2
      <4> QED BY <3>2, <4>1
    <3> QED BY <2>1, <3>1, <3>4 DEF OffRemove
  <2>2. CASE OffRemoveDone(p) BY <2>2 DEF OffRemoveDone
  <2>3. CASE OffClear(p) BY <2>3 DEF OffClear, Clear, Missing, Content
  <2>4. CASE OffUnhook(p)
    BY <2>4, HookType DEF OffUnhook
  <2>5. CASE OffUnlink(p)
    <3>1. hook' \in Hook /\ bootJob' \subseteq Host
      BY <2>5, HookType DEF OffUnlink
    <3>2. loc' = loc \/ loc' = [loc EXCEPT ![p].warned = TRUE]
      BY <2>5 DEF OffUnlink
    <3>3. [loc[p] EXCEPT !.warned = TRUE] \in Local
      BY DEF Local
    <3>4. loc' \in [Proc -> Local]
      BY <3>2, <3>3
    <3> QED BY <2>5, <3>1, <3>4 DEF OffUnlink
  <2> QED BY <1>8, <2>1, <2>2, <2>3, <2>4, <2>5 DEF OffStep
<1>9. CASE Exit(p)
  BY <1>9, FreshType DEF Exit, Go, Labels, fixVars
<1>10. CASE Crash(p)
  BY <1>10, FreshType DEF Crash, Labels, fixVars, hookVars
<1> QED BY <1>3, <1>4, <1>5, <1>6, <1>7, <1>8, <1>9, <1>10

(* Every step, a restart included, keeps the types. *)
LEMMA NextType == TypeOK /\ [Next]_vars => TypeOK'
<1> SUFFICES ASSUME TypeOK, [Next]_vars PROVE TypeOK'
  OBVIOUS
<1>1. CASE Reboot
  BY <1>1, FreshType
  DEF Reboot, TypeOK, TableAfterReboot, BootJobAfterReboot, Hook, Labels
<1>2. CASE UNCHANGED vars
  BY <1>2 DEF vars, TypeOK
<1>3. CASE ProgramMissing
  BY <1>3 DEF ProgramMissing, TypeOK, fixVars
<1> QED BY <1>1, <1>2, <1>3, ProcessType DEF Next

(* Every reachable state is well typed. *)
THEOREM TypeCorrect == Spec => []TypeOK
<1> QED BY InitType, NextType, PTL DEF Spec

-----------------------------------------------------------------------------
(* Runs of on and off that do not overlap. *)

Step(p) ==
  \/ StartOn(p) \/ BootOn(p) \/ StartOff(p) \/ ExecStop(p)
  \/ OnStep(p) \/ OffStep(p) \/ Exit(p) \/ Crash(p)

(* A step of p leaves the other processes alone. *)
LEMMA StepFrame ==
  ASSUME TypeOK, NEW p \in Proc, Step(p), NEW q \in Proc, q # p
  PROVE  pc'[q] = pc[q] /\ loc'[q] = loc[q]
<1> USE DEF TypeOK
<1>1. CASE StartOn(p) \/ BootOn(p)
  BY <1>1 DEF StartOn, BootOn, BeginOn, Start, Go
<1>2. CASE StartOff(p) \/ ExecStop(p)
  BY <1>2 DEF StartOff, ExecStop, BeginOff, Start, Go
<1>3. CASE OnStep(p)
  BY <1>3 DEF OnStep, OnLoad, OnUnwind, OnUnwindDone, OnApplyDelete,
              OnApplyAdd, OnApplyFail, OnApplyDone, OnSaveOpen, OnSaveWrite,
              OnSaveFail, OnCopy, OnFill, OnInstall, OnEnable, Go
<1>4. CASE OffStep(p)
  BY <1>4 DEF OffStep, OffRemove, OffRemoveDone, OffClear, OffUnhook,
              OffUnlink, Go
<1>5. CASE Exit(p) \/ Crash(p)
  BY <1>5 DEF Exit, Crash, Go
<1> QED BY <1>1, <1>2, <1>3, <1>4, <1>5 DEF Step

(* Who runs a command, and what it resolved, stay the same while it runs. *)
LEMMA RunFrame ==
  ASSUME TypeOK, NEW p \in Proc, OnStep(p) \/ OffStep(p)
  PROVE  loc'[p].ctx = loc[p].ctx /\ loc'[p].want = loc[p].want
<1> USE DEF TypeOK, Local
<1>1. CASE OnApplyAdd(p)
  <2>1. PICK a \in loc[p].todo :
          loc' = [loc EXCEPT ![p] = [loc[p] EXCEPT !.todo = @ \ {a}, !.replacing = {}]]
    BY <1>1 DEF OnApplyAdd
  <2> QED BY <2>1
<1>2. CASE OnStep(p) /\ ~OnApplyAdd(p)
  <2>1. CASE OnCopy(p) \/ OnFill(p)
    BY <2>1 DEF OnCopy, OnFill
  <2>2. CASE OnInstall(p) \/ OnEnable(p)
    BY <2>2 DEF OnInstall, OnEnable
  <2>3. CASE OnUnwind(p) \/ OnApplyDelete(p)
    BY <2>3 DEF OnUnwind, OnApplyDelete
  <2> QED
    BY <1>2, <2>1, <2>2, <2>3
    DEF OnStep, OnLoad, OnUnwindDone, OnApplyFail, OnApplyDone, OnSaveOpen, OnSaveWrite,
        OnSaveFail
<1>3. CASE OffRemove(p)
  <2>1. PICK a \in loc[p].todo :
          \/ loc' = [loc EXCEPT ![p].todo = @ \ {a}]
          \/ loc' = [loc EXCEPT ![p] = [loc[p] EXCEPT !.todo = @ \ {a}, !.warned = TRUE]]
    BY <1>3 DEF OffRemove
  <2>2. CASE loc' = [loc EXCEPT ![p].todo = @ \ {a}]
    BY <2>2
  <2>3. CASE loc' = [loc EXCEPT ![p] = [loc[p] EXCEPT !.todo = @ \ {a}, !.warned = TRUE]]
    BY <2>3
  <2> QED BY <2>1, <2>2, <2>3
<1>4. CASE OffStep(p) /\ ~OffRemove(p)
  BY <1>4 DEF OffStep, OffRemoveDone, OffClear, OffUnhook, OffUnlink
<1> QED BY <1>1, <1>2, <1>3, <1>4

(* Without overlap, the process that steps is the only active one. *)
LEMMA StepAlone ==
  ASSUME "overlap" \notin Hazards, TypeOK, OneAtATime,
         NEW p \in Proc, Step(p), NEW q \in Proc, q # p
  PROVE  pc[q] = "idle" /\ pc'[q] = "idle"
<1>1. pc'[q] = pc[q]
  BY StepFrame
<1>2. CASE Active(p)
  BY <1>1, <1>2 DEF OneAtATime, Active
<1>3. CASE ~Active(p)
  <2>1. \E c \in Contexts, to \in Labels : Start(p, c, to)
    <3>1. CASE StartOn(p)
      BY <3>1 DEF StartOn, BeginOn, Labels, OnLabels, Ends
    <3>2. CASE BootOn(p)
      BY <3>2 DEF BootOn, BeginOn, Labels, OnLabels, Ends, Contexts
    <3>3. CASE StartOff(p)
      BY <3>3 DEF StartOff, BeginOff, Labels, OffLabels, Ends
    <3>4. CASE ExecStop(p)
      BY <3>4 DEF ExecStop, BeginOff, Labels, OffLabels, Ends, Contexts
    <3>5. ~OnStep(p)
      BY <1>3 DEF Active, OnStep, OnLoad, OnUnwind, OnUnwindDone,
                  OnApplyDelete, OnApplyAdd, OnApplyFail, OnApplyDone,
                  OnSaveOpen, OnSaveWrite, OnSaveFail, OnCopy, OnFill, OnInstall, OnEnable, Go
    <3>6. ~OffStep(p)
      BY <1>3 DEF Active, OffStep, OffRemove, OffRemoveDone, OffClear,
                  OffUnhook, OffUnlink, Go
    <3>7. ~Exit(p) /\ ~Crash(p)
      BY <1>3 DEF Active, Exit, Crash, Go, Ends, Running
    <3> QED BY <3>1, <3>2, <3>3, <3>4, <3>5, <3>6, <3>7 DEF Step
  <2> QED BY <1>1, <2>1 DEF Start, May, Active
<1> QED BY <1>2, <1>3

(* Each step of "on" keeps what it has achieved: blocked, then recorded. *)
LEMMA ProgressOnStep ==
  ASSUME TypeOK, TypeOK', NEW p \in Proc, OnlySavedRecords, OnProgress(p),
         OffProgress(p), OnStep(p)
  PROVE  OnlySavedRecords' /\ OnProgress(p)' /\ OffProgress(p)'
<1> USE DEF TypeOK, Go, OnProgress, OffProgress, MyDir, fixVars, hookVars, OnlySavedRecords
<1>1. CASE OnLoad(p) BY <1>1 DEF OnLoad, Local
<1>2. CASE OnUnwind(p) BY <1>2 DEF OnUnwind, Local
<1>3. CASE OnUnwindDone(p) BY <1>3 DEF OnUnwindDone, Local
<1>4. CASE OnApplyDelete(p) BY <1>4 DEF OnApplyDelete, Local, DeleteEntry
<1>5. CASE OnApplyAdd(p) BY <1>5 DEF OnApplyAdd, Local, AddEntry
<1>6. CASE OnApplyFail(p) BY <1>6 DEF OnApplyFail
<1>7. CASE OnApplyDone(p) BY <1>7 DEF OnApplyDone
<1>8. CASE OnSaveOpen(p) BY <1>8 DEF OnSaveOpen, SaveOpen, Torn
<1>9. CASE OnSaveWrite(p) BY <1>9 DEF OnSaveWrite, SaveWrite, Saved
<1>10. CASE OnSaveFail(p) BY <1>10 DEF OnSaveFail
<1>11. CASE OnInstall(p) BY <1>11 DEF OnInstall, Local
<1>12. CASE OnEnable(p) BY <1>12 DEF OnEnable, Local
<1>13. CASE OnCopy(p) \/ OnFill(p)
  <2>1. loc' = loc \/ loc' = [loc EXCEPT ![p].prog = "stable"]
    BY <1>13 DEF OnCopy, OnFill
  <2>2. /\ loc'[p].ctx = loc[p].ctx /\ loc'[p].hosts = loc[p].hosts
        /\ loc'[p].want = loc[p].want
    BY <2>1 DEF Local
  <2>3. /\ pc[p] \in {"copy", "fill"} /\ pc'[p] \in {"fill", "install"}
        /\ table' = table /\ file' = file
    BY <1>13 DEF OnCopy, OnFill
  <2> QED BY <2>2, <2>3
<1> QED
  BY <1>1, <1>2, <1>3, <1>4, <1>5, <1>6, <1>7, <1>8, <1>9, <1>10, <1>11,
     <1>12, <1>13 DEF OnStep

(* Each step of "off" keeps account of what it still has to remove. *)
LEMMA ProgressOffStep ==
  ASSUME TypeOK, TypeOK', NEW p \in Proc, OnlySavedRecords, OnProgress(p),
         OffProgress(p), OffStep(p)
  PROVE  OnlySavedRecords' /\ OnProgress(p)' /\ OffProgress(p)'
<1> USE DEF TypeOK, Go, OnProgress, OffProgress, MyDir, fixVars, hookVars, OnlySavedRecords
<1>1. CASE OffRemove(p)
  <2>1. PICK a \in loc[p].todo :
          \/ /\ table' = table \ {a}
             /\ loc' = [loc EXCEPT ![p].todo = @ \ {a}]
          \/ loc' = [loc EXCEPT ![p] = [loc[p] EXCEPT !.todo = @ \ {a},
                                                     !.warned = TRUE]]
    BY <1>1 DEF OffRemove, DeleteEntry
  <2>2. CASE /\ table' = table \ {a}
             /\ loc' = [loc EXCEPT ![p].todo = @ \ {a}]
    BY <1>1, <2>2 DEF OffRemove, Local
  <2>3. CASE loc' = [loc EXCEPT ![p] = [loc[p] EXCEPT !.todo = @ \ {a},
                                                     !.warned = TRUE]]
    <3>1. loc'[p].warned /\ loc'[p].ctx = loc[p].ctx
      BY <2>3 DEF Local
    <3> QED BY <1>1, <3>1 DEF OffRemove
  <2> QED BY <2>1, <2>2, <2>3
<1>2. CASE OffRemoveDone(p) BY <1>2 DEF OffRemoveDone
<1>3. CASE OffClear(p) BY <1>3 DEF OffClear, Clear, Missing
<1>4. CASE OffUnhook(p) BY <1>4 DEF OffUnhook
<1>5. CASE OffUnlink(p) BY <1>5 DEF OffUnlink
<1> QED BY <1>1, <1>2, <1>3, <1>4, <1>5 DEF OffStep

(* An "off" that starts has all that its file records left to remove. *)
LEMMA ProgressBeginOff ==
  ASSUME TypeOK, NEW p \in Proc, NEW c \in Contexts, BeginOff(p, c),
         OnlySavedRecords
  PROVE  OnlySavedRecords' /\ OnProgress(p)' /\ OffProgress(p)'
<1>1. file' = file /\ table' = table /\ loc'[p].ctx = c
  BY DEF BeginOff, fixVars, TypeOK, Fresh
<1>2. /\ pc'[p] \in {"failed", "said_nothing", "remove"}
      /\ pc'[p] = "remove" => ~LoadFails(Dir(c)) /\ loc'[p].todo = LoadApplied(Dir(c))
  BY DEF BeginOff, Start, Go, TypeOK, Fresh
<1>3. pc'[p] = "remove" => Dir(c) \in Dirs
  BY <1>2, DirType DEF LoadFails
<1> QED
  BY <1>1, <1>2, <1>3
  DEF OnlySavedRecords, OnProgress, OffProgress, MyDir, LoadApplied

(* An "on" that starts has achieved nothing, and has something to do. *)
LEMMA ProgressBeginOn ==
  ASSUME TypeOK, NEW p \in Proc, NEW c \in Contexts, NEW hs, NEW per,
         BeginOn(p, c, hs, per), OnlySavedRecords
  PROVE  OnlySavedRecords' /\ OnProgress(p)' /\ OffProgress(p)'
<1>1. PICK as \in SUBSET Addr :
        /\ Start(p, c, IF NeedsElevation(c) \/ as = {} THEN "failed" ELSE "load")
        /\ loc' = [loc EXCEPT ![p] = [Fresh EXCEPT !.ctx = c, !.hosts = hs,
                                                   !.want = as, !.persist = per]]
  BY ResolvedType DEF BeginOn
<1>2. loc'[p].want = as
  BY <1>1 DEF TypeOK, Fresh
<1>3. pc'[p] \in {"failed", "load"} /\ (pc'[p] = "load" => as # {})
  BY <1>1 DEF Start, Go, TypeOK
<1> QED
  BY <1>2, <1>3
  DEF BeginOn, fixVars, OnlySavedRecords, OnProgress, OffProgress

(* Each step of a command keeps what it knows about the copy. *)
LEMMA CopyStep ==
  ASSUME TypeOK, TypeOK', NEW p \in Proc, CopyProgress(p), Step(p)
  PROVE  CopyProgress(p)'
<1> USE DEF TypeOK, Go, CopyProgress, hookVars
<1>1. CASE StartOn(p) \/ BootOn(p)
  <2>1. loc'[p].prog = "other"
    BY <1>1 DEF StartOn, BootOn, BeginOn, Fresh
  <2> QED BY <2>1
<1>2. CASE StartOff(p) \/ ExecStop(p)
  <2>1. loc'[p].prog = "other"
    BY <1>2 DEF StartOff, ExecStop, BeginOff, Fresh
  <2> QED BY <2>1
<1>3. CASE OnLoad(p) BY <1>3 DEF OnLoad, Local
<1>4. CASE OnUnwind(p) BY <1>4 DEF OnUnwind, Local
<1>5. CASE OnUnwindDone(p) BY <1>5 DEF OnUnwindDone, Local
<1>6. CASE OnApplyDelete(p) BY <1>6 DEF OnApplyDelete, Local
<1>7. CASE OnApplyAdd(p)
  <2>1. loc'[p].prog = loc[p].prog
    BY <1>7 DEF OnApplyAdd, Local
  <2> QED BY <1>7, <2>1 DEF OnApplyAdd
<1>8. CASE OnApplyFail(p) \/ OnApplyDone(p) \/ OnSaveOpen(p) \/ OnSaveWrite(p) \/ OnSaveFail(p)
  BY <1>8 DEF OnApplyFail, OnApplyDone, OnSaveOpen, OnSaveWrite, OnSaveFail
<1>9. CASE OnCopy(p) \/ OnFill(p)
  BY <1>9 DEF OnCopy, OnFill, Local
<1>10. CASE OnInstall(p) \/ OnEnable(p)
  <2>1. pc'[p] \in {"enable", "said_on"}
    BY <1>10 DEF OnInstall, OnEnable
  <2> QED BY <2>1
<1>11. CASE OffStep(p)
  <2>1. pc'[p] \in OffLabels \cup Ends
    BY <1>11
    DEF OffStep, OffRemove, OffRemoveDone, OffClear, OffUnhook, OffUnlink,
        OffLabels, Ends
  <2> QED BY <2>1 DEF OffLabels, Ends
<1>12. CASE Exit(p) \/ Crash(p)
  BY <1>12 DEF Exit, Crash
<1> QED
  BY <1>1, <1>2, <1>3, <1>4, <1>5, <1>6, <1>7, <1>8, <1>9, <1>10, <1>11, <1>12
  DEF Step, OnStep

(* The heart of the safety properties: without overlap, a step keeps what on
   and off have achieved so far. *)
LEMMA NextProgress ==
  ASSUME "overlap" \notin Hazards, ProgressInv, [Next]_vars
  PROVE  ProgressInv'
<1> USE DEF ProgressInv
<1>1. TypeOK'
  BY NextType
<1>2. ASSUME NEW p \in Proc, Step(p)
      PROVE  ProgressInv'
  <2>1. \A q \in Proc : q # p => pc'[q] = "idle"
    BY <1>2, StepAlone
  <2>2. OneAtATime'
    BY <2>1 DEF OneAtATime, Active
  <2>3. ASSUME NEW q \in Proc, q # p
        PROVE  OnProgress(q)' /\ OffProgress(q)' /\ CopyProgress(q)'
    BY <2>1, <2>3 DEF OnProgress, OffProgress, CopyProgress
  <2>4. OnlySavedRecords' /\ OnProgress(p)' /\ OffProgress(p)'
    <3>1. CASE StartOn(p)
      BY <3>1, ProgressBeginOn DEF StartOn
    <3>2. CASE BootOn(p)
      BY <3>2, ProgressBeginOn DEF BootOn, Contexts
    <3>3. CASE StartOff(p)
      BY <3>3, ProgressBeginOff DEF StartOff
    <3>4. CASE ExecStop(p)
      BY <3>4, ProgressBeginOff DEF ExecStop, Contexts
    <3>5. CASE OnStep(p)
      BY <1>1, <3>5, ProgressOnStep
    <3>6. CASE OffStep(p)
      BY <1>1, <3>6, ProgressOffStep
    <3>7. CASE Exit(p) \/ Crash(p)
      <4>1. pc'[p] = "idle" /\ file' = file
        BY <3>7 DEF Exit, Crash, Go, fixVars, TypeOK
      <4> QED BY <4>1 DEF OnlySavedRecords, OnProgress, OffProgress
    <3> QED BY <1>2, <3>1, <3>2, <3>3, <3>4, <3>5, <3>6, <3>7 DEF Step
  <2>5. CopyProgress(p)'
    BY <1>1, <1>2, CopyStep
  <2> QED BY <1>1, <2>2, <2>3, <2>4, <2>5
<1>3. CASE Reboot
  <2>1. file' = file /\ \A q \in Proc : pc'[q] = "idle"
    BY <1>3 DEF Reboot
  <2> QED
    BY <1>1, <2>1
    DEF OnlySavedRecords, OneAtATime, Active, OnProgress, OffProgress, CopyProgress
<1>4. CASE UNCHANGED vars \/ ProgramMissing
  BY <1>1, <1>4
  DEF vars, ProgramMissing, fixVars, OnlySavedRecords, OneAtATime, Active,
      OnProgress, OffProgress, CopyProgress, MyDir
<1> QED BY <1>2, <1>3, <1>4 DEF Next, Step

(* Nothing runs and nothing is recorded at first. *)
LEMMA InitProgress == Init => ProgressInv
<1> SUFFICES ASSUME Init PROVE ProgressInv
  OBVIOUS
<1>1. \A q \in Proc : pc[q] = "idle"
  BY DEF Init
<1>2. OnlySavedRecords
  BY DEF Init, OnlySavedRecords, Missing
<1> QED
  BY <1>1, <1>2, InitType
  DEF ProgressInv, OneAtATime, Active, OnProgress, OffProgress, CopyProgress

(* Without overlap, the progress of on and off is as their code assumes it. *)
THEOREM ProgressInvariant ==
  ASSUME "overlap" \notin Hazards
  PROVE  Spec => []ProgressInv
<1>1. ProgressInv /\ [Next]_vars => ProgressInv'
  BY NextProgress
<1> QED BY <1>1, InitProgress, PTL DEF Spec

(* A successful "on" has blocked and recorded all it resolved, whatever the
   commands, the files, kills and restarts did before. *)
THEOREM OnIsHonest ==
  ASSUME "overlap" \notin Hazards
  PROVE  Spec => []OnHonest
<1>1. ProgressInv => OnHonest
  BY DEF ProgressInv, OnProgress, OnHonest
<1> QED BY <1>1, ProgressInvariant, PTL

(* A hook that is written names the program it was given. *)
LEMMA WriteHookProg ==
  ASSUME hook \in Hook, NEW hs, NEW prog, WriteHook(hs, prog)
  PROVE  hook'.prog = prog
<1>1. [hook EXCEPT !.present = TRUE, !.hosts = hs, !.prog = prog].prog = prog
  BY DEF Hook
<1>2. [present |-> TRUE, enabled |-> TRUE, hosts |-> hs, prog |-> prog].prog = prog
  OBVIOUS
<1>3. \/ hook' = [hook EXCEPT !.present = TRUE, !.hosts = hs, !.prog = prog]
      \/ hook' = [present |-> TRUE, enabled |-> TRUE, hosts |-> hs, prog |-> prog]
  BY Zenon DEF WriteHook
<1> QED BY <1>1, <1>2, <1>3

(* The other commands of package boot name no new program. *)
LEMMA OtherHookProg ==
  ASSUME hook \in Hook,
         EnableHook \/ DisableHook \/ UnlinkHook \/ UNCHANGED <<hook, bootJob>>
  PROVE  hook'.prog \in {hook.prog, "other"}
<1>1. /\ [hook EXCEPT !.enabled = TRUE].prog = hook.prog
      /\ [hook EXCEPT !.enabled = FALSE].prog = hook.prog
      /\ [hook EXCEPT !.present = FALSE, !.hosts = {}, !.prog = "other"].prog = "other"
  BY DEF Hook
<1>2. NoHook.prog = "other"
  BY DEF NoHook
<1> QED BY <1>1, <1>2 DEF EnableHook, DisableHook, UnlinkHook

(* No hook is ever pointed at a torn copy of the program, whatever fails, is
   killed or is restarted. *)
THEOREM HookProgramWhole ==
  ASSUME "overlap" \notin Hazards
  PROVE  Spec => HookNamesProgram
<1> DEFINE A == hook' # hook /\ Installed' /\ hook'.prog = "stable"
                  /\ hook'.prog # hook.prog => stable' = "whole"
<1>1. ASSUME ProgressInv, [Next]_vars, hook'.prog = "stable", hook.prog # "stable"
      PROVE  stable' = "whole"
  <2>0. hook \in Hook /\ \A p \in Proc : CopyProgress(p)
    BY <1>1 DEF ProgressInv, TypeOK
  <2>1. PICK p \in Proc : OnInstall(p)
    <3>1. ASSUME NEW p \in Proc, Step(p), ~OnInstall(p)
          PROVE  FALSE
      <4>1. hook'.prog \in {hook.prog, "other"}
        <5>1. CASE StartOn(p) \/ BootOn(p) \/ StartOff(p) \/ ExecStop(p)
                     \/ Exit(p) \/ Crash(p)
          BY <5>1
          DEF StartOn, BootOn, StartOff, ExecStop, BeginOff, Exit, Crash, hookVars
        <5>2. CASE OnEnable(p)
          BY <2>0, <5>2, OtherHookProg DEF OnEnable
        <5>3. CASE OnStep(p) /\ ~OnEnable(p)
          BY <3>1, <5>3
          DEF OnStep, OnLoad, OnUnwind, OnUnwindDone, OnApplyDelete, OnApplyAdd,
              OnApplyFail, OnApplyDone, OnSaveOpen, OnSaveWrite, OnSaveFail,
              OnCopy, OnFill, hookVars
        <5>4. CASE OffUnhook(p)
          BY <2>0, <5>4, OtherHookProg DEF OffUnhook
        <5>5. CASE OffUnlink(p)
          BY <2>0, <5>5, OtherHookProg DEF OffUnlink
        <5>6. CASE OffStep(p) /\ ~OffUnhook(p) /\ ~OffUnlink(p)
          BY <5>6 DEF OffStep, OffRemove, OffRemoveDone, OffClear, hookVars
        <5> QED BY <3>1, <5>1, <5>2, <5>3, <5>4, <5>5, <5>6 DEF Step
      <4> QED BY <1>1, <4>1
    <3>2. ~Reboot /\ ~ProgramMissing /\ ~UNCHANGED vars
      BY <1>1 DEF Reboot, ProgramMissing, vars
    <3> QED BY <1>1, <3>1, <3>2 DEF Next, Step
  <2>2. /\ pc[p] = "install" /\ stable' = stable
        /\ WriteHook(loc[p].hosts, loc[p].prog)
    BY <1>1, <2>1 DEF OnInstall, Go
  <2>3. hook'.prog = loc[p].prog
    BY <2>0, <2>2, WriteHookProg
  <2> QED BY <1>1, <2>0, <2>2, <2>3 DEF CopyProgress
<1>2. ProgressInv /\ [Next]_vars => [A]_vars
  BY <1>1
<1> QED BY <1>2, ProgressInvariant, PTL DEF Spec, HookNamesProgram

(* "off" deletes a state file only when nothing it records is blocked. *)
THEOREM OffKeepsRecords ==
  ASSUME "overlap" \notin Hazards
  PROVE  Spec => OffNeverForgets
<1> DEFINE A == \A d \in Dirs : file[d].kind = "saved" /\ file'[d].kind = "none"
                                  => file[d].applied \cap table = {}
<1>1. ASSUME ProgressInv, [Next]_vars
      PROVE  A \/ UNCHANGED vars
  <2> USE DEF ProgressInv, TypeOK
  <2>1. ASSUME NEW d \in Dirs, NEW p \in Proc, Step(p),
               file[d].kind = "saved", file'[d].kind = "none"
        PROVE  file[d].applied \cap table = {}
    <3>1. CASE StartOn(p) \/ BootOn(p) \/ StartOff(p) \/ ExecStop(p) \/ Exit(p) \/ Crash(p)
      BY <2>1, <3>1
      DEF StartOn, BootOn, BeginOn, StartOff, ExecStop, BeginOff, Exit, Crash, fixVars
    <3>2. CASE OnStep(p)
      <4>1. CASE OnSaveOpen(p)
        <5>1. \/ file'[d] = Torn
              \/ file'[d] = file[d]
          BY <4>1 DEF OnSaveOpen, SaveOpen
        <5> QED BY <2>1, <5>1 DEF Torn
      <4>2. CASE OnSaveWrite(p)
        <5>1. \/ file'[d] = Saved(loc[p].hosts, loc[p].want)
              \/ file'[d] = file[d]
          BY <4>2 DEF OnSaveWrite, SaveWrite
        <5> QED BY <2>1, <5>1 DEF Saved
      <4> QED
        BY <2>1, <3>2, <4>1, <4>2
        DEF OnStep, OnLoad, OnUnwind, OnUnwindDone, OnApplyDelete, OnApplyAdd,
            OnApplyFail, OnApplyDone, OnSaveFail, OnCopy, OnFill, OnInstall, OnEnable, fixVars
    <3>3. CASE OffStep(p)
      <4>1. CASE OffClear(p)
        <5>1. pc[p] = "clear"
          BY <4>1 DEF OffClear, Go
        <5>2. d = MyDir(p) \/ file'[d] = file[d]
          <6>1. CASE UNCHANGED file
            BY <6>1
          <6>2. CASE Clear(MyDir(p))
            BY <6>2 DEF Clear
          <6> QED BY <4>1, <6>1, <6>2 DEF OffClear
        <5>3. OffProgress(p)
          BY <1>1
        <5> QED BY <2>1, <5>1, <5>2, <5>3 DEF OffProgress
      <4> QED
        BY <2>1, <3>3, <4>1
        DEF OffStep, OffRemove, OffRemoveDone, OffUnhook, OffUnlink, fixVars
    <3> QED BY <2>1, <3>1, <3>2, <3>3 DEF Step
  <2>2. CASE Reboot \/ ProgramMissing
    BY <2>2 DEF Reboot, ProgramMissing, fixVars
  <2> QED BY <1>1, <2>1, <2>2 DEF Next, Step
<1>2. ProgressInv /\ [Next]_vars => [A]_vars
  BY <1>1
<1> QED BY <1>2, ProgressInvariant, PTL DEF Spec, OffNeverForgets

(* Only the commands of package state touch the file. *)
LEMMA FileKept ==
  ASSUME NEW p \in Proc, Step(p), ~OnSaveOpen(p), ~OnSaveWrite(p), ~OffClear(p)
  PROVE  file' = file
<1>1. CASE StartOn(p) \/ BootOn(p) \/ StartOff(p) \/ ExecStop(p) \/ Exit(p) \/ Crash(p)
  BY <1>1 DEF StartOn, BootOn, BeginOn, StartOff, ExecStop, BeginOff, Exit, Crash, fixVars
<1>2. CASE OnStep(p)
  BY <1>2
  DEF OnStep, OnLoad, OnUnwind, OnUnwindDone, OnApplyDelete, OnApplyAdd, OnApplyFail,
      OnApplyDone, OnSaveFail, OnCopy, OnFill, OnInstall, OnEnable, fixVars
<1>3. CASE OffStep(p)
  BY <1>3 DEF OffStep, OffRemove, OffRemoveDone, OffUnhook, OffUnlink, fixVars
<1> QED BY <1>1, <1>2, <1>3 DEF Step

-----------------------------------------------------------------------------
(* Nothing but restarts, missing DNS answers and several state directories. *)

(* The mishaps that NoOrphan excludes. *)
Calm ==
  /\ Hazards \cap {"overlap", "cmdfail", "iofail", "readfail", "crash"} = {}
  /\ EnvDir \/ BootHome \/ "split" \notin Hazards

(* Once a command has ended, its account is that of the state files. *)
LEMMA EndAccounted ==
  ASSUME NEW p \in Proc, Accounted(p), pc[p] \in Ends
  PROVE  table \subseteq Recorded
BY DEF Accounted, Ends

(* Every process has a state directory. *)
LEMMA CalmDir ==
  ASSUME Calm, NEW c \in Contexts, NEW p, NEW to, Start(p, c, to)
  PROVE  Dir(c) \in Dirs
BY PlatformAssumption DEF Calm, Start, May, Dir, Dirs, Contexts

(* Each step of "on" keeps every blocked address accounted for, by a record or
   by what the run is about to record. *)
LEMMA AccountOnStep ==
  ASSUME Calm, TypeOK, TypeOK', NEW p \in Proc, OnlySavedRecords,
         OnProgress(p), MyDir(p) \in Dirs, Accounted(p),
         UnprivilegedStuck(p), OnStep(p)
  PROVE  MyDir(p)' \in Dirs /\ Accounted(p)' /\ UnprivilegedStuck(p)'
<1> USE DEF TypeOK, Go, OnProgress, MyDir, fixVars, hookVars,
            Accounted, UnprivilegedStuck, Elsewhere, Recorded, Ends
<1>1. CASE OnLoad(p)
  <2>1. loc' = [loc EXCEPT ![p].todo = LoadApplied(MyDir(p))]
    BY <1>1 DEF OnLoad, LoadMayFail, LoadFails, LoadApplied, OnlySavedRecords, Calm, May
  <2> QED BY <1>1, <2>1 DEF OnLoad, Local, LoadApplied
<1>2. CASE OnUnwind(p) BY <1>2 DEF OnUnwind, Local, DeleteEntry, CommandFails, Calm, May
<1>3. CASE OnUnwindDone(p) BY <1>3 DEF OnUnwindDone, Local
<1>4. CASE OnApplyDelete(p) BY <1>4 DEF OnApplyDelete, Local, DeleteEntry
<1>5. CASE OnApplyAdd(p)
  <2>1. PICK a \in loc[p].todo :
          /\ AddEntry(loc[p].ctx, a)
          /\ loc' = [loc EXCEPT ![p] =
                       [loc[p] EXCEPT !.todo = @ \ {a}, !.replacing = {}]]
    BY <1>5 DEF OnApplyAdd
  <2>2. /\ loc'[p].ctx = loc[p].ctx
        /\ loc'[p].want = loc[p].want
    BY <2>1 DEF Local
  <2>3. pc[p] = "apply" /\ pc' = pc /\ file' = file
    BY <1>5 DEF OnApplyAdd
  <2>4. Privileged(loc[p].ctx) /\ table' = table \cup {a}
    BY <2>1 DEF AddEntry
  <2>5. a \in loc[p].want
    BY <2>1, <2>3
  <2> QED BY <2>2, <2>3, <2>4, <2>5
<1>6. CASE OnApplyFail(p) BY <1>6 DEF OnApplyFail, CommandFails, Calm, May
<1>7. CASE OnApplyDone(p) BY <1>7 DEF OnApplyDone
<1>8. CASE OnSaveOpen(p) BY <1>8 DEF OnSaveOpen, SaveOpen, Torn
<1>9. CASE OnSaveWrite(p) BY <1>9 DEF OnSaveWrite, SaveWrite, Saved
<1>10. CASE OnSaveFail(p) BY <1>10 DEF OnSaveFail, Calm, May, Dirs
<1>11. CASE OnInstall(p)
  <2>1. /\ pc[p] = "install" /\ pc'[p] \in {"enable", "said_on"}
        /\ table' = table /\ file' = file
    BY <1>11 DEF OnInstall
  <2>2. loc' = loc \/ loc' = [loc EXCEPT ![p].warned = TRUE]
    BY <1>11 DEF OnInstall
  <2>3. loc'[p].ctx = loc[p].ctx
    BY <2>2 DEF Local
  <2> QED BY <2>1, <2>3
<1>12. CASE OnEnable(p) BY <1>12 DEF OnEnable, Local
<1>13. CASE OnCopy(p) \/ OnFill(p)
  <2>1. loc' = loc \/ loc' = [loc EXCEPT ![p].prog = "stable"]
    BY <1>13 DEF OnCopy, OnFill
  <2>2. /\ loc'[p].ctx = loc[p].ctx /\ loc'[p].hosts = loc[p].hosts
        /\ loc'[p].want = loc[p].want
    BY <2>1 DEF Local
  <2>3. /\ pc[p] \in {"copy", "fill"} /\ pc'[p] \in {"fill", "install"}
        /\ table' = table /\ file' = file
    BY <1>13 DEF OnCopy, OnFill
  <2> QED BY <2>2, <2>3
<1> QED
  BY <1>1, <1>2, <1>3, <1>4, <1>5, <1>6, <1>7, <1>8, <1>9, <1>10, <1>11,
     <1>12, <1>13 DEF OnStep

(* Each step of "off" keeps every blocked address accounted for, by a record or
   by what the run has left to remove. *)
LEMMA AccountOffStep ==
  ASSUME Calm, TypeOK, TypeOK', NEW p \in Proc, OnlySavedRecords,
         OffProgress(p), MyDir(p) \in Dirs, Accounted(p),
         UnprivilegedStuck(p), OffStep(p)
  PROVE  MyDir(p)' \in Dirs /\ Accounted(p)' /\ UnprivilegedStuck(p)'
<1> USE DEF TypeOK, Go, MyDir, fixVars, hookVars,
            Accounted, UnprivilegedStuck, Elsewhere, Recorded, Ends
<1>1. CASE OffRemove(p)
  <2>1. PICK a \in loc[p].todo :
          \/ /\ DeleteEntry(loc[p].ctx, a)
             /\ loc' = [loc EXCEPT ![p].todo = @ \ {a}]
          \/ /\ table' = table
             /\ loc' = [loc EXCEPT ![p] = [loc[p] EXCEPT !.todo = @ \ {a},
                                                        !.warned = TRUE]]
    BY <1>1 DEF OffRemove
  <2>2. pc[p] = "remove" /\ pc' = pc /\ file' = file
    BY <1>1 DEF OffRemove
  <2>3. CASE /\ DeleteEntry(loc[p].ctx, a)
             /\ loc' = [loc EXCEPT ![p].todo = @ \ {a}]
    BY <2>2, <2>3 DEF DeleteEntry, Local
  <2>4. CASE /\ table' = table
             /\ loc' = [loc EXCEPT ![p] = [loc[p] EXCEPT !.todo = @ \ {a},
                                                        !.warned = TRUE]]
    <3>1. loc'[p].warned /\ loc'[p].ctx = loc[p].ctx
      BY <2>4 DEF Local
    <3> QED BY <2>2, <2>4, <3>1
  <2> QED BY <2>1, <2>3, <2>4
<1>2. CASE OffRemoveDone(p) BY <1>2 DEF OffRemoveDone
<1>3. CASE OffClear(p) BY <1>3 DEF OffClear, Clear, Missing, Calm, May
<1>4. CASE OffUnhook(p) BY <1>4 DEF OffUnhook
<1>5. CASE OffUnlink(p) BY <1>5 DEF OffUnlink, Local
<1> QED BY <1>1, <1>2, <1>3, <1>4, <1>5 DEF OffStep

(* A command that starts finds everything blocked on record. *)
LEMMA AccountBegin ==
  ASSUME Calm, TypeOK, NEW p \in Proc, NEW c \in Contexts,
         \/ \E hs, per : BeginOn(p, c, hs, per)
         \/ BeginOff(p, c),
         table \subseteq Recorded
  PROVE  MyDir(p)' \in Dirs /\ Accounted(p)' /\ UnprivilegedStuck(p)'
<1> USE DEF TypeOK
<1>1. loc'[p].ctx = c /\ Dir(c) \in Dirs
  <2>1. CASE \E hs, per : BeginOn(p, c, hs, per)
    <3>1. PICK hs, per, as :
            /\ Start(p, c, IF NeedsElevation(c) \/ as = {} THEN "failed" ELSE "load")
            /\ loc' = [loc EXCEPT ![p] = [Fresh EXCEPT !.ctx = c, !.hosts = hs,
                                                       !.want = as, !.persist = per]]
      BY <2>1 DEF BeginOn
    <3> QED BY <3>1, CalmDir DEF Fresh
  <2>2. CASE BeginOff(p, c)
    <3>1. loc'[p].ctx = c
      BY <2>2 DEF BeginOff, Fresh
    <3>2. \E to : Start(p, c, to)
      BY <2>2 DEF BeginOff
    <3> QED BY <3>1, <3>2, CalmDir
  <2> QED BY <2>1, <2>2
<1>2. file' = file /\ table' = table
  BY DEF BeginOn, BeginOff, fixVars
<1>3. \/ pc'[p] \in {"load", "failed", "said_nothing"}
      \/ /\ pc'[p] = "remove"
         /\ loc'[p].todo = file[Dir(c)].applied /\ loc'[p].todo # {}
  <2>1. CASE \E hs, per : BeginOn(p, c, hs, per)
    BY <2>1 DEF BeginOn, Start, Go
  <2>2. CASE BeginOff(p, c)
    <3>1. \/ pc'[p] \in {"failed", "said_nothing"}
          \/ /\ pc'[p] = "remove" /\ LoadApplied(Dir(c)) # {}
             /\ loc'[p].todo = LoadApplied(Dir(c))
      BY <2>2 DEF BeginOff, Start, Go, Fresh
    <3> QED BY <1>1, <3>1 DEF LoadApplied
  <2> QED BY <2>1, <2>2
<1> QED
  BY <1>1, <1>2, <1>3
  DEF Accounted, UnprivilegedStuck, MyDir, Elsewhere, Recorded, Ends

(* In calm conditions every step keeps the account. *)
LEMMA NextAccount ==
  ASSUME Calm, AccountInv, [Next]_vars
  PROVE  AccountInv'
<1> USE DEF AccountInv
<1>a. "overlap" \notin Hazards
  BY DEF Calm
<1>b. TypeOK /\ OneAtATime /\ OnlySavedRecords /\ TypeOK'
  BY NextType DEF ProgressInv
<1>1. ProgressInv'
  BY <1>a, NextProgress
<1>2. ASSUME NEW p \in Proc, Step(p)
      PROVE  AccountInv'
  <2>1. ASSUME NEW q \in Proc, q # p
        PROVE  pc[q] = "idle" /\ pc'[q] = "idle"
    BY <1>2, <1>a, <1>b, <2>1, StepAlone
  <2>2. ASSUME NEW q \in Proc, q # p
        PROVE  ~Running(q)' /\ Accounted(q)' /\ UnprivilegedStuck(q)'
    BY <2>1, <2>2 DEF Running, Accounted, UnprivilegedStuck, Ends
  <2>3. /\ Running(p)' => MyDir(p)' \in Dirs
        /\ Accounted(p)' /\ UnprivilegedStuck(p)'
        /\ ~Active(p)' => (table \subseteq Recorded)'
    <3>1. CASE StartOn(p) \/ BootOn(p) \/ StartOff(p) \/ ExecStop(p)
      <4>1. PICK c \in Contexts :
               \/ \E hs, per : BeginOn(p, c, hs, per)
               \/ BeginOff(p, c)
        BY <3>1 DEF StartOn, BootOn, StartOff, ExecStop, Contexts
      <4>2. pc[p] = "idle"
        BY <4>1 DEF BeginOn, BeginOff, Start, Go
      <4>3. table \subseteq Recorded
        BY <2>1, <4>2 DEF Active
      <4>4. file' = file /\ table' = table
        BY <4>1 DEF BeginOn, BeginOff, fixVars
      <4> QED BY <1>b, <4>1, <4>3, <4>4, AccountBegin DEF Recorded
    <3>2. CASE OnStep(p)
      <4>1. Running(p) /\ pc'[p] # "idle"
        BY <1>b, <3>2
        DEF OnStep, OnLoad, OnUnwind, OnUnwindDone, OnApplyDelete, OnApplyAdd,
            OnApplyFail, OnApplyDone, OnSaveOpen, OnSaveWrite, OnSaveFail,
            OnCopy, OnFill, OnInstall, OnEnable, Go, TypeOK, Running, Ends
      <4> QED
        BY <1>b, <3>2, <4>1, AccountOnStep DEF ProgressInv, Active
    <3>3. CASE OffStep(p)
      <4>1. Running(p) /\ pc'[p] # "idle"
        BY <1>b, <3>3
        DEF OffStep, OffRemove, OffRemoveDone, OffClear, OffUnhook, OffUnlink,
            Go, TypeOK, Running, Ends
      <4> QED
        BY <1>b, <3>3, <4>1, AccountOffStep DEF ProgressInv, Active
    <3>4. CASE Exit(p)
      <4>1. pc[p] \in Ends /\ pc'[p] = "idle" /\ file' = file /\ table' = table
        BY <1>b, <3>4 DEF Exit, Go, fixVars, TypeOK
      <4>2. table \subseteq Recorded
        BY <4>1, EndAccounted
      <4> QED
        BY <4>1, <4>2 DEF Running, Accounted, UnprivilegedStuck, Recorded, Ends
    <3>5. ~Crash(p)
      BY DEF Crash, Calm, May
    <3> QED BY <1>2, <3>1, <3>2, <3>3, <3>4, <3>5 DEF Step
  <2>4. (\A q \in Proc : ~Active(q)') => (table \subseteq Recorded)'
    BY <2>3
  <2> QED BY <1>1, <2>2, <2>3, <2>4
<1>3. CASE Reboot
  <2>1. /\ file' = file /\ table' \subseteq table
        /\ \A q \in Proc : pc'[q] = "idle"
    BY <1>3 DEF Reboot, TableAfterReboot
  <2>2. table \subseteq Recorded
    <3>1. \A q \in Proc : ~Running(q)
      BY <1>3 DEF Reboot, Calm, May
    <3>2. CASE \E q \in Proc : Active(q)
      <4>1. PICK q \in Proc : pc[q] \in Ends
        BY <3>1, <3>2 DEF Active, Running
      <4> QED BY <4>1, EndAccounted
    <3> QED BY <3>2
  <2> QED
    BY <1>1, <2>1, <2>2
    DEF Running, Accounted, UnprivilegedStuck, Recorded, Ends
<1>4. CASE UNCHANGED vars \/ ProgramMissing
  BY <1>1, <1>4
  DEF vars, ProgramMissing, fixVars, Running, Active, Accounted, UnprivilegedStuck, Recorded,
      Elsewhere, MyDir
<1> QED BY <1>2, <1>3, <1>4 DEF Next, Step

(* Nothing is blocked at first. *)
LEMMA InitAccount == Init => AccountInv
<1> SUFFICES ASSUME Init PROVE AccountInv
  OBVIOUS
<1>1. table = {} /\ \A q \in Proc : pc[q] = "idle"
  BY DEF Init
<1> QED
  BY <1>1, InitProgress
  DEF AccountInv, Running, Accounted, UnprivilegedStuck, Ends

(* In calm conditions every step keeps the account of what is blocked. *)
THEOREM AccountInvariant ==
  ASSUME Calm
  PROVE  Spec => []AccountInv
<1>1. AccountInv /\ [Next]_vars => AccountInv'
  BY NextAccount
<1> QED BY <1>1, InitAccount, PTL DEF Spec

(* In calm conditions everything the system blocks can be undone by an "off":
   on every operating system, restarts included, and whichever of several
   accounts and the boot hook ran the commands. *)
THEOREM NothingOrphaned ==
  ASSUME Calm
  PROVE  Spec => []NoOrphan
<1>1. AccountInv => NoOrphan
  <2> SUFFICES ASSUME AccountInv, Quiescent PROVE table \subseteq Recorded
    BY DEF NoOrphan
  <2>1. CASE \E q \in Proc : Active(q)
    <3>1. PICK q \in Proc : pc[q] \in Ends
      BY <2>1 DEF Quiescent, Active, Running
    <3> QED BY <3>1, EndAccounted DEF AccountInv
  <2> QED BY <2>1 DEF AccountInv
<1> QED BY <1>1, AccountInvariant, PTL
=============================================================================
