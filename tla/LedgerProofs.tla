---------------------------- MODULE LedgerProofs -----------------------------
(***************************************************************************)
(* Theorems about records: none of what is blocked is dropped, and "on"    *)
(* and "off" implement the abstract ledger.                                *)
(***************************************************************************)
EXTENDS SystemFixProofs

(* Each step of "on" keeps account of the records it will replace. *)
LEMMA RecordOnStep ==
  ASSUME {"cmdfail", "readfail"} \cap Hazards = {}, TypeOK, TypeOK', OnlySavedRecords,
         NEW p \in Proc, OnProgress(p), RecordProgress(p), OnStep(p)
  PROVE  RecordProgress(p)'
<1> USE DEF TypeOK, Go, OnProgress, RecordProgress, LoadApplied, MyDir, fixVars, hookVars
<1>1. CASE OnLoad(p)
  <2>1. loc' = [loc EXCEPT ![p].todo = LoadApplied(MyDir(p))]
    BY <1>1 DEF OnLoad, LoadMayFail, LoadFails, May, OnlySavedRecords
  <2> QED BY <1>1, <2>1 DEF OnLoad, Local
<1>2. CASE OnUnwind(p) BY <1>2 DEF OnUnwind, Local, DeleteEntry, CommandFails, May
<1>3. CASE OnUnwindDone(p) BY <1>3 DEF OnUnwindDone, Local
<1>4. CASE OnApplyDelete(p) BY <1>4 DEF OnApplyDelete, Local, DeleteEntry
<1>5. CASE OnApplyAdd(p)
  <2>1. PICK a \in loc[p].todo :
          /\ AddEntry(loc[p].ctx, a)
          /\ loc' = [loc EXCEPT ![p] =
                       [loc[p] EXCEPT !.todo = @ \ {a}, !.replacing = {}]]
    BY <1>5 DEF OnApplyAdd
  <2>2. /\ loc'[p].ctx = loc[p].ctx
        /\ loc'[p].want = loc[p].want
    BY <2>1 DEF Local
  <2>3. pc[p] = "apply" /\ pc' = pc /\ file' = file
    BY <1>5 DEF OnApplyAdd
  <2>4. Privileged(loc[p].ctx) /\ table' = table \cup {a}
    BY <2>1 DEF AddEntry
  <2>5. a \in loc[p].want
    BY <2>1, <2>3
  <2> QED BY <2>2, <2>3, <2>4, <2>5
<1>6. CASE OnApplyFail(p) BY <1>6 DEF OnApplyFail
<1>7. CASE OnApplyDone(p) BY <1>7 DEF OnApplyDone
<1>8. CASE OnSaveOpen(p) BY <1>8 DEF OnSaveOpen, SaveOpen, Torn
<1>9. CASE OnSaveWrite(p) BY <1>9 DEF OnSaveWrite
<1>10. CASE OnSaveFail(p) BY <1>10 DEF OnSaveFail
<1>11. CASE OnInstall(p) \/ OnEnable(p) BY <1>11 DEF OnInstall, OnEnable
<1>12. CASE OnCopy(p) \/ OnFill(p) BY <1>12 DEF OnCopy, OnFill
<1> QED
  BY <1>1, <1>2, <1>3, <1>4, <1>5, <1>6, <1>7, <1>8, <1>9, <1>10, <1>11, <1>12
  DEF OnStep

(* Each step of "off" removes what is on record. *)
LEMMA RecordOffStep ==
  ASSUME TypeOK, NEW p \in Proc, RecordProgress(p), OffStep(p)
  PROVE  RecordProgress(p)'
<1> USE DEF TypeOK, Go, RecordProgress, LoadApplied, MyDir, fixVars, hookVars
<1>1. CASE OffRemove(p)
  <2>1. PICK a \in loc[p].todo :
          \/ loc' = [loc EXCEPT ![p].todo = @ \ {a}]
          \/ loc' = [loc EXCEPT ![p] = [loc[p] EXCEPT !.todo = @ \ {a}, !.warned = TRUE]]
    BY <1>1 DEF OffRemove
  <2>2. loc'[p].ctx = loc[p].ctx /\ loc'[p].todo \subseteq loc[p].todo
    <3>1. CASE loc' = [loc EXCEPT ![p].todo = @ \ {a}]
      BY <3>1 DEF Local
    <3>2. CASE loc' = [loc EXCEPT ![p] = [loc[p] EXCEPT !.todo = @ \ {a}, !.warned = TRUE]]
      BY <3>2 DEF Local
    <3> QED BY <2>1, <3>1, <3>2
  <2>3. pc[p] = "remove" /\ pc' = pc /\ file' = file
    BY <1>1 DEF OffRemove
  <2> QED BY <2>2, <2>3
<1>2. CASE OffRemoveDone(p) BY <1>2 DEF OffRemoveDone
<1>3. CASE OffClear(p) BY <1>3 DEF OffClear
<1>4. CASE OffUnhook(p) BY <1>4 DEF OffUnhook
<1>5. CASE OffUnlink(p) BY <1>5 DEF OffUnlink
<1> QED BY <1>1, <1>2, <1>3, <1>4, <1>5 DEF OffStep

(* A command that starts has what its file records, or nothing, to remove. *)
LEMMA RecordBegin ==
  ASSUME TypeOK, NEW p \in Proc, NEW c \in Contexts,
         \/ \E hs, per : BeginOn(p, c, hs, per)
         \/ BeginOff(p, c)
  PROVE  RecordProgress(p)'
<1>1. CASE \E hs, per : BeginOn(p, c, hs, per)
  <2>1. pc'[p] \in {"load", "failed"}
    BY <1>1 DEF BeginOn, Start, Go, TypeOK
  <2> QED BY <2>1 DEF RecordProgress
<1>2. CASE BeginOff(p, c)
  <2>1. loc'[p].ctx = c /\ loc'[p].todo \subseteq LoadApplied(Dir(c)) /\ file' = file
    BY <1>2 DEF BeginOff, Fresh, TypeOK, fixVars
  <2>2. pc'[p] \in {"failed", "said_nothing", "remove"}
    BY <1>2 DEF BeginOff, Start, Go, TypeOK
  <2> QED BY <2>1, <2>2 DEF RecordProgress, LoadApplied, MyDir
<1> QED BY <1>1, <1>2

(* Every step keeps account of the records. *)
LEMMA NextRecord ==
  ASSUME {"overlap", "cmdfail", "readfail"} \cap Hazards = {}, RecordInv, [Next]_vars
  PROVE  RecordInv'
<1>0. TypeOK /\ OneAtATime /\ OnlySavedRecords /\ "overlap" \notin Hazards
  BY DEF RecordInv, ProgressInv
<1>1. ProgressInv' /\ TypeOK'
  BY <1>0, NextProgress DEF RecordInv, ProgressInv
<1>2. ASSUME NEW p \in Proc, Step(p), NEW q \in Proc
      PROVE  RecordProgress(q)'
  <2>1. CASE q # p
    BY <1>0, <1>2, <2>1, StepAlone DEF RecordProgress
  <2>2. CASE StartOn(p) \/ BootOn(p) \/ StartOff(p) \/ ExecStop(p)
    <3>1. PICK c \in Contexts :
             \/ \E hs, per : BeginOn(p, c, hs, per)
             \/ BeginOff(p, c)
      BY <2>2 DEF StartOn, BootOn, StartOff, ExecStop, Contexts
    <3> QED BY <1>0, <2>1, <3>1, RecordBegin
  <2>3. CASE OnStep(p)
    BY <1>0, <1>1, <2>1, <2>3, RecordOnStep DEF RecordInv, ProgressInv
  <2>4. CASE OffStep(p)
    BY <1>0, <2>1, <2>4, RecordOffStep DEF RecordInv
  <2>5. CASE Exit(p) \/ Crash(p)
    <3>1. pc'[p] = "idle"
      BY <1>0, <2>5 DEF Exit, Crash, Go, TypeOK
    <3> QED BY <2>1, <3>1 DEF RecordProgress
  <2> QED BY <1>2, <2>2, <2>3, <2>4, <2>5 DEF Step
<1>3. CASE Reboot
  BY <1>1, <1>3 DEF Reboot, RecordInv, RecordProgress
<1>4. CASE UNCHANGED vars \/ ProgramMissing
  BY <1>1, <1>4
  DEF vars, ProgramMissing, fixVars, RecordInv, RecordProgress, LoadApplied, MyDir
<1> QED BY <1>1, <1>2, <1>3, <1>4 DEF Next, Step, RecordInv

(* Without overlap, failing commands and unreadable records, every step keeps
   account of what becomes of the records. *)
THEOREM RecordInvariant ==
  ASSUME {"overlap", "cmdfail", "readfail"} \cap Hazards = {}
  PROVE  Spec => []RecordInv
<1>1. Init => RecordInv
  BY InitProgress DEF Init, RecordInv, RecordProgress
<1>2. RecordInv /\ [Next]_vars => RecordInv'
  BY NextRecord
<1> QED BY <1>1, <1>2, PTL DEF Spec

(* A directory's records are those of its file; the rest is elsewhere. *)
LEMMA RecordedSplit ==
  ASSUME TypeOK, NEW p \in Proc
  PROVE  Recorded = Elsewhere(p) \cup LoadApplied(MyDir(p))
BY DEF Recorded, Elsewhere, LoadApplied

(* What a write to p's file does to the records. *)
LEMMA RecordedWritten ==
  ASSUME TypeOK, NEW p \in Proc, MyDir(p) \in Dirs, NEW content \in Content,
         file' = [file EXCEPT ![MyDir(p)] = content]
  PROVE  Recorded' = Elsewhere(p) \cup content.applied
<1>1. file'[MyDir(p)] = content /\ \A d \in Dirs \ {MyDir(p)} : file'[d] = file[d]
  BY DEF TypeOK
<1> HIDE DEF MyDir
<1>2. Recorded' = UNION {file'[d].applied : d \in Dirs}
  BY DEF Recorded
<1> QED BY <1>1, <1>2 DEF Elsewhere

(* What each command of package state does to the records. *)
LEMMA RecordsChange ==
  ASSUME RecordInv, NEW p \in Proc
  PROVE  /\ OnSaveOpen(p) => /\ Recorded' = Elsewhere(p) /\ table' = table /\ loc' = loc
                             /\ pc[p] = "save" /\ pc' = [pc EXCEPT ![p] = "write"]
         /\ OnSaveWrite(p) => /\ Recorded' = Recorded \cup loc[p].want /\ table' = table
                              /\ loc' = loc /\ pc[p] = "write"
                              /\ \E to \in {"copy", "said_on"} :
                                   pc' = [pc EXCEPT ![p] = to]
         /\ OffClear(p) => /\ Recorded' \in {Recorded, Elsewhere(p)} /\ table' = table
                           /\ loc' = loc /\ pc[p] = "clear"
                           /\ \E to \in {"unhook", "failed"} : pc' = [pc EXCEPT ![p] = to]
<1>0. TypeOK /\ OffProgress(p) /\ RecordProgress(p)
  BY DEF RecordInv, ProgressInv
<1>1. ASSUME OnSaveOpen(p)
      PROVE  /\ Recorded' = Elsewhere(p) /\ table' = table /\ loc' = loc
             /\ pc[p] = "save" /\ pc' = [pc EXCEPT ![p] = "write"]
  <2>1. MyDir(p) \in Dirs /\ file' = [file EXCEPT ![MyDir(p)] = Torn]
    BY <1>1 DEF OnSaveOpen, SaveOpen
  <2>2. Torn \in Content /\ Torn.applied = {}
    BY DEF Torn, Content
  <2>3. Recorded' = Elsewhere(p)
    BY <1>0, <2>1, <2>2, RecordedWritten
  <2> QED BY <1>1, <2>3 DEF OnSaveOpen, Go
<1>2. ASSUME OnSaveWrite(p)
      PROVE  /\ Recorded' = Recorded \cup loc[p].want /\ table' = table
             /\ loc' = loc /\ pc[p] = "write"
             /\ \E to \in {"copy", "said_on"} : pc' = [pc EXCEPT ![p] = to]
  <2>1. /\ MyDir(p) \in Dirs
        /\ file' = [file EXCEPT ![MyDir(p)] = Saved(loc[p].hosts, loc[p].want)]
    BY <1>2 DEF OnSaveWrite, SaveWrite
  <2>2. /\ Saved(loc[p].hosts, loc[p].want) \in Content
        /\ Saved(loc[p].hosts, loc[p].want).applied = loc[p].want
    BY <1>0 DEF Saved, Content, TypeOK, Local
  <2>3. Recorded' = Elsewhere(p) \cup loc[p].want
    BY <1>0, <2>1, <2>2, RecordedWritten
  <2>4. pc[p] = "write" /\ LoadApplied(MyDir(p)) = {}
    BY <1>0, <1>2 DEF OnSaveWrite, Go, RecordProgress
  <2>5. Recorded = Elsewhere(p)
    BY <1>0, <2>4, RecordedSplit
  <2> QED BY <1>2, <2>3, <2>4, <2>5 DEF OnSaveWrite, Go
<1>3. ASSUME OffClear(p)
      PROVE  /\ Recorded' \in {Recorded, Elsewhere(p)} /\ table' = table
             /\ loc' = loc /\ pc[p] = "clear"
             /\ \E to \in {"unhook", "failed"} : pc' = [pc EXCEPT ![p] = to]
  <2>1. CASE Clear(MyDir(p))
    <3>1. MyDir(p) \in Dirs /\ file' = [file EXCEPT ![MyDir(p)] = Missing]
      BY <2>1 DEF Clear
    <3>2. Missing \in Content /\ Missing.applied = {}
      BY DEF Missing, Content
    <3>3. Recorded' = Elsewhere(p)
      BY <1>0, <3>1, <3>2, RecordedWritten
    <3> QED BY <1>3, <3>3 DEF OffClear, Go
  <2>2. CASE UNCHANGED file
    BY <1>3, <2>2 DEF OffClear, Go, Recorded
  <2> QED BY <1>3, <2>1, <2>2 DEF OffClear
<1> QED BY <1>1, <1>2, <1>3

(* Whatever is killed, restarted or cannot be written, as long as the records
   that are there can be read, a blocked address loses its last record only to
   a run that is about to record it again. *)
THEOREM RecordsAreKept ==
  ASSUME {"overlap", "cmdfail", "readfail"} \cap Hazards = {}
  PROVE  Spec => RecordsNotDropped
<1> DEFINE A == \A a \in table' : a \in Recorded /\ a \notin Recorded' =>
                  \E p \in Proc : pc'[p] = "write" /\ a \in loc'[p].want
<1>1. ASSUME RecordInv, [Next]_vars
      PROVE  A
  <2>1. ASSUME NEW p \in Proc, Step(p), NEW a \in table', a \in Recorded, a \notin Recorded'
        PROVE  \E q \in Proc : pc'[q] = "write" /\ a \in loc'[q].want
    <3>0. TypeOK /\ OffProgress(p) /\ RecordProgress(p)
      BY <1>1 DEF RecordInv, ProgressInv
    <3>1. CASE OnSaveOpen(p)
      <4>1. a \in LoadApplied(MyDir(p)) /\ a \in table /\ pc[p] = "save"
        BY <1>1, <2>1, <3>0, <3>1, RecordsChange, RecordedSplit
      <4>2. a \in loc[p].want
        BY <3>0, <4>1 DEF RecordProgress
      <4>3. pc'[p] = "write" /\ loc' = loc
        BY <1>1, <3>0, <3>1, RecordsChange DEF TypeOK
      <4> QED BY <4>2, <4>3
    <3>2. CASE OnSaveWrite(p)
      BY <1>1, <2>1, <3>2, RecordsChange
    <3>3. CASE OffClear(p)
      <4>1. a \in LoadApplied(MyDir(p)) /\ a \in table /\ pc[p] = "clear"
        BY <1>1, <2>1, <3>0, <3>3, RecordsChange, RecordedSplit
      <4> QED BY <3>0, <4>1 DEF OffProgress, LoadApplied
    <3>4. CASE ~OnSaveOpen(p) /\ ~OnSaveWrite(p) /\ ~OffClear(p)
      BY <2>1, <3>4, FileKept DEF Recorded
    <3> QED BY <3>1, <3>2, <3>3, <3>4
  <2>2. CASE Reboot \/ ProgramMissing \/ UNCHANGED vars
    BY <2>2 DEF Reboot, ProgramMissing, vars, fixVars, Recorded
  <2> QED BY <1>1, <2>1, <2>2 DEF Next, Step
<1>2. RecordInv /\ [Next]_vars => [A]_vars
  BY <1>1
<1> QED BY <1>2, RecordInvariant, PTL DEF Spec, RecordsNotDropped

(* Except on Windows, a command that runs is privileged. *)
Elevated(p) == Running(p) => Privileged(loc[p].ctx)

(* A command that starts runs only if it is privileged. *)
LEMMA ElevatedBegin ==
  ASSUME TypeOK, OS # "windows", NEW p \in Proc, NEW c \in Contexts,
         \/ \E hs, per : BeginOn(p, c, hs, per)
         \/ BeginOff(p, c)
  PROVE  Elevated(p)'
<1>1. CASE \E hs, per : BeginOn(p, c, hs, per)
  <2>1. loc'[p].ctx = c
    BY <1>1 DEF BeginOn, TypeOK, Fresh
  <2>2. NeedsElevation(c) => pc'[p] = "failed"
    BY <1>1 DEF BeginOn, Start, Go, TypeOK
  <2> QED BY <2>1, <2>2 DEF Elevated, Running, Ends, NeedsElevation
<1>2. CASE BeginOff(p, c)
  <2>1. loc'[p].ctx = c
    BY <1>2 DEF BeginOff, TypeOK, Fresh
  <2>2. NeedsElevation(c) => pc'[p] \in {"failed", "said_nothing"}
    BY <1>2 DEF BeginOff, Start, Go, TypeOK
  <2> QED BY <2>1, <2>2 DEF Elevated, Running, Ends, NeedsElevation
<1> QED BY <1>1, <1>2

(* Every step keeps running commands privileged. *)
LEMMA NextElevated ==
  ASSUME TypeOK, OS # "windows", \A p \in Proc : Elevated(p), [Next]_vars
  PROVE  \A p \in Proc : Elevated(p)'
<1>1. ASSUME NEW p \in Proc, Step(p), NEW q \in Proc
      PROVE  Elevated(q)'
  <2>1. CASE q # p
    BY <1>1, <2>1, StepFrame DEF Elevated, Running
  <2>2. CASE StartOn(p) \/ BootOn(p) \/ StartOff(p) \/ ExecStop(p)
    <3>1. PICK c \in Contexts :
             \/ \E hs, per : BeginOn(p, c, hs, per)
             \/ BeginOff(p, c)
      BY <2>2 DEF StartOn, BootOn, StartOff, ExecStop, Contexts
    <3> QED BY <2>1, <3>1, ElevatedBegin
  <2>3. CASE OnStep(p) \/ OffStep(p)
    <3>1. loc'[p].ctx = loc[p].ctx
      BY <2>3, RunFrame
    <3>2. Running(p)
      BY <2>3
      DEF OnStep, OnLoad, OnUnwind, OnUnwindDone, OnApplyDelete, OnApplyAdd, OnApplyFail,
          OnApplyDone, OnSaveOpen, OnSaveWrite, OnSaveFail, OnCopy, OnFill, OnInstall,
          OnEnable, OffStep, OffRemove, OffRemoveDone, OffClear, OffUnhook, OffUnlink, Go,
          Running, Ends
    <3> QED BY <2>1, <3>1, <3>2 DEF Elevated
  <2>4. CASE Exit(p) \/ Crash(p)
    <3>1. pc'[p] = "idle"
      BY <2>4 DEF Exit, Crash, Go, TypeOK
    <3> QED BY <2>1, <3>1 DEF Elevated, Running
  <2> QED BY <1>1, <2>2, <2>3, <2>4 DEF Step
<1>2. CASE Reboot
  BY <1>2 DEF Reboot, Elevated, Running
<1>3. CASE UNCHANGED vars \/ ProgramMissing
  BY <1>3 DEF vars, ProgramMissing, Elevated, Running
<1> QED BY <1>1, <1>2, <1>3 DEF Next, Step

(* Except on Windows, the clean-up of a re-run leaves nothing behind unless one
   of its commands fails or the record cannot be read: the two errors that
   cmdOn ignores, of state.Load and of route.Remove, are the only causes. *)
THEOREM RerunIsClean ==
  ASSUME {"overlap", "cmdfail", "readfail"} \cap Hazards = {}, OS # "windows"
  PROVE  Spec => RerunCleansFirst
<1> DEFINE Inv == RecordInv /\ \A p \in Proc : Elevated(p)
           A == \A p \in Proc : pc[p] = "unwind" /\ pc'[p] = "apply" =>
                  (LoadApplied(MyDir(p)) \cap table) \subseteq loc[p].want
<1>1. Init => Inv
  BY InitProgress DEF Init, RecordInv, RecordProgress, Elevated, Running
<1>2. Inv /\ [Next]_vars => Inv'
  BY NextRecord, NextElevated DEF RecordInv, ProgressInv
<1>3. ASSUME Inv, [Next]_vars
      PROVE  A
  <2>1. ASSUME NEW p \in Proc, pc[p] = "unwind", pc'[p] = "apply"
        PROVE  LoadApplied(MyDir(p)) \cap table = {}
    <3>1. TypeOK /\ RecordProgress(p) /\ Elevated(p)
      BY <1>3 DEF RecordInv, ProgressInv
    <3>2. loc[p].todo = {}
      <4>1. CASE \E q \in Proc : Step(q)
        <5>1. PICK q \in Proc : Step(q)
          BY <4>1
        <5>2. q = p
          BY <2>1, <3>1, <5>1, StepFrame
        <5>3. pc'[p] # "load"
          BY <2>1
        <5>4. ~(StartOn(p) \/ BootOn(p) \/ StartOff(p) \/ ExecStop(p))
          BY <2>1 DEF StartOn, BootOn, BeginOn, StartOff, ExecStop, BeginOff, Start, Go
        <5>5. ~(Exit(p) \/ Crash(p))
          BY <2>1, <3>1 DEF Exit, Crash, Go, TypeOK
        <5>6. ~OffStep(p)
          BY <2>1
          DEF OffStep, OffRemove, OffRemoveDone, OffClear, OffUnhook, OffUnlink, Go
        <5>7. OnStep(p) => OnUnwindDone(p)
          BY <2>1, <3>1
          DEF OnStep, OnLoad, OnUnwind, OnApplyDelete, OnApplyAdd, OnApplyFail,
              OnApplyDone, OnSaveOpen, OnSaveWrite, OnSaveFail, OnCopy, OnFill, OnInstall,
              OnEnable, Go, TypeOK
        <5> QED BY <5>1, <5>2, <5>4, <5>5, <5>6, <5>7 DEF Step, OnUnwindDone
      <4>2. ~Reboot /\ ~ProgramMissing /\ ~UNCHANGED vars
        BY <2>1 DEF Reboot, ProgramMissing, vars
      <4> QED BY <1>3, <4>1, <4>2 DEF Next, Step
    <3>3. Privileged(loc[p].ctx)
      BY <2>1, <3>1 DEF Elevated, Running, Ends
    <3> QED BY <2>1, <3>1, <3>2, <3>3 DEF RecordProgress
  <2> QED BY <2>1
<1>4. Inv /\ [Next]_vars => [A]_vars
  BY <1>3
<1> QED BY <1>1, <1>2, <1>4, PTL DEF Spec, RerunCleansFirst

-----------------------------------------------------------------------------
(* The refinement *)

InFlightLabels == {"load", "unwind", "apply", "save"}

(* While one process runs, the ledger shows it alone. *)
LEMMA LedgerView ==
  ASSUME NEW p \in Proc, \A q \in Proc \ {p} : pc[q] = "idle"
  PROVE  /\ Pending = IF pc[p] \in InFlightLabels THEN loc[p].want ELSE {}
         /\ Promised = Recorded \cup IF pc[p] = "write" THEN loc[p].want ELSE {}
<1>1. InFlight = IF pc[p] \in InFlightLabels THEN {p} ELSE {}
  BY DEF InFlight, InFlightLabels
<1>2. {q \in Proc : pc[q] = "write"} = IF pc[p] = "write" THEN {p} ELSE {}
  OBVIOUS
<1> QED BY <1>1, <1>2 DEF Pending, Promised

(* The same after a step. *)
LEMMA LedgerViewNext ==
  ASSUME NEW p \in Proc, \A q \in Proc \ {p} : pc'[q] = "idle"
  PROVE  /\ Pending' = IF pc'[p] \in InFlightLabels THEN loc'[p].want ELSE {}
         /\ Promised' = Recorded' \cup IF pc'[p] = "write" THEN loc'[p].want ELSE {}
<1>1. InFlight' = IF pc'[p] \in InFlightLabels THEN {p} ELSE {}
  BY DEF InFlight, InFlightLabels
<1>2. {q \in Proc : pc'[q] = "write"} = IF pc'[p] = "write" THEN {p} ELSE {}
  OBVIOUS
<1> QED BY <1>1, <1>2 DEF Pending, Promised

(* What the ledger may do in a step. *)
LedgerStep == Ledger!Next \/ UNCHANGED <<table, Promised, Pending>>

(* A step of "on" is a step of the ledger, or none. *)
LEMMA OnRefines ==
  ASSUME Calm, AccountInv, RecordInv, NEW p \in Proc, OnStep(p),
         Pending = (IF pc[p] \in InFlightLabels THEN loc[p].want ELSE {}),
         Promised = Recorded \cup (IF pc[p] = "write" THEN loc[p].want ELSE {}),
         Pending' = (IF pc'[p] \in InFlightLabels THEN loc[p].want ELSE {}),
         Promised' = Recorded' \cup (IF pc'[p] = "write" THEN loc[p].want ELSE {})
  PROVE  LedgerStep
<1> USE DEF InFlightLabels, LedgerStep, Ledger!Next
<1>0. /\ TypeOK /\ OnProgress(p) /\ RecordProgress(p)
      /\ Accounted(p) /\ UnprivilegedStuck(p)
  BY DEF AccountInv, RecordInv, ProgressInv
<1>1. Recorded = Elsewhere(p) \cup LoadApplied(MyDir(p))
  BY <1>0, RecordedSplit
<1>2. ASSUME NEW a \in Promised \cup Pending, table' = table \ {a},
             Promised' = Promised, Pending' = Pending
      PROVE  LedgerStep
  BY <1>2 DEF Ledger!Release
<1>3. CASE OnUnwind(p)
  <2>1. pc[p] = "unwind" /\ pc' = pc /\ Recorded' = Recorded
    BY <1>3 DEF OnUnwind, Recorded
  <2>2. PICK a \in loc[p].todo : table' \in {table, table \ {a}}
    BY <1>3 DEF OnUnwind, DeleteEntry
  <2>3. a \in Recorded
    BY <1>0, <1>1, <2>1, <2>2 DEF RecordProgress
  <2> QED BY <1>2, <2>1, <2>2, <2>3
<1>4. CASE OnApplyDelete(p)
  <2>1. pc[p] = "apply" /\ pc' = pc /\ Recorded' = Recorded
    BY <1>4 DEF OnApplyDelete, Recorded
  <2>2. PICK a \in loc[p].todo : table' = table \ {a}
    BY <1>4 DEF OnApplyDelete, DeleteEntry
  <2>3. a \in loc[p].want
    BY <1>0, <2>1, <2>2 DEF OnProgress
  <2> QED BY <1>2, <2>1, <2>2, <2>3
<1>5. CASE OnApplyAdd(p)
  <2>1. pc[p] = "apply" /\ pc' = pc /\ Recorded' = Recorded
    BY <1>5 DEF OnApplyAdd, Recorded
  <2>2. PICK a \in loc[p].todo : table' = table \cup {a}
    BY <1>5 DEF OnApplyAdd, AddEntry
  <2>3. a \in loc[p].want
    BY <1>0, <2>1, <2>2 DEF OnProgress
  <2> QED BY <2>1, <2>2, <2>3 DEF Ledger!Block
<1>6. CASE OnApplyFail(p)
  <2>1. /\ pc[p] = "apply" /\ pc'[p] = "failed" /\ Recorded' = Recorded /\ table' = table
        /\ CommandFails(loc[p].ctx)
    BY <1>0, <1>6 DEF OnApplyFail, Go, TypeOK, Recorded, fixVars
  <2>2. table \subseteq Recorded
    BY <1>0, <2>1 DEF CommandFails, Calm, May, Accounted
  <2>3. loc[p].want # {}
    BY <1>0, <2>1 DEF OnProgress
  <2> QED BY <2>1, <2>2, <2>3 DEF Ledger!Abandon
<1>7. CASE OnSaveOpen(p)
  <2>1. /\ Recorded' = Elsewhere(p) /\ table' = table
        /\ pc[p] = "save" /\ pc'[p] = "write"
    BY <1>0, <1>7, RecordsChange DEF TypeOK
  <2>2. table \subseteq Elsewhere(p) \cup loc[p].want
    BY <1>0, <2>1 DEF Accounted
  <2>3. loc[p].want # {}
    BY <1>0, <2>1 DEF OnProgress
  <2>4. /\ Pending = loc[p].want /\ Pending' = {}
        /\ Promised = Recorded /\ Promised' = Elsewhere(p) \cup Pending
    BY <2>1
  <2>5. Elsewhere(p) \in SUBSET Promised
    BY <1>1, <2>4
  <2> QED BY <2>1, <2>2, <2>3, <2>4, <2>5 DEF Ledger!Commit
<1>8. CASE OnSaveWrite(p)
  <2>1. /\ Recorded' = Recorded \cup loc[p].want /\ table' = table
        /\ pc[p] = "write" /\ pc'[p] \in {"copy", "said_on"}
    BY <1>0, <1>8, RecordsChange DEF TypeOK
  <2> QED BY <2>1
<1>9. CASE OnSaveFail(p)
  <2>1. MyDir(p) \in Dirs
    BY <1>0, <1>9 DEF AccountInv, OnSaveFail, Go, Running, Ends
  <2> QED BY <1>9, <2>1 DEF OnSaveFail, Calm, May, Dirs
<1>10. CASE OnLoad(p) \/ OnUnwindDone(p) \/ OnApplyDone(p)
  <2>1. /\ {pc[p], pc'[p]} \subseteq InFlightLabels
        /\ Recorded' = Recorded /\ table' = table
    BY <1>0, <1>10 DEF OnLoad, OnUnwindDone, OnApplyDone, Go, TypeOK, Recorded, fixVars
  <2> QED BY <2>1
<1>11. CASE OnCopy(p) \/ OnFill(p) \/ OnInstall(p) \/ OnEnable(p)
  <2>1. /\ {pc[p], pc'[p]} \cap (InFlightLabels \cup {"write"}) = {}
        /\ Recorded' = Recorded /\ table' = table
    BY <1>0, <1>11 DEF OnCopy, OnFill, OnInstall, OnEnable, Go, TypeOK, Recorded, fixVars
  <2> QED BY <2>1
<1> QED
  BY <1>3, <1>4, <1>5, <1>6, <1>7, <1>8, <1>9, <1>10, <1>11 DEF OnStep

(* A step of "off" is a step of the ledger, or none. *)
LEMMA OffRefines ==
  ASSUME Calm, AccountInv, RecordInv, NEW p \in Proc, OffStep(p),
         Pending = {}, Pending' = {}, Promised = Recorded, Promised' = Recorded'
  PROVE  LedgerStep
<1> USE DEF LedgerStep, Ledger!Next
<1>0. TypeOK /\ OffProgress(p) /\ RecordProgress(p) /\ Accounted(p)
  BY DEF AccountInv, RecordInv, ProgressInv
<1>1. Recorded = Elsewhere(p) \cup LoadApplied(MyDir(p))
  BY <1>0, RecordedSplit
<1>2. CASE OffRemove(p)
  <2>1. pc[p] = "remove" /\ Recorded' = Recorded
    BY <1>2 DEF OffRemove, Recorded
  <2>2. PICK a \in loc[p].todo : table' \in {table, table \ {a}}
    BY <1>2 DEF OffRemove, DeleteEntry
  <2>3. a \in Recorded
    BY <1>0, <1>1, <2>1, <2>2 DEF RecordProgress
  <2> QED BY <2>1, <2>2, <2>3 DEF Ledger!Release
<1>3. CASE OffClear(p)
  <2>1. Recorded' \in {Recorded, Elsewhere(p)} /\ table' = table /\ pc[p] = "clear"
    BY <1>3, RecordsChange
  <2>2. table \subseteq Elsewhere(p) /\ Elsewhere(p) \in SUBSET Promised
    BY <1>0, <1>1, <2>1 DEF Accounted
  <2> QED BY <2>1, <2>2 DEF Ledger!Retire
<1>4. CASE OffRemoveDone(p) \/ OffUnhook(p) \/ OffUnlink(p)
  <2>1. Recorded' = Recorded /\ table' = table
    BY <1>4 DEF OffRemoveDone, OffUnhook, OffUnlink, Recorded, fixVars
  <2> QED BY <2>1
<1> QED BY <1>2, <1>3, <1>4 DEF OffStep

(* A command that starts enters what it is about to promise, or nothing. *)
LEMMA BeginRefines ==
  ASSUME TypeOK, NEW p \in Proc, NEW c \in Contexts,
         \/ \E hs, per : BeginOn(p, c, hs, per)
         \/ BeginOff(p, c),
         Pending = {}, Promised = Recorded,
         Pending' = (IF pc'[p] \in InFlightLabels THEN loc'[p].want ELSE {}),
         Promised' = Recorded' \cup (IF pc'[p] = "write" THEN loc'[p].want ELSE {})
  PROVE  LedgerStep
<1> USE DEF LedgerStep, Ledger!Next, InFlightLabels
<1>1. table' = table /\ Recorded' = Recorded
  BY DEF BeginOn, BeginOff, fixVars, Recorded
<1>2. CASE \E hs, per : BeginOn(p, c, hs, per)
  <2>1. PICK hs, per : BeginOn(p, c, hs, per)
    BY <1>2
  <2>2. PICK as \in SUBSET Addr :
          /\ Start(p, c, IF NeedsElevation(c) \/ as = {} THEN "failed" ELSE "load")
          /\ loc' = [loc EXCEPT ![p] = [Fresh EXCEPT !.ctx = c, !.hosts = hs,
                                                     !.want = as, !.persist = per]]
    BY <2>1, ResolvedType DEF BeginOn
  <2>3. loc'[p].want = as
    BY <2>2 DEF TypeOK, Fresh
  <2>4. pc'[p] = "failed" \/ (pc'[p] = "load" /\ as # {})
    BY <2>2 DEF Start, Go, TypeOK
  <2> QED BY <1>1, <2>3, <2>4 DEF Ledger!Enter
<1>3. CASE BeginOff(p, c)
  <2>1. pc'[p] \in {"failed", "said_nothing", "remove"}
    BY <1>3 DEF BeginOff, Start, Go, TypeOK
  <2> QED BY <1>1, <2>1
<1> QED BY <1>2, <1>3

(* Every step is a step of the ledger, or none. *)
LEMMA NextRefines ==
  ASSUME Calm, AccountInv, RecordInv, [Next]_vars
  PROVE  LedgerStep
<1> USE DEF LedgerStep, Ledger!Next
<1>0. TypeOK /\ OneAtATime /\ "overlap" \notin Hazards
  BY DEF AccountInv, ProgressInv, Calm
<1>1. ASSUME NEW p \in Proc, Step(p)
      PROVE  LedgerStep
  <2>1. \A q \in Proc \ {p} : pc[q] = "idle" /\ pc'[q] = "idle"
    BY <1>0, <1>1, StepAlone
  <2>2. /\ Pending = (IF pc[p] \in InFlightLabels THEN loc[p].want ELSE {})
        /\ Promised = Recorded \cup (IF pc[p] = "write" THEN loc[p].want ELSE {})
    BY <2>1, LedgerView
  <2>3. /\ Pending' = (IF pc'[p] \in InFlightLabels THEN loc'[p].want ELSE {})
        /\ Promised' = Recorded' \cup (IF pc'[p] = "write" THEN loc'[p].want ELSE {})
    BY <2>1, LedgerViewNext
  <2>4. CASE StartOn(p) \/ BootOn(p) \/ StartOff(p) \/ ExecStop(p)
    <3>1. PICK c \in Contexts :
             \/ \E hs, per : BeginOn(p, c, hs, per)
             \/ BeginOff(p, c)
      BY <2>4 DEF StartOn, BootOn, StartOff, ExecStop, Contexts
    <3>2. pc[p] = "idle"
      BY <3>1 DEF BeginOn, BeginOff, Start, Go
    <3>3. Pending = {} /\ Promised = Recorded
      BY <2>2, <3>2 DEF InFlightLabels
    <3> QED BY <1>0, <2>3, <3>1, <3>3, BeginRefines
  <2>5. CASE OnStep(p)
    <3>1. loc'[p].want = loc[p].want
      BY <1>0, <2>5, RunFrame
    <3> QED BY <2>2, <2>3, <2>5, <3>1, OnRefines
  <2>6. CASE OffStep(p)
    <3>1. {pc[p], pc'[p]} \cap (InFlightLabels \cup {"write"}) = {}
      BY <1>0, <2>6
      DEF OffStep, OffRemove, OffRemoveDone, OffClear, OffUnhook, OffUnlink, Go, TypeOK,
          InFlightLabels
    <3>2. Pending = {} /\ Pending' = {} /\ Promised = Recorded /\ Promised' = Recorded'
      BY <2>2, <2>3, <3>1
    <3> QED BY <2>6, <3>2, OffRefines
  <2>7. CASE Exit(p)
    <3>1. /\ {pc[p], pc'[p]} \cap (InFlightLabels \cup {"write"}) = {}
          /\ table' = table /\ Recorded' = Recorded
      BY <1>0, <2>7 DEF Exit, Go, Ends, TypeOK, InFlightLabels, fixVars, Recorded
    <3> QED BY <2>2, <2>3, <3>1
  <2>8. ~Crash(p)
    BY DEF Crash, Calm, May
  <2> QED BY <1>1, <2>4, <2>5, <2>6, <2>7, <2>8 DEF Step
<1>2. CASE Reboot
  <2>1. \A q \in Proc : pc[q] \notin InFlightLabels \cup {"write"}
    BY <1>2 DEF Reboot, Calm, May, Running, Ends, InFlightLabels
  <2>2. \A q \in Proc : pc'[q] = "idle"
    BY <1>2 DEF Reboot
  <2>3. InFlight = {} /\ {q \in Proc : pc[q] = "write"} = {}
    BY <2>1 DEF InFlight, InFlightLabels
  <2>4. InFlight' = {} /\ {q \in Proc : pc'[q] = "write"} = {}
    BY <2>2 DEF InFlight
  <2>5. Recorded' = Recorded /\ table' \in {table, {}}
    BY <1>2 DEF Reboot, Recorded, TableAfterReboot
  <2>6. Pending = {} /\ Promised = Recorded
    BY <2>3 DEF Pending, Promised
  <2>7. Pending' = {} /\ Promised' = Recorded'
    BY <2>4 DEF Pending, Promised
  <2> QED BY <2>5, <2>6, <2>7 DEF Ledger!PowerCycle
<1>3. CASE UNCHANGED vars \/ ProgramMissing
  <2>1. table' = table /\ file' = file /\ pc' = pc /\ loc' = loc
    BY <1>3 DEF vars, ProgramMissing, fixVars
  <2> QED BY <2>1 DEF Promised, Pending, InFlight, Recorded
<1> QED BY <1>1, <1>2, <1>3 DEF Next, Step

(* While nothing goes wrong but restarts, missing DNS answers and the use of
   several state directories, the commands, the hook and the restarts do what
   the ledger may do. *)
THEOREM CommandsImplementLedger ==
  ASSUME Calm
  PROVE  Spec => ImplementsLedger
<1>1. Init => Ledger!Init
  <2> SUFFICES ASSUME Init PROVE Ledger!Init
    OBVIOUS
  <2>1. \A q \in Proc : pc[q] = "idle"
    BY DEF Init
  <2>2. InFlight = {} /\ {q \in Proc : pc[q] = "write"} = {}
    BY <2>1 DEF InFlight
  <2>3. Recorded = {}
    BY DEF Init, Recorded, Missing
  <2> QED BY <2>2, <2>3 DEF Init, Ledger!Init, Pending, Promised
<1>2. AccountInv /\ RecordInv /\ [Next]_vars
        => [Ledger!Next]_<<table, Promised, Pending>>
  BY NextRefines DEF LedgerStep
<1>3. Spec => []RecordInv
  BY RecordInvariant DEF Calm
<1> QED
  BY <1>1, <1>2, <1>3, AccountInvariant, PTL DEF Spec, ImplementsLedger, Ledger!Spec

(* What the ledger is for: everything blocked is on it or about to be. *)
Balanced == table \subseteq Promised \cup Pending

(* The ledger's steps keep it, so at every moment, between the steps of a
   command too, each blocked address is on record or about to be recorded by
   the "on" that runs. *)
THEOREM AlwaysBalanced ==
  ASSUME Calm
  PROVE  Spec => []Balanced
<1> USE DEF Balanced
<1>1. Ledger!Init => Balanced
  BY DEF Ledger!Init
<1>2. Balanced /\ [Ledger!Next]_<<table, Promised, Pending>> => Balanced'
  <2> SUFFICES ASSUME Balanced, [Ledger!Next]_<<table, Promised, Pending>>
               PROVE  Balanced'
    OBVIOUS
  <2>1. CASE Ledger!Enter BY <2>1 DEF Ledger!Enter
  <2>2. CASE Ledger!Block BY <2>2 DEF Ledger!Block
  <2>3. CASE Ledger!Release BY <2>3 DEF Ledger!Release
  <2>4. CASE Ledger!Commit BY <2>4 DEF Ledger!Commit
  <2>5. CASE Ledger!Abandon BY <2>5 DEF Ledger!Abandon
  <2>6. CASE Ledger!Retire BY <2>6 DEF Ledger!Retire
  <2>7. CASE Ledger!PowerCycle BY <2>7 DEF Ledger!PowerCycle
  <2>8. CASE UNCHANGED <<table, Promised, Pending>> BY <2>8
  <2> QED BY <2>1, <2>2, <2>3, <2>4, <2>5, <2>6, <2>7, <2>8 DEF Ledger!Next
<1> QED
  BY <1>1, <1>2, CommandsImplementLedger, PTL DEF ImplementsLedger, Ledger!Spec

-----------------------------------------------------------------------------
(* What failures and kills leave behind *)

(* From its truncation on, until it is written, a run's file has no records. *)
WritesFresh == \A p \in Proc : pc[p] = "write" => LoadApplied(MyDir(p)) = {}

(* Only the truncation leads to the write. *)
LEMMA WriteLabel ==
  ASSUME TypeOK, NEW p \in Proc, Step(p), pc'[p] = "write"
  PROVE  OnSaveOpen(p)
<1> USE DEF TypeOK, Go
<1>1. CASE StartOn(p) \/ BootOn(p)
  BY <1>1 DEF StartOn, BootOn, BeginOn, Start
<1>2. CASE StartOff(p) \/ ExecStop(p)
  <2>1. PICK c : BeginOff(p, c)
    BY <1>2 DEF StartOff, ExecStop
  <2> QED BY <2>1 DEF BeginOff, Start
<1>3. CASE OnStep(p)
  <2>1. CASE ~OnSaveOpen(p)
    <3>1. pc'[p] # "write"
      BY <1>3, <2>1
      DEF OnStep, OnLoad, OnUnwind, OnUnwindDone, OnApplyDelete, OnApplyAdd, OnApplyFail,
          OnApplyDone, OnSaveWrite, OnSaveFail, OnCopy, OnFill, OnInstall, OnEnable
    <3> QED BY <3>1
  <2> QED BY <2>1
<1>4. CASE OffStep(p)
  BY <1>4 DEF OffStep, OffRemove, OffRemoveDone, OffClear, OffUnhook, OffUnlink
<1>5. CASE Exit(p) \/ Crash(p)
  BY <1>5 DEF Exit, Crash
<1> QED BY <1>1, <1>2, <1>3, <1>4, <1>5 DEF Step

(* Every step keeps it. *)
LEMMA NextWritesFresh ==
  ASSUME "overlap" \notin Hazards, ProgressInv, WritesFresh, [Next]_vars
  PROVE  WritesFresh'
<1>0. TypeOK /\ OneAtATime
  BY DEF ProgressInv
<1>1. ASSUME NEW p \in Proc, Step(p), NEW q \in Proc, pc'[q] = "write"
      PROVE  LoadApplied(MyDir(q))' = {}
  <2>1. q = p
    BY <1>0, <1>1, StepAlone
  <2>2. OnSaveOpen(p)
    BY <1>0, <1>1, <2>1, WriteLabel
  <2> QED
    BY <1>0, <2>1, <2>2
    DEF OnSaveOpen, SaveOpen, Torn, LoadApplied, MyDir, TypeOK
<1>2. CASE Reboot
  BY <1>2 DEF Reboot, WritesFresh
<1>3. CASE UNCHANGED vars \/ ProgramMissing
  BY <1>3 DEF vars, ProgramMissing, fixVars, WritesFresh, LoadApplied, MyDir
<1> QED BY <1>1, <1>2, <1>3 DEF Next, Step, WritesFresh

(* How a step of p may strand address a. *)
StrandedBy(p, a) ==
  \/ /\ pc[p] \in {"load", "unwind", "apply", "save", "write"}
     /\ pc'[p] \in {"failed", "idle"}
     /\ a \in loc[p].want
  \/ /\ pc[p] = "save" /\ pc'[p] = "write"
     /\ a \in LoadApplied(MyDir(p)) \ loc[p].want

(* A step of a command strands nothing in another way. *)
LEMMA StrandStep ==
  ASSUME "overlap" \notin Hazards, ProgressInv, WritesFresh,
         NEW p \in Proc, Step(p), NEW a \in Stranded' \ Stranded
  PROVE  StrandedBy(p, a)
<1>0. TypeOK /\ OneAtATime /\ OnProgress(p) /\ OffProgress(p)
  BY DEF ProgressInv
<1>1. \A q \in Proc \ {p} : pc[q] = "idle" /\ pc'[q] = "idle"
  BY <1>0, StepAlone
<1>2. /\ Pending = IF pc[p] \in InFlightLabels THEN loc[p].want ELSE {}
      /\ Promised = Recorded \cup IF pc[p] = "write" THEN loc[p].want ELSE {}
  BY <1>1, LedgerView
<1>3. /\ Pending' = IF pc'[p] \in InFlightLabels THEN loc'[p].want ELSE {}
      /\ Promised' = Recorded' \cup IF pc'[p] = "write" THEN loc'[p].want ELSE {}
  BY <1>1, LedgerViewNext
<1>4. a \in table' /\ a \notin Promised' /\ a \notin Pending'
  BY DEF Stranded
<1>5. a \in table => a \in Promised \/ a \in Pending
  BY DEF Stranded
<1>6. CASE OnSaveOpen(p)
  <2>1. /\ pc[p] = "save" /\ pc'[p] = "write" /\ loc' = loc /\ table' = table
        /\ MyDir(p) \in Dirs /\ file' = [file EXCEPT ![MyDir(p)] = Torn]
    BY <1>0, <1>6 DEF OnSaveOpen, SaveOpen, Go, TypeOK
  <2>2. Torn \in Content /\ Torn.applied = {}
    BY DEF Torn, Content
  <2>3. Recorded' = Elsewhere(p)
    BY <1>0, <2>1, <2>2, RecordedWritten
  <2>4. a \notin loc[p].want /\ a \notin Elsewhere(p)
    BY <1>3, <1>4, <2>1, <2>3
  <2>5. a \in Recorded
    BY <1>2, <1>4, <1>5, <2>1, <2>4
  <2>6. a \in LoadApplied(MyDir(p))
    BY <1>0, <2>4, <2>5, RecordedSplit
  <2> QED BY <2>1, <2>4, <2>6 DEF StrandedBy
<1>7. CASE OnSaveWrite(p)
  <2>1. /\ pc[p] = "write" /\ loc' = loc /\ table' = table /\ MyDir(p) \in Dirs
        /\ file' = [file EXCEPT ![MyDir(p)] = Saved(loc[p].hosts, loc[p].want)]
    BY <1>7 DEF OnSaveWrite, SaveWrite, Go
  <2>2. /\ Saved(loc[p].hosts, loc[p].want) \in Content
        /\ Saved(loc[p].hosts, loc[p].want).applied = loc[p].want
    BY <1>0 DEF Saved, Content, TypeOK, Local
  <2>3. Recorded' = Elsewhere(p) \cup loc[p].want
    BY <1>0, <2>1, <2>2, RecordedWritten
  <2>4. Recorded = Elsewhere(p)
    BY <1>0, <2>1, RecordedSplit DEF WritesFresh
  <2>5. Pending = {} /\ Promised = Elsewhere(p) \cup loc[p].want
    BY <1>2, <2>1, <2>4 DEF InFlightLabels
  <2> QED BY <1>3, <1>4, <1>5, <2>1, <2>3, <2>5
<1>8. CASE OffClear(p)
  <2>1. pc[p] = "clear" /\ loc' = loc /\ table' = table
    BY <1>8 DEF OffClear, Go
  <2>2. Pending = {} /\ Promised = Recorded /\ a \in Recorded /\ a \notin Recorded'
    BY <1>2, <1>3, <1>4, <1>5, <2>1 DEF InFlightLabels
  <2>3. Clear(MyDir(p))
    BY <1>8, <2>2 DEF OffClear, Recorded
  <2>4. MyDir(p) \in Dirs /\ file' = [file EXCEPT ![MyDir(p)] = Missing]
    BY <2>3 DEF Clear
  <2>5. Missing \in Content /\ Missing.applied = {}
    BY DEF Missing, Content
  <2>6. Recorded' = Elsewhere(p)
    BY <1>0, <2>4, <2>5, RecordedWritten
  <2>7. a \in LoadApplied(MyDir(p)) /\ a \in table
    BY <1>0, <1>4, <2>1, <2>2, <2>6, RecordedSplit
  <2> QED BY <1>0, <2>1, <2>7 DEF OffProgress, LoadApplied
<1>9. CASE ~OnSaveOpen(p) /\ ~OnSaveWrite(p) /\ ~OffClear(p)
  <2>1. file' = file /\ Recorded' = Recorded
    BY <1>9, FileKept DEF Recorded
  <2>2. CASE StartOn(p) \/ BootOn(p) \/ StartOff(p) \/ ExecStop(p)
    <3>1. pc[p] = "idle" /\ table' = table
      BY <2>2 DEF StartOn, BootOn, BeginOn, StartOff, ExecStop, BeginOff, Start, Go, fixVars
    <3> QED BY <1>2, <1>3, <1>4, <1>5, <2>1, <3>1 DEF InFlightLabels
  <2>3. CASE OnStep(p)
    <3>1. loc'[p].want = loc[p].want
      BY <1>0, <2>3, RunFrame
    <3>2. CASE OnApplyAdd(p)
      <4>1. pc[p] = "apply" /\ pc' = pc /\ table' \subseteq table \cup loc[p].want
        BY <1>0, <3>2 DEF OnApplyAdd, AddEntry, OnProgress
      <4> QED BY <1>2, <1>3, <1>4, <1>5, <2>1, <3>1, <4>1 DEF InFlightLabels
    <3>3. CASE OnApplyFail(p) \/ OnSaveFail(p)
      <4>1. /\ pc[p] \in {"apply", "save", "write"} /\ pc'[p] = "failed"
            /\ table' = table
        BY <1>0, <3>3 DEF OnApplyFail, OnSaveFail, Go, TypeOK, fixVars
      <4>2. a \in loc[p].want
        BY <1>2, <1>3, <1>4, <1>5, <2>1, <4>1 DEF InFlightLabels
      <4> QED BY <4>1, <4>2 DEF StrandedBy
    <3>4. CASE OnLoad(p) \/ OnUnwind(p) \/ OnUnwindDone(p) \/ OnApplyDelete(p)
                 \/ OnApplyDone(p)
      <4>1. pc[p] \in InFlightLabels /\ pc'[p] \in InFlightLabels /\ table' \subseteq table
        BY <1>0, <3>4
        DEF OnLoad, OnUnwind, OnUnwindDone, OnApplyDelete, OnApplyDone, Go, TypeOK, fixVars,
            DeleteEntry, InFlightLabels
      <4> QED BY <1>2, <1>3, <1>4, <1>5, <2>1, <3>1, <4>1 DEF InFlightLabels
    <3>5. CASE OnCopy(p) \/ OnFill(p) \/ OnInstall(p) \/ OnEnable(p)
      <4>1. pc[p] \in {"copy", "fill", "install", "enable"} /\ table' = table
        BY <3>5 DEF OnCopy, OnFill, OnInstall, OnEnable, Go, fixVars
      <4> QED BY <1>2, <1>3, <1>4, <1>5, <2>1, <4>1 DEF InFlightLabels
    <3> QED BY <1>9, <2>3, <3>2, <3>3, <3>4, <3>5 DEF OnStep
  <2>4. CASE OffStep(p)
    <3>1. pc[p] \in {"remove", "unhook", "unlink"} /\ table' \subseteq table
      BY <1>9, <2>4
      DEF OffStep, OffRemove, OffRemoveDone, OffUnhook, OffUnlink, Go, DeleteEntry, fixVars
    <3> QED BY <1>2, <1>3, <1>4, <1>5, <2>1, <3>1 DEF InFlightLabels
  <2>5. CASE Exit(p) \/ Crash(p)
    <3>1. pc'[p] = "idle" /\ table' = table
      BY <1>0, <2>5 DEF Exit, Crash, Go, TypeOK, fixVars
    <3>2. a \notin Recorded
      BY <1>3, <1>4, <2>1
    <3>3. pc[p] \in InFlightLabels \cup {"write"} /\ a \in loc[p].want
      BY <1>2, <1>4, <1>5, <3>1, <3>2
    <3> QED BY <3>1, <3>3 DEF StrandedBy, InFlightLabels
  <2> QED BY <2>2, <2>3, <2>4, <2>5 DEF Step
<1> QED BY <1>6, <1>7, <1>8, <1>9

(* A restart strands only what a killed "on" was to record. *)
LEMMA StrandReboot ==
  ASSUME TypeOK, Reboot, NEW a \in Stranded' \ Stranded
  PROVE  \E p \in Proc : StrandedBy(p, a)
<1>1. file' = file /\ table' \subseteq table /\ \A p \in Proc : pc'[p] = "idle"
  BY DEF Reboot, TableAfterReboot
<1>2. a \in table /\ a \notin Recorded /\ a \in Promised \cup Pending
  BY <1>1 DEF Stranded, Promised, Recorded
<1>3. PICK p \in Proc :
         pc[p] \in {"load", "unwind", "apply", "save", "write"} /\ a \in loc[p].want
  BY <1>2 DEF Promised, Pending, InFlight
<1> QED BY <1>1, <1>3 DEF StrandedBy

(* Without overlap, on every operating system and whatever fails, is killed,
   is restarted or cannot be read, only an "on" strands an address: an "off",
   the hook's installation or removal, a restart by itself never does. *)
THEOREM StrandedByOn ==
  ASSUME "overlap" \notin Hazards
  PROVE  Spec => OnlyOnStrands
<1> DEFINE A == \A a \in Stranded' \ Stranded :
                  \E p \in Proc :
                    \/ /\ pc[p] \in {"load", "unwind", "apply", "save", "write"}
                       /\ pc'[p] \in {"failed", "idle"}
                       /\ a \in loc[p].want
                    \/ /\ pc[p] = "save" /\ pc'[p] = "write"
                       /\ a \in LoadApplied(MyDir(p)) \ loc[p].want
<1>1. ASSUME ProgressInv, WritesFresh, [Next]_vars
      PROVE  A
  <2> SUFFICES ASSUME NEW a \in Stranded' \ Stranded
               PROVE  \E p \in Proc : StrandedBy(p, a)
    BY DEF StrandedBy
  <2>1. CASE \E p \in Proc : Step(p)
    BY <1>1, <2>1, StrandStep
  <2>2. CASE Reboot
    BY <1>1, <2>2, StrandReboot DEF ProgressInv
  <2>3. CASE UNCHANGED vars \/ ProgramMissing
    <3>1. table' = table /\ file' = file /\ pc' = pc /\ loc' = loc
      BY <2>3 DEF vars, ProgramMissing, fixVars
    <3> QED BY <3>1 DEF Stranded, Promised, Pending, InFlight, Recorded
  <2> QED BY <1>1, <2>1, <2>2, <2>3 DEF Next, Step
<1>2. Init => WritesFresh
  BY DEF Init, WritesFresh
<1>3. ProgressInv /\ WritesFresh /\ [Next]_vars => WritesFresh' /\ [A]_vars
  BY <1>1, NextWritesFresh
<1> QED BY <1>2, <1>3, ProgressInvariant, PTL DEF Spec, OnlyOnStrands
=============================================================================
