----------------------------- MODULE TurnProofs ------------------------------
(***************************************************************************)
(* Theorems about a turn, for every set of connections.                    *)
(***************************************************************************)
EXTENDS Turn, ProxyProofs

(* How far the turn is, what the child is and what the outcome says. *)
Course ==
  /\ turn = "start" => child = "new" /\ recs = {}
  /\ child = "running" => turn = "run"
  /\ turn = "done" =>
       \/ outcome = Classify(exitErr, ctx, recs, printed)
       \/ child = "new" /\ recs = {}

(* Inductive: the copied records are some of the proxy's. *)
TurnInv == TurnTypeOK /\ ProxyInv /\ recs \subseteq conns /\ Course

(* classify gives one of the five outcomes. *)
LEMMA ClassifyType ==
  ASSUME NEW e, NEW x, NEW rs, NEW out
  PROVE  Classify(e, x, rs, out) \in Outcomes
BY DEF Classify, Outcomes

(* Records are never taken back. *)
LEMMA TrafficGrows ==
  ASSUME NEW running, Traffic(running)
  PROVE  conns \subseteq conns'
BY DEF Traffic, Accept, Handler, CopyDownBreaks, CopyDownStops, ServerEnds,
       ClientEnds, ReadRequest, DialOk, DialFail, Reply, CopyUpEnds,
       CopyDownEnds, Finish, OnlyStage

(* A turn starts without records. *)
LEMMA TurnInitInv == TurnInit => TurnInv
BY ProxyInitInv
DEF TurnInit, TurnInv, TurnTypeOK, ProxyInv, Course, Texts, ExitErrors

(* The end of claude, however it comes, keeps the invariant. *)
LEMMA ChildExitsInv ==
  ASSUME TurnInv, NEW text \in Texts, NEW err \in ExitErrors,
         ChildExits(text, err)
  PROVE  TurnInv'
<1>1. ProxyInv'
  <2>1. client' \in [Conn -> EndState]
    BY DEF ChildExits, EndState
  <2> QED BY <2>1, UserInv DEF ChildExits, TurnInv, ProxyInv, ProxyTypeOK
<1>2. TurnTypeOK'
  BY <1>1 DEF ChildExits, TurnInv, TurnTypeOK, ProxyInv
<1>3. Course' /\ (recs \subseteq conns)'
  BY DEF ChildExits, TurnInv, Course
<1> QED BY <1>1, <1>2, <1>3 DEF TurnInv

(* Every step of a turn and of its proxy keeps the invariant. *)
LEMMA TurnNextInv == TurnInv /\ [TurnNext]_allVars => TurnInv'
<1> SUFFICES ASSUME TurnInv, [TurnNext]_allVars PROVE TurnInv'
  OBVIOUS
<1>1. CASE ClaudeEnds \/ Killed
  <2>1. PICK text \in Texts, err \in ExitErrors : ChildExits(text, err)
    BY <1>1 DEF ClaudeEnds, Killed, Texts, ExitErrors
  <2> QED BY <2>1, ChildExitsInv
<1>2. CASE Connections
  <2>1. ProxyInv' /\ conns \subseteq conns'
    BY <1>2, TrafficInv, TrafficGrows DEF Connections, TurnInv
  <2> QED
    BY <1>2, <2>1 DEF Connections, turnVars, TurnInv, TurnTypeOK, ProxyInv, Course
<1>3. CASE Conclude
  <2>1. ProxyInv'
    BY <1>3, UserInv DEF Conclude, Close, TurnInv, ProxyInv, ProxyTypeOK
  <2>2. outcome' \in Outcomes /\ turn' = "done"
    BY <1>3, ClassifyType DEF Conclude
  <2>3. TurnTypeOK'
    BY <1>3, <2>1, <2>2 DEF Conclude, TurnInv, TurnTypeOK, ProxyInv
  <2>4. Course' /\ (recs \subseteq conns)'
    <3>1. outcome' = Classify(exitErr', ctx', recs', printed')
      BY <1>3 DEF Conclude
    <3>2. child # "running"
      BY <1>3 DEF Conclude, TurnInv, Course
    <3> QED BY <1>3, <2>2, <3>1, <3>2 DEF Conclude, Close, TurnInv, Course
  <2> QED BY <2>1, <2>3, <2>4 DEF TurnInv
<1>4. CASE \/ ListenFails \/ Launch \/ WaitReturns \/ CopyRecords
           \/ HelperEnds \/ Deadline \/ Cancel \/ UNCHANGED allVars
  <2>1. UNCHANGED proxyVars
    BY <1>4 DEF ListenFails, Launch, WaitReturns, CopyRecords, HelperEnds,
                Deadline, Cancel, ContextEnds, allVars
  <2>2. ProxyInv'
    BY <2>1 DEF proxyVars, TurnInv, ProxyInv, ProxyTypeOK, Fact, RecordsOf
  <2>3. TurnTypeOK'
    <3>1. ProxyTypeOK' /\ recs \subseteq Record /\ conns \subseteq Record
      BY <2>2 DEF TurnInv, TurnTypeOK, ProxyInv, ProxyTypeOK
    <3>2. \/ ListenFails \/ Launch \/ WaitReturns \/ CopyRecords
          \/ HelperEnds \/ ContextEnds("deadline") \/ ContextEnds("canceled")
          \/ UNCHANGED turnVars
      BY <1>4 DEF Deadline, Cancel, allVars
    <3> QED
      BY <3>1, <3>2
      DEF ListenFails, Launch, WaitReturns, CopyRecords, HelperEnds, ContextEnds,
          turnVars, TurnInv, TurnTypeOK, Records, Outcomes, ExitErrors
  <2>4. Course'
    BY <1>4, <2>1
    DEF ListenFails, Launch, WaitReturns, CopyRecords, HelperEnds, Deadline,
        Cancel, ContextEnds, allVars, turnVars, proxyVars, TurnInv, TurnTypeOK,
        Course
  <2>5. (recs \subseteq conns)'
    BY <1>4, <2>1
    DEF ListenFails, Launch, WaitReturns, CopyRecords, HelperEnds, Deadline,
        Cancel, ContextEnds, allVars, turnVars, proxyVars, TurnInv, Records
  <2> QED BY <2>2, <2>3, <2>4, <2>5 DEF TurnInv
<1> QED BY <1>1, <1>2, <1>3, <1>4 DEF TurnNext, RunTurn

(* The invariant holds throughout. *)
THEOREM TurnInvariant == TurnSpec => []TurnInv
<1> QED BY TurnInitInv, TurnNextInv, PTL DEF TurnSpec

(* Every variable of a turn and of its proxy keeps its type. *)
THEOREM TurnTypeCorrect == TurnSpec => []TurnTypeOK
<1>1. TurnInv => TurnTypeOK
  BY DEF TurnInv
<1> QED BY <1>1, TurnInvariant, PTL

(* The records tell the truth at every moment, whatever the handlers, the
   clients, the upstreams and the turn do meanwhile. *)
THEOREM RecordsAreFaithful == TurnSpec => []RecordsFaithful
<1>1. TurnInv => RecordsFaithful
  BY InvFaithful DEF TurnInv
<1> QED BY <1>1, TurnInvariant, PTL

(* A family whose dials all fail is never called hung. *)
THEOREM BlackholeHasNoPath == TurnSpec => []BlackholeIsNoPath
<1>1. TurnInv => BlackholeIsNoPath
  <2> SUFFICES ASSUME TurnInv, turn = "done", tunneled = {}, recs # {}
               PROVE  outcome \in {"NoPath", "NoClaude"}
    BY DEF BlackholeIsNoPath
  <2>1. ASSUME NEW r \in recs PROVE r.err # "none"
    <3>1. r \in conns /\ r.conn \in Conn
      BY DEF TurnInv, ProxyInv, ProxyTypeOK, Record
    <3>2. [conn |-> r.conn, err |-> "none"] \notin conns
      BY <3>1, InvFaithful DEF TurnInv, RecordsFaithful
    <3>3. r = [conn |-> r.conn, err |-> r.err]
      BY <3>1 DEF TurnInv, ProxyInv, ProxyTypeOK, Record
    <3> QED BY <3>1, <3>2, <3>3
  <2>2. OnlyFailedDials(recs)
    BY <2>1 DEF OnlyFailedDials
  <2>3. outcome = Classify(exitErr, ctx, recs, printed)
    BY DEF TurnInv, Course
  <2> QED BY <2>2, <2>3 DEF Classify
<1> QED BY <1>1, TurnInvariant, PTL

(* A stream withheld until the deadline is called hung, if every dial
   connected. *)
THEOREM WithheldHangs == TurnSpec => []WithheldIsHung
<1>1. TurnInv => WithheldIsHung
  <2> SUFFICES ASSUME TurnInv, turn = "done", ctx = "deadline", child = "gone",
                      exitErr = "exit", printed # "auth",
                      \A r \in conns : r.err = "none"
               PROVE  outcome = "Hung"
    BY DEF WithheldIsHung
  <2>1. outcome = Classify(exitErr, ctx, recs, printed)
    BY DEF TurnInv, Course
  <2>2. \A r \in recs : r.err = "none"
    BY DEF TurnInv
  <2>3. ~HasUnreachableAPI(recs) /\ ~OnlyFailedDials(recs)
    BY <2>2 DEF HasUnreachableAPI, OnlyFailedDials
  <2> QED BY <2>1, <2>3 DEF Classify
<1> QED BY <1>1, TurnInvariant, PTL
=============================================================================
