---------------------------- MODULE SessionProofs ----------------------------
(***************************************************************************)
(* Theorems about a session, for every set of connections and every        *)
(* number of signals.                                                      *)
(***************************************************************************)
EXTENDS Session, ProxyProofs

(* Where launchOverIPv4 is, what it has set up and what it has come to. *)
Stations ==
  /\ command = "new" => at \in {"start", "return"}
  /\ command = "running" => at \in {"notify", "wait"}
  /\ notified <=> at \in {"wait", "stop"}
  /\ closed => at \in {"receipt", "return"}
  /\ fate = "exited" => at = "return"
  /\ fate = "killed" => at \notin {"wait", "stop"}
  /\ fate # "panicked"

(* What was on record when the command ended still is. *)
Kept == atExit.records \subseteq {r.err = "none" : r \in conns}

(* Inductive. *)
SessionInv ==
  /\ SessionTypeOK /\ ProxyInv
  /\ Stations
  /\ Kept
  /\ receipt # "none" => at = "return"
  /\ ReceiptSound

(* Neither records nor tunnels are taken back. *)
LEMMA TrafficKeeps ==
  ASSUME NEW running, Traffic(running)
  PROVE  conns \subseteq conns' /\ tunneled \subseteq tunneled'
BY DEF Traffic, Accept, Handler, CopyDownBreaks, CopyDownStops, ServerEnds,
       ClientEnds, ReadRequest, DialOk, DialFail, Reply, CopyUpEnds,
       CopyDownEnds, Finish, OnlyStage

(* The types of what the proxy does not own. *)
OwnTypeOK ==
  /\ at \in {"start", "notify", "wait", "stop", "close", "receipt", "return"}
  /\ fate \in {"alive", "exited", "killed", "panicked"}
  /\ command \in {"new", "running", "gone"}
  /\ {notified, closed, caught, told} \subseteq BOOLEAN
  /\ sigc \in Seq(Signals) /\ Len(sigc) <= 1
  /\ forwarder \in {"new", "receive", "gone"} \cup Signals
  /\ receipt \in Receipts \cup {"none"}
  /\ sent \in 0..MaxSignals
  /\ atExit \in [records : SUBSET BOOLEAN, tunnels : BOOLEAN]

(* Nothing has happened at first. *)
LEMMA SessionInitInv == SessionInit => SessionInv
<1> SUFFICES ASSUME SessionInit PROVE SessionInv
  OBVIOUS
<1>1. ProxyInv
  BY ProxyInitInv DEF SessionInit
<1>2. SessionTypeOK
  <2>1. <<>> \in Seq(Signals) /\ Len(<<>>) <= 1
    OBVIOUS
  <2>2. 0 \in 0..MaxSignals
    BY SessionAssumption
  <2>3. [records |-> {}, tunnels |-> FALSE] \in [records : SUBSET BOOLEAN, tunnels : BOOLEAN]
    OBVIOUS
  <2> QED BY <1>1, <2>1, <2>2, <2>3 DEF SessionInit, SessionTypeOK, ProxyInv
<1>3. Stations /\ Kept /\ receipt = "none"
  BY DEF SessionInit, Stations, Kept
<1> QED BY <1>1, <1>2, <1>3 DEF SessionInv, ReceiptSound

(* Every step keeps these types. *)
LEMMA OwnType ==
  ASSUME OwnTypeOK, SessionNext
  PROVE  OwnTypeOK'
<1> USE SessionAssumption DEF OwnTypeOK
<1>1. CASE Launch
  <2>1. Summary(Records) \in Receipts
    BY DEF Summary, Receipts
  <2> QED
    BY <1>1, <2>1
    DEF Launch, StartFails, StartCommand, Notify, WaitReturns, StopSignals,
        CloseChannel, PrintReceipt, Step, others, channel
<1>2. CASE Forwarder
  <2>1. sigc # <<>> => Head(sigc) \in Signals /\ Tail(sigc) = <<>>
    OBVIOUS
  <2>2. /\ <<>> \in Seq(Signals) /\ Len(<<>>) <= 1
    OBVIOUS
  <2> QED
    BY <1>2, <2>1, <2>2
    DEF Forwarder, ForwarderStarts, Receive, Forward, ForwarderEnds, ForwarderStep
<1>3. CASE \E s \in Signals : Signal(s)
  <2>1. PICK s \in Signals : Signal(s)
    BY <1>3
  <2>2. sigc' \in Seq(Signals) /\ Len(sigc') <= 1
    <3>1. <<s>> \in Seq(Signals) /\ Len(<<s>>) <= 1
      OBVIOUS
    <3> QED BY <2>1, <3>1 DEF Signal, Offer
  <2>3. sent' \in 0..MaxSignals
    BY <2>1 DEF Signal
  <2> QED BY <2>1, <2>2, <2>3 DEF Signal
<1>4. CASE CommandEnds
  <2>1. atExit' \in [records : SUBSET BOOLEAN, tunnels : BOOLEAN]
    <3>1. {r.err = "none" : r \in conns} \subseteq BOOLEAN
      OBVIOUS
    <3>2. (tunneled # {}) \in BOOLEAN
      OBVIOUS
    <3> QED BY <1>4, <3>1, <3>2 DEF CommandEnds
  <2> QED BY <1>4, <2>1 DEF CommandEnds, channel
<1>5. CASE Tunnels
  BY <1>5 DEF Tunnels, sessionVars, channel
<1> QED BY <1>1, <1>2, <1>3, <1>4, <1>5 DEF SessionNext

(* The proxy keeps its invariant, its records and its tunnels. *)
LEMMA ProxyKept ==
  ASSUME ProxyInv, SessionNext
  PROVE  ProxyInv' /\ conns \subseteq conns' /\ tunneled \subseteq tunneled'
<1>1. CASE Tunnels
  BY <1>1, TrafficInv, TrafficKeeps DEF Tunnels
<1>2. CASE CommandEnds
  <2>1. client' \in [Conn -> EndState]
    BY <1>2 DEF CommandEnds, EndState
  <2> QED BY <1>2, <2>1, UserInv DEF CommandEnds, ProxyInv, ProxyTypeOK
<1>3. CASE Launch \/ Forwarder \/ \E s \in Signals : Signal(s)
  <2>1. UNCHANGED proxyVars
    BY <1>3
    DEF Launch, StartFails, StartCommand, Notify, WaitReturns, StopSignals,
        CloseChannel, PrintReceipt, Forwarder, ForwarderStarts, Receive, Forward,
        ForwarderEnds, ForwarderStep, Signal, others
  <2> QED BY <2>1, UserInv DEF proxyVars, ProxyInv, ProxyTypeOK
<1> QED BY <1>1, <1>2, <1>3 DEF SessionNext

(* Every step keeps the stations. *)
LEMMA StationsKept ==
  ASSUME OwnTypeOK, Stations, SessionNext
  PROVE  Stations'
<1> USE DEF OwnTypeOK, Stations
<1>1. CASE Launch
  BY <1>1
  DEF Launch, StartFails, StartCommand, Notify, WaitReturns, StopSignals,
      CloseChannel, PrintReceipt, Step, others, channel
<1>2. CASE Forwarder
  BY <1>2
  DEF Forwarder, ForwarderStarts, Receive, Forward, ForwarderEnds, ForwarderStep
<1>3. CASE \E s \in Signals : Signal(s)
  BY <1>3 DEF Signal
<1>4. CASE CommandEnds
  BY <1>4 DEF CommandEnds, channel
<1>5. CASE Tunnels
  BY <1>5 DEF Tunnels, sessionVars, channel
<1> QED BY <1>1, <1>2, <1>3, <1>4, <1>5 DEF SessionNext

(* A receipt printed now is sound. *)
LEMMA ReceiptPrinted ==
  ASSUME SessionInv, PrintReceipt
  PROVE  ReceiptSound'
<1>1. /\ receipt' = Summary(conns) /\ atExit' = atExit
      /\ tunneled' = tunneled
  BY DEF PrintReceipt, Records, proxyVars
<1>2. conns = {} => atExit.records = {}
  BY DEF SessionInv, Kept
<1>3. (\A r \in conns : r.err # "none") => TRUE \notin atExit.records
  BY DEF SessionInv, Kept
<1>4. ASSUME NEW r \in conns, r.err = "none" PROVE tunneled # {}
  <2>1. r.conn \in Conn /\ r = [conn |-> r.conn, err |-> "none"]
    BY <1>4 DEF SessionInv, ProxyInv, ProxyTypeOK, Record
  <2> QED BY <2>1, <1>4, InvFaithful DEF SessionInv, RecordsFaithful
<1> QED BY <1>1, <1>2, <1>3, <1>4 DEF Summary, ReceiptSound

(* Every step keeps the invariant. *)
LEMMA SessionNextInv == SessionInv /\ [SessionNext]_allVars => SessionInv'
<1> SUFFICES ASSUME SessionInv, SessionNext PROVE SessionInv'
  <2>1. ASSUME SessionInv, UNCHANGED allVars PROVE SessionInv'
    <3>1. UNCHANGED proxyVars /\ UNCHANGED sessionVars
      BY <2>1 DEF allVars
    <3>2. ProxyInv'
      BY <2>1, <3>1, UserInv DEF proxyVars, SessionInv, ProxyInv, ProxyTypeOK
    <3>3. SessionTypeOK'
      BY <2>1, <3>1, <3>2
      DEF sessionVars, channel, SessionInv, SessionTypeOK, ProxyInv
    <3>4. Stations' /\ Kept' /\ ReceiptSound' /\ (receipt # "none" => at = "return")'
      BY <2>1, <3>1
      DEF proxyVars, sessionVars, channel, SessionInv, Stations, Kept, ReceiptSound
    <3> QED BY <3>2, <3>3, <3>4 DEF SessionInv
  <2> QED BY <2>1
<1>1. OwnTypeOK /\ ProxyInv /\ Stations
  BY DEF SessionInv, SessionTypeOK, OwnTypeOK
<1>2. OwnTypeOK' /\ Stations'
  BY <1>1, OwnType, StationsKept
<1>3. ProxyInv' /\ conns \subseteq conns' /\ tunneled \subseteq tunneled'
  BY <1>1, ProxyKept
<1>4. SessionTypeOK'
  BY <1>2, <1>3 DEF SessionTypeOK, OwnTypeOK, ProxyInv
<1>5. CASE PrintReceipt
  <2>1. at' = "return" /\ Kept'
    BY <1>5, <1>3 DEF PrintReceipt, Step, SessionInv, Kept
  <2> QED BY <1>2, <1>3, <1>4, <1>5, <2>1, ReceiptPrinted DEF SessionInv
<1>6. CASE CommandEnds
  <2>1. receipt' = "none" /\ Kept'
    BY <1>1, <1>6 DEF CommandEnds, SessionInv, Stations, Kept
  <2> QED BY <1>2, <1>3, <1>4, <2>1 DEF SessionInv, ReceiptSound
<1>7. CASE ~PrintReceipt /\ ~CommandEnds
  <2>1. receipt' = receipt /\ atExit' = atExit
    BY <1>7
    DEF SessionNext, Launch, StartFails, StartCommand, Notify, WaitReturns,
        StopSignals, CloseChannel, Forwarder, ForwarderStarts, Receive, Forward,
        ForwarderEnds, ForwarderStep, Signal, Tunnels, others, sessionVars
  <2>2. at = "return" => at' = "return"
    BY <1>7
    DEF SessionNext, Launch, StartFails, StartCommand, Notify, WaitReturns,
        StopSignals, CloseChannel, Step, Forwarder, ForwarderStarts, Receive,
        Forward, ForwarderEnds, ForwarderStep, Signal, Tunnels, sessionVars
  <2>3. Kept'
    BY <1>3, <2>1 DEF SessionInv, Kept
  <2>4. ReceiptSound'
    BY <1>3, <2>1 DEF SessionInv, ReceiptSound
  <2> QED BY <1>2, <1>3, <1>4, <2>1, <2>2, <2>3, <2>4 DEF SessionInv
<1> QED BY <1>5, <1>6, <1>7

(* The invariant holds throughout. *)
THEOREM SessionInvariant == SessionSpec => []SessionInv
<1> QED BY SessionInitInv, SessionNextInv, PTL DEF SessionSpec

(* Every variable keeps its type. *)
THEOREM SessionTypeCorrect == SessionSpec => []SessionTypeOK
<1>1. SessionInv => SessionTypeOK
  BY DEF SessionInv
<1> QED BY <1>1, SessionInvariant, PTL

(* However many signals come, and whenever: once the program has asked to be
   notified, none of them takes the proxy away from the command. *)
THEOREM ProxyIsKept == SessionSpec => []CommandKeepsProxy
<1>1. SessionInv => CommandKeepsProxy
  BY DEF SessionInv, SessionTypeOK, Stations, CommandKeepsProxy
<1> QED BY <1>1, SessionInvariant, PTL

(* No signal is ever sent to the closed channel. *)
THEOREM NeverPanics == SessionSpec => []NoPanic
<1>1. SessionInv => NoPanic
  BY DEF SessionInv, Stations, NoPanic
<1> QED BY <1>1, SessionInvariant, PTL

(* The receipt agrees with what was on record when the command ended, and
   confirms IPv4 only where a tunnel was open. *)
THEOREM ReceiptIsSound == SessionSpec => []ReceiptSound
<1>1. SessionInv => ReceiptSound
  BY DEF SessionInv
<1> QED BY <1>1, SessionInvariant, PTL

-----------------------------------------------------------------------------
(* What the receipt can miss *)

(* A receipt that speaks of no tunnel misses those only that are still open. *)
MissesOnlyOpen ==
  receipt \in {"nothing tunneled", "all failed"} =>
    \A c \in tunneled : stage[c] = "tunnel"

(* After the receipt nothing is left to happen. *)
Lasts == (receipt # "none" => fate = "exited") /\ MissesOnlyOpen

(* Every step keeps that. *)
LEMMA LastsNext ==
  ASSUME SessionInv, Lasts, [SessionNext]_allVars
  PROVE  Lasts'
<1> USE DEF Lasts, MissesOnlyOpen
<1>1. CASE PrintReceipt
  <2>1. /\ receipt' = Summary(conns) /\ fate' = "exited"
        /\ stage' = stage /\ tunneled' = tunneled
    BY <1>1 DEF PrintReceipt, Records, proxyVars
  <2>2. ASSUME NEW c \in tunneled, stage[c] # "tunnel"
        PROVE  [conn |-> c, err |-> "none"] \in conns
    <3>1. c \in Conn /\ stage[c] \in Stages /\ Fact(c)
      BY <2>2 DEF SessionInv, ProxyInv, ProxyTypeOK
    <3>2. stage[c] = "gone"
      BY <2>2, <3>1 DEF Fact, Stages
    <3>3. [conn |-> c, err |-> "none"] \in RecordsOf(c)
      BY <2>2, <3>1, <3>2 DEF Fact
    <3> QED BY <3>3 DEF RecordsOf
  <2>3. ASSUME NEW c, [conn |-> c, err |-> "none"] \in conns
        PROVE  Summary(conns) = "all over IPv4"
    <3>1. ~(\A r \in conns : r.err # "none")
      BY <2>3
    <3> QED BY <3>1 DEF Summary
  <2> QED BY <2>1, <2>2, <2>3
<1>2. CASE SessionNext /\ ~PrintReceipt
  <2>1. receipt' = receipt
    BY <1>2
    DEF SessionNext, Launch, StartFails, StartCommand, Notify, WaitReturns, StopSignals,
        CloseChannel, Forwarder, ForwarderStarts, Receive, Forward, ForwarderEnds,
        ForwarderStep, Signal, CommandEnds, Tunnels, others, sessionVars
  <2>2. fate = "exited" => fate' = fate /\ stage' = stage /\ tunneled' = tunneled
    BY <1>2
    DEF SessionNext, Launch, StartFails, StartCommand, Notify, WaitReturns, StopSignals,
        CloseChannel, Step, Forwarder, ForwarderStarts, Receive, Forward, ForwarderEnds,
        ForwarderStep, Signal, CommandEnds, Tunnels
  <2> QED BY <2>1, <2>2
<1>3. CASE UNCHANGED allVars
  BY <1>3 DEF allVars, proxyVars, sessionVars
<1> QED BY <1>1, <1>2, <1>3

(* The only tunnels that a receipt overlooks are those whose handlers have not
   finished when it is printed, and so not recorded them: the lag of the
   records is what makes "no connections were tunneled" untrue. *)
THEOREM ReceiptLags == SessionSpec => []MissesOnlyOpen
<1>1. SessionInit => Lasts
  BY DEF SessionInit, Lasts, MissesOnlyOpen
<1>2. SessionInv /\ Lasts /\ [SessionNext]_allVars => Lasts'
  BY LastsNext
<1>3. Lasts => MissesOnlyOpen
  BY DEF Lasts
<1> QED BY <1>1, <1>2, <1>3, SessionInvariant, PTL DEF SessionSpec
=============================================================================
