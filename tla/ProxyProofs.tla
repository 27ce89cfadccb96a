----------------------------- MODULE ProxyProofs -----------------------------
(***************************************************************************)
(* The records of the proxy tell the truth, for every set of connections   *)
(* and whoever uses the proxy: in a turn of claude, and in a session.      *)
(***************************************************************************)
EXTENDS Proxy, TLAPS

(* What is on record of c, at each stage of its handler. *)
RecordsOf(c) == {r \in conns : r.conn = c}

Fact(c) ==
  /\ stage[c] \in {"none", "request", "dial", "reply"}
       => c \notin tunneled /\ RecordsOf(c) = {}
  /\ stage[c] = "tunnel" => c \in tunneled /\ RecordsOf(c) = {}
  /\ stage[c] = "gone" =>
       IF c \in tunneled THEN RecordsOf(c) = {[conn |-> c, err |-> "none"]}
       ELSE RecordsOf(c) = {} \/ \E e \in DialErrors :
                                   RecordsOf(c) = {[conn |-> c, err |-> e]}

(* Inductive: it says of each connection when it is recorded, and how. *)
ProxyInv == ProxyTypeOK /\ \A c \in Conn : Fact(c)

(* The proxy starts without connections. *)
LEMMA ProxyInitInv == ProxyInit => ProxyInv
<1> SUFFICES ASSUME ProxyInit PROVE ProxyInv
  OBVIOUS
<1>1. ProxyTypeOK
  BY DEF ProxyInit, ProxyTypeOK, Stages, EndState
<1>2. \A c \in Conn : Fact(c)
  BY DEF ProxyInit, Fact, RecordsOf
<1> QED BY <1>1, <1>2 DEF ProxyInv

(* Facts survive whatever leaves stages, tunnels and records alone. *)
LEMMA FactFrame ==
  ASSUME NEW c \in Conn, Fact(c), stage'[c] = stage[c],
         c \in tunneled' <=> c \in tunneled, RecordsOf(c)' = RecordsOf(c)
  PROVE  Fact(c)'
BY DEF Fact

(* A step of one connection keeps the invariant. *)
LEMMA ConnectionInv ==
  ASSUME ProxyInv, NEW c \in Conn,
         \/ Accept(c) \/ Handler(c) \/ CopyDownBreaks(c)
         \/ ServerEnds(c) \/ ClientEnds(c)
  PROVE  ProxyInv'
<1> USE DEF ProxyInv, ProxyTypeOK
<1>1. CASE \/ Accept(c) \/ ReadRequest(c) \/ DialOk(c)
           \/ client[c] = "closed" /\ At(c, "reply", "gone") /\ OnlyStage
  <2>1. /\ \E to \in Stages \ {"none", "tunnel"} : stage' = [stage EXCEPT ![c] = to]
        /\ stage[c] \in {"none", "request", "dial", "reply"} /\ OnlyStage
    BY <1>1 DEF Accept, ReadRequest, DialOk, At, Stages
  <2>2. ProxyTypeOK'
    BY <2>1 DEF OnlyStage
  <2>3. ASSUME NEW d \in Conn, d # c PROVE Fact(d)'
    BY <2>1, <2>3, FactFrame DEF OnlyStage, RecordsOf
  <2>4. Fact(c)'
    BY <2>1 DEF OnlyStage, Fact, RecordsOf, Stages
  <2> QED BY <2>2, <2>3, <2>4
<1>2. CASE DialFail(c)
  <2>1. PICK e \in DialErrors : conns' = conns \cup {[conn |-> c, err |-> e]}
    BY <1>2 DEF DialFail
  <2>2. ProxyTypeOK'
    BY <1>2, <2>1 DEF DialFail, At, Stages, Record
  <2>3. ASSUME NEW d \in Conn, d # c PROVE Fact(d)'
    BY <1>2, <2>1, <2>3, FactFrame DEF DialFail, At, RecordsOf
  <2>4. Fact(c)'
    <3>1. RecordsOf(c)' = {[conn |-> c, err |-> e]}
      BY <1>2, <2>1 DEF DialFail, At, Fact, RecordsOf
    <3>2. c \notin tunneled' /\ stage'[c] = "gone"
      BY <1>2 DEF DialFail, At, Fact
    <3> QED BY <3>1, <3>2 DEF Fact
  <2> QED BY <2>2, <2>3, <2>4
<1>3. CASE At(c, "reply", "tunnel") /\ tunneled' = tunneled \cup {c}
           /\ UNCHANGED <<listening, client, server, upDone, downDone, conns>>
  <2>1. ProxyTypeOK'
    BY <1>3 DEF At, Stages
  <2>2. ASSUME NEW d \in Conn, d # c PROVE Fact(d)'
    BY <1>3, <2>2, FactFrame DEF At, RecordsOf
  <2>3. Fact(c)'
    BY <1>3 DEF At, Fact, RecordsOf
  <2> QED BY <2>1, <2>2, <2>3
<1>4. CASE Finish(c)
  <2>1. ProxyTypeOK'
    BY <1>4 DEF Finish, At, Stages, Record
  <2>2. ASSUME NEW d \in Conn, d # c PROVE Fact(d)'
    BY <1>4, <2>2, FactFrame DEF Finish, At, RecordsOf
  <2>3. Fact(c)'
    <3>1. RecordsOf(c)' = {[conn |-> c, err |-> "none"]}
      BY <1>4 DEF Finish, At, Fact, RecordsOf
    <3>2. c \in tunneled' /\ stage'[c] = "gone"
      BY <1>4 DEF Finish, At, Fact
    <3> QED BY <3>1, <3>2 DEF Fact
  <2> QED BY <2>1, <2>2, <2>3
<1>5. CASE \/ CopyUpEnds(c) \/ CopyDownEnds(c) \/ CopyDownBreaks(c)
           \/ ServerEnds(c) \/ ClientEnds(c)
  <2>1. stage' = stage /\ conns' = conns /\ tunneled' = tunneled
    BY <1>5
    DEF CopyUpEnds, CopyDownEnds, CopyDownBreaks, CopyDownStops, ServerEnds,
        ClientEnds
  <2>2. ProxyTypeOK'
    BY <1>5
    DEF CopyUpEnds, CopyDownEnds, CopyDownBreaks, CopyDownStops, ServerEnds,
        ClientEnds, EndState
  <2>3. \A d \in Conn : Fact(d)'
    BY <2>1, FactFrame DEF RecordsOf
  <2> QED BY <2>2, <2>3
<1> QED BY <1>1, <1>2, <1>3, <1>4, <1>5 DEF Handler, Reply

(* So does a step of the user of the proxy, who closes it or the clients'
   ends. *)
LEMMA UserInv ==
  ASSUME ProxyInv, UNCHANGED <<stage, server, upDone, downDone, conns, tunneled>>,
         listening' \in BOOLEAN, client' \in [Conn -> EndState]
  PROVE  ProxyInv'
BY FactFrame DEF ProxyInv, ProxyTypeOK, RecordsOf, Fact

(* Every step of the traffic keeps the invariant. *)
LEMMA TrafficInv ==
  ASSUME ProxyInv, NEW running, Traffic(running)
  PROVE  ProxyInv'
BY ConnectionInv DEF Traffic

(* The invariant implies that the records tell the truth. *)
LEMMA InvFaithful == ProxyInv => RecordsFaithful
<1> SUFFICES ASSUME ProxyInv PROVE RecordsFaithful
  OBVIOUS
<1> USE DEF ProxyInv, ProxyTypeOK
<1>1. ASSUME NEW r \in conns, NEW s \in conns, r.conn = s.conn
      PROVE  r = s
  <2>1. r \in RecordsOf(r.conn) /\ s \in RecordsOf(r.conn) /\ r.conn \in Conn
    BY <1>1 DEF RecordsOf, Record
  <2>2. \E x : RecordsOf(r.conn) = {} \/ RecordsOf(r.conn) = {x}
    BY <2>1 DEF Fact, Stages
  <2> QED BY <2>1, <2>2
<1>2. ASSUME NEW c \in Conn
      PROVE  /\ [conn |-> c, err |-> "none"] \in conns
                  <=> stage[c] = "gone" /\ c \in tunneled
             /\ (\E e \in DialErrors : [conn |-> c, err |-> e] \in conns)
                  => c \notin tunneled
  <2>1. \A e : [conn |-> c, err |-> e] \in conns
                 <=> [conn |-> c, err |-> e] \in RecordsOf(c)
    BY DEF RecordsOf
  <2>2. stage[c] \in Stages /\ Fact(c)
    OBVIOUS
  <2>3. "none" \notin DialErrors
    BY DEF DialErrors
  <2>4. CASE stage[c] = "gone" /\ c \in tunneled
    <3>1. RecordsOf(c) = {[conn |-> c, err |-> "none"]}
      BY <2>2, <2>4 DEF Fact
    <3>2. \A e \in DialErrors : [conn |-> c, err |-> e] # [conn |-> c, err |-> "none"]
      BY <2>3
    <3> QED BY <2>1, <2>4, <3>1, <3>2
  <2>5. CASE stage[c] = "gone" /\ c \notin tunneled
    <3>1. \A e \in DialErrors : [conn |-> c, err |-> "none"] # [conn |-> c, err |-> e]
      BY <2>3
    <3>2. [conn |-> c, err |-> "none"] \notin RecordsOf(c)
      BY <2>2, <2>5, <3>1 DEF Fact
    <3> QED BY <2>1, <2>5, <3>2
  <2>6. CASE stage[c] # "gone"
    <3>1. RecordsOf(c) = {}
      BY <2>2, <2>6 DEF Fact, Stages
    <3> QED BY <2>1, <2>6, <3>1
  <2> QED BY <2>4, <2>5, <2>6
<1> QED BY <1>1, <1>2 DEF RecordsFaithful
=============================================================================
