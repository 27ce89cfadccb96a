------------------------------- MODULE Proxy --------------------------------
(***************************************************************************)
(* Package proxy: a CONNECT proxy with one handler goroutine for each      *)
(* client connection, which dials the upstream over the server's address   *)
(* family and then copies in both directions until both have ended. Only   *)
(* then does it record the connection. Bytes are not modelled; what        *)
(* matters is which end has finished sending, and who has noticed.         *)
(***************************************************************************)
CONSTANTS
  Conn,       \* client connections, each made at most once
  ApiConn     \* those to a host whose name contains "anthropic"

ASSUME ProxyAssumption == ApiConn \subseteq Conn

VARIABLES
  listening,  \* the listener accepts
  stage,      \* stage[c]: how far the handler of c is
  client,     \* client[c]: what the client has closed of its end
  server,     \* server[c]: what the upstream has closed of its end
  upDone,     \* upDone[c]: the client-to-upstream copy has ended
  downDone,   \* downDone[c]: the upstream-to-client copy has ended
  conns,      \* the records made so far
  tunneled    \* history: connections over which a tunnel was opened

proxyVars ==
  <<listening, stage, client, server, upDone, downDone, conns, tunneled>>

Stages == {"none", "request", "dial", "reply", "tunnel", "gone"}
EndState == {"open", "sent", "closed"}  \* "sent": finished sending only
DialErrors == {"unreachable", "other"}  \* as isUnreachableErr tells them apart

Record == [conn : Conn, err : DialErrors \cup {"none"}]

ProxyTypeOK ==
  /\ listening \in BOOLEAN
  /\ stage \in [Conn -> Stages]
  /\ client \in [Conn -> EndState] /\ server \in [Conn -> EndState]
  /\ upDone \in [Conn -> BOOLEAN] /\ downDone \in [Conn -> BOOLEAN]
  /\ conns \subseteq Record
  /\ tunneled \subseteq Conn

ProxyInit ==
  /\ listening = TRUE
  /\ stage = [c \in Conn |-> "none"]
  /\ client = [c \in Conn |-> "open"] /\ server = [c \in Conn |-> "open"]
  /\ upDone = [c \in Conn |-> FALSE] /\ downDone = [c \in Conn |-> FALSE]
  /\ conns = {}
  /\ tunneled = {}

OnlyStage == UNCHANGED <<listening, client, server, upDone, downDone, conns, tunneled>>

At(c, from, to) == stage[c] = from /\ stage' = [stage EXCEPT ![c] = to]

-----------------------------------------------------------------------------
(* The handler *)

(* serve: a connection is accepted, and a handler started for it. *)
Accept(c) == listening /\ At(c, "none", "request") /\ OnlyStage

(* A CONNECT request, which may be buffered still when the client has gone, or
   anything else: the handler closes the connection. *)
ReadRequest(c) ==
  /\ At(c, "request", "dial") \/ At(c, "request", "gone")
  /\ OnlyStage

DialOk(c) == At(c, "dial", "reply") /\ OnlyStage

(* The dial fails, by itself or after 20 s: 502 and a record. *)
DialFail(c) ==
  /\ At(c, "dial", "gone")
  /\ \E e \in DialErrors : conns' = conns \cup {[conn |-> c, err |-> e]}
  /\ UNCHANGED <<listening, client, server, upDone, downDone, tunneled>>

(* Mutant: the connection is recorded when its tunnel opens. *)
ReplyRecords(c) ==
  /\ At(c, "reply", "tunnel")
  /\ tunneled' = tunneled \cup {c}
  /\ conns' = conns \cup {[conn |-> c, err |-> "none"]}
  /\ UNCHANGED <<listening, client, server, upDone, downDone>>

(* "200 Connection Established": the write fails only if the client left, and
   then nothing is recorded. *)
Reply(c) ==
  \/ /\ At(c, "reply", "tunnel")
     /\ tunneled' = tunneled \cup {c}
     /\ UNCHANGED <<listening, client, server, upDone, downDone, conns>>
  \/ client[c] = "closed" /\ At(c, "reply", "gone") /\ OnlyStage

(* Mutant: one goroutine copies both ways, downstream first. *)
CopyUpLast(c) ==
  /\ stage[c] = "tunnel" /\ ~upDone[c] /\ downDone[c]
  /\ client[c] # "open" \/ server[c] = "closed"
  /\ upDone' = [upDone EXCEPT ![c] = TRUE]
  /\ UNCHANGED <<listening, stage, client, server, downDone, conns, tunneled>>

(* io.Copy(up, br) ends when the client has finished or the upstream no longer
   takes anything; CloseWrite then tells the upstream. *)
CopyUpEnds(c) ==
  /\ stage[c] = "tunnel" /\ ~upDone[c]
  /\ client[c] # "open" \/ server[c] = "closed"
  /\ upDone' = [upDone EXCEPT ![c] = TRUE]
  /\ UNCHANGED <<listening, stage, client, server, downDone, conns, tunneled>>

CopyDownStops(c) ==
  /\ stage[c] = "tunnel" /\ ~downDone[c]
  /\ downDone' = [downDone EXCEPT ![c] = TRUE]
  /\ UNCHANGED <<listening, stage, client, server, upDone, conns, tunneled>>

(* io.Copy(c, up) ends when the upstream has finished ... *)
CopyDownEnds(c) == server[c] # "open" /\ CopyDownStops(c)

(* ... or when it has sent something to a client that has left. *)
CopyDownBreaks(c) == client[c] = "closed" /\ CopyDownStops(c)

Finish(c) ==
  /\ upDone[c] /\ downDone[c]
  /\ At(c, "tunnel", "gone")
  /\ conns' = conns \cup {[conn |-> c, err |-> "none"]}
  /\ UNCHANGED <<listening, client, server, upDone, downDone, tunneled>>

Handler(c) ==
  \/ ReadRequest(c) \/ DialOk(c) \/ DialFail(c) \/ Reply(c)
  \/ CopyUpEnds(c) \/ CopyDownEnds(c) \/ Finish(c)

-----------------------------------------------------------------------------
(* The two ends *)

(* The client finishes sending on c, or closes it. *)
ClientEnds(c) ==
  /\ stage[c] # "none"
  /\ \/ client[c] = "open" /\ client' = [client EXCEPT ![c] = "sent"]
     \/ client[c] # "closed" /\ client' = [client EXCEPT ![c] = "closed"]
  /\ UNCHANGED <<listening, stage, server, upDone, downDone, conns, tunneled>>

(* The upstream finishes sending on c, or closes it. *)
ServerEnds(c) ==
  /\ stage[c] = "tunnel"
  /\ \/ server[c] = "open" /\ server' = [server EXCEPT ![c] = "sent"]
     \/ server[c] # "closed" /\ server' = [server EXCEPT ![c] = "closed"]
  /\ UNCHANGED <<listening, stage, client, upDone, downDone, conns, tunneled>>

(* The upstream closes after the proxy told it that the client has finished. *)
ServerAnswersFin(c) == upDone[c] /\ ServerEnds(c)

(* One step on some connection; only a running client starts or ends one. *)
Traffic(running) ==
  \E c \in Conn :
    \/ running /\ Accept(c)
    \/ Handler(c) \/ CopyDownBreaks(c) \/ ServerEnds(c)
    \/ running /\ ClientEnds(c)

-----------------------------------------------------------------------------
(* The server *)

(* Close stops the listener; connections made already live on. *)
Close ==
  /\ listening' = FALSE
  /\ UNCHANGED <<stage, client, server, upDone, downDone, conns, tunneled>>

(* Records returns a copy of what has been recorded so far. *)
Records == conns

-----------------------------------------------------------------------------
(* The records tell the truth: one for each connection at most; without error
   for exactly the tunnels that are over, with one only where none was ever
   open. *)
RecordsFaithful ==
  /\ \A r, s \in conns : r.conn = s.conn => r = s
  /\ \A c \in Conn :
       /\ [conn |-> c, err |-> "none"] \in conns
            <=> stage[c] = "gone" /\ c \in tunneled
       /\ (\E e \in DialErrors : [conn |-> c, err |-> e] \in conns)
            => c \notin tunneled

(* No handler outlives its client for ever: the end of the client reaches the
   upstream, whose end in turn ends the other direction. *)
HandlersDrain ==
  \A c \in Conn : stage[c] # "none" /\ client[c] # "open" ~> stage[c] = "gone"
=============================================================================
