------------------------------ MODULE Session -------------------------------
(***************************************************************************)
(* launchOverIPv4, which runs a command behind the proxy: SIGINT and       *)
(* SIGTERM are caught while the command runs and passed on to it by a      *)
(* goroutine of their own, and a receipt is printed from the proxy's       *)
(* records once the command has ended. Before signal.Notify and after      *)
(* signal.Stop a signal kills the program, and the proxy with it.          *)
(***************************************************************************)
EXTENDS Proxy, Naturals, Sequences

CONSTANT MaxSignals  \* bound on the signals somebody sends

ASSUME SessionAssumption == MaxSignals \in Nat

VARIABLES
  at,         \* where launchOverIPv4 is
  fate,       \* what became of the program
  command,    \* the command it runs
  notified,   \* signals go to sigc
  closed,     \* sigc is closed
  sigc,       \* the channel, of capacity 1
  forwarder,  \* what the forwarding goroutine is doing, or holds
  receipt,    \* what was printed
  sent,       \* number of signals sent
  caught,     \* history: a signal came while it should be passed on
  told,       \* history: one was passed on to the running command
  atExit      \* history: whether tunnels had been opened, and records of good
              \* (TRUE) or failed (FALSE) ones made, when the command ended

channel == <<notified, closed, sigc, forwarder>>
others  == <<proxyVars, receipt, sent, caught, told, atExit>>
sessionVars ==
  <<at, fate, command, channel, receipt, sent, caught, told, atExit>>
allVars == <<proxyVars, sessionVars>>

Signals == {"INT", "TERM"}
Receipts == {"nothing tunneled", "all failed", "all over IPv4"}

SessionTypeOK ==
  /\ ProxyTypeOK
  /\ at \in {"start", "notify", "wait", "stop", "close", "receipt", "return"}
  /\ fate \in {"alive", "exited", "killed", "panicked"}
  /\ command \in {"new", "running", "gone"}
  /\ {notified, closed, caught, told} \subseteq BOOLEAN
  /\ sigc \in Seq(Signals) /\ Len(sigc) <= 1
  /\ forwarder \in {"new", "receive", "gone"} \cup Signals
  /\ receipt \in Receipts \cup {"none"}
  /\ sent \in 0..MaxSignals
  /\ atExit \in [records : SUBSET BOOLEAN, tunnels : BOOLEAN]

SessionInit ==
  /\ ProxyInit
  /\ at = "start" /\ fate = "alive" /\ command = "new"
  /\ notified = FALSE /\ closed = FALSE /\ sigc = <<>> /\ forwarder = "new"
  /\ receipt = "none"
  /\ sent = 0 /\ caught = FALSE /\ told = FALSE
  /\ atExit = [records |-> {}, tunnels |-> FALSE]

-----------------------------------------------------------------------------
(* launchOverIPv4 *)

Step(from, to) == fate = "alive" /\ at = from /\ at' = to

(* The proxy cannot listen, or the command cannot be started. *)
StartFails ==
  /\ Step("start", "return") /\ fate' = "exited"
  /\ UNCHANGED <<others, command, channel>>

StartCommand ==
  /\ Step("start", "notify") /\ command' = "running"
  /\ UNCHANGED <<others, fate, channel>>

Notify ==
  /\ Step("notify", "wait") /\ notified' = TRUE
  /\ UNCHANGED <<others, fate, command, closed, sigc, forwarder>>

(* Mutant: nothing is waited for but the end of the forwarder. *)
WaitForForwarder ==
  /\ command = "gone" /\ forwarder = "gone" /\ Step("wait", "stop")
  /\ UNCHANGED <<others, fate, command, channel>>

(* Mutant: the program goes on when it has set up the signals. *)
WaitForNothing ==
  /\ Step("wait", "stop")
  /\ UNCHANGED <<others, fate, command, channel>>

(* child.Wait *)
WaitReturns ==
  /\ command = "gone" /\ Step("wait", "stop")
  /\ UNCHANGED <<others, fate, command, channel>>

(* Mutant: the channel is closed, and signals still go to it. *)
StopNothing ==
  /\ Step("stop", "close")
  /\ UNCHANGED <<others, fate, command, channel>>

(* signal.Stop; then close(sigc). *)
StopSignals ==
  /\ Step("stop", "close") /\ notified' = FALSE
  /\ UNCHANGED <<others, fate, command, closed, sigc, forwarder>>

CloseChannel ==
  /\ Step("close", "receipt") /\ closed' = TRUE
  /\ UNCHANGED <<others, fate, command, notified, sigc, forwarder>>

(* Mutant: failed connections are passed over. *)
SummaryOfGood(rs) == IF rs = {} THEN "nothing tunneled" ELSE "all over IPv4"

(* printRunSummary: what the records say. A tcp4 dial has no other remote. *)
Summary(rs) ==
  IF rs = {} THEN "nothing tunneled"
  ELSE IF \A r \in rs : r.err # "none" THEN "all failed"
  ELSE "all over IPv4"

(* The receipt; the program then exits with the status of the command. *)
PrintReceipt ==
  /\ Step("receipt", "return")
  /\ receipt' = Summary(Records)
  /\ fate' = "exited"
  /\ UNCHANGED <<proxyVars, command, sent, caught, told, atExit, channel>>

-----------------------------------------------------------------------------
(* The forwarding goroutine *)

ForwarderStep ==
  /\ fate = "alive"
  /\ UNCHANGED <<proxyVars, at, fate, command, notified, closed>>
  /\ UNCHANGED <<receipt, sent, caught, atExit>>

(* go func() runs once the signals are notified; "for s := range sigc". *)
ForwarderStarts ==
  /\ forwarder = "new" /\ at \notin {"start", "notify"} /\ forwarder' = "receive"
  /\ ForwarderStep /\ UNCHANGED <<sigc, told>>

Receive ==
  /\ forwarder = "receive" /\ sigc # <<>>
  /\ forwarder' = Head(sigc) /\ sigc' = Tail(sigc)
  /\ ForwarderStep /\ UNCHANGED told

(* child.Process.Signal, which does nothing to a process that has ended. *)
Forward ==
  /\ forwarder \in Signals /\ forwarder' = "receive"
  /\ told' = (told \/ command = "running")
  /\ ForwarderStep /\ UNCHANGED sigc

ForwarderEnds ==
  /\ forwarder = "receive" /\ closed /\ sigc = <<>> /\ forwarder' = "gone"
  /\ ForwarderStep /\ UNCHANGED <<sigc, told>>

-----------------------------------------------------------------------------
(* Mutant: the channel takes every signal. *)
Grow(s) == sigc' = Append(sigc, s)

(* Mutant: an unbuffered channel, which needs a receiver that waits. *)
OfferUnbuffered(s) ==
  sigc' = IF forwarder = "receive" /\ sigc = <<>> THEN <<s>> ELSE sigc

(* The runtime does not wait for room in the channel. *)
Offer(s) == sigc' = IF sigc = <<>> THEN <<s>> ELSE sigc

(* A signal reaches the program. *)
Signal(s) ==
  /\ fate = "alive" /\ sent < MaxSignals /\ sent' = sent + 1
  /\ \/ ~notified /\ fate' = "killed" /\ UNCHANGED <<sigc, caught>>
     \/ notified /\ closed /\ fate' = "panicked" /\ UNCHANGED <<sigc, caught>>
     \/ notified /\ ~closed /\ Offer(s) /\ caught' = TRUE /\ UNCHANGED fate
  /\ UNCHANGED <<proxyVars, at, command, notified, closed, forwarder>>
  /\ UNCHANGED <<receipt, told, atExit>>

(* The command ends, of itself or by a signal; its connections end with it. *)
CommandEnds ==
  /\ command = "running" /\ command' = "gone"
  /\ client' = [c \in Conn |-> "closed"]
  /\ atExit' = [records |-> {r.err = "none" : r \in conns}, tunnels |-> tunneled # {}]
  /\ UNCHANGED <<listening, stage, server, upDone, downDone, conns, tunneled>>
  /\ UNCHANGED <<at, fate, receipt, sent, caught, told, channel>>

-----------------------------------------------------------------------------
Launch ==
  \/ StartFails \/ StartCommand \/ Notify \/ WaitReturns
  \/ StopSignals \/ CloseChannel \/ PrintReceipt

Forwarder == ForwarderStarts \/ Receive \/ Forward \/ ForwarderEnds

(* The proxy lives in the program. *)
Tunnels == fate = "alive" /\ Traffic(command = "running") /\ UNCHANGED sessionVars

SessionNext ==
  \/ Launch \/ Forwarder \/ CommandEnds \/ Tunnels
  \/ \E s \in Signals : Signal(s)

(* Both goroutines run; the command need not end. *)
SessionSpec ==
  /\ SessionInit /\ [][SessionNext]_allVars
  /\ WF_allVars(Launch) /\ WF_allVars(Forwarder)

-----------------------------------------------------------------------------
(* A signal takes the proxy away from a running command only before the
   program has asked to be notified; from then on the command keeps it. *)
CommandKeepsProxy ==
  command = "running" /\ fate # "alive" => fate = "killed" /\ at = "notify"

(* No signal meets a closed channel, at whatever moment it comes. *)
NoPanic == fate # "panicked"

(* Signals may be lost behind one another, but never all of them: once one has
   been caught, the command is told or has ended. *)
SignalsArrive == caught ~> told \/ command = "gone"

(* When the command has ended so does the program, however its connections
   and its forwarder do. *)
SessionEnds == command = "gone" ~> fate # "alive"

(* The receipt overlooks nothing that was on record when the command ended,
   and never confirms IPv4 where no tunnel was open. *)
ReceiptSound ==
  /\ receipt = "nothing tunneled" => atExit.records = {}
  /\ receipt = "all failed" => TRUE \notin atExit.records
  /\ receipt = "all over IPv4" => tunneled # {}

(* "no connections were tunneled": the command had opened no tunnel. *)
NothingMeansNone == receipt = "nothing tunneled" => ~atExit.tunnels
=============================================================================
