-------------------------------- MODULE Turn --------------------------------
(***************************************************************************)
(* Package detect, one turn: "claude -p" runs behind a fresh proxy under a *)
(* deadline; when it has ended, the proxy's records are copied, the        *)
(* context is asked what became of it, and classify turns the signals into *)
(* an outcome. The proxy's handlers go on running meanwhile.               *)
(***************************************************************************)
EXTENDS Proxy

VARIABLES
  child,    \* the claude process
  printed,  \* what it printed
  exitErr,  \* the error cmd.CombinedOutput returns
  ctx,      \* the turn's context
  held,     \* another process holds the output pipe open
  turn,     \* how far runTurn is
  recs,     \* its copy of the records
  outcome   \* its result

turnVars == <<child, printed, exitErr, ctx, held, turn, recs, outcome>>
allVars == <<proxyVars, turnVars>>

Outcomes == {"OK", "Hung", "Errored", "NoPath", "NoClaude"}
Texts == {"nothing", "answer", "complaint", "auth"}
ExitErrors == {"none", "exit", "missing"}

TurnTypeOK ==
  /\ ProxyTypeOK
  /\ child \in {"new", "running", "gone"}
  /\ printed \in Texts
  /\ exitErr \in ExitErrors
  /\ ctx \in {"live", "deadline", "canceled"}
  /\ held \in BOOLEAN
  /\ turn \in {"start", "run", "ended", "copied", "done"}
  /\ recs \subseteq Record
  /\ outcome \in Outcomes \cup {"none"}

TurnInit ==
  /\ ProxyInit
  /\ child = "new" /\ printed = "nothing" /\ exitErr = "none"
  /\ ctx = "live" /\ held = FALSE
  /\ turn = "start" /\ recs = {} /\ outcome = "none"

-----------------------------------------------------------------------------
(* classify *)

HasUnreachableAPI(rs) ==
  \E r \in rs : r.conn \in ApiConn /\ r.err = "unreachable"

OnlyFailedDials(rs) == rs # {} /\ \A r \in rs : r.err # "none"

(* Mutant: a cancelled turn has an outcome of its own. *)
ClassifyCanceled(execErr, ctxErr, rs, out) ==
  IF ctxErr = "canceled" THEN "Canceled" ELSE "OK"

(* Mutant: the deadline comes before the dials. *)
ClassifyDeadlineFirst(execErr, ctxErr, rs, out) ==
  CASE execErr = "missing" \/ out = "auth" -> "NoClaude"
    [] OTHER ->
       IF ctxErr = "deadline" THEN "Hung"
       ELSE IF HasUnreachableAPI(rs) \/ OnlyFailedDials(rs) THEN "NoPath"
       ELSE IF execErr # "none" \/ out = "nothing" THEN "Errored"
       ELSE "OK"

(* Mutant: the exit error comes before the deadline. *)
ClassifyExitFirst(execErr, ctxErr, rs, out) ==
  CASE execErr = "missing" \/ out = "auth" -> "NoClaude"
    [] OTHER ->
       IF HasUnreachableAPI(rs) \/ OnlyFailedDials(rs) THEN "NoPath"
       ELSE IF execErr # "none" \/ out = "nothing" THEN "Errored"
       ELSE IF ctxErr = "deadline" THEN "Hung"
       ELSE "OK"

Classify(execErr, ctxErr, rs, out) ==
  CASE execErr = "missing" \/ out = "auth"             -> "NoClaude"
    [] OTHER ->
       IF HasUnreachableAPI(rs) \/ OnlyFailedDials(rs) THEN "NoPath"
       ELSE IF ctxErr = "deadline" THEN "Hung"
       ELSE IF execErr # "none" \/ out = "nothing" THEN "Errored"
       ELSE "OK"

-----------------------------------------------------------------------------
(* runTurn *)

(* The proxy cannot listen: the turn is over. *)
ListenFails ==
  /\ turn = "start" /\ turn' = "done" /\ outcome' = "Errored"
  /\ UNCHANGED <<proxyVars, child, printed, exitErr, ctx, held, recs>>

(* cmd.Start: no binary, any other error (one that may not be executed, is
   being written, or a context that is over already), or a process. *)
Launch ==
  /\ turn = "start"
  /\ \/ /\ exitErr' \in {"missing", "exit"} /\ turn' = "ended"
        /\ UNCHANGED child
     \/ /\ ctx = "live"
        /\ child' = "running" /\ turn' = "run" /\ UNCHANGED exitErr
  /\ UNCHANGED <<proxyVars, printed, ctx, held, recs, outcome>>

(* Claude prints something and ends, by itself or killed for its context;
   its connections close with it. It may leave a process behind that holds its
   output. An answer takes a tunnel. *)
ChildExits(text, err) ==
  /\ child = "running" /\ child' = "gone"
  /\ printed' = text /\ exitErr' = err
  /\ held' \in BOOLEAN
  /\ client' = [c \in Conn |-> "closed"]
  /\ UNCHANGED <<listening, stage, server, upDone, downDone, conns, tunneled>>
  /\ UNCHANGED <<ctx, turn, recs, outcome>>

ClaudeEnds ==
  \E end \in {<<"answer", "none">>, <<"nothing", "none">>, <<"complaint", "exit">>,
              <<"nothing", "exit">>, <<"auth", "exit">>} :
    /\ end[1] = "answer" => tunneled # {}
    /\ ChildExits(end[1], end[2])

(* Mutant: exec.Command, which has no context. *)
NeverKilled == FALSE

(* exec.CommandContext kills the process when the context is over. *)
Killed == ctx # "live" /\ \E text \in {"nothing", "complaint"} : ChildExits(text, "exit")

ContextEnds(how) ==
  /\ ctx = "live" /\ turn # "done" /\ ctx' = how
  /\ UNCHANGED <<proxyVars, child, printed, exitErr, held, turn, recs, outcome>>

(* opt.Timeout passes, possibly after claude has ended. *)
Deadline == turn # "start" /\ ContextEnds("deadline")

(* Ctrl-C in doctor cancels the context all turns derive from. *)
Cancel == ContextEnds("canceled")

(* The process left behind lets go of the output. *)
HelperEnds ==
  /\ held /\ held' = FALSE
  /\ UNCHANGED <<proxyVars, child, printed, exitErr, ctx, turn, recs, outcome>>

(* cmd.Wait returns once the process is gone and its output pipe is closed. *)
WaitReturns ==
  /\ turn = "run" /\ child = "gone" /\ ~held /\ turn' = "ended"
  /\ UNCHANGED <<proxyVars, child, printed, exitErr, ctx, held, recs, outcome>>

CopyRecords ==
  /\ turn = "ended" /\ recs' = Records /\ turn' = "copied"
  /\ UNCHANGED <<proxyVars, child, printed, exitErr, ctx, held, outcome>>

(* turnCtx.Err(), classify; then the deferred cancel and Close. *)
Conclude ==
  /\ turn = "copied" /\ turn' = "done"
  /\ outcome' = Classify(exitErr, ctx, recs, printed)
  /\ Close
  /\ UNCHANGED <<child, printed, exitErr, ctx, held, recs>>

-----------------------------------------------------------------------------
Connections == Traffic(child = "running") /\ UNCHANGED turnVars

RunTurn == ListenFails \/ Launch \/ WaitReturns \/ CopyRecords \/ Conclude

TurnNext ==
  \/ RunTurn \/ ClaudeEnds \/ Killed \/ HelperEnds \/ Deadline \/ Cancel
  \/ Connections

(* Goroutines run, and an upstream closes after its peer's FIN. *)
HandlerFairness ==
  \A c \in Conn :
    /\ WF_allVars(Handler(c) /\ UNCHANGED turnVars)
    /\ WF_allVars(ServerAnswersFin(c) /\ UNCHANGED turnVars)

(* The timer fires, a kill works, and runTurn goes on when it can. *)
TurnSpec ==
  /\ TurnInit /\ [][TurnNext]_allVars
  /\ WF_allVars(RunTurn) /\ WF_allVars(Deadline) /\ WF_allVars(Killed)
  /\ HandlerFairness

-----------------------------------------------------------------------------
(* A family whose dials all fail is never called hung, however long claude
   retries: once one failure is on record, the turn has no path. *)
BlackholeIsNoPath ==
  turn = "done" /\ tunneled = {} /\ recs # {} => outcome \in {"NoPath", "NoClaude"}

(* A stream withheld until the deadline is called hung, if every dial
   connected. *)
WithheldIsHung ==
  turn = "done" /\ ctx = "deadline" /\ child = "gone" /\ exitErr = "exit"
    /\ printed # "auth" /\ (\A r \in conns : r.err = "none")
  => outcome = "Hung"

(* "per-turn wall timeout (a hang trips this)": every turn ends, unless a
   process that claude left behind holds its output for ever, for which
   CombinedOutput waits past the deadline. *)
TurnEnds == <>(turn = "done") \/ <>[]held
=============================================================================
