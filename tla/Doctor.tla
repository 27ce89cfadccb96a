------------------------------- MODULE Doctor -------------------------------
(***************************************************************************)
(* "doctor" and "probe": tests over IPv4, then over IPv6, one at a time,   *)
(* and a verdict from what they came to. doctor makes turns of claude, or, *)
(* if the system-wide fix is on record, verifies it with a few attempts;   *)
(* probe makes attempts only. Ctrl-C cancels the context they all derive   *)
(* from. doctor shows its progress with a spinner.                         *)
(***************************************************************************)
EXTENDS Probe, Spinner

CONSTANTS
  MaxTurns,  \* opt.Turns, the turns per family
  Asked      \* the attempts per family that probe may be asked for

ASSUME DoctorAssumption == MaxTurns \in Nat \ {0} /\ Asked \subseteq Int

VARIABLES
  mode,         \* what the command does
  limit,        \* the tests to make per family
  blocked,      \* the network: the system blocks IPv6 to the API
  phase,        \* the family being tested, or what comes before and after
  step,         \* where its test is
  results,      \* results[f]: the outcomes of family f so far
  interrupted,  \* the context is cancelled
  late,         \* history: tests started after that
  code          \* the verdict

commandVars ==
  <<mode, limit, blocked, phase, step, results, interrupted, late, code>>
doctorVars == <<commandVars, spinnerVars>>

Families == {"v4", "v6"}
Outcomes == {"OK", "Hung", "Errored", "NoPath", "NoClaude"}
TurnCodes == {"healthy", "v6-hangs", "no-v6", "both-bad", "v4-hangs", "no-claude",
              "inconclusive"}
VerifyCodes == {"working", "refresh", "problem"}

DoctorTypeOK ==
  /\ mode \in {"none", "turns", "verify", "probe"}
  /\ limit \in Nat
  /\ phase \in Families \cup {"start", "verdict", "done"}
  /\ step \in {"begin", "idle", "busy", "stop"}
  /\ results \in [Families -> Seq(Outcomes \cup AttemptOutcomes)]
  /\ {blocked, interrupted} \subseteq BOOLEAN
  /\ late \in Nat
  /\ code \in TurnCodes \cup VerifyCodes \cup ReportCodes \cup {"none"}
  /\ SpinnerTypeOK(Families \X (0..MaxTurns))

-----------------------------------------------------------------------------
(* Verdict, a function of the outcomes of the two families *)

Seen(outs) == {outs[i] : i \in DOMAIN outs}

(* Mutant: errors are not bad. *)
BadHangs(outs) == "Hung" \in Seen(outs)

Hangs(outs) == "Hung" \in Seen(outs)                \* HungCount() > 0
Bad(outs) == Seen(outs) \cap {"Hung", "Errored"} # {} \* BadCount() > 0

Severity == [OK |-> 0, Errored |-> 1, Hung |-> 2, NoPath |-> 3, NoClaude |-> 4]

(* "OK" for a family without turns. *)
Worst(outs) ==
  CHOOSE o \in Seen(outs) \cup {"OK"} :
    \A x \in Seen(outs) : Severity[x] <= Severity[o]

(* Mutant: what confirms is any bad turn. *)
VerdictOnBad(v4, v6) ==
  IF "NoClaude" \in {Worst(v4), Worst(v6)} THEN "no-claude"
  ELSE IF Worst(v6) = "NoPath" /\ Worst(v4) # "NoPath" THEN "no-v6"
  ELSE IF Bad(v6) /\ ~Bad(v4) THEN "v6-hangs"
  ELSE IF Bad(v4) /\ ~Bad(v6) THEN "v4-hangs"
  ELSE IF Bad(v6) /\ Bad(v4) THEN "both-bad"
  ELSE "healthy"

(* Mutant: nobody asks whether only IPv4 hangs. *)
VerdictV6Only(v4, v6) ==
  IF "NoClaude" \in {Worst(v4), Worst(v6)} THEN "no-claude"
  ELSE IF Worst(v6) = "NoPath" /\ Worst(v4) # "NoPath" THEN "no-v6"
  ELSE IF Hangs(v6) /\ ~Bad(v4) THEN "v6-hangs"
  ELSE IF Bad(v6) /\ Bad(v4) THEN "both-bad"
  ELSE IF Bad(v6) \/ Bad(v4) THEN "inconclusive"
  ELSE "healthy"

(* Mutant: the outcome itself is given as the verdict. *)
VerdictRaw(v4, v6) == IF Bad(v4) THEN "both-bad" ELSE Worst(v6)

Verdict(v4, v6) ==
  IF "NoClaude" \in {Worst(v4), Worst(v6)} THEN "no-claude"
  ELSE IF Worst(v6) = "NoPath" /\ Worst(v4) # "NoPath" THEN "no-v6"
  ELSE IF Hangs(v6) /\ ~Bad(v4) THEN "v6-hangs"
  ELSE IF Hangs(v4) /\ ~Bad(v6) THEN "v4-hangs"
  ELSE IF Bad(v6) /\ Bad(v4) THEN "both-bad"
  ELSE IF Bad(v6) \/ Bad(v4) THEN "inconclusive"
  ELSE "healthy"

(* Mutant: a blocked family is one without a path. *)
RedirectedByText(v6) == UnreachableCount(v6) = Len(v6)

(* verifyRedirect *)
Redirected(v6) == OKCount(v6) = 0

(* What doctorVerifyFixOn says. *)
Verification(v4, v6) ==
  IF OKCount(v4) = 0 THEN "problem"
  ELSE IF Redirected(v6) THEN "working" ELSE "refresh"

-----------------------------------------------------------------------------
DoctorInit ==
  /\ mode = "none" /\ limit = 0 /\ blocked \in BOOLEAN
  /\ phase = "start" /\ step = "begin"
  /\ results = [f \in Families |-> <<>>]
  /\ interrupted = FALSE /\ late = 0 /\ code = "none"
  /\ SpinnerInit

Begin(m, n) ==
  /\ phase = "start" /\ phase' = "v4" /\ mode' = m /\ limit' = n
  /\ UNCHANGED <<blocked, step, results, interrupted, late, code, spinnerVars>>

(* doctor verifies the fix if a record says that it is on, and makes turns if
   none does, or with --full. *)
CmdDoctor ==
  \E recorded, full \in BOOLEAN :
    IF recorded /\ ~full THEN Begin("verify", Clamped(3)) ELSE Begin("turns", MaxTurns)

CmdProbe == \E n \in Asked : Begin("probe", Clamped(n))

-----------------------------------------------------------------------------
(* One family: probe.Run, or RunFamily; probe has no spinner. *)

Testing(from, to) == phase \in Families /\ step = from /\ step' = to
SameRun == UNCHANGED <<mode, limit, blocked, interrupted>>

BeginFamily ==
  /\ Testing("begin", "idle")
  /\ IF mode = "probe" THEN UNCHANGED spinnerVars ELSE Spin(<<phase, 0>>)
  /\ SameRun /\ UNCHANGED <<phase, results, late, code>>

StartTest ==
  /\ Testing("idle", "busy") /\ Len(results[phase]) < limit
  /\ late' = IF interrupted THEN late + 1 ELSE late
  /\ SameRun /\ UNCHANGED <<phase, results, code>>

(* Mutant: the gap between turns does not look at the context. *)
StartTurnAnyway ==
  /\ mode = "turns" /\ StartTest
  /\ Update(<<phase, Len(results[phase]) + 1>>)

(* The context ends the gap between two turns; nothing looks at it before the
   first. *)
StartTurn ==
  /\ mode = "turns" /\ StartTest
  /\ results[phase] # <<>> => ~interrupted
  /\ Update(<<phase, Len(results[phase]) + 1>>)

(* The context is looked at before each attempt. *)
StartAttempt ==
  /\ mode \in {"verify", "probe"} /\ StartTest /\ ~interrupted
  /\ UNCHANGED spinnerVars

EndTest(o) ==
  /\ Testing("busy", "idle")
  /\ results' = [results EXCEPT ![phase] = Append(@, o)]
  /\ SameRun /\ UNCHANGED <<phase, late, code, spinnerVars>>

(* Nothing is answered over IPv6 while it is blocked. *)
Answerable == ~(blocked /\ phase = "v6")

(* runTurn returns. With the context cancelled from the start, claude never
   ran; a turn cancelled later may have met its deadline before. *)
EndTurn ==
  \E o \in Outcomes :
    /\ mode = "turns" /\ EndTest(o)
    /\ late > 0 => o \in {"Errored", "NoClaude"}
    /\ o = "OK" => Answerable

(* attempt returns; if it was cancelled, with an error like any other. *)
EndAttempt ==
  \E o \in AttemptOutcomes :
    mode \in {"verify", "probe"} /\ EndTest(o) /\ (o = "ok" => Answerable)

(* The loops end after the last test, or when the context is cancelled:
   RunFamily's in a gap, after a turn at least. *)
NoMore ==
  \/ Len(results[phase]) = limit
  \/ interrupted /\ (mode = "turns" => results[phase] # <<>>)

(* The family's result is there: the spinner is stopped ... *)
StopFamily ==
  /\ Testing("idle", "stop") /\ NoMore
  /\ IF mode = "probe" THEN UNCHANGED spinnerVars ELSE StopAnim
  /\ SameRun /\ UNCHANGED <<phase, results, late, code>>

(* ... and, when its goroutine is gone, the result printed. *)
EndFamily ==
  /\ Testing("stop", "begin") /\ Stopped
  /\ phase' = IF phase = "v4" THEN "v6" ELSE "verdict"
  /\ SameRun /\ UNCHANGED <<results, late, code, spinnerVars>>

GiveVerdict ==
  /\ phase = "verdict" /\ phase' = "done"
  /\ code' = LET v4 == results["v4"] v6 == results["v6"] IN
             CASE mode = "turns"  -> Verdict(v4, v6)
               [] mode = "verify" -> Verification(v4, v6)
               [] mode = "probe"  -> Report(v4, v6)
  /\ SameRun /\ UNCHANGED <<step, results, late, spinnerVars>>

Interrupt ==
  /\ phase \notin {"start", "done"} /\ ~interrupted /\ interrupted' = TRUE
  /\ UNCHANGED <<mode, limit, blocked, phase, step, results, late, code, spinnerVars>>

Command ==
  \/ CmdDoctor \/ CmdProbe \/ BeginFamily
  \/ StartTurn \/ EndTurn \/ StartAttempt \/ EndAttempt
  \/ StopFamily \/ EndFamily \/ GiveVerdict

Animation == Loop /\ UNCHANGED commandVars

DoctorNext == Command \/ Animation \/ Interrupt

(* Turns end (module Turn), attempts have a timeout, and the command goes on.
   Go's select chooses at random: it does not prefer the tick for ever. *)
DoctorSpec ==
  /\ DoctorInit /\ [][DoctorNext]_doctorVars
  /\ WF_doctorVars(Command)
  /\ WF_doctorVars(Draw /\ UNCHANGED commandVars)
  /\ SF_doctorVars(Quit /\ UNCHANGED commandVars)

-----------------------------------------------------------------------------
(* The outcomes with test i changed to o. *)
Changed(f, i, o) == [results EXCEPT ![f] = [@ EXCEPT ![i] = o]]

(* An API error must never produce a confident "it's IPv6": a confirmed hang
   stays confirmed when an error of its family becomes a good turn, and is
   lost when one of the other family's good turns becomes an error. *)
ErrorsNeverConfirm ==
  code \in {"v6-hangs", "v4-hangs"} =>
    LET hung == IF code = "v6-hangs" THEN "v6" ELSE "v4"
        VerdictOf(t) == Verdict(t["v4"], t["v6"])
    IN  /\ \A i \in DOMAIN results[hung] :
             results[hung][i] = "Errored" => VerdictOf(Changed(hung, i, "OK")) = code
        /\ \A f \in Families \ {hung} : \A i \in DOMAIN results[f] :
             results[f][i] = "OK" => VerdictOf(Changed(f, i, "Errored")) = "both-bad"

(* Where both families have a path, exchanging their outcomes exchanges the
   verdict: neither family is favoured. *)
FamilySymmetry ==
  mode = "turns" /\ code # "none"
    /\ "NoPath" \notin Seen(results["v4"]) \cup Seen(results["v6"]) =>
    Verdict(results["v6"], results["v4"]) =
      CASE code = "v6-hangs" -> "v4-hangs"
        [] code = "v4-hangs" -> "v6-hangs"
        [] OTHER -> code

(* After Ctrl-C at most one more turn is started for each family, however
   many are configured, and no attempt at all. *)
PromptInterrupt == late <= IF mode = "turns" THEN Cardinality(Families) ELSE 0

(* A check interrupted before IPv6 was tested says nothing definite of it. *)
InterruptedIsVague ==
  code # "none" /\ late > 0 => code \in {"both-bad", "inconclusive", "no-claude"}

(* probe blames no family it has not tried, as when Ctrl-C comes too early:
   none unanswered of none is not all unanswered. *)
UntestedNeverBlamed ==
  mode = "probe" /\ results["v6"] = <<>> =>
    code \notin {"v6-degraded", "both-degraded", "no-ipv6"}

(* probe blames IPv6 only if IPv4 was tried and always answered. It blames IPv4
   ("while IPv6 is clean") only if IPv6 answered and never stalled, though some
   attempts may have found no path; the exception is a Ctrl-C before the first
   attempt over IPv6, after which it says so of a family it has not tried. *)
BlameNeedsContrast ==
  /\ code = "v6-degraded" => Seen(results["v4"]) = {"ok"}
  /\ code = "v4-degraded" =>
       IF results["v6"] = <<>> THEN interrupted
       ELSE "ok" \in Seen(results["v6"]) /\ "stall" \notin Seen(results["v6"])

(* "deliberately caps the probe count": never more attempts than the cap,
   whatever was asked for, and at least one unless interrupted. *)
GentleProbing ==
  mode \in {"verify", "probe"} => \A f \in Families :
    /\ Len(results[f]) <= MaxCount
    /\ code # "none" /\ ~interrupted => results[f] # <<>>

(* doctor never asks to refresh a fix that blocks IPv6: neither by the kind of
   the errors the block causes, nor because of Ctrl-C. *)
FixedNeverRefreshed == blocked => code # "refresh"

(* "IPv6 to Anthropic is blocked": a verification that was not interrupted
   calls the fix working only if it blocks IPv6. *)
WorkingMeansBlocked == code = "working" /\ ~interrupted => blocked

(* No frame is printed over a family's result: the spinner's goroutine lives
   from Start to the end of stopAnim, and a frame it is about to print names
   the family under test, if maybe the turn before. *)
FramesNameTheTest ==
  /\ loop # "none" => phase \in Families /\ step # "begin"
  /\ loop = "draw" => drawn[1] = phase /\ drawn[2] <= label[2]

(* doctor and probe come to a verdict, whatever the spinner does. *)
VerdictGiven == phase # "start" ~> code # "none"
=============================================================================
