---------------------------- MODULE DoctorProofs -----------------------------
(***************************************************************************)
(* Theorems about doctor and probe, for every number of turns and every    *)
(* cap on the attempts.                                                    *)
(***************************************************************************)
EXTENDS VerdictProofs

(* Which tests have been made, at each place. *)
Course ==
  /\ mode \in {"none", "turns", "verify", "probe"}
  /\ phase \in Families \cup {"start", "verdict", "done"}
  /\ step \in {"begin", "idle", "busy", "stop"}
  /\ results \in [Families -> Seq(Outcomes \cup AttemptOutcomes)]
  /\ mode = "turns" => limit = MaxTurns
  /\ mode = "none" => phase = "start"
  /\ phase \notin Families => step = "begin"
  /\ phase = "start" => results["v4"] = <<>>
  /\ phase \in {"start", "v4"} => results["v6"] = <<>>
  /\ step = "begin" /\ phase \in Families => results[phase] = <<>>
  /\ mode = "turns" =>
       /\ step = "stop" => results[phase] # <<>>
       /\ phase \in {"verdict", "done"} => results["v6"] # <<>>
  /\ code # "none" => phase = "done"

(* How many tests have started after Ctrl-C, and what came of them. *)
Lateness ==
  /\ late \in Nat /\ interrupted \in BOOLEAN
  /\ ~interrupted \/ mode # "turns" => late = 0
  /\ late <= 2
  /\ phase = "start" => late = 0
  /\ phase = "v4" => late <= 1 /\ (results["v4"] = <<>> /\ step # "busy" => late = 0)
  /\ phase = "v6" /\ results["v6"] = <<>> /\ step # "busy" => late <= 1
  /\ late > 0 => \A i \in DOMAIN results["v6"] :
                   results["v6"][i] \in {"Errored", "NoClaude"}

(* What the spinner shows while a family is tested. *)
Display ==
  /\ loop \in {"none", "select", "draw"}
  /\ loop # "none" =>
       /\ phase \in Families /\ step # "begin"
       /\ \E n \in Nat :
            /\ label = <<phase, n>>
            /\ n <= Len(results[phase]) + (IF step = "busy" THEN 1 ELSE 0)
            /\ loop = "draw" => \E m \in 0..n : drawn = <<phase, m>>

(* Nothing that is blocked answers. *)
Silence ==
  /\ blocked => \A i \in DOMAIN results["v6"] : results["v6"][i] # "ok"
  /\ FixedNeverRefreshed

(* How many tests there are. *)
Limits ==
  /\ limit \in Nat
  /\ mode \in {"verify", "probe"} => limit \in 1..MaxCount
  /\ \A f \in Families : Len(results[f]) <= limit
  /\ step = "busy" => Len(results[phase]) < limit
  /\ mode \in {"verify", "probe"} /\ ~interrupted =>
       /\ step = "stop" => results[phase] # <<>>
       /\ phase \in {"v6", "verdict", "done"} => results["v4"] # <<>>
       /\ phase \in {"verdict", "done"} => results["v6"] # <<>>
  /\ mode \in {"verify", "probe"} =>
       (results["v6"] # <<>> \/ (phase = "v6" /\ step = "busy") => results["v4"] # <<>>)

(* What Course, Lateness and Limits leave of DoctorTypeOK. *)
Types ==
  /\ {blocked, interrupted} \subseteq BOOLEAN
  /\ code \in TurnCodes \cup VerifyCodes \cup ReportCodes \cup {"none"}
  /\ SpinnerTypeOK(Families \X (0..MaxTurns))

(* What the verdict was made from. *)
Concluded ==
  /\ mode = "turns" => results \in [Families -> Seq(Outcomes)]
  /\ mode \in {"verify", "probe"} => results \in [Families -> Seq(AttemptOutcomes)]
  /\ code # "none" =>
       /\ mode = "turns" => code = VerdictOf(results)
       /\ mode = "probe" => code = Report(results["v4"], results["v6"])
       /\ mode = "verify" => code \in VerifyCodes
       /\ mode \in {"turns", "verify", "probe"}

(* The steps that test nothing and show nothing. *)
LEMMA Stutter ==
  ASSUME UNCHANGED commandVars
  PROVE  /\ Course => Course'
         /\ Lateness => Lateness'
         /\ Silence => Silence'
         /\ InterruptedIsVague => InterruptedIsVague'
         /\ Limits => Limits'
         /\ Concluded => Concluded'
BY DEF commandVars, Course, Lateness, Silence, FixedNeverRefreshed, InterruptedIsVague, Limits,
       Concluded, VerdictOf

(* A sequence with one more element. *)
LEMMA Appended ==
  ASSUME NEW T, NEW s \in Seq(T), NEW o \in T
  PROVE  /\ Append(s, o) \in Seq(T)
         /\ Len(Append(s, o)) = Len(s) + 1
         /\ Append(s, o) # <<>>
         /\ \A i \in DOMAIN Append(s, o) :
              Append(s, o)[i] = o \/ (i \in DOMAIN s /\ Append(s, o)[i] = s[i])
<1>1. Append(s, o) \in Seq(T) /\ Len(Append(s, o)) = Len(s) + 1 /\ Len(s) \in Nat
  OBVIOUS
<1>2. Append(s, o) # <<>>
  BY <1>1
<1>3. DOMAIN Append(s, o) = 1..(Len(s) + 1) /\ DOMAIN s = 1..Len(s)
  OBVIOUS
<1>4. \A i \in 1..Len(s) : Append(s, o)[i] = s[i]
  OBVIOUS
<1>5. Append(s, o)[Len(s) + 1] = o
  OBVIOUS
<1> QED BY <1>1, <1>2, <1>3, <1>4, <1>5

(* A test that ends lengthens the outcomes of its family. *)
LEMMA Longer ==
  ASSUME Course, NEW o \in Outcomes \cup AttemptOutcomes, EndTest(o)
  PROVE  /\ results' \in [Families -> Seq(Outcomes \cup AttemptOutcomes)]
         /\ \A f \in Families \ {phase} : results'[f] = results[f]
         /\ Len(results'[phase]) = Len(results[phase]) + 1
         /\ results'[phase] # <<>>
         /\ \A i \in DOMAIN results'[phase] :
              results'[phase][i] = o \/ (i \in DOMAIN results[phase]
                                           /\ results'[phase][i] = results[phase][i])
<1>1. phase \in Families /\ results' = [results EXCEPT ![phase] = Append(@, o)]
  BY DEF EndTest, Testing
<1> DEFINE T == Outcomes \cup AttemptOutcomes
<1>2. results[phase] \in Seq(T) /\ results'[phase] = Append(results[phase], o)
  BY <1>1 DEF Course
<1>3. /\ Append(results[phase], o) \in Seq(T)
      /\ Len(Append(results[phase], o)) = Len(results[phase]) + 1
      /\ Append(results[phase], o) # <<>>
      /\ \A i \in DOMAIN Append(results[phase], o) :
           \/ Append(results[phase], o)[i] = o
           \/ i \in DOMAIN results[phase]
                /\ Append(results[phase], o)[i] = results[phase][i]
  <2>1. o \in T
    OBVIOUS
  <2> HIDE DEF T
  <2> QED BY <1>2, <2>1, Appended
<1>4. results' \in [Families -> Seq(T)]
  <2> HIDE DEF T
  <2>1. results \in [Families -> Seq(T)]
    BY DEF Course, T
  <2> QED BY <1>1, <1>2, <1>3, <2>1
<1>5. \A f \in Families \ {phase} : results'[f] = results[f]
  BY <1>1 DEF Course
<1> QED BY <1>2, <1>3, <1>4, <1>5

(* The end of a test, whatever it was. *)
LEMMA TestEnds ==
  ASSUME EndTurn \/ EndAttempt
  PROVE  \E o \in Outcomes \cup AttemptOutcomes :
           /\ EndTest(o)
           /\ o = "ok" => Answerable
           /\ mode = "turns" => o \in Outcomes
           /\ mode # "turns" => o \in AttemptOutcomes
           /\ late > 0 /\ mode = "turns" => o \in {"Errored", "NoClaude"}
           /\ mode = "turns" <=> EndTurn
<1>1. CASE EndTurn
  BY <1>1 DEF EndTurn, Outcomes
<1>2. CASE EndAttempt
  BY <1>2 DEF EndAttempt, EndTurn
<1> QED BY <1>1, <1>2

-----------------------------------------------------------------------------
(* Every step keeps the course. *)
LEMMA CourseNext == Course /\ [DoctorNext]_doctorVars => Course'
<1> SUFFICES ASSUME Course, [DoctorNext]_doctorVars PROVE Course'
  OBVIOUS
<1>1. CASE CmdDoctor \/ CmdProbe
  <2>1. PICK m, n :
          m \in {"turns", "verify", "probe"} /\ Begin(m, n) /\ (m = "turns" => n = MaxTurns)
    BY <1>1 DEF CmdDoctor, CmdProbe
  <2> QED BY <2>1 DEF Begin, Course, Families
<1>2. CASE BeginFamily
  BY <1>2 DEF BeginFamily, Testing, SameRun, Course, Families
<1>3. CASE StartTurn \/ StartAttempt
  BY <1>3 DEF StartTurn, StartAttempt, StartTest, Testing, SameRun, Course, Families
<1>4. CASE EndTurn \/ EndAttempt
  <2>1. PICK o \in Outcomes \cup AttemptOutcomes : EndTest(o)
    BY <1>4, TestEnds
  <2>2. results'[phase] # <<>> /\ \A f \in Families \ {phase} : results'[f] = results[f]
    BY <2>1, Longer
  <2>3. results' \in [Families -> Seq(Outcomes \cup AttemptOutcomes)]
    BY <2>1, Longer
  <2> QED BY <2>1, <2>2, <2>3 DEF EndTest, Testing, SameRun, Course, Families
<1>5. CASE StopFamily
  <2>1. mode = "turns" => results[phase] # <<>>
    <3>1. Len(<<>>) # MaxTurns
      BY DoctorAssumption
    <3> QED BY <1>5, <3>1 DEF StopFamily, NoMore, Course
  <2> QED BY <1>5, <2>1 DEF StopFamily, Testing, SameRun, Course, Families
<1>6. CASE EndFamily
  BY <1>6 DEF EndFamily, Testing, SameRun, Course, Families
<1>7. CASE GiveVerdict
  BY <1>7 DEF GiveVerdict, SameRun, Course, Families
<1>8. CASE Interrupt
  BY <1>8 DEF Interrupt, Course
<1>9. CASE Animation \/ UNCHANGED doctorVars
  BY <1>9, Stutter DEF Animation, doctorVars
<1> QED
  BY <1>1, <1>2, <1>3, <1>4, <1>5, <1>6, <1>7, <1>8, <1>9 DEF DoctorNext, Command

(* Every step keeps the count of late turns. *)
LEMMA LatenessNext ==
  Course /\ Course' /\ Lateness /\ [DoctorNext]_doctorVars => Lateness'
<1> SUFFICES ASSUME Course, Course', Lateness, [DoctorNext]_doctorVars PROVE Lateness'
  OBVIOUS
<1>1. CASE CmdDoctor \/ CmdProbe
  <2>1. PICK m, n : Begin(m, n)
    BY <1>1 DEF CmdDoctor, CmdProbe
  <2> QED BY <2>1 DEF Begin, Lateness, Course
<1>2. CASE BeginFamily \/ StopFamily
  BY <1>2 DEF BeginFamily, StopFamily, Testing, SameRun, Lateness, Course
<1>3. CASE StartTurn
  <2>1. CASE ~interrupted
    BY <1>3, <2>1 DEF StartTurn, StartTest, Testing, SameRun, Lateness
  <2>2. CASE interrupted
    <3>1. results[phase] = <<>> /\ late' = late + 1 /\ step = "idle"
      BY <1>3, <2>2 DEF StartTurn, StartTest, Testing
    <3>2. results["v6"] = <<>>
      BY <1>3, <3>1 DEF StartTurn, StartTest, Testing, Course, Families
    <3> QED
      BY <1>3, <2>2, <3>1, <3>2
      DEF StartTurn, StartTest, Testing, SameRun, Lateness, Course, Families
  <2> QED BY <2>1, <2>2 DEF Lateness
<1>4. CASE StartAttempt
  BY <1>4 DEF StartAttempt, StartTest, Testing, SameRun, Lateness
<1>5. CASE EndTurn \/ EndAttempt
  <2>1. PICK o \in Outcomes \cup AttemptOutcomes :
          /\ EndTest(o)
          /\ late > 0 /\ mode = "turns" => o \in {"Errored", "NoClaude"}
    BY <1>5, TestEnds
  <2>2. results'[phase] # <<>> /\ \A f \in Families \ {phase} : results'[f] = results[f]
    BY <2>1, Longer
  <2>3. late > 0 => \A i \in DOMAIN results'["v6"] :
                      results'["v6"][i] \in {"Errored", "NoClaude"}
    <3>1. CASE phase = "v6"
      <4>1. \A i \in DOMAIN results'[phase] :
              results'[phase][i] = o \/ (i \in DOMAIN results[phase]
                                           /\ results'[phase][i] = results[phase][i])
        BY <2>1, Longer
      <4> QED BY <2>1, <3>1, <4>1 DEF Lateness
    <3>2. CASE phase = "v4"
      BY <2>2, <3>2 DEF Lateness, Families
    <3> QED BY <2>1, <3>1, <3>2 DEF EndTest, Testing, Families
  <2> QED
    BY <2>1, <2>2, <2>3 DEF EndTest, Testing, SameRun, Lateness, Families
<1>6. CASE EndFamily
  BY <1>6 DEF EndFamily, Testing, SameRun, Lateness, Course, Families
<1>7. CASE GiveVerdict
  BY <1>7 DEF GiveVerdict, SameRun, Lateness, Families
<1>8. CASE Interrupt
  BY <1>8 DEF Interrupt, Lateness
<1>9. CASE Animation \/ UNCHANGED doctorVars
  BY <1>9, Stutter DEF Animation, doctorVars
<1> QED
  BY <1>1, <1>2, <1>3, <1>4, <1>5, <1>6, <1>7, <1>8, <1>9 DEF DoctorNext, Command

(* Every step keeps the label that of the family under test. *)
LEMMA DisplayNext ==
  Course /\ Display /\ [DoctorNext]_doctorVars => Display'
<1> SUFFICES ASSUME Course, Display, [DoctorNext]_doctorVars PROVE Display'
  OBVIOUS
<1>0. phase \in Families => Len(results[phase]) \in Nat
  BY DEF Course
<1>1. CASE CmdDoctor \/ CmdProbe
  <2>1. PICK m, n : Begin(m, n)
    BY <1>1 DEF CmdDoctor, CmdProbe
  <2> QED BY <2>1 DEF Begin, Display, spinnerVars, Families
<1>2. CASE BeginFamily
  <2>1. /\ phase \in Families /\ phase' = phase /\ step' = "idle"
        /\ results' = results /\ loop = "none"
    BY <1>2 DEF BeginFamily, Testing, Display
  <2>2. CASE mode = "probe"
    BY <1>2, <2>1, <2>2 DEF BeginFamily, Display, spinnerVars
  <2>3. CASE mode # "probe"
    <3>1. label' = <<phase, 0>> /\ loop' \in {"none", "select"}
      BY <1>2, <2>3 DEF BeginFamily, Spin
    <3> QED BY <1>0, <2>1, <3>1 DEF Display
  <2> QED BY <2>2, <2>3
<1>3. CASE StartTurn
  <2>1. /\ phase \in Families /\ phase' = phase /\ step = "idle" /\ step' = "busy"
        /\ results' = results /\ loop' = loop /\ drawn' = drawn
        /\ label' = <<phase, Len(results[phase]) + 1>>
    BY <1>3 DEF StartTurn, StartTest, Testing, Update
  <2>2. loop = "draw" => \E m \in 0..Len(results[phase]) : drawn = <<phase, m>>
    BY <1>0, <2>1 DEF Display
  <2>3. loop' = "draw" => \E m \in 0..(Len(results[phase]) + 1) : drawn' = <<phase', m>>
    BY <1>0, <2>1, <2>2
  <2>4. Len(results[phase]) + 1 \in Nat
    BY <1>0, <2>1
  <2> QED BY <1>0, <2>1, <2>3, <2>4 DEF Display
<1>4. CASE StartAttempt
  BY <1>0, <1>4 DEF StartAttempt, StartTest, Testing, Display, spinnerVars
<1>5. CASE EndTurn \/ EndAttempt
  <2>1. PICK o \in Outcomes \cup AttemptOutcomes : EndTest(o)
    BY <1>5, TestEnds
  <2>2. Len(results'[phase]) = Len(results[phase]) + 1
    BY <2>1, Longer
  <2> QED BY <1>0, <2>1, <2>2 DEF EndTest, Testing, Display, spinnerVars
<1>6. CASE StopFamily
  <2>1. loop' = loop /\ label' = label /\ drawn' = drawn
    BY <1>6 DEF StopFamily, StopAnim, spinnerVars
  <2> QED BY <1>0, <1>6, <2>1 DEF StopFamily, Testing, Display
<1>7. CASE EndFamily \/ GiveVerdict
  BY <1>7 DEF EndFamily, GiveVerdict, Testing, Stopped, Display, spinnerVars, Families
<1>8. CASE Interrupt
  BY <1>8 DEF Interrupt, Display, spinnerVars
<1>9. CASE Animation
  <2>1. phase' = phase /\ step' = step /\ results' = results
    BY <1>9 DEF Animation, commandVars
  <2>2. CASE Tick
    <3>1. PICK n \in Nat :
            /\ label = <<phase, n>>
            /\ n <= Len(results[phase]) + (IF step = "busy" THEN 1 ELSE 0)
      BY <2>2 DEF Tick, Display
    <3>2. n \in 0..n
      OBVIOUS
    <3> QED BY <2>1, <2>2, <3>1, <3>2 DEF Tick, Display
  <2>3. CASE Draw \/ Quit
    BY <2>1, <2>3 DEF Draw, Quit, Display
  <2> QED BY <1>9, <2>2, <2>3 DEF Animation, Loop
<1>10. CASE UNCHANGED doctorVars
  BY <1>10 DEF doctorVars, commandVars, spinnerVars, Display
<1> QED
  BY <1>1, <1>2, <1>3, <1>4, <1>5, <1>6, <1>7, <1>8, <1>9, <1>10 DEF DoctorNext, Command

(* Every step keeps silence over a blocked family. *)
LEMMA SilenceNext ==
  Course /\ Silence /\ [DoctorNext]_doctorVars => Silence'
<1> SUFFICES ASSUME Course, Silence, [DoctorNext]_doctorVars PROVE Silence'
  OBVIOUS
<1>1. CASE GiveVerdict
  <2>1. blocked' = blocked /\ results' = results
    BY <1>1 DEF GiveVerdict, SameRun
  <2>2. blocked => Verification(results["v4"], results["v6"]) # "refresh"
    BY NoneCounted DEF Silence, Verification, Redirected, OKCount
  <2>3. Verdict(results["v4"], results["v6"]) # "refresh"
    BY DEF Verdict
  <2>4. Report(results["v4"], results["v6"]) # "refresh"
    BY DEF Report
  <2>5. mode \in {"none", "turns", "verify", "probe"} /\ phase = "verdict"
    BY <1>1 DEF Course, GiveVerdict
  <2>6. CASE mode = "none"
    BY <2>5, <2>6 DEF Course
  <2>7. CASE mode # "none"
    <3>1. blocked => code' # "refresh"
      BY <1>1, <2>2, <2>3, <2>4, <2>5, <2>7 DEF GiveVerdict
    <3> QED BY <2>1, <3>1 DEF Silence, FixedNeverRefreshed
  <2> QED BY <2>6, <2>7
<1>2. CASE EndTurn \/ EndAttempt
  <2>1. PICK o \in Outcomes \cup AttemptOutcomes : EndTest(o) /\ (o = "ok" => Answerable)
    BY <1>2, TestEnds
  <2>2. blocked' = blocked /\ code' = code /\ phase \in Families
    BY <2>1 DEF EndTest, SameRun, Testing
  <2>3. CASE phase = "v6"
    <3>1. blocked => o # "ok"
      BY <2>1, <2>3 DEF Answerable
    <3>2. \A i \in DOMAIN results'["v6"] :
            results'["v6"][i] = o \/ (i \in DOMAIN results["v6"]
                                         /\ results'["v6"][i] = results["v6"][i])
      BY <2>1, <2>3, Longer
    <3> QED BY <2>2, <3>1, <3>2 DEF Silence, FixedNeverRefreshed
  <2>4. CASE phase # "v6"
    <3>1. results'["v6"] = results["v6"]
      BY <2>1, <2>4, Longer DEF Families
    <3> QED BY <2>2, <3>1 DEF Silence, FixedNeverRefreshed
  <2> QED BY <2>3, <2>4
<1>3. CASE CmdDoctor \/ CmdProbe
  <2>1. PICK m, n : Begin(m, n)
    BY <1>3 DEF CmdDoctor, CmdProbe
  <2> QED BY <2>1 DEF Begin, Silence, FixedNeverRefreshed
<1>4. CASE BeginFamily \/ StartTurn \/ StartAttempt \/ StopFamily \/ EndFamily \/ Interrupt
  BY <1>4 DEF BeginFamily, StartTurn, StartAttempt, StartTest, StopFamily, EndFamily, Interrupt,
              SameRun, Silence, FixedNeverRefreshed
<1>5. CASE Animation \/ UNCHANGED doctorVars
  BY <1>5, Stutter DEF Animation, doctorVars
<1> QED BY <1>1, <1>2, <1>3, <1>4, <1>5 DEF DoctorNext, Command

(* A verdict given after a turn that Ctrl-C came before is vague. *)
LEMMA VagueNext ==
  Course /\ Lateness /\ InterruptedIsVague /\ [DoctorNext]_doctorVars => InterruptedIsVague'
<1> SUFFICES ASSUME Course, Lateness, InterruptedIsVague, [DoctorNext]_doctorVars
             PROVE  InterruptedIsVague'
  OBVIOUS
<1>1. CASE GiveVerdict
  <2> SUFFICES ASSUME late > 0 PROVE code' \in {"both-bad", "inconclusive", "no-claude"}
    BY <1>1 DEF GiveVerdict, InterruptedIsVague
  <2>1. mode = "turns" /\ phase = "verdict"
    BY <1>1 DEF Lateness, GiveVerdict
  <2>2. /\ results["v6"] # <<>>
        /\ results["v6"] \in Seq(Outcomes \cup AttemptOutcomes)
        /\ \A i \in DOMAIN results["v6"] : results["v6"][i] \in {"Errored", "NoClaude"}
    BY <2>1 DEF Course, Lateness, Families
  <2>3. LET v6 == results["v6"] IN
        ~Hangs(v6) /\ Worst(v6) # "NoPath" /\ (Worst(v6) = "NoClaude" \/ Bad(v6))
    BY <2>2, OnlyFailures
  <2>4. code' = Verdict(results["v4"], results["v6"])
    BY <1>1, <2>1 DEF GiveVerdict
  <2> QED BY <2>3, <2>4 DEF Verdict
<1>2. CASE \/ BeginFamily \/ StartTurn \/ StartAttempt
           \/ EndTurn \/ EndAttempt \/ StopFamily \/ EndFamily
  <2>1. phase \in Families /\ code' = code
    BY <1>2 DEF BeginFamily, StartTurn, StartAttempt, StartTest, EndTurn, EndAttempt, EndTest,
                StopFamily, EndFamily, Testing
  <2>2. code = "none"
    BY <2>1 DEF Course, Families
  <2> QED BY <2>1, <2>2 DEF InterruptedIsVague
<1>3. CASE CmdDoctor \/ CmdProbe
  <2>1. PICK m, n : Begin(m, n)
    BY <1>3 DEF CmdDoctor, CmdProbe
  <2> QED BY <2>1 DEF Begin, InterruptedIsVague
<1>4. CASE Interrupt
  BY <1>4 DEF Interrupt, InterruptedIsVague
<1>5. CASE Animation \/ UNCHANGED doctorVars
  BY <1>5, Stutter DEF Animation, doctorVars
<1> QED BY <1>1, <1>2, <1>3, <1>4, <1>5 DEF DoctorNext, Command

(* The number of attempts is within the cap. *)
LEMMA ClampedCount ==
  ASSUME NEW n \in Int PROVE Clamped(n) \in 1..MaxCount
<1>1. MaxCount \in Int /\ 1 <= MaxCount /\ DefaultCount \in 1..MaxCount
  BY ProbeAssumption
<1> QED BY <1>1 DEF Clamped

(* Every step keeps the limits. *)
LEMMA LimitsNext ==
  Course /\ Limits /\ [DoctorNext]_doctorVars => Limits'
<1> SUFFICES ASSUME Course, Limits, [DoctorNext]_doctorVars PROVE Limits'
  OBVIOUS
<1>0. \A f \in Families : Len(results[f]) \in Nat
  BY DEF Course
<1>1. CASE CmdDoctor \/ CmdProbe
  <2>1. PICK m \in {"turns", "verify", "probe"}, n \in Nat :
          Begin(m, n) /\ (m # "turns" => n \in 1..MaxCount)
    <3>1. MaxTurns \in Nat
      BY DoctorAssumption
    <3>2. Clamped(3) \in 1..MaxCount
      BY ClampedCount
    <3>3. \A n \in Asked : Clamped(n) \in 1..MaxCount
      BY ClampedCount, DoctorAssumption
    <3>4. \A n \in 1..MaxCount : n \in Nat
      OBVIOUS
    <3> QED BY <1>1, <3>1, <3>2, <3>3, <3>4 DEF CmdDoctor, CmdProbe
  <2>2. results = [f \in Families |-> <<>>]
    BY <2>1 DEF Begin, Course, Families
  <2>3. \A f \in Families : Len(results[f]) = 0
    BY <2>2
  <2> QED BY <2>1, <2>3 DEF Begin, Limits, Course, Families
<1>2. CASE BeginFamily \/ StartTurn \/ StartAttempt
  <2>1. /\ UNCHANGED <<mode, limit, interrupted, phase, results>> /\ phase \in Families
        /\ step' = "idle" \/ (step' = "busy" /\ Len(results[phase]) < limit)
        /\ step' = "busy" => mode = "turns" \/ ~interrupted
    BY <1>2 DEF BeginFamily, StartTurn, StartAttempt, StartTest, Testing, SameRun
  <2> QED BY <2>1 DEF Limits
<1>3. CASE EndTurn \/ EndAttempt
  <2>1. PICK o \in Outcomes \cup AttemptOutcomes : EndTest(o)
    BY <1>3, TestEnds
  <2>2. /\ \A f \in Families \ {phase} : results'[f] = results[f]
        /\ Len(results'[phase]) = Len(results[phase]) + 1 /\ results'[phase] # <<>>
    BY <2>1, Longer
  <2>3. /\ UNCHANGED <<mode, limit, interrupted, phase>> /\ phase \in Families
        /\ step = "busy" /\ step' = "idle"
    BY <2>1 DEF EndTest, Testing, SameRun
  <2>4. Len(results[phase]) \in Nat /\ Len(results[phase]) < limit /\ limit \in Nat
    BY <1>0, <2>3 DEF Limits
  <2>5. \A f \in Families : Len(results'[f]) <= limit
    BY <1>0, <2>2, <2>4 DEF Limits
  <2> QED BY <2>2, <2>3, <2>5 DEF Limits, Families
<1>4. CASE StopFamily
  <2>1. UNCHANGED <<mode, limit, interrupted, phase, results>> /\ phase \in Families
        /\ step' = "stop"
    BY <1>4 DEF StopFamily, Testing, SameRun
  <2>2. mode \in {"verify", "probe"} /\ ~interrupted => results[phase] # <<>>
    <3> SUFFICES ASSUME mode \in {"verify", "probe"}, ~interrupted PROVE results[phase] # <<>>
      OBVIOUS
    <3>1. Len(results[phase]) = limit /\ limit \in 1..MaxCount
      BY <1>4 DEF StopFamily, NoMore, Limits
    <3>2. Len(results[phase]) # 0
      BY <3>1, ProbeAssumption
    <3> QED BY <3>2
  <2> QED BY <2>1, <2>2 DEF Limits
<1>5. CASE EndFamily \/ GiveVerdict
  BY <1>5 DEF EndFamily, GiveVerdict, Testing, SameRun, Limits, Course, Families
<1>6. CASE Interrupt
  BY <1>6 DEF Interrupt, Limits
<1>7. CASE Animation \/ UNCHANGED doctorVars
  BY <1>7, Stutter DEF Animation, doctorVars
<1> QED
  BY <1>1, <1>2, <1>3, <1>4, <1>5, <1>6, <1>7 DEF DoctorNext, Command

(* Every step keeps the types. *)
LEMMA TypesNext ==
  Course /\ Limits /\ Types /\ [DoctorNext]_doctorVars => Types'
<1> SUFFICES ASSUME Course, Limits, Types, [DoctorNext]_doctorVars PROVE Types'
  OBVIOUS
<1> DEFINE Label == Families \X (0..MaxTurns)
<1>1. blocked' = blocked /\ {blocked', interrupted'} \subseteq BOOLEAN
  BY DEF Types, DoctorNext, doctorVars, commandVars, Command, Animation, CmdDoctor, CmdProbe,
         Begin, BeginFamily, StartTurn, StartAttempt, StartTest, EndTurn, EndAttempt, EndTest,
         StopFamily, EndFamily, GiveVerdict, Interrupt, SameRun
<1>2. code' \in TurnCodes \cup VerifyCodes \cup ReportCodes \cup {"none"}
  <2>1. CASE GiveVerdict
    <3>1. \A v4, v6 : Verdict(v4, v6) \in TurnCodes
      BY DEF Verdict, TurnCodes
    <3>2. \A v4, v6 : Verification(v4, v6) \in VerifyCodes
      BY DEF Verification, VerifyCodes
    <3>3. \A v4, v6 : Report(v4, v6) \in ReportCodes
      BY DEF Report, ReportCodes
    <3>4. mode \in {"turns", "verify", "probe"}
      BY <2>1 DEF GiveVerdict, Course
    <3> QED BY <2>1, <3>1, <3>2, <3>3, <3>4 DEF GiveVerdict
  <2>2. CASE ~GiveVerdict
    <3>1. code' = code
      BY <2>2 DEF DoctorNext, doctorVars, commandVars, Command, Animation, CmdDoctor, CmdProbe,
         Begin, BeginFamily, StartTurn, StartAttempt, StartTest, EndTurn, EndAttempt, EndTest,
         StopFamily, EndFamily, Interrupt
    <3> QED BY <3>1 DEF Types
  <2> QED BY <2>1, <2>2
<1>3. SpinnerTypeOK(Label)'
  <2>0. SpinnerTypeOK(Label)
    BY DEF Types
  <2>1. CASE BeginFamily
    <3>1. <<phase, 0>> \in Label
      BY <2>1, DoctorAssumption DEF BeginFamily, Testing
    <3>2. CASE mode = "probe"
      BY <2>0, <2>1, <3>2 DEF BeginFamily, spinnerVars, SpinnerTypeOK
    <3>3. CASE mode # "probe"
      <4>1. Spin(<<phase, 0>>)
        BY <2>1, <3>3 DEF BeginFamily
      <4> HIDE DEF Label
      <4> QED BY <2>0, <3>1, <4>1 DEF Spin, SpinnerTypeOK
    <3> QED BY <3>2, <3>3
  <2>2. CASE StartTurn
    <3>1. <<phase, Len(results[phase]) + 1>> \in Label
      <4>1. phase \in Families /\ Len(results[phase]) < MaxTurns
        BY <2>2 DEF StartTurn, StartTest, Testing, Course
      <4>2. Len(results[phase]) \in Nat /\ MaxTurns \in Nat
        BY <4>1, DoctorAssumption DEF Course
      <4>3. Len(results[phase]) + 1 \in 0..MaxTurns
        BY <4>1, <4>2
      <4> QED BY <4>1, <4>3
    <3>2. Update(<<phase, Len(results[phase]) + 1>>)
      BY <2>2 DEF StartTurn
    <3> HIDE DEF Label
    <3> QED BY <2>0, <3>1, <3>2 DEF Update, SpinnerTypeOK
  <2>3. CASE StopFamily
    <3> HIDE DEF Label
    <3> QED BY <2>0, <2>3 DEF StopFamily, StopAnim, spinnerVars, SpinnerTypeOK
  <2>4. CASE Animation
    <3> HIDE DEF Label
    <3> QED BY <2>0, <2>4 DEF Animation, Loop, Tick, Draw, Quit, SpinnerTypeOK
  <2>5. CASE UNCHANGED spinnerVars
    <3> HIDE DEF Label
    <3> QED BY <2>0, <2>5 DEF spinnerVars, SpinnerTypeOK
  <2> QED
    BY <2>1, <2>2, <2>3, <2>4, <2>5
    DEF DoctorNext, doctorVars, Command, CmdDoctor, CmdProbe, Begin, StartAttempt, EndTurn,
        EndAttempt, EndTest, EndFamily, GiveVerdict, Interrupt
<1> QED BY <1>1, <1>2, <1>3 DEF Types

(* A verdict goes on being that of the outcomes. *)
LEMMA ConcludedNext ==
  Course /\ Concluded /\ [DoctorNext]_doctorVars => Concluded'
<1> SUFFICES ASSUME Course, Concluded, [DoctorNext]_doctorVars PROVE Concluded'
  OBVIOUS
<1>1. CASE CmdDoctor \/ CmdProbe
  <2>1. PICK m, n : Begin(m, n)
    BY <1>1 DEF CmdDoctor, CmdProbe
  <2>2. results' = [f \in Families |-> <<>>] /\ code' = "none"
    BY <2>1 DEF Begin, Course, Families
  <2> QED BY <2>2 DEF Concluded
<1>2. CASE EndTurn \/ EndAttempt
  <2>1. PICK o \in Outcomes \cup AttemptOutcomes :
          /\ EndTest(o)
          /\ mode = "turns" => o \in Outcomes
          /\ mode # "turns" => o \in AttemptOutcomes
    BY <1>2, TestEnds
  <2>2. mode' = mode /\ code' = "none"
    BY <2>1 DEF EndTest, Testing, SameRun, Course, Families
  <2>3. /\ mode = "turns" => results' \in [Families -> Seq(Outcomes)]
        /\ mode \in {"verify", "probe"} => results' \in [Families -> Seq(AttemptOutcomes)]
    <3>1. results' = [results EXCEPT ![phase] = Append(@, o)] /\ phase \in Families
      BY <2>1 DEF EndTest, Testing
    <3> QED BY <2>1, <3>1 DEF Concluded
  <2> QED BY <2>2, <2>3 DEF Concluded
<1>3. CASE GiveVerdict
  <2>1. mode' = mode /\ results' = results /\ mode \in {"turns", "verify", "probe"}
    BY <1>3 DEF GiveVerdict, SameRun, Course
  <2>2. CASE mode = "turns"
    <3>1. code' = Verdict(results["v4"], results["v6"])
      BY <1>3, <2>2 DEF GiveVerdict
    <3> QED BY <2>1, <2>2, <3>1 DEF Concluded, VerdictOf
  <2>3. CASE mode = "verify"
    <3>1. code' = Verification(results["v4"], results["v6"])
      BY <1>3, <2>3 DEF GiveVerdict
    <3> QED BY <2>1, <2>3, <3>1 DEF Concluded, Verification, VerifyCodes
  <2>4. CASE mode = "probe"
    <3>1. code' = Report(results["v4"], results["v6"])
      BY <1>3, <2>4 DEF GiveVerdict
    <3> QED BY <2>1, <2>4, <3>1 DEF Concluded
  <2> QED BY <2>1, <2>2, <2>3, <2>4
<1>4. CASE BeginFamily \/ StartTurn \/ StartAttempt \/ StopFamily \/ EndFamily \/ Interrupt
  <2>1. mode' = mode /\ results' = results /\ code' = code
    BY <1>4 DEF BeginFamily, StartTurn, StartAttempt, StartTest, StopFamily, EndFamily,
                Interrupt, SameRun
  <2> QED BY <2>1 DEF Concluded, VerdictOf
<1>5. CASE Animation \/ UNCHANGED doctorVars
  BY <1>5, Stutter DEF Animation, doctorVars
<1> QED BY <1>1, <1>2, <1>3, <1>4, <1>5 DEF DoctorNext, Command

-----------------------------------------------------------------------------
(* The inductive invariant *)
DoctorInv ==
  /\ Course
  /\ Lateness
  /\ Display
  /\ Silence
  /\ InterruptedIsVague
  /\ Limits
  /\ Types
  /\ Concluded

(* The invariant holds throughout. *)
THEOREM DoctorInvariant == DoctorSpec => []DoctorInv
<1>1. DoctorInit => DoctorInv
  <2> SUFFICES ASSUME DoctorInit PROVE DoctorInv
    OBVIOUS
  <2>1. /\ mode = "none" /\ phase = "start" /\ step = "begin" /\ loop = "none"
        /\ results["v4"] = <<>> /\ results["v6"] = <<>>
        /\ interrupted = FALSE /\ late = 0 /\ code = "none"
    BY DEF DoctorInit, SpinnerInit, Families
  <2>2. results \in [Families -> Seq(Outcomes \cup AttemptOutcomes)]
    <3>1. \A f \in Families : <<>> \in Seq(Outcomes \cup AttemptOutcomes)
      OBVIOUS
    <3>2. results = [f \in Families |-> <<>>]
      BY DEF DoctorInit
    <3> QED BY <3>1, <3>2, Zenon
  <2>3. Course
    BY <2>1, <2>2 DEF Course, Families
  <2>4. Lateness
    <3>1. late = 0 /\ 0 \in Nat /\ 0 <= 1 /\ 0 <= 2 /\ ~(0 > 0)
      BY <2>1
    <3>2. phase # "v4" /\ phase # "v6" /\ interrupted \in BOOLEAN
      BY <2>1
    <3> QED BY <3>1, <3>2, Zenon DEF Lateness
  <2>5. Display /\ InterruptedIsVague
    BY <2>1 DEF Display, InterruptedIsVague
  <2>6. Silence
    BY <2>1 DEF Silence, FixedNeverRefreshed
  <2>7. Limits
    <3>1. limit = 0 /\ \A f \in Families : Len(results[f]) = 0
      BY DEF DoctorInit
    <3> QED BY <2>1, <3>1 DEF Limits
  <2>8. Types
    BY DEF DoctorInit, SpinnerInit, SpinnerTypeOK, Types
  <2>9. Concluded
    BY <2>1 DEF Concluded
  <2> QED BY <2>3, <2>4, <2>5, <2>6, <2>7, <2>8, <2>9 DEF DoctorInv
<1>2. DoctorInv /\ [DoctorNext]_doctorVars => DoctorInv'
  <2> SUFFICES ASSUME DoctorInv, [DoctorNext]_doctorVars PROVE DoctorInv'
    OBVIOUS
  <2>1. Course'
    BY CourseNext DEF DoctorInv
  <2>2. Lateness' /\ Display'
    BY <2>1, LatenessNext, DisplayNext DEF DoctorInv
  <2>3. Silence' /\ InterruptedIsVague'
    BY SilenceNext, VagueNext DEF DoctorInv
  <2>4. Limits' /\ Types'
    BY LimitsNext, TypesNext DEF DoctorInv
  <2>5. Concluded'
    BY ConcludedNext DEF DoctorInv
  <2> QED BY <2>1, <2>2, <2>3, <2>4, <2>5 DEF DoctorInv
<1> QED BY <1>1, <1>2, PTL DEF DoctorSpec

(* Every variable of doctor and probe keeps its type. *)
THEOREM DoctorTypeCorrect == DoctorSpec => []DoctorTypeOK
<1>1. DoctorInv => DoctorTypeOK
  BY DEF DoctorInv, Course, Lateness, Limits, Types, DoctorTypeOK
<1> QED BY <1>1, DoctorInvariant, PTL

(* probe and doctor's verification make at most the capped number of attempts,
   whatever was asked for, and, unless interrupted, at least one. *)
THEOREM ProbingIsGentle == DoctorSpec => []GentleProbing
<1>1. DoctorInv => GentleProbing
  <2> SUFFICES ASSUME DoctorInv, mode \in {"verify", "probe"}, NEW f \in Families
               PROVE  /\ Len(results[f]) <= MaxCount
                      /\ code # "none" /\ ~interrupted => results[f] # <<>>
    BY DEF GentleProbing
  <2>1. Len(results[f]) \in Nat
    BY DEF DoctorInv, Course
  <2>2. Len(results[f]) <= limit /\ limit \in 1..MaxCount
    BY DEF DoctorInv, Limits
  <2>3. code # "none" /\ ~interrupted => results[f] # <<>>
    BY DEF DoctorInv, Limits, Course, Families
  <2> QED BY <2>1, <2>2, <2>3, ProbeAssumption
<1> QED BY <1>1, DoctorInvariant, PTL

(* For every number of turns, an API error confirms nothing: a confirmed hang
   needs none of the errors of its family, and no error in the other. *)
THEOREM ErrorsAreHarmless == DoctorSpec => []ErrorsNeverConfirm
<1>1. DoctorInv => ErrorsNeverConfirm
  <2> SUFFICES ASSUME DoctorInv, code \in {"v6-hangs", "v4-hangs"} PROVE ErrorsNeverConfirm
    BY DEF ErrorsNeverConfirm
  <2>1. results \in [Families -> Seq(Outcomes)] /\ code = VerdictOf(results)
    <3>1. mode = "turns"
      BY DEF DoctorInv, Concluded, Report, VerifyCodes
    <3> QED BY <3>1 DEF DoctorInv, Concluded
  <2>2. PICK hung \in Families : hung = IF code = "v6-hangs" THEN "v6" ELSE "v4"
    BY DEF Families
  <2>3. code = IF hung = "v6" THEN "v6-hangs" ELSE "v4-hangs"
    BY <2>2
  <2>4. \A f \in Families \ {hung} :
          /\ \A i \in DOMAIN results[hung] :
               results[hung][i] = "Errored" => VerdictOf(Changed(hung, i, "OK")) = code
          /\ \A i \in DOMAIN results[f] :
               results[f][i] = "OK" => VerdictOf(Changed(f, i, "Errored")) = "both-bad"
    <3> TAKE other \in Families \ {hung}
    <3>1. /\ \A i \in DOMAIN results[hung] :
               results[hung][i] = "Errored" =>
                 VerdictOf([results EXCEPT ![hung] = [@ EXCEPT ![i] = "OK"]]) = code
          /\ \A i \in DOMAIN results[other] :
               results[other][i] = "OK" =>
                 VerdictOf([results EXCEPT ![other] = [@ EXCEPT ![i] = "Errored"]]) = "both-bad"
      <4>1. VerdictOf(results) = IF hung = "v6" THEN "v6-hangs" ELSE "v4-hangs"
        BY <2>1, <2>3
      <4>2. \A i \in DOMAIN results[hung] :
              results[hung][i] = "Errored" =>
                VerdictOf([results EXCEPT ![hung] = [@ EXCEPT ![i] = "OK"]])
                  = VerdictOf(results)
        BY <2>1, <4>1, ErrorsConfirmNothing, Zenon
      <4>3. \A i \in DOMAIN results[other] :
              results[other][i] = "OK" =>
                VerdictOf([results EXCEPT ![other] = [@ EXCEPT ![i] = "Errored"]]) = "both-bad"
        BY <2>1, <4>1, ErrorsConfirmNothing, Zenon
      <4> QED BY <2>1, <4>2, <4>3, Zenon
    <3> QED BY <3>1 DEF Changed
  <2>5. \E f \in Families : f # hung
    BY DEF Families
  <2> QED BY <2>2, <2>4, <2>5 DEF ErrorsNeverConfirm, VerdictOf
<1> QED BY <1>1, DoctorInvariant, PTL

(* For every number of turns, where both families have a path, the verdict on
   the exchanged outcomes is the exchanged verdict. *)
THEOREM FamiliesAreEqual == DoctorSpec => []FamilySymmetry
<1>1. DoctorInv => FamilySymmetry
  <2> SUFFICES ASSUME DoctorInv, mode = "turns", code # "none",
                      "NoPath" \notin Seen(results["v4"]) \cup Seen(results["v6"])
               PROVE  FamilySymmetry
    BY DEF FamilySymmetry
  <2>1. results \in [Families -> Seq(Outcomes)] /\ code = Verdict(results["v4"], results["v6"])
    BY DEF DoctorInv, Concluded, VerdictOf
  <2>2. Seen(results["v4"]) \subseteq Outcomes /\ Seen(results["v6"]) \subseteq Outcomes
    BY <2>1 DEF Seen, Families
  <2>3. Verdict(results["v6"], results["v4"]) =
          IF code = "v6-hangs" THEN "v4-hangs"
          ELSE IF code = "v4-hangs" THEN "v6-hangs" ELSE code
    BY <2>1, <2>2, Symmetric
  <2> QED BY <2>3, Zenon DEF FamilySymmetry
<1> QED BY <1>1, DoctorInvariant, PTL

(* probe blames no family it has not tried, however many attempts it makes. *)
THEOREM NoBlameUntested == DoctorSpec => []UntestedNeverBlamed
<1>1. DoctorInv => UntestedNeverBlamed
  <2> SUFFICES ASSUME DoctorInv, mode = "probe", results["v6"] = <<>>, code # "none"
               PROVE  code \notin {"v6-degraded", "both-degraded", "no-ipv6"}
    BY DEF UntestedNeverBlamed
  <2>1. code = Report(results["v4"], results["v6"])
    BY DEF DoctorInv, Concluded
  <2>2. StallCount(results["v6"]) = 0 /\ Len(results["v6"]) = 0
    BY NoneCounted DEF StallCount
  <2> QED BY <2>1, <2>2 DEF Report
<1> QED BY <1>1, DoctorInvariant, PTL

(* However many attempts probe makes, it blames IPv6 only if IPv4 was tried and
   always answered, and IPv4 only if IPv6 answered and did not stall or, the
   one exception, Ctrl-C came before IPv6 was tried. *)
THEOREM BlameTakesContrast == DoctorSpec => []BlameNeedsContrast
<1>1. DoctorInv => BlameNeedsContrast
  <2> SUFFICES ASSUME DoctorInv, code \in {"v6-degraded", "v4-degraded"}
               PROVE  BlameNeedsContrast
    BY DEF BlameNeedsContrast
  <2>1. mode = "probe" /\ code = Report(results["v4"], results["v6"])
    BY DEF DoctorInv, Concluded, VerdictOf, Verdict, VerifyCodes
  <2>2. results["v4"] \in Seq(AttemptOutcomes) /\ results["v6"] \in Seq(AttemptOutcomes)
    BY <2>1 DEF DoctorInv, Concluded, Families
  <2>3. /\ code = "v6-degraded" => Seen(results["v4"]) \subseteq {"ok"} /\ results["v6"] # <<>>
        /\ code = "v4-degraded" /\ results["v6"] # <<>> =>
             "ok" \in Seen(results["v6"]) /\ "stall" \notin Seen(results["v6"])
    BY <2>1, <2>2, Contrast
  <2>4. results["v6"] # <<>> => Seen(results["v4"]) # {}
    <3>1. results["v6"] # <<>> => results["v4"] # <<>>
      BY <2>1 DEF DoctorInv, Limits
    <3>2. results["v4"] # <<>> => 1 \in DOMAIN results["v4"]
      BY <2>2
    <3> QED BY <3>1, <3>2 DEF Seen
  <2>5. phase = "done"
    BY DEF DoctorInv, Course
  <2>6. results["v6"] = <<>> => interrupted
    BY <2>1, <2>5 DEF DoctorInv, Limits
  <2> QED BY <2>3, <2>4, <2>6 DEF BlameNeedsContrast
<1> QED BY <1>1, DoctorInvariant, PTL

(* After Ctrl-C at most one more turn is started for each family, however many
   turns are configured, and no attempt. *)
THEOREM InterruptIsPrompt == DoctorSpec => []PromptInterrupt
<1>1. DoctorInv => PromptInterrupt
  <2>1. Cardinality(Families) = 2
    <3>1. Cardinality({"v4"}) = 1 /\ IsFiniteSet({"v4"})
      BY FS_Singleton
    <3>2. Families = {"v4"} \cup {"v6"}
      BY DEF Families
    <3> QED BY <3>1, <3>2, FS_AddElement
  <2> QED BY <2>1 DEF DoctorInv, Lateness, PromptInterrupt
<1> QED BY <1>1, DoctorInvariant, PTL

(* Whatever the number of turns, an interrupted doctor that made a turn after
   Ctrl-C says nothing definite of IPv6. *)
THEOREM VagueWhenInterrupted == DoctorSpec => []InterruptedIsVague
BY DoctorInvariant, PTL DEF DoctorInv

(* doctor never asks to refresh a fix that blocks IPv6. *)
THEOREM WorkingFixIsKept == DoctorSpec => []FixedNeverRefreshed
<1>1. DoctorInv => FixedNeverRefreshed
  BY DEF DoctorInv, Silence
<1> QED BY <1>1, DoctorInvariant, PTL

(* No frame of the spinner is printed over a family's result. *)
THEOREM FramesAreCurrent == DoctorSpec => []FramesNameTheTest
<1>1. DoctorInv => FramesNameTheTest
  <2> SUFFICES ASSUME DoctorInv PROVE FramesNameTheTest
    OBVIOUS
  <2>1. loop = "draw" => drawn[1] = phase /\ drawn[2] <= label[2]
    <3> SUFFICES ASSUME loop = "draw" PROVE drawn[1] = phase /\ drawn[2] <= label[2]
      OBVIOUS
    <3>1. PICK n \in Nat : label = <<phase, n>> /\ \E m \in 0..n : drawn = <<phase, m>>
      BY DEF DoctorInv, Display
    <3> QED BY <3>1
  <2> QED BY <2>1 DEF DoctorInv, Display, FramesNameTheTest
<1> QED BY <1>1, DoctorInvariant, PTL
=============================================================================
