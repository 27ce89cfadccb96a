---------------------------- MODULE VerdictProofs ----------------------------
(***************************************************************************)
(* What doctor's and probe's verdicts mean, for any number of outcomes.    *)
(***************************************************************************)
EXTENDS Doctor, FiniteSetTheorems, TLAPS

(* Attempts that were not answered, or not made, count for nothing. *)
LEMMA NoneCounted ==
  ASSUME NEW outs, NEW o, \A i \in DOMAIN outs : outs[i] # o
  PROVE  Count(outs, o) = 0
<1>1. {i \in DOMAIN outs : outs[i] = o} = {}
  OBVIOUS
<1> QED BY <1>1, FS_EmptySet DEF Count

(* A count is that of some of the tests. *)
LEMMA CountBounds ==
  ASSUME NEW T, NEW outs \in Seq(T), NEW o
  PROVE  /\ Count(outs, o) \in Nat
         /\ Count(outs, o) <= Len(outs)
         /\ \A i \in DOMAIN outs : outs[i] = o => Count(outs, o) >= 1
<1> DEFINE S == {i \in DOMAIN outs : outs[i] = o}
<1>1. Len(outs) \in Nat /\ DOMAIN outs = 1..Len(outs)
  OBVIOUS
<1>2. IsFiniteSet(DOMAIN outs) /\ Cardinality(DOMAIN outs) = Len(outs)
  BY <1>1, FS_Interval
<1>3. S \in SUBSET DOMAIN outs
  OBVIOUS
<1>4. Count(outs, o) = Cardinality(S)
  BY DEF Count
<1> HIDE DEF S
<1>5. IsFiniteSet(S) /\ Cardinality(S) <= Cardinality(DOMAIN outs)
  BY <1>2, <1>3, FS_Subset
<1>6. Cardinality(S) \in Nat
  BY <1>5, FS_CardinalityType
<1>7. S # {} => Cardinality(S) # 0
  BY <1>5, FS_EmptySet
<1>8. \A i \in DOMAIN outs : outs[i] = o => S # {}
  BY DEF S
<1> QED BY <1>1, <1>2, <1>4, <1>5, <1>6, <1>7, <1>8

(* A count of all the tests is that of one outcome. *)
LEMMA AllCounted ==
  ASSUME NEW T, NEW outs \in Seq(T), NEW o, \A i \in DOMAIN outs : outs[i] = o
  PROVE  Count(outs, o) = Len(outs)
<1>1. Len(outs) \in Nat /\ DOMAIN outs = 1..Len(outs)
  OBVIOUS
<1>2. {i \in DOMAIN outs : outs[i] = o} = DOMAIN outs
  OBVIOUS
<1>3. Cardinality(1..Len(outs)) = Len(outs)
  BY <1>1, FS_Interval
<1> QED BY <1>1, <1>2, <1>3 DEF Count

(* The worst outcome of turns is one of the two worst if that was seen. *)
LEMMA WorstIs ==
  ASSUME NEW outs, Seen(outs) \subseteq Outcomes
  PROVE  /\ Worst(outs) = "NoClaude" <=> "NoClaude" \in Seen(outs)
         /\ Worst(outs) = "NoPath" <=>
              "NoPath" \in Seen(outs) /\ "NoClaude" \notin Seen(outs)
<1> DEFINE S == Seen(outs)
           IsWorst(o) == \A x \in S : Severity[x] <= Severity[o]
<1>1. /\ Severity["OK"] = 0 /\ Severity["Errored"] = 1 /\ Severity["Hung"] = 2
      /\ Severity["NoPath"] = 3 /\ Severity["NoClaude"] = 4
  BY DEF Severity
<1>2. S \subseteq {"OK", "Hung", "Errored", "NoPath", "NoClaude"}
  BY DEF Outcomes
<1> HIDE DEF S
<1>3. \E o \in S \cup {"OK"} : IsWorst(o)
  <2>1. CASE "NoClaude" \in S
    <3>1. IsWorst("NoClaude")
      BY <1>1, <1>2
    <3> QED BY <2>1, <3>1
  <2>2. CASE "NoPath" \in S /\ "NoClaude" \notin S
    <3>1. IsWorst("NoPath")
      BY <1>1, <1>2, <2>2
    <3> QED BY <2>2, <3>1
  <2>3. CASE "Hung" \in S /\ {"NoPath", "NoClaude"} \cap S = {}
    <3>1. IsWorst("Hung")
      BY <1>1, <1>2, <2>3
    <3> QED BY <2>3, <3>1
  <2>4. CASE "Errored" \in S /\ {"Hung", "NoPath", "NoClaude"} \cap S = {}
    <3>1. IsWorst("Errored")
      BY <1>1, <1>2, <2>4
    <3> QED BY <2>4, <3>1
  <2>5. CASE {"Errored", "Hung", "NoPath", "NoClaude"} \cap S = {}
    <3>1. IsWorst("OK")
      BY <1>1, <1>2, <2>5
    <3> QED BY <3>1
  <2> QED BY <2>1, <2>2, <2>3, <2>4, <2>5
<1>4. Worst(outs) \in S \cup {"OK"} /\ IsWorst(Worst(outs))
  <2>1. Worst(outs) = CHOOSE o \in S \cup {"OK"} : IsWorst(o)
    BY DEF Worst, S
  <2> HIDE DEF IsWorst
  <2> QED BY <1>3, <2>1
<1>5. \A x \in S : Severity[x] <= Severity[Worst(outs)]
  BY <1>4
<1>6. Worst(outs) \in {"OK", "Hung", "Errored", "NoPath", "NoClaude"}
  BY <1>2, <1>4
<1>7. "NoClaude" \in S => Worst(outs) = "NoClaude"
  BY <1>1, <1>5, <1>6
<1>8. "NoPath" \in S => Worst(outs) \in {"NoPath", "NoClaude"}
  BY <1>1, <1>5, <1>6
<1>9. Worst(outs) # "OK" => Worst(outs) \in S
  BY <1>4
<1> QED BY <1>7, <1>8, <1>9 DEF S

(* What the verdict depends on. *)
LEMMA VerdictIs ==
  ASSUME NEW v4, NEW v6, Seen(v4) \subseteq Outcomes, Seen(v6) \subseteq Outcomes
  PROVE  Verdict(v4, v6) =
           IF "NoClaude" \in Seen(v4) \cup Seen(v6) THEN "no-claude"
           ELSE IF "NoPath" \in Seen(v6) \ Seen(v4) THEN "no-v6"
           ELSE IF Hangs(v6) /\ ~Bad(v4) THEN "v6-hangs"
           ELSE IF Hangs(v4) /\ ~Bad(v6) THEN "v4-hangs"
           ELSE IF Bad(v6) /\ Bad(v4) THEN "both-bad"
           ELSE IF Bad(v6) \/ Bad(v4) THEN "inconclusive"
           ELSE "healthy"
<1>1. /\ Worst(v4) = "NoClaude" <=> "NoClaude" \in Seen(v4)
      /\ Worst(v6) = "NoClaude" <=> "NoClaude" \in Seen(v6)
  BY WorstIs
<1>2. /\ Worst(v4) = "NoPath" <=> "NoPath" \in Seen(v4) /\ "NoClaude" \notin Seen(v4)
      /\ Worst(v6) = "NoPath" <=> "NoPath" \in Seen(v6) /\ "NoClaude" \notin Seen(v6)
  BY WorstIs
<1> QED BY <1>1, <1>2 DEF Verdict

(* What is seen after one outcome is changed. *)
LEMMA SeenChanged ==
  ASSUME NEW T, NEW outs \in Seq(T), NEW i \in DOMAIN outs, NEW o \in T
  PROVE  LET changed == [outs EXCEPT ![i] = o] IN
         /\ Seen(changed) \subseteq Seen(outs) \cup {o}
         /\ Seen(outs) \ {outs[i]} \subseteq Seen(changed)
         /\ o \in Seen(changed)
<1> DEFINE changed == [outs EXCEPT ![i] = o]
<1>1. /\ DOMAIN changed = DOMAIN outs /\ changed[i] = o
      /\ \A j \in DOMAIN outs : j # i => changed[j] = outs[j]
  OBVIOUS
<1> HIDE DEF changed
<1>2. Seen(changed) \subseteq Seen(outs) \cup {o}
  BY <1>1 DEF Seen
<1>3. Seen(outs) \ {outs[i]} \subseteq Seen(changed)
  BY <1>1 DEF Seen
<1>4. o \in Seen(changed)
  BY <1>1 DEF Seen
<1> QED BY <1>2, <1>3, <1>4 DEF changed

(* Where claude only failed, it hung nowhere and its errors are bad. *)
LEMMA OnlyFailures ==
  ASSUME NEW outs, NEW T, outs \in Seq(T), outs # <<>>,
         \A i \in DOMAIN outs : outs[i] \in {"Errored", "NoClaude"}
  PROVE  ~Hangs(outs) /\ Worst(outs) # "NoPath" /\ (Worst(outs) = "NoClaude" \/ Bad(outs))
<1>1. Seen(outs) \subseteq {"Errored", "NoClaude"} /\ Seen(outs) \subseteq Outcomes
  BY DEF Seen, Outcomes
<1>2. Seen(outs) # {}
  <2>1. 1 \in DOMAIN outs
    OBVIOUS
  <2> QED BY <2>1 DEF Seen
<1> QED BY <1>1, <1>2, WorstIs DEF Hangs, Bad

(* A verdict is confirmed by a hang and by nothing bad in the other family. *)
LEMMA HangConfirms ==
  ASSUME NEW v4, NEW v6, Seen(v4) \subseteq Outcomes, Seen(v6) \subseteq Outcomes
  PROVE  /\ Verdict(v4, v6) = "v6-hangs" <=>
              /\ "NoClaude" \notin Seen(v4) \cup Seen(v6)
              /\ "NoPath" \notin Seen(v6) \ Seen(v4)
              /\ Hangs(v6) /\ ~Bad(v4)
         /\ Verdict(v4, v6) = "v4-hangs" <=>
              /\ "NoClaude" \notin Seen(v4) \cup Seen(v6)
              /\ "NoPath" \notin Seen(v6) \ Seen(v4)
              /\ Hangs(v4) /\ ~Bad(v6)
<1>1. \A x \in {v4, v6} : Hangs(x) => Bad(x)
  BY DEF Hangs, Bad
<1> QED BY <1>1, VerdictIs

(* The verdict on the outcomes given for each family. *)
VerdictOf(t) == Verdict(t["v4"], t["v6"])

(* Errors add nothing to a confirmed hang, and in the other family undo it. *)
LEMMA ErrorsConfirmNothing ==
  ASSUME NEW t \in [Families -> Seq(Outcomes)],
         NEW hung \in Families, NEW other \in Families \ {hung},
         VerdictOf(t) = IF hung = "v6" THEN "v6-hangs" ELSE "v4-hangs"
  PROVE  /\ \A i \in DOMAIN t[hung] :
              t[hung][i] = "Errored" =>
                VerdictOf([t EXCEPT ![hung] = [@ EXCEPT ![i] = "OK"]]) = VerdictOf(t)
         /\ \A i \in DOMAIN t[other] :
              t[other][i] = "OK" =>
                VerdictOf([t EXCEPT ![other] = [@ EXCEPT ![i] = "Errored"]]) = "both-bad"
<1>1. \A f \in Families : t[f] \in Seq(Outcomes) /\ Seen(t[f]) \subseteq Outcomes
  BY DEF Seen
<1>2. /\ "NoClaude" \notin Seen(t["v4"]) \cup Seen(t["v6"])
      /\ "NoPath" \notin Seen(t["v6"]) \ Seen(t["v4"])
      /\ Hangs(t[hung]) /\ ~Bad(t[other])
  BY <1>1, HangConfirms DEF Families, VerdictOf
<1>3. ASSUME NEW i \in DOMAIN t[hung], t[hung][i] = "Errored"
      PROVE  VerdictOf([t EXCEPT ![hung] = [@ EXCEPT ![i] = "OK"]]) = VerdictOf(t)
  <2> DEFINE outs == [t[hung] EXCEPT ![i] = "OK"]
             u == [t EXCEPT ![hung] = [@ EXCEPT ![i] = "OK"]]
  <2>1. /\ Seen(outs) \subseteq Seen(t[hung]) \cup {"OK"}
        /\ Seen(t[hung]) \ {"Errored"} \subseteq Seen(outs)
    <3>1. "OK" \in Outcomes
      BY DEF Outcomes
    <3> QED BY <1>1, <1>3, <3>1, SeenChanged
  <2>2. u[hung] = outs /\ u[other] = t[other]
    OBVIOUS
  <2> HIDE DEF outs, u
  <2>3. Seen(u["v4"]) \subseteq Outcomes /\ Seen(u["v6"]) \subseteq Outcomes
    BY <1>1, <2>1, <2>2 DEF Families, Outcomes
  <2>4. Hangs(u[hung]) /\ ~Bad(u[other])
    BY <1>2, <2>1, <2>2 DEF Hangs
  <2>5. /\ "NoClaude" \notin Seen(u["v4"]) \cup Seen(u["v6"])
        /\ "NoPath" \notin Seen(u["v6"]) \ Seen(u["v4"])
    BY <1>2, <2>1, <2>2 DEF Families
  <2>6. VerdictOf(u) = VerdictOf(t)
    BY <2>3, <2>4, <2>5, HangConfirms DEF Families, VerdictOf
  <2> QED BY <2>6 DEF u
<1>4. ASSUME NEW i \in DOMAIN t[other], t[other][i] = "OK"
      PROVE  VerdictOf([t EXCEPT ![other] = [@ EXCEPT ![i] = "Errored"]]) = "both-bad"
  <2> DEFINE outs == [t[other] EXCEPT ![i] = "Errored"]
             u == [t EXCEPT ![other] = [@ EXCEPT ![i] = "Errored"]]
  <2>1. /\ Seen(outs) \subseteq Seen(t[other]) \cup {"Errored"}
        /\ Seen(t[other]) \ {"OK"} \subseteq Seen(outs)
        /\ "Errored" \in Seen(outs)
    <3>1. "Errored" \in Outcomes
      BY DEF Outcomes
    <3> QED BY <1>1, <1>4, <3>1, SeenChanged
  <2>2. u[other] = outs /\ u[hung] = t[hung]
    OBVIOUS
  <2> HIDE DEF outs, u
  <2>3. Seen(u["v4"]) \subseteq Outcomes /\ Seen(u["v6"]) \subseteq Outcomes
    BY <1>1, <2>1, <2>2 DEF Families, Outcomes
  <2>4. Bad(u[hung]) /\ Bad(u[other]) /\ ~Hangs(u[other])
    BY <1>2, <2>1, <2>2 DEF Hangs, Bad
  <2>5. /\ "NoClaude" \notin Seen(u["v4"]) \cup Seen(u["v6"])
        /\ "NoPath" \notin Seen(u["v6"]) \ Seen(u["v4"])
    BY <1>2, <2>1, <2>2 DEF Families
  <2>6. VerdictOf(u) = "both-bad"
    BY <2>3, <2>4, <2>5, VerdictIs DEF Families, VerdictOf
  <2> QED BY <2>6 DEF u
<1> QED BY <1>3, <1>4

(* Where both families have a path, neither is favoured. *)
LEMMA Symmetric ==
  ASSUME NEW v4, NEW v6, Seen(v4) \subseteq Outcomes, Seen(v6) \subseteq Outcomes,
         "NoPath" \notin Seen(v4) \cup Seen(v6)
  PROVE  LET code0 == Verdict(v4, v6) IN
         Verdict(v6, v4) = IF code0 = "v6-hangs" THEN "v4-hangs"
                           ELSE IF code0 = "v4-hangs" THEN "v6-hangs" ELSE code0
<1>1. \A x \in {v4, v6} : Hangs(x) => Bad(x)
  BY DEF Hangs, Bad
<1> QED BY <1>1, VerdictIs

(* What a report that blames one family says of the attempts over the other. *)
LEMMA Contrast ==
  ASSUME NEW v4 \in Seq(AttemptOutcomes), NEW v6 \in Seq(AttemptOutcomes)
  PROVE  /\ Report(v4, v6) = "v6-degraded" => Seen(v4) \subseteq {"ok"} /\ v6 # <<>>
         /\ Report(v4, v6) = "v4-degraded" /\ v6 # <<>> =>
              "ok" \in Seen(v6) /\ "stall" \notin Seen(v6)
<1>1. \A outs \in {v4, v6} :
        /\ StallCount(outs) \in Nat /\ UnreachableCount(outs) \in Nat
        /\ "stall" \in Seen(outs) => StallCount(outs) >= 1
        /\ "unreachable" \in Seen(outs) => UnreachableCount(outs) >= 1
  BY CountBounds DEF StallCount, UnreachableCount, Seen
<1>2. Seen(v4) \subseteq AttemptOutcomes /\ Seen(v6) \subseteq AttemptOutcomes
  BY DEF Seen
<1>3. ASSUME Report(v4, v6) = "v6-degraded"
      PROVE  Seen(v4) \subseteq {"ok"} /\ v6 # <<>>
  <2>1. StallCount(v6) >= 2 /\ StallCount(v4) + UnreachableCount(v4) = 0
    BY <1>3 DEF Report
  <2>2. "stall" \notin Seen(v4) /\ "unreachable" \notin Seen(v4)
    BY <1>1, <2>1
  <2>3. v6 # <<>>
    <3>1. v6 = <<>> => StallCount(v6) = 0
      BY NoneCounted DEF StallCount
    <3> QED BY <2>1, <3>1
  <2> QED BY <1>2, <2>2, <2>3 DEF AttemptOutcomes
<1>4. ASSUME Report(v4, v6) = "v4-degraded", v6 # <<>>
      PROVE  "ok" \in Seen(v6) /\ "stall" \notin Seen(v6)
  <2>1. /\ StallCount(v6) = 0
        /\ ~(UnreachableCount(v6) = Len(v6) /\ Len(v6) > 0)
    BY <1>4 DEF Report
  <2>2. "stall" \notin Seen(v6)
    BY <1>1, <2>1
  <2>3. Len(v6) > 0
    BY <1>4
  <2>4. \E i \in DOMAIN v6 : v6[i] # "unreachable"
    BY <2>1, <2>3, AllCounted DEF UnreachableCount
  <2>5. \E o \in Seen(v6) : o # "unreachable"
    BY <2>4 DEF Seen
  <2> QED BY <1>2, <2>2, <2>5 DEF AttemptOutcomes
<1> QED BY <1>3, <1>4
=============================================================================
