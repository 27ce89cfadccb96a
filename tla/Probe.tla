-------------------------------- MODULE Probe -------------------------------
(***************************************************************************)
(* Packages probe and report: what a sequence of attempts to reach a host  *)
(* over one address family amounts to, and the verdict on two of them. An  *)
(* attempt is what it came to: an answer, an error whose text says that    *)
(* there is no path, or any other error. Its timings are not modelled.     *)
(***************************************************************************)
EXTENDS Integers, Sequences, FiniteSets

CONSTANTS
  MaxCount,      \* the cap on attempts per family
  DefaultCount   \* how many are made if none or a negative number is asked for

ASSUME ProbeAssumption == MaxCount \in Nat /\ DefaultCount \in 1..MaxCount

AttemptOutcomes == {"ok", "stall", "unreachable"}

ReportCodes == {"healthy", "v6-degraded", "no-ipv6", "both-degraded", "v4-degraded"}

(* Mutant: the cap is tested first, and only there. *)
ClampedAbove(n) == IF n <= 0 THEN DefaultCount ELSE n

Clamped(n) ==
  IF n <= 0 THEN DefaultCount ELSE IF n > MaxCount THEN MaxCount ELSE n

Count(outs, o) == Cardinality({i \in DOMAIN outs : outs[i] = o})
OKCount(outs) == Count(outs, "ok")
StallCount(outs) == Count(outs, "stall")
UnreachableCount(outs) == Count(outs, "unreachable")

(* Mutant: a family without an attempt is one without an answer. *)
ReportEmptyIsNone(v4, v6) ==
  LET v4Stall == StallCount(v4) + UnreachableCount(v4) IN
  IF UnreachableCount(v6) = Len(v6) THEN "no-ipv6"
  ELSE IF StallCount(v6) >= 2 THEN IF v4Stall = 0 THEN "v6-degraded" ELSE "both-degraded"
  ELSE IF v4Stall >= 2 /\ StallCount(v6) = 0 THEN "v4-degraded"
  ELSE "healthy"

(* Mutant: a failure without a path does not count against IPv4. *)
ReportStallsOnly(v4, v6) ==
  IF UnreachableCount(v6) = Len(v6) /\ Len(v6) > 0 THEN "no-ipv6"
  ELSE IF StallCount(v6) >= 2
       THEN IF StallCount(v4) = 0 THEN "v6-degraded" ELSE "both-degraded"
  ELSE IF StallCount(v4) >= 2 /\ StallCount(v6) = 0 THEN "v4-degraded"
  ELSE "healthy"

(* report.Verdict *)
Report(v4, v6) ==
  LET v4Stall == StallCount(v4) + UnreachableCount(v4) IN
  IF UnreachableCount(v6) = Len(v6) /\ Len(v6) > 0 THEN "no-ipv6"
  ELSE IF StallCount(v6) >= 2 THEN IF v4Stall = 0 THEN "v6-degraded" ELSE "both-degraded"
  ELSE IF v4Stall >= 2 /\ StallCount(v6) = 0 THEN "v4-degraded"
  ELSE "healthy"
=============================================================================
