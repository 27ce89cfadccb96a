----------------------------- MODULE FixLedger ------------------------------
(***************************************************************************)
(* What "on" and "off" together promise, without processes, files or       *)
(* commands: everything blocked is on the ledger or about to be, a change  *)
(* of the ledger happens in one step, and an entry leaves it only when the *)
(* system no longer blocks it.                                             *)
(***************************************************************************)
CONSTANT Addr

VARIABLES
  blocked,   \* the addresses the system blocks
  promised,  \* the addresses "off" will unblock
  pending    \* the addresses a running "on" is about to promise

Init == blocked = {} /\ promised = {} /\ pending = {}

Enter ==
  /\ pending = {}
  /\ pending' \in (SUBSET Addr) \ {{}}
  /\ UNCHANGED <<blocked, promised>>

Block ==
  /\ \E a \in pending : blocked' = blocked \cup {a}
  /\ UNCHANGED <<promised, pending>>

Release ==
  /\ \E a \in promised \cup pending : blocked' = blocked \ {a}
  /\ UNCHANGED <<promised, pending>>

(* All that is pending goes on the ledger; older entries leave it only if they
   are not blocked. *)
Commit ==
  /\ pending # {}
  /\ promised' \in {entries \cup pending : entries \in SUBSET promised}
  /\ blocked \subseteq promised'
  /\ pending' = {}
  /\ UNCHANGED blocked

(* An "on" that could change nothing gives up. *)
Abandon ==
  /\ pending # {} /\ blocked \subseteq promised
  /\ pending' = {}
  /\ UNCHANGED <<blocked, promised>>

Retire ==
  /\ pending = {}
  /\ promised' \in SUBSET promised
  /\ blocked \subseteq promised'
  /\ UNCHANGED <<blocked, pending>>

PowerCycle ==
  /\ pending = {}
  /\ blocked' = {}
  /\ UNCHANGED <<promised, pending>>

Next ==
  Enter \/ Block \/ Release \/ Commit \/ Abandon \/ Retire \/ PowerCycle

Spec == Init /\ [][Next]_<<blocked, promised, pending>>
=============================================================================
