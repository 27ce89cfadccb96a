------------------------------- MODULE Route --------------------------------
(***************************************************************************)
(* Package route: the mitigation installed in the system, one blackhole    *)
(* route (macOS, Linux) or one outbound firewall rule (Windows) for each   *)
(* IPv6 address. The system's table is external; what is modelled is the   *)
(* effect on it of the commands that CommandsFor and RemoveCommandsFor     *)
(* build, and the outcomes runTolerant lets through.                       *)
(***************************************************************************)
EXTENDS Platform

VARIABLE table  \* the addresses the system currently blocks

(* A command exits with an error that no tolerated text explains: always
   when the process lacks the privilege (only Windows gets that far), and
   otherwise as a mishap. *)
CommandFails(c) == ~Privileged(c) \/ May({"cmdfail"})

(* "ip -6 route replace", "route add" and "netsh ... add rule": an entry
   that is already there ("exists") counts as success. *)
AddEntry(c, a) == Privileged(c) /\ table' = table \cup {a}

(* "ip -6 route del", "route delete" and "netsh ... delete rule": an entry
   that is gone ("no such process", "not in table", "no rules match")
   counts as success. *)
DeleteEntry(c, a) == Privileged(c) /\ table' = table \ {a}

(* CommandsFor deletes a Windows rule before it adds it, so that there is
   never more than one. *)
DeletesFirst == OS = "windows"

(* What a restart leaves: routes are volatile, firewall rules are not. *)
TableAfterReboot == IF OS = "windows" THEN table ELSE {}
=============================================================================
