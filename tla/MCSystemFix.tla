---------------------------- MODULE MCSystemFix -----------------------------
(* Small instances of SystemFix for TLC: the sets of mishaps. *)
EXTENDS SystemFixProperties

Alone == HazardKinds \ {"overlap"}
AloneTrusty == Alone \ {"cmdfail", "readfail"}
CalmSplit == {"reboot", "nodns", "split"}
=============================================================================
