------------------------------ MODULE MCDoctor ------------------------------
(* Small instances of Doctor for TLC. *)
EXTENDS Doctor
=============================================================================
