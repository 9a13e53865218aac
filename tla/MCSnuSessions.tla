---------------------------- MODULE MCSnuSessions ----------------------------
(* Instances of SnuSessions for TLC.                                         *)
EXTENDS SnuSessions

CONSTANTS c1, c2
=============================================================================
