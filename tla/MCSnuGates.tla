----------------------------- MODULE MCSnuGates ------------------------------
(* Instances of SnuGates for TLC.                                            *)
EXTENDS SnuGates, TLC

CONSTANTS p1, f1, f2

\* p1 sends correlated actions only; f1 and f2 may fall back to a legacy one.
ProtocolOf == [d \in Clients |-> IF d = p1 THEN "plain" ELSE "fallback"]

\* Two clients of the same protocol are interchangeable.
Same == Permutations({f1, f2})
=============================================================================
