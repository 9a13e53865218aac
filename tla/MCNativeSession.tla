--------------------------- MODULE MCNativeSession ---------------------------
(* Two processes, two contexts that share a scope name.                     *)
EXTENDS NativeSession, TLC
CONSTANTS i1, i2, n1, p1, p2
MCIds == {i1, i2}
MCScopeName == [i \in MCIds |-> n1]
Same == Permutations({p1, p2})
=============================================================================
