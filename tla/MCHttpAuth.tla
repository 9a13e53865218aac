------------------------------ MODULE MCHttpAuth ------------------------------
(* An instance of HttpAuth for TLC.                                          *)
EXTENDS HttpAuth, TLC

CONSTANTS p1, p2

Interchangeable == Permutations(Procs)
=============================================================================
