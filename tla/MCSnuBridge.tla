----------------------------- MODULE MCSnuBridge -----------------------------
(* Instances of SnuBridge for TLC: who calls, and with which matcher.        *)
EXTENDS SnuBridge

CONSTANTS r1, r2, a1, s1

KindOf == [c \in Callers |->
             CASE c \in {r1, r2} -> "correlation" [] c = a1 -> "action" [] c = s1 -> "session"]
=============================================================================
