---------------------------- MODULE MCSnuLifecycle ----------------------------
(* Instances of SnuLifecycle for TLC: what each command asks for.            *)
EXTENDS SnuLifecycle

CONSTANTS w1, w2, s1

AskOf == [c \in Commands |-> IF c = s1 THEN "stop" ELSE "work"]
=============================================================================
