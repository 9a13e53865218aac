---------------------------- MODULE MCConfigStore -----------------------------
(* An instance of ConfigStore for TLC.                                       *)
EXTENDS ConfigStore, TLC

CONSTANTS p1, p2

Basic == [instance |-> "i1", method |-> "basic"]
Code == [instance |-> "i1", method |-> "code"]
Sessions == [instance |-> "i1", method |-> "session"]

\* A basic profile, with or without a session made from it, and two OAuth logins.
InitialConfigs ==
  {[default |-> "a", profiles |-> [n \in Names |-> IF n = "a" THEN Basic ELSE b]] :
     b \in {Sessions, Code}}

BasicAlias(d) == [auth |-> "basic", secret |-> [by |-> "before", instance |-> "i1"], default |-> d]
InitialAliases == {[n \in Names |-> BasicAlias(n = "b")]}

Interchangeable == Permutations(Procs)
=============================================================================
