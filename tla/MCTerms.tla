------------------------------- MODULE MCTerms ------------------------------
(* Requests and updates are interchangeable.                               *)
EXTENDS Terms, TLC

Slots == Permutations(Gets) \cup Permutations(Updaters)
=============================================================================
