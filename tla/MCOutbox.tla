------------------------------ MODULE MCOutbox ------------------------------
(* The outbox with keys and actors as model values.  All properties checked *)
(* are safety properties that treat keys and actors alike.                  *)
EXTENDS Outbox, TLC

Symmetrie == Permutations(Coid) \cup Permutations(Akteur)
=============================================================================
