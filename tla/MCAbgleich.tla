----------------------------- MODULE MCAbgleich -----------------------------
(* Order 1 buys one share, order 2 sells two: a sale filled in parts.      *)
EXTENDS Abgleich

EinsUndZwei == [o \in 1..2 |-> o]
=============================================================================
