----------------------------- MODULE MCOrderTor -----------------------------
(* Jobs for model checking: a purchase, a displacement and a protective exit *)
(* on the global account, a trim of a client; both exits are limit exits.    *)
EXTENDS OrderTor

MCArt == [a \in Auftrag |-> CASE a = "kauf" -> "entry" [] a = "stop" -> "stop"
                               [] a = "trim" -> "trim" [] a = "tausch" -> "displacement"]
MCKonto == [a \in Auftrag |-> IF a = "trim" THEN "mandant" ELSE "global"]
MCLimitExit == Auftrag \cap {"trim", "stop"}
=============================================================================
