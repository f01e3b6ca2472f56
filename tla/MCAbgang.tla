------------------------------ MODULE MCAbgang ------------------------------
(* The settings of the instances; the defaults are buy first, market exits. *)
EXTENDS Abgang

EinStueck == [c \in Mandant |-> 1]
ZweiStueck == [c \in Mandant |-> 2]
AlleEinstellungen == EinstellungAlle
Vorgabe == {[kaufZuerst |-> TRUE, limitAusstieg |-> FALSE]}
=============================================================================
