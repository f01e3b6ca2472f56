---------------------------- MODULE OutboxIdeal ----------------------------
(***************************************************************************)
(* What the outbox of core/outbox.py promises to a restart: the intents it *)
(* can find, and in which state.  An intent appears as "offen", only moves *)
(* forward, and disappears only when it is settled.                        *)
(***************************************************************************)
EXTENDS Naturals

CONSTANT Coid       \* idempotency keys of orders (client_order_id)

VARIABLE intent     \* what a restart finds under each key

Erledigt == {"bestaetigt", "verworfen"}
Zustand == {"offen", "abgesendet"} \cup Erledigt

\* _RANG: the states in their only permitted direction.
Rang == [z \in Zustand |-> IF z = "offen" THEN 0
                          ELSE IF z = "abgesendet" THEN 1 ELSE 2]

Init == intent = [c \in Coid |-> "fehlt"]

Aufnehmen(c) ==
    /\ intent[c] = "fehlt"
    /\ intent' = [intent EXCEPT ![c] = "offen"]

Fortschreiben(c, z) ==
    /\ intent[c] \in Zustand
    /\ Rang[intent[c]] < Rang[z]
    /\ intent' = [intent EXCEPT ![c] = z]

Austragen(c) ==
    /\ intent[c] \in Erledigt
    /\ intent' = [intent EXCEPT ![c] = "fehlt"]

Next ==
    \E c \in Coid:
        \/ Aufnehmen(c)
        \/ \E z \in Zustand: Fortschreiben(c, z)
        \/ Austragen(c)

Spec == Init /\ [][Next]_intent
=============================================================================
