------------------------------- MODULE Abgang -------------------------------
(***************************************************************************)
(* The dispatch of an order per client (_execute_tenant_order, the steps   *)
(* of core/engine/absendung_abgang.py): reserve a slot of the day's budget *)
(* of trades, send, fall back to a market order, sell or restore the       *)
(* displaced position, poll until the time limit, cancel, close the exit   *)
(* at market, give the slot back.  The clients of one signal run at the    *)
(* same time in the event loop, the broker fills and ends orders meanwhile,*)
(* calls fail, and the process may die between any two steps.              *)
(***************************************************************************)
EXTENDS Integers, FiniteSets

CONSTANTS
    Mandant,     \* the clients
    Voll,        \* those with a full book: a purchase may displace a position
    Deckel,      \* max_daily_trades
    Menge,       \* per client: shares of its order, and of a displaced position
    MaxMenge,    \* the largest of them
    Fristen,     \* polls until ORDER_FILL_TIMEOUT_SECONDS
    Einstellung, \* the settings of the process, see EinstellungAlle
    MaxSignal,   \* bound: signals
    MaxStoerung  \* bound: failed calls and crashes

EinstellungAlle == [kaufZuerst: BOOLEAN, limitAusstieg: BOOLEAN]

ASSUME AbgangAssumption ==
    /\ IsFiniteSet(Mandant) /\ Voll \subseteq Mandant
    /\ Deckel \in Nat /\ MaxMenge \in Nat /\ Fristen \in Nat
    /\ Menge \in [Mandant -> 1..MaxMenge]
    /\ MaxSignal \in Nat /\ MaxStoerung \in Nat
    /\ Einstellung \subseteq EinstellungAlle

VARIABLES
    einst,      \* DISPLACEMENT_BUY_FIRST, USE_LIMIT_EXITS
    pc,         \* per client: the next step of its dispatch
    auf,        \* per client: the order it dispatches
    order,      \* the broker's orders of the dispatch, by leg
    lok,        \* per client: the fields of _Absendung in use, see Lokal
    zaehler,    \* ComplianceGuardian.daily_trades
    dauerhaft,  \* the day's counter in the store
    signale, stoerungen,
    gebucht,    \* history: the dispatch holds a slot
    gehandelt,  \* history: dispatches bound by the cap that got a fill
    verfallen,  \* history: earlier sales that kept their slot without a fill
    anlass,     \* history: why the counter may be off
    merk        \* history, per client: what went wrong in its dispatch

fest == <<einst, auf, signale, gehandelt, verfallen>>  \* no step of a dispatch changes them
aufgabe == <<pc, auf, lok>>
budget == <<zaehler, dauerhaft, anlass, stoerungen>>
vars == <<einst, aufgabe, order, budget, signale, gebucht, gehandelt, verfallen, merk>>

Bein == {"haupt", "markt", "verkauf", "rueck"}
Schritte == {"ruhe", "sofort", "pruefen", "haupt", "markt", "nachverkauf", "abfragen",
             "storno", "ausstieg", "r_storno", "r_lesen", "r_kauf", "erstatten"}
\* grund "risiko": an exit the guardian takes for risk-reducing, exempt from
\* the cap (COMPLIANCE_ALLOW_RISK_REDUCING_EXITS); "rotation": any other order.
Auftrag == [art: {"BUY", "SELL"}, quelle: {"ai", "human_approved"},
            grund: {"risiko", "rotation"}, tausch: BOOLEAN]
\* The leg of st.order, the filled quantity of st.live_order (-1: unknown),
\* the polls left, the quantity to buy back.
Lokal == [verfolgt: {"haupt", "markt"}, gesehen: -1..MaxMenge,
          rest: 0..Fristen, rueck: 0..MaxMenge]
KeinLokal == [verfolgt |-> "haupt", gesehen |-> -1, rest |-> 0, rueck |-> 0]
KeineOrder == [n |-> 0, f |-> 0, zu |-> FALSE]
KeinAuftrag == [art |-> "BUY", quelle |-> "ai", grund |-> "rotation", tausch |-> FALSE]
Abweichung == {"ablage", "spaet", "behalten"}
Merkmal == {"fehler", "unklar", "spaet", "storno", "blind", "fehlt", "lesefehler"}

TypeOK ==
    /\ einst \in Einstellung
    /\ pc \in [Mandant -> Schritte]
    /\ auf \in [Mandant -> Auftrag]
    /\ order \in [Mandant -> [Bein -> [n: 0..MaxMenge, f: 0..MaxMenge, zu: BOOLEAN]]]
    /\ \A c \in Mandant, b \in Bein: order[c][b].f <= order[c][b].n
    /\ lok \in [Mandant -> Lokal]
    /\ zaehler \in Nat /\ dauerhaft \in Int
    /\ signale \in 0..MaxSignal /\ stoerungen \in 0..MaxStoerung
    /\ gebucht \in [Mandant -> BOOLEAN]
    /\ gehandelt \in Nat /\ verfallen \in Nat
    /\ anlass \subseteq Abweichung
    /\ merk \in [Mandant -> SUBSET Merkmal]

Init ==
    /\ einst \in Einstellung
    /\ pc = [c \in Mandant |-> "ruhe"]
    /\ auf = [c \in Mandant |-> KeinAuftrag]
    /\ order = [c \in Mandant |-> [b \in Bein |-> KeineOrder]]
    /\ lok = [c \in Mandant |-> KeinLokal]
    /\ zaehler = 0 /\ dauerhaft = 0
    /\ signale = 0 /\ stoerungen = 0
    /\ gebucht = [c \in Mandant |-> FALSE]
    /\ gehandelt = 0 /\ verfallen = 0 /\ anlass = {}
    /\ merk = [c \in Mandant |-> {}]

----------------------------------------------------------------------------
\* The next step, with the fields it finds; a dispatch that is over has none.
Setze(c, s, l) ==
    /\ pc' = [pc EXCEPT ![c] = s]
    /\ lok' = [lok EXCEPT ![c] = IF s = "ruhe" THEN KeinLokal ELSE l]
Gehe(c, s) == Setze(c, s, lok[c])
Merke(c, m) == merk' = [merk EXCEPT ![c] = @ \cup m]
Stoerung == stoerungen < MaxStoerung /\ stoerungen' = stoerungen + 1

Offen(o) == o.f < o.n /\ ~o.zu
Ruht == \A c \in Mandant: pc[c] = "ruhe"
Erledigt == \A c \in Mandant, b \in Bein: ~Offen(order[c][b])

\* st.is_limit_exit
LimitAusstieg(c) == auf[c].art = "SELL" /\ einst.limitAusstieg

\* st.displacement_sell_order_id is set: the displaced position was sold first.
Verdraengt(c) == auf[c].tausch /\ ~einst.kaufZuerst

\* The step after a failed submit or a cancellation: _gebunden asks for
\* symbol_to_close, which only a purchase binds.  A sale ends there with an
\* UnboundLocalError that _schritt_mandant_fehler logs.
Danach(c) ==
    IF auf[c].art = "SELL" THEN "ruhe" ELSE IF Verdraengt(c) THEN "r_storno" ELSE "erstatten"

----------------------------------------------------------------------------
(* The day's budget of the ComplianceGuardian.                             *)

\* _is_risk_reducing_exit
Befreit(a) == a.art = "SELL" /\ a.grund = "risiko"

\* The order is bound by the cap and takes a slot of it.
Pflichtig(a) == a.quelle = "ai" /\ ~Befreit(a)

\* Mutant: off by one.
ErlaubtBisDeckel(a) == Pflichtig(a) => zaehler <= Deckel

\* check_trade
Erlaubt(a) == Pflichtig(a) => zaehler < Deckel

\* History: a sale that holds a slot and has no fill.
Verkaufsplaetze ==
    {c \in Mandant: /\ auf[c].art = "SELL" /\ gebucht[c]
                    /\ order[c]["haupt"].f + order[c]["markt"].f = 0}

Unverbucht == UNCHANGED budget

\* The counter in memory and _budget_buchen; a failed booking is only logged.
Verbuche(d, neu) ==
    /\ zaehler' = zaehler + d
    /\ \/ /\ dauerhaft' = dauerhaft + d
          /\ anlass' = anlass \cup neu
          /\ UNCHANGED stoerungen
       \/ /\ Stoerung
          /\ anlass' = anlass \cup neu \cup {"ablage"}
          /\ UNCHANGED dauerhaft

\* A call fails; the dispatch keeps its slot, if it has one.
Fehlschlag(c) ==
    /\ Stoerung
    /\ anlass' = IF gebucht[c] THEN anlass \cup {"behalten"} ELSE anlass
    /\ UNCHANGED <<zaehler, dauerhaft>>

\* A call fails without consequence for the slot.
Panne == Stoerung /\ UNCHANGED <<zaehler, dauerhaft, anlass>>

\* _budget_von_heute, readable.
Gelesen == IF dauerhaft > 0 THEN dauerhaft ELSE 0

\* reset_daily_limit: at the start of a strategy and in the first cycle, while
\* dispatches may be under way.  Unreadable means exhausted.
Zuruecksetzen ==
    /\ \/ zaehler' = Gelesen /\ UNCHANGED <<stoerungen, anlass>>
       \/ zaehler' = Deckel /\ Stoerung /\ anlass' = anlass \cup {"behalten"}
    /\ UNCHANGED <<einst, aufgabe, order, dauerhaft, signale, gebucht, gehandelt, verfallen, merk>>

\* The process dies and starts again; the broker keeps its orders.
Absturz ==
    /\ ~Ruht
    /\ Stoerung
    /\ pc' = [c \in Mandant |-> "ruhe"]
    /\ merk' = [c \in Mandant |-> IF pc[c] = "ruhe" THEN merk[c] ELSE merk[c] \cup {"fehler"}]
    /\ zaehler' \in {Gelesen, Deckel}
    /\ anlass' = anlass \cup {"behalten"}
    /\ lok' = [c \in Mandant |-> KeinLokal]
    /\ UNCHANGED <<fest, order, dauerhaft, gebucht>>

----------------------------------------------------------------------------
(* A signal, and the checks of a dispatch.                                 *)

\* The loop hands a signal to the clients in S, or an approved order to one;
\* those in T have to give up a position for it.  Signals follow each other:
\* each is about another symbol, and comes when the last one's orders are done.
Signal(S, T, a) ==
    /\ Ruht /\ Erledigt
    /\ signale < MaxSignal
    /\ signale' = signale + 1
    /\ auf' = [c \in Mandant |-> IF c \in S THEN [a EXCEPT !.tausch = c \in T] ELSE KeinAuftrag]
    /\ pc' = [c \in Mandant |-> IF c \notin S THEN "ruhe"
                                ELSE IF c \in T /\ ~einst.kaufZuerst THEN "sofort" ELSE "pruefen"]
    /\ order' = [c \in Mandant |-> [b \in Bein |-> KeineOrder]]
    /\ lok' = [c \in Mandant |-> IF c \in S THEN [KeinLokal EXCEPT !.rest = Fristen] ELSE KeinLokal]
    /\ gebucht' = [c \in Mandant |-> FALSE]
    /\ verfallen' = verfallen + Cardinality(Verkaufsplaetze)
    /\ merk' = [c \in Mandant |-> {}]
    /\ UNCHANGED <<einst, budget, gehandelt>>

Signale ==
    \E S \in SUBSET Mandant \ {{}}, T \in SUBSET Voll, a \in Auftrag:
        /\ T \subseteq S /\ (a.art = "SELL" => T = {})
        /\ a.quelle = "human_approved" => Cardinality(S) = 1
        /\ a.art = "BUY" => a.grund = "rotation"
        /\ ~a.tausch
        /\ Signal(S, T, a)

\* check_order, the dust floor or check_trade refuse; else record_trade
\* reserves a slot and the request is built, in one step of the event loop.
\* A halt then ends the dispatch; the slot stays taken.
Pruefen(c) ==
    /\ pc[c] = "pruefen"
    /\ \/ Gehe(c, "ruhe") /\ Unverbucht /\ UNCHANGED <<gebucht, merk>>
       \/ /\ Erlaubt(auf[c])
          /\ gebucht' = [gebucht EXCEPT ![c] = Pflichtig(auf[c])]
          /\ IF Pflichtig(auf[c])
             THEN \/ Verbuche(1, {}) /\ Gehe(c, "haupt") /\ UNCHANGED merk
                  \/ Verbuche(1, {"behalten"}) /\ Gehe(c, "ruhe") /\ Merke(c, {"fehler"})
             ELSE /\ Unverbucht
                  /\ \/ Gehe(c, "haupt") /\ UNCHANGED merk
                     \/ Gehe(c, "ruhe") /\ Merke(c, {"fehler"})
    /\ UNCHANGED <<fest, order>>

----------------------------------------------------------------------------
(* Sending: each submission arrives, is refused, or fails with an unknown  *)
(* result.                                                                 *)

Angekommen(c, b, n) == order' = [order EXCEPT ![c][b] = [n |-> n, f |-> 0, zu |-> FALSE]]
VielleichtAngekommen(c, b, n) == UNCHANGED order \/ Angekommen(c, b, n)

\* _schritt_mandant_sofort_verkaufen: the displaced position is sold first.
SofortVerkaufen(c) ==
    /\ pc[c] = "sofort"
    /\ \/ /\ Angekommen(c, "verkauf", Menge[c])
          /\ Gehe(c, "pruefen")
          /\ Unverbucht /\ UNCHANGED merk
       \/ /\ VielleichtAngekommen(c, "verkauf", Menge[c])
          /\ Gehe(c, "ruhe")
          /\ Panne /\ Merke(c, {"fehler"})
    /\ UNCHANGED <<fest, gebucht>>

\* The order, or the market order in its place, is at the broker.
Senden(c) ==
    /\ pc[c] \in {"haupt", "markt"}
    /\ Angekommen(c, pc[c], Menge[c])
    /\ Setze(c, IF auf[c].tausch /\ einst.kaufZuerst THEN "nachverkauf" ELSE "abfragen",
             [lok[c] EXCEPT !.verfolgt = pc[c], !.gesehen = -1])
    /\ Unverbucht
    /\ UNCHANGED <<fest, gebucht, merk>>

\* APIError: a limit exit is sent once more as a market order, whatever the
\* status.  Else a sale is over, with its slot; for a purchase the displaced
\* position is restored, and only a 4xx (no fill possible, gesehen = 0) gives
\* the slot back.
SendenApiFehler(c) ==
    /\ pc[c] \in {"haupt", "markt"}
    /\ LET s == IF pc[c] = "haupt" /\ LimitAusstieg(c) THEN "markt" ELSE Danach(c) IN
       \/ /\ UNCHANGED <<order, merk>>
          /\ Setze(c, s, [lok[c] EXCEPT !.gesehen = 0])
          /\ Panne
       \/ /\ VielleichtAngekommen(c, pc[c], Menge[c])
          /\ Setze(c, s, [lok[c] EXCEPT !.gesehen = -1])
          /\ Fehlschlag(c) /\ Merke(c, {"unklar"})
    /\ UNCHANGED <<fest, gebucht>>

\* Any other error (held back by the gate, connection lost) ends the dispatch.
SendenFehler(c) ==
    /\ pc[c] \in {"haupt", "markt"}
    /\ VielleichtAngekommen(c, pc[c], Menge[c])
    /\ Gehe(c, "ruhe")
    /\ Fehlschlag(c) /\ Merke(c, {"fehler"})
    /\ UNCHANGED <<fest, gebucht>>

\* submit_deferred_displacement_sell: the broker has taken the buy, now the
\* displaced position is sold; whatever fails is swallowed.
Nachverkauf(c) ==
    /\ pc[c] = "nachverkauf"
    /\ \/ Angekommen(c, "verkauf", Menge[c]) /\ Unverbucht
       \/ VielleichtAngekommen(c, "verkauf", Menge[c]) /\ Panne
    /\ Gehe(c, "abfragen")
    /\ UNCHANGED <<fest, gebucht, merk>>

----------------------------------------------------------------------------
(* Polling and cancellation.                                               *)

\* Mutant: a poll that finds the order open does not count.
AbfragenOhneFrist(c) ==
    /\ pc[c] = "abfragen"
    /\ \/ lok[c].rest = 0 /\ Gehe(c, "storno")
       \/ /\ lok[c].rest > 0
          /\ LET o == order[c][lok[c].verfolgt] IN
             Setze(c, IF o.f = o.n THEN "ruhe" ELSE IF o.zu THEN "storno" ELSE "abfragen",
                   [lok[c] EXCEPT !.gesehen = o.f])
    /\ Unverbucht
    /\ UNCHANGED <<fest, order, gebucht, merk>>

\* One poll: filled ends the dispatch, cancelled or expired leads to the
\* cancellation, an open order or an error waits on; or the time is up.
Abfragen(c) ==
    /\ pc[c] = "abfragen"
    /\ \/ lok[c].rest = 0 /\ Gehe(c, "storno") /\ Unverbucht
       \/ /\ lok[c].rest > 0
          /\ LET o == order[c][lok[c].verfolgt] IN
             Setze(c, IF o.f = o.n THEN "ruhe" ELSE IF o.zu THEN "storno" ELSE "abfragen",
                   [lok[c] EXCEPT !.gesehen = o.f, !.rest = @ - 1])
          /\ Unverbucht
       \/ /\ lok[c].rest > 0
          /\ Setze(c, "abfragen", [lok[c] EXCEPT !.rest = @ - 1])
          /\ Panne
    /\ UNCHANGED <<fest, order, gebucht, merk>>

\* Mutant: the market order takes the whole quantity.
RestmengeGanz(c) == IF LimitAusstieg(c) /\ lok[c].gesehen # -1 THEN Menge[c] ELSE 0

\* Mutant: a partly filled exit is left alone.
RestmengeNurLeer(c) == IF LimitAusstieg(c) /\ lok[c].gesehen = 0 THEN Menge[c] ELSE 0

\* exit_failsafe_remaining_qty: by the order as last polled; 0 for None.
Restmenge(c) == IF LimitAusstieg(c) /\ lok[c].gesehen # -1 THEN Menge[c] - lok[c].gesehen ELSE 0

\* The cancellation ends the order, or it fails or is still under way.
Storno(c) ==
    /\ pc[c] = "storno"
    /\ LET o == order[c][lok[c].verfolgt]
           was == (IF lok[c].gesehen = -1 THEN {"blind"} ELSE IF o.f # lok[c].gesehen THEN {"spaet"} ELSE {})
       IN
       \/ /\ order' = [order EXCEPT ![c][lok[c].verfolgt].zu = TRUE]
          /\ Merke(c, was)
          /\ UNCHANGED stoerungen
       \/ /\ Offen(o)
          /\ Stoerung /\ Merke(c, was \cup {"storno"})
          /\ UNCHANGED order
    /\ Gehe(c, IF Restmenge(c) > 0 THEN "ausstieg" ELSE Danach(c))
    /\ anlass' = IF lok[c].gesehen = -1 THEN anlass \cup {"behalten"} ELSE anlass
    /\ UNCHANGED <<fest, zaehler, dauerhaft, gebucht>>

\* The market order for the remainder.  Its key is that of the market order
\* the submit fell back to: with that one at the broker, it is refused.  An
\* exit is a sale: the dispatch ends here (Danach).
Ausstieg(c) ==
    /\ pc[c] = "ausstieg"
    /\ \/ /\ order[c]["markt"].n = 0
          /\ Angekommen(c, "markt", Restmenge(c))
          /\ Unverbucht /\ UNCHANGED merk
       \/ /\ order[c]["markt"].n = 0
          /\ VielleichtAngekommen(c, "markt", Restmenge(c))
          /\ Panne /\ Merke(c, {"fehlt"})
       \/ /\ order[c]["markt"].n # 0
          /\ Unverbucht /\ Merke(c, {"fehlt"})
          /\ UNCHANGED order
    /\ Gehe(c, "ruhe")
    /\ UNCHANGED <<fest, gebucht>>

----------------------------------------------------------------------------
(* _recover_displacement: cancel the sale, read its fill, buy that back.   *)

RueckStorno(c) ==
    /\ pc[c] = "r_storno"
    /\ \/ /\ order' = [order EXCEPT ![c]["verkauf"].zu = TRUE]
          /\ Gehe(c, "r_lesen")
          /\ Unverbucht /\ UNCHANGED merk
       \/ /\ Gehe(c, "r_lesen")
          /\ Panne /\ Merke(c, {"storno"}) /\ UNCHANGED order
       \/ /\ Setze(c, "r_kauf", [lok[c] EXCEPT !.rueck = Menge[c]])
          /\ Panne /\ Merke(c, {"lesefehler"}) /\ UNCHANGED order
    /\ UNCHANGED <<fest, gebucht>>

\* Mutant: the quantity of the sale, not what was sold of it.
RueckLesenAlles(c) ==
    /\ pc[c] = "r_lesen"
    /\ Setze(c, "r_kauf", [lok[c] EXCEPT !.rueck = Menge[c]])
    /\ Unverbucht
    /\ UNCHANGED <<fest, order, gebucht, merk>>

\* An error falls back to the quantity of the sale.
RueckLesen(c) ==
    /\ pc[c] = "r_lesen"
    /\ \/ /\ Setze(c, "r_kauf", [lok[c] EXCEPT !.rueck = order[c]["verkauf"].f])
          /\ Unverbucht /\ UNCHANGED merk
       \/ /\ Setze(c, "r_kauf", [lok[c] EXCEPT !.rueck = Menge[c]])
          /\ Panne /\ Merke(c, {"lesefehler"})
    /\ UNCHANGED <<fest, order, gebucht>>

\* The purchase is counted, but not checked against the cap.
RueckKauf(c) ==
    /\ pc[c] = "r_kauf"
    /\ \/ lok[c].rueck = 0 /\ Unverbucht /\ UNCHANGED <<order, merk>>
       \/ /\ lok[c].rueck > 0
          /\ Angekommen(c, "rueck", lok[c].rueck)
          /\ Verbuche(1, {}) /\ UNCHANGED merk
       \/ /\ lok[c].rueck > 0
          /\ VielleichtAngekommen(c, "rueck", lok[c].rueck)
          /\ Panne /\ Merke(c, {"fehlt"})
    /\ Gehe(c, "erstatten")
    /\ UNCHANGED <<fest, gebucht>>

----------------------------------------------------------------------------
\* History: the order of the slot has traded or still may.
ErstattungFalsch(c) ==
    IF \E b \in {"haupt", "markt"}: order[c][b].f > 0 \/ Offen(order[c][b])
    THEN {"spaet"} ELSE {}

\* Mutant: a slot is given back below zero.
ErstattenOhneGrenze(c) ==
    /\ pc[c] = "erstatten"
    /\ IF auf[c].quelle # "human_approved" /\ lok[c].gesehen = 0
       THEN Verbuche(-1, ErstattungFalsch(c)) ELSE Unverbucht
    /\ Gehe(c, "ruhe")
    /\ UNCHANGED <<fest, order, gebucht, merk>>

\* Mutant: the slot stays taken.
ErstattenNie(c) ==
    /\ pc[c] = "erstatten"
    /\ Unverbucht
    /\ Gehe(c, "ruhe")
    /\ UNCHANGED <<fest, order, gebucht, merk>>

\* refund_trade for a purchase without a fill as far as the dispatch knows: by
\* a 4xx, or by the last poll.
Erstatten(c) ==
    /\ pc[c] = "erstatten"
    /\ IF auf[c].quelle # "human_approved" /\ lok[c].gesehen = 0 /\ zaehler > 0
       THEN Verbuche(-1, ErstattungFalsch(c)) ELSE Unverbucht
    /\ Gehe(c, "ruhe")
    /\ UNCHANGED <<fest, order, gebucht, merk>>

----------------------------------------------------------------------------
(* The broker.                                                             *)

\* One more share is filled; the first fill of a dispatch makes it a trade.
BrokerFuellt(c, b) ==
    /\ Offen(order[c][b])
    /\ order' = [order EXCEPT ![c][b].f = @ + 1]
    /\ gehandelt' = IF /\ Pflichtig(auf[c]) /\ b \in {"haupt", "markt"}
                       /\ order[c]["haupt"].f + order[c]["markt"].f = 0
                    THEN gehandelt + 1 ELSE gehandelt
    /\ UNCHANGED <<einst, aufgabe, budget, signale, gebucht, verfallen, merk>>

\* The broker cancels or expires an order.
BrokerEndet(c, b) ==
    /\ Offen(order[c][b])
    /\ order' = [order EXCEPT ![c][b].zu = TRUE]
    /\ UNCHANGED <<einst, aufgabe, budget, signale, gebucht, gehandelt, verfallen, merk>>

----------------------------------------------------------------------------
Arbeiten(c) ==
    \/ Pruefen(c) \/ SofortVerkaufen(c)
    \/ Senden(c) \/ SendenApiFehler(c) \/ SendenFehler(c) \/ Nachverkauf(c)
    \/ Abfragen(c) \/ Storno(c) \/ Ausstieg(c)
    \/ RueckStorno(c) \/ RueckLesen(c) \/ RueckKauf(c) \/ Erstatten(c)

Next ==
    \/ Signale \/ Zuruecksetzen \/ Absturz
    \/ \E c \in Mandant: Arbeiten(c)
    \/ \E c \in Mandant, b \in Bein: BrokerFuellt(c, b) \/ BrokerEndet(c, b)

\* The event loop runs every task that can run; the broker owes nothing.
Spec == Init /\ [][Next]_vars /\ \A c \in Mandant: WF_vars(Arbeiten(c))

----------------------------------------------------------------------------
\* The clients of one signal check and reserve at the same time, dispatches
\* fail, the process dies and the counter is read again (check_trade,
\* record_trade, reset_daily_limit): no more orders bound by the cap get a
\* fill in a day than it allows.  Excepted are a booking the store lost and
\* a slot given back for an order that still got a fill.
TagesDeckel ==
    anlass \cap {"ablage", "spaet"} = {} => gehandelt <= Deckel

\* Reserve and reclaim (#2118): once all dispatches are over, the counter is
\* the number of orders that got a fill and of the sales that got none: a
\* purchase that was refused or cancelled without a fill has not cost the day
\* a slot, a sale always has (Danach).  Excepted are slots kept because the
\* result of a call was unknown.
PlatzKommtZurueck ==
    (anlass = {} /\ einst.kaufZuerst /\ Ruht /\ Erledigt)
        => zaehler = gehandelt + verfallen + Cardinality(Verkaufsplaetze)

\* A limit exit and the market orders in its place (_submit_with_market_
\* failsafe, exit_failsafe_remaining_qty) sell no more than is held.  Excepted
\* are a fill after the last poll, a cancellation that did not end the order,
\* and an order that arrived although its submission failed.
KeinUeberverkauf ==
    \A c \in Mandant:
        (auf[c].art = "SELL" /\ merk[c] \cap {"spaet", "storno", "unklar"} = {})
            => order[c]["haupt"].f + order[c]["markt"].f <= Menge[c]

\* "so the position always closes" (#2558): a limit exit that is over was
\* filled or sent to the market for all that was not, unless an error was
\* logged or the order was never seen.
AusstiegGedeckt ==
    \A c \in Mandant:
        LET o == order[c]["haupt"] IN
        (/\ pc[c] = "ruhe" /\ LimitAusstieg(c) /\ o.n > 0
         /\ merk[c] \cap {"fehler", "blind", "fehlt", "unklar"} = {})
            => o.f + order[c]["markt"].n + (IF Offen(o) THEN o.n - o.f ELSE 0) >= Menge[c]

\* "a failed BUY then changes nothing" (absendung_vorlauf.py:491): after a
\* dispatch without error nothing of the displaced position is sold for a
\* purchase of which nothing was filled.
TauschOderNichts ==
    (Ruht /\ Erledigt /\ stoerungen = 0) =>
        \A c \in Mandant:
            (einst.kaufZuerst /\ order[c]["verkauf"].f > 0) => order[c]["haupt"].f > 0

\* Sell first (#2189): once the recovery has run, it has bought back exactly
\* what was sold of the displaced position, unless the cancellation, the
\* reading or the purchase failed.
TauschRueckgaengig ==
    \A c \in Mandant:
        (pc[c] = "erstatten" /\ Verdraengt(c)
            /\ merk[c] \cap {"lesefehler", "storno", "fehlt"} = {})
                => order[c]["rueck"].n = order[c]["verkauf"].f

\* Every dispatch ends, however the polls go: the loop waits for all of them.
AbsendungEndet ==
    \A c \in Mandant: pc[c] # "ruhe" ~> pc[c] = "ruhe"
=============================================================================
