------------------------------ MODULE Abgleich ------------------------------
(***************************************************************************)
(* The reconciliation with the broker (core/reconciliation.py).  A run     *)
(* fetches the open orders, the closed orders and the positions in three   *)
(* calls, each of which may fail while the broker goes on filling, and     *)
(* compares them with the books: the first run of a process adopts what it *)
(* finds, later runs book the fills nobody reported and report what does   *)
(* not agree.  The stream of events reports fills too, late, twice or not  *)
(* at all.  A deviation blocks new entries until a human releases it       *)
(* through the route; the process may die at any point.  The reason of a   *)
(* sale nobody decided is filed in the audit log, under a key that expires *)
(* or, without a store, under none.                                        *)
(***************************************************************************)
EXTENDS Integers, FiniteSets

CONSTANTS
    MaxOrder,     \* orders, numbered as submitted; each has a symbol of its own
    Verkauf,      \* those that sell without a decision of the engine
    Menge,        \* shares of each order, and of the position to be sold
    Grenze,       \* ABGESCHLOSSENE_ORDERS_JE_LAUF
    Scharf,       \* RECONCILIATION_BLOCK_ON_BREAK
    Strom,        \* RECONCILIATION_STREAM_ENABLED
    Ablage,       \* whether the installation has a synchronous store: the cases looked at
    Bediener,     \* calls of the release route
    MaxStoerung   \* bound: failed calls and crashes

Order == 1..MaxOrder
Fill == UNION {{o} \X (1..Menge[o]): o \in Order}   \* _fill_id: order, filled quantity

ASSUME AbgleichAssumption ==
    /\ MaxOrder \in Nat /\ Menge \in [Order -> Nat \ {0}] /\ Grenze \in Nat
    /\ Verkauf \subseteq Order
    /\ Scharf \in BOOLEAN /\ Strom \in BOOLEAN /\ Ablage \subseteq BOOLEAN
    /\ MaxStoerung \in Nat

VARIABLES
    stand,       \* broker: state of each order
    gefuellt,    \* broker: filled quantity of each order
    \* the service, in memory
    bekannt,     \* _internal_order_ids
    buch,        \* _known_positions, -1: not in the book
    uebernommen, \* _adopted
    abgeglichen, \* reconciled_once
    gesperrt,    \* entries_blocked
    gesehen,     \* _seen_fills
    gruende,     \* _gruende_abgelegt
    lauf,        \* the next step of run_once
    bild,        \* what _watch fetched so far
    \* the store
    ablage,      \* synchrone_ablage: there is one
    schluessel,  \* orders with a key sell_reason
    \* the route
    blick,       \* per call: the record it read, and whether it still holds
    \* history
    abgelegt,    \* orders whose reason is in the audit log
    verpasst,    \* orders with a filing that failed, with a warning
    imDienst,    \* reasons filed by this service, per order
    seitFrist,   \* reasons filed since the key last expired, per order
    stoerungen

broker == <<stand, gefuellt>>
dienst == <<bekannt, buch, uebernommen, abgeglichen, gesperrt>>
chronik == <<abgelegt, verpasst, imDienst, seitFrist>>
fills == <<gesehen, gruende, schluessel, chronik>>
vars == <<broker, dienst, fills, ablage, lauf, bild, blick, stoerungen>>

KeinBild == [offen |-> {}, zu |-> {}, pos |-> [o \in Order |-> 0], fehler |-> {}]

\* What the broker holds of an order's symbol.
Position(o) == IF o \in Verkauf THEN Menge[o] - gefuellt[o] ELSE gefuellt[o]

TypeOK ==
    /\ stand \in [Order -> {"neu", "offen", "filled", "canceled"}]
    /\ \A o \in Order: gefuellt[o] \in 0..Menge[o] /\ buch[o] \in -1..Menge[o]
    /\ bekannt \subseteq Order
    /\ uebernommen \in BOOLEAN /\ abgeglichen \in BOOLEAN /\ gesperrt \in BOOLEAN
    /\ gesehen \subseteq Fill
    /\ gruende \subseteq Verkauf /\ schluessel \subseteq Verkauf
    /\ lauf \in {"orders", "closed", "positions", "compare"}
    /\ bild.offen \subseteq Fill \cup (Order \X {0}) /\ bild.zu \subseteq Fill
    /\ \A o \in Order: bild.pos[o] \in 0..Menge[o]
    /\ bild.fehler \subseteq {"orders", "closed", "positions"}
    /\ blick \in [Bediener -> {"ruht", "keiner", "gleich", "anders"}]
    /\ ablage \in BOOLEAN /\ (~ablage => schluessel = {})
    /\ abgelegt \subseteq Verkauf /\ verpasst \subseteq Verkauf
    /\ imDienst \in [Order -> Nat] /\ seitFrist \in [Order -> Nat]
    /\ stoerungen \in 0..MaxStoerung

Init ==
    /\ stand = [o \in Order |-> "neu"]
    /\ gefuellt = [o \in Order |-> 0]
    /\ ablage \in Ablage /\ schluessel = {}
    /\ abgelegt = {} /\ verpasst = {}
    /\ imDienst = [o \in Order |-> 0] /\ seitFrist = [o \in Order |-> 0]
    /\ stoerungen = 0
    /\ bekannt = {} /\ buch = [o \in Order |-> -1]
    /\ uebernommen = FALSE /\ abgeglichen = FALSE /\ gesperrt = FALSE
    /\ gesehen = {} /\ gruende = {}
    /\ lauf = "orders" /\ bild = KeinBild
    /\ blick = [m \in Bediener |-> "ruht"]

----------------------------------------------------------------------------
Stoerung == stoerungen < MaxStoerung /\ stoerungen' = stoerungen + 1

(* The broker: orders come in turn, are filled in parts, filled or ended.  *)

Auftraggeben(o) ==
    /\ stand[o] = "neu" /\ \A p \in 1..(o - 1): stand[p] # "neu"
    /\ stand' = [stand EXCEPT ![o] = "offen"]
    /\ UNCHANGED <<gefuellt, dienst, fills, ablage, lauf, bild, blick, stoerungen>>

Fuellen(o) ==
    /\ stand[o] = "offen"
    /\ gefuellt' = [gefuellt EXCEPT ![o] = @ + 1]
    /\ stand' = [stand EXCEPT ![o] = IF gefuellt[o] + 1 = Menge[o] THEN "filled" ELSE "offen"]
    /\ UNCHANGED <<dienst, fills, ablage, lauf, bild, blick, stoerungen>>

Stornieren(o) ==
    /\ stand[o] = "offen"
    /\ stand' = [stand EXCEPT ![o] = "canceled"]
    /\ UNCHANGED <<gefuellt, dienst, fills, ablage, lauf, bild, blick, stoerungen>>

----------------------------------------------------------------------------
(* Booking fills.                                                          *)

\* The reasons of the orders in A reach the log.
Protokolliert(A) ==
    /\ abgelegt' = abgelegt \cup A
    /\ imDienst' = [o \in Order |-> IF o \in A THEN imDienst[o] + 1 ELSE imDienst[o]]
    /\ seitFrist' = [o \in Order |-> IF o \in A THEN seitFrist[o] + 1 ELSE seitFrist[o]]

\* Mutant: only the memory knows which reasons were filed.
GruendeAblegenFluechtig(S) ==
    LET neu == (S \cap Verkauf) \ gruende IN
    /\ schluessel' = IF ablage THEN schluessel \cup neu ELSE schluessel
    /\ gruende' = gruende \cup neu
    /\ Protokolliert(neu)
    /\ UNCHANGED <<verpasst, stoerungen>>

\* _verkaufsgrund_ablegen for the orders in S: the key in the store if there
\* is one (_erster_grund), the memory, the audit log, in this order.  The
\* filings in F fail, and an error is swallowed: of those K have their key,
\* G are remembered too.  Without a store only the log can fail.
GruendeAblegen(S) ==
    LET neu == (S \cap Verkauf) \ (gruende \cup schluessel) IN
    \E F \in SUBSET neu: \E K \in SUBSET F: \E G \in SUBSET F:
        /\ IF ablage THEN G \subseteq K ELSE K = {} /\ G = F
        /\ schluessel' = IF ablage THEN schluessel \cup (neu \ F) \cup K ELSE schluessel
        /\ gruende' = gruende \cup (neu \ F) \cup G
        /\ Protokolliert(neu \ F)
        /\ verpasst' = verpasst \cup F
        /\ IF F = {} THEN UNCHANGED stoerungen ELSE Stoerung

\* SELL_REASON_FRIST_S: the key of a reason is gone after seven days.
SchluesselVerfaellt(o) ==
    /\ o \in schluessel
    /\ schluessel' = schluessel \ {o}
    /\ seitFrist' = [seitFrist EXCEPT ![o] = 0]
    /\ UNCHANGED <<broker, dienst, gesehen, gruende, abgelegt, verpasst, imDienst, ablage,
                   lauf, bild, blick, stoerungen>>

\* on_broker_fill for the fills in E: the known ones fall out.
Eintragen(E) ==
    LET neu == E \ gesehen IN
    /\ gesehen' = gesehen \cup neu
    /\ GruendeAblegen({e[1]: e \in neu})

\* The stream, subscribed after the first run, delivers a fill that the
\* broker made: at once, late, again or never.
Liefern(e) ==
    /\ Strom /\ abgeglichen
    /\ e[2] <= gefuellt[e[1]]
    /\ Eintragen({e})
    /\ UNCHANGED <<broker, dienst, ablage, lauf, bild, blick>>

----------------------------------------------------------------------------
(* run_once: three fetches, then the comparison in one step.               *)

Weiter(von, nach, neu) ==
    /\ lauf = von /\ lauf' = nach
    /\ \/ bild' = neu /\ UNCHANGED stoerungen
       \/ bild' = [bild EXCEPT !.fehler = @ \cup {von}] /\ Stoerung
    /\ UNCHANGED <<broker, dienst, fills, ablage, blick>>

HoleOrders ==
    Weiter("orders", "closed",
           [bild EXCEPT !.offen = {<<o, gefuellt[o]>>: o \in {p \in Order: stand[p] = "offen"}}])

\* Mutant: the closed orders are not fetched.
HoleAbgeschlosseneNie == Weiter("closed", "positions", bild)

\* The latest closed orders; only the filled ones are looked at.
HoleAbgeschlossene ==
    LET zu == {o \in Order: stand[o] \in {"filled", "canceled"}}
        letzte == {o \in zu: Cardinality({p \in zu: p >= o}) <= Grenze}
    IN Weiter("closed", "positions",
              [bild EXCEPT !.zu = {<<o, gefuellt[o]>>: o \in {p \in letzte: stand[p] = "filled"}}])

HolePositionen ==
    Weiter("positions", "compare", [bild EXCEPT !.pos = [o \in Order |-> Position(o)]])

\* Mutant: an open order without a fill counts as well.
BildFillsAuchLeer == bild.offen \cup bild.zu

\* Fills of the snapshot: of partly filled open orders and of filled ones.
BildFills == {e \in bild.offen: e[2] > 0} \cup bild.zu

\* Mutant: only the positions the broker lists are compared.
AbweichungenOhneFehlende ==
    {"broker_unreachable": x \in bild.fehler}
    \cup {"missing_fill": e \in BildFills \ gesehen}
    \cup {"orphaned_order": e \in {e \in bild.offen: e[1] \notin bekannt}}
    \cup {"unknown_position": o \in {o \in Order: bild.pos[o] > 0 /\ buch[o] = -1}}
    \cup {"position_mismatch": o \in {o \in Order: bild.pos[o] > 0 /\ buch[o] \notin {-1, bild.pos[o]}}}

\* The kinds of deviation.  A position that was not listed, or could not be
\* fetched, counts as none.
Abweichungen ==
    {"broker_unreachable": x \in bild.fehler}
    \cup {"missing_fill": e \in BildFills \ gesehen}
    \cup {"orphaned_order": e \in {e \in bild.offen: e[1] \notin bekannt}}
    \cup {"unknown_position": o \in {o \in Order: bild.pos[o] > 0 /\ buch[o] = -1}}
    \cup {"position_mismatch": o \in {o \in Order: buch[o] \notin {-1, bild.pos[o]}}}

\* _report: an open deviation blocks entries; its record replaces the one that
\* the calls of the route have read.  A fill booked by the run is healed.
Melden(b) ==
    IF Scharf /\ b \ {"missing_fill"} # {}
    THEN /\ gesperrt' = TRUE
         /\ blick' = [m \in Bediener |-> IF blick[m] = "ruht" THEN "ruht" ELSE "anders"]
    ELSE UNCHANGED <<gesperrt, blick>>

Fertig ==
    /\ lauf = "compare" /\ lauf' = "orders"
    /\ bild' = KeinBild
    /\ abgeglichen' = TRUE
    /\ UNCHANGED <<broker, ablage>>

\* The first run takes over what it fetched, even if it could not fetch all.
Uebernehmen ==
    /\ ~uebernommen /\ uebernommen' = TRUE
    /\ bekannt' = {e[1]: e \in bild.offen}
    /\ buch' = [o \in Order |-> IF bild.pos[o] > 0 THEN bild.pos[o] ELSE -1]
    /\ gesehen' = gesehen \cup BildFills
    /\ GruendeAblegen({e[1]: e \in BildFills})
    /\ Melden({"broker_unreachable": x \in bild.fehler})
    /\ Fertig

\* Every later run.  Nothing changes the books after the first one.
Vergleichen ==
    /\ uebernommen
    /\ Eintragen(BildFills)
    /\ Melden(Abweichungen)
    /\ Fertig
    /\ UNCHANGED <<bekannt, buch, uebernommen>>

----------------------------------------------------------------------------
(* reconciliation_release: read the record, write the audit log, release.  *)

Ruf(m) ==
    /\ abgeglichen /\ blick[m] = "ruht"
    /\ blick' = [blick EXCEPT ![m] = IF gesperrt THEN "gleich" ELSE "keiner"]
    /\ UNCHANGED <<broker, dienst, fills, ablage, lauf, bild, stoerungen>>

\* Mutant: the record is not looked at again after the log was written.
AufhebenUngeprueft(m) ==
    /\ blick[m] # "ruht"
    /\ gesperrt' = FALSE
    /\ blick' = [n \in Bediener |-> IF n = m THEN "ruht"
                                    ELSE IF blick[n] = "gleich" THEN "anders" ELSE blick[n]]
    /\ UNCHANGED <<broker, bekannt, buch, uebernommen, abgeglichen, fills, ablage, lauf,
                   bild, stoerungen>>

\* The log is written.  Only the record that was read is released; if there
\* is another one by now the call answers 409.
Aufheben(m) ==
    /\ blick[m] # "ruht"
    /\ IF blick[m] = "gleich"
       THEN /\ gesperrt' = FALSE
            /\ blick' = [n \in Bediener |-> IF n = m THEN "ruht"
                                            ELSE IF blick[n] = "gleich" THEN "anders" ELSE blick[n]]
       ELSE blick' = [blick EXCEPT ![m] = "ruht"] /\ UNCHANGED gesperrt
    /\ UNCHANGED <<broker, bekannt, buch, uebernommen, abgeglichen, fills, ablage, lauf,
                   bild, stoerungen>>

\* The log cannot be written: the block stays.
AufhebenFehler(m) ==
    /\ blick[m] # "ruht"
    /\ blick' = [blick EXCEPT ![m] = "ruht"]
    /\ Stoerung
    /\ UNCHANGED <<broker, dienst, fills, ablage, lauf, bild>>

----------------------------------------------------------------------------
\* The process dies, or the trading loop is started again and builds a new
\* service: nothing in memory is left.  What is at the broker and in the store
\* stays.
Absturz ==
    /\ Stoerung
    /\ bekannt' = {} /\ buch' = [o \in Order |-> -1]
    /\ uebernommen' = FALSE /\ abgeglichen' = FALSE /\ gesperrt' = FALSE
    /\ gesehen' = {} /\ gruende' = {}
    /\ lauf' = "orders" /\ bild' = KeinBild
    /\ blick' = [m \in Bediener |-> "ruht"]
    /\ imDienst' = [o \in Order |-> 0]
    /\ UNCHANGED <<broker, schluessel, abgelegt, verpasst, seitFrist, ablage>>

Lauf == HoleOrders \/ HoleAbgeschlossene \/ HolePositionen \/ Uebernehmen \/ Vergleichen

Next ==
    \/ Lauf \/ Absturz
    \/ \E o \in Order: Auftraggeben(o) \/ Fuellen(o) \/ Stornieren(o) \/ SchluesselVerfaellt(o)
    \/ \E e \in Fill: Liefern(e)
    \/ \E m \in Bediener: Ruf(m) \/ Aufheben(m) \/ AufhebenFehler(m)

\* The loop runs every 30 seconds; the broker, the stream and the humans owe
\* nothing.
Spec == Init /\ [][Next]_vars /\ WF_vars(Lauf)

----------------------------------------------------------------------------
\* The reason of a sale that the engine did not decide is in the audit log once
\* one of its fills is known, unless a filing failed with a warning.  Though its
\* partial fills come by two ways, one service files it at most once; and though
\* every new service takes over the same orders again, with a store it is filed
\* at most once until its key expires (_verkaufsgrund_ablegen, _erster_grund).
GrundAbgelegt ==
    \A o \in Verkauf:
        /\ (\E e \in gesehen: e[1] = o) => o \in abgelegt \cup verpasst
        /\ imDienst[o] <= 1
        /\ ablage => seitFrist[o] <= 1

\* A running process unblocks entries only through a human whose call logged
\* the very record that holds the block (release, "Frei gegeben wird nur, was
\* protokolliert wurde").
AufhebungGesehen ==
    [][gesperrt /\ ~gesperrt' /\ abgeglichen'
        => \E m \in Bediener: blick[m] = "gleich" /\ blick'[m] = "ruht"]_vars

\* What the stream loses the periodic run finds: a filled order is booked or
\* taken over in the end, whatever fails.
VollerFillErfasst ==
    \A o \in Order: (uebernommen /\ stand[o] = "filled")
                        ~> (<<o, Menge[o]>> \in gesehen \/ ~uebernommen)

\* A position that is not what the book says blocks entries in the end, be
\* it more, less or gone.
AbweichungSperrt ==
    \A o \in Order:
        LET soll == IF buch[o] = -1 THEN 0 ELSE buch[o] IN
        (uebernommen /\ Position(o) # soll)
            ~> (gesperrt \/ ~uebernommen \/ Position(o) = soll)
=============================================================================
