--------------------------- MODULE AbgleichProofs ---------------------------
(***************************************************************************)
(* Proofs about the reconciliation with the broker, for every number of    *)
(* orders, every quantity and every number of calls of the release route.  *)
(***************************************************************************)
EXTENDS Abgleich, TLAPS

USE AbgleichAssumption DEF broker, dienst, fills, chronik

----------------------------------------------------------------------------
(* Types.                                                                  *)

\* A fill is an order and a filled quantity of it.
LEMMA FillForm ==
  /\ \A o \in Order: \A n \in 1..Menge[o]: <<o, n>> \in Fill
  /\ \A e \in Fill: e[1] \in Order /\ e[2] \in 1..Menge[e[1]] /\ e = <<e[1], e[2]>>
<1>1. ASSUME NEW o \in Order, NEW n \in 1..Menge[o] PROVE <<o, n>> \in Fill
  <2>1. <<o, n>> \in {o} \X (1..Menge[o])
    OBVIOUS
  <2> QED BY <2>1 DEF Fill
<1>2. ASSUME NEW e \in Fill PROVE e[1] \in Order /\ e[2] \in 1..Menge[e[1]] /\ e = <<e[1], e[2]>>
  <2>1. PICK o \in Order: e \in {o} \X (1..Menge[o])
    BY DEF Fill
  <2> QED BY <2>1
<1> QED BY <1>1, <1>2

\* What the fetches collect.
BildTyp == [offen: SUBSET (Fill \cup (Order \X {0})), zu: SUBSET Fill,
            pos: [Order -> Nat], fehler: SUBSET {"orders", "closed", "positions"}]

\* Only an open order is partly filled, and a filled one has all its shares.
Fuellstand ==
    \A o \in Order: /\ stand[o] = "neu" => gefuellt[o] = 0
                    /\ stand[o] = "offen" => gefuellt[o] < Menge[o]
                    /\ stand[o] = "filled" => gefuellt[o] = Menge[o]

\* The type invariant with the shapes it presupposes.
Typ == /\ TypeOK /\ Fuellstand
       /\ gefuellt \in [Order -> Nat] /\ buch \in [Order -> Int] /\ bild \in BildTyp

\* The part of the types that filing reasons touches.
AblageTyp ==
    /\ gruende \subseteq Verkauf /\ schluessel \subseteq Verkauf
    /\ ablage \in BOOLEAN /\ (~ablage => schluessel = {})
    /\ abgelegt \subseteq Verkauf /\ verpasst \subseteq Verkauf
    /\ imDienst \in [Order -> Nat] /\ seitFrist \in [Order -> Nat]
    /\ stoerungen \in 0..MaxStoerung

\* Filing reasons keeps the types of what it writes.
LEMMA TypGruende ==
  ASSUME Typ, NEW S \in SUBSET Order, GruendeAblegen(S), UNCHANGED ablage
  PROVE  AblageTyp'
<1> DEFINE neu == (S \cap Verkauf) \ (gruende \cup schluessel)
<1>1. PICK F \in SUBSET neu: \E K \in SUBSET F: \E G \in SUBSET F:
        /\ schluessel' = IF ablage THEN schluessel \cup (neu \ F) \cup K ELSE schluessel
        /\ gruende' = gruende \cup (neu \ F) \cup G
        /\ Protokolliert(neu \ F)
        /\ verpasst' = verpasst \cup F
        /\ IF F = {} THEN UNCHANGED stoerungen ELSE Stoerung
  BY DEF GruendeAblegen
<1>2. gruende' \subseteq Verkauf /\ schluessel' \subseteq Verkauf /\ verpasst' \subseteq Verkauf
  BY <1>1 DEF Typ, TypeOK
<1>3. ablage' = ablage
  OBVIOUS
<1>4. ~ablage' => schluessel' = {}
  BY <1>1, <1>3 DEF Typ, TypeOK
<1>5. abgelegt' \subseteq Verkauf
  BY <1>1 DEF Protokolliert, Typ, TypeOK
<1>6. imDienst' \in [Order -> Nat] /\ seitFrist' \in [Order -> Nat]
  BY <1>1 DEF Protokolliert, Typ, TypeOK
<1>7. stoerungen' \in 0..MaxStoerung
  BY <1>1 DEF Stoerung, Typ, TypeOK
<1>8. ablage' \in BOOLEAN
  BY <1>3 DEF Typ, TypeOK
<1> QED BY <1>2, <1>4, <1>5, <1>6, <1>7, <1>8 DEF AblageTyp

\* The fills of a snapshot are fills of orders.
LEMMA BildFillsTyp ==
  ASSUME bild \in BildTyp
  PROVE  BildFills \subseteq Fill /\ {e[1]: e \in BildFills} \subseteq Order
<1>1. BildFills \subseteq Fill
  BY DEF BildFills, BildTyp
<1> QED BY <1>1, FillForm

\* A step of the broker keeps the types.
LEMMA TypBroker ==
  ASSUME Typ, NEW o \in Order, Auftraggeben(o) \/ Fuellen(o) \/ Stornieren(o)
  PROVE  Typ'
<1> USE DEF Typ, TypeOK, Fuellstand
<1>1. CASE Auftraggeben(o)
  BY <1>1 DEF Auftraggeben
<1>2. CASE Fuellen(o)
  BY <1>2 DEF Fuellen
<1>3. CASE Stornieren(o)
  BY <1>3 DEF Stornieren
<1> QED BY <1>1, <1>2, <1>3

\* A fetch keeps the types.
LEMMA TypHolen ==
  ASSUME Typ, HoleOrders \/ HoleAbgeschlossene \/ HolePositionen
  PROVE  Typ'
<1> USE DEF Typ
<1>1. bild \in BildTyp /\ bild' \in BildTyp
  <2>1. \A o \in Order: gefuellt[o] \in 0..Menge[o]
    BY DEF TypeOK
  <2>2. {<<o, gefuellt[o]>>: o \in {p \in Order: stand[p] = "offen"}} \subseteq Fill \cup (Order \X {0})
    BY <2>1, FillForm
  <2>3. \A P \in SUBSET Order: {<<o, gefuellt[o]>>: o \in {p \in P: stand[p] = "filled"}} \subseteq Fill
    BY FillForm DEF Fuellstand
  <2>4. [o \in Order |-> Position(o)] \in [Order -> Nat]
    BY <2>1 DEF Position
  <2>5. ASSUME NEW x \in {"orders", "closed", "positions"}
        PROVE  [bild EXCEPT !.fehler = @ \cup {x}] \in BildTyp
    BY DEF BildTyp
  <2>6. CASE HoleOrders
    <3>1. [bild EXCEPT !.offen = {<<o, gefuellt[o]>>: o \in {p \in Order: stand[p] = "offen"}}] \in BildTyp
      BY <2>2 DEF BildTyp
    <3> QED BY <2>5, <2>6, <3>1 DEF HoleOrders, Weiter
  <2>7. CASE HoleAbgeschlossene
    <3>1. \A P \in SUBSET Order:
            [bild EXCEPT !.zu = {<<o, gefuellt[o]>>: o \in {p \in P: stand[p] = "filled"}}] \in BildTyp
      BY <2>3 DEF BildTyp
    <3> QED BY <2>5, <2>7, <3>1 DEF HoleAbgeschlossene, Weiter
  <2>8. CASE HolePositionen
    <3>1. [bild EXCEPT !.pos = [o \in Order |-> Position(o)]] \in BildTyp
      BY <2>4 DEF BildTyp
    <3> QED BY <2>5, <2>8, <3>1 DEF HolePositionen, Weiter
  <2> QED BY <2>6, <2>7, <2>8
<1>2. \A o \in Order: bild'.pos[o] \in 0..Menge[o]
  <2>1. CASE bild'.pos = bild.pos
    BY <2>1 DEF TypeOK
  <2>2. CASE bild'.pos = [o \in Order |-> Position(o)]
    BY <2>2 DEF TypeOK, Position
  <2>3. bild'.pos = bild.pos \/ bild'.pos = [o \in Order |-> Position(o)]
    BY <1>1 DEF HoleOrders, HoleAbgeschlossene, HolePositionen, Weiter, BildTyp
  <2> QED BY <2>1, <2>2, <2>3
<1>3. /\ lauf' \in {"orders", "closed", "positions", "compare"} /\ stoerungen' \in 0..MaxStoerung
      /\ UNCHANGED <<broker, dienst, fills, ablage, blick>>
  BY DEF HoleOrders, HoleAbgeschlossene, HolePositionen, Weiter, Stoerung, TypeOK
<1> QED BY <1>1, <1>2, <1>3 DEF TypeOK, Fuellstand, BildTyp

\* The end of a run keeps the types.
LEMMA TypVergleich == ASSUME Typ, Uebernehmen \/ Vergleichen PROVE Typ'
<1> USE DEF Typ, Fertig
<1>1. BildFills \subseteq Fill /\ {e[1]: e \in BildFills} \subseteq Order
  BY BildFillsTyp
<1>2. KeinBild \in BildTyp /\ \A o \in Order: KeinBild.pos[o] \in 0..Menge[o]
  BY DEF KeinBild, BildTyp
<1>3. /\ lauf' = "orders" /\ bild' = KeinBild /\ abgeglichen' = TRUE /\ UNCHANGED <<stand, gefuellt>>
  BY DEF Uebernehmen, Vergleichen
<1>4. gesehen' \subseteq Fill
  BY <1>1 DEF Uebernehmen, Vergleichen, Eintragen, TypeOK
<1>5. AblageTyp'
  <2>1. CASE Uebernehmen
    BY <1>1, <2>1, TypGruende DEF Uebernehmen
  <2>2. CASE Vergleichen
    <3>1. {e[1]: e \in BildFills \ gesehen} \subseteq Order
      BY <1>1
    <3> QED BY <2>2, <3>1, TypGruende DEF Vergleichen, Eintragen
  <2> QED BY <2>1, <2>2
<1>6. gesperrt' \in BOOLEAN /\ blick' \in [Bediener -> {"ruht", "keiner", "gleich", "anders"}]
  BY DEF Uebernehmen, Vergleichen, Melden, TypeOK
<1>7. /\ bekannt' \subseteq Order /\ uebernommen' \in BOOLEAN /\ buch' \in [Order -> Int]
      /\ \A o \in Order: buch'[o] \in -1..Menge[o]
  <2>1. CASE Uebernehmen
    <3>1. {e[1]: e \in bild.offen} \subseteq Order
      BY FillForm DEF BildTyp
    <3> QED BY <2>1, <3>1 DEF Uebernehmen, TypeOK
  <2>2. CASE Vergleichen
    BY <2>2 DEF Vergleichen, TypeOK
  <2> QED BY <2>1, <2>2
<1>8. bild' \in BildTyp /\ \A o \in Order: bild'.pos[o] \in 0..Menge[o]
  BY <1>2, <1>3
<1> QED BY <1>3, <1>4, <1>5, <1>6, <1>7, <1>8 DEF TypeOK, Fuellstand, BildTyp, AblageTyp

\* Every step keeps the types.
LEMMA TypSchritt == Typ /\ [Next]_vars => Typ'
<1> SUFFICES ASSUME Typ, [Next]_vars PROVE Typ'
  OBVIOUS
<1>1. CASE UNCHANGED vars
  BY <1>1 DEF vars, Typ, TypeOK, Fuellstand
<1>2. CASE Lauf
  BY <1>2, TypHolen, TypVergleich DEF Lauf
<1>3. CASE Absturz
  <2>1. KeinBild \in BildTyp /\ \A o \in Order: KeinBild.pos[o] \in 0..Menge[o]
    BY DEF KeinBild, BildTyp
  <2>2. bild' \in BildTyp /\ \A o \in Order: bild'.pos[o] \in 0..Menge[o]
    BY <1>3, <2>1 DEF Absturz
  <2>3. /\ bekannt' \subseteq Order /\ buch' \in [Order -> Int]
        /\ \A o \in Order: buch'[o] \in -1..Menge[o]
        /\ gesehen' \subseteq Fill /\ gruende' = {} /\ imDienst' \in [Order -> Nat]
        /\ lauf' \in {"orders", "closed", "positions", "compare"}
        /\ blick' \in [Bediener -> {"ruht", "keiner", "gleich", "anders"}]
    BY <1>3 DEF Absturz
  <2>4. uebernommen' \in BOOLEAN /\ abgeglichen' \in BOOLEAN /\ gesperrt' \in BOOLEAN
    BY <1>3 DEF Absturz
  <2>5. stoerungen' \in 0..MaxStoerung /\ UNCHANGED <<stand, gefuellt, schluessel, abgelegt, verpasst, seitFrist, ablage>>
    BY <1>3 DEF Absturz, Stoerung, Typ, TypeOK
  <2> QED BY <2>2, <2>3, <2>4, <2>5 DEF Typ, TypeOK, Fuellstand, BildTyp
<1>4. ASSUME NEW o \in Order, Auftraggeben(o) \/ Fuellen(o) \/ Stornieren(o) PROVE Typ'
  BY <1>4, TypBroker
<1>5. ASSUME NEW e \in Fill, Liefern(e) PROVE Typ'
  <2>1. {f[1]: f \in {e} \ gesehen} \subseteq Order
    BY FillForm
  <2>2. AblageTyp'
    BY <1>5, <2>1, TypGruende DEF Liefern, Eintragen
  <2> QED BY <1>5, <2>2 DEF Liefern, Eintragen, Typ, TypeOK, Fuellstand, AblageTyp
<1>6. ASSUME NEW m \in Bediener, Ruf(m) \/ Aufheben(m) \/ AufhebenFehler(m) PROVE Typ'
  <2>1. gesperrt' \in BOOLEAN
    BY <1>6 DEF Ruf, Aufheben, AufhebenFehler, Typ, TypeOK
  <2>2. blick' \in [Bediener -> {"ruht", "keiner", "gleich", "anders"}]
    BY <1>6 DEF Ruf, Aufheben, AufhebenFehler, Typ, TypeOK
  <2>3. stoerungen' \in 0..MaxStoerung
    BY <1>6 DEF Ruf, Aufheben, AufhebenFehler, Stoerung, Typ, TypeOK
  <2>4. UNCHANGED <<broker, bekannt, buch, uebernommen, abgeglichen, fills, ablage, lauf, bild>>
    BY <1>6 DEF Ruf, Aufheben, AufhebenFehler
  <2> QED BY <2>1, <2>2, <2>3, <2>4 DEF Typ, TypeOK, Fuellstand
<1>7. ASSUME NEW o \in Order, SchluesselVerfaellt(o) PROVE Typ'
  <2>1. seitFrist' \in [Order -> Nat]
    BY <1>7 DEF SchluesselVerfaellt, Typ, TypeOK
  <2>2. schluessel' \subseteq Verkauf /\ (~ablage => schluessel' = {})
    BY <1>7 DEF SchluesselVerfaellt, Typ, TypeOK
  <2>3. UNCHANGED <<broker, dienst, gesehen, gruende, abgelegt, verpasst, imDienst, ablage,
                    lauf, bild, blick, stoerungen>>
    BY <1>7 DEF SchluesselVerfaellt
  <2> QED BY <2>1, <2>2, <2>3 DEF Typ, TypeOK, Fuellstand
<1> QED BY <1>1, <1>2, <1>3, <1>4, <1>5, <1>6, <1>7 DEF Next

\* The initial states have these types.
LEMMA AbgleichInit == Init => Typ
<1> SUFFICES ASSUME Init PROVE Typ
  OBVIOUS
<1>1. bild \in BildTyp /\ \A o \in Order: bild.pos[o] \in 0..Menge[o]
  BY DEF Init, KeinBild, BildTyp
<1>2. /\ gefuellt \in [Order -> Nat] /\ buch \in [Order -> Int] /\ Fuellstand
      /\ \A o \in Order: gefuellt[o] \in 0..Menge[o] /\ buch[o] \in -1..Menge[o]
  BY DEF Init, Fuellstand
<1>3. uebernommen \in BOOLEAN /\ abgeglichen \in BOOLEAN /\ gesperrt \in BOOLEAN
  BY DEF Init
<1>4. ablage \in BOOLEAN
  BY DEF Init
<1> QED BY <1>1, <1>2, <1>3, <1>4 DEF Init, Typ, TypeOK, BildTyp

\* Type correctness of the reconciliation (core/reconciliation.py): fills stay
\* within their orders, and nothing is stored where there is no store.
THEOREM AbgleichTypKorrekt == Spec => []TypeOK
<1>1. Init => Typ
  BY AbgleichInit
<1>2. Typ => TypeOK
  BY DEF Typ
<1> QED BY <1>1, <1>2, TypSchritt, PTL DEF Spec

----------------------------------------------------------------------------
(* The reasons of sales.                                                   *)

\* What a service filed it remembers, and what was filed since the key of an
\* order expired is under its key; whatever the memory, the store or the known
\* fills hold of a sale, its reason was filed or a warning was written.
Bilanz(o) ==
    /\ imDienst[o] <= 1 /\ (imDienst[o] > 0 => o \in gruende)
    /\ ablage => seitFrist[o] <= 1 /\ (seitFrist[o] > 0 => o \in schluessel)
    /\ o \in gruende \cup schluessel => o \in abgelegt \cup verpasst
    /\ (\E e \in gesehen: e[1] = o) => o \in abgelegt \cup verpasst

Gezaehlt == \A o \in Verkauf: Bilanz(o)

\* Booking the fills N with the reasons of their orders keeps the balance.
LEMMA GezaehltGruende ==
  ASSUME Typ, Gezaehlt, NEW N \in SUBSET Fill, NEW M \in SUBSET Fill, M \subseteq gesehen,
         gesehen' = gesehen \cup N, GruendeAblegen({e[1]: e \in N \ M}), UNCHANGED ablage
  PROVE  Gezaehlt'
<1> DEFINE S == {e[1]: e \in N \ M}
           neu == (S \cap Verkauf) \ (gruende \cup schluessel)
<1>1. PICK F \in SUBSET neu: \E K \in SUBSET F: \E G \in SUBSET F:
        /\ IF ablage THEN G \subseteq K ELSE K = {} /\ G = F
        /\ schluessel' = IF ablage THEN schluessel \cup (neu \ F) \cup K ELSE schluessel
        /\ gruende' = gruende \cup (neu \ F) \cup G
        /\ Protokolliert(neu \ F)
        /\ verpasst' = verpasst \cup F
  BY DEF GruendeAblegen
<1> SUFFICES ASSUME NEW o \in Verkauf PROVE Bilanz(o)'
  BY DEF Gezaehlt
<1>2. Bilanz(o) /\ o \in Order
  BY DEF Gezaehlt
<1>3. o \in neu => o \notin gruende /\ o \notin schluessel
  OBVIOUS
<1>4. o \in S => o \in neu \cup gruende \cup schluessel
  OBVIOUS
<1>5. (\E e \in gesehen': e[1] = o) => (\E e \in gesehen: e[1] = o) \/ o \in S
  OBVIOUS
<1>6. neu \subseteq Order
  OBVIOUS
<1>7. /\ imDienst'[o] = IF o \in neu \ F THEN imDienst[o] + 1 ELSE imDienst[o]
      /\ seitFrist'[o] = IF o \in neu \ F THEN seitFrist[o] + 1 ELSE seitFrist[o]
      /\ abgelegt' = abgelegt \cup (neu \ F)
  BY <1>1, <1>2 DEF Protokolliert
<1>8. imDienst[o] \in Nat /\ seitFrist[o] \in Nat
  BY <1>2 DEF Typ, TypeOK
<1> HIDE DEF S, neu
<1>9. /\ gruende \cup (neu \ F) \subseteq gruende' /\ gruende' \subseteq gruende \cup neu
      /\ ablage => schluessel \cup (neu \ F) \subseteq schluessel'
      /\ schluessel' \subseteq schluessel \cup neu
  BY <1>1
<1>10. abgelegt' \cup verpasst' = abgelegt \cup verpasst \cup neu
  BY <1>1, <1>7
<1>11. (imDienst[o] <= 1 /\ (imDienst[o] > 0 => o \in gruende))'
  BY <1>2, <1>3, <1>7, <1>8, <1>9 DEF Bilanz
<1>12. (ablage => seitFrist[o] <= 1 /\ (seitFrist[o] > 0 => o \in schluessel))'
  BY <1>2, <1>3, <1>7, <1>8, <1>9 DEF Bilanz
<1>13. (o \in gruende \cup schluessel => o \in abgelegt \cup verpasst)'
  BY <1>2, <1>9, <1>10 DEF Bilanz
<1>14. ((\E e \in gesehen: e[1] = o) => o \in abgelegt \cup verpasst)'
  BY <1>2, <1>4, <1>5, <1>10 DEF Bilanz
<1> QED BY <1>11, <1>12, <1>13, <1>14 DEF Bilanz

\* A key that expires takes what was filed under it along.
LEMMA GezaehltFrist ==
  ASSUME Typ, Gezaehlt, NEW p \in Order, SchluesselVerfaellt(p) PROVE Gezaehlt'
<1> SUFFICES ASSUME NEW o \in Verkauf PROVE Bilanz(o)'
  BY DEF Gezaehlt
<1>1. Bilanz(o) /\ o \in Order
  BY DEF Gezaehlt
<1>2. /\ schluessel' = schluessel \ {p}
      /\ seitFrist'[o] = IF o = p THEN 0 ELSE seitFrist[o]
      /\ UNCHANGED <<gesehen, gruende, abgelegt, verpasst, imDienst, ablage>>
  BY <1>1 DEF SchluesselVerfaellt, Typ, TypeOK
<1> QED BY <1>1, <1>2 DEF Bilanz

\* A new service has filed and seen nothing.
LEMMA GezaehltAbsturz == ASSUME Typ, Gezaehlt, Absturz PROVE Gezaehlt'
<1> SUFFICES ASSUME NEW o \in Verkauf PROVE Bilanz(o)'
  BY DEF Gezaehlt
<1>1. Bilanz(o) /\ o \in Order
  BY DEF Gezaehlt
<1>2. /\ imDienst'[o] = 0 /\ gruende' = {} /\ gesehen' = {}
      /\ UNCHANGED <<schluessel, abgelegt, verpasst, seitFrist, ablage>>
  BY <1>1 DEF Absturz
<1> QED BY <1>1, <1>2 DEF Bilanz

\* The reason of a sale the engine did not decide is in the log once one of its
\* fills is known, or a warning says why not; one service files it at most once,
\* and with a store it is filed at most once until its key expires, whichever
\* way its fills are reported, whatever fails and however often a new service
\* starts (_erster_grund, _verkaufsgrund_ablegen).
THEOREM GrundJeVerkauf == Spec => []GrundAbgelegt
<1>1. Init => Typ /\ Gezaehlt
  BY AbgleichInit DEF Init, Gezaehlt, Bilanz
<1>2. Typ /\ Gezaehlt /\ [Next]_vars => Typ' /\ Gezaehlt'
  <2> SUFFICES ASSUME Typ, Gezaehlt, [Next]_vars PROVE Gezaehlt'
    BY TypSchritt
  <2>1. ASSUME UNCHANGED <<fills, ablage>> PROVE Gezaehlt'
    BY <2>1 DEF Gezaehlt, Bilanz
  <2>2. BildFills \in SUBSET Fill /\ {} \in SUBSET Fill /\ gesehen \in SUBSET Fill
    BY BildFillsTyp DEF Typ, TypeOK
  <2>3. CASE Uebernehmen
    <3>1. BildFills \ {} = BildFills
      OBVIOUS
    <3>2. gesehen' = gesehen \cup BildFills /\ GruendeAblegen({e[1]: e \in BildFills}) /\ UNCHANGED ablage
      BY <2>3 DEF Uebernehmen, Fertig
    <3>3. GruendeAblegen({e[1]: e \in BildFills \ {}})
      BY <3>1, <3>2
    <3> QED BY <2>2, <3>2, <3>3, GezaehltGruende
  <2>4. CASE Vergleichen
    <3>1. /\ gesehen' = gesehen \cup BildFills /\ UNCHANGED ablage
          /\ GruendeAblegen({e[1]: e \in BildFills \ gesehen})
      BY <2>4 DEF Vergleichen, Eintragen, Fertig
    <3> QED BY <2>2, <3>1, GezaehltGruende
  <2>5. ASSUME NEW e \in Fill, Liefern(e) PROVE Gezaehlt'
    <3>1. /\ gesehen' = gesehen \cup {e} /\ UNCHANGED ablage
          /\ GruendeAblegen({f[1]: f \in {e} \ gesehen})
      BY <2>5 DEF Liefern, Eintragen
    <3>2. {e} \in SUBSET Fill
      OBVIOUS
    <3> QED BY <2>2, <3>1, <3>2, GezaehltGruende
  <2>6. \/ Uebernehmen \/ Vergleichen \/ Absturz
        \/ \E e \in Fill: Liefern(e)
        \/ \E o \in Order: SchluesselVerfaellt(o)
        \/ UNCHANGED <<fills, ablage>>
    BY DEF Next, Lauf, vars, HoleOrders, HoleAbgeschlossene, HolePositionen, Weiter,
        Auftraggeben, Fuellen, Stornieren, Ruf, Aufheben, AufhebenFehler
  <2> QED BY <2>1, <2>3, <2>4, <2>5, <2>6, GezaehltFrist, GezaehltAbsturz
<1>3. Gezaehlt => GrundAbgelegt
  BY DEF Gezaehlt, Bilanz, GrundAbgelegt
<1> QED BY <1>1, <1>2, <1>3, PTL DEF Spec

----------------------------------------------------------------------------
(* The release of a block.                                                 *)

\* A running process unblocks entries only through a call of the route that
\* logged the very record that holds the block (release).
THEOREM NurGeseheneAufhebung == Spec => AufhebungGesehen
<1> DEFINE Gesehen == gesperrt /\ ~gesperrt' /\ abgeglichen'
                        => \E m \in Bediener: blick[m] = "gleich" /\ blick'[m] = "ruht"
<1>1. [Next]_vars => [Gesehen]_vars
  <2> SUFFICES ASSUME Next PROVE Gesehen
    OBVIOUS
  <2>1. ASSUME NEW m \in Bediener, Aufheben(m) PROVE Gesehen
    BY <2>1 DEF Aufheben
  <2>2. CASE Absturz
    BY <2>2 DEF Absturz
  <2>3. CASE Uebernehmen \/ Vergleichen
    BY <2>3 DEF Uebernehmen, Vergleichen, Melden
  <2>4. CASE UNCHANGED gesperrt
    BY <2>4
  <2>5. \/ \E m \in Bediener: Aufheben(m)
        \/ Absturz \/ Uebernehmen \/ Vergleichen \/ UNCHANGED gesperrt
    BY DEF Next, Lauf, HoleOrders, HoleAbgeschlossene, HolePositionen, Weiter, Liefern,
        Auftraggeben, Fuellen, Stornieren, SchluesselVerfaellt, Ruf, AufhebenFehler
  <2> QED BY <2>1, <2>2, <2>3, <2>4, <2>5
<1> QED BY <1>1, PTL DEF Spec, AufhebungGesehen
=============================================================================
