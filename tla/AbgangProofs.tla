---------------------------- MODULE AbgangProofs ----------------------------
(***************************************************************************)
(* Proofs about the dispatch per client, for every number of clients,      *)
(* every cap, quantity, time limit, number of signals and of failures.     *)
(***************************************************************************)
EXTENDS Abgang, TLAPS, FiniteSetTheorems

USE AbgangAssumption DEF fest, aufgabe, budget

----------------------------------------------------------------------------
(* Types.  The type invariant in groups, with the quantity that is left    *)
(* when the remainder is sent to the market.                               *)

Bestellung == [n: 0..MaxMenge, f: 0..MaxMenge, zu: BOOLEAN]

TypBudget ==
    /\ zaehler \in Nat /\ dauerhaft \in Int
    /\ stoerungen \in 0..MaxStoerung /\ anlass \subseteq Abweichung
TypUmfeld == einst \in Einstellung /\ signale \in 0..MaxSignal /\ gehandelt \in Nat /\ verfallen \in Nat
TypAufgabe == pc \in [Mandant -> Schritte] /\ lok \in [Mandant -> Lokal]
TypAuftrag == auf \in [Mandant -> Auftrag]
TypOrder ==
    /\ order \in [Mandant -> [Bein -> Bestellung]]
    /\ \A c \in Mandant, b \in Bein: order[c][b].f <= order[c][b].n
TypChronik == gebucht \in [Mandant -> BOOLEAN] /\ merk \in [Mandant -> SUBSET Merkmal]
RestOffen == \A c \in Mandant: pc[c] = "ausstieg" => Restmenge(c) > 0

Typ == TypBudget /\ TypUmfeld /\ TypAufgabe /\ TypAuftrag /\ TypOrder /\ TypChronik /\ RestOffen

\* The groups together are the type invariant.
LEMMA TypGruppen == Typ => TypeOK
  BY DEF Typ, TypeOK, TypBudget, TypUmfeld, TypAufgabe, TypAuftrag, TypOrder, TypChronik, Bestellung

----------------------------------------------------------------------------
(* What the parts of the steps do, client by client and leg by leg.        *)

\* A step of a client's dispatch is that client's alone.
LEMMA SetzeWirkt ==
  ASSUME TypAufgabe, NEW c \in Mandant, NEW s \in Schritte, NEW l \in Lokal, Setze(c, s, l)
  PROVE  /\ TypAufgabe'
         /\ pc'[c] = s /\ lok'[c] \in Lokal /\ (s # "ruhe" => lok'[c] = l)
         /\ \A d \in Mandant: d # c => pc'[d] = pc[d] /\ lok'[d] = lok[d]
<1>1. KeinLokal \in Lokal
  BY DEF KeinLokal, Lokal
<1> QED BY <1>1 DEF TypAufgabe, Setze

\* The next step, the fields as they are.
LEMMA GeheWirkt ==
  ASSUME TypAufgabe, NEW c \in Mandant, NEW s \in Schritte, Gehe(c, s)
  PROVE  /\ TypAufgabe'
         /\ pc'[c] = s /\ lok'[c] \in Lokal /\ (s # "ruhe" => lok'[c] = lok[c])
         /\ \A d \in Mandant: d # c => pc'[d] = pc[d] /\ lok'[d] = lok[d]
<1>1. lok[c] \in Lokal
  BY DEF TypAufgabe
<1> QED BY <1>1, SetzeWirkt DEF Gehe

\* An order that arrives is new, open and unfilled.
LEMMA AnkunftWirkt ==
  ASSUME TypOrder, NEW c \in Mandant, NEW b \in Bein, NEW n \in 0..MaxMenge, Angekommen(c, b, n)
  PROVE  /\ TypOrder'
         /\ order'[c][b].n = n /\ order'[c][b].f = 0 /\ order'[c][b].zu = FALSE
         /\ \A e \in Bein: e # b => order'[c][e] = order[c][e]
         /\ \A d \in Mandant: d # c => order'[d] = order[d]
<1> DEFINE neu == [n |-> n, f |-> 0, zu |-> FALSE]
<1>1. neu \in Bestellung /\ neu.f <= neu.n /\ neu.n = n /\ neu.f = 0 /\ neu.zu = FALSE
  BY DEF Bestellung
<1> HIDE DEF neu
<1>2. order' = [order EXCEPT ![c][b] = neu]
  BY DEF Angekommen, neu
<1>3. order' \in [Mandant -> [Bein -> Bestellung]]
  BY <1>1, <1>2 DEF TypOrder
<1>4. order'[c][b] = neu
  BY <1>2 DEF TypOrder
<1>5. \A e \in Bein: e # b => order'[c][e] = order[c][e]
  BY <1>2 DEF TypOrder
<1>6. \A d \in Mandant: d # c => order'[d] = order[d]
  BY <1>2 DEF TypOrder
<1>7. \A d \in Mandant, e \in Bein: order'[d][e].f <= order'[d][e].n
  BY <1>1, <1>4, <1>5, <1>6 DEF TypOrder
<1> QED BY <1>1, <1>3, <1>4, <1>5, <1>6, <1>7 DEF TypOrder

\* An order that ends keeps its quantity and its fill.
LEMMA EndeWirkt ==
  ASSUME TypOrder, NEW c \in Mandant, NEW b \in Bein, order' = [order EXCEPT ![c][b].zu = TRUE]
  PROVE  /\ TypOrder'
         /\ order'[c][b].n = order[c][b].n /\ order'[c][b].f = order[c][b].f /\ order'[c][b].zu
         /\ \A e \in Bein: e # b => order'[c][e] = order[c][e]
         /\ \A d \in Mandant: d # c => order'[d] = order[d]
<1> DEFINE neu == [order[c][b] EXCEPT !.zu = TRUE]
<1>1. order[c][b] \in Bestellung /\ order[c][b].f <= order[c][b].n
  BY DEF TypOrder
<1>2. neu \in Bestellung /\ neu.n = order[c][b].n /\ neu.f = order[c][b].f /\ neu.zu
  BY <1>1 DEF Bestellung
<1>3. /\ order'[c] = [order[c] EXCEPT ![b].zu = TRUE]
      /\ order'[c][b] = neu
      /\ DOMAIN order'[c] = Bein /\ order' = [d \in Mandant |-> order'[d]]
  BY DEF TypOrder
<1>4. order' \in [Mandant -> [Bein -> Bestellung]]
  BY <1>2, <1>3 DEF TypOrder
<1>5. \A e \in Bein: e # b => order'[c][e] = order[c][e]
  BY <1>3 DEF TypOrder
<1>6. \A d \in Mandant: d # c => order'[d] = order[d]
  BY DEF TypOrder
<1>7. \A d \in Mandant, e \in Bein: order'[d][e].f <= order'[d][e].n
  BY <1>1, <1>2, <1>3, <1>5, <1>6 DEF TypOrder
<1> QED BY <1>2, <1>3, <1>4, <1>5, <1>6, <1>7 DEF TypOrder

\* A fill adds a share to an open order.
LEMMA FuellungWirkt ==
  ASSUME TypOrder, NEW c \in Mandant, NEW b \in Bein, Offen(order[c][b]),
         order' = [order EXCEPT ![c][b].f = @ + 1]
  PROVE  /\ TypOrder'
         /\ order'[c][b].n = order[c][b].n /\ order'[c][b].f = order[c][b].f + 1
         /\ order'[c][b].zu = order[c][b].zu
         /\ \A e \in Bein: e # b => order'[c][e] = order[c][e]
         /\ \A d \in Mandant: d # c => order'[d] = order[d]
<1> DEFINE neu == [order[c][b] EXCEPT !.f = @ + 1]
<1>1. order[c][b] \in Bestellung /\ order[c][b].f < order[c][b].n
  BY DEF TypOrder, Offen
<1>2. /\ neu \in Bestellung /\ neu.n = order[c][b].n /\ neu.f = order[c][b].f + 1
      /\ neu.zu = order[c][b].zu /\ neu.f <= neu.n
  BY <1>1 DEF Bestellung
<1>3. /\ order'[c] = [order[c] EXCEPT ![b].f = @ + 1]
      /\ order'[c][b] = neu
      /\ DOMAIN order'[c] = Bein /\ order' = [d \in Mandant |-> order'[d]]
  BY DEF TypOrder
<1>4. order' \in [Mandant -> [Bein -> Bestellung]]
  BY <1>2, <1>3 DEF TypOrder
<1>5. \A e \in Bein: e # b => order'[c][e] = order[c][e]
  BY <1>3 DEF TypOrder
<1>6. \A d \in Mandant: d # c => order'[d] = order[d]
  BY DEF TypOrder
<1>7. \A d \in Mandant, e \in Bein: order'[d][e].f <= order'[d][e].n
  BY <1>2, <1>3, <1>5, <1>6 DEF TypOrder
<1> QED BY <1>2, <1>3, <1>4, <1>5, <1>6, <1>7 DEF TypOrder

\* A remark is the client's alone.
LEMMA MerkeWirkt ==
  ASSUME TypChronik, NEW c \in Mandant, NEW m \in SUBSET Merkmal, Merke(c, m)
  PROVE  /\ merk' \in [Mandant -> SUBSET Merkmal]
         /\ merk'[c] = merk[c] \cup m
         /\ \A d \in Mandant: d # c => merk'[d] = merk[d]
  BY DEF TypChronik, Merke

\* The ways a step of a dispatch treats the budget.
LEMMA BudgetWirkt ==
  ASSUME TypBudget, NEW c \in Mandant
  PROVE  /\ Unverbucht => TypBudget'
         /\ Panne => TypBudget' /\ UNCHANGED <<zaehler, dauerhaft, anlass>>
         /\ Fehlschlag(c) => /\ TypBudget' /\ UNCHANGED <<zaehler, dauerhaft>>
                             /\ anlass \subseteq anlass' /\ anlass' \subseteq anlass \cup {"behalten"}
                             /\ gebucht[c] => anlass' # {}
<1>1. Unverbucht => TypBudget'
  BY DEF TypBudget, Unverbucht
<1>2. Stoerung => stoerungen' \in 0..MaxStoerung
  BY DEF TypBudget, Stoerung
<1>3. Panne => TypBudget' /\ UNCHANGED <<zaehler, dauerhaft, anlass>>
  BY <1>2 DEF TypBudget, Panne
<1>4. ASSUME Fehlschlag(c) PROVE anlass \subseteq anlass' /\ anlass' \subseteq anlass \cup {"behalten"}
                                /\ (gebucht[c] => anlass' # {})
  BY <1>4 DEF Fehlschlag
<1>5. ASSUME Fehlschlag(c) PROVE TypBudget'
  BY <1>2, <1>4, <1>5 DEF TypBudget, Fehlschlag, Abweichung
<1>6. Fehlschlag(c) => UNCHANGED <<zaehler, dauerhaft>>
  BY DEF Fehlschlag
<1> QED BY <1>1, <1>3, <1>4, <1>5, <1>6

\* A booking moves both counters, or the store has lost it.
LEMMA VerbuchtWirkt ==
  ASSUME TypBudget, NEW d \in {-1, 1}, zaehler + d >= 0, NEW neu \in SUBSET Abweichung, Verbuche(d, neu)
  PROVE  /\ TypBudget'
         /\ zaehler' = zaehler + d
         /\ anlass \cup neu \subseteq anlass'
         /\ "ablage" \notin anlass' => dauerhaft' = dauerhaft + d /\ anlass' = anlass \cup neu
<1>1. zaehler' = zaehler + d /\ zaehler' \in Nat
  BY DEF TypBudget, Verbuche
<1>2. dauerhaft' \in Int /\ stoerungen' \in 0..MaxStoerung
  BY DEF TypBudget, Verbuche, Stoerung
<1>3. \/ dauerhaft' = dauerhaft + d /\ anlass' = anlass \cup neu
      \/ anlass' = anlass \cup neu \cup {"ablage"}
  BY DEF Verbuche
<1>4. anlass' \subseteq Abweichung /\ anlass \cup neu \subseteq anlass'
  BY <1>3 DEF TypBudget, Abweichung
<1> QED BY <1>1, <1>2, <1>3, <1>4 DEF TypBudget

----------------------------------------------------------------------------
(* What each step of a dispatch does, and that it keeps the types.         *)

\* The other clients do not notice.
Nachbarn(c) ==
    \A d \in Mandant: d # c =>
        /\ pc'[d] = pc[d] /\ lok'[d] = lok[d] /\ order'[d] = order[d]
        /\ merk'[d] = merk[d] /\ gebucht'[d] = gebucht[d]

\* The order of leg b is new, or has ended; the other legs are as they were.
Andere(c, b) == \A e \in Bein: e # b => order'[c][e] = order[c][e]
Neu(c, b, n) == order'[c][b].n = n /\ order'[c][b].f = 0 /\ ~order'[c][b].zu /\ Andere(c, b)
Beendet(c, b) ==
    /\ order'[c][b].n = order[c][b].n /\ order'[c][b].f = order[c][b].f /\ order'[c][b].zu
    /\ Andere(c, b)
Ebenso(c) == order'[c] = order[c] /\ order' = order

\* The parts of a step of one client together keep the types.
LEMMA SchrittTyp ==
  ASSUME Typ, NEW c \in Mandant, UNCHANGED fest, Nachbarn(c),
         TypBudget', TypAufgabe', TypOrder', TypChronik',
         pc'[c] = "ausstieg" => Restmenge(c)' > 0
  PROVE  Typ'
<1>1. TypUmfeld' /\ TypAuftrag'
  BY DEF Typ, TypUmfeld, TypAuftrag
<1>2. ASSUME NEW d \in Mandant, pc'[d] = "ausstieg" PROVE Restmenge(d)' > 0
  <2>1. CASE d = c
    BY <1>2, <2>1
  <2>2. CASE d # c
    <3>1. pc[d] = "ausstieg" /\ lok'[d] = lok[d]
      BY <1>2, <2>2 DEF Nachbarn
    <3>2. Restmenge(d) > 0
      BY <3>1 DEF Typ, RestOffen
    <3> QED BY <3>1, <3>2 DEF Restmenge, LimitAusstieg
  <2> QED BY <2>1, <2>2
<1> QED BY <1>1, <1>2 DEF Typ, RestOffen

\* A submission that arrived or may have.
LEMMA VielleichtWirkt ==
  ASSUME Typ, NEW c \in Mandant, NEW b \in Bein, NEW n \in 0..MaxMenge
  PROVE  /\ Angekommen(c, b, n) => TypOrder' /\ Neu(c, b, n)
         /\ VielleichtAngekommen(c, b, n) => TypOrder' /\ (Neu(c, b, n) \/ Ebenso(c))
         /\ VielleichtAngekommen(c, b, n) => \A d \in Mandant: d # c => order'[d] = order[d]
         /\ UNCHANGED order => TypOrder'
<1>1. TypOrder
  BY DEF Typ
<1>2. UNCHANGED order => TypOrder' /\ Ebenso(c)
  BY <1>1 DEF TypOrder, Ebenso
<1>3. Angekommen(c, b, n) => /\ TypOrder' /\ Neu(c, b, n)
                             /\ \A d \in Mandant: d # c => order'[d] = order[d]
  BY <1>1, AnkunftWirkt, ZenonT(60) DEF Neu, Andere
<1> QED BY <1>2, <1>3 DEF VielleichtAngekommen

\* The quantity of an order is within its bounds.
LEMMA MengeTyp == \A c \in Mandant: Menge[c] \in 1..MaxMenge /\ Menge[c] \in 0..MaxMenge
  OBVIOUS

\* The checks: refused, or with a slot if one is due, on the way or over.
LEMMA PruefenWirkt ==
  ASSUME Typ, NEW c \in Mandant, Pruefen(c)
  PROVE  /\ Typ' /\ Nachbarn(c) /\ UNCHANGED <<fest, order>> /\ pc[c] = "pruefen"
         /\ \/ /\ pc'[c] = "ruhe" /\ UNCHANGED budget
               /\ gebucht'[c] = gebucht[c] /\ merk'[c] = merk[c]
            \/ /\ Erlaubt(auf[c]) /\ gebucht'[c] = Pflichtig(auf[c])
               /\ \/ pc'[c] = "haupt" /\ lok'[c] = lok[c] /\ merk'[c] = merk[c]
                  \/ pc'[c] = "ruhe" /\ merk'[c] = merk[c] \cup {"fehler"}
               /\ IF Pflichtig(auf[c])
                  THEN /\ zaehler' = zaehler + 1 /\ anlass \subseteq anlass'
                       /\ pc'[c] = "ruhe" => anlass' # {}
                       /\ "ablage" \notin anlass' => dauerhaft' = dauerhaft + 1
                  ELSE UNCHANGED budget
<1> USE DEF Schritte, Merkmal
<1>0. TypBudget /\ TypAufgabe /\ TypOrder /\ TypChronik /\ pc[c] = "pruefen" /\ UNCHANGED <<fest, order>>
  BY DEF Typ, Pruefen
<1>1. TypOrder'
  BY <1>0 DEF TypOrder
<1>2. CASE Gehe(c, "ruhe") /\ Unverbucht /\ UNCHANGED <<gebucht, merk>>
  <2>1. TypAufgabe' /\ pc'[c] = "ruhe" /\ Nachbarn(c)
    BY <1>0, <1>2, GeheWirkt DEF Nachbarn
  <2>2. TypBudget' /\ TypChronik' /\ UNCHANGED budget
    BY <1>0, <1>2 DEF TypBudget, TypChronik, Unverbucht
  <2>3. Typ'
    BY <1>0, <1>1, <2>1, <2>2, SchrittTyp
  <2> QED BY <1>0, <1>2, <2>1, <2>2, <2>3
<1>3. CASE /\ Erlaubt(auf[c])
           /\ gebucht' = [gebucht EXCEPT ![c] = Pflichtig(auf[c])]
           /\ Pflichtig(auf[c])
           /\ \/ Verbuche(1, {}) /\ Gehe(c, "haupt") /\ UNCHANGED merk
              \/ Verbuche(1, {"behalten"}) /\ Gehe(c, "ruhe") /\ Merke(c, {"fehler"})
  <2>1. \A neu \in SUBSET Abweichung: Verbuche(1, neu) =>
            /\ TypBudget' /\ zaehler' = zaehler + 1 /\ anlass \cup neu \subseteq anlass'
            /\ "ablage" \notin anlass' => dauerhaft' = dauerhaft + 1
    BY <1>0, VerbuchtWirkt DEF TypBudget
  <2>2. {} \in SUBSET Abweichung /\ {"behalten"} \in SUBSET Abweichung
    BY DEF Abweichung
  <2>3. /\ TypBudget' /\ zaehler' = zaehler + 1 /\ anlass \subseteq anlass'
        /\ "ablage" \notin anlass' => dauerhaft' = dauerhaft + 1
        /\ Verbuche(1, {}) \/ anlass' # {}
    BY <1>3, <2>1, <2>2
  <2>4. gebucht' \in [Mandant -> BOOLEAN] /\ gebucht'[c] = Pflichtig(auf[c])
        /\ \A d \in Mandant: d # c => gebucht'[d] = gebucht[d]
    BY <1>0, <1>3 DEF TypChronik, Pflichtig
  <2>5. CASE Verbuche(1, {}) /\ Gehe(c, "haupt") /\ UNCHANGED merk
    <3>1. TypAufgabe' /\ pc'[c] = "haupt" /\ lok'[c] = lok[c] /\ Nachbarn(c)
      BY <1>0, <2>4, <2>5, GeheWirkt DEF Nachbarn
    <3>2. TypChronik' /\ merk'[c] = merk[c]
      BY <1>0, <2>4, <2>5 DEF TypChronik
    <3>3. Typ'
      BY <1>0, <1>1, <2>3, <3>1, <3>2, SchrittTyp
    <3> QED BY <1>0, <1>3, <2>3, <2>4, <3>1, <3>2, <3>3
  <2>6. CASE Verbuche(1, {"behalten"}) /\ Gehe(c, "ruhe") /\ Merke(c, {"fehler"})
    <3>1. TypAufgabe' /\ pc'[c] = "ruhe"
          /\ \A d \in Mandant: d # c => pc'[d] = pc[d] /\ lok'[d] = lok[d]
      BY <1>0, <2>6, GeheWirkt
    <3>2. TypChronik' /\ merk'[c] = merk[c] \cup {"fehler"} /\ \A d \in Mandant: d # c => merk'[d] = merk[d]
      BY <1>0, <2>4, <2>6, MerkeWirkt DEF TypChronik
    <3>3. Nachbarn(c)
      BY <1>0, <2>4, <3>1, <3>2 DEF Nachbarn
    <3>4. Typ'
      BY <1>0, <1>1, <2>3, <3>1, <3>2, <3>3, SchrittTyp
    <3>5. anlass' # {}
      BY <2>1, <2>2, <2>6
    <3> QED BY <1>0, <1>3, <2>3, <2>4, <3>1, <3>2, <3>3, <3>4, <3>5
  <2> QED BY <1>3, <2>5, <2>6
<1>4. CASE /\ Erlaubt(auf[c])
           /\ gebucht' = [gebucht EXCEPT ![c] = Pflichtig(auf[c])]
           /\ ~Pflichtig(auf[c])
           /\ Unverbucht
           /\ \/ Gehe(c, "haupt") /\ UNCHANGED merk
              \/ Gehe(c, "ruhe") /\ Merke(c, {"fehler"})
  <2>1. gebucht' \in [Mandant -> BOOLEAN] /\ gebucht'[c] = Pflichtig(auf[c])
        /\ \A d \in Mandant: d # c => gebucht'[d] = gebucht[d]
    BY <1>0, <1>4 DEF TypChronik, Pflichtig
  <2>2. TypBudget' /\ UNCHANGED budget
    BY <1>0, <1>4 DEF TypBudget, Unverbucht
  <2>3. /\ TypAufgabe' /\ \A d \in Mandant: d # c => pc'[d] = pc[d] /\ lok'[d] = lok[d]
        /\ \/ pc'[c] = "haupt" /\ lok'[c] = lok[c] /\ UNCHANGED merk
           \/ pc'[c] = "ruhe" /\ Merke(c, {"fehler"})
    BY <1>0, <1>4, GeheWirkt
  <2>4. /\ TypChronik' /\ \A d \in Mandant: d # c => merk'[d] = merk[d]
        /\ \/ pc'[c] = "haupt" /\ merk'[c] = merk[c]
           \/ pc'[c] = "ruhe" /\ merk'[c] = merk[c] \cup {"fehler"}
    BY <1>0, <2>1, <2>3, MerkeWirkt DEF TypChronik
  <2>5. Nachbarn(c)
    BY <1>0, <2>1, <2>3, <2>4 DEF Nachbarn
  <2>6. Typ'
    BY <1>0, <1>1, <2>2, <2>3, <2>4, <2>5, SchrittTyp
  <2> QED BY <1>0, <1>4, <2>1, <2>2, <2>3, <2>4, <2>5, <2>6
<1> QED BY <1>2, <1>3, <1>4 DEF Pruefen

\* A step of a dispatch that leaves its slot alone, put together.
LEMMA SchrittWirkt ==
  ASSUME Typ, NEW c \in Mandant, NEW s \in Schritte, NEW l \in Lokal, Setze(c, s, l),
         UNCHANGED <<fest, gebucht>>, TypBudget', TypOrder',
         \A d \in Mandant: d # c => order'[d] = order[d],
         NEW m \in SUBSET Merkmal, Merke(c, m) \/ (m = {} /\ UNCHANGED merk),
         s = "ausstieg" => l = lok[c] /\ Restmenge(c) > 0
  PROVE  /\ Typ' /\ Nachbarn(c)
         /\ pc'[c] = s /\ (s # "ruhe" => lok'[c] = l) /\ merk'[c] = merk[c] \cup m
<1>1. /\ TypAufgabe' /\ pc'[c] = s /\ (s # "ruhe" => lok'[c] = l)
      /\ \A d \in Mandant: d # c => pc'[d] = pc[d] /\ lok'[d] = lok[d]
  BY SetzeWirkt DEF Typ
<1>2. /\ TypChronik' /\ merk'[c] = merk[c] \cup m
      /\ \A d \in Mandant: d # c => merk'[d] = merk[d]
  <2>1. TypChronik
    BY DEF Typ
  <2>2. CASE Merke(c, m)
    BY <2>1, <2>2, MerkeWirkt DEF TypChronik
  <2>3. CASE m = {} /\ UNCHANGED merk
    BY <2>1, <2>3 DEF TypChronik
  <2> QED BY <2>2, <2>3
<1>3. Nachbarn(c)
  BY <1>1, <1>2 DEF Nachbarn
<1>4. pc'[c] = "ausstieg" => Restmenge(c)' > 0
  BY <1>1 DEF Restmenge, LimitAusstieg
<1> QED BY <1>1, <1>2, <1>3, <1>4, SchrittTyp

\* The same without a remark.
LEMMA SchrittStill ==
  ASSUME Typ, NEW c \in Mandant, NEW s \in Schritte, NEW l \in Lokal, Setze(c, s, l),
         UNCHANGED <<fest, gebucht, merk>>, TypBudget', TypOrder',
         \A d \in Mandant: d # c => order'[d] = order[d],
         s = "ausstieg" => l = lok[c] /\ Restmenge(c) > 0
  PROVE  /\ Typ' /\ Nachbarn(c)
         /\ pc'[c] = s /\ (s # "ruhe" => lok'[c] = l) /\ merk'[c] = merk[c]
<1>1. {} \in SUBSET Merkmal /\ ({} = {} /\ UNCHANGED merk)
  OBVIOUS
<1> QED BY <1>1, SchrittWirkt

\* The fields of a client are of their type, and so are the legs' fills.
LEMMA FelderTyp ==
  ASSUME Typ, NEW c \in Mandant
  PROVE  /\ lok[c] \in Lokal /\ lok[c].verfolgt \in {"haupt", "markt"}
         /\ lok[c].gesehen \in -1..MaxMenge /\ lok[c].rest \in 0..Fristen /\ lok[c].rueck \in 0..MaxMenge
         /\ pc[c] \in Schritte /\ auf[c] \in Auftrag /\ merk[c] \subseteq Merkmal /\ gebucht[c] \in BOOLEAN
         /\ \A b \in Bein: /\ order[c][b].n \in 0..MaxMenge /\ order[c][b].f \in 0..MaxMenge
                           /\ order[c][b].zu \in BOOLEAN /\ order[c][b].f <= order[c][b].n
<1>1. /\ lok[c] \in Lokal /\ pc[c] \in Schritte /\ auf[c] \in Auftrag
      /\ merk[c] \subseteq Merkmal /\ gebucht[c] \in BOOLEAN
  BY DEF Typ, TypAufgabe, TypAuftrag, TypChronik
<1>2. \A b \in Bein: order[c][b] \in Bestellung /\ order[c][b].f <= order[c][b].n
  BY DEF Typ, TypOrder
<1> QED BY <1>1, <1>2 DEF Lokal, Bestellung

\* The displaced position is sold first, or that fails and the dispatch is over.
LEMMA SofortWirkt ==
  ASSUME Typ, NEW c \in Mandant, SofortVerkaufen(c)
  PROVE  /\ Typ' /\ Nachbarn(c) /\ UNCHANGED <<fest, gebucht, zaehler, dauerhaft, anlass>>
         /\ pc[c] = "sofort"
         /\ \/ /\ Neu(c, "verkauf", Menge[c])
               /\ pc'[c] = "pruefen" /\ lok'[c] = lok[c] /\ merk'[c] = merk[c]
            \/ /\ Neu(c, "verkauf", Menge[c]) \/ Ebenso(c)
               /\ pc'[c] = "ruhe" /\ merk'[c] = merk[c] \cup {"fehler"}
<1> USE DEF Schritte, Merkmal, Bein
<1>0. TypBudget /\ lok[c] \in Lokal /\ pc[c] = "sofort" /\ UNCHANGED <<fest, gebucht>>
  BY FelderTyp DEF Typ, SofortVerkaufen
<1>1. CASE Angekommen(c, "verkauf", Menge[c]) /\ Gehe(c, "pruefen") /\ Unverbucht /\ UNCHANGED merk
  <2>1. TypOrder' /\ Neu(c, "verkauf", Menge[c]) /\ \A d \in Mandant: d # c => order'[d] = order[d]
    BY <1>1, VielleichtWirkt, MengeTyp DEF VielleichtAngekommen
  <2>2. TypBudget' /\ UNCHANGED <<zaehler, dauerhaft, anlass>>
    BY <1>0, <1>1, BudgetWirkt DEF Unverbucht
  <2>3. Typ' /\ Nachbarn(c) /\ pc'[c] = "pruefen" /\ lok'[c] = lok[c]
    BY <1>0, <1>1, <2>1, <2>2, SchrittStill DEF Gehe
  <2> QED BY <1>0, <1>1, <2>1, <2>2, <2>3
<1>2. CASE /\ VielleichtAngekommen(c, "verkauf", Menge[c]) /\ Gehe(c, "ruhe")
           /\ Panne /\ Merke(c, {"fehler"})
  <2>1. TypOrder' /\ (Neu(c, "verkauf", Menge[c]) \/ Ebenso(c))
        /\ \A d \in Mandant: d # c => order'[d] = order[d]
    BY <1>2, VielleichtWirkt, MengeTyp
  <2>2. TypBudget' /\ UNCHANGED <<zaehler, dauerhaft, anlass>>
    BY <1>0, <1>2, BudgetWirkt
  <2>3. Typ' /\ Nachbarn(c) /\ pc'[c] = "ruhe" /\ merk'[c] = merk[c] \cup {"fehler"}
    BY <1>0, <1>2, <2>1, <2>2, SchrittWirkt DEF Gehe
  <2> QED BY <1>0, <2>1, <2>2, <2>3
<1> QED BY <1>1, <1>2 DEF SofortVerkaufen

\* The order is at the broker and is followed from now on.
LEMMA SendenWirkt ==
  ASSUME Typ, NEW c \in Mandant, Senden(c)
  PROVE  /\ Typ' /\ Nachbarn(c) /\ UNCHANGED <<fest, gebucht, budget>> /\ merk'[c] = merk[c]
         /\ pc[c] \in {"haupt", "markt"} /\ Neu(c, pc[c], Menge[c])
         /\ pc'[c] = IF auf[c].tausch /\ einst.kaufZuerst THEN "nachverkauf" ELSE "abfragen"
         /\ lok'[c].verfolgt = pc[c] /\ lok'[c].gesehen = -1 /\ lok'[c].rueck = lok[c].rueck
<1> USE DEF Schritte, Merkmal, Bein
<1> DEFINE l == [lok[c] EXCEPT !.verfolgt = pc[c], !.gesehen = -1]
           s == IF auf[c].tausch /\ einst.kaufZuerst THEN "nachverkauf" ELSE "abfragen"
<1>1. /\ TypBudget /\ lok[c] \in Lokal /\ pc[c] \in {"haupt", "markt"}
      /\ UNCHANGED <<fest, gebucht, budget, merk>> /\ Setze(c, s, l)
      /\ Angekommen(c, pc[c], Menge[c])
  BY FelderTyp DEF Typ, Senden, Unverbucht
<1>2. l \in Lokal /\ l.verfolgt = pc[c] /\ l.gesehen = -1 /\ l.rueck = lok[c].rueck
  <2> DEFINE k == [lok[c] EXCEPT !.verfolgt = pc[c]]
  <2>1. k \in Lokal /\ k.verfolgt = pc[c] /\ k.rueck = lok[c].rueck
    BY <1>1 DEF Lokal
  <2>2. l = [k EXCEPT !.gesehen = -1]
    BY <1>1 DEF Lokal
  <2> HIDE DEF k, l
  <2>3. l \in Lokal /\ l.gesehen = -1 /\ l.verfolgt = k.verfolgt /\ l.rueck = k.rueck
    BY <2>1, <2>2 DEF Lokal
  <2> QED BY <2>1, <2>3
<1>3. s \in Schritte /\ s # "ausstieg" /\ s # "ruhe"
  OBVIOUS
<1> HIDE DEF l, s
<1>4. TypOrder' /\ Neu(c, pc[c], Menge[c]) /\ \A d \in Mandant: d # c => order'[d] = order[d]
  BY <1>1, VielleichtWirkt, MengeTyp DEF VielleichtAngekommen
<1>5. TypBudget'
  BY <1>1 DEF TypBudget
<1>6. Typ' /\ Nachbarn(c) /\ pc'[c] = s /\ lok'[c] = l
  BY <1>1, <1>2, <1>3, <1>4, <1>5, SchrittStill
<1> QED BY <1>1, <1>2, <1>4, <1>6 DEF s

\* An error of the broker: on to the market order, the recovery or the slot.
LEMMA ApiFehlerWirkt ==
  ASSUME Typ, NEW c \in Mandant, SendenApiFehler(c)
  PROVE  /\ Typ' /\ Nachbarn(c) /\ UNCHANGED <<fest, gebucht, zaehler, dauerhaft>>
         /\ pc[c] \in {"haupt", "markt"}
         /\ pc'[c] = IF pc[c] = "haupt" /\ LimitAusstieg(c) THEN "markt" ELSE Danach(c)
         /\ pc'[c] # "ruhe" => lok'[c].rueck = lok[c].rueck
         /\ anlass \subseteq anlass' /\ anlass' \subseteq anlass \cup {"behalten"}
         /\ \/ /\ Ebenso(c) /\ merk'[c] = merk[c] /\ UNCHANGED anlass
               /\ pc'[c] # "ruhe" => lok'[c].gesehen = 0
            \/ /\ Neu(c, pc[c], Menge[c]) \/ Ebenso(c)
               /\ merk'[c] = merk[c] \cup {"unklar"} /\ (pc'[c] # "ruhe" => lok'[c].gesehen = -1)
               /\ gebucht[c] => anlass' # {}
<1> USE DEF Schritte, Merkmal, Bein
<1> DEFINE l(g) == [lok[c] EXCEPT !.gesehen = g]
           s == IF pc[c] = "haupt" /\ LimitAusstieg(c) THEN "markt" ELSE Danach(c)
<1>1. TypBudget /\ lok[c] \in Lokal /\ pc[c] \in {"haupt", "markt"} /\ UNCHANGED <<fest, gebucht>>
  BY FelderTyp DEF Typ, SendenApiFehler
<1>2. \A g \in {-1, 0}: l(g) \in Lokal /\ l(g).gesehen = g /\ l(g).rueck = lok[c].rueck
  BY <1>1 DEF Lokal
<1>3. s \in Schritte /\ s # "ausstieg"
  BY DEF Danach
<1> HIDE DEF l
<1>4. CASE UNCHANGED <<order, merk>> /\ Setze(c, s, l(0)) /\ Panne
  <2> HIDE DEF s
  <2>1. TypOrder' /\ Ebenso(c) /\ \A d \in Mandant: d # c => order'[d] = order[d]
    BY <1>4 DEF Typ, TypOrder, Ebenso
  <2>2. TypBudget' /\ UNCHANGED <<zaehler, dauerhaft, anlass>>
    BY <1>1, <1>4, BudgetWirkt
  <2>3. Typ' /\ Nachbarn(c) /\ pc'[c] = s /\ (s # "ruhe" => lok'[c] = l(0))
    BY <1>1, <1>2, <1>3, <1>4, <2>1, <2>2, SchrittStill
  <2> QED BY <1>1, <1>2, <1>4, <2>1, <2>2, <2>3 DEF s
<1>5. CASE /\ VielleichtAngekommen(c, pc[c], Menge[c]) /\ Setze(c, s, l(-1))
           /\ Fehlschlag(c) /\ Merke(c, {"unklar"})
  <2> HIDE DEF s
  <2>1. TypOrder' /\ (Neu(c, pc[c], Menge[c]) \/ Ebenso(c))
        /\ \A d \in Mandant: d # c => order'[d] = order[d]
    BY <1>1, <1>5, VielleichtWirkt, MengeTyp
  <2>2. /\ TypBudget' /\ UNCHANGED <<zaehler, dauerhaft>> /\ anlass \subseteq anlass'
        /\ anlass' \subseteq anlass \cup {"behalten"} /\ (gebucht[c] => anlass' # {})
    BY <1>1, <1>5, BudgetWirkt
  <2>3. Typ' /\ Nachbarn(c) /\ pc'[c] = s /\ (s # "ruhe" => lok'[c] = l(-1)) /\ merk'[c] = merk[c] \cup {"unklar"}
    BY <1>1, <1>2, <1>3, <1>5, <2>1, <2>2, SchrittWirkt
  <2> QED BY <1>1, <1>2, <2>1, <2>2, <2>3 DEF s
<1> QED BY <1>4, <1>5 DEF SendenApiFehler, l

\* Any other error ends the dispatch.
LEMMA FehlerWirkt ==
  ASSUME Typ, NEW c \in Mandant, SendenFehler(c)
  PROVE  /\ Typ' /\ Nachbarn(c) /\ UNCHANGED <<fest, gebucht, zaehler, dauerhaft>>
         /\ pc[c] \in {"haupt", "markt"} /\ pc'[c] = "ruhe"
         /\ Neu(c, pc[c], Menge[c]) \/ Ebenso(c)
         /\ merk'[c] = merk[c] \cup {"fehler"}
         /\ anlass \subseteq anlass' /\ anlass' \subseteq anlass \cup {"behalten"}
         /\ gebucht[c] => anlass' # {}
<1> USE DEF Schritte, Merkmal, Bein
<1>1. /\ TypBudget /\ lok[c] \in Lokal /\ pc[c] \in {"haupt", "markt"} /\ UNCHANGED <<fest, gebucht>>
      /\ VielleichtAngekommen(c, pc[c], Menge[c]) /\ Gehe(c, "ruhe")
      /\ Fehlschlag(c) /\ Merke(c, {"fehler"})
  BY FelderTyp DEF Typ, SendenFehler
<1>2. TypOrder' /\ (Neu(c, pc[c], Menge[c]) \/ Ebenso(c))
      /\ \A d \in Mandant: d # c => order'[d] = order[d]
  BY <1>1, VielleichtWirkt, MengeTyp
<1>3. /\ TypBudget' /\ UNCHANGED <<zaehler, dauerhaft>> /\ anlass \subseteq anlass'
      /\ anlass' \subseteq anlass \cup {"behalten"} /\ (gebucht[c] => anlass' # {})
  BY <1>1, BudgetWirkt
<1>4. Typ' /\ Nachbarn(c) /\ pc'[c] = "ruhe" /\ merk'[c] = merk[c] \cup {"fehler"}
  BY <1>1, <1>2, <1>3, SchrittWirkt DEF Gehe
<1> QED BY <1>1, <1>2, <1>3, <1>4

\* The sale after the purchase was taken: whatever comes of it, the purchase
\* is polled.
LEMMA NachverkaufWirkt ==
  ASSUME Typ, NEW c \in Mandant, Nachverkauf(c)
  PROVE  /\ Typ' /\ Nachbarn(c) /\ UNCHANGED <<fest, gebucht, zaehler, dauerhaft, anlass>>
         /\ pc[c] = "nachverkauf" /\ pc'[c] = "abfragen" /\ lok'[c] = lok[c] /\ merk'[c] = merk[c]
         /\ Neu(c, "verkauf", Menge[c]) \/ Ebenso(c)
<1> USE DEF Schritte, Bein
<1>1. /\ TypBudget /\ lok[c] \in Lokal /\ pc[c] = "nachverkauf" /\ UNCHANGED <<fest, gebucht, merk>>
      /\ VielleichtAngekommen(c, "verkauf", Menge[c]) /\ Gehe(c, "abfragen")
      /\ Unverbucht \/ Panne
  BY FelderTyp DEF Typ, Nachverkauf, VielleichtAngekommen
<1>2. TypOrder' /\ (Neu(c, "verkauf", Menge[c]) \/ Ebenso(c))
      /\ \A d \in Mandant: d # c => order'[d] = order[d]
  BY <1>1, VielleichtWirkt, MengeTyp
<1>3. TypBudget' /\ UNCHANGED <<zaehler, dauerhaft, anlass>>
  BY <1>1, BudgetWirkt DEF Unverbucht
<1>4. Typ' /\ Nachbarn(c) /\ pc'[c] = "abfragen" /\ lok'[c] = lok[c] /\ merk'[c] = merk[c]
  BY <1>1, <1>2, <1>3, SchrittStill DEF Gehe
<1> QED BY <1>1, <1>2, <1>3, <1>4

\* A poll: filled, ended, still open, unreadable, or the time is up.
LEMMA AbfragenWirkt ==
  ASSUME Typ, NEW c \in Mandant, Abfragen(c)
  PROVE  /\ Typ' /\ Nachbarn(c) /\ UNCHANGED <<fest, gebucht, zaehler, dauerhaft, anlass>>
         /\ pc[c] = "abfragen" /\ Ebenso(c) /\ merk'[c] = merk[c]
         /\ LET o == order[c][lok[c].verfolgt] IN
            \/ pc'[c] = "ruhe" /\ o.f = o.n
            \/ /\ pc'[c] \in {"abfragen", "storno"} /\ lok'[c].verfolgt = lok[c].verfolgt
               /\ lok'[c].gesehen \in {o.f, lok[c].gesehen} /\ lok'[c].rueck = lok[c].rueck
<1> USE DEF Schritte, Bein
<1> DEFINE o == order[c][lok[c].verfolgt]
           l == [lok[c] EXCEPT !.gesehen = o.f, !.rest = @ - 1]
           k == [lok[c] EXCEPT !.rest = @ - 1]
<1>1. /\ TypBudget /\ pc[c] = "abfragen" /\ UNCHANGED <<fest, order, gebucht, merk>>
  BY DEF Typ, Abfragen
<1>2. lok[c] \in Lokal /\ lok[c].verfolgt \in {"haupt", "markt"} /\ o.f \in 0..MaxMenge
  BY FelderTyp
<1>3. TypOrder' /\ Ebenso(c) /\ \A d \in Mandant: d # c => order'[d] = order[d]
  BY <1>1 DEF Typ, TypOrder, Ebenso
<1> HIDE DEF o
<1>4. CASE lok[c].rest = 0 /\ Gehe(c, "storno") /\ Unverbucht
  <2>1. TypBudget' /\ UNCHANGED <<zaehler, dauerhaft, anlass>>
    BY <1>1, <1>4, BudgetWirkt DEF Unverbucht
  <2>2. Typ' /\ Nachbarn(c) /\ pc'[c] = "storno" /\ lok'[c] = lok[c] /\ merk'[c] = merk[c]
    BY <1>1, <1>2, <1>3, <1>4, <2>1, SchrittStill DEF Gehe
  <2> QED BY <1>1, <1>3, <2>1, <2>2 DEF o
<1>5. CASE /\ lok[c].rest > 0
           /\ Setze(c, IF o.f = o.n THEN "ruhe" ELSE IF o.zu THEN "storno" ELSE "abfragen", l)
           /\ Unverbucht
  <2>1. TypBudget' /\ UNCHANGED <<zaehler, dauerhaft, anlass>>
    BY <1>1, <1>5, BudgetWirkt DEF Unverbucht
  <2>2. l \in Lokal /\ l.gesehen = o.f /\ l.verfolgt = lok[c].verfolgt /\ l.rueck = lok[c].rueck
    <3> DEFINE m == [lok[c] EXCEPT !.gesehen = o.f]
    <3>1. /\ m \in Lokal /\ m.gesehen = o.f /\ m.verfolgt = lok[c].verfolgt /\ m.rueck = lok[c].rueck
          /\ m.rest = lok[c].rest /\ lok[c].rest \in 0..Fristen
      BY <1>2 DEF Lokal
    <3>2. l = [m EXCEPT !.rest = @ - 1]
      BY <1>2 DEF Lokal
    <3> HIDE DEF m, l
    <3>3. l \in Lokal /\ l.gesehen = m.gesehen /\ l.verfolgt = m.verfolgt /\ l.rueck = m.rueck
      BY <1>5, <3>1, <3>2 DEF Lokal
    <3> QED BY <3>1, <3>3
  <2> HIDE DEF l
  <2>3. PICK s \in {"ruhe", "storno", "abfragen"}: Setze(c, s, l) /\ (s = "ruhe" => o.f = o.n)
    BY <1>5
  <2>4. /\ Typ' /\ Nachbarn(c) /\ pc'[c] = s /\ (s # "ruhe" => lok'[c] = l) /\ merk'[c] = merk[c]
    BY <1>1, <1>3, <2>1, <2>2, <2>3, SchrittStill
  <2> QED BY <1>1, <1>3, <2>1, <2>2, <2>3, <2>4 DEF o
<1>6. CASE lok[c].rest > 0 /\ Setze(c, "abfragen", k) /\ Panne
  <2>1. TypBudget' /\ UNCHANGED <<zaehler, dauerhaft, anlass>>
    BY <1>1, <1>6, BudgetWirkt
  <2>2. k \in Lokal /\ k.gesehen = lok[c].gesehen /\ k.verfolgt = lok[c].verfolgt /\ k.rueck = lok[c].rueck
    BY <1>2, <1>6 DEF Lokal
  <2> HIDE DEF k
  <2>3. Typ' /\ Nachbarn(c) /\ pc'[c] = "abfragen" /\ lok'[c] = k /\ merk'[c] = merk[c]
    BY <1>1, <1>3, <1>6, <2>1, <2>2, SchrittStill
  <2> QED BY <1>1, <1>3, <2>1, <2>2, <2>3 DEF o
<1> QED BY <1>4, <1>5, <1>6 DEF Abfragen, o

\* The cancellation: the order has ended, or that is open.
LEMMA StornoWirkt ==
  ASSUME Typ, NEW c \in Mandant, Storno(c)
  PROVE  LET o == order[c][lok[c].verfolgt] IN
         /\ Typ' /\ Nachbarn(c) /\ UNCHANGED <<fest, gebucht, zaehler, dauerhaft>>
         /\ pc[c] = "storno" /\ (pc'[c] # "ruhe" => lok'[c] = lok[c])
         /\ pc'[c] = IF Restmenge(c) > 0 THEN "ausstieg" ELSE Danach(c)
         /\ anlass \subseteq anlass' /\ anlass' \subseteq anlass \cup {"behalten"}
         /\ lok[c].gesehen = -1 => "behalten" \in anlass'
         /\ merk[c] \subseteq merk'[c] /\ merk'[c] \subseteq merk[c] \cup {"blind", "spaet", "storno"}
         /\ lok[c].gesehen = -1 => "blind" \in merk'[c]
         /\ lok[c].gesehen # -1 /\ o.f # lok[c].gesehen => "spaet" \in merk'[c]
         /\ \/ Beendet(c, lok[c].verfolgt)
            \/ Ebenso(c) /\ "storno" \in merk'[c]
<1> USE DEF Schritte, Bein, Merkmal
<1> DEFINE o == order[c][lok[c].verfolgt]
           was == (IF lok[c].gesehen = -1 THEN {"blind"} ELSE IF o.f # lok[c].gesehen THEN {"spaet"} ELSE {})
           s == IF Restmenge(c) > 0 THEN "ausstieg" ELSE Danach(c)
<1>1. /\ TypBudget /\ pc[c] = "storno" /\ UNCHANGED <<fest, zaehler, dauerhaft, gebucht>> /\ Gehe(c, s)
      /\ anlass' = IF lok[c].gesehen = -1 THEN anlass \cup {"behalten"} ELSE anlass
  BY DEF Typ, Storno
<1>2. lok[c] \in Lokal /\ lok[c].verfolgt \in Bein
  BY FelderTyp
<1>3. s \in Schritte /\ (s = "ausstieg" => Restmenge(c) > 0)
  BY DEF Danach
<1>4. /\ was \in SUBSET {"blind", "spaet"}
      /\ (lok[c].gesehen = -1 => "blind" \in was)
      /\ (lok[c].gesehen # -1 /\ o.f # lok[c].gesehen => "spaet" \in was)
  OBVIOUS
<1>5. /\ anlass \subseteq anlass' /\ anlass' \subseteq anlass \cup {"behalten"}
      /\ (lok[c].gesehen = -1 => "behalten" \in anlass') /\ anlass' \subseteq Abweichung
  BY <1>1 DEF TypBudget, Abweichung
<1> HIDE DEF was, s
<1>6. CASE /\ order' = [order EXCEPT ![c][lok[c].verfolgt].zu = TRUE]
           /\ Merke(c, was) /\ UNCHANGED stoerungen
  <2>1. TypOrder' /\ Beendet(c, lok[c].verfolgt) /\ \A d \in Mandant: d # c => order'[d] = order[d]
    <3> TypOrder
      BY DEF Typ
    <3>1. PICK b \in Bein: b = lok[c].verfolgt
      BY <1>2
    <3>2. order' = [order EXCEPT ![c][b].zu = TRUE]
      BY <1>6, <3>1
    <3>3. TypOrder' /\ Beendet(c, b) /\ \A d \in Mandant: d # c => order'[d] = order[d]
      BY <3>2, EndeWirkt, ZenonT(60) DEF Beendet, Andere
    <3> QED BY <3>1, <3>3
  <2>2. TypBudget'
    BY <1>1, <1>5, <1>6 DEF TypBudget
  <2>3. Typ' /\ Nachbarn(c) /\ pc'[c] = s /\ (s # "ruhe" => lok'[c] = lok[c]) /\ merk'[c] = merk[c] \cup was
    BY <1>1, <1>2, <1>3, <1>4, <1>6, <2>1, <2>2, SchrittWirkt, SMTT(90) DEF Gehe
  <2> QED BY <1>1, <1>4, <1>5, <2>1, <2>3 DEF s
<1>7. CASE Offen(o) /\ Stoerung /\ Merke(c, was \cup {"storno"}) /\ UNCHANGED order
  <2>1. TypOrder' /\ Ebenso(c) /\ \A d \in Mandant: d # c => order'[d] = order[d]
    BY <1>7 DEF Typ, TypOrder, Ebenso
  <2>2. TypBudget'
    BY <1>1, <1>5, <1>7 DEF TypBudget, Stoerung
  <2>3. /\ Typ' /\ Nachbarn(c) /\ pc'[c] = s /\ (s # "ruhe" => lok'[c] = lok[c])
        /\ merk'[c] = merk[c] \cup (was \cup {"storno"})
    <3>1. (was \cup {"storno"}) \in SUBSET Merkmal
      BY <1>4
    <3> QED BY <1>1, <1>2, <1>3, <1>7, <2>1, <2>2, <3>1, SchrittWirkt DEF Gehe
  <2> QED BY <1>1, <1>4, <1>5, <2>1, <2>3 DEF s
<1> QED BY <1>6, <1>7 DEF Storno, was

\* The market order for the remainder.
LEMMA AusstiegWirkt ==
  ASSUME Typ, NEW c \in Mandant, Ausstieg(c)
  PROVE  /\ Typ' /\ Nachbarn(c) /\ UNCHANGED <<fest, gebucht, zaehler, dauerhaft, anlass>>
         /\ pc[c] = "ausstieg" /\ pc'[c] = "ruhe"
         /\ Restmenge(c) = Menge[c] - lok[c].gesehen /\ lok[c].gesehen # -1 /\ LimitAusstieg(c)
         /\ \/ /\ order[c]["markt"].n = 0 /\ Neu(c, "markt", Restmenge(c)) /\ merk'[c] = merk[c]
            \/ /\ order[c]["markt"].n = 0 /\ merk'[c] = merk[c] \cup {"fehlt"}
               /\ Neu(c, "markt", Restmenge(c)) \/ Ebenso(c)
            \/ order[c]["markt"].n # 0 /\ Ebenso(c) /\ merk'[c] = merk[c] \cup {"fehlt"}
<1> USE DEF Schritte, Bein, Merkmal
<1>1. TypBudget /\ pc[c] = "ausstieg" /\ UNCHANGED <<fest, gebucht>> /\ Gehe(c, "ruhe")
  BY DEF Typ, Ausstieg
<1>2. lok[c] \in Lokal /\ lok[c].gesehen \in -1..MaxMenge
  BY FelderTyp
<1>3. Restmenge(c) > 0
  BY <1>1 DEF Typ, RestOffen
<1>4. Restmenge(c) = Menge[c] - lok[c].gesehen /\ lok[c].gesehen # -1 /\ LimitAusstieg(c)
  BY <1>3 DEF Restmenge
<1>5. Restmenge(c) \in 0..MaxMenge
  BY <1>2, <1>3, <1>4, MengeTyp
<1> DEFINE r == Restmenge(c)
<1> HIDE DEF r
<1>6. CASE /\ order[c]["markt"].n = 0 /\ Angekommen(c, "markt", r) /\ Unverbucht /\ UNCHANGED merk
  <2>1. TypOrder' /\ Neu(c, "markt", r) /\ \A d \in Mandant: d # c => order'[d] = order[d]
    BY <1>5, <1>6, VielleichtWirkt DEF r, VielleichtAngekommen
  <2>2. TypBudget' /\ UNCHANGED <<zaehler, dauerhaft, anlass>>
    BY <1>1, <1>6, BudgetWirkt DEF Unverbucht
  <2>3. Typ' /\ Nachbarn(c) /\ pc'[c] = "ruhe" /\ merk'[c] = merk[c]
    BY <1>1, <1>2, <1>6, <2>1, <2>2, SchrittStill DEF Gehe
  <2> QED BY <1>1, <1>4, <1>6, <2>1, <2>2, <2>3 DEF r
<1>7. CASE /\ order[c]["markt"].n = 0 /\ VielleichtAngekommen(c, "markt", r)
           /\ Panne /\ Merke(c, {"fehlt"})
  <2>1. TypOrder' /\ (Neu(c, "markt", r) \/ Ebenso(c)) /\ \A d \in Mandant: d # c => order'[d] = order[d]
    BY <1>5, <1>7, VielleichtWirkt DEF r
  <2>2. TypBudget' /\ UNCHANGED <<zaehler, dauerhaft, anlass>>
    BY <1>1, <1>7, BudgetWirkt
  <2>3. /\ Typ' /\ Nachbarn(c) /\ pc'[c] = "ruhe"
        /\ merk'[c] = merk[c] \cup {"fehlt"}
    BY <1>1, <1>2, <1>7, <2>1, <2>2, SchrittWirkt DEF Gehe
  <2> QED BY <1>1, <1>4, <1>7, <2>1, <2>2, <2>3 DEF r
<1>8. CASE order[c]["markt"].n # 0 /\ Unverbucht /\ Merke(c, {"fehlt"}) /\ UNCHANGED order
  <2>1. TypOrder' /\ Ebenso(c) /\ \A d \in Mandant: d # c => order'[d] = order[d]
    BY <1>8 DEF Typ, TypOrder, Ebenso
  <2>2. TypBudget' /\ UNCHANGED <<zaehler, dauerhaft, anlass>>
    BY <1>1, <1>8, BudgetWirkt DEF Unverbucht
  <2>3. /\ Typ' /\ Nachbarn(c) /\ pc'[c] = "ruhe"
        /\ merk'[c] = merk[c] \cup {"fehlt"}
    BY <1>1, <1>2, <1>8, <2>1, <2>2, SchrittWirkt DEF Gehe
  <2> QED BY <1>1, <1>4, <1>8, <2>1, <2>2, <2>3
<1> QED BY <1>6, <1>7, <1>8 DEF Ausstieg, r

\* The recovery cancels the sale; unreadable, the whole quantity is assumed.
LEMMA RueckStornoWirkt ==
  ASSUME Typ, NEW c \in Mandant, RueckStorno(c)
  PROVE  /\ Typ' /\ Nachbarn(c) /\ UNCHANGED <<fest, gebucht, zaehler, dauerhaft, anlass>>
         /\ pc[c] = "r_storno" /\ lok'[c].gesehen = lok[c].gesehen
         /\ \/ pc'[c] = "r_lesen" /\ Beendet(c, "verkauf") /\ merk'[c] = merk[c]
            \/ pc'[c] = "r_lesen" /\ Ebenso(c) /\ merk'[c] = merk[c] \cup {"storno"}
            \/ pc'[c] = "r_kauf" /\ Ebenso(c) /\ merk'[c] = merk[c] \cup {"lesefehler"}
<1> USE DEF Schritte, Bein, Merkmal
<1> DEFINE l == [lok[c] EXCEPT !.rueck = Menge[c]]
<1>1. TypBudget /\ TypOrder /\ pc[c] = "r_storno" /\ UNCHANGED <<fest, gebucht>>
  BY DEF Typ, RueckStorno
<1>2. lok[c] \in Lokal /\ l \in Lokal /\ l.gesehen = lok[c].gesehen
  BY FelderTyp, MengeTyp DEF Lokal
<1>3. UNCHANGED order => /\ TypOrder' /\ Ebenso(c)
                         /\ \A d \in Mandant: d # c => order'[d] = order[d]
  BY <1>1 DEF TypOrder, Ebenso
<1> HIDE DEF l
<1>4. CASE /\ order' = [order EXCEPT ![c]["verkauf"].zu = TRUE]
           /\ Gehe(c, "r_lesen") /\ Unverbucht /\ UNCHANGED merk
  <2>1. TypOrder' /\ Beendet(c, "verkauf") /\ \A d \in Mandant: d # c => order'[d] = order[d]
    BY <1>1, <1>4, EndeWirkt DEF Beendet, Andere
  <2>2. TypBudget' /\ UNCHANGED <<zaehler, dauerhaft, anlass>>
    BY <1>1, <1>4, BudgetWirkt DEF Unverbucht
  <2>3. Typ' /\ Nachbarn(c) /\ pc'[c] = "r_lesen" /\ lok'[c] = lok[c] /\ merk'[c] = merk[c]
    BY <1>1, <1>2, <1>4, <2>1, <2>2, SchrittStill DEF Gehe
  <2> QED BY <1>1, <2>1, <2>2, <2>3
<1>5. CASE Gehe(c, "r_lesen") /\ Panne /\ Merke(c, {"storno"}) /\ UNCHANGED order
  <2>1. TypBudget' /\ UNCHANGED <<zaehler, dauerhaft, anlass>>
    BY <1>1, <1>5, BudgetWirkt
  <2>2. /\ Typ' /\ Nachbarn(c) /\ pc'[c] = "r_lesen" /\ lok'[c] = lok[c]
        /\ merk'[c] = merk[c] \cup {"storno"}
    BY <1>1, <1>2, <1>3, <1>5, <2>1, SchrittWirkt DEF Gehe
  <2> QED BY <1>1, <1>3, <1>5, <2>1, <2>2
<1>6. CASE Setze(c, "r_kauf", l) /\ Panne /\ Merke(c, {"lesefehler"}) /\ UNCHANGED order
  <2>1. TypBudget' /\ UNCHANGED <<zaehler, dauerhaft, anlass>>
    BY <1>1, <1>6, BudgetWirkt
  <2>2. /\ Typ' /\ Nachbarn(c) /\ pc'[c] = "r_kauf" /\ lok'[c] = l
        /\ merk'[c] = merk[c] \cup {"lesefehler"}
    BY <1>1, <1>2, <1>3, <1>6, <2>1, SchrittWirkt
  <2> QED BY <1>1, <1>2, <1>3, <1>6, <2>1, <2>2
<1> QED BY <1>4, <1>5, <1>6 DEF RueckStorno, l

\* The recovery reads what was sold; unreadable, all of it.
LEMMA RueckLesenWirkt ==
  ASSUME Typ, NEW c \in Mandant, RueckLesen(c)
  PROVE  /\ Typ' /\ Nachbarn(c) /\ UNCHANGED <<fest, gebucht, zaehler, dauerhaft, anlass>>
         /\ pc[c] = "r_lesen" /\ pc'[c] = "r_kauf" /\ lok'[c].gesehen = lok[c].gesehen /\ Ebenso(c)
         /\ \/ lok'[c].rueck = order[c]["verkauf"].f /\ merk'[c] = merk[c]
            \/ merk'[c] = merk[c] \cup {"lesefehler"}
<1> USE DEF Schritte, Bein, Merkmal
<1> DEFINE l(n) == [lok[c] EXCEPT !.rueck = n]
<1>1. TypBudget /\ TypOrder /\ pc[c] = "r_lesen" /\ UNCHANGED <<fest, order, gebucht>>
  BY DEF Typ, RueckLesen
<1>2. \A n \in 0..MaxMenge: l(n) \in Lokal /\ l(n).gesehen = lok[c].gesehen /\ l(n).rueck = n
  BY FelderTyp DEF Lokal
<1>3. TypOrder' /\ Ebenso(c) /\ \A d \in Mandant: d # c => order'[d] = order[d]
  BY <1>1 DEF TypOrder, Ebenso
<1>4. order[c]["verkauf"].f \in 0..MaxMenge /\ Menge[c] \in 0..MaxMenge
  BY FelderTyp, MengeTyp
<1> HIDE DEF l
<1>5. CASE Setze(c, "r_kauf", l(order[c]["verkauf"].f)) /\ Unverbucht /\ UNCHANGED merk
  <2>1. TypBudget' /\ UNCHANGED <<zaehler, dauerhaft, anlass>>
    BY <1>1, <1>5, BudgetWirkt DEF Unverbucht
  <2>2. Typ' /\ Nachbarn(c) /\ pc'[c] = "r_kauf" /\ lok'[c] = l(order[c]["verkauf"].f)
    BY <1>1, <1>2, <1>3, <1>4, <1>5, <2>1, SchrittStill
  <2> QED BY <1>1, <1>2, <1>3, <1>4, <1>5, <2>1, <2>2
<1>6. CASE Setze(c, "r_kauf", l(Menge[c])) /\ Panne /\ Merke(c, {"lesefehler"})
  <2>1. TypBudget' /\ UNCHANGED <<zaehler, dauerhaft, anlass>>
    BY <1>1, <1>6, BudgetWirkt
  <2>2. /\ Typ' /\ Nachbarn(c) /\ pc'[c] = "r_kauf" /\ lok'[c] = l(Menge[c])
        /\ merk'[c] = merk[c] \cup {"lesefehler"}
    BY <1>1, <1>2, <1>3, <1>4, <1>6, <2>1, SchrittWirkt
  <2> QED BY <1>1, <1>2, <1>3, <1>4, <2>1, <2>2
<1> QED BY <1>5, <1>6 DEF RueckLesen, l

\* The recovery buys back what it has read.
LEMMA RueckKaufWirkt ==
  ASSUME Typ, NEW c \in Mandant, RueckKauf(c)
  PROVE  /\ Typ' /\ Nachbarn(c) /\ UNCHANGED <<fest, gebucht>>
         /\ pc[c] = "r_kauf" /\ pc'[c] = "erstatten" /\ lok'[c] = lok[c]
         /\ anlass \subseteq anlass' /\ anlass' \subseteq anlass \cup {"ablage"}
         /\ \/ UNCHANGED <<zaehler, dauerhaft>>
            \/ zaehler' = zaehler + 1 /\ ("ablage" \notin anlass' => dauerhaft' = dauerhaft + 1)
         /\ \/ lok[c].rueck = 0 /\ Ebenso(c) /\ merk'[c] = merk[c]
            \/ lok[c].rueck > 0 /\ Neu(c, "rueck", lok[c].rueck) /\ merk'[c] = merk[c]
            \/ /\ Neu(c, "rueck", lok[c].rueck) \/ Ebenso(c)
               /\ merk'[c] = merk[c] \cup {"fehlt"}
<1> USE DEF Schritte, Bein, Merkmal
<1>1. TypBudget /\ TypOrder /\ pc[c] = "r_kauf" /\ UNCHANGED <<fest, gebucht>> /\ Gehe(c, "erstatten")
  BY DEF Typ, RueckKauf
<1>2. lok[c] \in Lokal /\ lok[c].rueck \in 0..MaxMenge
  BY FelderTyp
<1>3. CASE lok[c].rueck = 0 /\ Unverbucht /\ UNCHANGED <<order, merk>>
  <2>1. TypOrder' /\ Ebenso(c) /\ \A d \in Mandant: d # c => order'[d] = order[d]
    BY <1>1, <1>3 DEF TypOrder, Ebenso
  <2>2. TypBudget' /\ UNCHANGED <<zaehler, dauerhaft, anlass>>
    BY <1>1, <1>3, BudgetWirkt DEF Unverbucht
  <2>3. Typ' /\ Nachbarn(c) /\ pc'[c] = "erstatten" /\ lok'[c] = lok[c] /\ merk'[c] = merk[c]
    BY <1>1, <1>2, <1>3, <2>1, <2>2, SchrittStill DEF Gehe
  <2> QED BY <1>1, <1>3, <2>1, <2>2, <2>3
<1>4. CASE /\ lok[c].rueck > 0 /\ Angekommen(c, "rueck", lok[c].rueck)
           /\ Verbuche(1, {}) /\ UNCHANGED merk
  <2>1. TypOrder' /\ Neu(c, "rueck", lok[c].rueck) /\ \A d \in Mandant: d # c => order'[d] = order[d]
    BY <1>2, <1>4, VielleichtWirkt DEF VielleichtAngekommen
  <2>2. /\ TypBudget' /\ zaehler' = zaehler + 1
        /\ "ablage" \notin anlass' => dauerhaft' = dauerhaft + 1
    BY <1>1, <1>4, VerbuchtWirkt DEF TypBudget
  <2>3. anlass \subseteq anlass' /\ anlass' \subseteq anlass \cup {"ablage"}
    BY <1>4 DEF Verbuche
  <2>4. Typ' /\ Nachbarn(c) /\ pc'[c] = "erstatten" /\ lok'[c] = lok[c] /\ merk'[c] = merk[c]
    BY <1>1, <1>2, <1>4, <2>1, <2>2, SchrittStill DEF Gehe
  <2> QED BY <1>1, <1>4, <2>1, <2>2, <2>3, <2>4
<1>5. CASE /\ lok[c].rueck > 0 /\ VielleichtAngekommen(c, "rueck", lok[c].rueck)
           /\ Panne /\ Merke(c, {"fehlt"})
  <2>1. TypOrder' /\ (Neu(c, "rueck", lok[c].rueck) \/ Ebenso(c))
        /\ \A d \in Mandant: d # c => order'[d] = order[d]
    BY <1>2, <1>5, VielleichtWirkt
  <2>2. TypBudget' /\ UNCHANGED <<zaehler, dauerhaft, anlass>>
    BY <1>1, <1>5, BudgetWirkt
  <2>3. /\ Typ' /\ Nachbarn(c) /\ pc'[c] = "erstatten" /\ lok'[c] = lok[c]
        /\ merk'[c] = merk[c] \cup {"fehlt"}
    BY <1>1, <1>2, <1>5, <2>1, <2>2, SchrittWirkt DEF Gehe
  <2> QED BY <1>1, <2>1, <2>2, <2>3
<1> QED BY <1>3, <1>4, <1>5 DEF RueckKauf

\* The slot is given back, or kept; the dispatch is over.
LEMMA ErstattenWirkt ==
  ASSUME Typ, NEW c \in Mandant, Erstatten(c)
  PROVE  /\ Typ' /\ Nachbarn(c) /\ UNCHANGED <<fest, gebucht>>
         /\ pc[c] = "erstatten" /\ pc'[c] = "ruhe" /\ Ebenso(c) /\ merk'[c] = merk[c]
         /\ \/ /\ UNCHANGED <<zaehler, dauerhaft, anlass>>
               /\ auf[c].quelle = "human_approved" \/ lok[c].gesehen # 0 \/ zaehler = 0
            \/ /\ auf[c].quelle # "human_approved" /\ lok[c].gesehen = 0 /\ zaehler > 0
               /\ zaehler' = zaehler - 1 /\ anlass \cup ErstattungFalsch(c) \subseteq anlass'
               /\ "ablage" \notin anlass' => dauerhaft' = dauerhaft - 1
<1> USE DEF Schritte, Bein, Merkmal
<1>1. /\ TypBudget /\ TypOrder /\ pc[c] = "erstatten" /\ UNCHANGED <<fest, order, gebucht, merk>>
      /\ Gehe(c, "ruhe")
  BY DEF Typ, Erstatten
<1>2. TypOrder' /\ Ebenso(c) /\ \A d \in Mandant: d # c => order'[d] = order[d]
  BY <1>1 DEF TypOrder, Ebenso
<1>3. lok[c] \in Lokal
  BY FelderTyp
<1>4. TypBudget' => Typ' /\ Nachbarn(c) /\ pc'[c] = "ruhe" /\ merk'[c] = merk[c]
  BY <1>1, <1>2, <1>3, SchrittStill DEF Gehe
<1>5. CASE auf[c].quelle # "human_approved" /\ lok[c].gesehen = 0 /\ zaehler > 0
  <2>1. Verbuche(-1, ErstattungFalsch(c)) /\ ErstattungFalsch(c) \in SUBSET Abweichung
    BY <1>5 DEF Erstatten, ErstattungFalsch, Abweichung
  <2>2. -1 \in {-1, 1} /\ zaehler + (-1) >= 0
    BY <1>1, <1>5 DEF TypBudget
  <2>3. /\ TypBudget' /\ zaehler' = zaehler + (-1) /\ anlass \cup ErstattungFalsch(c) \subseteq anlass'
        /\ "ablage" \notin anlass' => dauerhaft' = dauerhaft + (-1)
    BY <1>1, <2>1, <2>2, VerbuchtWirkt
  <2>4. /\ zaehler' = zaehler - 1 /\ ("ablage" \notin anlass' => dauerhaft' = dauerhaft - 1)
    BY <1>1, <2>3 DEF TypBudget
  <2> QED BY <1>1, <1>2, <1>4, <1>5, <2>3, <2>4
<1>6. CASE ~(auf[c].quelle # "human_approved" /\ lok[c].gesehen = 0 /\ zaehler > 0)
  <2>1. Unverbucht
    BY <1>6 DEF Erstatten
  <2>2. TypBudget' /\ UNCHANGED <<zaehler, dauerhaft, anlass>>
    BY <1>1, <2>1, BudgetWirkt DEF Unverbucht
  <2>3. auf[c].quelle = "human_approved" \/ lok[c].gesehen # 0 \/ zaehler = 0
    BY <1>1, <1>6 DEF TypBudget
  <2> QED BY <1>1, <1>2, <1>4, <2>2, <2>3
<1> QED BY <1>5, <1>6

\* A fill is one share of one leg; the first of a dispatch bound by the cap
\* is a trade.
LEMMA FuelltWirkt ==
  ASSUME Typ, NEW c \in Mandant, NEW b \in Bein, BrokerFuellt(c, b)
  PROVE  /\ Typ' /\ Nachbarn(c) /\ UNCHANGED <<einst, aufgabe, budget, signale, gebucht, verfallen, merk>>
         /\ Offen(order[c][b]) /\ Andere(c, b)
         /\ order'[c][b].n = order[c][b].n /\ order'[c][b].f = order[c][b].f + 1
         /\ order'[c][b].zu = order[c][b].zu
         /\ gehandelt' = IF /\ Pflichtig(auf[c]) /\ b \in {"haupt", "markt"}
                            /\ order[c]["haupt"].f + order[c]["markt"].f = 0
                         THEN gehandelt + 1 ELSE gehandelt
<1>1. /\ TypOrder /\ Offen(order[c][b]) /\ order' = [order EXCEPT ![c][b].f = @ + 1]
      /\ UNCHANGED <<einst, aufgabe, budget, signale, gebucht, verfallen, merk>>
      /\ gehandelt' = IF /\ Pflichtig(auf[c]) /\ b \in {"haupt", "markt"}
                         /\ order[c]["haupt"].f + order[c]["markt"].f = 0
                      THEN gehandelt + 1 ELSE gehandelt
  BY DEF Typ, BrokerFuellt
<1>2. /\ TypOrder' /\ Andere(c, b) /\ \A d \in Mandant: d # c => order'[d] = order[d]
      /\ order'[c][b].n = order[c][b].n /\ order'[c][b].f = order[c][b].f + 1
      /\ order'[c][b].zu = order[c][b].zu
  BY <1>1, FuellungWirkt DEF Andere
<1>3. gehandelt' \in Nat
  BY <1>1 DEF Typ, TypUmfeld
<1>4. Nachbarn(c)
  BY <1>1, <1>2 DEF Nachbarn
<1>5. TypBudget' /\ TypUmfeld' /\ TypAufgabe' /\ TypAuftrag' /\ TypChronik' /\ RestOffen'
  BY <1>1, <1>3 DEF Typ, TypBudget, TypUmfeld, TypAufgabe, TypAuftrag, TypChronik, RestOffen,
                    Restmenge, LimitAusstieg
<1>6. Typ'
  BY <1>2, <1>5 DEF Typ
<1> QED BY <1>1, <1>2, <1>4, <1>6

\* The broker ends an order.
LEMMA EndetWirkt ==
  ASSUME Typ, NEW c \in Mandant, NEW b \in Bein, BrokerEndet(c, b)
  PROVE  /\ Typ' /\ Nachbarn(c) /\ UNCHANGED <<einst, aufgabe, budget, signale, gebucht, gehandelt, verfallen, merk>>
         /\ Offen(order[c][b]) /\ Beendet(c, b)
<1>1. /\ TypOrder /\ Offen(order[c][b]) /\ order' = [order EXCEPT ![c][b].zu = TRUE]
      /\ UNCHANGED <<einst, aufgabe, budget, signale, gebucht, gehandelt, verfallen, merk>>
  BY DEF Typ, BrokerEndet
<1>2. TypOrder' /\ Beendet(c, b) /\ \A d \in Mandant: d # c => order'[d] = order[d]
  BY <1>1, EndeWirkt DEF Beendet, Andere
<1>3. Nachbarn(c)
  BY <1>1, <1>2 DEF Nachbarn
<1>4. TypBudget' /\ TypUmfeld' /\ TypAufgabe' /\ TypAuftrag' /\ TypChronik' /\ RestOffen'
  BY <1>1 DEF Typ, TypBudget, TypUmfeld, TypAufgabe, TypAuftrag, TypChronik, RestOffen,
              Restmenge, LimitAusstieg
<1>5. Typ'
  BY <1>2, <1>4 DEF Typ
<1> QED BY <1>1, <1>2, <1>3, <1>5

\* A signal starts every dispatch afresh, with nothing left open before it.
LEMMA SignaleWirkt ==
  ASSUME Typ, Signale
  PROVE  /\ Typ' /\ UNCHANGED <<einst, budget, gehandelt>> /\ Ruht /\ Erledigt
         /\ verfallen' = verfallen + Cardinality(Verkaufsplaetze)
         /\ \A c \in Mandant:
               /\ pc'[c] \in {"ruhe", "sofort", "pruefen"}
               /\ pc'[c] = "sofort" => auf'[c].tausch /\ ~einst.kaufZuerst
               /\ auf'[c].tausch => auf'[c].art = "BUY"
               /\ \A b \in Bein: order'[c][b].n = 0 /\ order'[c][b].f = 0 /\ ~order'[c][b].zu
               /\ ~gebucht'[c] /\ merk'[c] = {}
<1>1. PICK S \in SUBSET Mandant \ {{}}, T \in SUBSET Voll, a \in Auftrag:
        (a.art = "SELL" => T = {}) /\ ~a.tausch /\ Signal(S, T, a)
  BY DEF Signale
<1> USE DEF Bein, Schritte
<1>2. /\ Ruht /\ Erledigt /\ UNCHANGED <<einst, budget, gehandelt>>
      /\ verfallen' = verfallen + Cardinality(Verkaufsplaetze)
  BY <1>1 DEF Signal
<1>3. /\ pc' \in [Mandant -> Schritte]
      /\ \A c \in Mandant: /\ pc'[c] \in {"ruhe", "sofort", "pruefen"}
                           /\ pc'[c] = "sofort" => c \in S /\ c \in T /\ ~einst.kaufZuerst
  BY <1>1 DEF Signal
<1>4. /\ auf' \in [Mandant -> Auftrag]
      /\ \A c \in Mandant: /\ auf'[c].tausch => auf'[c].art = "BUY"
                           /\ c \in S /\ c \in T => auf'[c].tausch
  <2> DEFINE neu(c) == IF c \in S THEN [a EXCEPT !.tausch = c \in T] ELSE KeinAuftrag
  <2>1. KeinAuftrag \in Auftrag /\ ~KeinAuftrag.tausch
    BY DEF KeinAuftrag, Auftrag
  <2>2. \A c \in Mandant: LET k == [a EXCEPT !.tausch = c \in T] IN
           k \in Auftrag /\ k.art = a.art /\ (k.tausch <=> c \in T)
    <3>1. \A x \in BOOLEAN: LET k == [a EXCEPT !.tausch = x] IN
             k \in Auftrag /\ k.art = a.art /\ k.tausch = x
      BY DEF Auftrag
    <3>2. \A c \in Mandant: (c \in T) \in BOOLEAN
      OBVIOUS
    <3> QED BY <3>1, <3>2
  <2>3. a.art \in {"BUY", "SELL"}
    BY DEF Auftrag
  <2>4. auf' = [c \in Mandant |-> neu(c)]
    BY <1>1 DEF Signal
  <2>5. ASSUME NEW c \in Mandant
        PROVE  neu(c) \in Auftrag /\ (neu(c).tausch => neu(c).art = "BUY") /\ (c \in S /\ c \in T => neu(c).tausch)
    BY <1>1, <2>1, <2>2, <2>3
  <2> HIDE DEF neu
  <2> QED BY <2>4, <2>5
<1>5. /\ TypOrder'
      /\ \A c \in Mandant, b \in Bein: order'[c][b].n = 0 /\ order'[c][b].f = 0 /\ ~order'[c][b].zu
  BY <1>1 DEF Signal, TypOrder, KeineOrder, Bestellung
<1>6. lok' \in [Mandant -> Lokal]
  <2>1. KeinLokal \in Lokal /\ [KeinLokal EXCEPT !.rest = Fristen] \in Lokal
    BY DEF KeinLokal, Lokal
  <2> QED BY <1>1, <2>1 DEF Signal
<1>7. TypChronik' /\ \A c \in Mandant: ~gebucht'[c] /\ merk'[c] = {}
  BY <1>1 DEF Signal, TypChronik
<1>8. TypBudget' /\ TypUmfeld'
  <2>1. Cardinality(Verkaufsplaetze) \in Nat
    BY FS_Subset, FS_CardinalityType DEF Verkaufsplaetze
  <2> QED BY <1>1, <1>2, <2>1 DEF Signal, Typ, TypBudget, TypUmfeld
<1>9. RestOffen'
  BY <1>3 DEF RestOffen
<1>10. Typ'
  BY <1>3, <1>4, <1>5, <1>6, <1>7, <1>8, <1>9 DEF Typ, TypAufgabe, TypAuftrag
<1> QED BY <1>2, <1>3, <1>4, <1>5, <1>7, <1>10

\* The counter is read again, or taken for exhausted.
LEMMA ZuruecksetzenWirkt ==
  ASSUME Typ, Zuruecksetzen
  PROVE  /\ Typ' /\ UNCHANGED <<einst, aufgabe, order, dauerhaft, signale, gebucht, gehandelt, verfallen, merk>>
         /\ \/ zaehler' = Gelesen /\ UNCHANGED anlass
            \/ zaehler' = Deckel /\ anlass' = anlass \cup {"behalten"}
<1>1. /\ UNCHANGED <<einst, aufgabe, order, dauerhaft, signale, gebucht, gehandelt, verfallen, merk>>
      /\ \/ zaehler' = Gelesen /\ UNCHANGED anlass
         \/ zaehler' = Deckel /\ anlass' = anlass \cup {"behalten"}
  BY DEF Zuruecksetzen
<1>2. stoerungen' \in 0..MaxStoerung
  BY DEF Zuruecksetzen, Stoerung, Typ, TypBudget
<1>3. zaehler' \in Nat /\ anlass' \subseteq Abweichung
  <2>1. zaehler' \in Nat
    BY <1>1 DEF Gelesen, Typ, TypBudget
  <2>2. anlass' \subseteq Abweichung
    BY <1>1 DEF Typ, TypBudget, Abweichung
  <2> QED BY <2>1, <2>2
<1>4. TypBudget'
  BY <1>1, <1>2, <1>3 DEF Typ, TypBudget
<1>5. TypOrder' /\ TypUmfeld' /\ TypAufgabe' /\ TypAuftrag' /\ TypChronik' /\ RestOffen'
  BY <1>1 DEF Typ, TypOrder, TypUmfeld, TypAufgabe, TypAuftrag, TypChronik, RestOffen,
              Restmenge, LimitAusstieg
<1> QED BY <1>1, <1>4, <1>5 DEF Typ

\* The process dies: every dispatch is over, those under way with an error;
\* the orders stay.
LEMMA AbsturzWirkt ==
  ASSUME Typ, Absturz
  PROVE  /\ Typ' /\ UNCHANGED <<fest, order, dauerhaft, gebucht>>
         /\ zaehler' \in {Gelesen, Deckel} /\ anlass' = anlass \cup {"behalten"}
         /\ \A c \in Mandant:
               /\ pc'[c] = "ruhe"
               /\ merk'[c] = IF pc[c] = "ruhe" THEN merk[c] ELSE merk[c] \cup {"fehler"}
<1>1. /\ UNCHANGED <<fest, order, dauerhaft, gebucht>>
      /\ zaehler' \in {Gelesen, Deckel} /\ anlass' = anlass \cup {"behalten"}
  BY DEF Absturz
<1>2. pc' \in [Mandant -> Schritte] /\ \A c \in Mandant: pc'[c] = "ruhe"
  BY DEF Absturz, Schritte
<1>3. /\ merk' \in [Mandant -> SUBSET Merkmal]
      /\ \A c \in Mandant: merk'[c] = IF pc[c] = "ruhe" THEN merk[c] ELSE merk[c] \cup {"fehler"}
  BY DEF Absturz, Typ, TypChronik, Merkmal
<1>4. lok' \in [Mandant -> Lokal]
  BY DEF Absturz, KeinLokal, Lokal
<1>5. zaehler' \in Nat /\ anlass' \subseteq Abweichung
  BY <1>1 DEF Gelesen, Typ, TypBudget, Abweichung
<1>6. stoerungen' \in 0..MaxStoerung
  BY DEF Absturz, Stoerung, Typ, TypBudget
<1>7. TypBudget'
  BY <1>1, <1>5, <1>6 DEF Typ, TypBudget
<1>8. TypOrder' /\ TypUmfeld' /\ TypAuftrag'
  BY <1>1 DEF Typ, TypOrder, TypUmfeld, TypAuftrag
<1>9. TypAufgabe' /\ RestOffen' /\ TypChronik'
  BY <1>1, <1>2, <1>3, <1>4 DEF Typ, TypAufgabe, RestOffen, TypChronik
<1> QED BY <1>1, <1>2, <1>3, <1>7, <1>8, <1>9 DEF Typ

----------------------------------------------------------------------------
(* Every step of the specification.                                        *)

\* A step of one client, of the broker, or of all.
LEMMA Schrittarten ==
  ASSUME [Next]_vars
  PROVE  \/ \E c \in Mandant: Arbeiten(c)
         \/ \E c \in Mandant, b \in Bein: BrokerFuellt(c, b) \/ BrokerEndet(c, b)
         \/ Signale \/ Zuruecksetzen \/ Absturz \/ UNCHANGED vars
  BY DEF Next

\* The types with the remainder at the exit hold initially.
LEMMA TypAnfang == Init => Typ
<1> SUFFICES ASSUME Init PROVE Typ
  OBVIOUS
<1>1. KeinAuftrag \in Auftrag /\ KeinLokal \in Lokal /\ KeineOrder \in Bestellung
  BY DEF KeinAuftrag, Auftrag, KeinLokal, Lokal, KeineOrder, Bestellung
<1>2. TypAufgabe /\ TypAuftrag /\ TypChronik /\ RestOffen
  BY <1>1 DEF Init, TypAufgabe, TypAuftrag, TypChronik, RestOffen, Schritte
<1>3. TypOrder
  BY <1>1 DEF Init, TypOrder, KeineOrder
<1>4. TypBudget /\ TypUmfeld
  BY DEF Init, TypBudget, TypUmfeld
<1> QED BY <1>2, <1>3, <1>4 DEF Typ

\* The types with the remainder at the exit are kept by every step.
LEMMA TypSchritt == Typ /\ [Next]_vars => Typ'
<1> SUFFICES ASSUME Typ, [Next]_vars PROVE Typ'
  OBVIOUS
<1>1. ASSUME NEW c \in Mandant, Arbeiten(c) PROVE Typ'
  BY <1>1, PruefenWirkt, SofortWirkt, SendenWirkt, ApiFehlerWirkt, FehlerWirkt, NachverkaufWirkt,
     AbfragenWirkt, StornoWirkt, AusstiegWirkt, RueckStornoWirkt, RueckLesenWirkt, RueckKaufWirkt,
     ErstattenWirkt DEF Arbeiten
<1>2. ASSUME NEW c \in Mandant, NEW b \in Bein, BrokerFuellt(c, b) \/ BrokerEndet(c, b) PROVE Typ'
  BY <1>2, FuelltWirkt, EndetWirkt
<1>3. ASSUME Signale \/ Zuruecksetzen \/ Absturz PROVE Typ'
  BY <1>3, SignaleWirkt, ZuruecksetzenWirkt, AbsturzWirkt
<1>4. ASSUME UNCHANGED vars PROVE Typ'
  BY <1>4 DEF vars, Typ, TypBudget, TypOrder, TypUmfeld, TypAufgabe, TypAuftrag, TypChronik, RestOffen,
              Restmenge, LimitAusstieg
<1> QED BY <1>1, <1>2, <1>3, <1>4, Schrittarten

\* The grouped types, with the remainder at the exit, are an invariant.
THEOREM AbgangTyp == Spec => []Typ
  BY TypAnfang, TypSchritt, PTL DEF Spec

\* Every variable of the dispatches keeps its type, an order is never filled
\* beyond its quantity, and the remainder sent to the market is a quantity
\* the client has (exit_failsafe_remaining_qty), whatever the order of the
\* steps of the clients, the broker, the failures and the crashes.
THEOREM AbgangTypKorrekt == Spec => []TypeOK
  BY AbgangTyp, TypGruppen, PTL

----------------------------------------------------------------------------
(* A limit exit and the market orders in its place.  Where a dispatch      *)
(* stands says which of its two legs the broker may have.                  *)

H(c) == order[c]["haupt"]
M(c) == order[c]["markt"]
Vorher == {"sofort", "pruefen", "haupt"}
Rueckweg == {"r_storno", "r_lesen", "r_kauf"}
Verfolgend == {"nachverkauf", "abfragen", "storno", "ausstieg"}
Ohne(c, s) == merk[c] \cap s = {}

\* The legs are sent one after the other, for the whole quantity or for the
\* remainder; the leg that is followed is at the broker, the other is not,
\* unless a failed submission had arrived; the last poll saw no more than is
\* filled.
Beine(c) ==
    /\ H(c).n \in {0, Menge[c]} /\ M(c).n <= Menge[c]
    /\ pc[c] \in Vorher => H(c).n = 0 /\ M(c).n = 0
    /\ pc[c] = "markt" => M(c).n = 0 /\ (H(c).n = 0 \/ "unklar" \in merk[c])
    /\ pc[c] \in Verfolgend =>
          /\ order[c][lok[c].verfolgt].n = Menge[c]
          /\ lok[c].gesehen <= order[c][lok[c].verfolgt].f
          /\ lok[c].verfolgt = "haupt" => M(c).n = 0
          /\ lok[c].verfolgt = "markt" => H(c).n = 0 \/ "unklar" \in merk[c]

\* The market order is sent after the limit order has ended, for no more
\* than it had left.
Einfach(c) ==
    Ohne(c, {"spaet", "storno", "unklar"}) =>
        /\ H(c).n = 0 \/ M(c).n = 0 \/ (H(c).zu /\ H(c).f + M(c).n <= Menge[c])
        /\ pc[c] = "ausstieg" /\ M(c).n = 0 => H(c).zu /\ H(c).f = lok[c].gesehen

\* A limit exit that is past its polls is filled or covered by the market order.
Gedeckt(c) ==
    (/\ pc[c] \in {"ruhe", "erstatten"} \cup Rueckweg /\ LimitAusstieg(c) /\ H(c).n > 0
     /\ Ohne(c, {"fehler", "blind", "fehlt", "unklar"}))
        => H(c).f + M(c).n >= Menge[c]

\* The recovery: the sale has ended when its fill is read, and that is bought.
\* Only a purchase reaches it, and the refund.
Zurueck(c) ==
    /\ auf[c].tausch => auf[c].art = "BUY"
    /\ pc[c] \in {"sofort"} \cup Rueckweg => Verdraengt(c)
    /\ pc[c] = "erstatten" => auf[c].art = "BUY"
    /\ pc[c] \notin {"ruhe", "erstatten"} => order[c]["rueck"].n = 0
    /\ Ohne(c, {"lesefehler", "storno", "fehlt"}) =>
        /\ pc[c] \in {"r_lesen", "r_kauf"} => order[c]["verkauf"].zu
        /\ pc[c] = "r_kauf" => lok[c].rueck = order[c]["verkauf"].f
        /\ pc[c] = "erstatten" /\ Verdraengt(c) =>
             order[c]["verkauf"].zu /\ order[c]["rueck"].n = order[c]["verkauf"].f

Lage(c) == Beine(c) /\ Einfach(c) /\ Gedeckt(c) /\ Zurueck(c)

\* What a client's dispatch stands on changes only with the client's own steps.
LEMMA Rahmen ==
  ASSUME NEW d \in Mandant, Lage(d), UNCHANGED <<einst, auf>>,
         pc'[d] = pc[d] /\ lok'[d] = lok[d] /\ order'[d] = order[d] /\ merk'[d] = merk[d]
  PROVE  Lage(d)'
<1>1. Beine(d)'
  BY DEF Lage, Beine, H, M
<1>2. Einfach(d)'
  BY DEF Lage, Einfach, H, M, Ohne
<1>3. Gedeckt(d)'
  BY DEF Lage, Gedeckt, H, M, Ohne, LimitAusstieg
<1>4. Zurueck(d)'
  BY DEF Lage, Zurueck, Ohne, Verdraengt
<1> QED BY <1>1, <1>2, <1>3, <1>4 DEF Lage

\* The legs by name.
LEMMA BeineTyp ==
  ASSUME Typ, NEW c \in Mandant
  PROVE  /\ H(c).n \in Nat /\ H(c).f \in Nat /\ H(c).f <= H(c).n /\ H(c).zu \in BOOLEAN
         /\ M(c).n \in Nat /\ M(c).f \in Nat /\ M(c).f <= M(c).n /\ M(c).zu \in BOOLEAN
         /\ Menge[c] \in Nat /\ Menge[c] > 0 /\ lok[c].gesehen \in Int /\ lok[c].gesehen >= -1
         /\ lok[c].verfolgt \in {"haupt", "markt"} /\ auf[c].art \in {"BUY", "SELL"}
  BY FelderTyp, MengeTyp DEF H, M, Bein, Auftrag

\* A step of a dispatch keeps where its legs can be.
LEMMA BeineSchritt ==
  ASSUME Typ, NEW c \in Mandant, Lage(c), Arbeiten(c)
  PROVE  Beine(c)'
<1> USE DEF Lage, Beine, Vorher, Verfolgend, Neu, Andere, Ebenso, Beendet, Bein, H, M
<1>0. /\ H(c).n \in Nat /\ H(c).f \in Nat /\ M(c).n \in Nat /\ M(c).f \in Nat
      /\ Menge[c] \in Nat /\ Menge[c] > 0 /\ lok[c].gesehen \in Int /\ lok[c].gesehen >= -1
      /\ lok[c].verfolgt \in {"haupt", "markt"}
  BY BeineTyp
<1>1. CASE Pruefen(c)
  BY <1>0, <1>1, PruefenWirkt
<1>2. CASE SofortVerkaufen(c)
  BY <1>0, <1>2, SofortWirkt
<1>3. CASE Senden(c)
  BY <1>0, <1>3, SendenWirkt
<1>4. CASE SendenApiFehler(c)
  BY <1>0, <1>4, ApiFehlerWirkt DEF Danach
<1>5. CASE SendenFehler(c)
  BY <1>0, <1>5, FehlerWirkt
<1>6. CASE Nachverkauf(c)
  BY <1>0, <1>6, NachverkaufWirkt
<1>7. CASE Abfragen(c)
  BY <1>0, <1>7, AbfragenWirkt
<1>8. CASE Storno(c)
  BY <1>0, <1>8, StornoWirkt DEF Danach
<1>9. CASE Ausstieg(c)
  BY <1>0, <1>9, AusstiegWirkt
<1>10. CASE RueckStorno(c)
  BY <1>0, <1>10, RueckStornoWirkt
<1>11. CASE RueckLesen(c)
  BY <1>0, <1>11, RueckLesenWirkt
<1>12. CASE RueckKauf(c)
  BY <1>0, <1>12, RueckKaufWirkt
<1>13. CASE Erstatten(c)
  BY <1>0, <1>13, ErstattenWirkt
<1> QED BY <1>1, <1>2, <1>3, <1>4, <1>5, <1>6, <1>7, <1>8, <1>9, <1>10, <1>11, <1>12, <1>13 DEF Arbeiten

\* A step of a dispatch sends the market order only in place of an order that
\* has ended, for no more than it had left.
LEMMA EinfachSchritt ==
  ASSUME Typ, NEW c \in Mandant, Lage(c), Arbeiten(c)
  PROVE  Einfach(c)'
<1> USE DEF Lage, Beine, Einfach, Vorher, Verfolgend, Neu, Andere, Ebenso, Beendet, Bein, H, M, Ohne
<1>0. /\ H(c).n \in Nat /\ H(c).f \in Nat /\ M(c).n \in Nat /\ M(c).f \in Nat
      /\ Menge[c] \in Nat /\ Menge[c] > 0 /\ lok[c].gesehen \in Int /\ lok[c].gesehen >= -1
      /\ lok[c].verfolgt \in {"haupt", "markt"}
  BY BeineTyp
<1>1. CASE Pruefen(c)
  BY <1>0, <1>1, PruefenWirkt
<1>2. CASE SofortVerkaufen(c)
  BY <1>0, <1>2, SofortWirkt
<1>3. CASE Senden(c)
  BY <1>0, <1>3, SendenWirkt
<1>4. CASE SendenApiFehler(c)
  BY <1>0, <1>4, ApiFehlerWirkt DEF Danach
<1>5. CASE SendenFehler(c)
  BY <1>0, <1>5, FehlerWirkt
<1>6. CASE Nachverkauf(c)
  BY <1>0, <1>6, NachverkaufWirkt
<1>7. CASE Abfragen(c)
  BY <1>0, <1>7, AbfragenWirkt
<1>8. CASE Storno(c)
  BY <1>0, <1>8, StornoWirkt DEF Danach, Restmenge
<1>9. CASE Ausstieg(c)
  BY <1>0, <1>9, AusstiegWirkt
<1>10. CASE RueckStorno(c)
  BY <1>0, <1>10, RueckStornoWirkt
<1>11. CASE RueckLesen(c)
  BY <1>0, <1>11, RueckLesenWirkt
<1>12. CASE RueckKauf(c)
  BY <1>0, <1>12, RueckKaufWirkt
<1>13. CASE Erstatten(c)
  BY <1>0, <1>13, ErstattenWirkt
<1> QED BY <1>1, <1>2, <1>3, <1>4, <1>5, <1>6, <1>7, <1>8, <1>9, <1>10, <1>11, <1>12, <1>13 DEF Arbeiten

\* A step of a dispatch that takes a limit exit past its polls leaves nothing
\* of it behind.
LEMMA GedecktSchritt ==
  ASSUME Typ, NEW c \in Mandant, Lage(c), Arbeiten(c)
  PROVE  Gedeckt(c)'
<1> USE DEF Lage, Beine, Gedeckt, Zurueck, Vorher, Verfolgend, Rueckweg, Neu, Andere, Ebenso, Beendet,
            Bein, H, M, Ohne, LimitAusstieg, Verdraengt
<1>0. /\ H(c).n \in Nat /\ H(c).f \in Nat /\ M(c).n \in Nat /\ M(c).f \in Nat
      /\ Menge[c] \in Nat /\ Menge[c] > 0 /\ lok[c].gesehen \in Int /\ lok[c].gesehen >= -1
      /\ lok[c].verfolgt \in {"haupt", "markt"} /\ auf[c].art \in {"BUY", "SELL"}
  BY BeineTyp
<1>1. CASE Pruefen(c)
  BY <1>0, <1>1, PruefenWirkt
<1>2. CASE SofortVerkaufen(c)
  BY <1>0, <1>2, SofortWirkt
<1>3. CASE Senden(c)
  BY <1>0, <1>3, SendenWirkt
<1>4. CASE SendenApiFehler(c)
  BY <1>0, <1>4, ApiFehlerWirkt DEF Danach
<1>5. CASE SendenFehler(c)
  <2>1. "fehler" \in merk'[c]
    BY <1>5, FehlerWirkt
  <2> QED BY <2>1
<1>6. CASE Nachverkauf(c)
  BY <1>0, <1>6, NachverkaufWirkt
<1>7. CASE Abfragen(c)
  BY <1>0, <1>7, AbfragenWirkt
<1>8. CASE Storno(c)
  BY <1>0, <1>8, StornoWirkt DEF Danach, Restmenge
<1>9. CASE Ausstieg(c)
  BY <1>0, <1>9, AusstiegWirkt
<1>10. CASE RueckStorno(c)
  BY <1>0, <1>10, RueckStornoWirkt
<1>11. CASE RueckLesen(c)
  BY <1>0, <1>11, RueckLesenWirkt
<1>12. CASE RueckKauf(c)
  BY <1>0, <1>12, RueckKaufWirkt
<1>13. CASE Erstatten(c)
  BY <1>0, <1>13, ErstattenWirkt
<1> QED BY <1>1, <1>2, <1>3, <1>4, <1>5, <1>6, <1>7, <1>8, <1>9, <1>10, <1>11, <1>12, <1>13 DEF Arbeiten

\* A step of the recovery leads on to the purchase of what was sold.
LEMMA ZurueckSchritt ==
  ASSUME Typ, NEW c \in Mandant, Lage(c), Arbeiten(c)
  PROVE  Zurueck(c)'
<1> USE DEF Lage, Zurueck, Rueckweg, Neu, Andere, Ebenso, Beendet, Bein, Ohne, Verdraengt
<1>0. /\ \A b \in Bein: order[c][b].n \in Nat /\ order[c][b].f \in Nat
      /\ lok[c].rueck \in Nat /\ lok[c].verfolgt \in {"haupt", "markt"} /\ auf[c].art \in {"BUY", "SELL"}
  BY FelderTyp, BeineTyp
<1>1. CASE Pruefen(c)
  BY <1>0, <1>1, PruefenWirkt
<1>2. CASE SofortVerkaufen(c)
  BY <1>0, <1>2, SofortWirkt
<1>3. CASE Senden(c)
  BY <1>0, <1>3, SendenWirkt
<1>4. CASE SendenApiFehler(c)
  BY <1>0, <1>4, ApiFehlerWirkt DEF Danach
<1>5. CASE SendenFehler(c)
  BY <1>0, <1>5, FehlerWirkt
<1>6. CASE Nachverkauf(c)
  BY <1>0, <1>6, NachverkaufWirkt
<1>7. CASE Abfragen(c)
  BY <1>0, <1>7, AbfragenWirkt
<1>8. CASE Storno(c)
  BY <1>0, <1>8, StornoWirkt DEF Danach, Restmenge, LimitAusstieg
<1>9. CASE Ausstieg(c)
  BY <1>0, <1>9, AusstiegWirkt DEF LimitAusstieg
<1>10. CASE RueckStorno(c)
  BY <1>0, <1>10, RueckStornoWirkt
<1>11. CASE RueckLesen(c)
  BY <1>0, <1>11, RueckLesenWirkt, SMTT(40)
<1>12. CASE RueckKauf(c)
  BY <1>0, <1>12, RueckKaufWirkt, SMTT(40)
<1>13. CASE Erstatten(c)
  BY <1>0, <1>13, ErstattenWirkt
<1> QED BY <1>1, <1>2, <1>3, <1>4, <1>5, <1>6, <1>7, <1>8, <1>9, <1>10, <1>11, <1>12, <1>13 DEF Arbeiten

\* A fill or the end of an order leaves a dispatch where it stands.
LEMMA BrokerSchritt ==
  ASSUME Typ, NEW c \in Mandant, NEW b \in Bein, Lage(c), BrokerFuellt(c, b) \/ BrokerEndet(c, b)
  PROVE  Lage(c)'
<1> USE DEF Neu, Andere, Beendet, Bein, H, M, Ohne, Offen
<1>0. /\ H(c).n \in Nat /\ H(c).f \in Nat /\ M(c).n \in Nat /\ M(c).f \in Nat
      /\ Menge[c] \in Nat /\ Menge[c] > 0 /\ lok[c].gesehen \in Int /\ lok[c].gesehen >= -1
      /\ lok[c].verfolgt \in {"haupt", "markt"} /\ \A e \in Bein: order[c][e].f \in Nat
  BY BeineTyp, FelderTyp
<1>1. /\ UNCHANGED <<einst, pc, auf, lok, merk>> /\ Andere(c, b) /\ ~order[c][b].zu
      /\ order'[c][b].n = order[c][b].n /\ order'[c][b].f \in {order[c][b].f, order[c][b].f + 1}
      /\ order[c][b].f <= order'[c][b].f
  BY <1>0, FuelltWirkt, EndetWirkt
<1>2. order'[c][b].zu \in {TRUE, order[c][b].zu} /\ (order'[c][b].f # order[c][b].f => b \in Bein)
  BY FuelltWirkt, EndetWirkt
<1>3. Beine(c)'
  BY <1>0, <1>1, SMTT(40) DEF Lage, Beine, Vorher, Verfolgend
<1>4. Einfach(c)'
  BY <1>0, <1>1, <1>2 DEF Lage, Einfach
<1>5. Gedeckt(c)'
  BY <1>0, <1>1 DEF Lage, Gedeckt, LimitAusstieg
<1>6. Zurueck(c)'
  BY <1>0, <1>1, <1>2 DEF Lage, Zurueck, Verdraengt, Rueckweg
<1> QED BY <1>3, <1>4, <1>5, <1>6 DEF Lage

\* A step of a dispatch leaves the settings, the orders given and the other
\* clients alone.
LEMMA ArbeitenAllein ==
  ASSUME Typ, NEW c \in Mandant, Arbeiten(c)
  PROVE  Nachbarn(c) /\ UNCHANGED fest
  BY PruefenWirkt, SofortWirkt, SendenWirkt, ApiFehlerWirkt, FehlerWirkt, NachverkaufWirkt,
     AbfragenWirkt, StornoWirkt, AusstiegWirkt, RueckStornoWirkt, RueckLesenWirkt, RueckKaufWirkt,
     ErstattenWirkt DEF Arbeiten

\* Where every dispatch stands, initially and after every step.
LEMMA LageAnfang == Init => \A c \in Mandant: Lage(c)
<1> SUFFICES ASSUME Init, NEW c \in Mandant PROVE Lage(c)
  OBVIOUS
<1>1. /\ pc[c] = "ruhe" /\ merk[c] = {} /\ ~auf[c].tausch
      /\ \A b \in Bein: order[c][b].n = 0 /\ order[c][b].f = 0
  BY DEF Init, KeineOrder, KeinAuftrag
<1> QED BY <1>1, MengeTyp DEF Lage, Beine, Einfach, Gedeckt, Zurueck, H, M, Bein, Vorher, Verfolgend, Rueckweg

\* The same, for one step.
LEMMA LageSchritt ==
  ASSUME Typ, \A c \in Mandant: Lage(c), [Next]_vars
  PROVE  \A c \in Mandant: Lage(c)'
<1> SUFFICES ASSUME NEW d \in Mandant PROVE Lage(d)'
  OBVIOUS
<1>1. ASSUME NEW c \in Mandant, Arbeiten(c) PROVE Lage(d)'
  <2>1. CASE d = c
    BY <1>1, <2>1, BeineSchritt, EinfachSchritt, GedecktSchritt, ZurueckSchritt DEF Lage
  <2>2. CASE d # c
    <3>1. Nachbarn(c) /\ UNCHANGED fest
      BY <1>1, ArbeitenAllein
    <3> QED BY <2>2, <3>1, Rahmen DEF Nachbarn
  <2> QED BY <2>1, <2>2
<1>2. ASSUME NEW c \in Mandant, NEW b \in Bein, BrokerFuellt(c, b) \/ BrokerEndet(c, b) PROVE Lage(d)'
  <2>1. CASE d = c
    BY <1>2, <2>1, BrokerSchritt
  <2>2. CASE d # c
    <3>1. Nachbarn(c) /\ UNCHANGED <<einst, auf>>
      BY <1>2, FuelltWirkt, EndetWirkt
    <3> QED BY <2>2, <3>1, Rahmen DEF Nachbarn
  <2> QED BY <2>1, <2>2
<1>3. ASSUME Signale PROVE Lage(d)'
  <2>1. /\ pc'[d] \in {"ruhe", "sofort", "pruefen"} /\ merk'[d] = {} /\ UNCHANGED einst
        /\ (pc'[d] = "sofort" => auf'[d].tausch /\ ~einst.kaufZuerst)
        /\ (auf'[d].tausch => auf'[d].art = "BUY")
        /\ \A b \in Bein: order'[d][b].n = 0 /\ order'[d][b].f = 0
    BY <1>3, SignaleWirkt
  <2> QED BY <2>1, MengeTyp DEF Lage, Beine, Einfach, Gedeckt, Zurueck, H, M, Bein, Vorher, Verfolgend,
                                Rueckweg, Verdraengt
<1>4. ASSUME Zuruecksetzen PROVE Lage(d)'
  BY <1>4, ZuruecksetzenWirkt, Rahmen
<1>5. ASSUME Absturz PROVE Lage(d)'
  <2>1. /\ UNCHANGED <<einst, auf, order>> /\ pc'[d] = "ruhe"
        /\ merk'[d] = IF pc[d] = "ruhe" THEN merk[d] ELSE merk[d] \cup {"fehler"}
    BY <1>5, AbsturzWirkt
  <2>2. Beine(d)'
    BY <2>1 DEF Lage, Beine, H, M, Vorher, Verfolgend
  <2>3. Einfach(d)'
    BY <2>1 DEF Lage, Einfach, H, M, Ohne
  <2>4. Gedeckt(d)'
    BY <2>1 DEF Lage, Gedeckt, H, M, Ohne, LimitAusstieg
  <2>5. Zurueck(d)'
    BY <2>1 DEF Lage, Zurueck, Rueckweg
  <2> QED BY <2>2, <2>3, <2>4, <2>5 DEF Lage
<1>6. ASSUME UNCHANGED vars PROVE Lage(d)'
  BY <1>6, Rahmen DEF vars
<1> QED BY <1>1, <1>2, <1>3, <1>4, <1>5, <1>6, Schrittarten

Lagen == Typ /\ \A c \in Mandant: Lage(c)

\* Where every dispatch stands, at any time: which of its legs the broker may
\* have, and what they still cover.
THEOREM AbgangLage == Spec => []Lagen
<1>1. Init => Lagen
  BY TypAnfang, LageAnfang DEF Lagen
<1>2. Lagen /\ [Next]_vars => Lagen'
  BY TypSchritt, LageSchritt DEF Lagen
<1> QED BY <1>1, <1>2, PTL DEF Spec

\* _submit_with_market_failsafe and exit_failsafe_remaining_qty: an exit sells
\* no more than is held, however the fills, the polls, the cancellation and
\* the failures fall, apart from the three exceptions the property names.
THEOREM AusstiegVerkauftNichtZuViel == Spec => []KeinUeberverkauf
<1>1. Lagen => KeinUeberverkauf
  <2> SUFFICES ASSUME Lagen, NEW c \in Mandant, merk[c] \cap {"spaet", "storno", "unklar"} = {}
               PROVE  order[c]["haupt"].f + order[c]["markt"].f <= Menge[c]
    BY DEF KeinUeberverkauf
  <2>1. Einfach(c) /\ Beine(c) /\ Typ
    BY DEF Lagen, Lage
  <2> QED BY <2>1, BeineTyp DEF Einfach, Beine, H, M, Ohne
<1> QED BY <1>1, AbgangLage, PTL

\* "so the position always closes" (#2558): a limit exit that is over without
\* a logged error was filled, or the market order covers what was not.
THEOREM LimitAusstiegSchliesst == Spec => []AusstiegGedeckt
<1>1. Lagen => AusstiegGedeckt
  <2> SUFFICES ASSUME Lagen, NEW c \in Mandant, pc[c] = "ruhe" /\ LimitAusstieg(c), H(c).n > 0,
                      merk[c] \cap {"fehler", "blind", "fehlt", "unklar"} = {}
               PROVE  H(c).f + M(c).n + (IF Offen(H(c)) THEN H(c).n - H(c).f ELSE 0) >= Menge[c]
    BY DEF AusstiegGedeckt, H, M
  <2>1. H(c).f + M(c).n >= Menge[c] /\ Typ
    BY DEF Lagen, Lage, Gedeckt, Ohne
  <2> QED BY <2>1, BeineTyp DEF Offen
<1> QED BY <1>1, AbgangLage, PTL

\* _recover_displacement (#2189): when the recovery has run, it has bought
\* back exactly what was sold, whatever the broker filled in the meantime.
THEOREM RueckkaufGenau == Spec => []TauschRueckgaengig
<1>1. Lagen => TauschRueckgaengig
  BY DEF Lagen, Lage, Zurueck, Ohne, TauschRueckgaengig
<1> QED BY <1>1, AbgangLage, PTL

----------------------------------------------------------------------------
(* The day's budget.  A slot is taken before the order is sent and is not  *)
(* yet a trade: the dispatches that may still become one are counted with  *)
(* the trades.                                                             *)

Gefuellt(c) == H(c).f + M(c).f > 0

\* The dispatch holds a slot without a fill, and may still get its first, or
\* is a sale, which keeps the slot.
Laeuft(c) ==
    /\ gebucht[c] /\ ~Gefuellt(c)
    /\ auf[c].art = "SELL" \/ pc[c] # "ruhe" \/ Offen(H(c)) \/ Offen(M(c))
Laufend == {c \in Mandant: Laeuft(c)}
Vergeben == gehandelt + verfallen + Cardinality(Laufend)

\* Who holds a slot: every order bound by the cap that may be at the broker,
\* and no other; at the refund the last poll is known to have seen no fill
\* that was not there, and a dispatch that is over has nothing open.
Platz(c) ==
    /\ gebucht[c] => Pflichtig(auf[c])
    /\ pc[c] \in {"sofort", "pruefen"} => ~gebucht[c]
    /\ (/\ Pflichtig(auf[c])
        /\ pc[c] \notin {"ruhe", "sofort", "pruefen"} \/ H(c).n > 0 \/ M(c).n > 0) => gebucht[c]
    /\ pc[c] \in {"erstatten"} \cup Rueckweg /\ lok[c].gesehen > 0 => Gefuellt(c)
    /\ (anlass = {} /\ gebucht[c]) =>
         /\ pc[c] \in {"erstatten"} \cup Rueckweg => lok[c].gesehen # -1
         /\ auf[c].art = "BUY" /\ pc[c] = "ruhe" /\ ~Gefuellt(c) => ~Offen(H(c)) /\ ~Offen(M(c))

\* Trades and dispatches under way together are within the cap and counted,
\* in memory and in the store ...
Gezaehlt ==
    anlass \cap {"ablage", "spaet"} = {} =>
        Vergeben <= Deckel /\ Vergeben <= zaehler /\ Vergeben <= dauerhaft

\* ... and nothing else is, as long as no slot was kept for good.
Genau == anlass = {} /\ einst.kaufZuerst => zaehler = Vergeben /\ dauerhaft = Vergeben

Budget == Lagen /\ (\A c \in Mandant: Platz(c)) /\ Gezaehlt /\ Genau

\* The dispatches under way are finitely many, and as many as before when
\* one client's step leaves it under way, one more or one less else.
LEMMA Zaehlung ==
  ASSUME NEW c \in Mandant, \A d \in Mandant: d # c => (Laeuft(d)' <=> Laeuft(d))
  PROVE  /\ Cardinality(Laufend) \in Nat /\ Cardinality(Laufend') \in Nat
         /\ (Laeuft(c)' <=> Laeuft(c)) => Cardinality(Laufend') = Cardinality(Laufend)
         /\ ~Laeuft(c) /\ Laeuft(c)' => Cardinality(Laufend') = Cardinality(Laufend) + 1
         /\ Laeuft(c) /\ ~Laeuft(c)' => Cardinality(Laufend') = Cardinality(Laufend) - 1
<1>1. IsFiniteSet(Laufend) /\ IsFiniteSet(Laufend')
  BY FS_Subset DEF Laufend
<1>2. Cardinality(Laufend) \in Nat /\ Cardinality(Laufend') \in Nat
  BY <1>1, FS_CardinalityType
<1>3. (Laeuft(c)' <=> Laeuft(c)) => Laufend' = Laufend
  BY DEF Laufend
<1>4. ASSUME ~Laeuft(c), Laeuft(c)' PROVE Cardinality(Laufend') = Cardinality(Laufend) + 1
  <2>1. Laufend' = Laufend \cup {c} /\ c \notin Laufend
    BY <1>4 DEF Laufend
  <2> QED BY <1>1, <2>1, FS_AddElement
<1>5. ASSUME Laeuft(c), ~Laeuft(c)' PROVE Cardinality(Laufend') = Cardinality(Laufend) - 1
  <2>1. Laufend' = Laufend \ {c} /\ c \in Laufend
    BY <1>5 DEF Laufend
  <2> QED BY <1>1, <2>1, FS_RemoveElement
<1> QED BY <1>2, <1>3, <1>4, <1>5

\* A step leaves the slots of the other clients alone.
LEMMA PlatzRahmen ==
  ASSUME NEW d \in Mandant, Platz(d), UNCHANGED <<einst, auf>>, anlass \subseteq anlass',
         /\ pc'[d] = pc[d] /\ lok'[d] = lok[d] /\ order'[d] = order[d]
         /\ merk'[d] = merk[d] /\ gebucht'[d] = gebucht[d]
  PROVE  Platz(d)' /\ (Laeuft(d)' <=> Laeuft(d))
<1>1. anlass' = {} => anlass = {}
  OBVIOUS
<1>2. H(d)' = H(d) /\ M(d)' = M(d) /\ Gefuellt(d)' = Gefuellt(d)
  BY DEF H, M, Gefuellt
<1>3. Laeuft(d)' <=> Laeuft(d)
  BY <1>2 DEF Laeuft, Offen
<1>4. Platz(d)'
  BY <1>1, <1>2 DEF Platz, Pflichtig, Befreit, Offen
<1> QED BY <1>3, <1>4

\* The dispatch of a client and what it adds to the budget: whether it is
\* still under way after one of its steps, and what the counters do.
Bilanz(c) ==
    /\ anlass \subseteq anlass'
    /\ \/ (Laeuft(c)' <=> Laeuft(c)) /\ UNCHANGED <<zaehler, dauerhaft>>
       \/ Laeuft(c) /\ ~Laeuft(c)' /\ UNCHANGED <<zaehler, dauerhaft>> /\ anlass' # {}
       \/ /\ Pflichtig(auf[c]) /\ Erlaubt(auf[c]) /\ ~Laeuft(c) /\ (anlass' = {} => Laeuft(c)')
          /\ zaehler' = zaehler + 1 /\ ("ablage" \notin anlass' => dauerhaft' = dauerhaft + 1)
       \/ /\ (Laeuft(c)' <=> Laeuft(c)) /\ ~einst.kaufZuerst
          /\ zaehler' = zaehler + 1 /\ ("ablage" \notin anlass' => dauerhaft' = dauerhaft + 1)
       \/ /\ Laeuft(c) /\ ~Laeuft(c)'
          /\ zaehler' = zaehler - 1 /\ ("ablage" \notin anlass' => dauerhaft' = dauerhaft - 1)
       \/ "spaet" \in anlass'

\* Every step of a dispatch keeps who holds a slot and balances the budget.
LEMMA PlatzSchritt ==
  ASSUME Typ, NEW c \in Mandant, Lage(c), Platz(c), Laeuft(c) => (anlass = {} => zaehler > 0), Arbeiten(c)
  PROVE  Platz(c)' /\ Bilanz(c)
<1> USE DEF Platz, Bilanz, Laeuft, Gefuellt, Rueckweg, Neu, Andere, Ebenso, Beendet, Bein, H, M, Offen
<1>0. /\ H(c).n \in Nat /\ H(c).f \in Nat /\ M(c).n \in Nat /\ M(c).f \in Nat
      /\ H(c).f <= H(c).n /\ M(c).f <= M(c).n
      /\ Menge[c] \in Nat /\ Menge[c] > 0 /\ lok[c].gesehen \in Int /\ lok[c].gesehen >= -1
      /\ lok[c].verfolgt \in {"haupt", "markt"}
      /\ Beine(c)
  BY BeineTyp DEF Lage
<1>1. CASE Pruefen(c)
  <2>1. /\ H(c)' = H(c) /\ M(c)' = M(c) /\ H(c).n = 0 /\ M(c).n = 0 /\ ~gebucht[c]
        /\ UNCHANGED <<einst, auf>>
    BY <1>0, <1>1, PruefenWirkt DEF Beine, Vorher
  <2>2. H(c).f = 0 /\ M(c).f = 0
    BY <1>0, <2>1
  <2>3. CASE pc'[c] = "ruhe" /\ UNCHANGED budget /\ gebucht'[c] = gebucht[c]
    BY <2>1, <2>2, <2>3
  <2>4. CASE ~Pflichtig(auf[c]) /\ gebucht'[c] = Pflichtig(auf[c]) /\ UNCHANGED budget
             /\ pc'[c] \in {"haupt", "ruhe"}
    BY <2>1, <2>2, <2>4
  <2>5. CASE /\ Pflichtig(auf[c]) /\ gebucht'[c] = Pflichtig(auf[c]) /\ pc'[c] \in {"haupt", "ruhe"}
             /\ Erlaubt(auf[c]) /\ zaehler' = zaehler + 1 /\ anlass \subseteq anlass'
             /\ pc'[c] = "ruhe" => anlass' # {}
             /\ "ablage" \notin anlass' => dauerhaft' = dauerhaft + 1
    <3>1. gebucht'[c]
      BY <2>5
    <3>2. Platz(c)'
      BY <2>1, <2>2, <2>5, <3>1
    <3>3. anlass' = {} => Laeuft(c)'
      BY <2>1, <2>2, <2>5, <3>1
    <3> HIDE DEF Platz, Laeuft
    <3>4. ~Laeuft(c)
      BY <2>1 DEF Laeuft
    <3> QED BY <2>5, <3>2, <3>3, <3>4
  <2> QED BY <1>1, <2>3, <2>4, <2>5, PruefenWirkt
<1>2. CASE SofortVerkaufen(c)
  BY <1>0, <1>2, SofortWirkt DEF Beine, Vorher, Verfolgend
<1>3. CASE Senden(c)
  <2>1. /\ Beine(c) /\ pc[c] \in {"haupt", "markt"} /\ Neu(c, pc[c], Menge[c])
        /\ pc'[c] \in {"nachverkauf", "abfragen"} /\ UNCHANGED <<einst, auf, gebucht, budget>>
    BY <1>0, <1>3, SendenWirkt
  <2>2. /\ pc[c] = "haupt" => H(c).n = 0 /\ H(c).f = 0 /\ H(c)'.f = 0 /\ M(c)' = M(c)
        /\ pc[c] = "markt" => M(c).n = 0 /\ M(c).f = 0 /\ M(c)'.f = 0 /\ H(c)' = H(c)
    BY <1>0, <2>1 DEF Beine, Vorher
  <2>3. Gefuellt(c)' = Gefuellt(c)
    BY <1>0, <2>1, <2>2
  <2>4. Platz(c)'
    BY <2>1, <2>3
  <2>5. Laeuft(c)' <=> Laeuft(c)
    BY <2>1, <2>3
  <2> QED BY <2>1, <2>4, <2>5
<1>4. CASE SendenApiFehler(c)
  BY <1>0, <1>4, ApiFehlerWirkt DEF Danach, Beine, Vorher, Verfolgend
<1>5. CASE SendenFehler(c)
  BY <1>0, <1>5, FehlerWirkt, SMTT(40) DEF Beine, Vorher, Verfolgend
<1>6. CASE Nachverkauf(c)
  BY <1>0, <1>6, NachverkaufWirkt DEF Beine, Vorher, Verfolgend
<1>7. CASE Abfragen(c)
  <2>1. /\ pc[c] = "abfragen" /\ UNCHANGED <<einst, auf, order, gebucht, zaehler, dauerhaft, anlass>>
        /\ \/ pc'[c] = "ruhe" /\ Gefuellt(c)
           \/ pc'[c] \in {"abfragen", "storno"}
    <3> HIDE DEF Platz, Bilanz, Laeuft
    <3>1. /\ pc[c] = "abfragen" /\ UNCHANGED <<einst, auf, order, gebucht, zaehler, dauerhaft, anlass>>
          /\ \/ pc'[c] = "ruhe" /\ order[c][lok[c].verfolgt].f = order[c][lok[c].verfolgt].n
             \/ pc'[c] \in {"abfragen", "storno"}
      BY <1>7, AbfragenWirkt
    <3>2. order[c][lok[c].verfolgt].n = Menge[c]
      BY <1>0, <3>1 DEF Beine, Verfolgend
    <3>3. order[c][lok[c].verfolgt].f > 0 => Gefuellt(c)
      BY <1>0
    <3> QED BY <1>0, <3>1, <3>2, <3>3
  <2>2. H(c)' = H(c) /\ M(c)' = M(c) /\ Gefuellt(c)' = Gefuellt(c)
    BY <2>1
  <2>3. Platz(c)'
    BY <2>1, <2>2
  <2>4. Laeuft(c)' <=> Laeuft(c)
    BY <2>1, <2>2
  <2> QED BY <2>1, <2>3, <2>4
<1>8. CASE Storno(c)
  <2>1. /\ Beine(c) /\ pc[c] = "storno" /\ UNCHANGED <<einst, auf, gebucht, zaehler, dauerhaft>>
        /\ pc'[c] \in {"ausstieg", "r_storno", "erstatten", "ruhe"} /\ (pc'[c] # "ruhe" => lok'[c] = lok[c])
        /\ pc'[c] = "ruhe" => auf[c].art = "SELL"
        /\ anlass \subseteq anlass' /\ (lok[c].gesehen = -1 => anlass' # {})
        /\ Beendet(c, lok[c].verfolgt) \/ Ebenso(c)
    BY <1>0, <1>8, StornoWirkt DEF Danach
  <2>2. H(c)'.n = H(c).n /\ H(c)'.f = H(c).f /\ M(c)'.n = M(c).n /\ M(c)'.f = M(c).f
    BY <1>0, <2>1
  <2>3. (Gefuellt(c)' <=> Gefuellt(c)) /\ (lok[c].gesehen > 0 => Gefuellt(c))
    <3> HIDE DEF Platz, Bilanz, Laeuft
    <3>1. Gefuellt(c)' <=> Gefuellt(c)
      BY <1>0, <2>2
    <3>2. lok[c].gesehen <= order[c][lok[c].verfolgt].f
      BY <2>1 DEF Beine, Verfolgend
    <3>3. lok[c].gesehen > 0 => Gefuellt(c)
      BY <1>0, <3>2
    <3> QED BY <3>1, <3>3
  <2>4. Platz(c)'
    BY <2>1, <2>2, <2>3
  <2>5. Laeuft(c)' <=> Laeuft(c)
    BY <2>1, <2>3
  <2> QED BY <2>1, <2>4, <2>5
<1>9. CASE Ausstieg(c)
  <2>1. /\ Beine(c) /\ pc[c] = "ausstieg" /\ pc'[c] = "ruhe" /\ auf[c].art = "SELL"
        /\ UNCHANGED <<einst, auf, gebucht, zaehler, dauerhaft, anlass>> /\ lok[c].gesehen # -1
        /\ \/ M(c).n = 0 /\ M(c)'.f = 0 /\ H(c)' = H(c)
           \/ H(c)' = H(c) /\ M(c)' = M(c)
    BY <1>0, <1>9, AusstiegWirkt DEF LimitAusstieg
  <2>2. Gefuellt(c)' <=> Gefuellt(c)
    <3>1. M(c).n = 0 => M(c).f = 0
      BY <1>0
    <3> QED BY <1>0, <2>1, <3>1
  <2>3. Platz(c)'
    BY <2>1, <2>2
  <2>4. Laeuft(c)' <=> Laeuft(c)
    BY <2>1, <2>2
  <2> QED BY <2>1, <2>3, <2>4
<1>10. CASE RueckStorno(c)
  BY <1>0, <1>10, RueckStornoWirkt DEF Beine, Vorher, Verfolgend
<1>11. CASE RueckLesen(c)
  BY <1>0, <1>11, RueckLesenWirkt DEF Beine, Vorher, Verfolgend
<1>12. CASE RueckKauf(c)
  <2>1. /\ pc[c] = "r_kauf" /\ pc'[c] = "erstatten" /\ lok'[c] = lok[c]
        /\ UNCHANGED <<einst, auf, gebucht>> /\ H(c)' = H(c) /\ M(c)' = M(c) /\ anlass \subseteq anlass'
        /\ \/ UNCHANGED <<zaehler, dauerhaft>>
           \/ zaehler' = zaehler + 1 /\ ("ablage" \notin anlass' => dauerhaft' = dauerhaft + 1)
    BY <1>0, <1>12, RueckKaufWirkt
  <2>2. ~einst.kaufZuerst
    BY <2>1 DEF Lage, Zurueck, Verdraengt
  <2>3. Platz(c)'
    BY <2>1
  <2>4. Laeuft(c)' <=> Laeuft(c)
    BY <2>1
  <2> HIDE DEF Platz, Laeuft
  <2> QED BY <2>1, <2>2, <2>3, <2>4
<1>13. CASE Erstatten(c)
  <2>1. /\ pc[c] = "erstatten" /\ pc'[c] = "ruhe" /\ UNCHANGED <<einst, auf, gebucht>>
        /\ H(c)' = H(c) /\ M(c)' = M(c) /\ auf[c].art = "BUY" /\ auf[c].quelle \in {"ai", "human_approved"}
    BY <1>0, <1>13, ErstattenWirkt, FelderTyp DEF Lage, Zurueck, Auftrag
  <2>2. CASE /\ UNCHANGED <<zaehler, dauerhaft, anlass>>
             /\ auf[c].quelle = "human_approved" \/ lok[c].gesehen # 0 \/ zaehler = 0
    <3>1. ASSUME gebucht[c], anlass = {}, ~Gefuellt(c) PROVE FALSE
      <4>1. Laeuft(c) /\ auf[c].quelle = "ai"
        BY <2>1, <3>1 DEF Pflichtig
      <4>2. zaehler > 0
        <5> HIDE DEF Laeuft
        <5> QED BY <3>1, <4>1
      <4>3. lok[c].gesehen # 0
        BY <2>2, <4>1, <4>2
      <4>4. lok[c].gesehen # -1 /\ ~(lok[c].gesehen > 0)
        BY <2>1, <3>1
      <4> QED BY <1>0, <4>3, <4>4
    <3>2. Platz(c)'
      BY <2>1, <2>2, <3>1
    <3>3. Laeuft(c)' => Laeuft(c)
      BY <2>1
    <3>4. Laeuft(c) => anlass' # {}
      BY <2>2, <3>1
    <3> HIDE DEF Platz, Laeuft
    <3> QED BY <2>2, <3>2, <3>3, <3>4
  <2>3. CASE /\ auf[c].quelle # "human_approved"
             /\ zaehler' = zaehler - 1 /\ anlass \cup ErstattungFalsch(c) \subseteq anlass'
             /\ "ablage" \notin anlass' => dauerhaft' = dauerhaft - 1
    <3>0. gebucht[c]
      BY <2>1, <2>3 DEF Pflichtig, Befreit
    <3>1. \/ "spaet" \in anlass'
          \/ gebucht[c] /\ ~Gefuellt(c) /\ ~Offen(H(c)) /\ ~Offen(M(c))
      BY <1>0, <2>3, <3>0 DEF ErstattungFalsch
    <3>2. Platz(c)'
      BY <2>1, <2>3, <3>1
    <3>3. "spaet" \in anlass' \/ (Laeuft(c) /\ ~Laeuft(c)')
      BY <2>1, <3>1
    <3> HIDE DEF Platz, Laeuft
    <3> QED BY <2>3, <3>2, <3>3
  <2> QED BY <1>13, <2>2, <2>3, ErstattenWirkt
<1> QED BY <1>1, <1>2, <1>3, <1>4, <1>5, <1>6, <1>7, <1>8, <1>9, <1>10, <1>11, <1>12, <1>13 DEF Arbeiten

\* A fill turns a dispatch under way into a trade; the end of an order may
\* end the dispatch with it.
LEMMA BrokerBilanz ==
  ASSUME Typ, NEW c \in Mandant, NEW b \in Bein, Lage(c), Platz(c),
         BrokerFuellt(c, b) \/ BrokerEndet(c, b)
  PROVE  /\ Platz(c)' /\ UNCHANGED <<einst, budget, verfallen>>
         /\ \/ (Laeuft(c)' <=> Laeuft(c)) /\ UNCHANGED gehandelt
            \/ Laeuft(c) /\ ~Laeuft(c)' /\ gehandelt' = gehandelt + 1
            \/ Laeuft(c) /\ ~Laeuft(c)' /\ UNCHANGED gehandelt /\ anlass # {}
<1> USE DEF Laeuft, Gefuellt, Andere, Beendet, Bein, H, M, Offen
<1>0. /\ H(c).n \in Nat /\ H(c).f \in Nat /\ M(c).n \in Nat /\ M(c).f \in Nat
      /\ auf[c].art \in {"BUY", "SELL"}
  BY BeineTyp
<1>1. CASE BrokerFuellt(c, b)
  <2>1. /\ UNCHANGED <<einst, aufgabe, budget, gebucht, verfallen>> /\ Offen(order[c][b]) /\ Andere(c, b)
        /\ order'[c][b].n = order[c][b].n /\ order'[c][b].f = order[c][b].f + 1
        /\ order'[c][b].zu = order[c][b].zu
        /\ gehandelt' = IF Pflichtig(auf[c]) /\ b \in {"haupt", "markt"} /\ H(c).f + M(c).f = 0
                        THEN gehandelt + 1 ELSE gehandelt
    BY <1>1, FuelltWirkt
  <2>2. CASE b \in {"haupt", "markt"}
    <3>1. Gefuellt(c)' /\ ~Laeuft(c)'
      BY <1>0, <2>1, <2>2
    <3>2. H(c)'.n = H(c).n /\ M(c)'.n = M(c).n
      BY <1>0, <2>1, <2>2
    <3>3. Platz(c)'
      BY <2>1, <3>1, <3>2 DEF Platz
    <3>4. CASE Gefuellt(c)
      BY <1>0, <2>1, <3>1, <3>3, <3>4
    <3>5. CASE ~Gefuellt(c) /\ ~gebucht[c]
      <4>1. H(c).n > 0 \/ M(c).n > 0
        BY <1>0, <2>1, <2>2
      <4>2. ~Pflichtig(auf[c])
        BY <3>5, <4>1 DEF Platz
      <4> QED BY <2>1, <3>1, <3>3, <3>5, <4>2
    <3>6. CASE ~Gefuellt(c) /\ gebucht[c]
      <4>1. Pflichtig(auf[c]) /\ H(c).f + M(c).f = 0
        BY <1>0, <3>6 DEF Platz
      <4>2. Laeuft(c)
        BY <2>1, <2>2, <3>6
      <4> QED BY <2>1, <2>2, <3>1, <3>3, <4>1, <4>2
    <3> QED BY <3>4, <3>5, <3>6
  <2>3. CASE b \notin {"haupt", "markt"}
    <3>1. H(c)' = H(c) /\ M(c)' = M(c)
      BY <2>1, <2>3
    <3>2. Platz(c)' /\ (Laeuft(c)' <=> Laeuft(c))
      BY <2>1, <3>1 DEF Platz
    <3> QED BY <2>1, <2>3, <3>2
  <2> QED BY <2>2, <2>3
<1>2. CASE BrokerEndet(c, b)
  <2>1. /\ UNCHANGED <<einst, aufgabe, budget, gebucht, gehandelt, verfallen>> /\ Offen(order[c][b]) /\ Beendet(c, b)
    BY <1>2, EndetWirkt
  <2>2. /\ H(c)'.n = H(c).n /\ H(c)'.f = H(c).f /\ M(c)'.n = M(c).n /\ M(c)'.f = M(c).f
        /\ (Offen(H(c)) \/ ~Offen(H(c))') /\ (Offen(M(c)) \/ ~Offen(M(c))')
    BY <2>1
  <2>3. Gefuellt(c)' <=> Gefuellt(c)
    BY <2>2
  <2>4. Platz(c)'
    BY <2>1, <2>2, <2>3 DEF Platz
  <2>5. Laeuft(c)' => Laeuft(c)
    BY <2>1, <2>2, <2>3
  <2>6. Laeuft(c) /\ ~Laeuft(c)' => anlass # {}
    <3>1. SUFFICES ASSUME Laeuft(c), ~Laeuft(c)', anlass = {} PROVE FALSE
      OBVIOUS
    <3>2. /\ gebucht[c] /\ ~Gefuellt(c) /\ pc[c] = "ruhe" /\ (Offen(H(c)) \/ Offen(M(c)))
          /\ auf[c].art = "BUY"
      BY <1>0, <2>1, <2>3, <3>1
    <3> QED BY <3>1, <3>2 DEF Platz
  <2> HIDE DEF Laeuft
  <2> QED BY <2>1, <2>4, <2>5, <2>6
<1> QED BY <1>1, <1>2

\* The budget holds at the start of the day.
LEMMA BudgetAnfang == Init => Budget
<1> SUFFICES ASSUME Init PROVE Budget
  OBVIOUS
<1>1. Lagen
  BY TypAnfang, LageAnfang DEF Lagen
<1>2. \A c \in Mandant: /\ pc[c] = "ruhe" /\ ~gebucht[c]
                        /\ \A b \in Bein: order[c][b].n = 0 /\ order[c][b].f = 0
  BY DEF Init, KeineOrder
<1>3. \A c \in Mandant: Platz(c)
  BY <1>2 DEF Platz, H, M, Bein, Rueckweg
<1>4. Laufend = {}
  BY <1>2 DEF Laufend, Laeuft
<1>5. Vergeben = 0
  BY <1>4, FS_EmptySet DEF Vergeben, Init
<1> QED BY <1>1, <1>3, <1>5 DEF Budget, Gezaehlt, Genau, Init

\* The budget is kept by a step of one dispatch.
LEMMA BudgetArbeiten ==
  ASSUME Budget, NEW c \in Mandant, Arbeiten(c)
  PROVE  (\A d \in Mandant: Platz(d)') /\ Gezaehlt' /\ Genau'
<1>0. Typ /\ Lage(c) /\ Platz(c) /\ Gezaehlt /\ Genau
  BY DEF Budget, Lagen
<1>1. /\ zaehler \in Nat /\ dauerhaft \in Int /\ gehandelt \in Nat /\ verfallen \in Nat /\ Deckel \in Nat
  BY <1>0 DEF Typ, TypBudget, TypUmfeld
<1>2. Nachbarn(c) /\ UNCHANGED fest
  BY <1>0, ArbeitenAllein
<1>3. Laeuft(c) => Cardinality(Laufend) > 0
  <2>1. IsFiniteSet(Laufend)
    BY FS_Subset DEF Laufend
  <2>2. Laeuft(c) => Laufend # {}
    BY DEF Laufend
  <2> QED BY <2>1, <2>2, FS_EmptySet, FS_CardinalityType
<1>4. Cardinality(Laufend) \in Nat
  BY FS_Subset, FS_CardinalityType DEF Laufend
<1>5. Laeuft(c) => (anlass = {} => zaehler > 0)
  BY <1>0, <1>1, <1>3, <1>4 DEF Gezaehlt, Vergeben
<1>6. Platz(c)' /\ Bilanz(c)
  BY <1>0, <1>5, PlatzSchritt
<1>7. anlass \subseteq anlass'
  BY <1>6 DEF Bilanz
<1>8. \A d \in Mandant: d # c => Platz(d)' /\ (Laeuft(d)' <=> Laeuft(d))
  BY <1>2, <1>7, PlatzRahmen DEF Nachbarn, Budget
<1>9. /\ Cardinality(Laufend) \in Nat /\ Cardinality(Laufend') \in Nat
      /\ (Laeuft(c)' <=> Laeuft(c)) => Cardinality(Laufend') = Cardinality(Laufend)
      /\ ~Laeuft(c) /\ Laeuft(c)' => Cardinality(Laufend') = Cardinality(Laufend) + 1
      /\ Laeuft(c) /\ ~Laeuft(c)' => Cardinality(Laufend') = Cardinality(Laufend) - 1
  BY <1>8, Zaehlung
<1>10. gehandelt' = gehandelt /\ verfallen' = verfallen /\ einst' = einst
  BY <1>2
<1>11. /\ Vergeben \in Nat /\ Vergeben' \in Nat
       /\ (Laeuft(c)' <=> Laeuft(c)) => Vergeben' = Vergeben
       /\ ~Laeuft(c) /\ Laeuft(c)' => Vergeben' = Vergeben + 1
       /\ Laeuft(c) /\ ~Laeuft(c)' => Vergeben' = Vergeben - 1
  BY <1>1, <1>9, <1>10 DEF Vergeben
<1>12. Pflichtig(auf[c]) /\ Erlaubt(auf[c]) => zaehler < Deckel
  BY DEF Erlaubt
<1>13. ASSUME anlass' \cap {"ablage", "spaet"} = {}
       PROVE  Vergeben' <= Deckel /\ Vergeben' <= zaehler' /\ Vergeben' <= dauerhaft'
  <2>1. /\ "ablage" \notin anlass' /\ "spaet" \notin anlass'
        /\ anlass \cap {"ablage", "spaet"} = {}
    BY <1>7, <1>13
  <2>2. Vergeben <= Deckel /\ Vergeben <= zaehler /\ Vergeben <= dauerhaft
    BY <1>0, <2>1 DEF Gezaehlt
  <2>3. \/ Vergeben' \in {Vergeben, Vergeben - 1} /\ zaehler' = zaehler /\ dauerhaft' = dauerhaft
        \/ /\ Vergeben' \in {Vergeben, Vergeben + 1} /\ zaehler < Deckel
           /\ zaehler' = zaehler + 1 /\ dauerhaft' = dauerhaft + 1
        \/ Vergeben' = Vergeben /\ zaehler' = zaehler + 1 /\ dauerhaft' = dauerhaft + 1
        \/ Vergeben' = Vergeben - 1 /\ zaehler' = zaehler - 1 /\ dauerhaft' = dauerhaft - 1
    BY <1>6, <1>11, <1>12, <2>1 DEF Bilanz
  <2> QED BY <1>1, <1>11, <2>2, <2>3
<1>14. ASSUME anlass' = {}, einst.kaufZuerst
       PROVE  zaehler' = Vergeben' /\ dauerhaft' = Vergeben'
  <2>1. "ablage" \notin anlass' /\ "spaet" \notin anlass' /\ anlass = {}
    BY <1>7, <1>14
  <2>2. zaehler = Vergeben /\ dauerhaft = Vergeben
    BY <1>0, <1>14, <2>1 DEF Genau
  <2>3. \/ Vergeben' = Vergeben /\ zaehler' = zaehler /\ dauerhaft' = dauerhaft
        \/ Vergeben' = Vergeben + 1 /\ zaehler' = zaehler + 1 /\ dauerhaft' = dauerhaft + 1
        \/ Vergeben' = Vergeben - 1 /\ zaehler' = zaehler - 1 /\ dauerhaft' = dauerhaft - 1
    BY <1>6, <1>11, <1>14, <2>1 DEF Bilanz
  <2> QED BY <2>2, <2>3
<1>15. Gezaehlt' /\ Genau'
  BY <1>10, <1>13, <1>14 DEF Gezaehlt, Genau
<1> QED BY <1>6, <1>8, <1>15

\* The budget is kept by the broker.
LEMMA BudgetBroker ==
  ASSUME Budget, NEW c \in Mandant, NEW b \in Bein, BrokerFuellt(c, b) \/ BrokerEndet(c, b)
  PROVE  (\A d \in Mandant: Platz(d)') /\ Gezaehlt' /\ Genau'
<1>0. Typ /\ Lage(c) /\ Platz(c) /\ Gezaehlt /\ Genau
  BY DEF Budget, Lagen
<1>1. /\ zaehler \in Nat /\ dauerhaft \in Int /\ gehandelt \in Nat /\ verfallen \in Nat
  BY <1>0 DEF Typ, TypBudget, TypUmfeld
<1>2. Nachbarn(c) /\ UNCHANGED <<einst, auf, budget, verfallen>>
  BY <1>0, FuelltWirkt, EndetWirkt
<1>3. /\ Platz(c)'
      /\ \/ (Laeuft(c)' <=> Laeuft(c)) /\ UNCHANGED gehandelt
         \/ Laeuft(c) /\ ~Laeuft(c)' /\ gehandelt' = gehandelt + 1
         \/ Laeuft(c) /\ ~Laeuft(c)' /\ UNCHANGED gehandelt /\ anlass # {}
  BY <1>0, BrokerBilanz
<1>4. \A d \in Mandant: d # c => Platz(d)' /\ (Laeuft(d)' <=> Laeuft(d))
  BY <1>2, PlatzRahmen DEF Nachbarn, Budget
<1>5. /\ Cardinality(Laufend) \in Nat /\ Cardinality(Laufend') \in Nat
      /\ (Laeuft(c)' <=> Laeuft(c)) => Cardinality(Laufend') = Cardinality(Laufend)
      /\ Laeuft(c) /\ ~Laeuft(c)' => Cardinality(Laufend') = Cardinality(Laufend) - 1
  BY <1>4, Zaehlung
<1>6. Vergeben' <= Vergeben /\ (anlass = {} => Vergeben' = Vergeben) /\ Vergeben \in Nat /\ Vergeben' \in Int
  BY <1>1, <1>2, <1>3, <1>5 DEF Vergeben
<1>7. Gezaehlt' /\ Genau'
  BY <1>0, <1>1, <1>2, <1>6 DEF Gezaehlt, Genau
<1> QED BY <1>3, <1>4, <1>7

\* When all is done, only sales are left with a slot and no fill.
LEMMA RuheBilanz ==
  ASSUME Typ, Ruht, Erledigt
  PROVE  Laufend = Verkaufsplaetze
<1> SUFFICES ASSUME NEW c \in Mandant PROVE Laeuft(c) <=> c \in Verkaufsplaetze
  BY DEF Laufend, Verkaufsplaetze
<1>1. pc[c] = "ruhe" /\ ~Offen(H(c)) /\ ~Offen(M(c))
  BY DEF Ruht, Erledigt, H, M, Bein
<1>2. H(c).f \in Nat /\ M(c).f \in Nat
  BY BeineTyp
<1>3. ~Gefuellt(c) <=> H(c).f + M(c).f = 0
  BY <1>2 DEF Gefuellt
<1> QED BY <1>1, <1>3 DEF Laeuft, Verkaufsplaetze, H, M

\* The budget is kept by a signal, a reading of the counter and a crash.
LEMMA BudgetUmfeld ==
  ASSUME Budget, Signale \/ Zuruecksetzen \/ Absturz
  PROVE  (\A d \in Mandant: Platz(d)') /\ Gezaehlt' /\ Genau'
<1>0. Typ /\ Gezaehlt /\ Genau /\ \A d \in Mandant: Platz(d)
  BY DEF Budget, Lagen
<1>1. /\ zaehler \in Nat /\ dauerhaft \in Int /\ gehandelt \in Nat /\ verfallen \in Nat
  BY <1>0 DEF Typ, TypBudget, TypUmfeld
<1>2. IsFiniteSet(Laufend) /\ Cardinality(Laufend) \in Nat /\ Vergeben \in Nat
  BY <1>1, FS_Subset, FS_CardinalityType DEF Laufend, Vergeben
<1>3. CASE Signale
  <2>1. /\ UNCHANGED <<einst, budget, gehandelt>> /\ Ruht /\ Erledigt
        /\ verfallen' = verfallen + Cardinality(Verkaufsplaetze)
        /\ \A d \in Mandant: /\ ~gebucht'[d] /\ pc'[d] \in {"ruhe", "sofort", "pruefen"}
                             /\ \A b \in Bein: order'[d][b].n = 0 /\ order'[d][b].f = 0
    BY <1>0, <1>3, SignaleWirkt
  <2>2. \A d \in Mandant: Platz(d)'
    BY <2>1 DEF Platz, H, M, Bein, Rueckweg
  <2>3. Laufend = Verkaufsplaetze /\ Laufend' = {}
    <3>1. Laufend = Verkaufsplaetze
      BY <1>0, <2>1, RuheBilanz
    <3>2. Laufend' = {}
      BY <2>1 DEF Laufend, Laeuft
    <3> QED BY <3>1, <3>2
  <2>4. Vergeben' = Vergeben
    BY <1>1, <1>2, <2>1, <2>3, FS_EmptySet DEF Vergeben
  <2> QED BY <1>0, <2>1, <2>2, <2>4 DEF Gezaehlt, Genau
<1>4. CASE Zuruecksetzen
  <2>1. /\ UNCHANGED <<einst, aufgabe, order, dauerhaft, gebucht, gehandelt, verfallen, merk>>
        /\ \/ zaehler' = Gelesen /\ UNCHANGED anlass
           \/ zaehler' = Deckel /\ anlass' = anlass \cup {"behalten"}
    BY <1>0, <1>4, ZuruecksetzenWirkt
  <2>2. anlass \subseteq anlass'
    BY <2>1
  <2>3. \A d \in Mandant: Platz(d)' /\ (Laeuft(d)' <=> Laeuft(d))
    BY <1>0, <2>1, <2>2, PlatzRahmen
  <2>4. Vergeben' = Vergeben
    <3>1. Laufend' = Laufend
      BY <2>3 DEF Laufend
    <3> QED BY <2>1, <3>1 DEF Vergeben
  <2>5. Gezaehlt'
    <3>1. ASSUME anlass' \cap {"ablage", "spaet"} = {}
          PROVE  Vergeben <= Deckel /\ Vergeben <= zaehler' /\ Vergeben <= dauerhaft
      <4>1. Vergeben <= Deckel /\ Vergeben <= dauerhaft
        BY <1>0, <2>2, <3>1 DEF Gezaehlt
      <4> QED BY <1>1, <1>2, <2>1, <4>1 DEF Gelesen
    <3> QED BY <2>1, <2>4, <3>1 DEF Gezaehlt
  <2>6. Genau'
    <3>1. ASSUME anlass' = {}, einst.kaufZuerst PROVE zaehler' = Vergeben /\ dauerhaft = Vergeben
      <4>1. zaehler' = Gelesen /\ anlass = {}
        BY <2>1, <3>1
      <4>2. dauerhaft = Vergeben
        BY <1>0, <3>1, <4>1 DEF Genau
      <4> QED BY <1>2, <4>1, <4>2 DEF Gelesen
    <3> QED BY <2>1, <2>4, <3>1 DEF Genau
  <2> QED BY <2>3, <2>5, <2>6
<1>5. CASE Absturz
  <2>1. /\ UNCHANGED <<fest, order, dauerhaft, gebucht>>
        /\ zaehler' \in {Gelesen, Deckel} /\ anlass' = anlass \cup {"behalten"}
        /\ \A d \in Mandant: pc'[d] = "ruhe"
    BY <1>0, <1>5, AbsturzWirkt
  <2>2. anlass' # {}
    BY <2>1
  <2>3. \A d \in Mandant: H(d)' = H(d) /\ M(d)' = M(d) /\ (Gefuellt(d)' <=> Gefuellt(d))
    BY <2>1 DEF H, M, Gefuellt
  <2>4. \A d \in Mandant: Platz(d)'
    BY <1>0, <2>1, <2>2, <2>3 DEF Platz, Rueckweg
  <2>5. \A d \in Mandant: Laeuft(d)' => Laeuft(d)
    BY <2>1, <2>3 DEF Laeuft, Offen
  <2>6. Laufend' \subseteq Laufend
    BY <2>5 DEF Laufend
  <2>7. Cardinality(Laufend') \in Nat /\ Cardinality(Laufend') <= Cardinality(Laufend)
    BY <1>2, <2>6, FS_Subset, FS_CardinalityType
  <2>8. Vergeben' <= Vergeben /\ Vergeben' \in Nat
    BY <1>1, <1>2, <2>1, <2>7 DEF Vergeben
  <2>9. Gezaehlt'
    <3>1. ASSUME anlass' \cap {"ablage", "spaet"} = {}
          PROVE  Vergeben' <= Deckel /\ Vergeben' <= zaehler' /\ Vergeben' <= dauerhaft
      <4>1. Vergeben <= Deckel /\ Vergeben <= dauerhaft
        BY <1>0, <2>1, <3>1 DEF Gezaehlt
      <4> QED BY <1>1, <1>2, <2>1, <2>8, <4>1 DEF Gelesen
    <3> QED BY <2>1, <3>1 DEF Gezaehlt
  <2> QED BY <2>2, <2>4, <2>9 DEF Genau
<1> QED BY <1>3, <1>4, <1>5

\* The budget at any time: who holds a slot, and how the counters stand to
\* the trades and the dispatches that may still become one.
THEOREM AbgangBudget == Spec => []Budget
<1>1. Budget /\ [Next]_vars => Budget'
  <2> SUFFICES ASSUME Budget, [Next]_vars PROVE Budget'
    OBVIOUS
  <2>1. Lagen'
    BY TypSchritt, LageSchritt DEF Budget, Lagen
  <2>2. (\A d \in Mandant: Platz(d)') /\ Gezaehlt' /\ Genau'
    <3>1. CASE UNCHANGED vars
      <4>1. \A d \in Mandant: Platz(d)' /\ (Laeuft(d)' <=> Laeuft(d))
        BY <3>1, PlatzRahmen DEF vars, Budget
      <4>2. Vergeben' = Vergeben
        <5>1. Laufend' = Laufend
          BY <4>1 DEF Laufend
        <5> QED BY <3>1, <5>1 DEF Vergeben, vars
      <4> QED BY <3>1, <4>1, <4>2 DEF vars, Budget, Gezaehlt, Genau
    <3> QED BY <3>1, BudgetArbeiten, BudgetBroker, BudgetUmfeld, Schrittarten
  <2> QED BY <2>1, <2>2 DEF Budget
<1> QED BY <1>1, BudgetAnfang, PTL DEF Spec

\* check_trade, record_trade, refund_trade and reset_daily_limit together keep
\* the day's cap: no more orders bound by it get a fill than it allows, for
\* any number of clients that check and reserve at the same time, across
\* failures and restarts, apart from the exceptions the property names.
THEOREM DeckelGehalten == Spec => []TagesDeckel
<1>1. Budget => TagesDeckel
  <2> SUFFICES ASSUME Budget, anlass \cap {"ablage", "spaet"} = {} PROVE gehandelt <= Deckel
    BY DEF TagesDeckel
  <2>1. Cardinality(Laufend) \in Nat /\ gehandelt \in Nat /\ verfallen \in Nat
    BY FS_Subset, FS_CardinalityType DEF Laufend, Budget, Lagen, Typ, TypUmfeld
  <2>2. gehandelt + verfallen + Cardinality(Laufend) <= Deckel
    BY DEF Budget, Gezaehlt, Vergeben
  <2> QED BY <2>1, <2>2
<1> QED BY <1>1, AbgangBudget, PTL

\* Reserve and reclaim (record_trade, refund_trade): when all is done, the
\* counter is exactly the number of orders that got a fill and of the sales
\* that got none; the slot of every other purchase came back.
THEOREM PlatzWirdFrei == Spec => []PlatzKommtZurueck
<1>1. Budget => PlatzKommtZurueck
  <2> SUFFICES ASSUME Budget, anlass = {} /\ einst.kaufZuerst, Ruht, Erledigt
               PROVE  zaehler = gehandelt + verfallen + Cardinality(Verkaufsplaetze)
    BY DEF PlatzKommtZurueck
  <2>1. Laufend = Verkaufsplaetze
    BY RuheBilanz DEF Budget, Lagen
  <2>2. zaehler = gehandelt + verfallen + Cardinality(Laufend)
    BY DEF Budget, Genau, Vergeben
  <2> QED BY <2>1, <2>2
<1> QED BY <1>1, AbgangBudget, PTL
=============================================================================
