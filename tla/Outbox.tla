------------------------------- MODULE Outbox -------------------------------
(***************************************************************************)
(* The outbox of core/outbox.py: an order intent is written down under its *)
(* idempotency key before the order is sent, its state is moved forward,   *)
(* and settled intents are cleared from the head of the directory.         *)
(*                                                                         *)
(* Each call to the state store is one step.  An operation runs inside a   *)
(* section (_Abschnitt) guarded by a lock of the store with a time to live *)
(* that is never renewed; writing and moving forward use the lock of the   *)
(* key, clearing uses a lock of its own.  Actors are coroutines of any     *)
(* process that uses the store; they may die or see a call fail at any     *)
(* step.                                                                   *)
(***************************************************************************)
EXTENDS Naturals, Sequences

CONSTANTS
    Coid,        \* idempotency keys
    Akteur,      \* coroutines that use the outbox
    MitAusfall,  \* whether actors may die and calls to the store may fail
    FristLaeuft  \* whether a section may outlast the time to live of its lock

VERZ == "verzeichnis"       \* the lock around clearing
Frei == "frei"              \* no lock row
Tot == "verwaist"           \* a lock row whose owner is gone; it will expire

ASSUME OutboxAssumption ==
    /\ MitAusfall \in BOOLEAN
    /\ FristLaeuft \in BOOLEAN
    /\ VERZ \notin Coid
    /\ Frei \notin Akteur
    /\ Tot \notin Akteur

VARIABLES
    eintrag,     \* outbox:intent:<coid>: the state of the entry, or "fehlt"
    verzeichnis, \* outbox:verzeichnis: the queue of keys
    sperre,      \* lock rows
    pc, ort,     \* per actor: control state and the section it is in
    ziel,        \* per actor: the state to move to
    liste        \* per actor: rest of the directory read for clearing

vars == <<eintrag, verzeichnis, sperre, pc, ort, ziel, liste>>

Erledigt == {"bestaetigt", "verworfen"}
Zustand == {"offen", "abgesendet"} \cup Erledigt

\* _RANG
Rang == [z \in Zustand |-> IF z = "offen" THEN 0
                          ELSE IF z = "abgesendet" THEN 1 ELSE 2]

Raeumt == {"raeum_pruefen", "raeum_pop", "raeum_loeschen"}
FestPc == {"fest_lesen", "fest_setzen", "fest_anhaengen"}
FortPc == {"fort_lesen", "fort_setzen"}
PcStates == {"ruht", "raeum_lesen", "verlassen"} \cup Raeumt \cup FestPc \cup FortPc

ZeilenVon(s) == {s[n] : n \in 1..Len(s)}
Zeilen == ZeilenVon(verzeichnis)

TypeOK ==
    /\ eintrag \in [Coid -> Zustand \cup {"fehlt"}]
    /\ verzeichnis \in Seq(Coid)
    /\ sperre \in [Coid \cup {VERZ} -> Akteur \cup {Frei, Tot}]
    /\ pc \in [Akteur -> PcStates]
    /\ ort \in [Akteur -> Coid \cup {VERZ}]
    /\ ziel \in [Akteur -> Zustand]
    /\ liste \in [Akteur -> Seq(Coid)]
    /\ \A a \in Akteur:
         /\ pc[a] \in FestPc \cup FortPc => ort[a] \in Coid
         /\ pc[a] \in Raeumt \cup {"raeum_lesen"} => ort[a] = VERZ
         /\ pc[a] \in Raeumt => liste[a] # <<>>

Init ==
    /\ eintrag = [c \in Coid |-> "fehlt"]
    /\ verzeichnis = <<>>
    /\ sperre = [n \in Coid \cup {VERZ} |-> Frei]
    /\ pc = [a \in Akteur |-> "ruht"]
    /\ ort = [a \in Akteur |-> VERZ]
    /\ ziel = [a \in Akteur |-> "offen"]
    /\ liste = [a \in Akteur |-> <<>>]

----------------------------------------------------------------------------
(* The section (_Abschnitt).                                               *)

Gehe(a, s) == pc' = [pc EXCEPT ![a] = s]

\* The operation is over; its local variables are gone.
Ruhe(a) ==
    /\ Gehe(a, "ruht")
    /\ ort' = [ort EXCEPT ![a] = VERZ]
    /\ ziel' = [ziel EXCEPT ![a] = "offen"]
    /\ liste' = [liste EXCEPT ![a] = <<>>]

\* Mutant: the section is entered although the lock was not obtained.
BetretenOhneSperre(a, n, s) ==
    /\ pc[a] = "ruht"
    /\ sperre' = [sperre EXCEPT ![n] = a]
    /\ ort' = [ort EXCEPT ![a] = n]
    /\ Gehe(a, s)

\* __aenter__: after a bounded number of attempts without the lock the
\* operation returns False and changes nothing; otherwise it is entered.
Betreten(a, n, s) ==
    /\ pc[a] = "ruht"
    /\ sperre[n] = Frei
    /\ sperre' = [sperre EXCEPT ![n] = a]
    /\ ort' = [ort EXCEPT ![a] = n]
    /\ Gehe(a, s)

\* __aexit__: release deletes the row only if it is still the own one; when
\* the call fails the row stays until it expires.
Verlassen(a) ==
    /\ pc[a] = "verlassen"
    /\ \/ sperre' = IF sperre[ort[a]] = a
                    THEN [sperre EXCEPT ![ort[a]] = Frei] ELSE sperre
       \/ MitAusfall /\ sperre' = IF sperre[ort[a]] = a
                    THEN [sperre EXCEPT ![ort[a]] = Tot] ELSE sperre
    /\ Ruhe(a)
    /\ UNCHANGED <<eintrag, verzeichnis>>

\* The time to live of a lock row passes.
Ablauf(n) ==
    /\ sperre[n] = Tot \/ (FristLaeuft /\ sperre[n] \in Akteur)
    /\ sperre' = [sperre EXCEPT ![n] = Frei]
    /\ UNCHANGED <<eintrag, verzeichnis, pc, ort, ziel, liste>>

\* The process of the actor dies; the store keeps the lock row.
Absturz(a) ==
    /\ MitAusfall
    /\ pc[a] # "ruht"
    /\ sperre' = IF sperre[ort[a]] = a
                 THEN [sperre EXCEPT ![ort[a]] = Tot] ELSE sperre
    /\ Ruhe(a)
    /\ UNCHANGED <<eintrag, verzeichnis>>

\* A call to the store fails without effect: the section is left.
Fehler(a) ==
    /\ MitAusfall
    /\ pc[a] \notin {"ruht", "verlassen"}
    /\ Gehe(a, "verlassen")
    /\ UNCHANGED <<eintrag, verzeichnis, sperre, ort, ziel, liste>>

\* After a call that took effect: the next step, or, when the answer was
\* lost, the way out of the section.
Danach(a, s) == Gehe(a, s) \/ (MitAusfall /\ Gehe(a, "verlassen"))

----------------------------------------------------------------------------
(* festschreiben                                                           *)

Festschreiben(a, c) ==
    /\ Betreten(a, c, "fest_lesen")
    /\ UNCHANGED <<eintrag, verzeichnis, ziel, liste>>

\* An entry that is already there is left alone, whatever its state.
FestLesen(a) ==
    /\ pc[a] = "fest_lesen"
    /\ Gehe(a, IF eintrag[ort[a]] = "fehlt" THEN "fest_setzen" ELSE "verlassen")
    /\ UNCHANGED <<eintrag, verzeichnis, sperre, ort, ziel, liste>>

\* First the entry ...
FestSetzen(a) ==
    /\ pc[a] = "fest_setzen"
    /\ eintrag' = [eintrag EXCEPT ![ort[a]] = "offen"]
    /\ Danach(a, "fest_anhaengen")
    /\ UNCHANGED <<verzeichnis, sperre, ort, ziel, liste>>

\* ... then the directory.
FestAnhaengen(a) ==
    /\ pc[a] = "fest_anhaengen"
    /\ verzeichnis' = Append(verzeichnis, ort[a])
    /\ Gehe(a, "verlassen")
    /\ UNCHANGED <<eintrag, sperre, ort, ziel, liste>>

----------------------------------------------------------------------------
(* als_abgesendet, als_bestaetigt, als_verworfen: _schreibe_fort           *)

SchreibeFort(a, c, z) ==
    /\ Betreten(a, c, "fort_lesen")
    /\ ziel' = [ziel EXCEPT ![a] = z]
    /\ UNCHANGED <<eintrag, verzeichnis, liste>>

\* Mutant: the rank is not compared.
VorwaertsImmer(c, z) == eintrag[c] # "fehlt"

\* Forward or not at all; an unknown intent is only logged.
Vorwaerts(c, z) == eintrag[c] # "fehlt" /\ Rang[eintrag[c]] < Rang[z]

FortLesen(a) ==
    /\ pc[a] = "fort_lesen"
    /\ \/ Vorwaerts(ort[a], ziel[a]) /\ Gehe(a, "fort_setzen")
       \/ ~Vorwaerts(ort[a], ziel[a]) /\ Gehe(a, "verlassen")
    /\ UNCHANGED <<eintrag, verzeichnis, sperre, ort, ziel, liste>>

FortSetzen(a) ==
    /\ pc[a] = "fort_setzen"
    /\ eintrag' = [eintrag EXCEPT ![ort[a]] = ziel[a]]
    /\ Gehe(a, "verlassen")
    /\ UNCHANGED <<verzeichnis, sperre, ort, ziel, liste>>

----------------------------------------------------------------------------
(* aufraeumen: settled intents leave the head of the directory             *)

Aufraeumen(a) ==
    /\ Betreten(a, VERZ, "raeum_lesen")
    /\ UNCHANGED <<eintrag, verzeichnis, ziel, liste>>

\* Mutant: the loop body runs once on an empty directory.
RaeumLesenOhneLeere(a) ==
    /\ pc[a] = "raeum_lesen"
    /\ liste' = [liste EXCEPT ![a] = verzeichnis]
    /\ Gehe(a, "raeum_pruefen")
    /\ UNCHANGED <<eintrag, verzeichnis, sperre, ort, ziel>>

\* The list is read once; the loop runs over this copy.
RaeumLesen(a) ==
    /\ pc[a] = "raeum_lesen"
    /\ liste' = [liste EXCEPT ![a] = verzeichnis]
    /\ Gehe(a, IF verzeichnis = <<>> THEN "verlassen" ELSE "raeum_pruefen")
    /\ UNCHANGED <<eintrag, verzeichnis, sperre, ort, ziel>>

\* Mutant: an unsettled intent does not stop the clearing.
RaeumPruefenOhneHalt(a) ==
    /\ pc[a] = "raeum_pruefen"
    /\ Gehe(a, "raeum_pop")
    /\ UNCHANGED <<eintrag, verzeichnis, sperre, ort, ziel, liste>>

\* An unsettled intent stops the clearing.
RaeumPruefen(a) ==
    /\ pc[a] = "raeum_pruefen"
    /\ Gehe(a, IF eintrag[Head(liste[a])] \in Erledigt \cup {"fehlt"}
               THEN "raeum_pop" ELSE "verlassen")
    /\ UNCHANGED <<eintrag, verzeichnis, sperre, ort, ziel, liste>>

\* pop takes whatever is at the head of the directory now.
RaeumPop(a) ==
    /\ pc[a] = "raeum_pop"
    /\ verzeichnis' = IF verzeichnis = <<>> THEN <<>> ELSE Tail(verzeichnis)
    /\ Danach(a, "raeum_loeschen")
    /\ UNCHANGED <<eintrag, sperre, ort, ziel, liste>>

\* Delete the entry and go on with the next key of the copy.
RaeumLoeschen(a) ==
    /\ pc[a] = "raeum_loeschen"
    /\ eintrag' = [eintrag EXCEPT ![Head(liste[a])] = "fehlt"]
    /\ liste' = [liste EXCEPT ![a] = Tail(liste[a])]
    /\ Danach(a, IF Tail(liste[a]) = <<>> THEN "verlassen" ELSE "raeum_pruefen")
    /\ UNCHANGED <<verzeichnis, sperre, ort, ziel>>

----------------------------------------------------------------------------
AkteurSchritt(a) ==
    \/ FestLesen(a) \/ FestSetzen(a) \/ FestAnhaengen(a)
    \/ FortLesen(a) \/ FortSetzen(a)
    \/ RaeumLesen(a) \/ RaeumPruefen(a) \/ RaeumPop(a) \/ RaeumLoeschen(a)
    \/ Verlassen(a)

Next ==
    \/ \E a \in Akteur, c \in Coid: Festschreiben(a, c)
    \/ \E a \in Akteur, c \in Coid, z \in Zustand \ {"offen"}: SchreibeFort(a, c, z)
    \/ \E a \in Akteur: Aufraeumen(a)
    \/ \E a \in Akteur: AkteurSchritt(a)
    \/ \E a \in Akteur: Fehler(a) \/ Absturz(a)
    \/ \E n \in Coid \cup {VERZ}: Ablauf(n)

Spec == Init /\ [][Next]_vars

----------------------------------------------------------------------------
(* Properties.                                                             *)

\* What a restart finds under a key: the entry, if the directory lists it
\* (unbestaetigte, offener_intent read the directory first).
Auffindbar == [c \in Coid |-> IF c \in Zeilen THEN eintrag[c] ELSE "fehlt"]

Ideal == INSTANCE OutboxIdeal WITH intent <- Auffindbar

\* Module text of core/outbox.py, "Fehlerrichtung": whatever dies or fails
\* where, a restart sees intents appear as open, move only forward, and
\* disappear only when settled.
HaeltIdeal == Ideal!Spec

\* Every line of the directory names an entry, and no key has two lines:
\* "eine Order, ein Schluessel, ein Eintrag" (OutboxEintrag), and the order
\* of the two writes is chosen so that the directory never points to nothing
\* (festschreiben).
VerzeichnisTreu ==
    /\ \A c \in Zeilen: eintrag[c] # "fehlt"
    /\ \A m, n \in 1..Len(verzeichnis):
          verzeichnis[m] = verzeichnis[n] => m = n

\* Module text: "Darum laufen Zustaende nur vorwaerts"; the two settled
\* states do not overwrite each other (_RANG).
NurVorwaerts ==
    [][\A c \in Coid:
          (eintrag[c] \in Zustand /\ eintrag'[c] \in Zustand
             /\ eintrag'[c] # eintrag[c])
          => Rang[eintrag[c]] < Rang[eintrag'[c]]]_eintrag
=============================================================================
