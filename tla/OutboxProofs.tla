---------------------------- MODULE OutboxProofs ----------------------------
(***************************************************************************)
(* Proofs about the outbox: as long as no section outlasts the time to     *)
(* live of its lock, the outbox implements OutboxIdeal for every set of    *)
(* keys and actors, with any number of crashes and failing calls.          *)
(*                                                                         *)
(* The argument: a section excludes every other section of the same name   *)
(* (SperreGilt).  Hence what a section has read of its key or of the head  *)
(* of the directory still holds when it writes (FestInv, FortInv,          *)
(* RaeumInv).  Writers and the cleaner use different locks; they do not    *)
(* meet because a writer changes unsettled entries only and the cleaner    *)
(* removes settled ones only.                                              *)
(***************************************************************************)
EXTENDS Outbox, TLAPS

USE OutboxAssumption DEF VERZ, Frei, Tot

\* l is an initial part of v.
Anfang(l, v) == Len(l) <= Len(v) /\ \A n \in 1..Len(l): l[n] = v[n]

\* Whoever is inside a section holds its lock.
SperreGilt == \A a \in Akteur: pc[a] # "ruht" => sperre[ort[a]] = a

\* What festschreiben has found or written still holds at its next write.
FestInv ==
    \A a \in Akteur:
        /\ pc[a] = "fest_setzen" => eintrag[ort[a]] = "fehlt"
        /\ pc[a] = "fest_anhaengen" =>
              eintrag[ort[a]] = "offen" /\ ort[a] \notin Zeilen

\* The comparison of ranks still holds when the state is written.
FortInv == \A a \in Akteur: pc[a] = "fort_setzen" => Vorwaerts(ort[a], ziel[a])

\* The copy the cleaner works on is still the head of the directory.
RaeumInv ==
    \A a \in Akteur:
        /\ pc[a] \in {"raeum_pruefen", "raeum_pop"} => Anfang(liste[a], verzeichnis)
        /\ pc[a] \in {"raeum_pop", "raeum_loeschen"} =>
              eintrag[Head(liste[a])] \in Erledigt
        /\ pc[a] = "raeum_loeschen" =>
              /\ Head(liste[a]) \notin Zeilen
              /\ Anfang(Tail(liste[a]), verzeichnis)

IInv == TypeOK /\ SperreGilt /\ FestInv /\ FortInv /\ VerzeichnisTreu /\ RaeumInv

----------------------------------------------------------------------------
(* Sequences.                                                              *)

\* A directory line is appended at the end.
LEMMA ZeilenAppend ==
    ASSUME NEW s \in Seq(Coid), NEW c \in Coid
    PROVE  /\ Append(s, c) \in Seq(Coid)
           /\ ZeilenVon(Append(s, c)) = ZeilenVon(s) \cup {c}
           /\ Len(Append(s, c)) = Len(s) + 1
           /\ \A n \in 1..Len(s): Append(s, c)[n] = s[n]
           /\ Append(s, c)[Len(s) + 1] = c
<1>1. /\ Append(s, c) \in Seq(Coid)
      /\ Len(Append(s, c)) = Len(s) + 1
      /\ \A n \in 1..Len(s): Append(s, c)[n] = s[n]
      /\ Append(s, c)[Len(s) + 1] = c
  OBVIOUS
<1>2. Len(s) \in Nat
  OBVIOUS
<1>3. ZeilenVon(Append(s, c)) = ZeilenVon(s) \cup {c}
  BY <1>1, <1>2 DEF ZeilenVon
<1> QED
  BY <1>1, <1>3

\* The first line is taken off a directory without double lines.
LEMMA ZeilenTail ==
    ASSUME NEW s \in Seq(Coid), s # <<>>,
           \A m, n \in 1..Len(s): s[m] = s[n] => m = n
    PROVE  /\ Tail(s) \in Seq(Coid)
           /\ Head(s) \in Coid
           /\ Head(s) = s[1]
           /\ Len(s) \in Nat \ {0}
           /\ Len(Tail(s)) = Len(s) - 1
           /\ \A n \in 1..(Len(s) - 1): Tail(s)[n] = s[n + 1]
           /\ ZeilenVon(Tail(s)) = ZeilenVon(s) \ {Head(s)}
<1>1. /\ Tail(s) \in Seq(Coid)
      /\ Head(s) \in Coid
      /\ Head(s) = s[1]
      /\ Len(s) \in Nat \ {0}
      /\ Len(Tail(s)) = Len(s) - 1
      /\ \A n \in 1..(Len(s) - 1): Tail(s)[n] = s[n + 1]
  OBVIOUS
<1>2. ASSUME NEW c \in ZeilenVon(Tail(s))
      PROVE  c \in ZeilenVon(s) \ {Head(s)}
  <2>1. PICK n \in 1..(Len(s) - 1): c = s[n + 1]
    BY <1>1, <1>2 DEF ZeilenVon
  <2>2. n + 1 \in 1..Len(s) /\ 1 \in 1..Len(s) /\ n + 1 # 1
    BY <1>1, <2>1
  <2> QED
    BY <1>1, <2>1, <2>2 DEF ZeilenVon
<1>3. ASSUME NEW c \in ZeilenVon(s) \ {Head(s)}
      PROVE  c \in ZeilenVon(Tail(s))
  <2>1. PICK n \in 1..Len(s): c = s[n]
    BY <1>3 DEF ZeilenVon
  <2>2. n # 1
    BY <1>1, <1>3, <2>1
  <2>3. n - 1 \in 1..(Len(s) - 1) /\ (n - 1) + 1 = n
    BY <1>1, <2>1, <2>2
  <2>4. Tail(s)[n - 1] = c
    BY <1>1, <2>1, <2>3
  <2> QED
    BY <1>1, <2>3, <2>4 DEF ZeilenVon
<1>4. ZeilenVon(Tail(s)) = ZeilenVon(s) \ {Head(s)}
  BY <1>2, <1>3
<1> QED
  BY <1>1, <1>4
----------------------------------------------------------------------------
(* The invariant.                                                          *)

USE DEF PcStates, Raeumt, FestPc, FortPc, Zustand, Erledigt

\* The invariant holds initially: nothing is written, nobody is inside.
LEMMA InitIInv == Init => IInv
  BY DEF Init, IInv, TypeOK, SperreGilt, FestInv, FortInv, VerzeichnisTreu,
         RaeumInv, Zeilen, ZeilenVon

\* Entering a section: the lock was free, so nobody else is inside.
LEMMA BetretenIInv ==
    ASSUME IInv, NEW a \in Akteur, NEW n \in Coid \cup {VERZ},
           NEW s \in {"fest_lesen", "fort_lesen", "raeum_lesen"},
           (n = VERZ) <=> (s = "raeum_lesen"),
           Betreten(a, n, s),
           ziel' \in [Akteur -> Zustand],
           \A b \in Akteur \ {a}: ziel'[b] = ziel[b],
           UNCHANGED <<eintrag, verzeichnis, liste>>
    PROVE  IInv'
<1> USE DEF IInv
<1>0. /\ TypeOK /\ SperreGilt /\ FestInv /\ FortInv /\ VerzeichnisTreu /\ RaeumInv
      /\ pc' = [pc EXCEPT ![a] = s] /\ ort' = [ort EXCEPT ![a] = n]
      /\ sperre' = [sperre EXCEPT ![n] = a] /\ sperre[n] = Frei /\ pc[a] = "ruht"
  BY DEF Betreten, Gehe
<1>1. /\ pc'[a] = s /\ ort'[a] = n /\ sperre'[n] = a
      /\ \A b \in Akteur \ {a}: pc'[b] = pc[b] /\ ort'[b] = ort[b]
      /\ \A m \in (Coid \cup {VERZ}) \ {n}: sperre'[m] = sperre[m]
  BY <1>0 DEF TypeOK
<1>2. TypeOK'
  BY <1>0, <1>1 DEF TypeOK
<1>3. SperreGilt'
  <2> SUFFICES ASSUME NEW b \in Akteur, pc'[b] # "ruht"
               PROVE  sperre'[ort'[b]] = b
    BY DEF SperreGilt
  <2>1. CASE b = a
    BY <1>1, <2>1
  <2>2. CASE b # a
    <3>1. sperre[ort[b]] = b /\ ort[b] \in Coid \cup {VERZ}
      BY <1>0, <1>1, <2>2 DEF SperreGilt, TypeOK
    <3>2. ort[b] # n
      BY <1>0, <3>1
    <3> QED
      BY <1>1, <2>2, <3>1, <3>2
  <2> QED
    BY <2>1, <2>2
<1>4. Zeilen' = Zeilen
  BY DEF Zeilen
<1>5. FestInv'
  BY <1>0, <1>1, <1>4 DEF FestInv
<1>6. FortInv'
  BY <1>0, <1>1 DEF FortInv, Vorwaerts
<1>7. VerzeichnisTreu'
  BY <1>0, <1>4 DEF VerzeichnisTreu
<1>8. RaeumInv'
  BY <1>0, <1>1, <1>4 DEF RaeumInv
<1> QED
  BY <1>2, <1>3, <1>5, <1>6, <1>7, <1>8

\* Leaving a section, orderly or by a crash, affects no other section.
LEMMA RuheIInv ==
    ASSUME IInv, NEW a \in Akteur, Ruhe(a), pc[a] # "ruht",
           sperre' = [sperre EXCEPT ![ort[a]] = Frei] \/
           sperre' = [sperre EXCEPT ![ort[a]] = Tot],
           UNCHANGED <<eintrag, verzeichnis>>
    PROVE  IInv'
<1> USE DEF IInv
<1>0. /\ TypeOK /\ SperreGilt /\ FestInv /\ FortInv /\ VerzeichnisTreu /\ RaeumInv
      /\ pc' = [pc EXCEPT ![a] = "ruht"] /\ ort' = [ort EXCEPT ![a] = VERZ]
      /\ ziel' = [ziel EXCEPT ![a] = "offen"]
      /\ liste' = [liste EXCEPT ![a] = <<>>]
  BY DEF Ruhe, Gehe
<1>1. /\ pc'[a] = "ruht" /\ ort'[a] = VERZ
      /\ \A b \in Akteur \ {a}: /\ pc'[b] = pc[b] /\ ort'[b] = ort[b]
                               /\ ziel'[b] = ziel[b] /\ liste'[b] = liste[b]
      /\ \A m \in (Coid \cup {VERZ}) \ {ort[a]}: sperre'[m] = sperre[m]
  BY <1>0 DEF TypeOK
<1>2. TypeOK'
  BY <1>0, <1>1, SMTT(40) DEF TypeOK
<1>3. SperreGilt'
  <2> SUFFICES ASSUME NEW b \in Akteur, pc'[b] # "ruht"
               PROVE  sperre'[ort'[b]] = b
    BY DEF SperreGilt
  <2>1. b # a
    BY <1>1
  <2>2. sperre[ort[b]] = b /\ ort[b] \in Coid \cup {VERZ} /\ sperre[ort[a]] = a
    BY <1>0, <1>1, <2>1 DEF SperreGilt, TypeOK
  <2> QED
    BY <1>1, <2>1, <2>2
<1>4. Zeilen' = Zeilen
  BY DEF Zeilen
<1>5. FestInv'
  BY <1>0, <1>1, <1>4 DEF FestInv
<1>6. FortInv'
  BY <1>0, <1>1 DEF FortInv, Vorwaerts
<1>7. VerzeichnisTreu'
  BY <1>0, <1>4 DEF VerzeichnisTreu
<1>8. RaeumInv'
  BY <1>0, <1>1, <1>4 DEF RaeumInv
<1> QED
  BY <1>2, <1>3, <1>5, <1>6, <1>7, <1>8

\* A step inside a section keeps the locks and the place of every actor.
InnenSchritt(a) ==
    /\ pc[a] # "ruht" /\ pc'[a] # "ruht"
    /\ pc' \in [Akteur -> PcStates]
    /\ \A b \in Akteur \ {a}: pc'[b] = pc[b]
    /\ UNCHANGED <<sperre, ort, ziel>>

\* A step inside a section does not disturb mutual exclusion.
LEMMA InnenSperre ==
    ASSUME SperreGilt, NEW a \in Akteur, InnenSchritt(a)
    PROVE  SperreGilt'
  BY DEF SperreGilt, InnenSchritt

\* Two actors inside sections of the same name are the same actor.
LEMMA Ausschluss ==
    ASSUME SperreGilt, NEW a \in Akteur, NEW b \in Akteur,
           pc[a] # "ruht", pc[b] # "ruht", ort[a] = ort[b]
    PROVE  a = b
  BY DEF SperreGilt
\* The steps that only read, and a call that fails without effect.
LEMMA LeseSchritte ==
    ASSUME IInv, NEW a \in Akteur,
           FestLesen(a) \/ FortLesen(a) \/ RaeumLesen(a) \/ RaeumPruefen(a)
             \/ Fehler(a)
    PROVE  IInv'
<1> USE DEF IInv
<1>0. TypeOK /\ SperreGilt /\ FestInv /\ FortInv /\ VerzeichnisTreu /\ RaeumInv
  OBVIOUS
<1>1. /\ UNCHANGED <<eintrag, verzeichnis, sperre, ort, ziel>>
      /\ Zeilen' = Zeilen
      /\ pc[a] # "ruht" /\ pc'[a] # "ruht"
      /\ pc' \in [Akteur -> PcStates]
      /\ \A b \in Akteur \ {a}: pc'[b] = pc[b]
  BY ZenonT(60) DEF FestLesen, FortLesen, RaeumLesen, RaeumPruefen, Fehler, Gehe, TypeOK, Zeilen
<1>2. SperreGilt'
  BY <1>1, InnenSperre DEF InnenSchritt
<1>3. VerzeichnisTreu'
  BY <1>1 DEF VerzeichnisTreu
<1>4. CASE FestLesen(a)
  <2>1. /\ UNCHANGED liste /\ pc'[a] \in {"fest_setzen", "verlassen"}
        /\ pc[a] = "fest_lesen"
        /\ pc'[a] = "fest_setzen" => eintrag[ort[a]] = "fehlt"
    BY <1>4 DEF FestLesen, Gehe, TypeOK
  <2>2. TypeOK'
    BY <1>1, <2>1 DEF TypeOK
  <2>3. FestInv' /\ FortInv' /\ RaeumInv'
    BY <1>1, <2>1 DEF FestInv, FortInv, RaeumInv, Vorwaerts
  <2> QED
    BY <1>2, <1>3, <2>2, <2>3
<1>5. CASE FortLesen(a)
  <2>1. /\ UNCHANGED liste /\ pc'[a] \in {"fort_setzen", "verlassen"}
        /\ pc[a] = "fort_lesen"
        /\ pc'[a] = "fort_setzen" => Vorwaerts(ort[a], ziel[a])
    BY <1>5 DEF FortLesen, Gehe, TypeOK
  <2>2. TypeOK'
    BY <1>1, <2>1 DEF TypeOK
  <2>3. FestInv' /\ FortInv' /\ RaeumInv'
    BY <1>1, <2>1 DEF FestInv, FortInv, RaeumInv, Vorwaerts
  <2> QED
    BY <1>2, <1>3, <2>2, <2>3
<1>6. CASE RaeumLesen(a)
  <2>1. /\ pc'[a] \in {"raeum_pruefen", "verlassen"}
        /\ pc[a] = "raeum_lesen" /\ liste'[a] = verzeichnis
        /\ liste' \in [Akteur -> Seq(Coid)]
        /\ \A b \in Akteur \ {a}: liste'[b] = liste[b]
        /\ pc'[a] = "raeum_pruefen" => verzeichnis # <<>>
    BY <1>6 DEF RaeumLesen, Gehe, TypeOK
  <2>2. TypeOK'
    BY <1>1, <2>1 DEF TypeOK
  <2>3. FestInv' /\ FortInv'
    BY <1>1, <2>1, ZenonT(60) DEF FestInv, FortInv, Vorwaerts
  <2>4. Anfang(verzeichnis, verzeichnis)
    BY DEF Anfang, TypeOK
  <2>5. RaeumInv'
    BY <1>1, <2>1, <2>4 DEF RaeumInv
  <2> QED
    BY <1>2, <1>3, <2>2, <2>3, <2>5
<1>7. CASE RaeumPruefen(a)
  <2>1. /\ UNCHANGED liste /\ pc'[a] \in {"raeum_pop", "verlassen"}
        /\ pc[a] = "raeum_pruefen"
        /\ pc'[a] = "raeum_pop" => eintrag[Head(liste[a])] \in Erledigt \cup {"fehlt"}
    BY <1>7 DEF RaeumPruefen, Gehe, TypeOK
  <2>2. TypeOK'
    BY <1>1, <2>1 DEF TypeOK
  <2>3. Head(liste[a]) \in Zeilen
    <3>1. /\ liste[a] \in Seq(Coid) /\ liste[a] # <<>> /\ verzeichnis \in Seq(Coid)
          /\ Anfang(liste[a], verzeichnis)
      BY <2>1 DEF TypeOK, RaeumInv
    <3>2. Head(liste[a]) = liste[a][1] /\ 1 \in 1..Len(liste[a]) /\ Len(verzeichnis) \in Nat
      BY <3>1
    <3>3. 1 \in 1..Len(verzeichnis) /\ liste[a][1] = verzeichnis[1]
      BY <3>1, <3>2 DEF Anfang
    <3> QED
      BY <3>2, <3>3 DEF Zeilen, ZeilenVon
  <2>4. eintrag[Head(liste[a])] # "fehlt"
    BY <2>3 DEF VerzeichnisTreu
  <2>5. FestInv' /\ FortInv' /\ RaeumInv'
    BY <1>1, <2>1, <2>4 DEF FestInv, FortInv, RaeumInv, Vorwaerts
  <2> QED
    BY <1>2, <1>3, <2>2, <2>5
<1>8. CASE Fehler(a)
  <2>1. UNCHANGED liste /\ pc'[a] = "verlassen"
    BY <1>8 DEF Fehler, Gehe, TypeOK
  <2>2. TypeOK'
    BY <1>1, <2>1 DEF TypeOK
  <2>3. FestInv' /\ FortInv' /\ RaeumInv'
    BY <1>1, <2>1 DEF FestInv, FortInv, RaeumInv, Vorwaerts
  <2> QED
    BY <1>2, <1>3, <2>2, <2>3
<1> QED
  BY <1>4, <1>5, <1>6, <1>7, <1>8

\* festschreiben writes an entry that nobody else writes or lists.
LEMMA FestSetzenIInv ==
    ASSUME IInv, NEW a \in Akteur, FestSetzen(a)
    PROVE  IInv'
<1> USE DEF IInv
<1>0. TypeOK /\ SperreGilt /\ FestInv /\ FortInv /\ VerzeichnisTreu /\ RaeumInv
  OBVIOUS
<1>1. /\ UNCHANGED <<verzeichnis, sperre, ort, ziel, liste>>
      /\ Zeilen' = Zeilen
      /\ pc[a] = "fest_setzen" /\ pc'[a] \in {"fest_anhaengen", "verlassen"}
      /\ pc' \in [Akteur -> PcStates]
      /\ \A b \in Akteur \ {a}: pc'[b] = pc[b]
      /\ ort[a] \in Coid /\ eintrag[ort[a]] = "fehlt"
      /\ eintrag' = [eintrag EXCEPT ![ort[a]] = "offen"]
  BY ZenonT(60) DEF FestSetzen, Danach, Gehe, TypeOK, Zeilen, FestInv
<1>2. /\ eintrag' \in [Coid -> Zustand \cup {"fehlt"}]
      /\ eintrag'[ort[a]] = "offen"
      /\ \A c \in Coid \ {ort[a]}: eintrag'[c] = eintrag[c]
      /\ ort[a] \notin Zeilen
  BY <1>1 DEF TypeOK, VerzeichnisTreu
<1>3. TypeOK'
  BY <1>1, <1>2 DEF TypeOK
<1>4. SperreGilt'
  BY <1>1, InnenSperre DEF InnenSchritt
<1>5. ASSUME NEW b \in Akteur \ {a}, pc[b] # "ruht"
      PROVE  ort[b] # ort[a]
  BY <1>1, <1>5, Ausschluss
<1>6. FestInv'
  <2> SUFFICES ASSUME NEW b \in Akteur
               PROVE  /\ pc'[b] = "fest_setzen" => eintrag'[ort[b]] = "fehlt"
                      /\ pc'[b] = "fest_anhaengen" =>
                            eintrag'[ort[b]] = "offen" /\ ort[b] \notin Zeilen
    BY <1>1 DEF FestInv
  <2>1. CASE b = a
    BY <1>1, <1>2, <2>1
  <2>2. CASE b # a
    BY <1>1, <1>2, <1>5, <2>2 DEF FestInv, TypeOK
  <2> QED
    BY <2>1, <2>2
<1>7. FortInv'
  BY <1>1, <1>2, <1>5 DEF FortInv, Vorwaerts, TypeOK
<1>8. VerzeichnisTreu'
  BY <1>1, <1>2 DEF VerzeichnisTreu, Zeilen, ZeilenVon, TypeOK
<1>9. RaeumInv'
  <2> SUFFICES ASSUME NEW b \in Akteur, pc[b] \in {"raeum_pop", "raeum_loeschen"}
               PROVE  eintrag'[Head(liste[b])] \in Erledigt
    BY <1>1 DEF RaeumInv
  <2>1. eintrag[Head(liste[b])] \in Erledigt /\ Head(liste[b]) \in Coid
    BY DEF RaeumInv, TypeOK
  <2> QED
    BY <1>1, <1>2, <2>1
<1> QED
  BY <1>3, <1>4, <1>6, <1>7, <1>8, <1>9

\* A state is moved forward only from an unsettled one.
LEMMA FortSetzenIInv ==
    ASSUME IInv, NEW a \in Akteur, FortSetzen(a)
    PROVE  IInv'
<1> USE DEF IInv
<1>0. TypeOK /\ SperreGilt /\ FestInv /\ FortInv /\ VerzeichnisTreu /\ RaeumInv
  OBVIOUS
<1>1. /\ UNCHANGED <<verzeichnis, sperre, ort, ziel, liste>>
      /\ Zeilen' = Zeilen
      /\ pc[a] = "fort_setzen" /\ pc'[a] = "verlassen"
      /\ pc' \in [Akteur -> PcStates]
      /\ \A b \in Akteur \ {a}: pc'[b] = pc[b]
      /\ ort[a] \in Coid /\ ziel[a] \in Zustand
      /\ eintrag[ort[a]] \in Zustand /\ Rang[eintrag[ort[a]]] < Rang[ziel[a]]
      /\ eintrag' = [eintrag EXCEPT ![ort[a]] = ziel[a]]
  BY DEF FortSetzen, Gehe, TypeOK, Zeilen, FortInv, Vorwaerts
<1>2. /\ eintrag' \in [Coid -> Zustand \cup {"fehlt"}]
      /\ eintrag'[ort[a]] = ziel[a]
      /\ \A c \in Coid \ {ort[a]}: eintrag'[c] = eintrag[c]
      /\ eintrag[ort[a]] \notin Erledigt
  BY <1>1 DEF TypeOK, Rang
<1>3. TypeOK'
  BY <1>1, <1>2 DEF TypeOK
<1>4. SperreGilt'
  BY <1>1, InnenSperre DEF InnenSchritt
<1>5. ASSUME NEW b \in Akteur \ {a}, pc[b] # "ruht"
      PROVE  ort[b] # ort[a]
  BY <1>1, <1>5, Ausschluss
<1>6. FestInv'
  BY <1>1, <1>2, <1>5 DEF FestInv, TypeOK
<1>7. FortInv'
  BY <1>1, <1>2, <1>5 DEF FortInv, Vorwaerts, TypeOK
<1>8. VerzeichnisTreu'
  BY <1>1, <1>2 DEF VerzeichnisTreu, Zeilen, ZeilenVon, TypeOK
<1>9. RaeumInv'
  <2> SUFFICES ASSUME NEW b \in Akteur, pc[b] \in {"raeum_pop", "raeum_loeschen"}
               PROVE  eintrag'[Head(liste[b])] \in Erledigt
    BY <1>1 DEF RaeumInv
  <2>1. eintrag[Head(liste[b])] \in Erledigt /\ Head(liste[b]) \in Coid
    BY DEF RaeumInv, TypeOK
  <2> QED
    BY <1>2, <2>1
<1> QED
  BY <1>3, <1>4, <1>6, <1>7, <1>8, <1>9
\* A new line at the end of the directory.
LEMMA FestAnhaengenIInv ==
    ASSUME IInv, NEW a \in Akteur, FestAnhaengen(a)
    PROVE  IInv'
<1> USE DEF IInv
<1>0. TypeOK /\ SperreGilt /\ FestInv /\ FortInv /\ VerzeichnisTreu /\ RaeumInv
  OBVIOUS
<1>1. /\ UNCHANGED <<eintrag, sperre, ort, ziel, liste>>
      /\ pc[a] = "fest_anhaengen" /\ pc'[a] = "verlassen"
      /\ pc' \in [Akteur -> PcStates]
      /\ \A b \in Akteur \ {a}: pc'[b] = pc[b]
      /\ ort[a] \in Coid
      /\ verzeichnis' = Append(verzeichnis, ort[a])
      /\ verzeichnis \in Seq(Coid) /\ Len(verzeichnis) \in Nat
      /\ eintrag[ort[a]] = "offen" /\ ort[a] \notin Zeilen
  BY DEF FestAnhaengen, Gehe, TypeOK, FestInv
<1>2. /\ verzeichnis' \in Seq(Coid)
      /\ Zeilen' = Zeilen \cup {ort[a]}
      /\ Len(verzeichnis') = Len(verzeichnis) + 1
      /\ \A n \in 1..Len(verzeichnis): verzeichnis'[n] = verzeichnis[n]
      /\ verzeichnis'[Len(verzeichnis) + 1] = ort[a]
  BY <1>1, ZeilenAppend DEF Zeilen
<1>3. TypeOK'
  BY <1>1, <1>2 DEF TypeOK
<1>4. SperreGilt'
  BY <1>1, InnenSperre DEF InnenSchritt
<1>5. ASSUME NEW b \in Akteur \ {a}, pc[b] # "ruht"
      PROVE  ort[b] # ort[a]
  BY <1>1, <1>5, Ausschluss
<1>6. FestInv'
  BY <1>1, <1>2, <1>5 DEF FestInv
<1>7. FortInv'
  BY <1>1, <1>5 DEF FortInv, Vorwaerts
<1>8. VerzeichnisTreu'
  <2>1. \A c \in Zeilen': eintrag'[c] # "fehlt"
    BY <1>1, <1>2 DEF VerzeichnisTreu
  <2>2. ASSUME NEW m \in 1..Len(verzeichnis'), NEW n \in 1..Len(verzeichnis'),
               verzeichnis'[m] = verzeichnis'[n]
        PROVE  m = n
    <3>1. \A k \in 1..Len(verzeichnis): verzeichnis[k] # ort[a]
      BY <1>1 DEF Zeilen, ZeilenVon
    <3>2. m \in 1..Len(verzeichnis) \/ m = Len(verzeichnis) + 1
      BY <1>1, <1>2
    <3>3. n \in 1..Len(verzeichnis) \/ n = Len(verzeichnis) + 1
      BY <1>1, <1>2
    <3> QED
      BY <1>2, <2>2, <3>1, <3>2, <3>3 DEF VerzeichnisTreu
  <2> QED
    BY <2>1, <2>2 DEF VerzeichnisTreu
<1>9. RaeumInv'
  <2>1. ASSUME NEW l \in Seq(Coid), Anfang(l, verzeichnis)
        PROVE  Anfang(l, verzeichnis')
    BY <1>1, <1>2, <2>1 DEF Anfang
  <2> SUFFICES ASSUME NEW b \in Akteur, b # a
               PROVE  /\ pc[b] \in {"raeum_pruefen", "raeum_pop"} =>
                            Anfang(liste[b], verzeichnis')
                      /\ pc[b] \in {"raeum_pop", "raeum_loeschen"} =>
                            eintrag[Head(liste[b])] \in Erledigt
                      /\ pc[b] = "raeum_loeschen" =>
                            /\ Head(liste[b]) \notin Zeilen'
                            /\ Anfang(Tail(liste[b]), verzeichnis')
    BY <1>1 DEF RaeumInv
  <2>2. liste[b] \in Seq(Coid)
    BY DEF TypeOK
  <2>3. pc[b] \in {"raeum_pruefen", "raeum_pop"} => Anfang(liste[b], verzeichnis')
    BY <2>1, <2>2 DEF RaeumInv
  <2>4. pc[b] \in {"raeum_pop", "raeum_loeschen"} => eintrag[Head(liste[b])] \in Erledigt
    BY DEF RaeumInv
  <2>5. CASE pc[b] = "raeum_loeschen"
    <3>1. Tail(liste[b]) \in Seq(Coid)
      BY <2>2, <2>5 DEF TypeOK
    <3>2. Anfang(Tail(liste[b]), verzeichnis) /\ Head(liste[b]) \notin Zeilen
      BY <2>5 DEF RaeumInv
    <3>3. Head(liste[b]) # ort[a]
      BY <1>1, <2>4, <2>5
    <3> QED
      BY <1>2, <2>1, <2>3, <2>4, <2>5, <3>1, <3>2, <3>3
  <2> QED
    BY <2>3, <2>4, <2>5
<1> QED
  BY <1>3, <1>4, <1>6, <1>7, <1>8, <1>9

\* The line that is popped is the one that was judged to be settled.
LEMMA PopTrifft ==
    ASSUME IInv, NEW a \in Akteur, pc[a] = "raeum_pop"
    PROVE  /\ verzeichnis \in Seq(Coid) /\ verzeichnis # <<>>
           /\ liste[a] \in Seq(Coid) /\ liste[a] # <<>>
           /\ Head(verzeichnis) = Head(liste[a])
           /\ Anfang(Tail(liste[a]), Tail(verzeichnis))
           /\ eintrag[Head(liste[a])] \in Erledigt
<1>1. /\ verzeichnis \in Seq(Coid) /\ liste[a] \in Seq(Coid) /\ liste[a] # <<>>
      /\ Anfang(liste[a], verzeichnis) /\ eintrag[Head(liste[a])] \in Erledigt
  BY DEF IInv, TypeOK, RaeumInv
<1>2. Len(liste[a]) \in Nat \ {0} /\ Len(verzeichnis) \in Nat
  BY <1>1
<1>3. verzeichnis # <<>> /\ 1 \in 1..Len(liste[a])
  BY <1>1, <1>2 DEF Anfang
<1>4. Head(verzeichnis) = verzeichnis[1] /\ Head(liste[a]) = liste[a][1]
  BY <1>1, <1>3
<1>5. Head(verzeichnis) = Head(liste[a])
  BY <1>1, <1>3, <1>4 DEF Anfang
<1>6. /\ Len(Tail(liste[a])) = Len(liste[a]) - 1
      /\ Len(Tail(verzeichnis)) = Len(verzeichnis) - 1
      /\ \A n \in 1..(Len(liste[a]) - 1): Tail(liste[a])[n] = liste[a][n + 1]
      /\ \A n \in 1..(Len(verzeichnis) - 1): Tail(verzeichnis)[n] = verzeichnis[n + 1]
  BY <1>1, <1>3
<1>7. Anfang(Tail(liste[a]), Tail(verzeichnis))
  <2>1. Len(liste[a]) <= Len(verzeichnis)
    BY <1>1 DEF Anfang
  <2>2. ASSUME NEW n \in 1..(Len(liste[a]) - 1)
        PROVE  Tail(liste[a])[n] = Tail(verzeichnis)[n]
    <3>1. n \in 1..(Len(verzeichnis) - 1) /\ n + 1 \in 1..Len(liste[a])
      BY <1>2, <2>1
    <3> QED
      BY <1>1, <1>6, <3>1 DEF Anfang
  <2> QED
    BY <1>2, <1>6, <2>1, <2>2 DEF Anfang
<1> QED
  BY <1>1, <1>3, <1>5, <1>7

\* Popping a settled line.
LEMMA RaeumPopIInv ==
    ASSUME IInv, NEW a \in Akteur, RaeumPop(a)
    PROVE  /\ IInv'
           /\ Zeilen' = Zeilen \ {Head(liste[a])}
<1> USE DEF IInv
<1>0. TypeOK /\ SperreGilt /\ FestInv /\ FortInv /\ VerzeichnisTreu /\ RaeumInv
  OBVIOUS
<1>1. /\ UNCHANGED <<eintrag, sperre, ort, ziel, liste>>
      /\ pc[a] = "raeum_pop" /\ pc'[a] \in {"raeum_loeschen", "verlassen"}
      /\ pc' \in [Akteur -> PcStates]
      /\ \A b \in Akteur \ {a}: pc'[b] = pc[b]
      /\ ort[a] = VERZ
  BY DEF RaeumPop, Danach, Gehe, TypeOK
<1>2. /\ verzeichnis \in Seq(Coid) /\ verzeichnis # <<>>
      /\ liste[a] \in Seq(Coid) /\ liste[a] # <<>>
      /\ Head(verzeichnis) = Head(liste[a])
      /\ Anfang(Tail(liste[a]), Tail(verzeichnis))
      /\ eintrag[Head(liste[a])] \in Erledigt
  BY <1>1, PopTrifft
<1>3. verzeichnis' = Tail(verzeichnis)
  BY <1>2 DEF RaeumPop
<1>4. \A m, n \in 1..Len(verzeichnis): verzeichnis[m] = verzeichnis[n] => m = n
  BY DEF VerzeichnisTreu
<1>5. /\ verzeichnis' \in Seq(Coid)
      /\ Len(verzeichnis) \in Nat \ {0}
      /\ Len(verzeichnis') = Len(verzeichnis) - 1
      /\ \A n \in 1..(Len(verzeichnis) - 1): verzeichnis'[n] = verzeichnis[n + 1]
      /\ Zeilen' = Zeilen \ {Head(liste[a])}
  BY <1>2, <1>3, <1>4, ZeilenTail DEF Zeilen
<1>6. TypeOK'
  BY <1>1, <1>2, <1>5 DEF TypeOK
<1>7. SperreGilt'
  BY <1>1, InnenSperre DEF InnenSchritt
<1>8. ASSUME NEW b \in Akteur \ {a}, pc[b] # "ruht"
      PROVE  ort[b] # ort[a]
  BY <1>1, <1>8, Ausschluss
<1>9. FestInv'
  BY <1>1, <1>5 DEF FestInv
<1>10. FortInv'
  BY <1>1 DEF FortInv, Vorwaerts
<1>11. VerzeichnisTreu'
  <2>1. ASSUME NEW m \in 1..Len(verzeichnis'), NEW n \in 1..Len(verzeichnis'),
               verzeichnis'[m] = verzeichnis'[n]
        PROVE  m = n
    <3>1. /\ m + 1 \in 1..Len(verzeichnis) /\ n + 1 \in 1..Len(verzeichnis)
          /\ verzeichnis[m + 1] = verzeichnis[n + 1]
      BY <1>5, <2>1
    <3>2. m + 1 = n + 1
      BY <1>4, <3>1
    <3> QED
      BY <1>5, <3>2
  <2> QED
    BY <1>1, <1>5, <2>1 DEF VerzeichnisTreu
<1>12. RaeumInv'
  <2>1. ASSUME NEW b \in Akteur, b # a
        PROVE  pc[b] \notin {"raeum_pruefen", "raeum_pop", "raeum_loeschen"}
    BY <1>1, <1>8, <2>1 DEF TypeOK
  <2>2. pc'[a] = "raeum_loeschen" =>
           /\ Head(liste[a]) \notin Zeilen'
           /\ Anfang(Tail(liste[a]), verzeichnis')
    BY <1>2, <1>3, <1>5
  <2> QED
    BY <1>1, <1>2, <2>1, <2>2 DEF RaeumInv
<1> QED
  BY <1>5, <1>6, <1>7, <1>9, <1>10, <1>11, <1>12

\* Deleting the entry of a popped line.
LEMMA RaeumLoeschenIInv ==
    ASSUME IInv, NEW a \in Akteur, RaeumLoeschen(a)
    PROVE  IInv'
<1> USE DEF IInv
<1>0. TypeOK /\ SperreGilt /\ FestInv /\ FortInv /\ VerzeichnisTreu /\ RaeumInv
  OBVIOUS
<1> DEFINE k == Head(liste[a])
<1>1. /\ UNCHANGED <<verzeichnis, sperre, ort, ziel>>
      /\ Zeilen' = Zeilen
      /\ pc[a] = "raeum_loeschen" /\ pc'[a] \in {"raeum_pruefen", "verlassen"}
      /\ pc'[a] = "raeum_pruefen" => Tail(liste[a]) # <<>>
      /\ pc' \in [Akteur -> PcStates]
      /\ \A b \in Akteur \ {a}: pc'[b] = pc[b]
      /\ ort[a] = VERZ /\ liste[a] \in Seq(Coid) /\ liste[a] # <<>>
      /\ eintrag' = [eintrag EXCEPT ![k] = "fehlt"]
      /\ liste' = [liste EXCEPT ![a] = Tail(liste[a])]
  BY ZenonT(60) DEF RaeumLoeschen, Danach, Gehe, TypeOK, Zeilen
<1>2. k \in Coid /\ Tail(liste[a]) \in Seq(Coid)
  BY <1>1
<1>3. /\ eintrag' \in [Coid -> Zustand \cup {"fehlt"}]
      /\ eintrag'[k] = "fehlt"
      /\ \A c \in Coid \ {k}: eintrag'[c] = eintrag[c]
      /\ liste' \in [Akteur -> Seq(Coid)]
      /\ liste'[a] = Tail(liste[a])
      /\ \A b \in Akteur \ {a}: liste'[b] = liste[b]
      /\ eintrag[k] \in Erledigt /\ k \notin Zeilen
      /\ Anfang(Tail(liste[a]), verzeichnis)
  BY <1>1, <1>2 DEF TypeOK, RaeumInv
<1> HIDE DEF k
<1>4. TypeOK'
  BY <1>1, <1>3 DEF TypeOK
<1>5. SperreGilt'
  BY <1>1, InnenSperre DEF InnenSchritt
<1>6. ASSUME NEW b \in Akteur \ {a}, pc[b] # "ruht"
      PROVE  ort[b] # ort[a]
  BY <1>1, <1>6, Ausschluss
<1>7. FestInv'
  BY <1>1, <1>2, <1>3 DEF FestInv, TypeOK
<1>8. FortInv'
  <2> SUFFICES ASSUME NEW b \in Akteur, pc'[b] = "fort_setzen"
               PROVE  eintrag'[ort[b]] # "fehlt" /\ Rang[eintrag'[ort[b]]] < Rang[ziel[b]]
    BY <1>1 DEF FortInv, Vorwaerts
  <2>1. /\ b # a /\ pc[b] = "fort_setzen" /\ ort[b] \in Coid /\ ziel[b] \in Zustand
        /\ eintrag[ort[b]] # "fehlt" /\ Rang[eintrag[ort[b]]] < Rang[ziel[b]]
    BY <1>1 DEF FortInv, Vorwaerts, TypeOK
  <2>2. eintrag[ort[b]] \notin Erledigt
    BY <2>1 DEF Rang
  <2>3. ort[b] # k
    BY <1>3, <2>2
  <2> QED
    BY <1>3, <2>1, <2>3
<1>9. VerzeichnisTreu'
  <2>1. \A c \in Zeilen: c \in Coid /\ c # k
    BY <1>3 DEF Zeilen, ZeilenVon, TypeOK
  <2> QED
    BY <1>1, <1>3, <2>1 DEF VerzeichnisTreu
<1>10. RaeumInv'
  <2>1. ASSUME NEW b \in Akteur, b # a
        PROVE  pc[b] \notin {"raeum_pruefen", "raeum_pop", "raeum_loeschen"}
    BY <1>1, <1>6, <2>1 DEF TypeOK
  <2> QED
    BY <1>1, <1>3, <2>1 DEF RaeumInv
<1> QED
  BY <1>4, <1>5, <1>7, <1>8, <1>9, <1>10
\* Every step preserves the invariant, as long as no section outlasts its lock.
LEMMA NextIInv ==
    ASSUME FristLaeuft = FALSE, IInv, [Next]_vars
    PROVE  IInv'
<1>1. CASE UNCHANGED vars
  BY <1>1 DEF vars, IInv, TypeOK, SperreGilt, FestInv, FortInv, VerzeichnisTreu,
              RaeumInv, Zeilen, Vorwaerts
<1>2. ASSUME NEW a \in Akteur, NEW c \in Coid, Festschreiben(a, c)
      PROVE  IInv'
  <2>1. ziel' = ziel /\ ziel \in [Akteur -> Zustand]
    BY <1>2 DEF Festschreiben, IInv, TypeOK
  <2> QED
    BY <1>2, <2>1, BetretenIInv DEF Festschreiben
<1>3. ASSUME NEW a \in Akteur, NEW c \in Coid, NEW z \in Zustand,
             SchreibeFort(a, c, z)
      PROVE  IInv'
  <2>1. /\ ziel' \in [Akteur -> Zustand]
        /\ \A b \in Akteur \ {a}: ziel'[b] = ziel[b]
    BY <1>3 DEF SchreibeFort, IInv, TypeOK
  <2> QED
    BY <1>3, <2>1, BetretenIInv DEF SchreibeFort
<1>4. ASSUME NEW a \in Akteur, Aufraeumen(a)
      PROVE  IInv'
  <2>1. ziel' = ziel /\ ziel \in [Akteur -> Zustand]
    BY <1>4 DEF Aufraeumen, IInv, TypeOK
  <2> QED
    BY <1>4, <2>1, BetretenIInv DEF Aufraeumen
<1>5. ASSUME NEW a \in Akteur, Verlassen(a) \/ Absturz(a)
      PROVE  IInv'
  <2>1. pc[a] # "ruht" /\ Ruhe(a) /\ UNCHANGED <<eintrag, verzeichnis>>
    BY <1>5 DEF Verlassen, Absturz
  <2>2. sperre[ort[a]] = a
    BY <2>1 DEF IInv, SperreGilt
  <2>3. sperre' = [sperre EXCEPT ![ort[a]] = Frei] \/
        sperre' = [sperre EXCEPT ![ort[a]] = Tot]
    BY <1>5, <2>2 DEF Verlassen, Absturz
  <2> QED
    BY <2>1, <2>3, RuheIInv
<1>6. ASSUME NEW n \in Coid \cup {VERZ}, Ablauf(n)
      PROVE  IInv'
  <2>0. /\ TypeOK /\ SperreGilt /\ FestInv /\ FortInv /\ VerzeichnisTreu /\ RaeumInv
    BY DEF IInv
  <2>1. /\ sperre[n] = Tot /\ sperre' = [sperre EXCEPT ![n] = Frei]
        /\ UNCHANGED <<eintrag, verzeichnis, pc, ort, ziel, liste>>
        /\ Zeilen' = Zeilen
    BY <1>6 DEF Ablauf, Zeilen
  <2>2. TypeOK'
    BY <2>0, <2>1 DEF TypeOK
  <2>3. SperreGilt'
    BY <2>0, <2>1 DEF SperreGilt, TypeOK
  <2>4. FestInv' /\ FortInv' /\ VerzeichnisTreu' /\ RaeumInv'
    BY <2>0, <2>1 DEF FestInv, FortInv, VerzeichnisTreu, RaeumInv, Vorwaerts
  <2> QED
    BY <2>2, <2>3, <2>4 DEF IInv
<1>7. ASSUME NEW a \in Akteur, AkteurSchritt(a) \/ Fehler(a)
      PROVE  IInv'
  BY <1>5, <1>7, LeseSchritte, FestSetzenIInv, FortSetzenIInv, FestAnhaengenIInv,
     RaeumPopIInv, RaeumLoeschenIInv DEF AkteurSchritt
<1> QED
  BY <1>1, <1>2, <1>3, <1>4, <1>5, <1>6, <1>7 DEF Next

\* The inductive invariant holds in every reachable state.
THEOREM OutboxInvariante ==
    ASSUME FristLaeuft = FALSE
    PROVE  Spec => []IInv
<1>1. Init => IInv
  BY InitIInv
<1>2. IInv /\ [Next]_vars => IInv'
  BY NextIInv
<1> QED
  BY <1>1, <1>2, PTL DEF Spec

\* Type correctness of the outbox (TypeOK) for every set of keys and actors.
THEOREM OutboxTypKorrekt ==
    ASSUME FristLaeuft = FALSE
    PROVE  Spec => []TypeOK
<1>1. IInv => TypeOK
  BY DEF IInv
<1> QED
  BY <1>1, OutboxInvariante, PTL

\* The directory never points to nothing and never lists a key twice
\* (VerzeichnisTreu), whatever dies or fails where.
THEOREM VerzeichnisSicher ==
    ASSUME FristLaeuft = FALSE
    PROVE  Spec => []VerzeichnisTreu
<1>1. IInv => VerzeichnisTreu
  BY DEF IInv
<1> QED
  BY <1>1, OutboxInvariante, PTL

----------------------------------------------------------------------------
(* Refinement.                                                             *)

\* Initially a restart finds nothing.
LEMMA InitIdeal == Init => Ideal!Init
  BY DEF Init, Ideal!Init, Auffindbar, Zeilen, ZeilenVon

\* Every step is a step of the ideal outbox or invisible to a restart.
LEMMA SchrittIdeal ==
    ASSUME FristLaeuft = FALSE, IInv, [Next]_vars
    PROVE  [Ideal!Next]_Auffindbar
<1> USE DEF Auffindbar
<1>1. ASSUME UNCHANGED <<eintrag, verzeichnis>>
      PROVE  UNCHANGED Auffindbar
  BY <1>1 DEF Zeilen
<1>2. ASSUME NEW a \in Akteur, FestSetzen(a)
      PROVE  UNCHANGED Auffindbar
  <2>1. /\ eintrag' = [eintrag EXCEPT ![ort[a]] = "offen"] /\ Zeilen' = Zeilen
        /\ eintrag[ort[a]] = "fehlt"
    BY <1>2 DEF FestSetzen, IInv, FestInv, Zeilen
  <2>2. ort[a] \notin Zeilen
    BY <2>1 DEF IInv, VerzeichnisTreu
  <2> QED
    BY <2>1, <2>2 DEF IInv, TypeOK
<1>3. ASSUME NEW a \in Akteur, FestAnhaengen(a)
      PROVE  Ideal!Next
  <2>1. /\ UNCHANGED eintrag /\ verzeichnis' = Append(verzeichnis, ort[a])
        /\ eintrag[ort[a]] = "offen" /\ ort[a] \notin Zeilen /\ ort[a] \in Coid
        /\ verzeichnis \in Seq(Coid)
    BY <1>3 DEF FestAnhaengen, IInv, FestInv, TypeOK
  <2>2. Zeilen' = Zeilen \cup {ort[a]}
    BY <2>1, ZeilenAppend DEF Zeilen
  <2>3. Ideal!Aufnehmen(ort[a])
    BY <2>1, <2>2 DEF Ideal!Aufnehmen
  <2> HIDE DEF Auffindbar
  <2> QED
    BY <2>1, <2>3 DEF Ideal!Next, Ideal!Aufnehmen
<1>4. ASSUME NEW a \in Akteur, FortSetzen(a)
      PROVE  Ideal!Next \/ UNCHANGED Auffindbar
  <2>1. /\ eintrag' = [eintrag EXCEPT ![ort[a]] = ziel[a]] /\ Zeilen' = Zeilen
        /\ ort[a] \in Coid /\ ziel[a] \in Zustand /\ eintrag \in [Coid -> Zustand \cup {"fehlt"}]
        /\ eintrag[ort[a]] \in Zustand /\ Rang[eintrag[ort[a]]] < Rang[ziel[a]]
    BY <1>4 DEF FortSetzen, IInv, FortInv, Vorwaerts, TypeOK, Zeilen
  <2>2. CASE ort[a] \in Zeilen
    <3>1. Auffindbar[ort[a]] = eintrag[ort[a]]
      BY <2>1, <2>2
    <3>2. Auffindbar' = [Auffindbar EXCEPT ![ort[a]] = ziel[a]]
      BY <2>1, <2>2
    <3> HIDE DEF Auffindbar
    <3>3. Ideal!Fortschreiben(ort[a], ziel[a])
      BY <2>1, <3>1, <3>2
         DEF Ideal!Fortschreiben, Ideal!Zustand, Ideal!Erledigt, Ideal!Rang, Rang
    <3> QED
      BY <2>1, <3>3
         DEF Ideal!Next, Ideal!Fortschreiben, Ideal!Zustand, Ideal!Erledigt
  <2>3. CASE ort[a] \notin Zeilen
    BY <2>1, <2>3
  <2> QED
    BY <2>2, <2>3
<1>5. ASSUME NEW a \in Akteur, RaeumPop(a)
      PROVE  Ideal!Next
  <2>1. /\ verzeichnis \in Seq(Coid) /\ verzeichnis # <<>>
        /\ Head(verzeichnis) = Head(liste[a])
        /\ eintrag[Head(liste[a])] \in Erledigt
        /\ UNCHANGED eintrag
    BY <1>5, PopTrifft DEF RaeumPop
  <2>2. Zeilen' = Zeilen \ {Head(liste[a])}
    BY <1>5, RaeumPopIInv
  <2>3. Head(liste[a]) \in Coid /\ Head(liste[a]) \in Zeilen
    <3>1. Head(verzeichnis) = verzeichnis[1] /\ 1 \in 1..Len(verzeichnis)
      BY <2>1
    <3> QED
      BY <2>1, <3>1 DEF Zeilen, ZeilenVon
  <2>4. Ideal!Austragen(Head(liste[a]))
    BY <2>1, <2>2, <2>3 DEF Ideal!Austragen, Ideal!Erledigt
  <2> HIDE DEF Auffindbar
  <2> QED
    BY <2>3, <2>4 DEF Ideal!Next, Ideal!Austragen
<1>6. ASSUME NEW a \in Akteur, RaeumLoeschen(a)
      PROVE  UNCHANGED Auffindbar
  <2>1. /\ eintrag' = [eintrag EXCEPT ![Head(liste[a])] = "fehlt"] /\ Zeilen' = Zeilen
        /\ Head(liste[a]) \notin Zeilen
    BY <1>6 DEF RaeumLoeschen, IInv, RaeumInv, Zeilen
  <2> QED
    BY <2>1 DEF IInv, TypeOK
<1>7. CASE UNCHANGED vars
  BY <1>1, <1>7 DEF vars
<1>8. ASSUME NEW a \in Akteur,
             \/ \E c \in Coid: Festschreiben(a, c)
             \/ \E c \in Coid, z \in Zustand: SchreibeFort(a, c, z)
             \/ Aufraeumen(a) \/ Fehler(a) \/ Absturz(a) \/ Verlassen(a)
             \/ FestLesen(a) \/ FortLesen(a) \/ RaeumLesen(a) \/ RaeumPruefen(a)
      PROVE  UNCHANGED Auffindbar
  <2>1. UNCHANGED <<eintrag, verzeichnis>>
    BY <1>8 DEF Festschreiben, SchreibeFort, Aufraeumen, Fehler, Absturz, Verlassen,
                FestLesen, FortLesen, RaeumLesen, RaeumPruefen
  <2> QED
    BY <1>1, <2>1
<1>9. ASSUME NEW n \in Coid \cup {VERZ}, Ablauf(n)
      PROVE  UNCHANGED Auffindbar
  BY <1>1, <1>9 DEF Ablauf
<1> HIDE DEF Auffindbar
<1> QED
  BY <1>2, <1>3, <1>4, <1>5, <1>6, <1>7, <1>8, <1>9 DEF Next, AkteurSchritt

\* The outbox implements the ideal outbox (HaeltIdeal): a restart sees intents
\* appear as open, move only forward and disappear only when settled, for
\* every number of actors, keys, crashes and failing calls.
THEOREM OutboxHaeltIdeal ==
    ASSUME FristLaeuft = FALSE
    PROVE  Spec => HaeltIdeal
<1>1. Init => Ideal!Init
  BY InitIdeal
<1>2. IInv /\ [Next]_vars => [Ideal!Next]_Auffindbar
  BY SchrittIdeal
<1> QED
  BY <1>1, <1>2, OutboxInvariante, PTL DEF Spec, HaeltIdeal, Ideal!Spec

\* No entry, found by a restart or not, ever moves backwards or from one
\* settled state to the other (NurVorwaerts).
THEOREM ZustaendeNurVorwaerts ==
    ASSUME FristLaeuft = FALSE
    PROVE  Spec => NurVorwaerts
<1> DEFINE Vor == \A c \in Coid:
             (eintrag[c] \in Zustand /\ eintrag'[c] \in Zustand
                /\ eintrag'[c] # eintrag[c])
             => Rang[eintrag[c]] < Rang[eintrag'[c]]
<1>1. ASSUME IInv, [Next]_vars
      PROVE  [Vor]_eintrag
  <2>1. ASSUME NEW a \in Akteur, FestSetzen(a)
        PROVE  Vor
    BY <1>1, <2>1 DEF FestSetzen, IInv, FestInv, TypeOK
  <2>2. ASSUME NEW a \in Akteur, FortSetzen(a)
        PROVE  Vor
    BY <1>1, <2>2 DEF FortSetzen, IInv, FortInv, Vorwaerts, TypeOK
  <2>3. ASSUME NEW a \in Akteur, RaeumLoeschen(a)
        PROVE  Vor
    BY <1>1, <2>3 DEF RaeumLoeschen, IInv, TypeOK
  <2> HIDE DEF Vor
  <2>4. ASSUME NEW a \in Akteur,
               \/ \E c \in Coid: Festschreiben(a, c)
               \/ \E c \in Coid, z \in Zustand: SchreibeFort(a, c, z)
               \/ Aufraeumen(a) \/ Fehler(a) \/ Absturz(a) \/ Verlassen(a)
               \/ FestLesen(a) \/ FortLesen(a) \/ RaeumLesen(a) \/ RaeumPruefen(a)
               \/ FestAnhaengen(a) \/ RaeumPop(a)
        PROVE  UNCHANGED eintrag
    BY <2>4 DEF Festschreiben, SchreibeFort, Aufraeumen, Fehler, Absturz, Verlassen,
                FestLesen, FortLesen, RaeumLesen, RaeumPruefen, FestAnhaengen, RaeumPop
  <2>5. ASSUME NEW n \in Coid \cup {VERZ}, Ablauf(n)
        PROVE  UNCHANGED eintrag
    BY <2>5 DEF Ablauf
  <2>6. CASE UNCHANGED vars
    BY <2>6 DEF vars
  <2> QED
    BY <1>1, <2>1, <2>2, <2>3, <2>4, <2>5, <2>6 DEF Next, AkteurSchritt
<1> HIDE DEF Vor
<1>2. Spec => [][Vor]_eintrag
  BY <1>1, OutboxInvariante, PTL DEF Spec
<1> QED
  BY <1>2 DEF NurVorwaerts, Vor
=============================================================================
