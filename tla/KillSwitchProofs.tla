-------------------------- MODULE KillSwitchProofs --------------------------
(***************************************************************************)
(* Proofs about the kill switch, for every number of processes, threads    *)
(* and users, with or without failing calls to the store.                  *)
(*                                                                         *)
(* HaltGilt is not inductive: a trip notes its process as tripped at its   *)
(* end and sets the flag at its beginning, with resets in between.  The    *)
(* invariant adds what holds on the way: as long as no reset of its scope  *)
(* has met it, a trip past its first write finds its flag set.             *)
(***************************************************************************)
EXTENDS KillSwitch, TLAPS

USE KillSwitchAssumption

GesetztPc == {"satz", "halt", "storno", "papier"}

\* The flag of an undisturbed trip stays set until the trip returns.
FlagInv ==
    \A t \in Faden:
        /\ pc[t] \in GesetztPc \cup {"setzen"} => op[t] = "trip"
        /\ t \in sauber /\ pc[t] \in GesetztPc => ziel[t] \in lokal[P(t)]

IInv == TypeOK /\ FlagInv /\ HaltGilt

----------------------------------------------------------------------------
\* The initial state of the kill switch satisfies the invariant.
LEMMA KillInit == Init => IInv
  BY DEF Init, IInv, TypeOK, FlagInv, HaltGilt, GesetztPc, PcStates, Bereich

\* Every step keeps the types: no thread outlives its process, and only user
\* scopes are read from user keys.
LEMMA KillTyp == TypeOK /\ [Next]_vars => TypeOK'
<1> SUFFICES ASSUME TypeOK, [Next]_vars PROVE TypeOK'
  OBVIOUS
<1> USE DEF TypeOK, PcStates, Bereich, zustand, faeden, chronik, P, Gehe, Ende, TripEnde,
        Vermerkt, NichtGehalten, Rufe
<1>1. CASE UNCHANGED vars
  BY <1>1 DEF vars
<1>2. ASSUME NEW t \in Faden, NEW s \in Bereich, Pruefen(t, s) PROVE TypeOK'
  BY <1>2 DEF Pruefen
<1>3. ASSUME NEW t \in Faden, NEW s \in Bereich, Reset(t, s) PROVE TypeOK'
  BY <1>3 DEF Reset
<1>4. ASSUME NEW t \in Faden, NEW s \in Bereich, NEW f \in BOOLEAN, Trip(t, s, f)
      PROVE TypeOK'
  <2>1. CASE LokalGehalten(P(t), s)
    BY <1>4, <2>1 DEF Trip
  <2>2. CASE ~LokalGehalten(P(t), s)
    BY <1>4, <2>2 DEF Trip
  <2> QED BY <2>1, <2>2
<1>5. ASSUME NEW t \in Schleife, Zyklus(t) PROVE TypeOK'
  BY <1>5, ZenonT(60) DEF Zyklus
<1>6. ASSUME NEW t \in Faden, FadenSchritt(t) PROVE TypeOK'
  <2>1. CASE LesenGlobal(t)
    <3>1. CASE Ende(t)
      BY <2>1, <3>1 DEF LesenGlobal
    <3>2. CASE \E z \in {"setzen", "merken_global"}: Gehe(t, z) /\ UNCHANGED <<op, ziel, zu>>
      BY <2>1, <3>2 DEF LesenGlobal
    <3>3. CASE /\ ziel[t] # Global
               /\ Gehe(t, "lesen_nutzer") /\ UNCHANGED <<op, ziel, zu>>
      <4>1. ziel[t] \in Nutzer
        BY <3>3
      <4> QED BY <2>1, <3>3, <4>1 DEF LesenGlobal
    <3> QED BY <2>1, <3>1, <3>2, <3>3 DEF LesenGlobal
  <2>2. CASE LesenNutzer(t)
    <3>1. CASE Ende(t)
      BY <2>2, <3>1 DEF LesenNutzer
    <3>2. CASE \E z \in {"setzen", "merken_nutzer"}: Gehe(t, z) /\ UNCHANGED <<op, ziel, zu>>
      BY <2>2, <3>2 DEF LesenNutzer
    <3> QED BY <2>2, <3>1, <3>2 DEF LesenNutzer
  <2>3. CASE Merken(t)
    BY <2>3 DEF Merken
  <2>4. CASE Setzen(t)
    BY <2>4 DEF Setzen
  <2>5. CASE SatzSchreiben(t)
    BY <2>5 DEF SatzSchreiben
  <2>6. CASE HaltSchreiben(t)
    BY <2>6 DEF HaltSchreiben
  <2>7. CASE StornoStarten(t)
    <3>1. P(t) \in lebt /\ live[P(t)] \in BOOLEAN
      BY <2>7 DEF StornoStarten
    <3>2. stornos' \subseteq lebt' \X BOOLEAN
      <4>1. <<P(t), live[P(t)]>> \in lebt \X BOOLEAN
        BY <3>1, Zenon
      <4>2. stornos' = stornos \cup {<<P(t), live[P(t)]>>} /\ lebt' = lebt
        BY <2>7, Zenon DEF StornoStarten
      <4> QED BY <4>1, <4>2, Zenon
    <3>3. CASE Gehe(t, "papier") /\ UNCHANGED <<op, ziel, zu, sauber, getroffen, gemeldet>>
      BY <2>7, <3>1, <3>2, <3>3 DEF StornoStarten
    <3>4. CASE TripEnde(t)
      BY <2>7, <3>1, <3>2, <3>4 DEF StornoStarten
    <3> QED BY <2>7, <3>3, <3>4 DEF StornoStarten
  <2>8. CASE AufPapier(t)
    BY <2>8 DEF AufPapier
  <2>9. CASE HaltLoeschen(t)
    BY <2>9, ZenonT(60) DEF HaltLoeschen
  <2>10. CASE SatzLoeschen(t)
    BY <2>10 DEF SatzLoeschen
  <2> QED BY <1>6, <2>1, <2>2, <2>3, <2>4, <2>5, <2>6, <2>7, <2>8, <2>9, <2>10
          DEF FadenSchritt
<1>7. ASSUME NEW p \in Prozess, NEW b \in BOOLEAN, MassenStorno(p, b) PROVE TypeOK'
  BY <1>7 DEF MassenStorno
<1>8. ASSUME NEW p \in Prozess, Hochfahren(p) PROVE TypeOK'
  <2>1. PICK b \in {FALSE, LiveKonto}: live' = [live EXCEPT ![p] = b]
    BY <1>8, Zenon DEF Hochfahren
  <2>2. b \in BOOLEAN
    BY KillSwitchAssumption, Zenon
  <2>3. live' \in [Prozess -> BOOLEAN]
    BY <2>1, <2>2, Zenon
  <2>4. stornos' \subseteq lebt' \X BOOLEAN
    BY <1>8, Zenon DEF Hochfahren
  <2> QED BY <1>8, <2>3, <2>4 DEF Hochfahren
<1>9. ASSUME NEW p \in Prozess, SchleifeStarten(p) PROVE TypeOK'
  BY <1>9 DEF SchleifeStarten
<1>10. ASSUME NEW p \in Prozess, Absturz(p) PROVE TypeOK'
  BY <1>10 DEF Absturz
<1> QED BY <1>1, <1>2, <1>3, <1>4, <1>5, <1>6, <1>7, <1>8, <1>9, <1>10 DEF Next

\* Every step keeps the flags of undisturbed trips and of tripped processes.
LEMMA KillSchritt == IInv /\ [Next]_vars => (FlagInv /\ HaltGilt)'
<1> SUFFICES ASSUME IInv, [Next]_vars PROVE FlagInv' /\ HaltGilt'
  OBVIOUS
<1> USE DEF IInv, TypeOK, FlagInv, HaltGilt, LokalGehalten, GesetztPc, PcStates, Bereich,
        zustand, faeden, chronik, P, Gehe, Ende, TripEnde, Vermerkt, NichtGehalten, Rufe,
        Trifft
<1>1. CASE UNCHANGED vars
  BY <1>1 DEF vars
<1>2. ASSUME NEW t \in Faden, NEW s \in Bereich, Pruefen(t, s) PROVE FlagInv' /\ HaltGilt'
  BY <1>2 DEF Pruefen
<1>3. ASSUME NEW t \in Faden, NEW s \in Bereich, Reset(t, s) PROVE FlagInv' /\ HaltGilt'
  <2>1. FlagInv'
    BY <1>3 DEF Reset
  <2>2. HaltGilt'
    BY <1>3 DEF Reset
  <2> QED BY <2>1, <2>2
<1>4. ASSUME NEW t \in Faden, NEW s \in Bereich, NEW f \in BOOLEAN, Trip(t, s, f)
      PROVE FlagInv' /\ HaltGilt'
  <2>1. CASE LokalGehalten(P(t), s)
    BY <1>4, <2>1 DEF Trip
  <2>2. CASE ~LokalGehalten(P(t), s)
    BY <1>4, <2>2 DEF Trip
  <2> QED BY <2>1, <2>2
<1>5. ASSUME NEW t \in Schleife, Zyklus(t) PROVE FlagInv' /\ HaltGilt'
  BY <1>5 DEF Zyklus
<1>6. ASSUME NEW t \in Faden, FadenSchritt(t) PROVE FlagInv' /\ HaltGilt'
  <2>1. CASE LesenGlobal(t)
    BY <2>1 DEF LesenGlobal
  <2>2. CASE LesenNutzer(t)
    BY <2>2 DEF LesenNutzer
  <2>3. CASE Merken(t)
    BY <2>3 DEF Merken
  <2>4. CASE Setzen(t)
    BY <2>4 DEF Setzen
  <2>5. CASE SatzSchreiben(t)
    BY <2>5 DEF SatzSchreiben
  <2>6. CASE HaltSchreiben(t)
    BY <2>6 DEF HaltSchreiben
  <2>7. CASE StornoStarten(t)
    BY <2>7 DEF StornoStarten
  <2>8. CASE AufPapier(t)
    BY <2>8 DEF AufPapier
  <2>9. CASE HaltLoeschen(t)
    BY <2>9 DEF HaltLoeschen
  <2>10. CASE SatzLoeschen(t)
    BY <2>10 DEF SatzLoeschen
  <2> QED BY <1>6, <2>1, <2>2, <2>3, <2>4, <2>5, <2>6, <2>7, <2>8, <2>9, <2>10
          DEF FadenSchritt
<1>7. ASSUME NEW p \in Prozess, NEW b \in BOOLEAN, MassenStorno(p, b)
      PROVE FlagInv' /\ HaltGilt'
  BY <1>7 DEF MassenStorno
<1>8. ASSUME NEW p \in Prozess, Hochfahren(p) PROVE FlagInv' /\ HaltGilt'
  BY <1>8 DEF Hochfahren
<1>9. ASSUME NEW p \in Prozess, SchleifeStarten(p) PROVE FlagInv' /\ HaltGilt'
  BY <1>9 DEF SchleifeStarten
<1>10. ASSUME NEW p \in Prozess, Absturz(p) PROVE FlagInv' /\ HaltGilt'
  BY <1>10 DEF Absturz
<1> QED BY <1>1, <1>2, <1>3, <1>4, <1>5, <1>6, <1>7, <1>8, <1>9, <1>10 DEF Next

----------------------------------------------------------------------------
\* The kill switch keeps its invariant.
THEOREM KillInvariante == Spec => []IInv
<1>1. Init => IInv
  BY KillInit
<1>2. IInv /\ [Next]_vars => IInv'
  BY KillTyp, KillSchritt DEF IInv
<1> QED BY <1>1, <1>2, PTL DEF Spec

\* Type correctness of the kill switch (core/kill_switch.py).
THEOREM KillTypKorrekt == Spec => []TypeOK
<1>1. IInv => TypeOK
  BY DEF IInv
<1> QED BY <1>1, KillInvariante, PTL

\* After a trip has returned, its process is halted until a reset in this
\* process, whatever other threads and processes do and whether or not the
\* store answers (KillSwitch.trip, KillSwitch.is_halted).
THEOREM HaltBleibt == Spec => []HaltGilt
<1>1. IInv => HaltGilt
  BY DEF IInv
<1> QED BY <1>1, KillInvariante, PTL

----------------------------------------------------------------------------
(* The reason of a halt.  Record and key are two writes of a trip and two  *)
(* deletions of a reset, in opposite order: a trip and a reset of the same *)
(* scope that overlap can leave a halt without its record.  Apart from     *)
(* that, and from a store that fails, every halt has its record.           *)

\* No trip overlaps a reset of its scope.
Getrennt == Laufend("trip") \cap Laufend("reset") = {}

\* The record is there before the halt is, and goes after it has gone.
Grund ==
    /\ HaltNenntGrund
    /\ \A t \in Faden:
          /\ pc[t] \in {"r_halt", "r_satz"} => op[t] = "reset"
          /\ pc[t] = "halt" => ziel[t] \in saetze
          /\ pc[t] = "r_satz" => ziel[t] \notin ablage

\* Every step keeps the record of every halt.
LEMMA GrundSchritt ==
  ASSUME AblageFehler = FALSE, IInv, Grund, Getrennt, [Next]_vars
  PROVE  Grund'
<1> USE DEF IInv, TypeOK, FlagInv, Grund, HaltNenntGrund, GesetztPc, PcStates, Bereich,
        zustand, faeden, chronik, P, Gehe, Ende, TripEnde, Vermerkt, NichtGehalten, Rufe
<1>0. \A t, u \in Faden: pc[t] = "halt" /\ pc[u] = "r_satz" => ziel[t] # ziel[u]
  BY DEF Getrennt, Laufend
<1>1. CASE UNCHANGED vars
  BY <1>1 DEF vars
<1>2. ASSUME NEW t \in Faden, NEW s \in Bereich, Pruefen(t, s) PROVE Grund'
  BY <1>2 DEF Pruefen
<1>3. ASSUME NEW t \in Faden, NEW s \in Bereich, Reset(t, s) PROVE Grund'
  BY <1>3 DEF Reset
<1>4. ASSUME NEW t \in Faden, NEW s \in Bereich, NEW f \in BOOLEAN, Trip(t, s, f) PROVE Grund'
  <2>1. CASE LokalGehalten(P(t), s)
    BY <1>4, <2>1 DEF Trip
  <2>2. CASE ~LokalGehalten(P(t), s)
    BY <1>4, <2>2 DEF Trip
  <2> QED BY <2>1, <2>2
<1>5. ASSUME NEW t \in Schleife, Zyklus(t) PROVE Grund'
  BY <1>5 DEF Zyklus
<1>6. ASSUME NEW t \in Faden, FadenSchritt(t) PROVE Grund'
  <2>1. CASE LesenGlobal(t)
    BY <2>1 DEF LesenGlobal
  <2>2. CASE LesenNutzer(t)
    BY <2>2 DEF LesenNutzer
  <2>3. CASE Merken(t)
    BY <2>3 DEF Merken
  <2>4. CASE Setzen(t)
    BY <2>4 DEF Setzen
  <2>5. CASE SatzSchreiben(t)
    BY <2>5 DEF SatzSchreiben
  <2>6. CASE HaltSchreiben(t)
    BY <1>0, <2>6 DEF HaltSchreiben
  <2>7. CASE StornoStarten(t)
    BY <2>7 DEF StornoStarten
  <2>8. CASE AufPapier(t)
    BY <2>8 DEF AufPapier
  <2>9. CASE HaltLoeschen(t)
    BY <2>9 DEF HaltLoeschen
  <2>10. CASE SatzLoeschen(t)
    BY <1>0, <2>10 DEF SatzLoeschen
  <2> QED BY <1>6, <2>1, <2>2, <2>3, <2>4, <2>5, <2>6, <2>7, <2>8, <2>9, <2>10
          DEF FadenSchritt
<1>7. ASSUME NEW p \in Prozess, NEW b \in BOOLEAN, MassenStorno(p, b) PROVE Grund'
  BY <1>7 DEF MassenStorno
<1>8. ASSUME NEW p \in Prozess, Hochfahren(p) PROVE Grund'
  BY <1>8 DEF Hochfahren
<1>9. ASSUME NEW p \in Prozess, SchleifeStarten(p) PROVE Grund'
  BY <1>9 DEF SchleifeStarten
<1>10. ASSUME NEW p \in Prozess, Absturz(p) PROVE Grund'
  BY <1>10 DEF Absturz
<1> QED BY <1>1, <1>2, <1>3, <1>4, <1>5, <1>6, <1>7, <1>8, <1>9, <1>10 DEF Next

\* Comment in trip ("erst der Trip-Satz, dann der Halt"): a halt found in the store
\* names its reason, wherever a process died, for any number of processes and
\* threads of which no trip overlaps a reset of the same scope.
THEOREM HaltHatSatz ==
  ASSUME AblageFehler = FALSE
  PROVE  Spec /\ []Getrennt => []HaltNenntGrund
<1>1. Init => Grund
  BY DEF Init, Grund, HaltNenntGrund
<1>2. IInv /\ Grund /\ Getrennt /\ [Next]_vars => Grund'
  BY GrundSchritt
<1>3. Grund => HaltNenntGrund
  BY DEF Grund
<1> QED BY <1>1, <1>2, <1>3, KillInvariante, PTL DEF Spec

----------------------------------------------------------------------------
(* A returned trip is durable.  With one caller the flags in memory are    *)
(* those of halts in the store, except while a trip is between its first   *)
(* and its last write.  A second caller that finds the flag returns before *)
(* the halt is durable, and the flag of a second process outlives a reset, *)
(* so that the theorem is about one.                                       *)

Dauer ==
    /\ TripIstDauerhaft
    /\ \A t \in Faden:
          /\ pc[t] = "merken_global" => Global \in ablage
          /\ pc[t] \in {"merken_nutzer", "storno", "papier"} => ziel[t] \in ablage
          /\ pc[t] = "r_halt" => /\ ziel[t] \notin lokal[P(t)]
                                 /\ \A s \in gemeldet: ~Trifft(ziel[t], s)
          /\ \A s \in lokal[P(t)]: s \in ablage \/ (pc[t] \in {"satz", "halt"} /\ s = ziel[t])

\* Every step of the one caller, and a crash at any point, keeps it.
LEMMA DauerSchritt ==
  ASSUME AblageFehler = FALSE, \A t, u \in Faden: t = u, IInv, Dauer, [Next]_vars
  PROVE  Dauer'
<1> USE DEF IInv, TypeOK, Dauer, TripIstDauerhaft, LokalGehalten, Trifft, PcStates, Bereich,
        zustand, faeden, chronik, P, Gehe, Ende, TripEnde, Vermerkt, NichtGehalten, Rufe
<1>1. CASE UNCHANGED vars
  BY <1>1 DEF vars
<1>2. ASSUME NEW t \in Faden, NEW s \in Bereich, Pruefen(t, s) PROVE Dauer'
  BY <1>2 DEF Pruefen
<1>3. ASSUME NEW t \in Faden, NEW s \in Bereich, Reset(t, s) PROVE Dauer'
  BY <1>3 DEF Reset
<1>4. ASSUME NEW t \in Faden, NEW s \in Bereich, NEW f \in BOOLEAN, Trip(t, s, f) PROVE Dauer'
  <2>1. CASE LokalGehalten(P(t), s)
    BY <1>4, <2>1 DEF Trip
  <2>2. CASE ~LokalGehalten(P(t), s)
    BY <1>4, <2>2 DEF Trip
  <2> QED BY <2>1, <2>2
<1>5. ASSUME NEW t \in Schleife, Zyklus(t) PROVE Dauer'
  BY <1>5 DEF Zyklus
<1>6. ASSUME NEW t \in Faden, FadenSchritt(t) PROVE Dauer'
  <2>1. CASE LesenGlobal(t)
    BY <2>1 DEF LesenGlobal
  <2>2. CASE LesenNutzer(t)
    BY <2>2 DEF LesenNutzer
  <2>3. CASE Merken(t)
    BY <2>3 DEF Merken
  <2>4. CASE Setzen(t)
    BY <2>4 DEF Setzen
  <2>5. CASE SatzSchreiben(t)
    BY <2>5 DEF SatzSchreiben
  <2>6. CASE HaltSchreiben(t)
    BY <2>6 DEF HaltSchreiben
  <2>7. CASE StornoStarten(t)
    BY <2>7 DEF StornoStarten
  <2>8. CASE AufPapier(t)
    BY <2>8 DEF AufPapier
  <2>9. CASE HaltLoeschen(t)
    BY <2>9 DEF HaltLoeschen
  <2>10. CASE SatzLoeschen(t)
    BY <2>10 DEF SatzLoeschen
  <2> QED BY <1>6, <2>1, <2>2, <2>3, <2>4, <2>5, <2>6, <2>7, <2>8, <2>9, <2>10
          DEF FadenSchritt
<1>7. ASSUME NEW p \in Prozess, NEW b \in BOOLEAN, MassenStorno(p, b) PROVE Dauer'
  BY <1>7 DEF MassenStorno
<1>8. ASSUME NEW p \in Prozess, Hochfahren(p) PROVE Dauer'
  BY <1>8 DEF Hochfahren
<1>9. ASSUME NEW p \in Prozess, SchleifeStarten(p) PROVE Dauer'
  BY <1>9 DEF SchleifeStarten
<1>10. ASSUME NEW p \in Prozess, Absturz(p) PROVE Dauer'
  BY <1>10 DEF Absturz
<1> QED BY <1>1, <1>2, <1>3, <1>4, <1>5, <1>6, <1>7, <1>8, <1>9, <1>10 DEF Next

\* core/state/synchron.py ("Ein Halt muss aber dauerhaft sein, bevor trip()
\* zurueckkehrt"): with one caller and a store that answers, a scope that was
\* tripped and not reset is halted in the store, so that the halt survives the
\* death of the process at any point.
THEOREM TripBleibt ==
  ASSUME AblageFehler = FALSE, \A t, u \in Faden: t = u
  PROVE  Spec => []TripIstDauerhaft
<1>1. Init => Dauer
  BY DEF Init, Dauer, TripIstDauerhaft, P
<1>2. IInv /\ Dauer /\ [Next]_vars => Dauer'
  BY DauerSchritt
<1>3. Dauer => TripIstDauerhaft
  BY DEF Dauer
<1> QED BY <1>1, <1>2, <1>3, KillInvariante, PTL DEF Spec
=============================================================================
