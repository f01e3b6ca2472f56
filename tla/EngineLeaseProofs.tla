------------------------- MODULE EngineLeaseProofs -------------------------
(***************************************************************************)
(* Proofs about EngineLease for any set of instances, machines, pids and   *)
(* coroutines, any bound on tokens and any time to live.                   *)
(***************************************************************************)
EXTENDS EngineLease, TLAPS

\* Every token a process remembers was created by the process now running.
MerktNurEigene ==
    \A i \in Inst:
        /\ lebend[i] \subseteq 1..vergeben
        /\ registratur[i].tok \in lebend[i] \cup {Kein}
        /\ herz[i].tok \in lebend[i] \cup {Kein}
        /\ stopp[i] \in lebend[i] \cup {Kein}
        /\ \A a \in Aufgabe: mein[i][a] \in lebend[i] \cup {Kein}

\* No two running processes created the same token.
TokenGetrennt ==
    \A i, j \in Inst: i # j => lebend[i] \cap lebend[j] = {}

\* The row, the note and the break targets name tokens that were created.
NurVergebene ==
    /\ sperre.tok \in 0..vergeben
    /\ vermerk.tok \in 0..vergeben
    /\ \A i \in Inst, a \in Aufgabe: fremd[i][a] \in 0..vergeben

\* Only a running process has tokens and active coroutines.
LebendLaeuft ==
    \A i \in Inst:
        /\ lebend[i] # {} => pid[i] # Kein
        /\ \A a \in Aufgabe: pc[i][a] # "ruht" => pid[i] # Kein

IInv == /\ TypeOK
        /\ MerktNurEigene
        /\ TokenGetrennt
        /\ NurVergebene
        /\ LebendLaeuft
        /\ VermerkNenntDenHalter
        /\ BruchTrifftNurTote

----------------------------------------------------------------------------
USE DEF Kein, Token, KeinEintrag, KeineSperre, KeinVermerk, HerzRuht

\* The initial state is well typed.
LEMMA TypeInit == Init => TypeOK
  BY LeaseAssumption DEF Init, TypeOK, PcStates

\* The type of the lock row, and of the control state of a coroutine.
SperreTyp == [tok: Token \cup {Kein}, rest: 0..Frist]
PcTyp == [Inst -> [Aufgabe -> PcStates]]
TokTyp == [Inst -> [Aufgabe -> Token \cup {Kein}]]

\* What the operations of the lock write is a lock row.
LEMMA SperreBleibtTyp ==
  ASSUME sperre \in SperreTyp, NEW k \in Token \cup {Kein}, NEW e,
         Acquire(k) \/ Renew(k) \/ Release(k) \/ Brechen(k, e)
  PROVE  sperre' \in SperreTyp
  BY LeaseAssumption DEF SperreTyp, Acquire, Renew, Release, Brechen, Held

\* The end of a coroutine's attempt and a step onwards keep the types.
LEMMA EndeTyp ==
  ASSUME TypeOK, NEW i \in Inst, NEW a \in Aufgabe, Ende(i, a)
  PROVE  pc' \in PcTyp /\ mein' \in TokTyp
  BY DEF TypeOK, Ende, Gehe, PcTyp, TokTyp, PcStates

\* A step onwards keeps the types.
LEMMA WeiterTyp ==
  ASSUME TypeOK, NEW i \in Inst, NEW a \in Aufgabe, NEW s \in PcStates,
         Weiter(i, a, s)
  PROVE  pc' \in PcTyp /\ mein' \in TokTyp
  BY DEF TypeOK, Weiter, Gehe, PcTyp, TokTyp

\* A change of control state keeps the type of pc.
LEMMA GeheTyp ==
  ASSUME TypeOK, NEW i \in Inst, NEW a \in Aufgabe, NEW s \in PcStates,
         Gehe(i, a, s)
  PROVE  pc' \in PcTyp
  BY DEF TypeOK, Gehe, PcTyp

\* Every step keeps the types.
LEMMA TypeNext == TypeOK /\ [Next]_vars => TypeOK'
  <1> SUFFICES ASSUME TypeOK, [Next]_vars PROVE TypeOK'
    OBVIOUS
  <1> USE LeaseAssumption DEF TypeOK, PcStates
  <1>1. ASSUME NEW i \in Inst, Start(i) PROVE TypeOK'
    BY <1>1 DEF Start, PidExistiert
  <1>2. ASSUME NEW i \in Inst, Absturz(i) PROVE TypeOK'
    BY <1>2 DEF Absturz
  <1>3. ASSUME NEW i \in Inst, ZyklusMeldet(i) PROVE TypeOK'
    BY <1>3 DEF ZyklusMeldet
  <1>4. ASSUME NEW i \in Inst, RingEndet(i) PROVE TypeOK'
    <2>1. registratur' \in [Inst -> [tok: Token \cup {Kein},
                                     ring: {"engine", "anderer", "tot"}]]
      BY <1>4 DEF RingEndet
    <2> QED BY <1>4, <2>1 DEF RingEndet
  <1>5. ASSUME NEW i \in Inst, HerzSchlaegt(i) PROVE TypeOK'
    BY <1>5 DEF HerzSchlaegt
  <1>6. ASSUME NEW i \in Inst, HerzErneuert(i) PROVE TypeOK'
    <2>1. sperre' \in SperreTyp
      <3>1. herz[i].tok \in Token \cup {Kein}
        OBVIOUS
      <3>2. sperre \in SperreTyp
        BY DEF SperreTyp
      <3>3. CASE Renew(herz[i].tok)
        BY <3>1, <3>2, <3>3, SperreBleibtTyp
      <3> QED BY <1>6, <3>2, <3>3 DEF HerzErneuert
    <2>2. herz' \in [Inst -> [pc: {"ruht", "erneuern", "vermerken", "austragen"},
                              tok: Token \cup {Kein}]]
      <3>1. PICK h \in [pc: {"ruht", "erneuern", "vermerken", "austragen"},
                        tok: Token \cup {Kein}]: herz' = [herz EXCEPT ![i] = h]
        <4>1. herz[i].tok \in Token \cup {Kein}
          OBVIOUS
        <4>2. \E s \in {"vermerken", "austragen"}:
                 herz' = [herz EXCEPT ![i] = [pc |-> s, tok |-> herz[i].tok]]
              \/ herz' = [herz EXCEPT ![i] = [pc |-> "ruht", tok |-> 0]]
          BY <1>6 DEF HerzErneuert
        <4> QED BY <4>1, <4>2
      <3> QED BY <3>1
    <2> QED BY <1>6, <2>1, <2>2 DEF HerzErneuert, SperreTyp
  <1>7. ASSUME NEW i \in Inst, HerzFertig(i) PROVE TypeOK'
    <2>1. vermerk' \in [host: Host \cup {Niemand}, pid: Pid \cup {Kein},
                        tok: Token \cup {Kein}]
      BY <1>7 DEF HerzFertig, VermerkSchreiben
    <2>2. registratur' \in [Inst -> [tok: Token \cup {Kein},
                                     ring: {"engine", "anderer", "tot"}]]
      <3>1. \/ registratur' = [registratur EXCEPT ![i] = KeinEintrag]
            \/ registratur' = registratur
        BY <1>7 DEF HerzFertig
      <3>2. CASE registratur' = [registratur EXCEPT ![i] = KeinEintrag]
        BY <3>2
      <3>3. CASE registratur' = registratur
        BY <3>3
      <3> QED BY <3>1, <3>2, <3>3
    <2> QED BY <1>7, <2>1, <2>2 DEF HerzFertig
  <1>8. ASSUME NEW i \in Inst, Beenden(i) PROVE TypeOK'
    BY <1>8 DEF Beenden
  <1>9. ASSUME NEW i \in Inst, Freigeben(i) PROVE TypeOK'
    BY <1>9 DEF Freigeben, Release, Held
  <1>10. ASSUME NEW i \in Inst, NEW a \in Aufgabe, Nachschlagen(i, a) PROVE TypeOK'
    BY <1>10 DEF Nachschlagen, Gehe
  <1>11. ASSUME NEW i \in Inst, NEW a \in Aufgabe, HaeltNoch(i, a) PROVE TypeOK'
    <2>1. CASE Ende(i, a)
      BY <1>11, <2>1 DEF HaeltNoch, Gehe, Ende
    <2>2. CASE Weiter(i, a, "verfallen")
      BY <1>11, <2>2 DEF HaeltNoch, Gehe, Weiter
    <2> QED BY <1>11, <2>1, <2>2 DEF HaeltNoch
  <1>12. ASSUME NEW i \in Inst, NEW a \in Aufgabe, NeueSperre(i, a) PROVE TypeOK'
    BY <1>12 DEF NeueSperre, Gehe
  <1>13. ASSUME NEW i \in Inst, NEW a \in Aufgabe, Erwerben(i, a) PROVE TypeOK'
    <2>1. sperre' \in SperreTyp
      <3>1. mein[i][a] \in Token \cup {Kein} /\ fremd[i][a] \in Token \cup {Kein}
        OBVIOUS
      <3>2. sperre \in SperreTyp
        BY DEF SperreTyp
      <3>3. CASE UNCHANGED sperre
        BY <3>2, <3>3
      <3>4. CASE Acquire(mein[i][a])
        BY <3>1, <3>2, <3>4, SperreBleibtTyp
      <3>5. CASE Brechen(fremd[i][a], mein[i][a])
        BY <3>1, <3>2, <3>5, SperreBleibtTyp
      <3> QED BY <1>13, <3>3, <3>4, <3>5 DEF Erwerben
    <2>2. pc' \in PcTyp
      BY <1>13, GeheTyp DEF Erwerben
    <2> QED BY <1>13, <2>1, <2>2 DEF Erwerben, SperreTyp, PcTyp
  <1>14. ASSUME NEW i \in Inst, NEW a \in Aufgabe, HalterPruefen(i, a) PROVE TypeOK'
    <2>1. pc' \in PcTyp /\ mein' \in TokTyp
      BY <1>14, EndeTyp, WeiterTyp DEF HalterPruefen
    <2>2. fremd' \in TokTyp
      <3>1. \/ fremd' = [fremd EXCEPT ![i][a] = vermerk.tok]
            \/ fremd' = fremd
        BY <1>14 DEF HalterPruefen
      <3>2. CASE fremd' = [fremd EXCEPT ![i][a] = vermerk.tok]
        BY <3>2 DEF TokTyp
      <3>3. CASE fremd' = fremd
        BY <3>3 DEF TokTyp
      <3> QED BY <3>1, <3>2, <3>3
    <2> QED BY <1>14, <2>1, <2>2 DEF HalterPruefen, PcTyp, TokTyp
  <1>15. ASSUME NEW i \in Inst, NEW a \in Aufgabe, HalterBrechen(i, a) PROVE TypeOK'
    <2>1. pc' \in PcTyp /\ mein' \in TokTyp
      BY <1>15, EndeTyp, WeiterTyp DEF HalterBrechen
    <2>2. fremd' \in TokTyp
      BY <1>15 DEF HalterBrechen, TokTyp
    <2>3. sperre' \in SperreTyp
      <3>1. mein[i][a] \in Token \cup {Kein} /\ fremd[i][a] \in Token \cup {Kein}
        OBVIOUS
      <3>2. sperre \in SperreTyp
        BY DEF SperreTyp
      <3>3. CASE UNCHANGED sperre
        BY <3>2, <3>3
      <3>4. CASE Acquire(mein[i][a])
        BY <3>1, <3>2, <3>4, SperreBleibtTyp
      <3>5. CASE Brechen(fremd[i][a], mein[i][a])
        BY <3>1, <3>2, <3>5, SperreBleibtTyp
      <3> QED BY <1>15, <3>3, <3>4, <3>5 DEF HalterBrechen
    <2> QED BY <1>15, <2>1, <2>2, <2>3 DEF HalterBrechen, PcTyp, TokTyp, SperreTyp
  <1>16. ASSUME NEW i \in Inst, NEW a \in Aufgabe, ErwerbenNachBruch(i, a) PROVE TypeOK'
    <2>1. pc' \in PcTyp /\ mein' \in TokTyp
      BY <1>16, EndeTyp, WeiterTyp DEF ErwerbenNachBruch
    <2>2. sperre' \in SperreTyp
      <3>1. mein[i][a] \in Token \cup {Kein} /\ fremd[i][a] \in Token \cup {Kein}
        OBVIOUS
      <3>2. sperre \in SperreTyp
        BY DEF SperreTyp
      <3>3. CASE UNCHANGED sperre
        BY <3>2, <3>3
      <3>4. CASE Acquire(mein[i][a])
        BY <3>1, <3>2, <3>4, SperreBleibtTyp
      <3>5. CASE Brechen(fremd[i][a], mein[i][a])
        BY <3>1, <3>2, <3>5, SperreBleibtTyp
      <3> QED BY <1>16, <3>3, <3>4, <3>5 DEF ErwerbenNachBruch
    <2> QED BY <1>16, <2>1, <2>2 DEF ErwerbenNachBruch, PcTyp, TokTyp, SperreTyp
  <1>17. ASSUME NEW i \in Inst, NEW a \in Aufgabe, Vermerken(i, a) PROVE TypeOK'
    BY <1>17 DEF Vermerken, Gehe, VermerkSchreiben
  <1>18. ASSUME NEW i \in Inst, NEW a \in Aufgabe, Eintragen(i, a) PROVE TypeOK'
    BY <1>18 DEF Eintragen, Gehe, Ende
  <1>19. ASSUME NEW i \in Inst, NEW a \in Aufgabe, AblageFehler(i, a) PROVE TypeOK'
    <2>1. pc' \in PcTyp /\ mein' \in TokTyp
      BY <1>19, EndeTyp DEF AblageFehler
    <2>2. fremd' \in TokTyp
      BY <1>19 DEF AblageFehler, TokTyp
    <2>3. sperre' \in SperreTyp
      <3>1. mein[i][a] \in Token \cup {Kein} /\ fremd[i][a] \in Token \cup {Kein}
        OBVIOUS
      <3>2. sperre \in SperreTyp
        BY DEF SperreTyp
      <3>3. CASE UNCHANGED sperre
        BY <3>2, <3>3
      <3>4. CASE Acquire(mein[i][a])
        BY <3>1, <3>2, <3>4, SperreBleibtTyp
      <3>5. CASE Brechen(fremd[i][a], mein[i][a])
        BY <3>1, <3>2, <3>5, SperreBleibtTyp
      <3> QED BY <1>19, <3>3, <3>4, <3>5 DEF AblageFehler
    <2> QED BY <1>19, <2>1, <2>2, <2>3 DEF AblageFehler, PcTyp, TokTyp, SperreTyp
  <1>21. CASE Tick
    <2>1. sperre' \in SperreTyp
      <3>1. sperre.rest > 1 => sperre.rest - 1 \in 0..Frist
        OBVIOUS
      <3> QED BY <1>21, <3>1 DEF Tick, SperreTyp
    <2> QED BY <1>21, <2>1 DEF Tick, SperreTyp
  <1>22. CASE VermerkLaeuftAb
    BY <1>22 DEF VermerkLaeuftAb
  <1>23. CASE UNCHANGED vars
    BY <1>23 DEF vars
  <1> QED
    BY <1>1, <1>2, <1>3, <1>4, <1>5, <1>6, <1>7, <1>8, <1>9, <1>10, <1>11, <1>12, <1>13, <1>14, <1>15, <1>16, <1>17, <1>18, <1>19, <1>21, <1>22, <1>23
       DEF Next, ProzessSchritt, AufgabeSchritt

\* Type correctness of the lease.
THEOREM LeaseTypeCorrect == Spec => []TypeOK
  <1>1. Init => TypeOK
    BY TypeInit
  <1>2. TypeOK /\ [Next]_vars => TypeOK'
    BY TypeNext
  <1> QED BY <1>1, <1>2, PTL DEF Spec

----------------------------------------------------------------------------
\* No process runs at first, so the invariant holds.
LEMMA IInvInit == Init => IInv
  BY TypeInit, LeaseAssumption
  DEF Init, IInv, MerktNurEigene, TokenGetrennt, NurVergebene, LebendLaeuft,
      VermerkNenntDenHalter, BruchTrifftNurTote

\* A holder that writes the note about its own token names itself rightly.
LEMMA VermerkBleibtRichtig ==
  ASSUME IInv, NEW i \in Inst, NEW k \in lebend[i] \cup {Kein},
         VermerkSchreiben(i, k), UNCHANGED <<pid, lebend>>
  PROVE  VermerkNenntDenHalter'
  <1>1. CASE UNCHANGED vermerk
    BY <1>1 DEF IInv, VermerkNenntDenHalter
  <1>2. CASE vermerk' = [host |-> HostOf[i], pid |-> pid[i], tok |-> k]
    <2> SUFFICES ASSUME NEW j \in Inst, k \in lebend[j]
                 PROVE  HostOf[i] = HostOf[j] /\ pid[i] = pid[j]
      BY <1>2 DEF VermerkNenntDenHalter
    <2>1. k # Kein
      BY DEF IInv, MerktNurEigene, TypeOK
    <2>2. i = j
      BY <2>1 DEF IInv, TokenGetrennt
    <2> QED BY <2>2
  <1> QED BY <1>1, <1>2 DEF VermerkSchreiben

\* A step of coroutine a of process i moves no other coroutine.
LEMMA GeheEinzeln ==
  ASSUME TypeOK, NEW i \in Inst, NEW a \in Aufgabe, NEW s \in PcStates,
         Gehe(i, a, s)
  PROVE  \A j \in Inst: \A b \in Aufgabe:
            pc'[j][b] = IF j = i /\ b = a THEN s ELSE pc[j][b]
  BY DEF TypeOK, Gehe

\* So it keeps processes running that have active coroutines.
LEMMA GeheLaeuft ==
  ASSUME IInv, NEW i \in Inst, NEW a \in Aufgabe, NEW s \in PcStates,
         pc[i][a] # "ruht", Gehe(i, a, s), UNCHANGED <<lebend, pid>>
  PROVE  LebendLaeuft'
  <1>1. TypeOK
    BY DEF IInv
  <1> QED BY <1>1, GeheEinzeln DEF IInv, LebendLaeuft

\* And it sends no other coroutine to the point of breaking a lock.
LEMMA GeheBruch ==
  ASSUME IInv, NEW i \in Inst, NEW a \in Aufgabe,
         NEW s \in PcStates \ {"brechen"}, Gehe(i, a, s),
         UNCHANGED lebend,
         \A j \in Inst: \A b \in Aufgabe:
            ~(j = i /\ b = a) => fremd'[j][b] = fremd[j][b]
  PROVE  BruchTrifftNurTote'
  <1>1. TypeOK
    BY DEF IInv
  <1>2. \A j \in Inst: \A b \in Aufgabe:
           pc'[j][b] = IF j = i /\ b = a THEN s ELSE pc[j][b]
    BY <1>1, GeheEinzeln
  <1> QED BY <1>2 DEF IInv, BruchTrifftNurTote

\* Returning the answer forgets the coroutine's token.
LEMMA EndeMerkt ==
  ASSUME IInv, NEW i \in Inst, NEW a \in Aufgabe, Ende(i, a) \/ UNCHANGED mein,
         UNCHANGED <<lebend, vergeben, registratur, herz, stopp>>
  PROVE  MerktNurEigene'
  <1>1. \A j \in Inst: \A b \in Aufgabe: mein'[j][b] \in {mein[j][b], Kein}
    <2>1. CASE UNCHANGED mein
      BY <2>1
    <2>2. CASE Ende(i, a)
      <3>1. mein' = [mein EXCEPT ![i][a] = Kein]
        BY <2>2 DEF Ende
      <3> QED BY <3>1 DEF IInv, TypeOK
    <2> QED BY <2>1, <2>2
  <1> QED BY <1>1 DEF IInv, MerktNurEigene

\* A process that the note proves dead created none of the living tokens.
LEMMA NachweisStimmt ==
  ASSUME IInv, NEW i \in Inst, NachweislichTot(i), NEW j \in Inst
  PROVE  vermerk.tok \notin lebend[j]
  BY DEF IInv, NachweislichTot, PidExistiert, VermerkNenntDenHalter

\* Every step keeps the inductive invariant.
LEMMA IInvNext == IInv /\ [Next]_vars => IInv'
  <1> SUFFICES ASSUME IInv, [Next]_vars PROVE IInv'
    OBVIOUS
  <1>0. TypeOK /\ TypeOK'
    BY TypeNext DEF IInv
  <1> USE LeaseAssumption DEF IInv
  <1> USE DEF MerktNurEigene, TokenGetrennt, NurVergebene, LebendLaeuft,
              VermerkNenntDenHalter, BruchTrifftNurTote
  <1>1. ASSUME NEW i \in Inst, Start(i) PROVE IInv'
    BY <1>0, <1>1 DEF TypeOK, Start, PidExistiert, Laeuft
  <1>2. ASSUME NEW i \in Inst, Absturz(i) PROVE IInv'
    BY <1>0, <1>2 DEF TypeOK, Absturz, Laeuft
  <1>3. ASSUME NEW i \in Inst, ZyklusMeldet(i) PROVE IInv'
    BY <1>0, <1>3 DEF TypeOK, ZyklusMeldet
  <1>4. ASSUME NEW i \in Inst, RingEndet(i) PROVE IInv'
    BY <1>0, <1>4 DEF TypeOK, RingEndet
  <1>5. ASSUME NEW i \in Inst, HerzSchlaegt(i) PROVE IInv'
    BY <1>0, <1>5 DEF TypeOK, HerzSchlaegt, Laeuft
  <1>6. ASSUME NEW i \in Inst, HerzErneuert(i) PROVE IInv'
    <2>1. MerktNurEigene'
      <3>1. \A j \in Inst: herz'[j].tok \in {herz[j].tok, Kein}
        <4>1. CASE herz' = [herz EXCEPT ![i] = [pc |-> "vermerken", tok |-> herz[i].tok]]
          BY <1>0, <4>1 DEF TypeOK
        <4>2. CASE herz' = [herz EXCEPT ![i] = [pc |-> "austragen", tok |-> herz[i].tok]]
          BY <1>0, <4>2 DEF TypeOK
        <4>3. CASE herz' = [herz EXCEPT ![i] = HerzRuht]
          BY <1>0, <4>3 DEF TypeOK
        <4> QED BY <1>6, <4>1, <4>2, <4>3 DEF HerzErneuert
      <3> QED BY <1>6, <3>1 DEF HerzErneuert
    <2>2. TokenGetrennt'
      BY <1>0, <1>6 DEF TypeOK, HerzErneuert, Renew, Held
    <2>3. NurVergebene'
      BY <1>0, <1>6 DEF TypeOK, HerzErneuert, Renew, Held
    <2>4. LebendLaeuft'
      BY <1>0, <1>6 DEF TypeOK, HerzErneuert, Renew, Held
    <2>5. VermerkNenntDenHalter'
      BY <1>0, <1>6 DEF TypeOK, HerzErneuert, Renew, Held
    <2>6. BruchTrifftNurTote'
      BY <1>0, <1>6 DEF TypeOK, HerzErneuert, Renew, Held
    <2> QED BY <1>0, <2>1, <2>2, <2>3, <2>4, <2>5, <2>6
  <1>7. ASSUME NEW i \in Inst, HerzFertig(i) PROVE IInv'
    <2>1. MerktNurEigene'
      BY <1>0, <1>7 DEF TypeOK, HerzFertig, VermerkSchreiben
    <2>2. TokenGetrennt'
      BY <1>0, <1>7 DEF TypeOK, HerzFertig, VermerkSchreiben
    <2>3. NurVergebene'
      BY <1>0, <1>7 DEF TypeOK, HerzFertig, VermerkSchreiben
    <2>4. LebendLaeuft'
      BY <1>0, <1>7 DEF TypeOK, HerzFertig, VermerkSchreiben
    <2>5. VermerkNenntDenHalter'
      <3>1. CASE VermerkSchreiben(i, herz[i].tok)
        <4>1. herz[i].tok \in lebend[i] \cup {Kein}
          OBVIOUS
        <4> QED BY <1>7, <3>1, <4>1, VermerkBleibtRichtig DEF HerzFertig
      <3>2. CASE UNCHANGED vermerk
        BY <1>7, <3>2 DEF HerzFertig
      <3> QED BY <1>7, <3>1, <3>2 DEF HerzFertig
    <2>6. BruchTrifftNurTote'
      BY <1>0, <1>7 DEF TypeOK, HerzFertig, VermerkSchreiben
    <2> QED BY <1>0, <2>1, <2>2, <2>3, <2>4, <2>5, <2>6
  <1>8. ASSUME NEW i \in Inst, Beenden(i) PROVE IInv'
    BY <1>0, <1>8 DEF TypeOK, Beenden, Laeuft
  <1>9. ASSUME NEW i \in Inst, Freigeben(i) PROVE IInv'
    BY <1>0, <1>9 DEF TypeOK, Freigeben, Release, Held
  <1>10. ASSUME NEW i \in Inst, NEW a \in Aufgabe, Nachschlagen(i, a) PROVE IInv'
    BY <1>0, <1>10 DEF TypeOK, Nachschlagen, Gehe, Laeuft
  <1>11. ASSUME NEW i \in Inst, NEW a \in Aufgabe, HaeltNoch(i, a) PROVE IInv'
    <2>1. MerktNurEigene'
      BY <1>11, EndeMerkt DEF HaeltNoch, Weiter
    <2>2. TokenGetrennt' /\ NurVergebene' /\ VermerkNenntDenHalter'
      BY <1>11 DEF HaeltNoch
    <2>3. PICK s \in {"verfallen", "ruht"}: Gehe(i, a, s)
      BY <1>11 DEF HaeltNoch, Weiter, Ende
    <2>4. LebendLaeuft'
      BY <1>11, <2>3, GeheLaeuft DEF HaeltNoch, PcStates
    <2>5. BruchTrifftNurTote'
      BY <1>11, <2>3, GeheBruch DEF HaeltNoch, PcStates
    <2> QED BY <1>0, <2>1, <2>2, <2>4, <2>5
  <1>12. ASSUME NEW i \in Inst, NEW a \in Aufgabe, NeueSperre(i, a) PROVE IInv'
    <2>1. MerktNurEigene'
      BY <1>0, <1>12 DEF TypeOK, NeueSperre, Gehe
    <2>2. TokenGetrennt'
      BY <1>0, <1>12 DEF TypeOK, NeueSperre, Gehe
    <2>3. NurVergebene'
      BY <1>0, <1>12 DEF TypeOK, NeueSperre, Gehe
    <2>4. LebendLaeuft'
      BY <1>0, <1>12 DEF TypeOK, NeueSperre, Gehe
    <2>5. VermerkNenntDenHalter'
      BY <1>0, <1>12 DEF TypeOK, NeueSperre, Gehe
    <2>6. BruchTrifftNurTote'
      BY <1>0, <1>12 DEF TypeOK, NeueSperre, Gehe
    <2> QED BY <1>0, <2>1, <2>2, <2>3, <2>4, <2>5, <2>6
  <1>13. ASSUME NEW i \in Inst, NEW a \in Aufgabe, Erwerben(i, a) PROVE IInv'
    <2>1. MerktNurEigene'
      BY <1>0, <1>13 DEF TypeOK, Erwerben, Gehe, Acquire, Frei
    <2>2. TokenGetrennt'
      BY <1>0, <1>13 DEF TypeOK, Erwerben, Gehe, Acquire, Frei
    <2>3. NurVergebene'
      BY <1>0, <1>13 DEF TypeOK, Erwerben, Gehe, Acquire, Frei
    <2>4. LebendLaeuft'
      <3>1. PICK s \in {"vermerken", "halter"}: Gehe(i, a, s)
        BY <1>13 DEF Erwerben
      <3> QED BY <1>13, <3>1, GeheLaeuft DEF Erwerben, PcStates
    <2>5. VermerkNenntDenHalter'
      BY <1>0, <1>13 DEF TypeOK, Erwerben, Gehe, Acquire, Frei
    <2>6. BruchTrifftNurTote'
      <3>1. PICK s \in {"vermerken", "halter"}: Gehe(i, a, s)
        BY <1>13 DEF Erwerben
      <3> QED BY <1>13, <3>1, GeheBruch DEF Erwerben, PcStates
    <2> QED BY <1>0, <2>1, <2>2, <2>3, <2>4, <2>5, <2>6
  <1>14. ASSUME NEW i \in Inst, NEW a \in Aufgabe, HalterPruefen(i, a) PROVE IInv'
    <2>1. MerktNurEigene'
      BY <1>14, EndeMerkt DEF HalterPruefen, Weiter
    <2>2. TokenGetrennt'
      BY <1>0, <1>14 DEF HalterPruefen
    <2>3. NurVergebene'
      <3>1. \A j \in Inst, b \in Aufgabe: fremd'[j][b] \in {fremd[j][b], vermerk.tok}
        <4>1. CASE fremd' = [fremd EXCEPT ![i][a] = vermerk.tok]
          BY <1>0, <4>1 DEF TypeOK
        <4>2. CASE UNCHANGED fremd
          BY <4>2
        <4> QED BY <1>14, <4>1, <4>2 DEF HalterPruefen
      <3> QED BY <1>14, <3>1 DEF HalterPruefen
    <2>4. LebendLaeuft'
      <3>1. PICK s \in {"brechen", "ruht"}: Gehe(i, a, s)
        BY <1>14 DEF HalterPruefen, Weiter, Ende
      <3> QED BY <1>14, <3>1, GeheLaeuft DEF HalterPruefen, PcStates
    <2>5. VermerkNenntDenHalter'
      BY <1>0, <1>14 DEF HalterPruefen
    <2>6. BruchTrifftNurTote'
      <3>1. CASE Ende(i, a) /\ UNCHANGED fremd
        BY <1>14, <3>1, GeheBruch DEF HalterPruefen, Ende, PcStates
      <3>2. CASE /\ NachweislichTot(i)
                 /\ fremd' = [fremd EXCEPT ![i][a] = vermerk.tok]
                 /\ Weiter(i, a, "brechen")
        <4> SUFFICES ASSUME NEW j \in Inst, NEW l \in Inst, NEW b \in Aufgabe,
                            pc'[j][b] = "brechen"
                     PROVE  fremd'[j][b] \notin lebend[l]
          BY <1>14 DEF HalterPruefen
        <4>1. CASE j = i /\ b = a
          BY <1>0, <3>2, <4>1, NachweisStimmt DEF TypeOK
        <4>2. CASE ~(j = i /\ b = a)
          <5>1. pc[j][b] = "brechen" /\ fremd'[j][b] = fremd[j][b]
            BY <1>0, <3>2, <4>2 DEF TypeOK, Weiter, Gehe
          <5> QED BY <5>1
        <4> QED BY <4>1, <4>2
      <3> QED BY <1>14, <3>1, <3>2 DEF HalterPruefen
    <2> QED BY <1>0, <2>1, <2>2, <2>3, <2>4, <2>5, <2>6
  <1>15. ASSUME NEW i \in Inst, NEW a \in Aufgabe, HalterBrechen(i, a) PROVE IInv'
    <2>0. PICK s \in {"erwerben2", "ruht"}: Gehe(i, a, s)
      BY <1>15 DEF HalterBrechen, Weiter, Ende
    <2>1. MerktNurEigene'
      BY <1>15, EndeMerkt DEF HalterBrechen, Weiter
    <2>2. TokenGetrennt'
      BY <1>15 DEF HalterBrechen
    <2>3. NurVergebene'
      <3>1. \A j \in Inst, b \in Aufgabe: fremd'[j][b] \in {fremd[j][b], Kein}
        BY <1>0, <1>15 DEF TypeOK, HalterBrechen
      <3>2. sperre'.tok \in {sperre.tok, Kein}
        BY <1>15 DEF HalterBrechen, Brechen
      <3> QED BY <1>0, <1>15, <3>1, <3>2 DEF HalterBrechen, TypeOK
    <2>4. LebendLaeuft'
      BY <1>15, <2>0, GeheLaeuft DEF HalterBrechen, PcStates
    <2>5. VermerkNenntDenHalter'
      BY <1>15 DEF HalterBrechen
    <2>6. BruchTrifftNurTote'
      <3>1. \A j \in Inst: \A b \in Aufgabe:
               ~(j = i /\ b = a) => fremd'[j][b] = fremd[j][b]
        BY <1>0, <1>15 DEF TypeOK, HalterBrechen
      <3> QED BY <1>15, <2>0, <3>1, GeheBruch DEF HalterBrechen, PcStates
    <2> QED BY <1>0, <2>1, <2>2, <2>3, <2>4, <2>5, <2>6
  <1>16. ASSUME NEW i \in Inst, NEW a \in Aufgabe, ErwerbenNachBruch(i, a) PROVE IInv'
    <2>1. MerktNurEigene'
      BY <1>16, EndeMerkt DEF ErwerbenNachBruch, Weiter
    <2>2. TokenGetrennt'
      BY <1>0, <1>16 DEF TypeOK, ErwerbenNachBruch, Gehe, Acquire, Frei, Weiter, Ende
    <2>3. NurVergebene'
      BY <1>0, <1>16 DEF TypeOK, ErwerbenNachBruch, Gehe, Acquire, Frei, Weiter, Ende
    <2>4. LebendLaeuft'
      <3>1. PICK s \in {"vermerken", "ruht"}: Gehe(i, a, s)
        BY <1>16 DEF ErwerbenNachBruch, Weiter, Ende
      <3> QED BY <1>16, <3>1, GeheLaeuft DEF ErwerbenNachBruch, PcStates
    <2>5. VermerkNenntDenHalter'
      BY <1>0, <1>16 DEF TypeOK, ErwerbenNachBruch, Gehe, Acquire, Frei, Weiter, Ende
    <2>6. BruchTrifftNurTote'
      <3>1. PICK s \in {"vermerken", "ruht"}: Gehe(i, a, s)
        BY <1>16 DEF ErwerbenNachBruch, Weiter, Ende
      <3> QED BY <1>16, <3>1, GeheBruch DEF ErwerbenNachBruch, PcStates
    <2> QED BY <1>0, <2>1, <2>2, <2>3, <2>4, <2>5, <2>6
  <1>17. ASSUME NEW i \in Inst, NEW a \in Aufgabe, Vermerken(i, a) PROVE IInv'
    <2>1. MerktNurEigene'
      BY <1>0, <1>17 DEF TypeOK, Vermerken, Gehe, VermerkSchreiben
    <2>2. TokenGetrennt'
      BY <1>0, <1>17 DEF TypeOK, Vermerken, Gehe, VermerkSchreiben
    <2>3. NurVergebene'
      BY <1>0, <1>17 DEF TypeOK, Vermerken, Gehe, VermerkSchreiben
    <2>4. LebendLaeuft'
      BY <1>0, <1>17 DEF TypeOK, Vermerken, Gehe, VermerkSchreiben
    <2>5. VermerkNenntDenHalter'
      <3>1. mein[i][a] \in lebend[i] \cup {Kein}
        OBVIOUS
      <3> QED BY <1>17, <3>1, VermerkBleibtRichtig DEF Vermerken
    <2>6. BruchTrifftNurTote'
      BY <1>0, <1>17 DEF TypeOK, Vermerken, Gehe, VermerkSchreiben
    <2> QED BY <1>0, <2>1, <2>2, <2>3, <2>4, <2>5, <2>6
  <1>18. ASSUME NEW i \in Inst, NEW a \in Aufgabe, Eintragen(i, a) PROVE IInv'
    BY <1>0, <1>18 DEF TypeOK, Eintragen, Gehe, Ende
  <1>19. ASSUME NEW i \in Inst, NEW a \in Aufgabe, AblageFehler(i, a) PROVE IInv'
    BY <1>0, <1>19 DEF TypeOK, AblageFehler, Gehe, Acquire, Frei, Brechen, Held, Ende
  <1>21. CASE Tick
    BY <1>0, <1>21 DEF TypeOK, Tick, Frei
  <1>22. CASE VermerkLaeuftAb
    BY <1>0, <1>22 DEF TypeOK, VermerkLaeuftAb
  <1>23. CASE UNCHANGED vars
    BY <1>0, <1>23 DEF vars
  <1> QED
    BY <1>1, <1>2, <1>3, <1>4, <1>5, <1>6, <1>7, <1>8, <1>9, <1>10, <1>11, <1>12, <1>13, <1>14, <1>15, <1>16, <1>17, <1>18, <1>19, <1>21, <1>22, <1>23
       DEF Next, ProzessSchritt, AufgabeSchritt

\* The inductive invariant: who created which token, and what the note says.
THEOREM LeaseInvariant == Spec => []IInv
  <1>1. Init => IInv
    BY IInvInit
  <1>2. IInv /\ [Next]_vars => IInv'
    BY IInvNext
  <1> QED BY <1>1, <1>2, PTL DEF Spec

\* Whoever breaks a lock breaks that of a process that no longer runs.
THEOREM BruchSicher == Spec => []BruchTrifftNurTote
  <1>1. IInv => BruchTrifftNurTote
    BY DEF IInv
  <1> QED BY <1>1, LeaseInvariant, PTL

\* A late or stale note never names the wrong process for a living token.
THEOREM VermerkSicher == Spec => []VermerkNenntDenHalter
  <1>1. IInv => VermerkNenntDenHalter
    BY DEF IInv
  <1> QED BY <1>1, LeaseInvariant, PTL

----------------------------------------------------------------------------
\* One step of the system takes the permission from a running holder only by
\* expiry or by the holder's own release.
LEMMA HalterBleibtSchritt ==
  ASSUME IInv, [Next]_vars, NEW i \in Inst,
         Haelt(i), pid'[i] = pid[i], ~Haelt(i)'
  PROVE  sperre.rest <= 1 \/ stopp[i] = sperre.tok
  <1>1. sperre.tok \in lebend[i] /\ sperre.tok # Kein /\ pid[i] # Kein
    BY DEF Haelt, Laeuft, IInv, MerktNurEigene, TypeOK
  <1>2. ~Frei
    BY <1>1 DEF Frei
  <1>3. sperre'.tok \notin lebend'[i]
    BY <1>1 DEF Haelt, Laeuft
  <1>4. TypeOK
    BY DEF IInv
  <1>5. ASSUME UNCHANGED <<sperre, lebend>> PROVE FALSE
    BY <1>1, <1>3, <1>5
  <1>6. ASSUME NEW j \in Inst, ProzessSchritt(j)
        PROVE  sperre.rest <= 1 \/ stopp[i] = sperre.tok
    <2>1. CASE Start(j) \/ ZyklusMeldet(j) \/ RingEndet(j) \/ HerzSchlaegt(j)
               \/ HerzFertig(j) \/ Beenden(j)
      BY <1>5, <2>1 DEF Start, ZyklusMeldet, RingEndet, HerzSchlaegt,
                        HerzFertig, Beenden
    <2>2. CASE Absturz(j)
      BY <1>1, <1>3, <1>4, <2>2 DEF Absturz, TypeOK
    <2>3. CASE HerzErneuert(j)
      <3>1. sperre'.tok = sperre.tok /\ UNCHANGED lebend
        BY <2>3 DEF HerzErneuert, Renew, Held
      <3> QED BY <1>1, <1>3, <3>1
    <2>4. CASE Freigeben(j)
      <3>1. stopp[j] = sperre.tok
        BY <1>5, <2>4 DEF Freigeben, Release, Held
      <3>2. stopp[j] \in lebend[j]
        BY <1>1, <3>1 DEF IInv, MerktNurEigene
      <3>3. i = j
        BY <1>1, <3>1, <3>2 DEF IInv, TokenGetrennt
      <3> QED BY <3>1, <3>3
    <2> QED BY <1>6, <2>1, <2>2, <2>3, <2>4 DEF ProzessSchritt
  <1>7. ASSUME NEW j \in Inst, NEW a \in Aufgabe, AufgabeSchritt(j, a)
        PROVE  FALSE
    <2>1. CASE Nachschlagen(j, a) \/ HaeltNoch(j, a) \/ HalterPruefen(j, a)
               \/ Vermerken(j, a) \/ Eintragen(j, a)
      BY <1>5, <2>1 DEF Nachschlagen, HaeltNoch, HalterPruefen, Vermerken,
                        Eintragen
    <2>2. CASE NeueSperre(j, a)
      BY <1>1, <1>3, <1>4, <2>2 DEF NeueSperre, TypeOK
    <2>3. CASE Erwerben(j, a) \/ ErwerbenNachBruch(j, a)
      BY <1>2, <1>5, <2>3 DEF Erwerben, ErwerbenNachBruch, Acquire
    <2>4. ASSUME pc[j][a] = "brechen", Brechen(fremd[j][a], mein[j][a])
          PROVE  FALSE
      BY <1>1, <2>4 DEF Brechen, Held, IInv, BruchTrifftNurTote
    <2>5. CASE HalterBrechen(j, a)
      BY <1>5, <2>4, <2>5 DEF HalterBrechen
    <2>6. CASE AblageFehler(j, a)
      BY <1>2, <1>5, <2>4, <2>6 DEF AblageFehler, Acquire
    <2> QED BY <1>7, <2>1, <2>2, <2>3, <2>5, <2>6 DEF AufgabeSchritt
  <1>8. CASE Tick
    <2>1. sperre.rest > 1 => sperre'.tok = sperre.tok
      BY <1>4, <1>8 DEF Tick, TypeOK
    <2> QED BY <1>1, <1>3, <1>4, <1>8, <2>1 DEF Tick, TypeOK
  <1>9. CASE VermerkLaeuftAb
    BY <1>5, <1>9 DEF VermerkLaeuftAb
  <1>10. CASE UNCHANGED vars
    BY <1>5, <1>10 DEF vars
  <1> QED BY <1>6, <1>7, <1>8, <1>9, <1>10 DEF Next

\* No contender takes the permission from a running holder: neither a break
\* aimed by a stale note, nor a late release, nor an acquisition
\* (core/lease.py, core/state).
THEOREM HalterSicher == Spec => LebenderHalterBleibt
  <1>1. IInv /\ [Next]_vars =>
          [\A i \in Inst: (Haelt(i) /\ pid'[i] = pid[i] /\ ~Haelt(i)')
               => (sperre.rest <= 1 \/ stopp[i] = sperre.tok)]_vars
    BY HalterBleibtSchritt
  <1> QED BY <1>1, LeaseInvariant, PTL DEF Spec, LebenderHalterBleibt
=============================================================================
