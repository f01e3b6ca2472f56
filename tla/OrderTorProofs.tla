--------------------------- MODULE OrderTorProofs ---------------------------
(***************************************************************************)
(* Proofs about the way of an order, for every number of jobs.             *)
(***************************************************************************)
EXTENDS OrderTor, TLAPS, FiniteSetTheorems

USE TorAssumption DEF jobVars, outboxVars, brokerVars, umfeldVars

----------------------------------------------------------------------------
(* Types.                                                                  *)

\* A step of a job keeps the types.
LEMMA TypJob == ASSUME TypeOK, NEW a \in Auftrag, JobSchritt(a) PROVE TypeOK'
<1> USE DEF TypeOK, Aktiv, Ende, Schluessel, Zustand, Erledigt, K, Gehe, Schritt, Fort,
        OutboxSchritt
<1>1. CASE IntentBauen(a)
  BY <1>1 DEF IntentBauen, Gehalten
<1>2. CASE TorGesperrt(a)
  BY <1>2 DEF TorGesperrt
<1>3. CASE Freigeben(a)
  BY <1>3 DEF Freigeben
<1>4. CASE Festschreiben(a)
  <2>1. K(a) \in Schluessel
    OBVIOUS
  <2>2. eintrag' \in [Schluessel -> Zustand] /\ sichtbar' \subseteq Schluessel
    <3> HIDE DEF K, Schluessel
    <3>1. CASE /\ eintrag' = [eintrag EXCEPT ![K(a)] = "offen"]
               /\ sichtbar' = sichtbar \cup {K(a)} \/ UNCHANGED sichtbar
      BY <2>1, <3>1
    <3>2. CASE UNCHANGED outboxVars
      BY <3>2
    <3> QED BY <1>4, <3>1, <3>2 DEF Festschreiben
  <2> QED BY <1>4, <2>2, ZenonT(60) DEF Festschreiben
<1>5. CASE Vermerken(a)
  BY <1>5 DEF Vermerken
<1>6. CASE Entscheiden(a)
  BY <1>6 DEF Entscheiden
<1>7. CASE Senden(a)
  BY <1>7 DEF Senden
<1>8. CASE AntwortOrder(a)
  BY <1>8 DEF AntwortOrder
<1>9. CASE AntwortDuplikat(a)
  BY <1>9 DEF AntwortDuplikat
<1>10. CASE Nachschlagen(a)
  BY <1>10, ZenonT(60) DEF Nachschlagen, ApiFehler
<1>11. CASE AntwortAbgelehnt(a)
  BY <1>11, ZenonT(60) DEF AntwortAbgelehnt, ApiFehler
<1>12. CASE AntwortUnklar(a)
  BY <1>12, ZenonT(60) DEF AntwortUnklar, ApiFehler, Verwaist
<1>13. CASE AntwortNetzfehler(a)
  BY <1>13 DEF AntwortNetzfehler, Verwaist
<1>14. CASE Bestaetigen(a)
  BY <1>14 DEF Bestaetigen
<1>15. CASE Verwerfen(a)
  BY <1>15 DEF Verwerfen
<1> QED BY <1>1, <1>2, <1>3, <1>4, <1>5, <1>6, <1>7, <1>8, <1>9, <1>10, <1>11, <1>12,
           <1>13, <1>14, <1>15 DEF JobSchritt

\* A step of the comparison keeps the types.
LEMMA TypAbgleich == ASSUME TypeOK, NEW i \in Inst, AbgleichSchritt(i) PROVE TypeOK'
<1> USE DEF TypeOK, Aktiv, Ende, Schluessel, Zustand, Erledigt, Fort, AbgStand
<1>1. CASE AbgleichLesen(i)
  BY <1>1 DEF AbgleichLesen
<1>2. CASE AbgleichMerken(i)
  <2>1. abg[i].k \subseteq Schluessel /\ abg[i].liste \subseteq Schluessel /\ abg[i].ziel \in Zustand
    OBVIOUS
  <2>2. eintrag' \in [Schluessel -> Zustand] /\ sichtbar' = sichtbar
    BY <1>2, <2>1 DEF AbgleichMerken
  <2>3. abg' \in [Inst -> [pc: {"aus", "lesen", "fragen", "merken", "fertig"},
                         liste: SUBSET Schluessel, k: SUBSET Schluessel, ziel: Zustand]]
    <3>1. \E p \in {"fragen", "fertig"}, l \in SUBSET Schluessel:
            abg' = [abg EXCEPT ![i] = AbgStand(p, l, {}, "fehlt")]
      BY <1>2, <2>1 DEF AbgleichMerken
    <3> QED BY <3>1
  <2> QED BY <1>2, <2>2, <2>3 DEF AbgleichMerken
<1>3. CASE AbgleichFertig(i)
  BY <1>3 DEF AbgleichFertig
<1>4. ASSUME NEW k \in Schluessel, AbgleichFragen(i, k) PROVE TypeOK'
  <2>1. \E p \in {"fragen", "merken"}, l, m \in SUBSET Schluessel, z \in Zustand:
          abg' = [abg EXCEPT ![i] = AbgStand(p, l, m, z)]
    <3> HIDE DEF AbgStand, Schluessel
    <3>1. abg[i].liste \ {k} \in SUBSET Schluessel /\ {k} \in SUBSET Schluessel
          /\ {} \in SUBSET Schluessel
      OBVIOUS
    <3>2. (IF k \in broker THEN "bestaetigt" ELSE "verworfen") \in Zustand /\ "fehlt" \in Zustand
      OBVIOUS
    <3> QED BY <1>4, <3>1, <3>2 DEF AbgleichFragen
  <2> QED BY <1>4, <2>1 DEF AbgleichFragen
<1> QED BY <1>1, <1>2, <1>3, <1>4 DEF AbgleichSchritt

\* Every step keeps the types; in particular no job outlives its process.
LEMMA TypSchritt == TypeOK /\ [Next]_vars => TypeOK'
<1> SUFFICES ASSUME TypeOK, [Next]_vars PROVE TypeOK'
  OBVIOUS
<1> USE DEF TypeOK, Aktiv, Ende, Schluessel
<1>1. CASE UNCHANGED vars
  BY <1>1 DEF vars
<1>2. ASSUME NEW a \in Auftrag, NEW i \in Inst, Beginnen(a, i) PROVE TypeOK'
  BY <1>2 DEF Beginnen, Gehe
<1>3. ASSUME NEW a \in Auftrag, JobSchritt(a) PROVE TypeOK'
  BY <1>3, TypJob
<1>4. ASSUME NEW k \in Schluessel, BrokerNimmtAn(k) PROVE TypeOK'
  BY <1>4 DEF BrokerNimmtAn
<1>5. ASSUME NEW k \in Schluessel, BrokerLehntAb(k) PROVE TypeOK'
  BY <1>5 DEF BrokerLehntAb
<1>6. ASSUME NEW h \in {"global", "mandant"}, Umschalten(h) PROVE TypeOK'
  BY <1>6 DEF Umschalten
<1>7. CASE SperreWechselt
  BY <1>7 DEF SperreWechselt
<1>8. CASE LeaseVerfaellt
  BY <1>8 DEF LeaseVerfaellt, Keiner
<1>9. ASSUME NEW i \in Inst, Start(i) PROVE TypeOK'
  BY <1>9 DEF Start, AbgStand, Zustand
<1>10. ASSUME NEW i \in Inst, Absturz(i) PROVE TypeOK'
  BY <1>10 DEF Absturz, AbgRuht, AbgStand, Verwaist, Zustand
<1>11. ASSUME NEW i \in Inst, AbgleichSchritt(i) PROVE TypeOK'
  BY <1>11, TypAbgleich
<1> QED BY <1>1, <1>2, <1>3, <1>4, <1>5, <1>6, <1>7, <1>8, <1>9, <1>10, <1>11 DEF Next

\* Type correctness of the way of an order (core/engine/absendung_tor.py).
THEOREM TorTypKorrekt == Spec => []TypeOK
<1>1. Init => TypeOK
  BY DEF Init, TypeOK, AbgRuht, AbgStand, Zustand, Schluessel, Keiner, Aktiv, Ende
<1> QED BY <1>1, TypSchritt, PTL DEF Spec

----------------------------------------------------------------------------
(* What holds without any assumption on store, broker and processes.       *)

\* Control states in which nothing was written, or nothing was sent, under
\* the present key of the job.
Ungeschrieben == {"neu", "intent", "sperren", "freigeben", "fest"}
Ungesendet == Ungeschrieben \cup {"vermerk", "entscheiden", "senden", "verwerfen", "zurueck"}

\* A request is in flight, accepted or refused, and only one of them.
Getrennt ==
    \A k \in Schluessel: /\ k \in unterwegs => k \notin broker \cup abgewiesen
                         /\ k \in broker => k \notin abgewiesen

\* Nothing is known of a key before the job sends, or writes, under it.
VorDemSenden ==
    \A a \in Auftrag:
        /\ pc[a] \in Ungesendet => K(a) \notin unterwegs \cup broker \cup abgewiesen
        /\ vers[a] = 0 => <<a, 1>> \notin unterwegs \cup broker \cup abgewiesen
VorDemSchreiben ==
    \A a \in Auftrag:
        /\ pc[a] \in Ungeschrieben => eintrag[K(a)] = "fehlt"
        /\ vers[a] = 0 => eintrag[<<a, 1>>] = "fehlt"

\* A job past the lookup or the answer of the broker has an order there, and
\* the jobs of an instance run only once its comparison is through.
AntwortWahr == \A a \in Auftrag: pc[a] \in {"nachschlagen", "bestaetigen"} => K(a) \in broker
ErstAbgleich == \A a \in Auftrag: pc[a] \in Aktiv => abg[inst[a]].pc = "fertig"

Basis == TypeOK /\ Getrennt /\ VorDemSenden /\ VorDemSchreiben /\ AntwortWahr /\ ErstAbgleich

\* A step of a job keeps the base invariant.
LEMMA BasisJob ==
  ASSUME Basis, NEW a \in Auftrag, JobSchritt(a)
  PROVE  Getrennt' /\ VorDemSenden' /\ VorDemSchreiben' /\ AntwortWahr' /\ ErstAbgleich'
<1> USE DEF Basis, TypeOK, Getrennt, VorDemSenden, VorDemSchreiben, AntwortWahr, ErstAbgleich,
        Ungeschrieben, Ungesendet, Aktiv, Ende, Schluessel, K, Gehe, Schritt
<1>1. CASE IntentBauen(a)
  BY <1>1 DEF IntentBauen
<1>2. CASE TorGesperrt(a)
  BY <1>2 DEF TorGesperrt
<1>3. CASE Freigeben(a)
  BY <1>3 DEF Freigeben
<1>4. CASE Festschreiben(a)
  BY <1>4 DEF Festschreiben
<1>5. CASE Vermerken(a)
  BY <1>5 DEF Vermerken, OutboxSchritt, Fort
<1>6. CASE Entscheiden(a)
  BY <1>6 DEF Entscheiden
<1>7. CASE Senden(a)
  <2>1. K(a) \notin broker \cup abgewiesen /\ unterwegs' = unterwegs \cup {K(a)}
    BY <1>7 DEF Senden
  <2>2. Getrennt'
    BY <1>7, <2>1 DEF Senden
  <2>3. VorDemSenden'
    <3>1. \A b \in Auftrag: b # a => pc'[b] = pc[b]
      BY <1>7 DEF Senden
    <3>2. vers' = vers /\ pc'[a] = "warten" /\ broker' = broker /\ abgewiesen' = abgewiesen
      BY <1>7 DEF Senden
    <3>3. SUFFICES ASSUME NEW b \in Auftrag
                   PROVE  /\ pc'[b] \in Ungesendet => K(b)' \notin unterwegs' \cup broker' \cup abgewiesen'
                          /\ vers'[b] = 0 => <<b, 1>> \notin unterwegs' \cup broker' \cup abgewiesen'
      OBVIOUS
    <3>4. CASE b = a
      BY <2>1, <3>2, <3>4
    <3>5. CASE b # a
      <4>1. K(b) # K(a) /\ <<b, 1>> # K(a) /\ K(b)' = K(b)
        BY <3>2, <3>5
      <4> QED BY <2>1, <3>1, <3>2, <3>5, <4>1
    <3> QED BY <3>4, <3>5
  <2>4. VorDemSchreiben' /\ AntwortWahr' /\ ErstAbgleich'
    BY <1>7 DEF Senden
  <2> QED BY <2>2, <2>3, <2>4
<1>8. CASE AntwortOrder(a)
  BY <1>8, ZenonT(60) DEF AntwortOrder
<1>9. CASE AntwortDuplikat(a)
  BY <1>9, ZenonT(60) DEF AntwortDuplikat
<1>10. CASE Nachschlagen(a)
  BY <1>10 DEF Nachschlagen, ApiFehler
<1>11. CASE AntwortAbgelehnt(a)
  BY <1>11 DEF AntwortAbgelehnt, ApiFehler
<1>12. CASE AntwortUnklar(a)
  <2>1. /\ unterwegs' \subseteq unterwegs /\ broker' = broker /\ abgewiesen' = abgewiesen
        /\ eintrag' = eintrag /\ abg' = abg /\ inst' = inst
    BY <1>12 DEF AntwortUnklar, ApiFehler, Verwaist
  <2>2. CASE vers' = [vers EXCEPT ![a] = 1] /\ Gehe(a, "intent") /\ vers[a] = 0
    BY <1>12, <2>1, <2>2 DEF AntwortUnklar
  <2>3. CASE Schritt(a, "fehler")
    BY <1>12, <2>1, <2>3 DEF AntwortUnklar
  <2> QED BY <1>12, <2>2, <2>3 DEF AntwortUnklar, ApiFehler
<1>13. CASE AntwortNetzfehler(a)
  BY <1>13 DEF AntwortNetzfehler, Verwaist
<1>14. CASE Bestaetigen(a)
  BY <1>14 DEF Bestaetigen, OutboxSchritt, Fort
<1>15. CASE Verwerfen(a)
  BY <1>15 DEF Verwerfen, OutboxSchritt, Fort
<1> QED BY <1>1, <1>2, <1>3, <1>4, <1>5, <1>6, <1>7, <1>8, <1>9, <1>10, <1>11, <1>12,
           <1>13, <1>14, <1>15 DEF JobSchritt

\* So does every other step.
LEMMA BasisSchritt == Basis /\ [Next]_vars => Basis'
<1> SUFFICES ASSUME Basis, [Next]_vars
             PROVE  Getrennt' /\ VorDemSenden' /\ VorDemSchreiben' /\ AntwortWahr' /\ ErstAbgleich'
  BY TypSchritt DEF Basis
<1> USE DEF Basis, TypeOK, Getrennt, VorDemSenden, VorDemSchreiben, AntwortWahr, ErstAbgleich,
        Ungeschrieben, Ungesendet, Aktiv, Ende, Schluessel, K
<1>1. CASE UNCHANGED vars
  BY <1>1 DEF vars
<1>2. ASSUME NEW a \in Auftrag, NEW i \in Inst, Beginnen(a, i)
      PROVE  Getrennt' /\ VorDemSenden' /\ VorDemSchreiben' /\ AntwortWahr' /\ ErstAbgleich'
  BY <1>2 DEF Beginnen, Gehe
<1>3. ASSUME NEW a \in Auftrag, JobSchritt(a)
      PROVE  Getrennt' /\ VorDemSenden' /\ VorDemSchreiben' /\ AntwortWahr' /\ ErstAbgleich'
  BY <1>3, BasisJob
<1>4. ASSUME NEW k \in Schluessel, BrokerNimmtAn(k) \/ BrokerLehntAb(k)
      PROVE  Getrennt' /\ VorDemSenden' /\ VorDemSchreiben' /\ AntwortWahr' /\ ErstAbgleich'
  BY <1>4 DEF BrokerNimmtAn, BrokerLehntAb
<1>5. ASSUME NEW h, Umschalten(h) \/ SperreWechselt \/ LeaseVerfaellt
      PROVE  Getrennt' /\ VorDemSenden' /\ VorDemSchreiben' /\ AntwortWahr' /\ ErstAbgleich'
  BY <1>5 DEF Umschalten, SperreWechselt, LeaseVerfaellt
<1>6. ASSUME NEW i \in Inst, Start(i)
      PROVE  Getrennt' /\ VorDemSenden' /\ VorDemSchreiben' /\ AntwortWahr' /\ ErstAbgleich'
  BY <1>6 DEF Start, AbgStand
<1>7. ASSUME NEW i \in Inst, Absturz(i)
      PROVE  Getrennt' /\ VorDemSenden' /\ VorDemSchreiben' /\ AntwortWahr' /\ ErstAbgleich'
  BY <1>7 DEF Absturz, AbgRuht, AbgStand, Verwaist
<1>8. ASSUME NEW i \in Inst, AbgleichSchritt(i)
      PROVE  Getrennt' /\ VorDemSenden' /\ VorDemSchreiben' /\ AntwortWahr' /\ ErstAbgleich'
  <2>1. CASE AbgleichLesen(i)
    BY <2>1 DEF AbgleichLesen, AbgStand
  <2>2. CASE AbgleichMerken(i)
    BY <2>2, SMTT(40) DEF AbgleichMerken, AbgStand, Fort
  <2>3. CASE AbgleichFertig(i)
    BY <2>3 DEF AbgleichFertig, AbgStand
  <2>4. ASSUME NEW k \in Schluessel, AbgleichFragen(i, k)
        PROVE  Getrennt' /\ VorDemSenden' /\ VorDemSchreiben' /\ AntwortWahr' /\ ErstAbgleich'
    BY <2>4, SMTT(40) DEF AbgleichFragen, AbgStand
  <2> QED BY <1>8, <2>1, <2>2, <2>3, <2>4 DEF AbgleichSchritt
<1> QED BY <1>1, <1>2, <1>3, <1>4, <1>5, <1>6, <1>7, <1>8 DEF Next

\* The base invariant of the way of an order holds.
THEOREM TorBasis == Spec => []Basis
<1>1. Init => Basis
  BY DEF Init, Basis, TypeOK, Getrennt, VorDemSenden, VorDemSchreiben, AntwortWahr, ErstAbgleich,
         Ungeschrieben, Ungesendet, AbgRuht, AbgStand, Zustand, Schluessel, Keiner, Aktiv, Ende, K
<1> QED BY <1>1, BasisSchritt, PTL DEF Spec

----------------------------------------------------------------------------
(* The outbox as the job sees it.                                          *)

\* _schreibe_fort with a final state settles an open entry and nothing else.
LEMMA FortAbschluss ==
  ASSUME TypeOK, NEW k \in Schluessel, NEW z \in Erledigt, Fort(k, z)
  PROVE  /\ eintrag'[k] = IF Offen(k) THEN z ELSE eintrag[k]
         /\ \A l \in Schluessel \ {k}: eintrag'[l] = eintrag[l]
         /\ sichtbar' = sichtbar
  BY DEF TypeOK, Fort, Offen, Rang, Zustand, Erledigt

\* _schreibe_fort with "sent" moves an open entry that was not sent yet.
LEMMA FortVermerk ==
  ASSUME TypeOK, NEW k \in Schluessel, Fort(k, "abgesendet")
  PROVE  /\ eintrag'[k] = IF eintrag[k] = "offen" THEN "abgesendet" ELSE eintrag[k]
         /\ \A l \in Schluessel \ {k}: eintrag'[l] = eintrag[l]
         /\ sichtbar' = sichtbar
  BY DEF TypeOK, Fort, Rang, Zustand, Erledigt

----------------------------------------------------------------------------
(* A store that works: nothing at the broker is hidden, and a job that was *)
(* held back leaves nothing in the air.                                    *)

\* What is written is listed, and a job past its writing has written.
Geschrieben ==
    /\ \A k \in Schluessel: eintrag[k] # "fehlt" => k \in sichtbar
    /\ \A a \in Auftrag: pc[a] \in Aktiv \ Ungeschrieben => eintrag[K(a)] # "fehlt"

Belegt == Geschrieben /\ SichtbarVorDemBroker /\ ZurueckgehaltenSpurlos

\* A step of a job keeps this, as long as the store works.
LEMMA BelegtJob ==
  ASSUME Basis, Belegt, AblageFehler = FALSE, NEW a \in Auftrag, JobSchritt(a)
  PROVE  Belegt'
<1> USE DEF Basis, TypeOK, VorDemSenden, VorDemSchreiben, Belegt, Geschrieben,
        SichtbarVorDemBroker, ZurueckgehaltenSpurlos, Offen,
        Ungeschrieben, Ungesendet, Aktiv, Ende, Schluessel, K, Gehe, Schritt
<1>1. CASE IntentBauen(a)
  BY <1>1 DEF IntentBauen
<1>2. CASE TorGesperrt(a) \/ Freigeben(a)
  <2>1. /\ eintrag[K(a)] = "fehlt" /\ K(a) \notin unterwegs \cup broker
        /\ pc[a] \in Ungeschrieben /\ pc'[a] \in {"zurueck", "freigeben", "fest"}
    <3>1. pc[a] \in {"sperren", "freigeben"} /\ pc'[a] \in {"zurueck", "freigeben", "fest"}
      BY <1>2 DEF TorGesperrt, Freigeben
    <3> HIDE DEF K
    <3> QED BY <3>1
  <2>2. /\ \A b \in Auftrag \ {a}: pc'[b] = pc[b]
        /\ \A b \in Auftrag: K(b)' = K(b)
        /\ UNCHANGED <<eintrag, sichtbar, unterwegs, broker>>
    BY <1>2 DEF TorGesperrt, Freigeben
  <2> HIDE DEF K
  <2> QED BY <2>1, <2>2
<1>4. CASE Festschreiben(a)
  <2>1. K(a) \in Schluessel /\ eintrag[K(a)] = "fehlt" /\ \A b \in Auftrag \ {a}: K(b) # K(a)
    BY <1>4, ZenonT(60) DEF Festschreiben
  <2>2. /\ eintrag'[K(a)] = "offen" /\ \A l \in Schluessel \ {K(a)}: eintrag'[l] = eintrag[l]
        /\ sichtbar' = sichtbar \cup {K(a)}
    <3> HIDE DEF K, Schluessel
    <3> QED BY <1>4, <2>1 DEF Festschreiben
  <2>3. /\ pc'[a] = "vermerk" /\ \A b \in Auftrag \ {a}: pc'[b] = pc[b]
        /\ \A b \in Auftrag: K(b)' = K(b) /\ K(b) \in Schluessel
        /\ UNCHANGED <<unterwegs, broker>>
    BY <1>4 DEF Festschreiben
  <2> HIDE DEF K, Schluessel
  <2> QED BY <2>1, <2>2, <2>3
<1>5. CASE Vermerken(a)
  BY <1>5, FortVermerk, SMTT(40) DEF Vermerken, OutboxSchritt
<1>6. CASE Entscheiden(a)
  BY <1>6 DEF Entscheiden
<1>7. CASE Senden(a)
  BY <1>7 DEF Senden
<1>8. CASE AntwortOrder(a)
  BY <1>8 DEF AntwortOrder
<1>9. CASE AntwortDuplikat(a)
  BY <1>9 DEF AntwortDuplikat
<1>10. CASE Nachschlagen(a)
  BY <1>10, SMTT(40) DEF Nachschlagen, ApiFehler
<1>11. CASE AntwortAbgelehnt(a)
  BY <1>11 DEF AntwortAbgelehnt, ApiFehler
<1>12. CASE AntwortUnklar(a)
  BY <1>12 DEF AntwortUnklar, ApiFehler, Verwaist
<1>13. CASE AntwortNetzfehler(a)
  BY <1>13 DEF AntwortNetzfehler, Verwaist
<1>14. CASE Bestaetigen(a) \/ Verwerfen(a)
  <2>1. /\ K(a) \in Schluessel /\ \A b \in Auftrag \ {a}: K(b) # K(a)
        /\ \A b \in Auftrag: K(b)' = K(b) /\ K(b) \in Schluessel
        /\ \A b \in Auftrag \ {a}: pc'[b] = pc[b]
        /\ UNCHANGED <<unterwegs, broker>>
    BY <1>14 DEF Bestaetigen, Verwerfen
  <2>2. PICK z \in Erledigt: Fort(K(a), z)
    BY <1>14 DEF Bestaetigen, Verwerfen, OutboxSchritt, Erledigt
  <2>3. /\ eintrag'[K(a)] = IF Offen(K(a)) THEN z ELSE eintrag[K(a)]
        /\ \A l \in Schluessel \ {K(a)}: eintrag'[l] = eintrag[l]
        /\ sichtbar' = sichtbar
    BY <2>1, <2>2, FortAbschluss
  <2>4. /\ pc'[a] \in {"fertig", "zurueck"} /\ eintrag[K(a)] # "fehlt"
        /\ pc'[a] = "zurueck" => K(a) \notin unterwegs \cup broker
    <3>1. \/ pc[a] = "bestaetigen" /\ pc'[a] = "fertig"
          \/ pc[a] = "verwerfen" /\ pc'[a] = "zurueck"
      BY <1>14 DEF Bestaetigen, Verwerfen
    <3>2. eintrag[K(a)] # "fehlt"
      <4> HIDE DEF K, Schluessel
      <4> QED BY <3>1
    <3>3. pc[a] = "verwerfen" => K(a) \notin unterwegs \cup broker
      <4> HIDE DEF K, Schluessel
      <4> QED OBVIOUS
    <3> HIDE DEF K, Schluessel
    <3> QED BY <3>1, <3>2, <3>3
  <2> HIDE DEF K, Schluessel
  <2> QED BY <2>1, <2>2, <2>3, <2>4 DEF Erledigt
<1> QED BY <1>1, <1>2, <1>4, <1>5, <1>6, <1>7, <1>8, <1>9, <1>10, <1>11, <1>12,
           <1>13, <1>14 DEF JobSchritt

\* So does every other step: the comparison only settles what is listed.
LEMMA BelegtSchritt ==
  ASSUME AblageFehler = FALSE
  PROVE  Basis /\ Belegt /\ [Next]_vars => Belegt'
<1> SUFFICES ASSUME Basis, Belegt, [Next]_vars PROVE Belegt'
  OBVIOUS
<1> USE DEF Basis, TypeOK, Belegt, Geschrieben, SichtbarVorDemBroker, ZurueckgehaltenSpurlos,
        Offen, Ungeschrieben, Ungesendet, VorDemSchreiben, VorDemSenden, Aktiv, Ende,
        Schluessel, K
<1>1. CASE UNCHANGED vars
  BY <1>1 DEF vars
<1>2. ASSUME NEW a \in Auftrag, NEW i \in Inst, Beginnen(a, i) PROVE Belegt'
  BY <1>2 DEF Beginnen, Gehe
<1>3. ASSUME NEW a \in Auftrag, JobSchritt(a) PROVE Belegt'
  BY <1>3, BelegtJob
<1>4. ASSUME NEW k \in Schluessel, BrokerNimmtAn(k) \/ BrokerLehntAb(k) PROVE Belegt'
  BY <1>4 DEF BrokerNimmtAn, BrokerLehntAb
<1>5. ASSUME NEW h, Umschalten(h) \/ SperreWechselt \/ LeaseVerfaellt PROVE Belegt'
  BY <1>5 DEF Umschalten, SperreWechselt, LeaseVerfaellt
<1>6. ASSUME NEW i \in Inst, Start(i) PROVE Belegt'
  BY <1>6 DEF Start
<1>7. ASSUME NEW i \in Inst, Absturz(i) PROVE Belegt'
  BY <1>7 DEF Absturz, Verwaist
<1>8. ASSUME NEW i \in Inst, AbgleichSchritt(i) PROVE Belegt'
  <2>1. CASE AbgleichLesen(i)
    BY <2>1 DEF AbgleichLesen
  <2>2. CASE AbgleichMerken(i)
    <3>1. \A l \in Schluessel:
            eintrag'[l] = eintrag[l] \/ (Offen(l) /\ eintrag'[l] # "fehlt")
      <4>1. CASE eintrag' = eintrag
        BY <4>1
      <4>2. ASSUME NEW k \in abg[i].k, Fort(k, abg[i].ziel)
            PROVE  \A l \in Schluessel:
                     eintrag'[l] = eintrag[l] \/ (Offen(l) /\ eintrag'[l] # "fehlt")
        <5>1. k \in Schluessel /\ abg[i].ziel \in Zustand
          OBVIOUS
        <5> HIDE DEF Schluessel
        <5> QED BY <4>2, <5>1 DEF Fort, Rang, Zustand, Erledigt
      <4> QED BY <2>2, <4>1, <4>2 DEF AbgleichMerken
    <3>2. \A a \in Auftrag: K(a) \in Schluessel /\ K(a)' = K(a)
      BY <2>2 DEF AbgleichMerken
    <3> HIDE DEF K, Schluessel
    <3> QED BY <2>2, <3>1, <3>2 DEF AbgleichMerken, Fort
  <2>3. CASE AbgleichFertig(i)
    BY <2>3 DEF AbgleichFertig
  <2>4. ASSUME NEW k \in Schluessel, AbgleichFragen(i, k) PROVE Belegt'
    BY <2>4 DEF AbgleichFragen
  <2> QED BY <1>8, <2>1, <2>2, <2>3, <2>4 DEF AbgleichSchritt
<1> QED BY <1>1, <1>2, <1>3, <1>4, <1>5, <1>6, <1>7, <1>8 DEF Next

\* With a store that works, every request and every order is one a restart
\* finds, wherever a process dies (festschreiben before the gateway).
THEOREM NichtsVerborgen ==
  ASSUME AblageFehler = FALSE
  PROVE  Spec => []SichtbarVorDemBroker
<1>1. Init => Belegt
  BY DEF Init, Belegt, Geschrieben, SichtbarVorDemBroker, ZurueckgehaltenSpurlos, Aktiv,
         Schluessel, K
<1>2. Basis /\ Belegt /\ [Next]_vars => Belegt'
  BY BelegtSchritt
<1>3. Belegt => SichtbarVorDemBroker
  BY DEF Belegt
<1> QED BY <1>1, <1>2, <1>3, TorBasis, PTL DEF Spec

\* With a store that works, an order held back by a gate leaves no open
\* intent and no request behind (_sende_durchs_tor, als_verworfen).
THEOREM ZurueckgehaltenOhneSpur ==
  ASSUME AblageFehler = FALSE
  PROVE  Spec => []ZurueckgehaltenSpurlos
<1>1. Init => Belegt
  BY DEF Init, Belegt, Geschrieben, SichtbarVorDemBroker, ZurueckgehaltenSpurlos, Aktiv,
         Schluessel, K
<1>2. Basis /\ Belegt /\ [Next]_vars => Belegt'
  BY BelegtSchritt
<1>3. Belegt => ZurueckgehaltenSpurlos
  BY DEF Belegt
<1> QED BY <1>1, <1>2, <1>3, TorBasis, PTL DEF Spec

----------------------------------------------------------------------------
(* The market order replaces a refused limit exit, and only a refused one. *)

\* A job is at its second key only after the broker refused the first one.
NurNachAblehnung == \A a \in Auftrag: vers[a] = 1 => <<a, 0>> \in abgewiesen

\* Every step keeps this if an API error always tells the fate of the order.
LEMMA AblehnungSchritt ==
  ASSUME Mehrdeutig = FALSE
  PROVE  Basis /\ NurNachAblehnung /\ [Next]_vars => NurNachAblehnung'
<1> SUFFICES ASSUME Basis, NurNachAblehnung, [Next]_vars PROVE NurNachAblehnung'
  OBVIOUS
<1> USE DEF Basis, TypeOK, NurNachAblehnung
<1>1. ASSUME UNCHANGED vers, abgewiesen \subseteq abgewiesen' PROVE NurNachAblehnung'
  BY <1>1
<1>2. ASSUME NEW a \in Auftrag, JobSchritt(a) PROVE NurNachAblehnung'
  <2>1. CASE AntwortAbgelehnt(a)
    <3>1. \/ UNCHANGED vers
          \/ vers[a] = 0 /\ vers' = [vers EXCEPT ![a] = 1]
      BY <2>1 DEF AntwortAbgelehnt, ApiFehler, Schritt
    <3>2. <<a, vers[a]>> \in abgewiesen /\ abgewiesen' = abgewiesen
      BY <2>1 DEF AntwortAbgelehnt, K
    <3> QED BY <3>1, <3>2
  <2>2. CASE UNCHANGED <<vers, abgewiesen>>
    BY <2>2
  <2>3. \/ AntwortAbgelehnt(a) \/ UNCHANGED <<vers, abgewiesen>>
    BY <1>2 DEF JobSchritt, IntentBauen, TorGesperrt, Freigeben, Festschreiben, Vermerken,
        Entscheiden, Senden, AntwortOrder, AntwortDuplikat, Nachschlagen, AntwortUnklar,
        AntwortNetzfehler, Bestaetigen, Verwerfen, Schritt
  <2> QED BY <2>1, <2>2, <2>3
<1>3. ASSUME ~ \E a \in Auftrag: JobSchritt(a)
      PROVE  UNCHANGED vers /\ abgewiesen \subseteq abgewiesen'
  BY <1>3 DEF Next, vars, Beginnen, BrokerNimmtAn, BrokerLehntAb, Umschalten, SperreWechselt,
      LeaseVerfaellt, Start, Absturz, AbgleichSchritt, AbgleichLesen, AbgleichMerken,
      AbgleichFertig, AbgleichFragen
<1> QED BY <1>1, <1>2, <1>3

\* One leg of a decision never has two orders, in flight or at the broker, if
\* an API error tells the fate of the order (_submit_with_market_failsafe).
THEOREM EinBeinEineOrder ==
  ASSUME Mehrdeutig = FALSE
  PROVE  Spec => []EineOrderJeBein
<1>1. Init => NurNachAblehnung
  BY DEF Init, NurNachAblehnung
<1>2. Basis /\ NurNachAblehnung /\ [Next]_vars => NurNachAblehnung'
  BY AblehnungSchritt
<1>3. Basis /\ NurNachAblehnung => EineOrderJeBein
  <2> SUFFICES ASSUME Basis, NurNachAblehnung, NEW a \in Auftrag
               PROVE  Cardinality({v \in {0, 1}: <<a, v>> \in unterwegs \cup broker}) <= 1
    BY DEF EineOrderJeBein
  <2> DEFINE V == {v \in {0, 1}: <<a, v>> \in unterwegs \cup broker}
  <2>1. PICK u \in {0, 1}: V \subseteq {u}
    <3>1. CASE vers[a] = 0
      BY <3>1 DEF Basis, VorDemSenden
    <3>2. CASE vers[a] = 1
      BY <3>2 DEF Basis, NurNachAblehnung, Getrennt, Schluessel
    <3> QED BY <3>1, <3>2 DEF Basis, TypeOK
  <2>2. IsFiniteSet({u}) /\ Cardinality({u}) = 1
    BY FS_Singleton
  <2>3. Cardinality(V) <= Cardinality({u})
    BY <2>1, <2>2, FS_Subset
  <2> QED BY <2>2, <2>3
<1> QED BY <1>1, <1>2, <1>3, TorBasis, PTL DEF Spec

----------------------------------------------------------------------------
(* One instance: the comparison never runs beside a job.                   *)

\* What a step of a job leaves alone.
LEMMA JobRahmen ==
  ASSUME TypeOK, NEW a \in Auftrag, JobSchritt(a)
  PROVE  /\ pc[a] \in Aktiv /\ pc'[a] # "tot"
         /\ UNCHANGED <<inst, broker, abgewiesen, lebt, abg>>
         /\ \A b \in Auftrag \ {a}: pc'[b] = pc[b] /\ vers'[b] = vers[b]
         /\ \A k \in Schluessel \ {K(a)}: /\ eintrag'[k] = eintrag[k]
                                          /\ k \in unterwegs' => k \in unterwegs
                                          /\ k \in sichtbar' => k \in sichtbar
<1> USE DEF TypeOK, Gehe, Schritt, Aktiv
<1> HIDE DEF K, Schluessel
<1>1. CASE IntentBauen(a)
  BY <1>1 DEF IntentBauen
<1>2. CASE TorGesperrt(a)
  BY <1>2 DEF TorGesperrt
<1>3. CASE Freigeben(a)
  BY <1>3 DEF Freigeben
<1>4. CASE Festschreiben(a)
  BY <1>4 DEF Festschreiben
<1>5. CASE Vermerken(a)
  BY <1>5 DEF Vermerken, OutboxSchritt, Fort
<1>6. CASE Entscheiden(a)
  BY <1>6 DEF Entscheiden
<1>7. CASE Senden(a)
  BY <1>7 DEF Senden
<1>8. CASE AntwortOrder(a)
  BY <1>8 DEF AntwortOrder
<1>9. CASE AntwortDuplikat(a)
  BY <1>9 DEF AntwortDuplikat
<1>10. CASE Nachschlagen(a)
  BY <1>10 DEF Nachschlagen, ApiFehler
<1>11. CASE AntwortAbgelehnt(a)
  BY <1>11 DEF AntwortAbgelehnt, ApiFehler
<1>12. CASE AntwortUnklar(a)
  BY <1>12 DEF AntwortUnklar, ApiFehler, Verwaist
<1>13. CASE AntwortNetzfehler(a)
  BY <1>13 DEF AntwortNetzfehler, Verwaist
<1>14. CASE Bestaetigen(a)
  BY <1>14 DEF Bestaetigen, OutboxSchritt, Fort
<1>15. CASE Verwerfen(a)
  BY <1>15 DEF Verwerfen, OutboxSchritt, Fort
<1> QED BY <1>1, <1>2, <1>3, <1>4, <1>5, <1>6, <1>7, <1>8, <1>9, <1>10, <1>11, <1>12,
           <1>13, <1>14, <1>15 DEF JobSchritt

\* A request in flight has a caller that waits for its answer.
Begleitet == \A k \in unterwegs: pc[k[1]] = "warten" /\ K(k[1]) = k

\* A step of a job keeps this if a request dies with the call that sent it.
LEMMA BegleitetJob ==
  ASSUME SpaeteAnkunft = FALSE, Basis, Begleitet, NEW a \in Auftrag, JobSchritt(a)
  PROVE  Begleitet'
<1> USE DEF Basis, TypeOK, Begleitet
<1>1. /\ \A b \in Auftrag \ {a}: pc'[b] = pc[b] /\ vers'[b] = vers[b]
      /\ \A k \in Schluessel \ {K(a)}: k \in unterwegs' => k \in unterwegs
  BY JobRahmen
<1>2. unterwegs' \subseteq Schluessel
  BY TypJob
<1>3. K(a) \in unterwegs' => pc'[a] = "warten" /\ vers'[a] = vers[a]
  <2> USE DEF Gehe, Schritt
  <2> HIDE DEF K, Schluessel
  <2>1. CASE Senden(a)
    BY <2>1 DEF Senden
  <2>2. CASE AntwortOrder(a) \/ AntwortDuplikat(a) \/ AntwortAbgelehnt(a)
    <3>1. K(a) \in broker \cup abgewiesen /\ unterwegs' = unterwegs
      BY <2>2 DEF AntwortOrder, AntwortDuplikat, AntwortAbgelehnt
    <3> QED BY <3>1 DEF Getrennt
  <2>3. CASE AntwortUnklar(a) \/ AntwortNetzfehler(a)
    BY <2>3 DEF AntwortUnklar, AntwortNetzfehler, Verwaist
  <2>4. ASSUME pc[a] # "warten", UNCHANGED unterwegs PROVE K(a) \notin unterwegs'
    <3>1. K(a)[1] = a
      BY DEF K
    <3> QED BY <2>4, <3>1
  <2>5. \/ Senden(a) \/ AntwortOrder(a) \/ AntwortDuplikat(a) \/ AntwortAbgelehnt(a)
        \/ AntwortUnklar(a) \/ AntwortNetzfehler(a)
        \/ pc[a] # "warten" /\ UNCHANGED unterwegs
    BY DEF JobSchritt, IntentBauen, TorGesperrt, Freigeben, Festschreiben, Vermerken,
        Entscheiden, Nachschlagen, Bestaetigen, Verwerfen
  <2> QED BY <2>1, <2>2, <2>3, <2>4, <2>5
<1>4. SUFFICES ASSUME NEW k \in unterwegs' PROVE pc'[k[1]] = "warten" /\ <<k[1], vers'[k[1]]>> = k
  BY DEF K
<1>5. CASE k = K(a)
  BY <1>3, <1>5 DEF K
<1>6. CASE k # K(a)
  <2>1. k \in unterwegs /\ k[1] \in Auftrag
    BY <1>1, <1>2, <1>6 DEF Schluessel
  <2>2. pc[k[1]] = "warten" /\ K(k[1]) = k /\ k[1] # a
    BY <1>6, <2>1
  <2> QED BY <1>1, <2>1, <2>2 DEF K
<1> QED BY <1>5, <1>6

\* So does every other step: a process that dies takes its requests along.
LEMMA BegleitetSchritt ==
  ASSUME SpaeteAnkunft = FALSE
  PROVE  Basis /\ Begleitet /\ [Next]_vars => Begleitet'
<1> SUFFICES ASSUME Basis, Begleitet, [Next]_vars PROVE Begleitet'
  OBVIOUS
<1> USE DEF Basis, TypeOK, Begleitet
<1>1. ASSUME UNCHANGED <<pc, vers>>, unterwegs' \subseteq unterwegs PROVE Begleitet'
  BY <1>1 DEF K
<1>2. ASSUME NEW a \in Auftrag, NEW i \in Inst, Beginnen(a, i) PROVE Begleitet'
  BY <1>2 DEF Beginnen, Gehe, K, Schluessel
<1>3. ASSUME NEW a \in Auftrag, JobSchritt(a) PROVE Begleitet'
  BY <1>3, BegleitetJob
<1>4. ASSUME NEW i \in Inst, Absturz(i) PROVE Begleitet'
  <2>1. SUFFICES ASSUME NEW k \in unterwegs' PROVE pc'[k[1]] = "warten" /\ K(k[1])' = k
    OBVIOUS
  <2>2. k \in unterwegs /\ k \notin {K(a) : a \in {b \in Auftrag: inst[b] = i}}
    BY <1>4, <2>1 DEF Absturz, Verwaist
  <2>3. k[1] \in Auftrag /\ pc[k[1]] = "warten" /\ K(k[1]) = k
    BY <2>2 DEF Schluessel
  <2>4. inst[k[1]] # i
    BY <2>2, <2>3
  <2> QED BY <1>4, <2>3, <2>4 DEF Absturz, K
<1>5. ASSUME ~ (\E a \in Auftrag, i \in Inst: Beginnen(a, i)),
             ~ (\E a \in Auftrag: JobSchritt(a)), ~ (\E i \in Inst: Absturz(i))
      PROVE  UNCHANGED <<pc, vers>> /\ unterwegs' \subseteq unterwegs
  BY <1>5 DEF Next, vars, BrokerNimmtAn, BrokerLehntAb, Umschalten, SperreWechselt,
      LeaseVerfaellt, Start, AbgleichSchritt, AbgleichLesen, AbgleichMerken,
      AbgleichFertig, AbgleichFragen
<1> QED BY <1>1, <1>2, <1>3, <1>4, <1>5

\* A job that still runs has an unsettled intent, and what the comparison is
\* about to write is what the broker has.
Unerledigt == \A a \in Auftrag: pc[a] \in Aktiv => eintrag[K(a)] \notin Erledigt
Befund ==
    \A i \in Inst: abg[i].pc = "merken" =>
        /\ abg[i].ziel \in Erledigt
        /\ \A k \in abg[i].k: abg[i].ziel = "bestaetigt" <=> k \in broker
Abschluss == Begleitet /\ Unerledigt /\ Befund /\ AbschlussStimmt

\* While the only instance compares, no job runs and nothing is in flight.
LEMMA AbgleichAllein ==
  ASSUME \A i, j \in Inst: i = j, Basis, Begleitet, NEW i \in Inst, abg[i].pc # "fertig"
  PROVE  unterwegs = {} /\ \A a \in Auftrag: pc[a] \notin Aktiv
<1>1. ASSUME NEW a \in Auftrag, pc[a] \in Aktiv PROVE FALSE
  <2>1. inst[a] \in Inst /\ abg[inst[a]].pc = "fertig"
    BY <1>1 DEF Basis, TypeOK, ErstAbgleich
  <2> QED BY <2>1
<1>2. \A k \in unterwegs: k[1] \in Auftrag /\ pc[k[1]] \in Aktiv
  BY DEF Basis, TypeOK, Begleitet, Schluessel, Aktiv
<1> QED BY <1>1, <1>2

\* A step of a job keeps settled intents true.
LEMMA AbschlussJob ==
  ASSUME Basis, Abschluss, NEW a \in Auftrag, JobSchritt(a)
  PROVE  Unerledigt' /\ AbschlussStimmt'
<1> USE DEF Basis, TypeOK, Abschluss
<1>1. /\ \A b \in Auftrag \ {a}: pc'[b] = pc[b] /\ vers'[b] = vers[b]
      /\ \A k \in Schluessel \ {K(a)}: eintrag'[k] = eintrag[k] /\ (k \in unterwegs' => k \in unterwegs)
      /\ broker' = broker /\ pc[a] \in Aktiv
  BY JobRahmen
<1>2. /\ \A b \in Auftrag: K(b) \in Schluessel /\ K(b)[1] = b
      /\ \A b \in Auftrag \ {a}: K(b)' = K(b) /\ K(b) # K(a)
  BY <1>1 DEF K, Schluessel
<1>3. eintrag[K(a)] \notin Erledigt
  BY <1>1 DEF Unerledigt
\* What the step does to its own key.
<1>4. /\ eintrag'[K(a)] = "bestaetigt" => K(a) \in broker
      /\ eintrag'[K(a)] = "verworfen" => K(a) \notin broker \cup unterwegs'
      /\ eintrag'[K(a)] \in Erledigt => pc'[a] \in Ende
      /\ pc'[a] \in Aktiv => K(a)' = K(a) \/ eintrag'[K(a)'] = "fehlt"
  <2>1. CASE Bestaetigen(a)
    <3>1. pc[a] = "bestaetigen" /\ pc'[a] = "fertig" /\ (Fort(K(a), "bestaetigt") \/ UNCHANGED eintrag)
      BY <2>1 DEF Bestaetigen, OutboxSchritt, Schritt, Gehe
    <3>2. K(a) \in broker
      BY <3>1 DEF AntwortWahr
    <3>3. eintrag'[K(a)] \in {"bestaetigt", eintrag[K(a)]}
      BY <1>2, <3>1, FortAbschluss DEF Erledigt
    <3> QED BY <1>3, <3>1, <3>2, <3>3 DEF Erledigt, Ende, Aktiv
  <2>2. CASE Verwerfen(a)
    <3>1. /\ pc[a] = "verwerfen" /\ pc'[a] = "zurueck" /\ UNCHANGED unterwegs
          /\ Fort(K(a), "verworfen") \/ UNCHANGED eintrag
      BY <2>2 DEF Verwerfen, OutboxSchritt, Schritt, Gehe
    <3>2. K(a) \notin broker \cup unterwegs
      BY <3>1 DEF VorDemSenden, Ungesendet
    <3>3. eintrag'[K(a)] \in {"verworfen", eintrag[K(a)]}
      BY <1>2, <3>1, FortAbschluss DEF Erledigt
    <3> QED BY <1>3, <3>1, <3>2, <3>3 DEF Erledigt, Ende, Aktiv
  <2>3. CASE Festschreiben(a)
    <3>1. eintrag'[K(a)] = "offen" \/ eintrag' = eintrag
      BY <1>2, <2>3 DEF Festschreiben
    <3>2. K(a)' = K(a)
      BY <2>3 DEF Festschreiben, Schritt, K
    <3> QED BY <1>3, <3>1, <3>2 DEF Erledigt
  <2>4. CASE Vermerken(a)
    <3>1. eintrag'[K(a)] = "abgesendet" \/ eintrag'[K(a)] = eintrag[K(a)]
      BY <1>2, <2>4, FortVermerk DEF Vermerken, OutboxSchritt
    <3>2. K(a)' = K(a)
      BY <2>4 DEF Vermerken, Schritt, K
    <3> QED BY <1>3, <3>1, <3>2 DEF Erledigt
  <2>5. ASSUME UNCHANGED eintrag, K(a)' = K(a) \/ (vers[a] = 0 /\ K(a)' = <<a, 1>>)
        PROVE  eintrag'[K(a)] \notin Erledigt /\ (K(a)' = K(a) \/ eintrag'[K(a)'] = "fehlt")
    BY <1>3, <2>5 DEF VorDemSchreiben
  <2>6. \/ Bestaetigen(a) \/ Verwerfen(a) \/ Festschreiben(a) \/ Vermerken(a)
        \/ UNCHANGED eintrag /\ (vers' = vers \/ (vers[a] = 0 /\ vers' = [vers EXCEPT ![a] = 1]))
    BY DEF JobSchritt, IntentBauen, TorGesperrt, Freigeben, Entscheiden, Senden, AntwortOrder,
        AntwortDuplikat, Nachschlagen, AntwortAbgelehnt, AntwortUnklar, AntwortNetzfehler,
        ApiFehler, Schritt
  <2>7. CASE UNCHANGED eintrag /\ (vers' = vers \/ (vers[a] = 0 /\ vers' = [vers EXCEPT ![a] = 1]))
    <3>1. K(a)' = K(a) \/ (vers[a] = 0 /\ K(a)' = <<a, 1>>)
      BY <2>7 DEF K
    <3> QED BY <2>5, <2>7, <3>1 DEF Erledigt
  <2> QED BY <2>1, <2>2, <2>3, <2>4, <2>6, <2>7
<1>5. Unerledigt'
  <2> SUFFICES ASSUME NEW b \in Auftrag, pc'[b] \in Aktiv PROVE eintrag'[K(b)'] \notin Erledigt
    BY DEF Unerledigt
  <2>1. CASE b = a
    BY <1>3, <1>4, <2>1 DEF Erledigt, Ende, Aktiv
  <2>2. CASE b # a
    BY <1>1, <1>2, <2>2 DEF Unerledigt
  <2> QED BY <2>1, <2>2
<1>6. AbschlussStimmt'
  <2> SUFFICES ASSUME NEW k \in Schluessel
               PROVE  /\ eintrag'[k] = "bestaetigt" => k \in broker'
                      /\ eintrag'[k] = "verworfen" =>
                           /\ k \notin broker' \cup unterwegs'
                           /\ pc'[k[1]] \in {"entscheiden", "senden"} => K(k[1])' # k
    BY DEF AbschlussStimmt
  <2>1. k[1] \in Auftrag
    BY DEF Schluessel
  <2>2. eintrag'[k] = "verworfen" /\ pc'[k[1]] \in {"entscheiden", "senden"} => K(k[1])' # k
    BY <1>5, <2>1 DEF Unerledigt, Aktiv, Erledigt
  <2>3. CASE k = K(a)
    BY <1>1, <1>4, <2>2, <2>3
  <2>4. CASE k # K(a)
    BY <1>1, <2>2, <2>4 DEF AbschlussStimmt
  <2> QED BY <2>3, <2>4
<1> QED BY <1>5, <1>6

\* Every step keeps it with one instance: the comparison asks and writes while
\* nothing is in flight, so what it learned stays true until it is written.
LEMMA AbschlussSchritt ==
  ASSUME SpaeteAnkunft = FALSE, \A i, j \in Inst: i = j
  PROVE  Basis /\ Abschluss /\ [Next]_vars => Abschluss'
<1> SUFFICES ASSUME Basis, Abschluss, [Next]_vars PROVE Unerledigt' /\ Befund' /\ AbschlussStimmt'
  BY BegleitetSchritt DEF Abschluss
<1> USE DEF Basis, TypeOK, Abschluss
<1> DEFINE Ziel == Unerledigt' /\ Befund' /\ AbschlussStimmt'
<1>0. \A a \in Auftrag: K(a) \in Schluessel
  BY DEF K, Schluessel
<1>1. ASSUME UNCHANGED <<pc, vers, eintrag, unterwegs, broker, abg>> PROVE Ziel
  BY <1>1 DEF Unerledigt, Befund, AbschlussStimmt, K
<1>2. ASSUME NEW a \in Auftrag, NEW i \in Inst, Beginnen(a, i) PROVE Ziel
  <2>1. /\ UNCHANGED <<vers, eintrag, unterwegs, broker, abg>>
        /\ pc[a] = "neu" /\ pc'[a] = "intent" /\ \A b \in Auftrag \ {a}: pc'[b] = pc[b]
    BY <1>2 DEF Beginnen, Gehe
  <2>2. \A b \in Auftrag: K(b)' = K(b)
    BY <2>1 DEF K
  <2>3. eintrag[K(a)] = "fehlt"
    BY <2>1 DEF VorDemSchreiben, Ungeschrieben
  <2>4. Unerledigt'
    BY <2>1, <2>2, <2>3 DEF Unerledigt, Erledigt
  <2>5. \A k \in Schluessel: k[1] \in Auftrag
    BY DEF Schluessel
  <2>6. AbschlussStimmt'
    BY <2>1, <2>2, <2>5 DEF AbschlussStimmt
  <2> QED BY <2>1, <2>4, <2>6 DEF Befund
<1>3. ASSUME NEW a \in Auftrag, JobSchritt(a) PROVE Ziel
  <2>1. UNCHANGED <<abg, broker>>
    BY <1>3, JobRahmen
  <2>2. Befund'
    BY <2>1 DEF Befund
  <2> QED BY <1>3, <2>2, AbschlussJob
<1>4. ASSUME NEW k \in Schluessel, BrokerNimmtAn(k) \/ BrokerLehntAb(k) PROVE Ziel
  <2>1. /\ k \in unterwegs /\ unterwegs' \subseteq unterwegs
        /\ broker \subseteq broker' /\ broker' \subseteq broker \cup unterwegs
        /\ UNCHANGED <<pc, vers, eintrag, abg>>
    BY <1>4 DEF BrokerNimmtAn, BrokerLehntAb
  <2>2. \A i \in Inst: abg[i].pc = "fertig"
    BY <2>1, AbgleichAllein
  <2>3. Befund' /\ Unerledigt'
    BY <2>1, <2>2 DEF Befund, Unerledigt, K
  <2>4. AbschlussStimmt'
    BY <2>1 DEF AbschlussStimmt, K
  <2> QED BY <2>3, <2>4
<1>5. ASSUME NEW i \in Inst, Start(i) PROVE Ziel
  <2>1. /\ UNCHANGED <<pc, vers, eintrag, unterwegs, broker>>
        /\ abg' = [abg EXCEPT ![i] = AbgStand("lesen", {}, {}, "fehlt")]
    BY <1>5 DEF Start
  <2> QED BY <2>1 DEF Befund, AbgStand, Unerledigt, AbschlussStimmt, K
<1>6. ASSUME NEW i \in Inst, Absturz(i) PROVE Ziel
  <2>1. /\ UNCHANGED <<vers, eintrag, broker>> /\ unterwegs' \subseteq unterwegs
        /\ abg' = [abg EXCEPT ![i] = AbgRuht]
        /\ \A a \in Auftrag: pc'[a] \in {"tot", pc[a]}
    BY <1>6 DEF Absturz, Verwaist
  <2>2. Befund'
    BY <2>1 DEF Befund, AbgRuht, AbgStand
  <2>3. Unerledigt'
    BY <2>1 DEF Unerledigt, K, Aktiv
  <2>4. \A k \in Schluessel: k[1] \in Auftrag
    BY DEF Schluessel
  <2>5. AbschlussStimmt'
    BY <2>1, <2>4 DEF AbschlussStimmt, K
  <2> QED BY <2>2, <2>3, <2>5
<1>7. ASSUME NEW i \in Inst, AbgleichSchritt(i) PROVE Ziel
  <2>1. /\ abg[i].pc # "fertig" /\ UNCHANGED <<pc, vers, unterwegs, broker>>
    BY <1>7 DEF AbgleichSchritt, AbgleichLesen, AbgleichMerken, AbgleichFertig, AbgleichFragen
  <2>2. unterwegs = {} /\ \A a \in Auftrag: pc[a] \notin Aktiv
    BY <2>1, AbgleichAllein
  <2>3. Unerledigt'
    BY <2>1, <2>2 DEF Unerledigt
  <2>4. \A k \in Schluessel: k[1] \in Auftrag /\ pc[k[1]] \notin {"entscheiden", "senden"}
    BY <2>2 DEF Schluessel, Aktiv
  <2>5. ASSUME NEW k \in Schluessel, AbgleichFragen(i, k) PROVE Befund' /\ UNCHANGED eintrag
    <3>1. \/ abg' = [abg EXCEPT ![i] = AbgStand("merken", abg[i].liste \ {k}, {k},
                       IF k \in broker THEN "bestaetigt" ELSE "verworfen")]
          \/ abg' = [abg EXCEPT ![i] = AbgStand("fragen", abg[i].liste \ {k}, {}, "fehlt")]
      BY <2>5 DEF AbgleichFragen
    <3>2. UNCHANGED eintrag
      BY <2>5 DEF AbgleichFragen
    <3> QED BY <2>1, <3>1, <3>2 DEF Befund, AbgStand, Erledigt
  <2>6. CASE AbgleichLesen(i) \/ AbgleichFertig(i)
    <3>1. \E p \in {"fragen", "fertig"}, l \in SUBSET Schluessel:
            abg' = [abg EXCEPT ![i] = AbgStand(p, l, {}, "fehlt")]
      <4>1. {k \in sichtbar: Offen(k) /\ Konto[k[1]] = "global"} \in SUBSET Schluessel
        OBVIOUS
      <4>2. {} \in SUBSET Schluessel
        OBVIOUS
      <4> HIDE DEF AbgStand, Schluessel
      <4> QED BY <2>6, <4>1, <4>2 DEF AbgleichLesen, AbgleichFertig
    <3>2. UNCHANGED eintrag
      BY <2>6 DEF AbgleichLesen, AbgleichFertig
    <3>3. Befund'
      BY <3>1 DEF Befund, AbgStand
    <3> QED BY <2>1, <2>3, <3>2, <3>3 DEF AbschlussStimmt, K
  <2>7. CASE AbgleichMerken(i)
    <3>1. \E p \in {"fragen", "fertig"}, l \in SUBSET Schluessel:
            abg' = [abg EXCEPT ![i] = AbgStand(p, l, {}, "fehlt")]
      <4>1. {} \in SUBSET Schluessel /\ abg[i].liste \in SUBSET Schluessel
        OBVIOUS
      <4> HIDE DEF AbgStand, Schluessel
      <4> QED BY <2>7, <4>1 DEF AbgleichMerken
    <3>2. Befund'
      BY <3>1 DEF Befund, AbgStand
    <3>3. CASE UNCHANGED eintrag
      BY <2>1, <2>3, <3>2, <3>3 DEF AbschlussStimmt, K
    <3>4. ASSUME NEW k \in abg[i].k, Fort(k, abg[i].ziel) PROVE AbschlussStimmt'
      <4>1. /\ k \in Schluessel /\ abg[i].ziel \in Erledigt
            /\ abg[i].ziel = "bestaetigt" <=> k \in broker
        BY <2>7 DEF Befund, AbgleichMerken
      <4>2. /\ eintrag'[k] = IF Offen(k) THEN abg[i].ziel ELSE eintrag[k]
            /\ \A l \in Schluessel \ {k}: eintrag'[l] = eintrag[l]
        BY <3>4, <4>1, FortAbschluss
      <4>3. \A l \in Schluessel: \/ eintrag'[l] = eintrag[l]
                                 \/ eintrag'[l] = "bestaetigt" /\ l \in broker
                                 \/ eintrag'[l] = "verworfen" /\ l \notin broker
        BY <4>1, <4>2 DEF Erledigt
      <4> QED BY <2>1, <2>2, <2>4, <4>3 DEF AbschlussStimmt
    <3> QED BY <2>3, <2>7, <3>2, <3>3, <3>4 DEF AbgleichMerken
  <2>8. ASSUME NEW k \in Schluessel, AbgleichFragen(i, k) PROVE Ziel
    BY <2>1, <2>3, <2>5, <2>8 DEF AbschlussStimmt, K
  <2> QED BY <1>7, <2>6, <2>7, <2>8 DEF AbgleichSchritt
<1>8. ASSUME NEW h, Umschalten(h) \/ SperreWechselt \/ LeaseVerfaellt \/ UNCHANGED vars
      PROVE  UNCHANGED <<pc, vers, eintrag, unterwegs, broker, abg>>
  BY <1>8 DEF Umschalten, SperreWechselt, LeaseVerfaellt, vars
<1> HIDE DEF Ziel
<1>9. Ziel
  BY <1>1, <1>2, <1>3, <1>4, <1>5, <1>6, <1>7, <1>8 DEF Next
<1> QED BY <1>9 DEF Ziel

\* A settled intent tells the truth, whatever fails in the store and however
\* unclear the broker's answers are, if requests do not arrive late and the
\* comparison of one instance does not run beside the jobs of another
\* (als_bestaetigt, als_verworfen, abgleichen).
THEOREM AbschlussIstWahr ==
  ASSUME SpaeteAnkunft = FALSE, \A i, j \in Inst: i = j
  PROVE  Spec => []AbschlussStimmt
<1>1. Init => Abschluss
  BY DEF Init, Abschluss, Begleitet, Unerledigt, Befund, AbschlussStimmt, AbgRuht, AbgStand,
         Aktiv, Erledigt
<1>2. Basis /\ Abschluss /\ [Next]_vars => Abschluss'
  BY AbschlussSchritt
<1>3. Abschluss => AbschlussStimmt
  BY DEF Abschluss
<1> QED BY <1>1, <1>2, <1>3, TorBasis, PTL DEF Spec

----------------------------------------------------------------------------
(* The comparison after a restart settles what the dead process left.      *)

\* An open intent of the global account whose process died.
Liegengeblieben(k) == pc[k[1]] = "tot" /\ Konto[k[1]] = "global" /\ Offen(k)

\* Such an intent is still before the comparison, on its list, or being
\* settled right now.
Ausstehend ==
    \A i \in Inst:
        /\ abg[i].pc = "merken" => abg[i].ziel \in Erledigt /\ \A k, l \in abg[i].k: k = l
        /\ \A k \in sichtbar: Liegengeblieben(k) =>
              \/ abg[i].pc \in {"aus", "lesen"}
              \/ abg[i].pc = "fragen" /\ k \in abg[i].liste
              \/ abg[i].pc = "merken" /\ k \in abg[i].liste \cup abg[i].k

\* A step of a job concerns no intent of a dead process.
LEMMA AusstehendJob ==
  ASSUME Basis, Ausstehend, NEW a \in Auftrag, JobSchritt(a)
  PROVE  Ausstehend'
<1> USE DEF Basis
<1>1. /\ pc[a] \in Aktiv /\ pc'[a] # "tot" /\ UNCHANGED abg
      /\ \A b \in Auftrag \ {a}: pc'[b] = pc[b]
      /\ \A k \in Schluessel \ {K(a)}: eintrag'[k] = eintrag[k] /\ (k \in sichtbar' => k \in sichtbar)
  BY JobRahmen
<1>2. sichtbar' \subseteq Schluessel
  BY TypJob DEF TypeOK
<1>3. ASSUME NEW k \in sichtbar', Liegengeblieben(k)' PROVE k \in sichtbar /\ Liegengeblieben(k)
  <2>1. k \in Schluessel /\ k[1] \in Auftrag
    BY <1>2 DEF Schluessel
  <2>2. k[1] # a
    BY <1>1, <1>3, <2>1 DEF Liegengeblieben
  <2>3. k # K(a)
    BY <2>2 DEF K
  <2> QED BY <1>1, <1>3, <2>1, <2>2, <2>3 DEF Liegengeblieben, Offen
<1> QED BY <1>1, <1>3 DEF Ausstehend

\* Every step keeps it with one instance and a store and a broker that answer.
LEMMA AusstehendSchritt ==
  ASSUME AblageFehler = FALSE, Mehrdeutig = FALSE, \A i, j \in Inst: i = j
  PROVE  Basis /\ Ausstehend /\ [Next]_vars => Ausstehend'
<1> SUFFICES ASSUME Basis, Ausstehend, [Next]_vars PROVE Ausstehend'
  OBVIOUS
<1> USE DEF Basis, TypeOK
<1>0. \A k \in Schluessel: k[1] \in Auftrag
  BY DEF Schluessel
<1>1. ASSUME UNCHANGED <<pc, eintrag, sichtbar, abg>> PROVE Ausstehend'
  BY <1>1 DEF Ausstehend, Liegengeblieben, Offen
<1>2. ASSUME NEW a \in Auftrag, NEW i \in Inst, Beginnen(a, i) PROVE Ausstehend'
  <2>1. /\ UNCHANGED <<eintrag, sichtbar, abg>>
        /\ pc'[a] = "intent" /\ \A b \in Auftrag \ {a}: pc'[b] = pc[b]
    BY <1>2 DEF Beginnen, Gehe
  <2>2. \A k \in sichtbar: Liegengeblieben(k)' => Liegengeblieben(k)
    BY <1>0, <2>1 DEF Liegengeblieben, Offen
  <2> QED BY <2>1, <2>2 DEF Ausstehend
<1>3. ASSUME NEW a \in Auftrag, JobSchritt(a) PROVE Ausstehend'
  BY <1>3, AusstehendJob
<1>4. ASSUME NEW i \in Inst, Start(i) \/ Absturz(i) PROVE Ausstehend'
  <2>1. abg'[i].pc \in {"aus", "lesen"}
    BY <1>4 DEF Start, Absturz, AbgRuht, AbgStand
  <2>2. \A j \in Inst: j = i
    OBVIOUS
  <2> QED BY <2>1, <2>2 DEF Ausstehend
<1>5. ASSUME NEW i \in Inst, AbgleichSchritt(i) PROVE Ausstehend'
  <2>1. \A j \in Inst: j = i
    OBVIOUS
  <2>2. UNCHANGED <<pc, sichtbar>>
    BY <1>5 DEF AbgleichSchritt, AbgleichLesen, AbgleichMerken, AbgleichFertig, AbgleichFragen, Fort
  <2>3. CASE AbgleichLesen(i)
    <3>1. /\ UNCHANGED eintrag
          /\ abg'[i] = AbgStand("fragen", {k \in sichtbar: Offen(k) /\ Konto[k[1]] = "global"}, {}, "fehlt")
      BY <2>3 DEF AbgleichLesen
    <3>2. /\ abg'[i].pc = "fragen"
          /\ abg'[i].liste = {k \in sichtbar: Offen(k) /\ Konto[k[1]] = "global"}
      BY <3>1 DEF AbgStand
    <3>3. \A l \in sichtbar: Liegengeblieben(l)' => l \in abg'[i].liste
      BY <2>2, <3>1, <3>2 DEF Liegengeblieben, Offen
    <3> QED BY <2>1, <2>2, <3>2, <3>3 DEF Ausstehend
  <2>4. ASSUME NEW k \in Schluessel, AbgleichFragen(i, k) PROVE Ausstehend'
    <3>1. /\ UNCHANGED eintrag /\ abg[i].pc = "fragen"
          /\ abg'[i] = AbgStand("merken", abg[i].liste \ {k}, {k},
                         IF k \in broker THEN "bestaetigt" ELSE "verworfen")
      BY <2>4 DEF AbgleichFragen
    <3>2. \A l \in sichtbar: Liegengeblieben(l)' => Liegengeblieben(l)
      BY <2>2, <3>1 DEF Liegengeblieben, Offen
    <3>3. /\ abg'[i].pc = "merken" /\ abg'[i].liste = abg[i].liste \ {k} /\ abg'[i].k = {k}
          /\ abg'[i].ziel \in Erledigt
      BY <3>1 DEF AbgStand, Erledigt
    <3>4. \A l \in sichtbar: Liegengeblieben(l) => l \in abg[i].liste
      BY <3>1 DEF Ausstehend
    <3>5. \A l \in sichtbar': Liegengeblieben(l)' => l \in abg'[i].liste \cup abg'[i].k
      BY <2>2, <3>2, <3>3, <3>4
    <3>6. \A l, m \in abg'[i].k: l = m
      BY <3>3
    <3> QED BY <2>1, <3>3, <3>5, <3>6 DEF Ausstehend
  <2>5. CASE AbgleichMerken(i)
    <3>1. PICK k \in abg[i].k: Fort(k, abg[i].ziel)
      BY <2>5 DEF AbgleichMerken
    <3>2. /\ abg[i].pc = "merken" /\ k \in Schluessel /\ abg[i].ziel \in Erledigt
          /\ \A l \in abg[i].k: l = k
      BY <2>5, <3>1 DEF AbgleichMerken, Ausstehend
    <3>3. /\ eintrag'[k] = IF Offen(k) THEN abg[i].ziel ELSE eintrag[k]
          /\ \A l \in Schluessel \ {k}: eintrag'[l] = eintrag[l]
      BY <3>1, <3>2, FortAbschluss
    <3>4. \A l \in sichtbar: Liegengeblieben(l)' => Liegengeblieben(l) /\ l # k
      BY <2>2, <3>2, <3>3 DEF Liegengeblieben, Offen, Erledigt
    <3>5. abg'[i].pc = "fragen" /\ abg'[i].liste = abg[i].liste
      BY <2>5 DEF AbgleichMerken, AbgStand
    <3> QED BY <2>1, <2>2, <3>2, <3>4, <3>5 DEF Ausstehend
  <2>6. CASE AbgleichFertig(i)
    <3>1. UNCHANGED eintrag /\ abg[i].pc = "fragen" /\ abg[i].liste = {} /\ abg'[i].pc = "fertig"
      BY <2>6 DEF AbgleichFertig, AbgStand
    <3>2. \A l \in sichtbar: Liegengeblieben(l)' => Liegengeblieben(l)
      BY <2>2, <3>1 DEF Liegengeblieben, Offen
    <3> QED BY <2>1, <2>2, <3>1, <3>2 DEF Ausstehend
  <2> QED BY <1>5, <2>3, <2>4, <2>5, <2>6 DEF AbgleichSchritt
<1>6. ASSUME NEW k, BrokerNimmtAn(k) \/ BrokerLehntAb(k) \/ Umschalten(k) \/ SperreWechselt
                    \/ LeaseVerfaellt \/ UNCHANGED vars
      PROVE  UNCHANGED <<pc, eintrag, sichtbar, abg>>
  BY <1>6 DEF BrokerNimmtAn, BrokerLehntAb, Umschalten, SperreWechselt, LeaseVerfaellt, vars
<1> QED BY <1>1, <1>2, <1>3, <1>4, <1>5, <1>6 DEF Next

\* Once the comparison of a restarted instance is through, no intent of the
\* global account that a dead process left behind is unsettled, as long as
\* store and broker answer and no other instance runs (abgleichen).
THEOREM NichtsBleibtLiegen ==
  ASSUME AblageFehler = FALSE, Mehrdeutig = FALSE, \A i, j \in Inst: i = j
  PROVE  Spec => []AbgleichVollstaendig
<1>1. Init => Ausstehend
  BY DEF Init, Ausstehend, AbgRuht, AbgStand
<1>2. Basis /\ Ausstehend /\ [Next]_vars => Ausstehend'
  BY AusstehendSchritt
<1>3. Ausstehend => AbgleichVollstaendig
  BY DEF Ausstehend, AbgleichVollstaendig, Liegengeblieben
<1> QED BY <1>1, <1>2, <1>3, TorBasis, PTL DEF Spec

----------------------------------------------------------------------------
(* The outbox of this module and OutboxIdeal.  A step here writes at most  *)
(* one key, so that it is one operation of the ideal outbox, or none when  *)
(* the entry has no line.                                                  *)

\* What a restart finds under a key (unbestaetigte reads the directory first).
Auffindbar == [k \in Schluessel |-> IF k \in sichtbar THEN eintrag[k] ELSE "fehlt"]

Ideal == INSTANCE OutboxIdeal WITH Coid <- Schluessel, intent <- Auffindbar

\* _schreibe_fort is a move forward, or nothing a restart sees.
LEMMA FortIdeal ==
  ASSUME TypeOK, NEW k \in Schluessel, NEW z \in Zustand, Fort(k, z)
  PROVE  Ideal!Next \/ UNCHANGED Auffindbar
<1> USE DEF TypeOK
<1> HIDE DEF Schluessel
<1>1. sichtbar' = sichtbar
  BY DEF Fort
<1>2. CASE eintrag' = eintrag
  BY <1>1, <1>2 DEF Auffindbar
<1>3. CASE /\ eintrag[k] # "fehlt" /\ Rang[eintrag[k]] < Rang[z]
           /\ eintrag' = [eintrag EXCEPT ![k] = z]
  <2>1. CASE k \notin sichtbar
    <3>1. \A l \in Schluessel: l \in sichtbar => eintrag'[l] = eintrag[l]
      BY <1>3, <2>1
    <3> QED BY <1>1, <3>1 DEF Auffindbar
  <2>2. CASE k \in sichtbar
    <3>1. z \in Ideal!Zustand /\ eintrag[k] \in Ideal!Zustand
      BY <1>3 DEF Ideal!Zustand, Ideal!Erledigt, Zustand, Erledigt, Rang
    <3>2. Ideal!Rang[eintrag[k]] < Ideal!Rang[z]
      BY <1>3, <3>1 DEF Ideal!Rang, Ideal!Zustand, Ideal!Erledigt, Zustand, Erledigt, Rang
    <3>3. Auffindbar[k] = eintrag[k] /\ Auffindbar' = [Auffindbar EXCEPT ![k] = z]
      <4>1. eintrag'[k] = z /\ \A l \in Schluessel \ {k}: eintrag'[l] = eintrag[l]
        BY <1>3
      <4>2. \A l \in Schluessel: (IF l \in sichtbar THEN eintrag'[l] ELSE "fehlt")
                                   = [Auffindbar EXCEPT ![k] = z][l]
        BY <2>2, <4>1 DEF Auffindbar
      <4> QED BY <1>1, <2>2, <4>2 DEF Auffindbar
    <3>4. Ideal!Fortschreiben(k, z)
      BY <3>1, <3>2, <3>3 DEF Ideal!Fortschreiben
    <3> QED BY <3>1, <3>4 DEF Ideal!Next
  <2> QED BY <2>1, <2>2
<1>4. Rang[z] \in Nat /\ Rang[eintrag[k]] \in Nat
  BY DEF Rang
<1> QED BY <1>2, <1>3, <1>4 DEF Fort

\* Every step is a step of the ideal outbox or invisible to it.
LEMMA SchrittIdeal == TypeOK /\ [Next]_vars => [Ideal!Next]_Auffindbar
<1> SUFFICES ASSUME TypeOK, [Next]_vars PROVE Ideal!Next \/ UNCHANGED Auffindbar
  OBVIOUS
<1>1. ASSUME UNCHANGED outboxVars PROVE UNCHANGED Auffindbar
  BY <1>1 DEF Auffindbar
<1>2. ASSUME NEW a \in Auftrag, Festschreiben(a) PROVE Ideal!Next \/ UNCHANGED Auffindbar
  <2>1. K(a) \in Schluessel
    BY DEF TypeOK, K, Schluessel
  <2> HIDE DEF K, Schluessel
  <2>2. CASE UNCHANGED outboxVars
    BY <1>1, <2>2
  <2>3. CASE /\ eintrag[K(a)] = "fehlt" /\ eintrag' = [eintrag EXCEPT ![K(a)] = "offen"]
             /\ sichtbar' = sichtbar \cup {K(a)}
    <3>1. Auffindbar[K(a)] = "fehlt" /\ Auffindbar' = [Auffindbar EXCEPT ![K(a)] = "offen"]
      BY <2>1, <2>3 DEF TypeOK, Auffindbar
    <3>2. Ideal!Aufnehmen(K(a))
      BY <3>1 DEF Ideal!Aufnehmen
    <3> QED BY <2>1, <3>2 DEF Ideal!Next
  <2>4. CASE /\ eintrag[K(a)] = "fehlt" /\ eintrag' = [eintrag EXCEPT ![K(a)] = "offen"]
             /\ UNCHANGED sichtbar
    <3>1. CASE K(a) \notin sichtbar
      <4>1. \A l \in Schluessel: l \in sichtbar => eintrag'[l] = eintrag[l]
        BY <2>4, <3>1 DEF TypeOK
      <4> QED BY <2>4, <4>1 DEF Auffindbar
    <3>2. CASE K(a) \in sichtbar
      <4>1. sichtbar' = sichtbar \cup {K(a)}
        BY <2>4, <3>2
      <4> QED BY <2>3, <2>4, <4>1
    <3> QED BY <3>1, <3>2
  <2> QED BY <1>2, <2>2, <2>3, <2>4 DEF Festschreiben
<1>3. ASSUME NEW a \in Auftrag, Vermerken(a) \/ Bestaetigen(a) \/ Verwerfen(a)
      PROVE  Ideal!Next \/ UNCHANGED Auffindbar
  <2>1. K(a) \in Schluessel
    BY DEF TypeOK, K, Schluessel
  <2>2. UNCHANGED outboxVars \/ \E z \in Zustand: Fort(K(a), z)
    BY <1>3 DEF Vermerken, Bestaetigen, Verwerfen, OutboxSchritt, Zustand, Erledigt
  <2> QED BY <1>1, <2>1, <2>2, FortIdeal
<1>4. ASSUME NEW i \in Inst, AbgleichMerken(i) PROVE Ideal!Next \/ UNCHANGED Auffindbar
  <2>1. abg[i].k \subseteq Schluessel /\ abg[i].ziel \in Zustand
    BY DEF TypeOK
  <2>2. UNCHANGED outboxVars \/ \E k \in abg[i].k: Fort(k, abg[i].ziel)
    BY <1>4 DEF AbgleichMerken
  <2> QED BY <1>1, <2>1, <2>2, FortIdeal
<1>5. ASSUME NEW a \in Auftrag, JobSchritt(a),
             ~(Festschreiben(a) \/ Vermerken(a) \/ Bestaetigen(a) \/ Verwerfen(a))
      PROVE  UNCHANGED outboxVars
  BY <1>5 DEF JobSchritt, IntentBauen, TorGesperrt, Freigeben, Entscheiden, Senden, AntwortOrder,
      AntwortDuplikat, Nachschlagen, AntwortAbgelehnt, AntwortUnklar, AntwortNetzfehler
<1>6. ASSUME NEW i \in Inst, AbgleichSchritt(i), ~AbgleichMerken(i) PROVE UNCHANGED outboxVars
  BY <1>6 DEF AbgleichSchritt, AbgleichLesen, AbgleichFertig, AbgleichFragen
<1>7. ASSUME NEW a \in Auftrag, NEW i \in Inst, Beginnen(a, i) PROVE UNCHANGED outboxVars
  BY <1>7 DEF Beginnen
<1>8. ASSUME NEW k, BrokerNimmtAn(k) \/ BrokerLehntAb(k) \/ Umschalten(k) \/ SperreWechselt
                    \/ LeaseVerfaellt \/ UNCHANGED vars
      PROVE  UNCHANGED outboxVars
  BY <1>8 DEF BrokerNimmtAn, BrokerLehntAb, Umschalten, SperreWechselt, LeaseVerfaellt, vars
<1>9. ASSUME NEW i \in Inst, Start(i) \/ Absturz(i) PROVE UNCHANGED outboxVars
  BY <1>9 DEF Start, Absturz
<1> QED BY <1>1, <1>2, <1>3, <1>4, <1>5, <1>6, <1>7, <1>8, <1>9 DEF Next

\* The way of an order uses the outbox as OutboxIdeal promises it: whatever
\* jobs, restarts, comparisons and failures of the store do, a restart sees
\* intents appear as open and move only forward (core/outbox.py,
\* "Fehlerrichtung").  Module Outbox, which has the single calls, implements
\* the same specification, so that the coarse steps here stand for it.
THEOREM TorHaeltIdeal == Spec => Ideal!Spec
<1>1. Init => Ideal!Init
  BY DEF Init, Ideal!Init, Auffindbar
<1> QED BY <1>1, SchrittIdeal, TorTypKorrekt, PTL DEF Spec, Ideal!Spec
=============================================================================
