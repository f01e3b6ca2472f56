----------------------------- MODULE HitlProofs -----------------------------
(***************************************************************************)
(* Proofs about human approval, for every number of clients, symbols,      *)
(* operators, approvals, days and events.                                  *)
(***************************************************************************)
EXTENDS Hitl, TLAPS, FiniteSetTheorems

USE HitlAssumption DEF ablage, schleife, aufgaben, bediener, chronik, bilanz, rest, Aufgabe, Id, Tag

----------------------------------------------------------------------------
(* Types.  The type invariant in groups, with where the loop can be.       *)

Ids == 1..(naechste - 1)

TypAblage ==
    /\ naechste \in 1..(MaxId + 1) /\ vorlage \in [Ids -> Auftrag]
    /\ wartet \subseteq Ids /\ freigegeben \subseteq Ids /\ unterwegs \subseteq Ids
    /\ index \in [Nutzer \X Symbol -> 0..MaxId]
    /\ tagSumme \in [Tag -> Nat]
TypUmfeld ==
    /\ tag \in Tag /\ letzterTag \in 0..MaxTag /\ unbegrenzt \in BOOLEAN
    /\ speicher \in Speicher /\ ereignisse \in 0..MaxEreignis
TypSchleife ==
    /\ phase \in {"start", "keys", "claim", "marke", "streichen", "ausfuehren", "signale"}
    /\ schluessel \subseteq Ids /\ geholt \subseteq Ids /\ hand \in {0} \cup Ids
TypAufgaben ==
    /\ pc \in [Aufgabe -> TorSchritte \cup {"ruht", "senden", "ack"}]
    /\ auftrag \in [Aufgabe -> Auftrag \cup {KeinAuftrag}]
    /\ \A t \in Aufgabe: pc[t] # "ruht" => auftrag[t] \in Auftrag
    /\ gelesen \in [Aufgabe -> 0..MaxId]
TypRouten ==
    /\ bpc \in [Bediener -> {"ruht", "a_setzen", "a_loeschen", "r_loeschen"}]
    /\ bid \in [Bediener -> {0} \cup Ids]
    /\ \A m \in Bediener: bpc[m] # "ruht" => bid[m] # 0
TypChronik ==
    /\ zugesagt \subseteq Ids /\ entschieden \subseteq Ids /\ verfallen \subseteq Ids
    /\ verloren \subseteq Ids /\ abgewiesen \subseteq Ids
    /\ zusagen \in [Id -> Nat] /\ gesendet \in [Id -> Nat]
    /\ autonom \in [Tag -> Nat] /\ budget \in Nat
    /\ gestoert \in BOOLEAN

\* The tasks of the clients run while signals are handled, the drain while
\* approved orders are executed, one at a time.
Ort ==
    /\ \A t \in Nutzer: pc[t] # "ruht" => phase = "signale"
    /\ pc[Drain] # "ruht" => phase = "ausfuehren" /\ hand # 0
    /\ phase \in {"marke", "streichen"} => hand # 0

\* There is an id for every task that may still queue an order.
Schreiber == {t \in Aufgabe: pc[t] \in TorSchritte \ {"p_index"}}
Raum == naechste + Cardinality(Schreiber) <= MaxId + 1

Typ == TypAblage /\ TypUmfeld /\ TypSchleife /\ TypAufgaben /\ TypRouten /\ TypChronik /\ Ort /\ Raum

\* The groups together are the type invariant.
LEMMA TypGruppen == Typ => TypeOK
<1> SUFFICES ASSUME Typ PROVE TypeOK
  OBVIOUS
<1> USE DEF Typ
<1>1. DOMAIN vorlage = Ids /\ Ids \subseteq Id
  BY DEF TypAblage, Ids
<1>2. /\ wartet \subseteq Id /\ freigegeben \subseteq Id /\ unterwegs \subseteq Id
      /\ wartet \cup freigegeben \cup unterwegs \subseteq DOMAIN vorlage
      /\ zugesagt \cup entschieden \cup verfallen \cup verloren \cup abgewiesen \subseteq DOMAIN vorlage
  BY <1>1 DEF TypAblage, TypChronik
<1>3. /\ schluessel \subseteq DOMAIN vorlage /\ geholt \subseteq DOMAIN vorlage
      /\ hand \in {0} \cup DOMAIN vorlage /\ bid \in [Bediener -> {0} \cup DOMAIN vorlage]
  BY <1>1 DEF TypSchleife, TypRouten
<1>4. vorlage \in [1..(naechste - 1) -> Auftrag]
  BY DEF TypAblage, Ids
<1>5. pc[Drain] # "ruht" => hand # 0
  BY DEF Ort
<1>6. unbegrenzt \in BOOLEAN /\ gestoert \in BOOLEAN
  BY DEF TypUmfeld, TypChronik
<1> QED BY <1>2, <1>3, <1>4, <1>5, <1>6
        DEF TypeOK, TypAblage, TypUmfeld, TypSchleife, TypAufgaben, TypRouten, TypChronik

\* What a step leaves alone keeps its type.
LEMMA Unveraendert ==
  ASSUME Typ
  PROVE  /\ UNCHANGED ablage => TypAblage'
         /\ UNCHANGED <<rest, letzterTag>> => TypUmfeld'
         /\ UNCHANGED <<naechste, schleife>> => TypSchleife'
         /\ UNCHANGED aufgaben => TypAufgaben'
         /\ UNCHANGED <<naechste, bediener>> => TypRouten'
         /\ UNCHANGED <<naechste, chronik>> => TypChronik'
         /\ UNCHANGED <<pc, phase, hand>> => Ort'
  BY DEF Typ, Ids, TypAblage, TypUmfeld, TypSchleife, TypAufgaben, TypRouten, TypChronik, Ort

\* The room for ids is enough as long as no task starts.
LEMMA RaumBleibt ==
  ASSUME Typ, Schreiber' \subseteq Schreiber, UNCHANGED naechste PROVE Raum'
<1>1. IsFiniteSet(Aufgabe) /\ Schreiber \subseteq Aufgabe
  BY FS_Singleton, FS_Union DEF Schreiber
<1>2. IsFiniteSet(Schreiber)
  BY <1>1, FS_Subset
<1>3. /\ Cardinality(Schreiber') <= Cardinality(Schreiber)
      /\ Cardinality(Schreiber) \in Nat /\ Cardinality(Schreiber') \in Nat
  BY <1>2, FS_Subset, FS_CardinalityType
<1> QED BY <1>3 DEF Typ, TypAblage, Raum

\* Halten ends the order of a task.
LEMMA HaltenTyp ==
  ASSUME Typ, NEW t \in Aufgabe, pc[t] \in TorSchritte, Halten(t)
  PROVE  /\ TypAufgaben' /\ entschieden' \subseteq Ids
         /\ UNCHANGED <<phase, hand>> => Ort'
         /\ Schreiber' \subseteq Schreiber
<1> USE DEF Typ, Halten, Gehe
<1>1. pc' \in [Aufgabe -> TorSchritte \cup {"ruht", "senden", "ack"}]
  BY DEF TypAufgaben
<1>2. auftrag' \in [Aufgabe -> Auftrag \cup {KeinAuftrag}] /\ gelesen' \in [Aufgabe -> 0..MaxId]
  BY DEF TypAufgaben
<1>3. \A s \in Aufgabe: pc'[s] # "ruht" => auftrag'[s] \in Auftrag
  BY DEF TypAufgaben, TorSchritte
<1>4. entschieden' \subseteq Ids
  BY DEF Ort, TypSchleife, TypChronik, TorSchritte
<1>5. UNCHANGED <<phase, hand>> => Ort'
  BY DEF Ort, TypAufgaben, TorSchritte
<1>6. Schreiber' \subseteq Schreiber
  BY DEF Schreiber, TypAufgaben, TorSchritte
<1> QED BY <1>1, <1>2, <1>3, <1>4, <1>5, <1>6 DEF TypAufgaben

\* A task that goes on to another step of the gate, or to the broker.
LEMMA WeiterTyp ==
  ASSUME Typ, NEW t \in Aufgabe, pc[t] \in TorSchritte \ {"p_index"},
         NEW s \in TorSchritte \cup {"senden"}, Gehe(t, s), UNCHANGED <<auftrag, phase, hand>>,
         gelesen' \in [Aufgabe -> 0..MaxId]
  PROVE  TypAufgaben' /\ Ort' /\ Schreiber' \subseteq Schreiber
<1> USE DEF Typ, Gehe, TypAufgaben, TorSchritte
<1>1. TypAufgaben'
  OBVIOUS
<1>2. Ort'
  BY DEF Ort
<1>3. Schreiber' \subseteq Schreiber
  BY DEF Schreiber
<1> QED BY <1>1, <1>2, <1>3

\* The place of an order is one of the index.
LEMMA PlatzTyp == \A a \in Auftrag: Platz(a) \in Nutzer \X Symbol
  BY DEF Platz, Auftrag

\* A step of the gate keeps the types.
LEMMA TypTor == ASSUME Typ, NEW t \in Aufgabe, Tor(t) PROVE Typ'
<1>0. pc[t] # "ruht" /\ auftrag[t] \in Auftrag /\ auftrag[t].wert \in Nat /\ gelesen[t] \in 0..MaxId
      /\ Platz(auftrag[t]) \in Nutzer \X Symbol
  <2>1. pc[t] # "ruht"
    BY DEF Tor, TorFrei, TorIndex, TorBlob, TorBewerten, TorBuchen, PushOhneAblage, PushLesen, PushLoeschen,
           PushSetzen, PushIndex, SendenAutonom
  <2>2. auftrag[t] \in Auftrag /\ gelesen[t] \in 0..MaxId
    BY <2>1 DEF Typ, TypAufgaben
  <2>3. auftrag[t].wert \in Nat
    BY <2>2 DEF Auftrag
  <2> QED BY <2>1, <2>2, <2>3, PlatzTyp
<1>1. CASE TorFrei(t)
  <2>1. UNCHANGED <<ablage, schleife, gelesen, bediener, chronik, rest>>
    BY <1>1 DEF TorFrei
  <2>2. CASE t = Drain /\ Gehe(t, "senden") /\ UNCHANGED auftrag
    <3>1. pc[t] \in TorSchritte \ {"p_index"} /\ gelesen' \in [Aufgabe -> 0..MaxId]
      BY <1>1 DEF TorFrei, Typ, TypAufgaben, TorSchritte
    <3> QED BY <2>1, <2>2, <3>1, WeiterTyp, Unveraendert, RaumBleibt DEF Typ
  <2>3. CASE t # Drain /\ Gehe(t, "ruht") /\ auftrag' = [auftrag EXCEPT ![t] = KeinAuftrag]
    <3>1. TypAufgaben' /\ Schreiber' \subseteq Schreiber
      BY <2>1, <2>3 DEF Gehe, Typ, TypAufgaben, Schreiber, TorSchritte
    <3>2. Ort'
      BY <2>1, <2>3 DEF Gehe, Typ, TypAufgaben, Ort
    <3> QED BY <2>1, <3>1, <3>2, Unveraendert, RaumBleibt DEF Typ
  <2> QED BY <1>1, <2>2, <2>3 DEF TorFrei
<1>2. CASE TorIndex(t) \/ PushLesen(t)
  <2>1. UNCHANGED <<ablage, schleife, auftrag, bediener, chronik, rest>>
    BY <1>2 DEF TorIndex, PushLesen
  <2>2. index[Platz(auftrag[t])] \in 0..MaxId
    BY <1>0 DEF Typ, TypAblage
  <2>3. gelesen' \in [Aufgabe -> 0..MaxId]
    BY <1>2, <2>2 DEF TorIndex, PushLesen, Typ, TypAufgaben
  <2>4. pc[t] \in TorSchritte \ {"p_index"}
        /\ \E s \in TorSchritte \cup {"senden"}: Gehe(t, s)
    BY <1>2 DEF TorIndex, PushLesen, TorSchritte
  <2> QED BY <2>1, <2>3, <2>4, WeiterTyp, Unveraendert, RaumBleibt DEF Typ
<1>3. CASE TorBlob(t) \/ PushOhneAblage(t)
  <2>1. /\ UNCHANGED <<ablage, schleife, bediener, rest, zugesagt, verfallen, bilanz, abgewiesen,
                       gestoert>>
        /\ pc[t] \in TorSchritte \ {"p_index"}
    BY <1>3 DEF TorBlob, PushOhneAblage, TorSchritte
  <2>2. CASE Halten(t)
    <3>1. TypAufgaben' /\ entschieden' \subseteq Ids /\ Ort' /\ Schreiber' \subseteq Schreiber
      BY <2>1, <2>2, HaltenTyp
    <3>2. TypChronik'
      BY <2>1, <3>1 DEF Typ, TypChronik, Ids
    <3> QED BY <2>1, <3>1, <3>2, Unveraendert, RaumBleibt DEF Typ
  <2>3. CASE Gehe(t, "bewerten") /\ UNCHANGED <<auftrag, gelesen, entschieden>>
    <3>1. "bewerten" \in TorSchritte /\ gelesen' \in [Aufgabe -> 0..MaxId]
      BY <2>3 DEF TorSchritte, Typ, TypAufgaben
    <3> QED BY <2>1, <2>3, <3>1, WeiterTyp, Unveraendert, RaumBleibt DEF Typ
  <2> QED BY <1>3, <2>2, <2>3 DEF TorBlob, PushOhneAblage
<1>4. CASE TorBewerten(t)
  <2>1. UNCHANGED <<ablage, schleife, auftrag, gelesen, bediener, chronik, rest>>
    BY <1>4 DEF TorBewerten
  <2>2. /\ pc[t] \in TorSchritte \ {"p_index"} /\ gelesen' \in [Aufgabe -> 0..MaxId]
        /\ \E s \in TorSchritte \cup {"senden"}: Gehe(t, s)
    BY <1>4, <2>1 DEF TorBewerten, TorSchritte, Typ, TypAufgaben
  <2> QED BY <2>1, <2>2, WeiterTyp, Unveraendert, RaumBleibt DEF Typ
<1>5. CASE TorBuchen(t)
  <2>1. UNCHANGED <<wartet, index, freigegeben, unterwegs, vorlage, naechste,
                   schleife, auftrag, gelesen, bediener, chronik, rest>>
    BY <1>5 DEF TorBuchen
  <2>2. pc[t] \in TorSchritte \ {"p_index"} /\ gelesen' \in [Aufgabe -> 0..MaxId] /\ Gehe(t, "senden")
    BY <1>5, <2>1 DEF TorBuchen, TorSchritte, Typ, TypAufgaben
  <2>3. TypAblage'
    BY <1>0, <1>5, <2>1, SMTT(40) DEF TorBuchen, Zaehlen, Typ, TypAblage, TypUmfeld, Ids
  <2> QED BY <2>1, <2>2, <2>3, WeiterTyp, Unveraendert, RaumBleibt DEF Typ
<1>6. CASE PushLoeschen(t)
  <2>1. UNCHANGED <<freigegeben, unterwegs, tagSumme, vorlage, naechste,
                   schleife, auftrag, gelesen, bediener, chronik, rest>>
    BY <1>6 DEF PushLoeschen
  <2>2. /\ pc[t] \in TorSchritte \ {"p_index"} /\ gelesen' \in [Aufgabe -> 0..MaxId]
        /\ Gehe(t, "p_setzen") /\ "p_setzen" \in TorSchritte
    BY <1>6, <2>1 DEF PushLoeschen, TorSchritte, Typ, TypAufgaben
  <2>3. TypAblage'
    <3>1. index' \in [Nutzer \X Symbol -> 0..MaxId]
      <4>1. index' = [index EXCEPT ![Platz(auftrag[t])] = 0] /\ 0 \in 0..MaxId
        BY <1>6 DEF PushLoeschen
      <4> QED BY <1>0, <4>1 DEF Typ, TypAblage
    <3>2. wartet' \subseteq Ids /\ Ids' = Ids
      BY <1>6, <2>1 DEF PushLoeschen, Typ, TypAblage, Ids
    <3> QED BY <2>1, <3>1, <3>2 DEF Typ, TypAblage
  <2> QED BY <2>1, <2>2, <2>3, WeiterTyp, Unveraendert, RaumBleibt DEF Typ
<1>7. CASE PushSetzen(t)
  <2>1. UNCHANGED <<index, freigegeben, unterwegs, tagSumme, schleife, auftrag, bediener, chronik, rest>>
    BY <1>7 DEF PushSetzen
  <2>2. IsFiniteSet(Aufgabe) /\ Schreiber \subseteq Aufgabe /\ t \in Schreiber
    <3>1. IsFiniteSet(Aufgabe) /\ Schreiber \subseteq Aufgabe
      BY FS_Singleton, FS_Union DEF Schreiber
    <3>2. t \in Schreiber
      BY <1>7 DEF Schreiber, PushSetzen, TorSchritte
    <3> QED BY <3>1, <3>2
  <2>3. IsFiniteSet(Schreiber) /\ Schreiber' \subseteq Schreiber \ {t}
    <3>1. IsFiniteSet(Schreiber)
      BY <2>2, FS_Subset
    <3>2. Schreiber' \subseteq Schreiber \ {t}
      BY <1>7 DEF PushSetzen, Gehe, Schreiber, Typ, TypAufgaben, TorSchritte
    <3> QED BY <3>1, <3>2
  <2>4. /\ Cardinality(Schreiber \ {t}) = Cardinality(Schreiber) - 1 /\ IsFiniteSet(Schreiber \ {t})
        /\ Cardinality(Schreiber) \in Nat
    BY <2>2, <2>3, FS_RemoveElement, FS_CardinalityType
  <2>5. Cardinality(Schreiber') <= Cardinality(Schreiber) - 1 /\ Cardinality(Schreiber') \in Nat
    BY <2>3, <2>4, FS_Subset, FS_CardinalityType
  <2>6. naechste \in 1..MaxId /\ naechste' = naechste + 1 /\ Raum'
    BY <1>7, <2>4, <2>5 DEF PushSetzen, Typ, TypAblage, Raum
  <2>7. Ids' = Ids \cup {naechste}
    BY <2>6 DEF Ids
  <2>8. TypAblage'
    <3>1. vorlage' \in [Ids' -> Auftrag]
      <4>1. Ids' = 1..naechste
        BY <2>6 DEF Ids
      <4>2. \A i \in 1..naechste: i # naechste => i \in Ids
        BY <2>6 DEF Ids
      <4> QED BY <1>0, <1>7, <4>1, <4>2 DEF PushSetzen, Typ, TypAblage
    <3>2. wartet' \subseteq Ids' /\ freigegeben' \subseteq Ids' /\ unterwegs' \subseteq Ids'
      BY <1>7, <2>1, <2>7 DEF PushSetzen, Typ, TypAblage
    <3> QED BY <2>1, <2>6, <3>1, <3>2 DEF Typ, TypAblage
  <2>9. TypSchleife' /\ TypRouten' /\ TypChronik'
    BY <2>1, <2>7 DEF Typ, TypSchleife, TypRouten, TypChronik
  <2>10. TypAufgaben' /\ Ort'
    <3>1. /\ pc[t] \in TorSchritte \ {"p_index"} /\ gelesen' \in [Aufgabe -> 0..MaxId]
          /\ Gehe(t, "p_index") /\ "p_index" \in TorSchritte
      BY <1>7, <2>6 DEF PushSetzen, TorSchritte, Typ, TypAufgaben
    <3> QED BY <2>1, <3>1, WeiterTyp
  <2> QED BY <2>1, <2>6, <2>8, <2>9, <2>10, Unveraendert DEF Typ
<1>8. CASE PushIndex(t)
  <2>1. /\ UNCHANGED <<wartet, freigegeben, unterwegs, tagSumme, vorlage, naechste, schleife, bediener,
                       rest, zugesagt, verfallen, bilanz, abgewiesen, gestoert>>
        /\ pc[t] \in TorSchritte /\ Halten(t)
    BY <1>8 DEF PushIndex, TorSchritte
  <2>2. TypAblage'
    BY <1>0, <1>8, <2>1 DEF PushIndex, Typ, TypAblage, Ids
  <2>3. TypAufgaben' /\ entschieden' \subseteq Ids /\ Ort' /\ Schreiber' \subseteq Schreiber
    BY <2>1, HaltenTyp
  <2>4. TypChronik'
    BY <2>1, <2>3 DEF Typ, TypChronik, Ids
  <2> QED BY <2>1, <2>2, <2>3, <2>4, Unveraendert, RaumBleibt DEF Typ
<1>9. CASE SendenAutonom(t)
  <2>1. UNCHANGED <<ablage, schleife, bediener, rest,
                   zugesagt, entschieden, verfallen, verloren, zusagen, gesendet, budget,
                   abgewiesen, gestoert>>
    BY <1>9 DEF SendenAutonom
  <2>2. TypChronik'
    <3>1. autonom' = autonom \/ autonom' = [autonom EXCEPT ![tag] = @ + auftrag[t].wert]
      BY <1>9 DEF SendenAutonom
    <3>2. autonom' \in [Tag -> Nat]
      <4> HIDE DEF Tag
      <4> QED BY <1>0, <3>1, SMTT(40) DEF Typ, TypChronik, TypUmfeld
    <3> QED BY <2>1, <3>2 DEF Typ, TypChronik, Ids
  <2>3. TypAufgaben' /\ Schreiber' \subseteq Schreiber
    BY <1>9 DEF SendenAutonom, Gehe, Typ, TypAufgaben, Schreiber, TorSchritte
  <2>4. Ort'
    BY <1>9, <2>1 DEF SendenAutonom, Gehe, Typ, TypAufgaben, Ort
  <2> QED BY <2>1, <2>2, <2>3, <2>4, Unveraendert, RaumBleibt DEF Typ
<1> QED BY <1>1, <1>2, <1>3, <1>4, <1>5, <1>6, <1>7, <1>8, <1>9 DEF Tor

\* A step of the loop keeps the types.
LEMMA TypZyklus == ASSUME Typ, Schleife PROVE Typ'
<1> USE DEF Typ
<1>1. CASE ZyklusBeginn
  <2>1. /\ UNCHANGED <<wartet, index, freigegeben, unterwegs, vorlage, naechste, schluessel, geholt,
                       hand, aufgaben, bediener, chronik, rest>>
        /\ phase = "start" /\ phase' = "keys" /\ letzterTag' = tag
    BY <1>1 DEF ZyklusBeginn
  <2>2. tagSumme' \in [Tag -> Nat]
    BY <1>1 DEF ZyklusBeginn, TypAblage
  <2>3. TypAblage' /\ TypUmfeld' /\ TypSchleife'
    BY <2>1, <2>2 DEF TypAblage, TypUmfeld, TypSchleife, Ids
  <2>4. Ort' /\ Schreiber' = Schreiber
    BY <2>1 DEF Ort, Schreiber
  <2> QED BY <2>1, <2>3, <2>4, Unveraendert, RaumBleibt
<1>2. CASE ClaimKeys \/ ClaimLesen \/ ClaimFertig
  <2>1. UNCHANGED <<ablage, letzterTag, geholt, aufgaben, bediener, chronik, rest>>
    BY <1>2 DEF ClaimKeys, ClaimLesen, ClaimFertig
  <2>2. phase \in {"keys", "claim"} /\ phase' \in {"claim", "marke", "ausfuehren"}
        /\ schluessel' \subseteq Ids
        /\ hand' \in {hand} \cup schluessel /\ (phase' = "marke" => hand' \in schluessel)
    BY <1>2 DEF ClaimKeys, ClaimLesen, ClaimFertig, TypAblage, TypSchleife
  <2>3. TypSchleife'
    BY <2>1, <2>2 DEF TypSchleife, Ids
  <2>4. schluessel \subseteq Ids /\ 0 \notin Ids
    BY DEF TypSchleife, TypAblage, Ids
  <2>5. Ort' /\ Schreiber' = Schreiber
    BY <2>1, <2>2, <2>4 DEF Ort, Schreiber
  <2> QED BY <2>1, <2>3, <2>5, Unveraendert, RaumBleibt
<1>3. CASE ClaimMarke \/ ClaimStreichen
  <2>1. /\ UNCHANGED <<wartet, index, tagSumme, vorlage, naechste, letzterTag, aufgaben, bediener,
                       chronik, rest>>
        /\ phase \in {"marke", "streichen"} /\ hand \in Ids
    BY <1>3 DEF ClaimMarke, ClaimStreichen, Ort, TypSchleife
  <2>2. TypAblage'
    BY <1>3, <2>1 DEF ClaimMarke, ClaimStreichen, TypAblage, Ids
  <2>3. TypSchleife'
    BY <1>3, <2>1 DEF ClaimMarke, ClaimStreichen, TypSchleife, Ids
  <2>4. Ort' /\ Schreiber' = Schreiber
    BY <1>3, <2>1 DEF ClaimMarke, ClaimStreichen, Ort, Schreiber
  <2> QED BY <2>1, <2>2, <2>3, <2>4, Unveraendert, RaumBleibt
<1>4. CASE Ausfuehren
  <2>1. /\ UNCHANGED <<ablage, phase, letzterTag, schluessel, geholt, gelesen, bediener, rest,
                       zugesagt, verfallen, bilanz, abgewiesen, gestoert>>
        /\ phase = "ausfuehren" /\ pc[Drain] = "ruht"
    BY <1>4 DEF Ausfuehren
  <2>2. PICK i \in geholt: Ablehnen(i) \/ Freigeben(i)
    BY <1>4 DEF Ausfuehren
  <2>3. /\ i \in Ids /\ 0 \notin Ids /\ vorlage[i] \in Auftrag /\ hand' = i
        /\ entschieden' \subseteq Ids
    BY <2>2 DEF Ablehnen, Freigeben, TypSchleife, TypAblage, TypChronik, Ids
  <2>4. \E s \in TorSchritte \cup {"senden", "ack"}, a \in Auftrag:
          /\ pc' = [pc EXCEPT ![Drain] = s] /\ auftrag' = [auftrag EXCEPT ![Drain] = a]
          /\ s \in TorSchritte => naechste <= MaxId
    <3>1. CASE Ablehnen(i)
      <4>1. pc' = [pc EXCEPT ![Drain] = "ack"] /\ auftrag' = [auftrag EXCEPT ![Drain] = vorlage[i]]
        BY <3>1 DEF Ablehnen, Gehe
      <4>2. "ack" \notin TorSchritte
        BY DEF TorSchritte
      <4> QED BY <2>3, <4>1, <4>2
    <3>2. CASE Freigeben(i)
      <4>1. \A w \in Wert: [vorlage[i] EXCEPT !.wert = w] \in Auftrag
        BY <2>3 DEF Auftrag
      <4> QED BY <2>3, <3>2, <4>1 DEF Freigeben, Gehe, TorSchritte
    <3> QED BY <2>2, <3>1, <3>2
  <2>5. TypAufgaben'
    BY <2>1, <2>4 DEF TypAufgaben
  <2>6. TypSchleife' /\ TypChronik'
    BY <2>1, <2>3 DEF TypSchleife, TypChronik, Ids
  <2>7. Ort'
    BY <2>1, <2>3, <2>4 DEF Ort, TypAufgaben
  <2>8. Raum'
    <3>1. Schreiber' \subseteq {Drain} /\ (Schreiber' # {} => naechste <= MaxId)
      BY <2>1, <2>4 DEF Ort, TypAufgaben, Schreiber, TorSchritte
    <3>2. IsFiniteSet({Drain}) /\ Cardinality({Drain}) = 1 /\ Cardinality({}) = 0
      BY FS_Singleton, FS_EmptySet
    <3>3. Cardinality(Schreiber') <= 1 /\ Cardinality(Schreiber') \in Nat
      BY <3>1, <3>2, FS_Subset, FS_CardinalityType
    <3>4. Schreiber' = {} => Cardinality(Schreiber') = 0
      BY <3>2
    <3> QED BY <2>1, <3>1, <3>3, <3>4 DEF Raum, TypAblage
  <2> QED BY <2>1, <2>5, <2>6, <2>7, <2>8, Unveraendert
<1>5. CASE SendenFreigabe
  <2>1. /\ UNCHANGED <<ablage, schleife, auftrag, gelesen, bediener, rest,
                       zugesagt, verfallen, verloren, zusagen, autonom, budget, abgewiesen, gestoert>>
        /\ pc[Drain] = "senden" /\ pc' = [pc EXCEPT ![Drain] = "ack"] /\ hand \in Ids
        /\ entschieden' = entschieden \cup {hand}
    BY <1>5 DEF SendenFreigabe, Gehe, Ort, TypSchleife
  <2>2. hand \in Id /\ gesendet' \in [Id -> Nat]
    <3>1. hand \in Id
      BY <2>1 DEF TypAblage, Ids
    <3>2. gesendet' = gesendet \/ gesendet' = [gesendet EXCEPT ![hand] = @ + 1]
      BY <1>5 DEF SendenFreigabe
    <3> HIDE DEF Id
    <3> QED BY <3>1, <3>2 DEF TypChronik
  <2>3. TypChronik' /\ TypAufgaben'
    BY <2>1, <2>2 DEF TypChronik, TypAufgaben, Ids
  <2>4. Ort' /\ Schreiber' \subseteq Schreiber
    BY <2>1 DEF Ort, TypAufgaben, Schreiber, TorSchritte
  <2> QED BY <2>1, <2>3, <2>4, Unveraendert, RaumBleibt
<1>6. CASE Ack
  <2>1. /\ UNCHANGED <<wartet, index, freigegeben, tagSumme, vorlage, naechste, tag, unbegrenzt, speicher,
                       phase, letzterTag, schluessel, gelesen, bediener,
                       zugesagt, entschieden, verfallen, bilanz, abgewiesen>>
        /\ pc[Drain] = "ack" /\ pc' = [pc EXCEPT ![Drain] = "ruht"]
        /\ auftrag' = [auftrag EXCEPT ![Drain] = KeinAuftrag]
        /\ hand' = 0 /\ geholt' \subseteq geholt /\ unterwegs' \subseteq unterwegs
    BY <1>6 DEF Ack, Gehe, Fehler
  <2>2. TypUmfeld' /\ gestoert' \in BOOLEAN
    <3>1. CASE Fehler
      <4>1. gestoert' = TRUE /\ ereignisse < MaxEreignis /\ ereignisse' = ereignisse + 1
        BY <3>1 DEF Fehler, Ereignis
      <4>2. TypUmfeld'
        BY <2>1, <4>1 DEF TypUmfeld
      <4> QED BY <4>1, <4>2
    <3>2. CASE UNCHANGED <<rest, gestoert>>
      BY <2>1, <3>2 DEF TypUmfeld, TypChronik
    <3> QED BY <1>6, <3>1, <3>2 DEF Ack
  <2>3. TypAblage' /\ TypSchleife' /\ TypChronik'
    BY <2>1, <2>2 DEF TypAblage, TypSchleife, TypChronik, Ids
  <2>4. TypAufgaben' /\ Schreiber' \subseteq Schreiber
    BY <2>1 DEF TypAufgaben, Schreiber, TorSchritte
  <2>5. Ort'
    BY <2>1 DEF Ort, TypAufgaben
  <2> QED BY <2>1, <2>2, <2>3, <2>4, <2>5, Unveraendert, RaumBleibt
<1>7. CASE AusfuehrenFertig \/ ZyklusEnde
  <2>1. /\ UNCHANGED <<ablage, letzterTag, schluessel, geholt, hand, aufgaben, bediener, chronik, rest>>
        /\ phase' \in {"signale", "start"} /\ pc[Drain] = "ruht"
        /\ phase' = "start" => \A t \in Nutzer: pc[t] = "ruht"
    BY <1>7 DEF AusfuehrenFertig, ZyklusEnde, Ruhig
  <2>2. TypSchleife' /\ Ort' /\ Schreiber' = Schreiber
    BY <2>1 DEF TypSchleife, Ort, Schreiber, Ids
  <2> QED BY <2>1, <2>2, Unveraendert, RaumBleibt
<1>8. CASE Signal
  <2>1. /\ UNCHANGED <<ablage, schleife, gelesen, bediener, chronik, tag, unbegrenzt, speicher>>
        /\ phase = "signale" /\ naechste + Cardinality(Nutzer) <= MaxId + 1
        /\ pc' = [t \in Aufgabe |-> IF t \in Nutzer THEN "index" ELSE "ruht"]
    BY <1>8 DEF Signal
  <2>2. TypUmfeld'
    BY <1>8, <2>1 DEF Signal, Ereignis, TypUmfeld
  <2>3. TypAufgaben'
    <3>1. PICK s \in Symbol, a \in {"BUY", "SELL"}, w \in [Nutzer -> Wert]:
            auftrag' = [t \in Aufgabe |->
              IF t \in Nutzer THEN [nutzer |-> t, symbol |-> s, art |-> a, wert |-> w[t]]
              ELSE KeinAuftrag]
      BY <1>8 DEF Signal
    <3>2. \A t \in Nutzer: [nutzer |-> t, symbol |-> s, art |-> a, wert |-> w[t]] \in Auftrag
      BY DEF Auftrag
    <3>3. \A t \in Aufgabe: auftrag'[t] \in Auftrag \cup {KeinAuftrag} /\ (t \in Nutzer => auftrag'[t] \in Auftrag)
      BY <3>1, <3>2
    <3>4. auftrag' \in [Aufgabe -> Auftrag \cup {KeinAuftrag}]
      BY <3>1, <3>3
    <3>5. gelesen' \in [Aufgabe -> 0..MaxId]
      BY <2>1 DEF TypAufgaben
    <3> QED BY <2>1, <3>3, <3>4, <3>5 DEF TypAufgaben, TorSchritte
  <2>4. Ort'
    BY <2>1 DEF Ort
  <2>5. Raum'
    <3>1. Schreiber' \subseteq Nutzer
      BY <2>1 DEF Schreiber, TorSchritte
    <3>2. /\ Cardinality(Schreiber') <= Cardinality(Nutzer)
          /\ Cardinality(Schreiber') \in Nat /\ Cardinality(Nutzer) \in Nat
      BY <3>1, FS_Subset, FS_CardinalityType
    <3> QED BY <2>1, <3>2 DEF Raum, TypAblage
  <2> QED BY <2>1, <2>2, <2>3, <2>4, <2>5, Unveraendert
<1> QED BY <1>1, <1>2, <1>3, <1>4, <1>5, <1>6, <1>7, <1>8 DEF Schleife

\* A step of a route keeps the types.
LEMMA TypRuf == ASSUME Typ, NEW m \in Bediener, Route(m) PROVE Typ'
<1> USE DEF Typ
<1>1. ASSUME NEW i \in Id, Approve(m, i) \/ Reject(m, i) PROVE Typ'
  <2>1. /\ UNCHANGED <<ablage, schleife, aufgaben, tag, unbegrenzt, speicher,
                       zugesagt, entschieden, verfallen, bilanz, abgewiesen>>
        /\ i \in Ids /\ i # 0
    BY <1>1 DEF Approve, Reject, TypAblage
  <2>2. TypRouten'
    BY <1>1, <2>1 DEF Approve, Reject, Rufen, TypRouten, Ids
  <2>3. TypUmfeld'
    BY <1>1, <2>1 DEF Approve, Reject, Rufen, Ereignis, TypUmfeld
  <2>4. gestoert' \in BOOLEAN
    BY <1>1 DEF Approve, Reject, Rufen
  <2>5. TypChronik' /\ Schreiber' = Schreiber
    BY <2>1, <2>4 DEF TypChronik, Ids, Schreiber
  <2> QED BY <2>1, <2>2, <2>3, <2>5, Unveraendert, RaumBleibt
<1>2. CASE ApproveSetzen(m)
  <2>1. /\ UNCHANGED <<wartet, index, unterwegs, tagSumme, vorlage, naechste, schleife, aufgaben, bid, rest,
                       entschieden, verfallen, verloren, gesendet, autonom, budget, abgewiesen, gestoert>>
        /\ bid[m] \in Ids
        /\ freigegeben' = freigegeben \cup {bid[m]} /\ zugesagt' = zugesagt \cup {bid[m]}
        /\ zusagen' = [zusagen EXCEPT ![bid[m]] = @ + 1]
        /\ bpc' = [bpc EXCEPT ![m] = "a_loeschen"] /\ bpc[m] # "ruht"
    BY <1>2 DEF ApproveSetzen, TypRouten
  <2>2. TypAblage' /\ TypChronik'
    <3>1. bid[m] \in Id
      BY <2>1 DEF TypAblage, Ids
    <3>2. zusagen' \in [Id -> Nat]
      <4> HIDE DEF Id
      <4> QED BY <2>1, <3>1 DEF TypChronik
    <3> QED BY <2>1, <3>2 DEF TypAblage, TypChronik, Ids
  <2>3. TypRouten' /\ Schreiber' = Schreiber
    BY <2>1 DEF TypRouten, Ids, Schreiber
  <2> QED BY <2>1, <2>2, <2>3, Unveraendert, RaumBleibt
<1>3. CASE ApproveLoeschen(m) \/ RejectLoeschen(m)
  <2>1. /\ UNCHANGED <<freigegeben, unterwegs, tagSumme, vorlage, naechste, schleife, aufgaben, rest,
                       zugesagt, entschieden, verfallen, bilanz, gestoert>>
        /\ bid[m] \in Ids /\ Antworten(m) /\ wartet' \subseteq wartet
        /\ abgewiesen' \subseteq abgewiesen \cup {bid[m]}
    BY <1>3 DEF ApproveLoeschen, RejectLoeschen, TypRouten
  <2>2. index' \in [Nutzer \X Symbol -> 0..MaxId]
    <3>1. vorlage[bid[m]] \in Auftrag
      BY <2>1 DEF TypAblage
    <3>2. Platz(vorlage[bid[m]]) \in Nutzer \X Symbol
      BY <3>1, PlatzTyp
    <3> QED BY <1>3, <3>2, SMTT(40) DEF ApproveLoeschen, RejectLoeschen, TypAblage
  <2>3. TypAblage' /\ TypChronik'
    BY <2>1, <2>2 DEF TypAblage, TypChronik, Ids
  <2>4. TypRouten' /\ Schreiber' = Schreiber
    BY <2>1 DEF Antworten, TypRouten, Ids, Schreiber
  <2> QED BY <2>1, <2>3, <2>4, Unveraendert, RaumBleibt
<1>4. CASE RufFehler(m)
  <2>1. /\ UNCHANGED <<ablage, schleife, aufgaben, tag, unbegrenzt, speicher,
                       zugesagt, entschieden, verfallen, bilanz, abgewiesen>>
        /\ Antworten(m) /\ gestoert' = TRUE
    BY <1>4 DEF RufFehler, Fehler
  <2>2. TypUmfeld'
    BY <1>4, <2>1 DEF RufFehler, Fehler, Ereignis, TypUmfeld
  <2>3. TypChronik' /\ Schreiber' = Schreiber
    BY <2>1 DEF TypChronik, Ids, Schreiber
  <2>4. TypRouten'
    BY <2>1 DEF Antworten, TypRouten, Ids
  <2> QED BY <2>1, <2>2, <2>3, <2>4, Unveraendert, RaumBleibt
<1> QED BY <1>1, <1>2, <1>3, <1>4 DEF Route

\* A fault counts as an event and is noted.
LEMMA FehlerTyp ==
  ASSUME Typ, Fehler
  PROVE  /\ UNCHANGED letzterTag => TypUmfeld'
         /\ gestoert' = TRUE /\ UNCHANGED <<tag, unbegrenzt, speicher>> /\ ereignisse' \in 0..MaxEreignis
  BY DEF Typ, Fehler, Ereignis, TypUmfeld

\* Faults, time and crashes keep the types.
LEMMA TypUmwelt == ASSUME Typ, Umwelt PROVE Typ'
<1> USE DEF Typ
<1>1. ASSUME NEW t \in Aufgabe, TorFehler(t) PROVE Typ'
  <2>1. /\ UNCHANGED <<wartet, index, freigegeben, unterwegs, vorlage, naechste, schleife, bediener,
                       zugesagt, verfallen, bilanz, abgewiesen>>
        /\ pc[t] \in TorSchritte /\ Fehler /\ Halten(t)
    BY <1>1 DEF TorFehler
  <2>2. TypAufgaben' /\ entschieden' \subseteq Ids /\ Ort' /\ Schreiber' \subseteq Schreiber
    BY <2>1, HaltenTyp
  <2>3. TypUmfeld' /\ gestoert' = TRUE
    BY <2>1, FehlerTyp
  <2>4. TypChronik'
    BY <2>1, <2>2, <2>3 DEF TypChronik, Ids
  <2>5. tagSumme' \in [Tag -> Nat]
    <3>1. auftrag[t] \in Auftrag
      BY <2>1 DEF TypAufgaben, TorSchritte
    <3>2. auftrag[t].wert \in Nat
      BY <3>1 DEF Auftrag
    <3>3. \/ UNCHANGED tagSumme
          \/ tagSumme' = [tagSumme EXCEPT ![tag] = @ + auftrag[t].wert]
      BY <1>1 DEF TorFehler, Zaehlen
    <3> QED BY <3>2, <3>3 DEF TypAblage
  <2>6. TypAblage'
    BY <2>1, <2>5 DEF TypAblage, Ids
  <2> QED BY <2>1, <2>2, <2>3, <2>4, <2>6, Unveraendert, RaumBleibt
<1>2. CASE ClaimFehler
  <2>1. /\ UNCHANGED <<ablage, letzterTag, aufgaben, bediener,
                       zugesagt, entschieden, verfallen, bilanz, abgewiesen>>
        /\ phase \in {"keys", "claim", "marke", "streichen"} /\ Fehler
        /\ schluessel' = {} /\ geholt' = {} /\ hand' = 0 /\ phase' = "signale"
    BY <1>2 DEF ClaimFehler
  <2>2. TypUmfeld' /\ gestoert' = TRUE
    BY <2>1, FehlerTyp
  <2>3. TypChronik' /\ TypSchleife'
    BY <2>1, <2>2 DEF TypChronik, TypSchleife, Ids
  <2>4. Ort' /\ Schreiber' = Schreiber
    BY <2>1 DEF Ort, Schreiber
  <2> QED BY <2>1, <2>2, <2>3, <2>4, Unveraendert, RaumBleibt
<1>3. CASE Mitternacht
  <2>1. UNCHANGED <<ablage, schleife, aufgaben, bediener, chronik, unbegrenzt, speicher>>
    BY <1>3 DEF Mitternacht
  <2>2. TypUmfeld' /\ Schreiber' = Schreiber
    BY <1>3 DEF Mitternacht, Ereignis, TypUmfeld, Schreiber
  <2> QED BY <2>1, <2>2, Unveraendert, RaumBleibt
<1>4. CASE VerfallEintrag
  <2>1. /\ UNCHANGED <<freigegeben, unterwegs, tagSumme, vorlage, naechste, schleife, aufgaben, bediener,
                       zugesagt, entschieden, verfallen, bilanz, abgewiesen>>
        /\ Fehler /\ wartet' \subseteq wartet
    BY <1>4 DEF VerfallEintrag
  <2>2. index' \in [Nutzer \X Symbol -> 0..MaxId]
    BY <1>4 DEF VerfallEintrag, TypAblage
  <2>3. TypUmfeld' /\ gestoert' = TRUE
    BY <2>1, FehlerTyp
  <2>4. TypChronik' /\ TypAblage' /\ Schreiber' = Schreiber
    BY <2>1, <2>2, <2>3 DEF TypChronik, TypAblage, Ids, Schreiber
  <2> QED BY <2>1, <2>3, <2>4, Unveraendert, RaumBleibt
<1>5. CASE VerfallFreigabe
  <2>1. /\ UNCHANGED <<wartet, index, tagSumme, vorlage, naechste, schleife, aufgaben, bediener, tag,
                       unbegrenzt, speicher, zugesagt, entschieden, bilanz, abgewiesen, gestoert>>
        /\ freigegeben' \subseteq freigegeben /\ unterwegs' \subseteq unterwegs
        /\ verfallen' \subseteq verfallen \cup freigegeben \cup unterwegs
    BY <1>5 DEF VerfallFreigabe
  <2>2. TypUmfeld'
    BY <1>5, <2>1 DEF VerfallFreigabe, Ereignis, TypUmfeld
  <2>3. TypChronik' /\ TypAblage' /\ Schreiber' = Schreiber
    BY <2>1 DEF TypChronik, TypAblage, Ids, Schreiber
  <2> QED BY <2>1, <2>2, <2>3, Unveraendert, RaumBleibt
<1>6. CASE Absturz
  <2>1. /\ UNCHANGED <<vorlage, naechste, zugesagt, entschieden, verfallen, zusagen, gesendet, autonom,
                       abgewiesen>>
        /\ wartet' \subseteq wartet /\ freigegeben' \subseteq freigegeben /\ unterwegs' \subseteq unterwegs
        /\ verloren' \subseteq verloren \cup freigegeben \cup unterwegs
        /\ budget' \in {budget, budget + ProTag}
        /\ Fehler /\ phase' = "start" /\ letzterTag' = 0
        /\ schluessel' = {} /\ geholt' = {} /\ hand' = 0
        /\ pc' = [t \in Aufgabe |-> "ruht"]
    BY <1>6 DEF Absturz
  <2>2. TypUmfeld' /\ gestoert' = TRUE
    BY <2>1, FehlerTyp DEF TypUmfeld
  <2>3. TypChronik' /\ TypSchleife'
    <3>1. Ids' = Ids /\ verloren' \subseteq Ids /\ budget' \in Nat
      BY <2>1, SMTT(40) DEF TypAblage, TypChronik, Ids
    <3> QED BY <2>1, <2>2, <3>1 DEF TypChronik, TypSchleife
  <2>6. TypAblage'
    <3>1. index' \in [Nutzer \X Symbol -> 0..MaxId] /\ tagSumme' \in [Tag -> Nat]
      BY <1>6 DEF Absturz, TypAblage
    <3> QED BY <2>1, <3>1 DEF TypAblage, Ids
  <2>4. TypAufgaben' /\ TypRouten'
    BY <1>6 DEF Absturz, TypAufgaben, TypRouten
  <2>5. Ort' /\ Schreiber' \subseteq Schreiber
    BY <2>1 DEF Ort, Schreiber, TorSchritte
  <2> QED BY <2>1, <2>2, <2>3, <2>4, <2>5, <2>6, RaumBleibt
<1> QED BY <1>1, <1>2, <1>3, <1>4, <1>5, <1>6 DEF Umwelt

\* Every step keeps the types.
LEMMA TypSchritt == Typ /\ [Next]_vars => Typ'
<1> SUFFICES ASSUME Typ, [Next]_vars PROVE Typ'
  OBVIOUS
<1>1. CASE UNCHANGED vars
  <2>1. UNCHANGED <<ablage, schleife, aufgaben, bediener, chronik, rest>>
    BY <1>1 DEF vars
  <2>2. Schreiber' = Schreiber
    BY <2>1 DEF Schreiber
  <2> QED BY <2>1, <2>2, Unveraendert, RaumBleibt DEF Typ
<1> QED BY <1>1, TypTor, TypZyklus, TypRuf, TypUmwelt DEF Next

\* The initial states have these types.
LEMMA TypInit == Init => Typ
<1> SUFFICES ASSUME Init PROVE Typ
  OBVIOUS
<1> USE DEF Init
<1>1. Ids = {}
  BY DEF Ids
<1>2. TypAblage
  <2>1. vorlage \in [Ids -> Auftrag]
    BY <1>1
  <2> QED BY <1>1, <2>1 DEF TypAblage
<1>3. TypUmfeld
  BY DEF TypUmfeld
<1>4. TypSchleife
  BY <1>1 DEF TypSchleife
<1>5. TypAufgaben
  BY DEF TypAufgaben
<1>6. TypRouten
  BY DEF TypRouten
<1>7. TypChronik
  BY <1>1 DEF TypChronik
<1>8. Ort
  BY DEF Ort
<1>9. Raum
  <2>1. Schreiber = {}
    BY DEF Schreiber, TorSchritte
  <2>2. Cardinality(Schreiber) = 0
    BY <2>1, FS_EmptySet
  <2> QED BY <2>2 DEF Raum
<1> QED BY <1>2, <1>3, <1>4, <1>5, <1>6, <1>7, <1>8, <1>9 DEF Typ

\* The groups of the type invariant hold throughout.
THEOREM HitlTyp == Spec => []Typ
  BY TypInit, TypSchritt, PTL DEF Spec

\* Type correctness of human approval (core/hitl_gate.py, core/hitl_queue.py).
THEOREM HitlTypKorrekt == Spec => []TypeOK
  BY HitlTyp, TypGruppen, PTL

----------------------------------------------------------------------------
(* One approval, one order.                                                *)

\* An approval that the next cycle claims, or whose blob the drain holds.
Offen(i) == i \in freigegeben \/ (phase \in {"marke", "streichen"} /\ hand = i)

\* A claimed approval whose execution has not ended.
InArbeit(i) == i \in geholt /\ ~(pc[Drain] = "ack" /\ hand = i)

\* The approvals of an id pay for its submissions and for each copy that may
\* still lead to one: the key of the store and the drain's claim.
Konto ==
    /\ pc[Drain] # "ruht" => hand \in geholt
    /\ \A i \in Id:
         gesendet[i] + (IF Offen(i) THEN 1 ELSE 0) + (IF InArbeit(i) THEN 1 ELSE 0) <= zusagen[i]

\* A step that opens nothing new and neither submits nor approves.
LEMMA KontoBleibt ==
  ASSUME Typ, Konto, UNCHANGED <<gesendet, zusagen>>,
         pc'[Drain] # "ruht" => hand' \in geholt',
         \A i \in Id: Offen(i)' => Offen(i), \A i \in Id: InArbeit(i)' => InArbeit(i)
  PROVE  Konto'
<1> USE DEF Konto
<1> HIDE DEF Id
<1>1. gesendet \in [Id -> Nat] /\ zusagen \in [Id -> Nat]
  BY DEF Typ, TypChronik
<1>2. ASSUME NEW i \in Id
      PROVE  (gesendet[i] + (IF Offen(i) THEN 1 ELSE 0) + (IF InArbeit(i) THEN 1 ELSE 0) <= zusagen[i])'
  <2>1. (Offen(i)' => Offen(i)) /\ (InArbeit(i)' => InArbeit(i))
    OBVIOUS
  <2>2. gesendet[i] + (IF Offen(i) THEN 1 ELSE 0) + (IF InArbeit(i) THEN 1 ELSE 0) <= zusagen[i]
    OBVIOUS
  <2>3. gesendet[i] \in Nat /\ zusagen[i] \in Nat /\ gesendet'[i] = gesendet[i] /\ zusagen'[i] = zusagen[i]
    BY <1>1
  <2> QED BY <2>1, <2>2, <2>3
<1> QED BY <1>2

\* The gate never brings the drain from a result back to its order.
LEMMA KontoTor ==
  ASSUME Typ, Konto, NEW t \in Aufgabe, Tor(t) \/ TorFehler(t)
  PROVE  Konto'
<1>0. pc \in [Aufgabe -> TorSchritte \cup {"ruht", "senden", "ack"}]
  BY DEF Typ, TypAufgaben
<1>1. UNCHANGED <<freigegeben, phase, hand, geholt, gesendet, zusagen>>
  BY DEF Tor, TorFrei, TorIndex, TorBlob, TorBewerten, TorBuchen, PushOhneAblage, PushLesen,
      PushLoeschen, PushSetzen, PushIndex, SendenAutonom, TorFehler
<1>2. (\E s: pc' = [pc EXCEPT ![t] = s]) /\ (t = Drain => pc[t] \in TorSchritte)
  BY ZenonT(60) DEF Tor, TorFrei, TorIndex, TorBlob, TorBewerten, TorBuchen, PushOhneAblage, PushLesen,
      PushLoeschen, PushSetzen, PushIndex, SendenAutonom, TorFehler, Halten, Gehe, TorSchritte
<1>3. t = Drain => pc[Drain] \notin {"ruht", "ack"}
  BY <1>2 DEF TorSchritte
<1>4. t # Drain => pc'[Drain] = pc[Drain]
  BY <1>0, <1>2
<1>5. pc'[Drain] # "ruht" => hand' \in geholt'
  BY <1>1, <1>3, <1>4 DEF Konto
<1>6. \A i \in Id: Offen(i)' => Offen(i)
  BY <1>1 DEF Offen
<1>7. \A i \in Id: InArbeit(i)' => InArbeit(i)
  BY <1>1, <1>3, <1>4 DEF InArbeit
<1> QED BY <1>1, <1>5, <1>6, <1>7, KontoBleibt

\* Every step keeps the account: an approval is deleted when it is claimed,
\* and what was submitted is not claimed any more.
LEMMA KontoSchritt == Typ /\ Konto /\ [Next]_vars => Konto'
<1> SUFFICES ASSUME Typ, Konto, [Next]_vars PROVE Konto'
  OBVIOUS
<1>0. /\ pc \in [Aufgabe -> TorSchritte \cup {"ruht", "senden", "ack"}]
      /\ gesendet \in [Id -> Nat] /\ zusagen \in [Id -> Nat]
  BY DEF Typ, TypAufgaben, TypChronik
<1>1. ASSUME UNCHANGED <<freigegeben, phase, hand, geholt, gesendet, zusagen, pc>> PROVE Konto'
  BY <1>1 DEF Konto, Offen, InArbeit
<1>2. CASE ZyklusBeginn \/ ClaimKeys \/ ClaimLesen \/ ClaimMarke \/ ClaimFertig \/ AusfuehrenFertig
           \/ ZyklusEnde \/ Signal
  <2>1. UNCHANGED <<freigegeben, geholt, gesendet, zusagen>> /\ pc[Drain] = "ruht" /\ pc'[Drain] = "ruht"
    BY <1>2 DEF ZyklusBeginn, ClaimKeys, ClaimLesen, ClaimMarke, ClaimFertig, AusfuehrenFertig,
        ZyklusEnde, Signal, Ruhig, Typ, Ort
  <2>2. \A i \in Id: Offen(i)' => Offen(i)
    BY <1>2, <2>1 DEF ZyklusBeginn, ClaimKeys, ClaimLesen, ClaimMarke, ClaimFertig, AusfuehrenFertig,
        ZyklusEnde, Signal, Offen
  <2>3. \A i \in Id: InArbeit(i)' => InArbeit(i)
    BY <2>1 DEF InArbeit
  <2> QED BY <2>1, <2>2, <2>3, KontoBleibt
<1>3. CASE ClaimStreichen
  <2>1. /\ UNCHANGED <<gesendet, zusagen, pc>> /\ phase = "streichen" /\ phase' = "claim" /\ hand' = 0
        /\ freigegeben' = freigegeben \ {hand} /\ geholt' = geholt \cup {hand}
    BY <1>3 DEF ClaimStreichen
  <2>2. pc[Drain] = "ruht"
    BY <2>1 DEF Typ, Ort
  <2>3. ASSUME NEW i \in Id
        PROVE  (gesendet[i] + (IF Offen(i) THEN 1 ELSE 0) + (IF InArbeit(i) THEN 1 ELSE 0) <= zusagen[i])'
    <3>1. gesendet[i] + (IF Offen(i) THEN 1 ELSE 0) + (IF InArbeit(i) THEN 1 ELSE 0) <= zusagen[i]
          /\ gesendet[i] \in Nat /\ zusagen[i] \in Nat
      BY <1>0 DEF Konto
    <3>2. gesendet'[i] = gesendet[i] /\ zusagen'[i] = zusagen[i]
      BY <2>1
    <3>3. CASE i = hand
      <4>1. Offen(i) /\ ~(Offen(i)')
        BY <2>1, <3>3 DEF Offen
      <4> QED BY <3>1, <3>2, <4>1
    <3>4. CASE i # hand
      <4>1. (Offen(i)' => Offen(i)) /\ (InArbeit(i)' => InArbeit(i))
        BY <2>1, <2>2, <3>4 DEF Offen, InArbeit
      <4> QED BY <3>1, <3>2, <4>1
    <3> QED BY <3>3, <3>4
  <2> QED BY <2>1, <2>2, <2>3 DEF Konto
<1>4. CASE ClaimFehler \/ Absturz
  <2>1. /\ UNCHANGED <<gesendet, zusagen>> /\ freigegeben' \subseteq freigegeben /\ geholt' = {}
        /\ phase' \in {"signale", "start"}
    BY <1>4 DEF ClaimFehler, Absturz
  <2>2. pc'[Drain] = "ruht"
    BY <1>4 DEF ClaimFehler, Absturz, Typ, Ort
  <2> QED BY <2>1, <2>2, KontoBleibt DEF Offen, InArbeit
<1>5. CASE Ausfuehren
  <2>1. /\ UNCHANGED <<freigegeben, phase, geholt, gesendet, zusagen>>
        /\ phase = "ausfuehren" /\ pc[Drain] = "ruht" /\ hand' \in geholt
    BY <1>5 DEF Ausfuehren, Ablehnen, Freigeben
  <2>2. \A i \in Id: InArbeit(i)' => InArbeit(i)
    BY <2>1 DEF InArbeit
  <2>3. \A i \in Id: Offen(i)' => Offen(i)
    BY <2>1 DEF Offen
  <2> QED BY <2>1, <2>2, <2>3, KontoBleibt
<1>6. CASE SendenFreigabe
  <2>1. /\ UNCHANGED <<freigegeben, phase, hand, geholt, zusagen>>
        /\ pc[Drain] = "senden" /\ pc' = [pc EXCEPT ![Drain] = "ack"]
        /\ \/ UNCHANGED gesendet
           \/ gesendet' = [gesendet EXCEPT ![hand] = @ + 1]
    BY <1>6 DEF SendenFreigabe, Gehe
  <2>2. pc'[Drain] = "ack" /\ hand \in geholt
    BY <1>0, <2>1 DEF Konto
  <2>3. ASSUME NEW i \in Id
        PROVE  (gesendet[i] + (IF Offen(i) THEN 1 ELSE 0) + (IF InArbeit(i) THEN 1 ELSE 0) <= zusagen[i])'
    <3>1. gesendet[i] + (IF Offen(i) THEN 1 ELSE 0) + (IF InArbeit(i) THEN 1 ELSE 0) <= zusagen[i]
          /\ gesendet[i] \in Nat /\ zusagen[i] \in Nat
      BY <1>0 DEF Konto
    <3>2. Offen(i)' = Offen(i)
      BY <2>1 DEF Offen
    <3>3. CASE i = hand
      <4>1. InArbeit(i) /\ ~(InArbeit(i)')
        BY <2>1, <2>2, <3>3 DEF InArbeit
      <4>2. gesendet'[i] \in {gesendet[i], gesendet[i] + 1} /\ zusagen'[i] = zusagen[i]
        BY <1>0, <2>1, <3>3
      <4> QED BY <3>1, <3>2, <4>1, <4>2
    <3>4. CASE i # hand
      <4>1. InArbeit(i)' = InArbeit(i)
        BY <2>1, <3>4 DEF InArbeit
      <4>2. gesendet'[i] = gesendet[i] /\ zusagen'[i] = zusagen[i]
        BY <1>0, <2>1, <3>4
      <4> QED BY <3>1, <3>2, <4>1, <4>2
    <3> QED BY <3>3, <3>4
  <2> QED BY <2>1, <2>2, <2>3 DEF Konto
<1>7. CASE Ack
  <2>1. /\ UNCHANGED <<freigegeben, phase, gesendet, zusagen>>
        /\ pc[Drain] = "ack" /\ pc' = [pc EXCEPT ![Drain] = "ruht"]
        /\ geholt' = geholt \ {hand} /\ hand' = 0
    BY <1>7 DEF Ack, Gehe
  <2>2. pc'[Drain] = "ruht" /\ phase = "ausfuehren"
    BY <1>0, <2>1 DEF Typ, Ort
  <2>3. \A i \in Id: InArbeit(i)' => InArbeit(i)
    BY <2>1, <2>2 DEF InArbeit
  <2>4. \A i \in Id: Offen(i)' => Offen(i)
    BY <2>1, <2>2 DEF Offen
  <2> QED BY <2>1, <2>2, <2>3, <2>4, KontoBleibt
<1>8. ASSUME NEW m \in Bediener, ApproveSetzen(m) PROVE Konto'
  <2>1. /\ UNCHANGED <<phase, hand, geholt, gesendet, pc>>
        /\ freigegeben' = freigegeben \cup {bid[m]} /\ bid[m] \in Id
        /\ zusagen' = [zusagen EXCEPT ![bid[m]] = @ + 1]
    BY <1>8 DEF ApproveSetzen, Typ, TypRouten, TypAblage, Ids
  <2>2. ASSUME NEW i \in Id
        PROVE  (gesendet[i] + (IF Offen(i) THEN 1 ELSE 0) + (IF InArbeit(i) THEN 1 ELSE 0) <= zusagen[i])'
    <3>1. gesendet[i] + (IF Offen(i) THEN 1 ELSE 0) + (IF InArbeit(i) THEN 1 ELSE 0) <= zusagen[i]
          /\ gesendet[i] \in Nat /\ zusagen[i] \in Nat
      BY <1>0 DEF Konto
    <3>2. InArbeit(i)' = InArbeit(i) /\ gesendet'[i] = gesendet[i]
      BY <2>1 DEF InArbeit
    <3>3. CASE i = bid[m]
      <4>1. zusagen'[i] = zusagen[i] + 1
        BY <1>0, <2>1, <3>3
      <4> QED BY <3>1, <3>2, <4>1
    <3>4. CASE i # bid[m]
      <4>1. zusagen'[i] = zusagen[i] /\ Offen(i)' = Offen(i)
        BY <1>0, <2>1, <3>4 DEF Offen
      <4> QED BY <3>1, <3>2, <4>1
    <3> QED BY <3>3, <3>4
  <2> QED BY <2>1, <2>2 DEF Konto
<1>9. CASE VerfallFreigabe
  <2>1. UNCHANGED <<phase, hand, geholt, gesendet, zusagen, pc>> /\ freigegeben' \subseteq freigegeben
    BY <1>9 DEF VerfallFreigabe
  <2>2. pc'[Drain] # "ruht" => hand' \in geholt'
    BY <2>1 DEF Konto
  <2> QED BY <2>1, <2>2, KontoBleibt DEF Offen, InArbeit
<1>10. ASSUME NEW m \in Bediener, Route(m), ~ApproveSetzen(m) PROVE Konto'
  BY <1>1, <1>10 DEF Route, Approve, Reject, ApproveLoeschen, RejectLoeschen, RufFehler
<1>11. CASE Mitternacht \/ VerfallEintrag \/ UNCHANGED vars
  BY <1>1, <1>11 DEF Mitternacht, VerfallEintrag, vars
<1> QED BY <1>2, <1>3, <1>4, <1>5, <1>6, <1>7, <1>8, <1>9, <1>10, <1>11, KontoTor
        DEF Next, Schleife, Umwelt

\* An order is submitted no more often than operators approved it, wherever
\* the process dies, an acknowledgement fails or a claim is repeated
\* (claim_approved, execute_approved_order, ack_inflight).
THEOREM FreigabeNurEinmal == Spec => []EineFreigabeEineOrder
<1>1. Init => Konto
  BY DEF Init, Konto, Offen, InArbeit
<1>2. Typ /\ Konto => EineFreigabeEineOrder
  <2> SUFFICES ASSUME Typ, Konto, NEW i \in Id PROVE gesendet[i] <= zusagen[i]
    BY DEF EineFreigabeEineOrder
  <2>1. gesendet[i] \in Nat /\ zusagen[i] \in Nat
    BY DEF Typ, TypChronik
  <2> QED BY <2>1 DEF Konto
<1> QED BY <1>1, <1>2, KontoSchritt, HitlTyp, PTL DEF Spec

----------------------------------------------------------------------------
(* No approval is lost.                                                    *)

\* An approval is deleted only after its marker was set, and the marker only
\* after the execution ended.
Spur ==
    /\ phase = "streichen" => hand \in unterwegs \cup verfallen
    /\ pc[Drain] = "ack" => hand \in entschieden

Bewahrt == Spur /\ KeineFreigabeVerloren

\* Every step keeps it.
LEMMA BewahrtSchritt == Typ /\ Bewahrt /\ [Next]_vars => Bewahrt'
<1> SUFFICES ASSUME Typ, Bewahrt, [Next]_vars PROVE Bewahrt'
  OBVIOUS
<1> USE DEF Bewahrt, Spur, KeineFreigabeVerloren
<1> DEFINE Spuren == <<zugesagt, freigegeben, unterwegs, entschieden, verfallen, verloren>>
<1>0. pc \in [Aufgabe -> TorSchritte \cup {"ruht", "senden", "ack"}]
  BY DEF Typ, TypAufgaben
<1>1. ASSUME UNCHANGED Spuren, UNCHANGED <<phase, hand, pc>> PROVE Bewahrt'
  BY <1>1
<1>2. ASSUME NEW t \in Aufgabe, Tor(t) \/ TorFehler(t) PROVE Bewahrt'
  <2>1. UNCHANGED <<zugesagt, freigegeben, unterwegs, verfallen, verloren, phase, hand>>
    BY <1>2 DEF Tor, TorFrei, TorIndex, TorBlob, TorBewerten, TorBuchen, PushOhneAblage, PushLesen,
        PushLoeschen, PushSetzen, PushIndex, SendenAutonom, TorFehler
  <2>2. Halten(t) \/ (UNCHANGED entschieden /\ \E s: pc' = [pc EXCEPT ![t] = s] /\ s # "ack")
    <3>1. CASE TorFehler(t) \/ PushOhneAblage(t) \/ PushIndex(t)
      BY <3>1 DEF TorFehler, PushOhneAblage, PushIndex
    <3>2. ASSUME NEW s, s # "ack", Gehe(t, s), UNCHANGED entschieden
          PROVE  UNCHANGED entschieden /\ \E r: pc' = [pc EXCEPT ![t] = r] /\ r # "ack"
      BY <3>2 DEF Gehe
    <3>3. CASE TorBlob(t)
      BY <3>2, <3>3 DEF TorBlob
    <3>4. CASE TorFrei(t)
      <4>1. UNCHANGED entschieden /\ (Gehe(t, "senden") \/ Gehe(t, "ruht"))
        BY <3>4 DEF TorFrei
      <4> QED BY <3>2, <4>1
    <3>5. CASE TorIndex(t)
      <4>1. UNCHANGED entschieden /\ (Gehe(t, "bewerten") \/ Gehe(t, "blob"))
        BY <3>5 DEF TorIndex
      <4> QED BY <3>2, <4>1
    <3>6. CASE TorBewerten(t)
      <4>1. UNCHANGED entschieden /\ (Gehe(t, "p_lesen") \/ Gehe(t, "buchen"))
        BY <3>6 DEF TorBewerten
      <4> QED BY <3>2, <4>1
    <3>7. CASE TorBuchen(t)
      <4>1. UNCHANGED entschieden /\ (Gehe(t, "senden"))
        BY <3>7 DEF TorBuchen
      <4> QED BY <3>2, <4>1
    <3>8. CASE PushLesen(t)
      <4>1. UNCHANGED entschieden /\ (Gehe(t, "p_setzen") \/ Gehe(t, "p_loeschen"))
        BY <3>8 DEF PushLesen
      <4> QED BY <3>2, <4>1
    <3>9. CASE PushLoeschen(t)
      <4>1. UNCHANGED entschieden /\ (Gehe(t, "p_setzen"))
        BY <3>9 DEF PushLoeschen
      <4> QED BY <3>2, <4>1
    <3>10. CASE PushSetzen(t)
      <4>1. UNCHANGED entschieden /\ (Gehe(t, "p_index"))
        BY <3>10 DEF PushSetzen
      <4> QED BY <3>2, <4>1
    <3>11. CASE SendenAutonom(t)
      <4>1. UNCHANGED entschieden /\ (Gehe(t, "ruht"))
        BY <3>11 DEF SendenAutonom
      <4> QED BY <3>2, <4>1
    <3> QED BY <1>2, <3>1, <3>3, <3>4, <3>5, <3>6, <3>7, <3>8, <3>9, <3>10, <3>11 DEF Tor
  <2>3. entschieden \subseteq entschieden' /\ (pc'[Drain] = "ack" => hand \in entschieden')
    BY <1>0, <2>2 DEF Halten, Gehe
  <2> QED BY <2>1, <2>3
<1>3. CASE ClaimMarke \/ ClaimStreichen
  <2>1. phase \in {"marke", "streichen"} /\ pc[Drain] # "ack" /\ UNCHANGED pc
    BY <1>3 DEF ClaimMarke, ClaimStreichen, Typ, Ort
  <2> QED BY <1>3, <2>1 DEF ClaimMarke, ClaimStreichen
<1>4. CASE Ausfuehren
  <2>1. PICK i \in geholt: Ablehnen(i) \/ Freigeben(i)
    BY <1>4 DEF Ausfuehren
  <2>2. /\ UNCHANGED <<zugesagt, freigegeben, unterwegs, verfallen, verloren, phase>>
        /\ phase = "ausfuehren" /\ hand' = i
    BY <1>4, <2>1 DEF Ausfuehren, Ablehnen, Freigeben
  <2>3. entschieden \subseteq entschieden' /\ (pc'[Drain] = "ack" => i \in entschieden')
    BY <1>0, <2>1 DEF Ablehnen, Freigeben, Gehe
  <2> QED BY <2>2, <2>3
<1>5. CASE SendenFreigabe
  <2>1. UNCHANGED <<zugesagt, freigegeben, unterwegs, verfallen, verloren, phase, hand>>
        /\ entschieden' = entschieden \cup {hand}
    BY <1>5 DEF SendenFreigabe
  <2> QED BY <2>1
<1>6. CASE Ack
  <2>1. /\ UNCHANGED <<zugesagt, freigegeben, entschieden, verfallen, verloren, phase>>
        /\ pc[Drain] = "ack" /\ pc' = [pc EXCEPT ![Drain] = "ruht"]
        /\ unterwegs \ {hand} \subseteq unterwegs' /\ hand \in entschieden
    BY <1>6 DEF Ack, Gehe
  <2>2. phase = "ausfuehren" /\ pc'[Drain] = "ruht"
    BY <1>0, <2>1 DEF Typ, Ort
  <2> QED BY <2>1, <2>2
<1>7. ASSUME NEW m \in Bediener, ApproveSetzen(m) PROVE Bewahrt'
  BY <1>7 DEF ApproveSetzen
<1>8. CASE VerfallFreigabe
  BY <1>8 DEF VerfallFreigabe
<1>9. ASSUME UNCHANGED Spuren, phase' # "streichen", pc'[Drain] # "ack" PROVE Bewahrt'
  BY <1>9
<1>10. CASE ZyklusBeginn \/ ClaimKeys \/ ClaimLesen \/ ClaimFertig \/ AusfuehrenFertig \/ Signal
            \/ ZyklusEnde \/ ClaimFehler
  <2>1. UNCHANGED Spuren
    BY <1>10 DEF ZyklusBeginn, ClaimKeys, ClaimLesen, ClaimFertig, AusfuehrenFertig, Signal,
        ZyklusEnde, ClaimFehler
  <2>2. phase' # "streichen"
    BY <1>10 DEF ZyklusBeginn, ClaimKeys, ClaimLesen, ClaimFertig, AusfuehrenFertig, Signal,
        ZyklusEnde, ClaimFehler
  <2>3. pc'[Drain] # "ack"
    <3>1. CASE ZyklusBeginn \/ ClaimKeys \/ ClaimLesen \/ ClaimFertig \/ ClaimFehler
      BY <3>1 DEF ZyklusBeginn, ClaimKeys, ClaimLesen, ClaimFertig, ClaimFehler, Typ, Ort
    <3>2. CASE AusfuehrenFertig \/ Signal \/ ZyklusEnde
      BY <3>2 DEF AusfuehrenFertig, Signal, ZyklusEnde, Ruhig
    <3> QED BY <1>10, <3>1, <3>2
  <2> QED BY <1>9, <2>1, <2>2, <2>3
<1>11. ASSUME NEW m \in Bediener, Route(m), ~ApproveSetzen(m)
       PROVE  UNCHANGED Spuren /\ UNCHANGED <<phase, hand, pc>>
  BY <1>11 DEF Route, Approve, Reject, ApproveLoeschen, RejectLoeschen, RufFehler
<1>12. CASE Mitternacht \/ VerfallEintrag \/ UNCHANGED vars
  BY <1>1, <1>12 DEF Mitternacht, VerfallEintrag, vars
<1>13. CASE Absturz
  <2>1. /\ UNCHANGED <<zugesagt, entschieden, verfallen>> /\ phase' = "start" /\ pc'[Drain] = "ruht"
        /\ freigegeben \cup unterwegs \cup verloren
             \subseteq freigegeben' \cup unterwegs' \cup verloren'
    BY <1>13 DEF Absturz
  <2> QED BY <2>1
<1> QED BY <1>1, <1>2, <1>3, <1>4, <1>5, <1>6, <1>7, <1>8, <1>10, <1>11, <1>12, <1>13
        DEF Next, Schleife, Umwelt

\* An approved order is never lost between being drained and being executed,
\* wherever the process dies, except with the memory of the process
\* (claim_approved, ack_inflight, LocalStateClient).
THEOREM FreigabeBewahrt == Spec => []KeineFreigabeVerloren
<1>1. Init => Bewahrt
  BY DEF Init, Bewahrt, Spur, KeineFreigabeVerloren
<1>2. Bewahrt => KeineFreigabeVerloren
  BY DEF Bewahrt
<1> QED BY <1>1, <1>2, BewahrtSchritt, HitlTyp, PTL DEF Spec

----------------------------------------------------------------------------
(* Redis outlives the process.                                             *)

\* Nothing is lost with a store that is not the memory of the process, and it
\* has one life.
Dauerhaft == speicher # "lokal" => verloren = {} /\ budget = ProTag

\* Every step keeps it.
LEMMA DauerhaftSchritt == Dauerhaft /\ [Next]_vars => Dauerhaft'
<1> SUFFICES ASSUME Dauerhaft, [Next]_vars PROVE Dauerhaft'
  OBVIOUS
<1>1. UNCHANGED speicher /\ (Absturz \/ UNCHANGED <<verloren, budget>>)
  BY ZenonT(60) DEF Next, vars, Tor, TorFrei, TorIndex, TorBlob, TorBewerten, TorBuchen, PushOhneAblage, PushLesen,
      PushLoeschen, PushSetzen, PushIndex, SendenAutonom, Schleife, ZyklusBeginn, ClaimKeys,
      ClaimLesen, ClaimMarke, ClaimStreichen, ClaimFertig, Ausfuehren, SendenFreigabe, Ack,
      AusfuehrenFertig, Signal, ZyklusEnde, Route, Approve, Reject, ApproveSetzen,
      ApproveLoeschen, RejectLoeschen, RufFehler, Umwelt, TorFehler, ClaimFehler, Mitternacht,
      VerfallEintrag, VerfallFreigabe, Absturz, Fehler
<1> QED BY <1>1 DEF Absturz, Dauerhaft

\* With Redis an approved order survives every crash: until its execution
\* ended there is an approval or a marker, or its time ran out
\* (claim_approved, ack_inflight).
THEOREM FreigabeBewahrtRedis ==
  Spec => [](speicher = "redis" =>
               zugesagt \subseteq freigegeben \cup unterwegs \cup entschieden \cup verfallen)
<1>1. Init => Dauerhaft
  BY DEF Init, Dauerhaft
<1>2. KeineFreigabeVerloren /\ Dauerhaft =>
        (speicher = "redis" =>
           zugesagt \subseteq freigegeben \cup unterwegs \cup entschieden \cup verfallen)
  BY DEF KeineFreigabeVerloren, Dauerhaft
<1> QED BY <1>1, <1>2, DauerhaftSchritt, FreigabeBewahrt, PTL DEF Spec

----------------------------------------------------------------------------
(* A human decides.                                                        *)

\* What the drain reads, claims, executes and sends was approved.
Herkunft ==
    /\ freigegeben \cup schluessel \cup geholt \subseteq zugesagt
    /\ hand = 0 \/ hand \in zugesagt
    /\ \A i \in Id: gesendet[i] > 0 => i \in zugesagt

\* While nothing interferes there is one call at a time, an approved entry is
\* about to be deleted, and no entry is approved and rejected.
EinRuf ==
    /\ \A m, n \in Bediener: bpc[m] # "ruht" /\ bpc[n] # "ruht" => m = n
    /\ \A i \in wartet \cap zugesagt: \E m \in Bediener: bpc[m] = "a_loeschen" /\ bid[m] = i
    /\ \A m \in Bediener: /\ bpc[m] = "r_loeschen" => bid[m] \notin zugesagt
                          /\ bpc[m] = "a_setzen" => bid[m] \notin abgewiesen
    /\ abgewiesen \cap (wartet \cup zugesagt) = {}
Ungestoert == gestoert \/ EinRuf

\* Every step keeps the origin.
LEMMA HerkunftSchritt == Typ /\ Herkunft /\ [Next]_vars => Herkunft'
<1> SUFFICES ASSUME Typ, Herkunft, [Next]_vars PROVE Herkunft'
  OBVIOUS
<1> USE DEF Herkunft
<1>1. ASSUME UNCHANGED <<freigegeben, schluessel, geholt, hand, zugesagt, gesendet>> PROVE Herkunft'
  BY <1>1
<1>2. CASE ClaimKeys \/ ClaimLesen
  BY <1>2 DEF ClaimKeys, ClaimLesen
<1>3. CASE ClaimStreichen
  <2>1. hand \in zugesagt
    BY <1>3 DEF ClaimStreichen, Typ, Ort
  <2> QED BY <1>3, <2>1 DEF ClaimStreichen
<1>4. CASE ClaimFehler \/ Absturz
  BY <1>4 DEF ClaimFehler, Absturz
<1>5. CASE Ausfuehren
  BY <1>5 DEF Ausfuehren, Ablehnen, Freigeben
<1>6. CASE Ack
  BY <1>6 DEF Ack
<1>7. CASE SendenFreigabe
  <2>1. /\ UNCHANGED <<freigegeben, schluessel, geholt, hand, zugesagt>>
        /\ hand \in zugesagt /\ gesendet \in [Id -> Nat]
        /\ \/ UNCHANGED gesendet
           \/ gesendet' = [gesendet EXCEPT ![hand] = @ + 1]
    BY <1>7 DEF SendenFreigabe, Typ, Ort, TypChronik
  <2> QED BY <2>1
<1>8. ASSUME NEW m \in Bediener, ApproveSetzen(m) PROVE Herkunft'
  BY <1>8 DEF ApproveSetzen
<1>9. CASE VerfallFreigabe
  BY <1>9 DEF VerfallFreigabe
<1>10. \/ ClaimKeys \/ ClaimLesen \/ ClaimStreichen \/ ClaimFehler \/ Absturz \/ Ausfuehren \/ Ack
       \/ SendenFreigabe \/ VerfallFreigabe \/ \E m \in Bediener: ApproveSetzen(m)
       \/ UNCHANGED <<freigegeben, schluessel, geholt, hand, zugesagt, gesendet>>
  BY DEF Next, vars, Tor, TorFrei, TorIndex, TorBlob, TorBewerten, TorBuchen, PushOhneAblage, PushLesen,
      PushLoeschen, PushSetzen, PushIndex, SendenAutonom, Schleife, ZyklusBeginn,
      ClaimMarke, ClaimFertig, AusfuehrenFertig, Signal, ZyklusEnde, Route, Approve, Reject,
      ApproveLoeschen, RejectLoeschen, RufFehler, Umwelt, TorFehler, Mitternacht, VerfallEintrag
<1> QED BY <1>1, <1>2, <1>3, <1>4, <1>5, <1>6, <1>7, <1>8, <1>9, <1>10

\* Every step keeps the calls apart until something interferes.
LEMMA UngestoertSchritt == Typ /\ Ungestoert /\ [Next]_vars => Ungestoert'
<1> SUFFICES ASSUME Typ, Ungestoert, [Next]_vars, ~gestoert' PROVE EinRuf'
  BY DEF Ungestoert
<1> DEFINE Rufe == <<wartet, zugesagt, abgewiesen, bpc, bid>>
<1>0. bpc \in [Bediener -> {"ruht", "a_setzen", "a_loeschen", "r_loeschen"}]
      /\ bid \in [Bediener -> {0} \cup Ids]
  BY DEF Typ, TypRouten
<1>1. ASSUME NEW m \in Bediener, NEW i \in Id, Approve(m, i) \/ Reject(m, i) PROVE EinRuf'
  <2>1. /\ UNCHANGED <<wartet, zugesagt, abgewiesen>> /\ i \in wartet /\ bpc[m] = "ruht"
        /\ gestoert' = (gestoert \/ \E n \in Bediener: bpc[n] # "ruht")
        /\ bid' = [bid EXCEPT ![m] = i]
        /\ \E s \in {"a_setzen", "r_loeschen"}: bpc' = [bpc EXCEPT ![m] = s]
    BY <1>1 DEF Approve, Reject, Rufen
  <2>2. ~gestoert /\ \A n \in Bediener: bpc[n] = "ruht"
    BY <2>1
  <2>3. wartet \cap zugesagt = {} /\ abgewiesen \cap (wartet \cup zugesagt) = {}
    BY <2>2 DEF Ungestoert, EinRuf
  <2>4. bid'[m] = i /\ \A n \in Bediener: n # m => bpc'[n] = "ruht"
    BY <1>0, <2>1, <2>2
  <2> QED BY <2>1, <2>3, <2>4 DEF EinRuf
<1>2. ASSUME NEW m \in Bediener, ApproveSetzen(m) PROVE EinRuf'
  <2>1. /\ UNCHANGED <<wartet, abgewiesen, bid, gestoert>>
        /\ bpc[m] = "a_setzen" /\ bpc' = [bpc EXCEPT ![m] = "a_loeschen"]
        /\ zugesagt' = zugesagt \cup {bid[m]}
    BY <1>2 DEF ApproveSetzen
  <2>2. EinRuf /\ \A n \in Bediener: n # m => bpc[n] = "ruht"
    BY <2>1 DEF Ungestoert, EinRuf
  <2>3. bpc'[m] = "a_loeschen" /\ \A n \in Bediener: n # m => bpc'[n] = "ruht"
    BY <1>0, <2>1, <2>2
  <2>4. wartet \cap zugesagt = {} /\ bid[m] \notin abgewiesen
        /\ abgewiesen \cap (wartet \cup zugesagt) = {}
    BY <2>1, <2>2 DEF EinRuf
  <2> QED BY <2>1, <2>3, <2>4 DEF EinRuf
<1>3. ASSUME NEW m \in Bediener, ApproveLoeschen(m) \/ RejectLoeschen(m) PROVE EinRuf'
  <2>1. /\ UNCHANGED <<zugesagt, gestoert>> /\ wartet' = wartet \ {bid[m]}
        /\ bpc[m] \in {"a_loeschen", "r_loeschen"} /\ bpc' = [bpc EXCEPT ![m] = "ruht"]
        /\ abgewiesen' \subseteq abgewiesen \cup {bid[m]}
        /\ bpc[m] = "a_loeschen" => UNCHANGED abgewiesen
    BY <1>3 DEF ApproveLoeschen, RejectLoeschen, Antworten
  <2>2. EinRuf /\ \A n \in Bediener: n # m => bpc[n] = "ruht"
    BY <2>1 DEF Ungestoert, EinRuf
  <2>3. \A n \in Bediener: bpc'[n] = "ruht"
    BY <1>0, <2>1, <2>2
  <2>4. (wartet \cap zugesagt) \subseteq {bid[m]}
        /\ (bpc[m] = "r_loeschen" => bid[m] \notin zugesagt)
        /\ abgewiesen \cap (wartet \cup zugesagt) = {}
    BY <2>2 DEF EinRuf
  <2> QED BY <2>1, <2>3, <2>4 DEF EinRuf
<1>4. ASSUME NEW t \in Aufgabe, PushLoeschen(t) \/ PushSetzen(t) PROVE EinRuf'
  <2>1. /\ UNCHANGED <<zugesagt, abgewiesen, bpc, bid, gestoert>>
        /\ wartet' \subseteq wartet \cup {naechste}
    BY <1>4 DEF PushLoeschen, PushSetzen
  <2>2. naechste \notin zugesagt \cup abgewiesen
    BY DEF Typ, TypAblage, TypChronik, Ids
  <2> QED BY <2>1, <2>2 DEF Ungestoert, EinRuf
<1>5. ASSUME UNCHANGED Rufe, UNCHANGED gestoert PROVE EinRuf'
  BY <1>5 DEF Ungestoert, EinRuf
<1>6. ~Fehler
  BY DEF Fehler
<1>7. \/ \E m \in Bediener: \/ \E i \in Id: Approve(m, i) \/ Reject(m, i)
                            \/ ApproveSetzen(m) \/ ApproveLoeschen(m) \/ RejectLoeschen(m)
      \/ \E t \in Aufgabe: PushLoeschen(t) \/ PushSetzen(t)
      \/ UNCHANGED Rufe /\ UNCHANGED gestoert
  BY <1>6 DEF Next, vars, Tor, TorFrei, TorIndex, TorBlob, TorBewerten, TorBuchen, PushOhneAblage, PushLesen,
      PushIndex, SendenAutonom, Schleife, ZyklusBeginn, ClaimKeys, ClaimLesen, ClaimMarke,
      ClaimStreichen, ClaimFertig, Ausfuehren, SendenFreigabe, Ack, AusfuehrenFertig, Signal,
      ZyklusEnde, Route, RufFehler, Umwelt, TorFehler, ClaimFehler, Mitternacht,
      VerfallEintrag, VerfallFreigabe, Absturz
<1> QED BY <1>1, <1>2, <1>3, <1>4, <1>5, <1>7

\* An order of the queue reaches the broker only if an operator approved it,
\* and a confirmed rejection is final unless a fault, an expiry or a second
\* call at the same time interferes (Art. 14; approve, reject).
THEOREM EinMenschEntscheidet == Spec => []MenschEntscheidet
<1>1. Init => Herkunft /\ Ungestoert
  BY DEF Init, Herkunft, Ungestoert, EinRuf
<1>2. Herkunft /\ Ungestoert => MenschEntscheidet
  BY DEF Herkunft, Ungestoert, EinRuf, MenschEntscheidet
<1> QED BY <1>1, <1>2, HerkunftSchritt, UngestoertSchritt, HitlTyp, PTL DEF Spec

----------------------------------------------------------------------------
(* The limit of the day, for the single account.                           *)

\* What this life of the store counted covers what was executed and what is
\* about to be beyond the limits of its former lives, and an order is booked
\* only if the counter stays within the limit.  Days to come are empty.
Gedeckt ==
    /\ ProTag <= budget
    /\ \A d \in Tag: /\ autonom[d] <= budget
                     /\ d > tag => autonom[d] = 0 /\ tagSumme[d] = 0
    /\ autonom[tag] + ProTag <= tagSumme[tag] + budget /\ tagSumme[tag] <= ProTag
    /\ \A t \in Aufgabe: pc[t] = "buchen" => tagSumme[tag] + auftrag[t].wert <= ProTag
    /\ \A t \in Nutzer: pc[t] = "senden" => autonom[tag] + auftrag[t].wert + ProTag <= tagSumme[tag] + budget

\* There is a limit, and the day is covered.
GrenzeGilt == unbegrenzt \/ speicher = "keiner" \/ Gedeckt

\* A step that neither books nor executes nor brings an order there.
LEMMA GedecktBleibt ==
  ASSUME Gedeckt, UNCHANGED <<autonom, budget, tagSumme, tag>>,
         \A t \in Aufgabe: pc'[t] = "buchen" => pc[t] = "buchen" /\ auftrag'[t] = auftrag[t],
         \A t \in Nutzer: pc'[t] = "senden" => pc[t] = "senden" /\ auftrag'[t] = auftrag[t]
  PROVE  Gedeckt'
  BY DEF Gedeckt

\* With one account at most one task is under way.
LEMMA EineAufgabe ==
  ASSUME \A u, v \in Nutzer: u = v, Typ, NEW t \in Aufgabe, pc[t] # "ruht"
  PROVE  \A s \in Aufgabe: s # t => pc[s] = "ruht"
  BY DEF Typ, Ort

\* A step of the gate keeps the day covered.
LEMMA GedecktTor ==
  ASSUME \A u, v \in Nutzer: u = v, Typ, ~unbegrenzt, speicher # "keiner", Gedeckt, NEW t \in Aufgabe, Tor(t) \/ TorFehler(t)
  PROVE  Gedeckt'
<1>0. /\ pc \in [Aufgabe -> TorSchritte \cup {"ruht", "senden", "ack"}]
      /\ tag \in Tag /\ tagSumme \in [Tag -> Nat] /\ autonom \in [Tag -> Nat] /\ budget \in Nat
      /\ auftrag \in [Aufgabe -> Auftrag \cup {KeinAuftrag}]
  BY DEF Typ, TypAufgaben, TypAblage, TypUmfeld, TypChronik
<1>1. pc[t] # "ruht" /\ auftrag[t].wert \in Nat /\ \A s \in Aufgabe: s # t => pc[s] = "ruht"
  <2>1. pc[t] # "ruht"
    BY DEF Tor, TorFrei, TorIndex, TorBlob, TorBewerten, TorBuchen, PushOhneAblage, PushLesen, PushLoeschen,
           PushSetzen, PushIndex, SendenAutonom, TorFehler, TorSchritte
  <2>2. auftrag[t] \in Auftrag
    BY <2>1 DEF Typ, TypAufgaben
  <2> QED BY <2>1, <2>2, EineAufgabe DEF Auftrag
<1>2. ASSUME NEW x, Gehe(t, x) PROVE pc'[t] = x /\ \A s \in Aufgabe: s # t => pc'[s] = "ruht"
  BY <1>0, <1>1, <1>2 DEF Gehe
<1>3. CASE TorFrei(t)
  <2>1. UNCHANGED <<autonom, budget, tagSumme, tag>> /\ \E x: Gehe(t, x) /\ (t # Drain => x = "ruht") /\ x # "buchen"
    BY <1>3 DEF TorFrei
  <2> QED BY <1>2, <2>1, GedecktBleibt
<1>4. CASE TorIndex(t) \/ PushLesen(t) \/ PushLoeschen(t) \/ PushSetzen(t)
  <2>1. UNCHANGED <<autonom, budget, tagSumme, tag>> /\ \E x: Gehe(t, x) /\ x \notin {"buchen", "senden"}
    BY <1>4 DEF TorIndex, PushLesen, PushLoeschen, PushSetzen
  <2> QED BY <1>2, <2>1, GedecktBleibt
<1>5. CASE TorBlob(t) \/ PushIndex(t) \/ PushOhneAblage(t)
  <2>1. UNCHANGED <<autonom, budget, tagSumme, tag>> /\ \E x: Gehe(t, x) /\ x \notin {"buchen", "senden"}
    BY <1>5 DEF TorBlob, PushIndex, PushOhneAblage, Halten
  <2> QED BY <1>2, <2>1, GedecktBleibt
<1>6. CASE TorBewerten(t)
  <2>1. /\ UNCHANGED <<autonom, budget, tagSumme, tag, auftrag>>
        /\ Gehe(t, IF UeberGrenze(auftrag[t].wert) THEN "p_lesen" ELSE "buchen")
    BY <1>6 DEF TorBewerten
  <2>2. CASE UeberGrenze(auftrag[t].wert)
    BY <1>2, <2>1, <2>2, GedecktBleibt
  <2>3. CASE ~UeberGrenze(auftrag[t].wert)
    <3>1. tagSumme[tag] + auftrag[t].wert <= ProTag
      BY <1>0, <1>1, <2>3 DEF UeberGrenze
    <3>2. pc'[t] = "buchen" /\ \A s \in Aufgabe: s # t => pc'[s] = "ruht"
      BY <1>2, <2>1, <2>3
    <3> QED BY <2>1, <3>1, <3>2 DEF Gedeckt
  <2> QED BY <2>2, <2>3
<1>7. CASE TorBuchen(t)
  <2>1. /\ UNCHANGED <<autonom, budget, tag, auftrag>> /\ Gehe(t, "senden") /\ pc[t] = "buchen"
        /\ tagSumme' = [tagSumme EXCEPT ![tag] = @ + auftrag[t].wert]
    BY <1>7 DEF TorBuchen, Zaehlen
  <2>2. pc'[t] = "senden" /\ \A s \in Aufgabe: s # t => pc'[s] = "ruht"
    BY <1>2, <2>1
  <2>3. tagSumme[tag] + auftrag[t].wert <= ProTag /\ autonom[tag] + ProTag <= tagSumme[tag] + budget
    BY <2>1 DEF Gedeckt
  <2>4. /\ tagSumme'[tag] = tagSumme[tag] + auftrag[t].wert
        /\ \A d \in Tag: d # tag => tagSumme'[d] = tagSumme[d]
    BY <1>0, <2>1
  <2>5. autonom[tag] \in Nat /\ tagSumme[tag] \in Nat
    BY <1>0
  <2>6. \A d \in Tag: autonom'[d] <= budget' /\ (d > tag' => autonom'[d] = 0 /\ tagSumme'[d] = 0)
    BY <1>0, <2>1, <2>4 DEF Gedeckt
  <2>7. /\ ProTag <= budget' /\ tagSumme'[tag'] <= ProTag
        /\ autonom'[tag'] + ProTag <= tagSumme'[tag'] + budget'
        /\ autonom'[tag'] + auftrag'[t].wert + ProTag <= tagSumme'[tag'] + budget'
    <3>1. ProTag <= budget /\ budget \in Nat
      BY <1>0 DEF Gedeckt
    <3> QED BY <1>1, <2>1, <2>3, <2>4, <2>5, <3>1
  <2> QED BY <2>2, <2>6, <2>7 DEF Gedeckt
<1>8. CASE SendenAutonom(t)
  <2>1. /\ UNCHANGED <<budget, tagSumme, tag>> /\ Gehe(t, "ruht") /\ pc[t] = "senden" /\ t \in Nutzer
        /\ \/ autonom' = [autonom EXCEPT ![tag] = @ + auftrag[t].wert]
           \/ UNCHANGED autonom
    BY <1>8 DEF SendenAutonom
  <2>2. \A s \in Aufgabe: pc'[s] = "ruht"
    BY <1>2, <2>1
  <2>3. /\ autonom'[tag] \in {autonom[tag], autonom[tag] + auftrag[t].wert}
        /\ \A d \in Tag: d # tag => autonom'[d] = autonom[d]
    BY <1>0, <2>1
  <2>4. /\ autonom[tag] + auftrag[t].wert + ProTag <= tagSumme[tag] + budget /\ tagSumme[tag] <= ProTag
        /\ autonom[tag] \in Nat /\ tagSumme[tag] \in Nat
    BY <1>0, <2>1 DEF Gedeckt
  <2>5. autonom'[tag] + ProTag <= tagSumme[tag] + budget /\ autonom'[tag] <= budget
    <3>1. autonom[tag] <= budget /\ autonom[tag] + ProTag <= tagSumme[tag] + budget
      BY <1>0 DEF Gedeckt
    <3> QED BY <1>0, <1>1, <2>3, <2>4, <3>1, SMTT(60)
  <2>6. \A d \in Tag: autonom'[d] <= budget' /\ (d > tag' => autonom'[d] = 0 /\ tagSumme'[d] = 0)
    <3>1. \A d \in Tag: autonom[d] <= budget /\ (d > tag => autonom[d] = 0 /\ tagSumme[d] = 0)
      BY DEF Gedeckt
    <3>2. \A d \in Tag: d > tag => d # tag
      BY <1>0
    <3> QED BY <2>1, <2>3, <2>5, <3>1, <3>2
  <2>7. /\ ProTag <= budget' /\ tagSumme'[tag'] <= ProTag
        /\ autonom'[tag'] + ProTag <= tagSumme'[tag'] + budget'
    BY <2>1, <2>4, <2>5 DEF Gedeckt
  <2> QED BY <2>2, <2>6, <2>7 DEF Gedeckt
<1>9. CASE TorFehler(t)
  <2>1. /\ UNCHANGED <<autonom, budget, tag>>
        /\ Gehe(t, IF t = Drain THEN "ack" ELSE "ruht")
        /\ \/ UNCHANGED tagSumme
           \/ pc[t] = "buchen" /\ tagSumme' = [tagSumme EXCEPT ![tag] = @ + auftrag[t].wert]
    BY <1>9 DEF TorFehler, Zaehlen, Halten, Fehler
  <2>2. \A s \in Aufgabe: pc'[s] \in {"ruht", "ack"}
    BY <1>2, <2>1
  <2>3. CASE UNCHANGED tagSumme
    BY <2>1, <2>2, <2>3, GedecktBleibt
  <2>4. CASE pc[t] = "buchen" /\ tagSumme' = [tagSumme EXCEPT ![tag] = @ + auftrag[t].wert]
    <3>1. tagSumme[tag] + auftrag[t].wert <= ProTag /\ autonom[tag] + ProTag <= tagSumme[tag] + budget
      BY <2>4 DEF Gedeckt
    <3>2. /\ tagSumme'[tag] = tagSumme[tag] + auftrag[t].wert
          /\ \A d \in Tag: d # tag => tagSumme'[d] = tagSumme[d]
      BY <1>0, <2>4
    <3>3. autonom[tag] \in Nat /\ tagSumme[tag] \in Nat
      BY <1>0
    <3>4. \A d \in Tag: autonom'[d] <= budget' /\ (d > tag' => autonom'[d] = 0 /\ tagSumme'[d] = 0)
      BY <1>0, <2>1, <3>2 DEF Gedeckt
    <3>5. /\ ProTag <= budget' /\ tagSumme'[tag'] <= ProTag
          /\ autonom'[tag'] + ProTag <= tagSumme'[tag'] + budget'
      <4>1. ProTag <= budget /\ budget \in Nat
        BY <1>0 DEF Gedeckt
      <4> QED BY <1>1, <2>1, <3>1, <3>2, <3>3, <4>1
    <3> QED BY <2>2, <3>4, <3>5 DEF Gedeckt
  <2> QED BY <2>1, <2>3, <2>4
<1> QED BY <1>3, <1>4, <1>5, <1>6, <1>7, <1>8, <1>9 DEF Tor

\* Every step keeps the day covered: the counter that the day change deletes
\* is not the counter of the day.
LEMMA GedecktSchritt ==
  ASSUME \A u, v \in Nutzer: u = v
  PROVE  Typ /\ GrenzeGilt /\ [Next]_vars => GrenzeGilt'
<1> SUFFICES ASSUME Typ, GrenzeGilt, [Next]_vars PROVE GrenzeGilt'
  OBVIOUS
<1>0. UNCHANGED <<unbegrenzt, speicher>>
  BY DEF Next, vars, Tor, TorFrei, TorIndex, TorBlob, TorBewerten, TorBuchen, PushOhneAblage, PushLesen,
      PushLoeschen, PushSetzen, PushIndex, SendenAutonom, Schleife, ZyklusBeginn, ClaimKeys,
      ClaimLesen, ClaimMarke, ClaimStreichen, ClaimFertig, Ausfuehren, SendenFreigabe, Ack,
      AusfuehrenFertig, Signal, ZyklusEnde, Route, Approve, Reject, ApproveSetzen,
      ApproveLoeschen, RejectLoeschen, RufFehler, Umwelt, TorFehler, ClaimFehler, Mitternacht,
      VerfallEintrag, VerfallFreigabe, Absturz, Fehler
<1>1. SUFFICES ASSUME ~unbegrenzt, speicher # "keiner", Gedeckt PROVE Gedeckt'
  BY <1>0 DEF GrenzeGilt
<1>2. ASSUME NEW t \in Aufgabe, Tor(t) \/ TorFehler(t) PROVE Gedeckt'
  BY <1>1, <1>2, GedecktTor
<1>3. /\ pc \in [Aufgabe -> TorSchritte \cup {"ruht", "senden", "ack"}]
      /\ tag \in Tag /\ tagSumme \in [Tag -> Nat] /\ autonom \in [Tag -> Nat] /\ budget \in Nat
  BY DEF Typ, TypAufgaben, TypAblage, TypUmfeld, TypChronik
<1>4. CASE ZyklusBeginn
  <2>1. /\ UNCHANGED <<autonom, budget, tag, pc, auftrag>>
        /\ tagSumme' = IF letzterTag \in {0, tag} THEN tagSumme ELSE [tagSumme EXCEPT ![letzterTag] = 0]
    BY <1>4 DEF ZyklusBeginn
  <2>2. tagSumme'[tag] = tagSumme[tag] /\ \A d \in Tag: tagSumme'[d] \in {0, tagSumme[d]}
    BY <1>3, <2>1
  <2> QED BY <1>1, <1>3, <2>1, <2>2 DEF Gedeckt
<1>5. CASE Mitternacht
  <2>1. /\ UNCHANGED <<autonom, budget, tagSumme, pc>> /\ phase = "start" /\ tag' = tag + 1 /\ tag < MaxTag
    BY <1>5 DEF Mitternacht
  <2>2. \A t \in Aufgabe: pc'[t] = "ruht"
    BY <2>1 DEF Typ, Ort
  <2>3. tag' \in Tag /\ tag' > tag /\ \A d \in Tag: d > tag' => d > tag
    BY <1>3, <2>1
  <2>4. autonom[tag'] = 0 /\ tagSumme[tag'] = 0
    BY <1>1, <2>3 DEF Gedeckt
  <2>5. /\ ProTag <= budget' /\ tagSumme'[tag'] <= ProTag
        /\ autonom'[tag'] + ProTag <= tagSumme'[tag'] + budget'
    <3>1. ProTag <= budget /\ budget \in Nat
      BY <1>1, <1>3 DEF Gedeckt
    <3> QED BY <2>1, <2>4, <3>1
  <2>6. \A d \in Tag: autonom'[d] <= budget' /\ (d > tag' => autonom'[d] = 0 /\ tagSumme'[d] = 0)
    BY <1>1, <2>1, <2>3 DEF Gedeckt
  <2> QED BY <2>2, <2>5, <2>6 DEF Gedeckt
<1>6. CASE Signal \/ (Absturz /\ speicher # "lokal")
  <2>1. UNCHANGED <<autonom, budget, tagSumme, tag>> /\ \A t \in Aufgabe: pc'[t] \in {"ruht", "index"}
    BY <1>6 DEF Signal, Absturz, Fehler
  <2> QED BY <1>1, <2>1, GedecktBleibt
<1>10. CASE Absturz /\ speicher = "lokal"
  <2>1. /\ UNCHANGED <<autonom, tag>> /\ budget' = budget + ProTag
        /\ tagSumme' = [d \in Tag |-> 0] /\ pc' = [t \in Aufgabe |-> "ruht"]
    BY <1>10 DEF Absturz, Fehler
  <2>2. ProTag <= budget /\ \A d \in Tag: autonom[d] <= budget /\ (d > tag => autonom[d] = 0)
    BY <1>1 DEF Gedeckt
  <2>3. \A d \in Tag: autonom[d] \in Nat /\ tagSumme'[d] = 0
    BY <1>3, <2>1
  <2>4. \A t \in Aufgabe: pc'[t] = "ruht"
    BY <2>1
  <2>5. budget \in Nat /\ tag \in Tag
    BY <1>3
  <2>6. \A d \in Tag: autonom'[d] <= budget' /\ (d > tag' => autonom'[d] = 0 /\ tagSumme'[d] = 0)
    BY <2>1, <2>2, <2>3, <2>5
  <2>7. /\ ProTag <= budget' /\ tagSumme'[tag'] <= ProTag
        /\ autonom'[tag'] + ProTag <= tagSumme'[tag'] + budget'
    BY <2>1, <2>2, <2>3, <2>5
  <2> QED BY <2>1, <2>4, <2>6, <2>7 DEF Gedeckt
<1>7. CASE Ausfuehren \/ SendenFreigabe \/ Ack
  <2>1. /\ UNCHANGED <<autonom, budget, tagSumme, tag>>
        /\ \E x, a: /\ pc' = [pc EXCEPT ![Drain] = x] /\ x # "buchen"
                    /\ auftrag' = [auftrag EXCEPT ![Drain] = a] \/ auftrag' = auftrag
    BY <1>7 DEF Ausfuehren, Ablehnen, Freigeben, SendenFreigabe, Ack, Gehe, Fehler
  <2>2. auftrag \in [Aufgabe -> Auftrag \cup {KeinAuftrag}]
    BY DEF Typ, TypAufgaben
  <2> QED BY <1>1, <1>3, <2>1, <2>2, GedecktBleibt
<1>8. ASSUME UNCHANGED <<autonom, budget, tagSumme, tag, pc, auftrag>> PROVE Gedeckt'
  BY <1>1, <1>8, GedecktBleibt
<1>9. \/ \E t \in Aufgabe: Tor(t) \/ TorFehler(t)
      \/ ZyklusBeginn \/ Mitternacht \/ Signal \/ Absturz \/ Ausfuehren \/ SendenFreigabe \/ Ack
      \/ UNCHANGED <<autonom, budget, tagSumme, tag, pc, auftrag>>
  BY DEF Next, vars, Schleife, ClaimKeys, ClaimLesen, ClaimMarke, ClaimStreichen, ClaimFertig,
      AusfuehrenFertig, ZyklusEnde, Route, Approve, Reject, ApproveSetzen, ApproveLoeschen,
      RejectLoeschen, RufFehler, Umwelt, ClaimFehler, VerfallEintrag, VerfallFreigabe, Fehler
<1> QED BY <1>2, <1>4, <1>5, <1>6, <1>7, <1>8, <1>9, <1>10

\* With one account and a store, what is executed without a human on one day
\* stays within the limit of the day, once for each life of the store, through
\* faults, restarts and day changes (HitlGate._decide, HitlDayNotional).
THEOREM TagesBudgetGehalten ==
  ASSUME \A u, v \in Nutzer: u = v
  PROVE  Spec => []TagesBudget
<1>1. Init => GrenzeGilt
  BY DEF Init, GrenzeGilt, Gedeckt
<1>2. Typ /\ GrenzeGilt /\ [Next]_vars => GrenzeGilt'
  BY GedecktSchritt
<1>3. GrenzeGilt => TagesBudget
  BY DEF GrenzeGilt, Gedeckt, TagesBudget
<1> QED BY <1>1, <1>2, <1>3, HitlTyp, PTL DEF Spec

\* With one account and Redis it stays within HITL_MAX_VALUE_PER_DAY, however
\* often the process restarts.
THEOREM TagesBudgetRedis ==
  ASSUME \A u, v \in Nutzer: u = v
  PROVE  Spec => [](speicher = "redis" /\ ~unbegrenzt => \A d \in Tag: autonom[d] <= ProTag)
<1>1. Init => Dauerhaft
  BY DEF Init, Dauerhaft
<1>2. TagesBudget /\ Dauerhaft =>
        (speicher = "redis" /\ ~unbegrenzt => \A d \in Tag: autonom[d] <= ProTag)
  BY DEF TagesBudget, Dauerhaft
<1>3. Spec => []TagesBudget
  BY TagesBudgetGehalten
<1> QED BY <1>1, <1>2, <1>3, DauerhaftSchritt, PTL DEF Spec
=============================================================================
