-------------------------------- MODULE Hitl --------------------------------
(***************************************************************************)
(* Human approval of orders (Art. 14): the gate of core/hitl_gate.py, the  *)
(* queue of core/hitl_queue.py, the counter of core/hitl_day_notional.py   *)
(* and the drain of the trading loop.  The trading loop judges the orders  *)
(* of a signal (one order of the single account, or one order per client   *)
(* at the same time), executes the ones within the limits and puts the     *)
(* others into the store for a human.  Operators approve and reject through*)
(* the routes while the loop runs; the next cycle claims what was approved *)
(* and executes it.  Every access to the store is a step of its own; it may*)
(* fail, keys expire, and the process may die between any two steps.  The  *)
(* store is Redis, which outlives the process, the memory of the process   *)
(* itself (desktop), or missing.                                           *)
(***************************************************************************)
EXTENDS Naturals, FiniteSets

CONSTANTS
    Nutzer,      \* accounts: the clients, or the one account of the desktop
    Symbol,
    Bediener,    \* operators at the routes
    Drain,       \* the task that executes approved orders
    Speicher,    \* what RedisClient.get_redis may be: "redis", "lokal", "keiner"
    Desktop,     \* one account without clients: sells pass the gate as well
    Wert,        \* values of orders; 0: an order that cannot be valued
    ProTrade,    \* HITL_MAX_VALUE_PER_TRADE
    ProTag,      \* HITL_MAX_VALUE_PER_DAY
    MaxId,       \* bound: approvals ever queued
    MaxTag,      \* bound: trading days
    MaxEreignis  \* bound: signals, calls, faults, crashes, expiries, midnights

ASSUME HitlAssumption ==
    /\ IsFiniteSet(Nutzer) /\ Drain \notin Nutzer
    /\ Speicher \subseteq {"redis", "lokal", "keiner"}
    /\ Desktop \in BOOLEAN
    /\ Wert \subseteq Nat
    /\ ProTrade \in Nat /\ ProTag \in Nat
    /\ MaxId \in Nat /\ MaxTag \in Nat \ {0}
    /\ MaxEreignis \in Nat

Id == 1..MaxId
Tag == 1..MaxTag
Aufgabe == Nutzer \cup {Drain}
Auftrag == [nutzer: Nutzer, symbol: Symbol, art: {"BUY", "SELL"}, wert: Wert]

VARIABLES
    wartet,      \* store: ids with a key hitl:pending
    index,       \* store: hitl:pending_idx of an account and symbol, 0: none
    freigegeben, \* store: ids with a key hitl:approved
    unterwegs,   \* store: ids with a key hitl:inflight
    tagSumme,    \* store: hitl:day_notional per day
    vorlage,     \* the payloads of the ids queued so far, by id
    naechste,    \* the next id (uuid4 in the code)
    tag,         \* the NY date
    unbegrenzt,  \* HITL_AUTONOMOUS_UNLIMITED
    speicher,    \* the store of this installation
    phase, letzterTag, schluessel, geholt, hand, \* the trading loop
    pc, auftrag, gelesen,  \* per task: step of the gate, its order, what it read
    bpc, bid,    \* per operator: step of the call, its approval id
    ereignisse,  \* events from outside so far, counted by MaxEreignis
    zugesagt,    \* history: ids an operator approved
    entschieden, \* history: ids whose execution ended, with what result ever
    verfallen,   \* history: ids whose approval or marker expired
    verloren,    \* history: ids whose approval or marker went with a local store
    zusagen,     \* history: approvals written, per approval id
    gesendet,    \* history: orders submitted to the broker, per approval id
    autonom,     \* history: value executed within the limits, per day
    budget,      \* history: the limit of a day, once for each life of the store
    abgewiesen,  \* history: ids whose rejection was confirmed to the operator
    gestoert     \* history: a fault, an expiry or two calls of operators at once

ablage == <<wartet, index, freigegeben, unterwegs, tagSumme, vorlage, naechste>>
schleife == <<phase, letzterTag, schluessel, geholt, hand>>
aufgaben == <<pc, auftrag, gelesen>>
bediener == <<bpc, bid>>
bilanz == <<verloren, zusagen, gesendet, autonom, budget>>
chronik == <<zugesagt, entschieden, verfallen, bilanz, abgewiesen, gestoert>>
rest == <<tag, unbegrenzt, speicher, ereignisse>>
vars == <<ablage, schleife, aufgaben, bediener, chronik, rest>>

TorSchritte == {"index", "blob", "bewerten", "buchen",
                "p_lesen", "p_loeschen", "p_setzen", "p_index"}

KeinAuftrag == [nutzer |-> "", symbol |-> "", art |-> "", wert |-> 0]

TypeOK ==
    /\ wartet \subseteq Id /\ freigegeben \subseteq Id /\ unterwegs \subseteq Id
    /\ index \in [Nutzer \X Symbol -> 0..MaxId]
    /\ tagSumme \in [Tag -> Nat]
    /\ naechste \in 1..(MaxId + 1)
    /\ vorlage \in [1..(naechste - 1) -> Auftrag]
    /\ wartet \cup freigegeben \cup unterwegs \subseteq DOMAIN vorlage
    /\ tag \in Tag /\ letzterTag \in 0..MaxTag /\ unbegrenzt \in BOOLEAN /\ speicher \in Speicher
    /\ phase \in {"start", "keys", "claim", "marke", "streichen", "ausfuehren", "signale"}
    /\ schluessel \subseteq DOMAIN vorlage /\ geholt \subseteq DOMAIN vorlage
    /\ hand \in {0} \cup DOMAIN vorlage
    /\ pc \in [Aufgabe -> TorSchritte \cup {"ruht", "senden", "ack"}]
    /\ auftrag \in [Aufgabe -> Auftrag \cup {KeinAuftrag}]
    /\ \A t \in Aufgabe: pc[t] # "ruht" => auftrag[t] \in Auftrag
    /\ gelesen \in [Aufgabe -> 0..MaxId]
    /\ bpc \in [Bediener -> {"ruht", "a_setzen", "a_loeschen", "r_loeschen"}]
    /\ bid \in [Bediener -> {0} \cup DOMAIN vorlage]
    /\ \A m \in Bediener: bpc[m] # "ruht" => bid[m] # 0
    /\ pc[Drain] # "ruht" => hand # 0
    /\ ereignisse \in 0..MaxEreignis
    /\ zugesagt \cup entschieden \cup verfallen \cup verloren \cup abgewiesen \subseteq DOMAIN vorlage
    /\ zusagen \in [Id -> Nat] /\ gesendet \in [Id -> Nat]
    /\ autonom \in [Tag -> Nat] /\ budget \in Nat
    /\ gestoert \in BOOLEAN

Init ==
    /\ wartet = {} /\ freigegeben = {} /\ unterwegs = {}
    /\ index = [k \in Nutzer \X Symbol |-> 0]
    /\ tagSumme = [d \in Tag |-> 0]
    /\ vorlage = [i \in 1..0 |-> KeinAuftrag] /\ naechste = 1
    /\ tag = 1 /\ unbegrenzt \in BOOLEAN /\ speicher \in Speicher
    /\ phase = "start" /\ letzterTag = 0
    /\ schluessel = {} /\ geholt = {} /\ hand = 0
    /\ pc = [t \in Aufgabe |-> "ruht"]
    /\ auftrag = [t \in Aufgabe |-> KeinAuftrag]
    /\ gelesen = [t \in Aufgabe |-> 0]
    /\ bpc = [m \in Bediener |-> "ruht"] /\ bid = [m \in Bediener |-> 0]
    /\ ereignisse = 0
    /\ zugesagt = {} /\ entschieden = {} /\ verfallen = {} /\ verloren = {}
    /\ zusagen = [i \in Id |-> 0] /\ gesendet = [i \in Id |-> 0]
    /\ autonom = [d \in Tag |-> 0] /\ budget = ProTag
    /\ abgewiesen = {} /\ gestoert = FALSE

----------------------------------------------------------------------------
Platz(a) == <<a.nutzer, a.symbol>>
Gehe(t, s) == pc' = [pc EXCEPT ![t] = s]
Ruhig == \A t \in Aufgabe: pc[t] = "ruht"

\* Something happens outside the loop.
Ereignis == ereignisse < MaxEreignis /\ ereignisse' = ereignisse + 1

\* An access to the store raises, the process dies or an entry expires.
Fehler ==
    /\ Ereignis
    /\ gestoert' = TRUE
    /\ UNCHANGED <<tag, unbegrenzt, speicher>>

\* The task's order is done without an order at the broker: a task of a client
\* rests, the drain notes the result (iron_dome_rejected) and acknowledges.
Halten(t) ==
    /\ Gehe(t, IF t = Drain THEN "ack" ELSE "ruht")
    /\ auftrag' = IF t = Drain THEN auftrag ELSE [auftrag EXCEPT ![t] = KeinAuftrag]
    /\ gelesen' = [gelesen EXCEPT ![t] = 0]
    /\ entschieden' = IF t = Drain THEN entschieden \cup {hand} ELSE entschieden

----------------------------------------------------------------------------
(* _decide: the gate, called for task t after sizing.                      *)

\* Unlimited autonomy, or a sell that only reduces a long position while
\* HITL_ALWAYS_ALLOW_RISK_REDUCING_SELLS: executed, no notional booked.
TorFrei(t) ==
    /\ pc[t] = "index"
    /\ unbegrenzt \/ auftrag[t].art = "SELL"
    /\ IF t = Drain THEN Gehe(t, "senden") /\ UNCHANGED auftrag
       ELSE Gehe(t, "ruht") /\ auftrag' = [auftrag EXCEPT ![t] = KeinAuftrag]
    /\ UNCHANGED <<ablage, schleife, gelesen, bediener, chronik, rest>>

\* has_pending: the index, then the entry it names.
TorIndex(t) ==
    /\ pc[t] = "index" /\ ~unbegrenzt
    /\ LET i == index[Platz(auftrag[t])] IN
       /\ gelesen' = [gelesen EXCEPT ![t] = i]
       /\ Gehe(t, IF i = 0 THEN "bewerten" ELSE "blob")
    /\ UNCHANGED <<ablage, schleife, auftrag, bediener, chronik, rest>>

TorBlob(t) ==
    /\ pc[t] = "blob"
    /\ \/ /\ gelesen[t] \in wartet
          /\ Halten(t)
       \/ /\ gelesen[t] \notin wartet
          /\ Gehe(t, "bewerten")
          /\ UNCHANGED <<auftrag, gelesen, entschieden>>
    /\ UNCHANGED <<ablage, schleife, bediener, rest,
                   zugesagt, verfallen, bilanz, abgewiesen, gestoert>>

\* Over a limit, by the day's total as just read, or without a value.
UeberGrenze(w) == w = 0 \/ w > ProTrade \/ tagSumme[tag] + w > ProTag

TorBewerten(t) ==
    /\ pc[t] = "bewerten"
    /\ Gehe(t, IF UeberGrenze(auftrag[t].wert) THEN "p_lesen" ELSE "buchen")
    /\ UNCHANGED <<ablage, schleife, auftrag, gelesen, bediener, chronik, rest>>

\* HitlDayNotional.add: incrbyfloat; without a store nothing is counted.
Zaehlen(w) ==
    tagSumme' = IF speicher = "keiner" THEN tagSumme ELSE [tagSumme EXCEPT ![tag] = @ + w]

\* The counter is raised before the order is executed.
TorBuchen(t) ==
    /\ pc[t] = "buchen"
    /\ Zaehlen(auftrag[t].wert)
    /\ Gehe(t, "senden")
    /\ UNCHANGED <<wartet, index, freigegeben, unterwegs, vorlage, naechste,
                   schleife, auftrag, gelesen, bediener, chronik, rest>>

\* Any error of the gate holds the order; incrbyfloat may have been applied
\* before pexpire raised.
TorFehler(t) ==
    /\ pc[t] \in TorSchritte
    /\ Fehler
    /\ Halten(t)
    /\ \/ UNCHANGED tagSumme
       \/ pc[t] = "buchen" /\ Zaehlen(auftrag[t].wert)
    /\ UNCHANGED <<wartet, index, freigegeben, unterwegs, vorlage, naechste, schleife, bediener,
                   zugesagt, verfallen, bilanz, abgewiesen>>

----------------------------------------------------------------------------
(* HitlQueue.push on behalf of task t: supersede, then entry and index.    *)

\* Without a store nothing is queued, and the order is held.
PushOhneAblage(t) ==
    /\ pc[t] = "p_lesen" /\ speicher = "keiner"
    /\ Halten(t)
    /\ UNCHANGED <<ablage, schleife, bediener, rest, zugesagt, verfallen, bilanz, abgewiesen, gestoert>>

PushLesen(t) ==
    /\ pc[t] = "p_lesen" /\ speicher # "keiner"
    /\ LET i == index[Platz(auftrag[t])] IN
       /\ gelesen' = [gelesen EXCEPT ![t] = i]
       /\ Gehe(t, IF i = 0 THEN "p_setzen" ELSE "p_loeschen")
    /\ UNCHANGED <<ablage, schleife, auftrag, bediener, chronik, rest>>

PushLoeschen(t) ==
    /\ pc[t] = "p_loeschen"
    /\ wartet' = wartet \ {gelesen[t]}
    /\ index' = [index EXCEPT ![Platz(auftrag[t])] = 0]
    /\ Gehe(t, "p_setzen")
    /\ UNCHANGED <<freigegeben, unterwegs, tagSumme, vorlage, naechste,
                   schleife, auftrag, gelesen, bediener, chronik, rest>>

PushSetzen(t) ==
    /\ pc[t] = "p_setzen"
    /\ wartet' = wartet \cup {naechste}
    /\ vorlage' = [i \in 1..naechste |-> IF i = naechste THEN auftrag[t] ELSE vorlage[i]]
    /\ naechste' = naechste + 1
    /\ gelesen' = [gelesen EXCEPT ![t] = naechste]
    /\ Gehe(t, "p_index")
    /\ UNCHANGED <<index, freigegeben, unterwegs, tagSumme, schleife, auftrag, bediener, chronik, rest>>

PushIndex(t) ==
    /\ pc[t] = "p_index"
    /\ index' = [index EXCEPT ![Platz(auftrag[t])] = gelesen[t]]
    /\ Halten(t)
    /\ UNCHANGED <<wartet, freigegeben, unterwegs, tagSumme, vorlage, naechste, schleife, bediener, rest,
                   zugesagt, verfallen, bilanz, abgewiesen, gestoert>>

----------------------------------------------------------------------------
(* The routes: approve and reject of operator m.                           *)

Rufen(m, i, s) ==
    /\ bpc[m] = "ruht"
    /\ Ereignis
    /\ bpc' = [bpc EXCEPT ![m] = s]
    /\ bid' = [bid EXCEPT ![m] = i]
    /\ gestoert' = (gestoert \/ \E n \in Bediener: bpc[n] # "ruht")

Antworten(m) ==
    /\ bpc' = [bpc EXCEPT ![m] = "ruht"]
    /\ bid' = [bid EXCEPT ![m] = 0]

\* The entry is read; without it the call answers "not found or expired".
Approve(m, i) ==
    /\ i \in wartet
    /\ Rufen(m, i, "a_setzen")
    /\ UNCHANGED <<ablage, schleife, aufgaben, tag, unbegrenzt, speicher,
                   zugesagt, entschieden, verfallen, bilanz, abgewiesen>>

ApproveSetzen(m) ==
    /\ bpc[m] = "a_setzen"
    /\ freigegeben' = freigegeben \cup {bid[m]}
    /\ zugesagt' = zugesagt \cup {bid[m]}
    /\ zusagen' = [zusagen EXCEPT ![bid[m]] = @ + 1]
    /\ bpc' = [bpc EXCEPT ![m] = "a_loeschen"]
    /\ UNCHANGED <<wartet, index, unterwegs, tagSumme, vorlage, naechste, schleife, aufgaben, bid, rest,
                   entschieden, verfallen, verloren, gesendet, autonom, budget, abgewiesen, gestoert>>

\* The entry goes, and the index of its symbol whatever id it names by now.
ApproveLoeschen(m) ==
    /\ bpc[m] = "a_loeschen"
    /\ wartet' = wartet \ {bid[m]}
    /\ index' = [index EXCEPT ![Platz(vorlage[bid[m]])] = 0]
    /\ Antworten(m)
    /\ UNCHANGED <<freigegeben, unterwegs, tagSumme, vorlage, naechste, schleife, aufgaben, chronik, rest>>

Reject(m, i) ==
    /\ i \in wartet
    /\ Rufen(m, i, "r_loeschen")
    /\ UNCHANGED <<ablage, schleife, aufgaben, tag, unbegrenzt, speicher,
                   zugesagt, entschieden, verfallen, bilanz, abgewiesen>>

\* Mutant: a rejection is confirmed and deletes nothing.
RejectNurMeldung(m) ==
    /\ bpc[m] = "r_loeschen"
    /\ abgewiesen' = abgewiesen \cup {bid[m]}
    /\ Antworten(m)
    /\ UNCHANGED <<ablage, schleife, aufgaben, rest,
                   zugesagt, entschieden, verfallen, bilanz, gestoert>>

\* One delete of entry and index; the operator is told "rejected", and the
\* rejection is audited, when anything was deleted.
RejectLoeschen(m) ==
    /\ bpc[m] = "r_loeschen"
    /\ LET p == Platz(vorlage[bid[m]]) IN
       /\ wartet' = wartet \ {bid[m]}
       /\ index' = [index EXCEPT ![p] = 0]
       /\ abgewiesen' = IF bid[m] \in wartet \/ index[p] # 0
                        THEN abgewiesen \cup {bid[m]} ELSE abgewiesen
    /\ Antworten(m)
    /\ UNCHANGED <<freigegeben, unterwegs, tagSumme, vorlage, naechste, schleife, aufgaben, rest,
                   zugesagt, entschieden, verfallen, bilanz, gestoert>>

\* The store fails during a call: the operator gets an error.
RufFehler(m) ==
    /\ bpc[m] # "ruht"
    /\ Fehler
    /\ Antworten(m)
    /\ UNCHANGED <<ablage, schleife, aufgaben,
                   zugesagt, entschieden, verfallen, bilanz, abgewiesen>>

----------------------------------------------------------------------------
(* The trading loop: day change, drain of the approvals, signals.          *)

\* Mutant: the day change clears the counter of the new day.
ZyklusBeginnHeute ==
    /\ phase = "start"
    /\ phase' = "keys"
    /\ letzterTag' = tag
    /\ tagSumme' = IF letzterTag = tag THEN tagSumme ELSE [tagSumme EXCEPT ![tag] = 0]
    /\ UNCHANGED <<wartet, index, freigegeben, unterwegs, vorlage, naechste,
                   schluessel, geholt, hand, aufgaben, bediener, chronik, rest>>

\* A cycle begins.  On a new date yesterday's counter is deleted; after a
\* restart the loop knows no yesterday.
ZyklusBeginn ==
    /\ phase = "start"
    /\ phase' = "keys"
    /\ letzterTag' = tag
    /\ tagSumme' = IF letzterTag \in {0, tag} THEN tagSumme
                   ELSE [tagSumme EXCEPT ![letzterTag] = 0]
    /\ UNCHANGED <<wartet, index, freigegeben, unterwegs, vorlage, naechste,
                   schluessel, geholt, hand, aufgaben, bediener, chronik, rest>>

\* Mutant: nothing is claimed while a marker is left.
ClaimKeysOhneMarken ==
    /\ phase = "keys"
    /\ schluessel' = IF unterwegs = {} THEN freigegeben ELSE {}
    /\ phase' = "claim"
    /\ UNCHANGED <<ablage, letzterTag, geholt, hand, aufgaben, bediener, chronik, rest>>

\* claim_approved: the keys, then for each the blob, the marker, the deletion.
ClaimKeys ==
    /\ phase = "keys"
    /\ schluessel' = freigegeben
    /\ phase' = "claim"
    /\ UNCHANGED <<ablage, letzterTag, geholt, hand, aufgaben, bediener, chronik, rest>>

\* Mutant: the drain deletes on reading.
ClaimLesenLoescht ==
    /\ phase = "claim"
    /\ \E i \in schluessel:
        \/ /\ i \in freigegeben
           /\ hand' = i /\ phase' = "marke"
           /\ freigegeben' = freigegeben \ {i}
           /\ UNCHANGED schluessel
        \/ /\ i \notin freigegeben
           /\ schluessel' = schluessel \ {i}
           /\ UNCHANGED <<hand, phase, freigegeben>>
    /\ UNCHANGED <<wartet, index, unterwegs, tagSumme, vorlage, naechste,
                   letzterTag, geholt, aufgaben, bediener, chronik, rest>>

ClaimLesen ==
    /\ phase = "claim"
    /\ \E i \in schluessel:
        \/ /\ i \in freigegeben
           /\ hand' = i /\ phase' = "marke"
           /\ UNCHANGED schluessel
        \/ /\ i \notin freigegeben
           /\ schluessel' = schluessel \ {i}
           /\ UNCHANGED <<hand, phase>>
    /\ UNCHANGED <<ablage, letzterTag, geholt, aufgaben, bediener, chronik, rest>>

ClaimMarke ==
    /\ phase = "marke"
    /\ unterwegs' = unterwegs \cup {hand}
    /\ phase' = "streichen"
    /\ UNCHANGED <<wartet, index, freigegeben, tagSumme, vorlage, naechste,
                   letzterTag, schluessel, geholt, hand, aufgaben, bediener, chronik, rest>>

\* Mutant: the approval is left for the acknowledgement to delete.
ClaimStreichenNie ==
    /\ phase = "streichen"
    /\ geholt' = geholt \cup {hand}
    /\ schluessel' = schluessel \ {hand}
    /\ hand' = 0 /\ phase' = "claim"
    /\ UNCHANGED <<ablage, letzterTag, aufgaben, bediener, chronik, rest>>

ClaimStreichen ==
    /\ phase = "streichen"
    /\ freigegeben' = freigegeben \ {hand}
    /\ geholt' = geholt \cup {hand}
    /\ schluessel' = schluessel \ {hand}
    /\ hand' = 0 /\ phase' = "claim"
    /\ UNCHANGED <<wartet, index, unterwegs, tagSumme, vorlage, naechste,
                   letzterTag, aufgaben, bediener, chronik, rest>>

ClaimFertig ==
    /\ phase = "claim" /\ schluessel = {}
    /\ phase' = "ausfuehren"
    /\ UNCHANGED <<ablage, letzterTag, schluessel, geholt, hand, aufgaben, bediener, chronik, rest>>

\* An error ends the drain; what it had claimed stays behind as markers.
ClaimFehler ==
    /\ phase \in {"keys", "claim", "marke", "streichen"}
    /\ Fehler
    /\ schluessel' = {} /\ geholt' = {} /\ hand' = 0 /\ phase' = "signale"
    /\ UNCHANGED <<ablage, letzterTag, aufgaben, bediener,
                   zugesagt, entschieden, verfallen, bilanz, abgewiesen>>

\* execute_approved_order refuses (immaterial, malformed, no access), or the
\* steps before the gate do; each outcome is audited.
Ablehnen(i) ==
    /\ hand' = i
    /\ Gehe(Drain, "ack")
    /\ auftrag' = [auftrag EXCEPT ![Drain] = vorlage[i]]
    /\ entschieden' = entschieden \cup {i}

\* "approved" is audited and the order goes to _execute_tenant_order: a sell
\* to the broker, a buy, sized anew, through the gate.
Freigeben(i) ==
    LET a == vorlage[i] IN
    /\ ~(a.art = "BUY" /\ a.wert = 0)
    /\ naechste <= MaxId
    /\ hand' = i
    /\ \/ /\ a.art = "SELL"
          /\ Gehe(Drain, "senden")
          /\ auftrag' = [auftrag EXCEPT ![Drain] = a]
       \/ /\ a.art = "BUY"
          /\ Gehe(Drain, "index")
          /\ \E w \in Wert \ {0}: auftrag' = [auftrag EXCEPT ![Drain] = [a EXCEPT !.wert = w]]
    /\ UNCHANGED entschieden

Ausfuehren ==
    /\ phase = "ausfuehren" /\ pc[Drain] = "ruht"
    /\ \E i \in geholt: Ablehnen(i) \/ Freigeben(i)
    /\ UNCHANGED <<ablage, phase, letzterTag, schluessel, geholt, gelesen, bediener, rest,
                   zugesagt, verfallen, bilanz, abgewiesen, gestoert>>

\* The approved order is submitted with the client_order_id
\* hitl-<approval id>, or a later step blocks it.
SendenFreigabe ==
    /\ pc[Drain] = "senden"
    /\ \/ gesendet' = [gesendet EXCEPT ![hand] = @ + 1]
       \/ UNCHANGED gesendet
    /\ entschieden' = entschieden \cup {hand}
    /\ Gehe(Drain, "ack")
    /\ UNCHANGED <<ablage, schleife, auftrag, gelesen, bediener, rest,
                   zugesagt, verfallen, verloren, zusagen, autonom, budget, abgewiesen, gestoert>>

\* An order within the limits is executed, or blocked by a later step.
SendenAutonom(t) ==
    /\ t # Drain /\ pc[t] = "senden"
    /\ \/ autonom' = [autonom EXCEPT ![tag] = @ + auftrag[t].wert]
       \/ UNCHANGED autonom
    /\ Gehe(t, "ruht")
    /\ auftrag' = [auftrag EXCEPT ![t] = KeinAuftrag]
    /\ gelesen' = [gelesen EXCEPT ![t] = 0]
    /\ UNCHANGED <<ablage, schleife, bediener, rest,
                   zugesagt, entschieden, verfallen, verloren, zusagen, gesendet, budget,
                   abgewiesen, gestoert>>

\* ack_inflight; an error leaves the marker.
Ack ==
    /\ pc[Drain] = "ack"
    /\ \/ unterwegs' = unterwegs \ {hand} /\ UNCHANGED <<rest, gestoert>>
       \/ Fehler /\ UNCHANGED unterwegs
    /\ geholt' = geholt \ {hand}
    /\ hand' = 0
    /\ Gehe(Drain, "ruht")
    /\ auftrag' = [auftrag EXCEPT ![Drain] = KeinAuftrag]
    /\ UNCHANGED <<wartet, index, freigegeben, tagSumme, vorlage, naechste,
                   phase, letzterTag, schluessel, gelesen, bediener,
                   zugesagt, entschieden, verfallen, bilanz, abgewiesen>>

AusfuehrenFertig ==
    /\ phase = "ausfuehren" /\ pc[Drain] = "ruht" /\ geholt = {}
    /\ phase' = "signale"
    /\ UNCHANGED <<ablage, letzterTag, schluessel, geholt, hand, aufgaben, bediener, chronik, rest>>

\* A signal: the order of the single account, or one of each client at once.
\* A client's sell does not pass the gate and is left out.
Signal ==
    /\ phase = "signale" /\ Ruhig
    /\ Ereignis
    /\ naechste + Cardinality(Nutzer) <= MaxId + 1
    /\ \E s \in Symbol, a \in {"BUY", "SELL"}, w \in [Nutzer -> Wert]:
        /\ Desktop \/ (a = "BUY" /\ \A u \in Nutzer: w[u] > 0)
        /\ auftrag' = [t \in Aufgabe |->
              IF t \in Nutzer THEN [nutzer |-> t, symbol |-> s, art |-> a, wert |-> w[t]]
              ELSE KeinAuftrag]
        /\ pc' = [t \in Aufgabe |-> IF t \in Nutzer THEN "index" ELSE "ruht"]
    /\ UNCHANGED <<ablage, schleife, gelesen, bediener, chronik, tag, unbegrenzt, speicher>>

ZyklusEnde ==
    /\ phase = "signale" /\ Ruhig
    /\ phase' = "start"
    /\ UNCHANGED <<ablage, letzterTag, schluessel, geholt, hand, aufgaben, bediener, chronik, rest>>

----------------------------------------------------------------------------
(* Time and crashes.                                                       *)

\* Midnight in New York: the market is closed, no order is under way.
Mitternacht ==
    /\ phase = "start" /\ tag < MaxTag
    /\ Ereignis
    /\ tag' = tag + 1
    /\ UNCHANGED <<ablage, schleife, aufgaben, bediener, chronik, unbegrenzt, speicher>>

\* Keys expire: an entry; an index, which is set after its entry with the
\* same time to live; an approval; a marker.
VerfallEintrag ==
    /\ \/ /\ \E i \in wartet: wartet' = wartet \ {i}
          /\ UNCHANGED index
       \/ /\ \E k \in Nutzer \X Symbol:
                /\ index[k] # 0 /\ index[k] \notin wartet
                /\ index' = [index EXCEPT ![k] = 0]
          /\ UNCHANGED wartet
    /\ Fehler
    /\ UNCHANGED <<freigegeben, unterwegs, tagSumme, vorlage, naechste, schleife, aufgaben, bediener,
                   zugesagt, entschieden, verfallen, bilanz, abgewiesen>>

VerfallFreigabe ==
    /\ \E i \in freigegeben \cup unterwegs:
        /\ freigegeben' = IF i \in freigegeben THEN freigegeben \ {i} ELSE freigegeben
        /\ unterwegs' = IF i \in freigegeben THEN unterwegs ELSE unterwegs \ {i}
        /\ verfallen' = verfallen \cup {i}
    /\ Ereignis
    /\ UNCHANGED <<wartet, index, tagSumme, vorlage, naechste, schleife, aufgaben, bediener, tag, unbegrenzt, speicher,
                   zugesagt, entschieden, bilanz, abgewiesen, gestoert>>

\* Mutant: what the drain had claimed survives the crash, its place in it not.
AbsturzHalb ==
    /\ Fehler
    /\ phase' = "start" /\ letzterTag' = 0
    /\ hand' = 0
    /\ bpc' = [m \in Bediener |-> "ruht"] /\ bid' = [m \in Bediener |-> 0]
    /\ UNCHANGED <<ablage, schluessel, geholt, aufgaben,
                   zugesagt, entschieden, verfallen, bilanz, abgewiesen>>

\* The process dies and starts again.  Redis remains; a local store is empty
\* again, and with its counter a day gets its limit once more.
Absturz ==
    /\ Fehler
    /\ phase' = "start" /\ letzterTag' = 0
    /\ schluessel' = {} /\ geholt' = {} /\ hand' = 0
    /\ pc' = [t \in Aufgabe |-> "ruht"]
    /\ auftrag' = [t \in Aufgabe |-> KeinAuftrag]
    /\ gelesen' = [t \in Aufgabe |-> 0]
    /\ bpc' = [m \in Bediener |-> "ruht"] /\ bid' = [m \in Bediener |-> 0]
    /\ IF speicher = "lokal"
       THEN /\ wartet' = {} /\ freigegeben' = {} /\ unterwegs' = {}
            /\ index' = [k \in Nutzer \X Symbol |-> 0]
            /\ tagSumme' = [d \in Tag |-> 0]
            /\ verloren' = verloren \cup freigegeben \cup unterwegs
            /\ budget' = budget + ProTag
       ELSE UNCHANGED <<wartet, freigegeben, unterwegs, index, tagSumme, verloren, budget>>
    /\ UNCHANGED <<vorlage, naechste, zugesagt, entschieden, verfallen,
                   zusagen, gesendet, autonom, abgewiesen>>

----------------------------------------------------------------------------
Tor(t) ==
    \/ TorFrei(t) \/ TorIndex(t) \/ TorBlob(t)
    \/ TorBewerten(t) \/ TorBuchen(t)
    \/ PushOhneAblage(t) \/ PushLesen(t) \/ PushLoeschen(t) \/ PushSetzen(t) \/ PushIndex(t)
    \/ SendenAutonom(t)

Schleife ==
    \/ ZyklusBeginn \/ ClaimKeys \/ ClaimLesen \/ ClaimMarke \/ ClaimStreichen \/ ClaimFertig
    \/ Ausfuehren \/ SendenFreigabe \/ Ack \/ AusfuehrenFertig
    \/ Signal \/ ZyklusEnde

Route(m) ==
    \/ \E i \in Id: Approve(m, i) \/ Reject(m, i)
    \/ ApproveSetzen(m) \/ ApproveLoeschen(m) \/ RejectLoeschen(m) \/ RufFehler(m)

Umwelt ==
    \/ \E t \in Aufgabe: TorFehler(t)
    \/ ClaimFehler \/ Mitternacht \/ VerfallEintrag \/ VerfallFreigabe \/ Absturz

Next ==
    \/ \E t \in Aufgabe: Tor(t)
    \/ Schleife
    \/ \E m \in Bediener: Route(m)
    \/ Umwelt

\* The trading loop goes on as long as the process lives; nothing obliges an
\* operator to call.
Spec ==
    /\ Init /\ [][Next]_vars
    /\ WF_vars(Schleife)
    /\ \A t \in Aufgabe: WF_vars(Tor(t))

----------------------------------------------------------------------------
(* Properties.                                                             *)

\* hitl_freigabe.py: a single human approval never executes twice.  An order
\* is submitted no more often than operators approved it, although the drain
\* claims an approval again after a crash and an acknowledgement may fail.
EineFreigabeEineOrder == \A i \in Id: gesendet[i] <= zusagen[i]

\* hitl_queue.py: an approved order is never lost in the gap between being
\* drained and being executed.  Until its execution ended there is an approval
\* the next cycle claims or a marker the next cycle reports, or its time ran
\* out, or the process died with its local store.
KeineFreigabeVerloren ==
    zugesagt \subseteq freigegeben \cup unterwegs \cup entschieden \cup verfallen \cup verloren

\* Art. 14: an order of the queue is submitted only if an operator approved it,
\* and while nothing interferes a confirmed rejection is final.
MenschEntscheidet ==
    \A i \in Id: gesendet[i] > 0 => i \in zugesagt /\ (gestoert \/ i \notin abgewiesen)

\* hitl_gate.py: what is executed without a human on one day stays within the
\* limit of the day, through restarts and day changes: with Redis the limit
\* itself, with a local store the limit once for each life of the process,
\* and without a store there is no limit.
TagesBudget == unbegrenzt \/ speicher = "keiner" \/ \A d \in Tag: autonom[d] <= budget

\* An approval does not stay where it is: the loop claims it.
FreigabeWirdGeholt == \A i \in Id: i \in freigegeben ~> i \notin freigegeben

\* hitl_freigabe.py, trading_loop.py: an approved order bypasses the gate and
\* is never queued again.
FreigabeUmgehtTor == pc[Drain] # "p_index"
=============================================================================
