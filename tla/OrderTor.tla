------------------------------ MODULE OrderTor ------------------------------
(***************************************************************************)
(* The one way from the engine to the broker (core/engine/absendung_tor.py *)
(* and core/gateway/order_gateway.py): a job passes the halt check of its  *)
(* caller, the gates (write permission, reconciliation), frees the shares  *)
(* bound by own stop orders, writes its intent into the outbox, lets the   *)
(* gateway decide and calls the broker.  A limit exit the broker refuses   *)
(* is sent once more as a market order under the next key.  After a start  *)
(* the engine compares unsettled intents with the broker (abgleichen),     *)
(* before its first cycle and before it asks for the write permission.     *)
(*                                                                         *)
(* An operation of the outbox is one step here; module Outbox shows that   *)
(* it behaves like one.  Requests to the broker travel on their own.       *)
(***************************************************************************)
EXTENDS Naturals, FiniteSets

CONSTANTS
    Auftrag,        \* jobs: one leg of one decision each
    Art,            \* [Auftrag -> {"entry", "trim", "stop", "displacement"}]
    Konto,          \* [Auftrag -> {"global", "mandant"}]
    LimitExit,      \* jobs sent as a marketable limit exit (market failsafe)
    Inst,           \* engine instances
    AblageFehler,   \* whether a step of the outbox may fail: an error of the
                    \*   store, or a lock left behind by a process that died
    Mehrdeutig,     \* whether an API error may leave the fate of an order open
    SpaeteAnkunft   \* whether a request may outlive the call that sent it

ASSUME TorAssumption ==
    /\ Art \in [Auftrag -> {"entry", "trim", "stop", "displacement"}]
    /\ Konto \in [Auftrag -> {"global", "mandant"}]
    /\ LimitExit \subseteq {a \in Auftrag: Art[a] \in {"trim", "stop"}}
    /\ AblageFehler \in BOOLEAN /\ Mehrdeutig \in BOOLEAN /\ SpaeteAnkunft \in BOOLEAN
    /\ "keiner" \notin Inst

\* An idempotency key: the leg of a decision and the attempt (next_attempt).
Schluessel == Auftrag \X {0, 1}
Keiner == "keiner"
Erledigt == {"bestaetigt", "verworfen"}
Zustand == {"fehlt", "offen", "abgesendet"} \cup Erledigt
Rang == [z \in Zustand |-> IF z \in Erledigt THEN 3
                           ELSE IF z = "abgesendet" THEN 2
                           ELSE IF z = "offen" THEN 1 ELSE 0]

VARIABLES
    pc, inst, vers, \* per job: control state, its process, the attempt
    gehalten,       \* per job: intent.halted, read when the intent was built
    stopWeg,        \* jobs that cancelled the broker stop of their position
    eintrag,        \* the outbox: state of each key
    sichtbar,       \*   and the keys its directory lists
    unterwegs, broker, abgewiesen,  \* requests in flight, orders, refused requests
    halt,           \* what is halted: "global", "mandant"
    abgleichSperre, \* the reconciliation blocks new risk
    schreiber,      \* the instance with the write permission
    lebt,           \* running instances
    abg             \* per instance: the comparison after a start

vars == <<pc, inst, vers, gehalten, stopWeg, eintrag, sichtbar, unterwegs,
          broker, abgewiesen, halt, abgleichSperre, schreiber, lebt, abg>>
jobVars == <<pc, inst, vers, gehalten, stopWeg>>
outboxVars == <<eintrag, sichtbar>>
brokerVars == <<unterwegs, broker, abgewiesen>>
umfeldVars == <<halt, abgleichSperre, schreiber, lebt, abg>>

Ende == {"fertig", "zurueck", "fehler", "tot"}
Aktiv == {"intent", "sperren", "freigeben", "fest", "vermerk", "entscheiden",
          "senden", "warten", "nachschlagen", "bestaetigen", "verwerfen"}

\* The comparison: keys still to ask for, the key being settled (if any), and
\* its new state.
AbgStand(p, l, ks, z) == [pc |-> p, liste |-> l, k |-> ks, ziel |-> z]
AbgRuht == AbgStand("aus", {}, {}, "fehlt")

TypeOK ==
    /\ pc \in [Auftrag -> {"neu"} \cup Aktiv \cup Ende]
    /\ inst \in [Auftrag -> Inst \cup {Keiner}]
    /\ vers \in [Auftrag -> {0, 1}]
    /\ gehalten \in [Auftrag -> BOOLEAN]
    /\ stopWeg \subseteq Auftrag
    /\ eintrag \in [Schluessel -> Zustand]
    /\ sichtbar \subseteq Schluessel
    /\ unterwegs \subseteq Schluessel
    /\ broker \subseteq Schluessel
    /\ abgewiesen \subseteq Schluessel
    /\ halt \subseteq {"global", "mandant"}
    /\ abgleichSperre \in BOOLEAN
    /\ schreiber \in Inst \cup {Keiner}
    /\ lebt \subseteq Inst
    /\ abg \in [Inst -> [pc: {"aus", "lesen", "fragen", "merken", "fertig"},
                         liste: SUBSET Schluessel, k: SUBSET Schluessel,
                         ziel: Zustand]]
    /\ \A a \in Auftrag: pc[a] \in Aktiv => inst[a] \in lebt

Init ==
    /\ pc = [a \in Auftrag |-> "neu"]
    /\ inst = [a \in Auftrag |-> Keiner]
    /\ vers = [a \in Auftrag |-> 0]
    /\ gehalten = [a \in Auftrag |-> FALSE]
    /\ stopWeg = {}
    /\ eintrag = [k \in Schluessel |-> "fehlt"]
    /\ sichtbar = {}
    /\ unterwegs = {} /\ broker = {} /\ abgewiesen = {}
    /\ halt = {} /\ abgleichSperre \in BOOLEAN
    /\ schreiber = Keiner
    /\ lebt = {} /\ abg = [i \in Inst |-> AbgRuht]

----------------------------------------------------------------------------
K(a) == <<a, vers[a]>>
Verkauf(a) == Art[a] # "entry"

\* is_halted(user_id): globally, or for the account of the job.
Gehalten(konto) == "global" \in halt \/ (konto = "mandant" /\ "mandant" \in halt)

\* is_protective_exit, NEVER_BLOCKED_KINDS
Freigestellt(a) == Art[a] \in {"stop", "displacement"}

Gehe(a, s) == pc' = [pc EXCEPT ![a] = s]

\* A step of the coroutine of a job that changes its control state only.
Schritt(a, s) == Gehe(a, s) /\ UNCHANGED <<inst, vers, gehalten, stopWeg>>

\* _schreibe_fort: forward or not at all, never for an unknown key.
Fort(k, z) ==
    /\ eintrag' = IF eintrag[k] = "fehlt" \/ Rang[z] <= Rang[eintrag[k]]
                  THEN eintrag ELSE [eintrag EXCEPT ![k] = z]
    /\ UNCHANGED sichtbar

\* _outbox_schritt: an error is reported and never prevents the order.
OutboxSchritt(k, z) == Fort(k, z) \/ (AblageFehler /\ UNCHANGED outboxVars)

----------------------------------------------------------------------------
(* The job: _submit_with_market_failsafe, _sende_durchs_tor, _tor_absenden *)

\* Mutant: jobs run before the engine of their instance has started.
BeginnenVorStart(a, i) ==
    /\ pc[a] = "neu"
    /\ Art[a] = "stop" \/ ~Gehalten(Konto[a])
    /\ Gehe(a, "intent")
    /\ inst' = [inst EXCEPT ![a] = i]
    /\ UNCHANGED <<vers, gehalten, stopWeg, outboxVars, brokerVars, umfeldVars>>

\* The caller's halt check; only a protective exit passes a halt.
Beginnen(a, i) ==
    /\ pc[a] = "neu"
    /\ i \in lebt /\ abg[i].pc = "fertig"
    /\ Art[a] = "stop" \/ ~Gehalten(Konto[a])
    /\ Gehe(a, "intent")
    /\ inst' = [inst EXCEPT ![a] = i]
    /\ UNCHANGED <<vers, gehalten, stopWeg, outboxVars, brokerVars, umfeldVars>>

\* The intent is built with the halt state of this moment.
IntentBauen(a) ==
    /\ pc[a] = "intent"
    /\ Gehe(a, "sperren")
    /\ gehalten' = [gehalten EXCEPT ![a] = Gehalten(Konto[a])]
    /\ UNCHANGED <<inst, vers, stopWeg, outboxVars, brokerVars, umfeldVars>>

\* ReconciliationService.blocks: holds new risk back, never the way out.
AbgleichBlockt(a) == abgleichSperre /\ Art[a] = "entry"

\* _tor_gesperrt: the write permission, then the reconciliation.
TorGesperrt(a) ==
    /\ pc[a] = "sperren"
    /\ \/ /\ schreiber \notin {Keiner, inst[a]}
          /\ Schritt(a, "zurueck")
          /\ UNCHANGED schreiber
       \/ /\ schreiber \in {Keiner, inst[a]}
          /\ schreiber' = inst[a]
          /\ Schritt(a, IF AbgleichBlockt(a) THEN "zurueck"
                        ELSE IF Verkauf(a) THEN "freigeben" ELSE "fest")
    /\ UNCHANGED <<outboxVars, brokerVars, halt, abgleichSperre, lebt, abg>>

\* gib_verkauf_frei: skipped when the gateway would refuse anyway.  Own stops
\* are cancelled; without confirmation, or without readable holdings, the job
\* does not sell.  Without open orders it sells as it is.
Freigeben(a) ==
    /\ pc[a] = "freigeben"
    /\ \/ Schritt(a, "fest")
       \/ /\ ~gehalten[a] \/ Freigestellt(a)
          /\ \/ stopWeg' = stopWeg \cup {a} /\ Gehe(a, "fest")
             \/ stopWeg' = stopWeg \cup {a} /\ Gehe(a, "zurueck")
             \/ UNCHANGED stopWeg /\ Gehe(a, "zurueck")
          /\ UNCHANGED <<inst, vers, gehalten>>
    /\ UNCHANGED <<outboxVars, brokerVars, umfeldVars>>

\* Mutant: the order is sent without writing the intent down first.
FestschreibenSpaeter(a) ==
    /\ pc[a] = "fest"
    /\ Schritt(a, "entscheiden")
    /\ UNCHANGED <<outboxVars, brokerVars, umfeldVars>>

\* festschreiben: an existing entry is left alone; the call may fail before
\* the entry, or between the entry and the directory line.
Festschreiben(a) ==
    /\ pc[a] = "fest"
    /\ \/ /\ eintrag[K(a)] = "fehlt"
          /\ eintrag' = [eintrag EXCEPT ![K(a)] = "offen"]
          /\ \/ sichtbar' = sichtbar \cup {K(a)}
             \/ AblageFehler /\ UNCHANGED sichtbar
       \/ /\ eintrag[K(a)] # "fehlt" \/ AblageFehler
          /\ UNCHANGED outboxVars
    /\ Schritt(a, "vermerk")
    /\ UNCHANGED <<brokerVars, umfeldVars>>

\* als_abgesendet, before the gateway is called.
Vermerken(a) ==
    /\ pc[a] = "vermerk"
    /\ OutboxSchritt(K(a), "abgesendet")
    /\ Schritt(a, "entscheiden")
    /\ UNCHANGED <<brokerVars, umfeldVars>>

\* Mutant: a halt stops protective exits too.
DecideStreng(a) == "global" \notin halt

\* OrderGateway._decide.  The intent carries no user, so is_halted(None) asks
\* for the global halt only.
Decide(a) == Freigestellt(a) \/ "global" \notin halt

Entscheiden(a) ==
    /\ pc[a] = "entscheiden"
    /\ Schritt(a, IF Decide(a) THEN "senden" ELSE "verwerfen")
    /\ UNCHANGED <<outboxVars, brokerVars, umfeldVars>>

Senden(a) ==
    /\ pc[a] = "senden"
    /\ unterwegs' = unterwegs \cup {K(a)}
    /\ Schritt(a, "warten")
    /\ UNCHANGED <<outboxVars, broker, abgewiesen, umfeldVars>>

\* The broker's answer to a request it accepted.
AntwortOrder(a) ==
    /\ pc[a] = "warten"
    /\ K(a) \in broker
    /\ Schritt(a, "bestaetigen")
    /\ UNCHANGED <<outboxVars, brokerVars, umfeldVars>>

\* The HTTP client repeated an accepted request: 422, "must be unique".
AntwortDuplikat(a) ==
    /\ pc[a] = "warten"
    /\ K(a) \in broker
    /\ Schritt(a, "nachschlagen")
    /\ UNCHANGED <<outboxVars, brokerVars, umfeldVars>>

\* An API error: a limit exit goes round once more as a market order under
\* the next key, anything else is the caller's error.
ApiFehler(a) ==
    IF a \in LimitExit /\ vers[a] = 0
    THEN /\ vers' = [vers EXCEPT ![a] = 1] /\ Gehe(a, "intent")
         /\ UNCHANGED <<inst, gehalten, stopWeg>>
    ELSE Schritt(a, "fehler")

\* _bestehende_order: the order the broker holds under the key is adopted;
\* when it cannot be fetched, the API error stands.
Nachschlagen(a) ==
    /\ pc[a] = "nachschlagen"
    /\ \/ K(a) \in broker /\ Schritt(a, "bestaetigen")
       \/ Mehrdeutig /\ ApiFehler(a)
    /\ UNCHANGED <<outboxVars, brokerVars, umfeldVars>>

\* Mutant: a refused duplicate is taken for a refused order.
AntwortAbgelehntOhneDuplikat(a) ==
    /\ pc[a] = "warten"
    /\ K(a) \in abgewiesen \cup broker
    /\ ApiFehler(a)
    /\ UNCHANGED <<outboxVars, brokerVars, umfeldVars>>

\* The broker refused the request.
AntwortAbgelehnt(a) ==
    /\ pc[a] = "warten"
    /\ K(a) \in abgewiesen
    /\ ApiFehler(a)
    /\ UNCHANGED <<outboxVars, brokerVars, umfeldVars>>

\* What becomes of requests in flight whose caller is gone.
Verwaist(ks) == unterwegs' = IF SpaeteAnkunft THEN unterwegs ELSE unterwegs \ ks

\* An API error that says nothing about the fate of the order (5xx).
AntwortUnklar(a) ==
    /\ pc[a] = "warten"
    /\ Mehrdeutig
    /\ Verwaist({K(a)})
    /\ ApiFehler(a)
    /\ UNCHANGED <<outboxVars, broker, abgewiesen, umfeldVars>>

\* A timeout or a broken connection is no API error; the intent stays sent.
AntwortNetzfehler(a) ==
    /\ pc[a] = "warten"
    /\ Verwaist({K(a)})
    /\ Schritt(a, "fehler")
    /\ UNCHANGED <<outboxVars, broker, abgewiesen, umfeldVars>>

Bestaetigen(a) ==
    /\ pc[a] = "bestaetigen"
    /\ OutboxSchritt(K(a), "bestaetigt")
    /\ Schritt(a, "fertig")
    /\ UNCHANGED <<brokerVars, umfeldVars>>

\* Mutant: the refused intent stays in the outbox as sent.
VerwerfenVergessen(a) ==
    /\ pc[a] = "verwerfen"
    /\ Schritt(a, "zurueck")
    /\ UNCHANGED <<outboxVars, brokerVars, umfeldVars>>

Verwerfen(a) ==
    /\ pc[a] = "verwerfen"
    /\ OutboxSchritt(K(a), "verworfen")
    /\ Schritt(a, "zurueck")
    /\ UNCHANGED <<brokerVars, umfeldVars>>

----------------------------------------------------------------------------
(* The broker.                                                             *)

BrokerNimmtAn(k) ==
    /\ k \in unterwegs
    /\ unterwegs' = unterwegs \ {k}
    /\ broker' = broker \cup {k}
    /\ UNCHANGED <<jobVars, outboxVars, abgewiesen, umfeldVars>>

BrokerLehntAb(k) ==
    /\ k \in unterwegs
    /\ unterwegs' = unterwegs \ {k}
    /\ abgewiesen' = abgewiesen \cup {k}
    /\ UNCHANGED <<jobVars, outboxVars, broker, umfeldVars>>

----------------------------------------------------------------------------
(* The environment: halts, reconciliation, permission, processes.          *)

Umschalten(h) ==
    /\ halt' = IF h \in halt THEN halt \ {h} ELSE halt \cup {h}
    /\ UNCHANGED <<jobVars, outboxVars, brokerVars, abgleichSperre, schreiber, lebt, abg>>

\* An instance starts: first the comparison of the outbox.
Start(i) ==
    /\ i \notin lebt
    /\ lebt' = lebt \cup {i}
    /\ abg' = [abg EXCEPT ![i] = AbgStand("lesen", {}, {}, "fehlt")]
    /\ UNCHANGED <<jobVars, outboxVars, brokerVars, halt, abgleichSperre, schreiber>>

Absturz(i) ==
    /\ i \in lebt
    /\ lebt' = lebt \ {i}
    /\ pc' = [a \in Auftrag |-> IF pc[a] \in Aktiv /\ inst[a] = i THEN "tot" ELSE pc[a]]
    /\ Verwaist({K(a) : a \in {b \in Auftrag: inst[b] = i}})
    /\ abg' = [abg EXCEPT ![i] = AbgRuht]
    /\ UNCHANGED <<inst, vers, gehalten, stopWeg, outboxVars, broker, abgewiesen,
                   halt, abgleichSperre, schreiber>>

\* The reconciliation finds a break, or a human releases it.
SperreWechselt ==
    /\ abgleichSperre' = ~abgleichSperre
    /\ UNCHANGED <<jobVars, outboxVars, brokerVars, halt, schreiber, lebt, abg>>

\* The time-limited permission lapses (module EngineLease).
LeaseVerfaellt ==
    /\ schreiber # Keiner
    /\ schreiber' = Keiner
    /\ UNCHANGED <<jobVars, outboxVars, brokerVars, halt, abgleichSperre, lebt, abg>>

----------------------------------------------------------------------------
(* abgleichen after a start, for the global account only.                  *)

Offen(k) == eintrag[k] \in {"offen", "abgesendet"}

\* Mutant: only sent intents are compared.
AbgleichLesenNurGesendete(i) ==
    /\ abg[i].pc = "lesen"
    /\ abg' = [abg EXCEPT ![i] = AbgStand("fragen",
                 {k \in sichtbar: eintrag[k] = "abgesendet" /\ Konto[k[1]] = "global"},
                 {}, "fehlt")]
    /\ UNCHANGED <<jobVars, outboxVars, brokerVars, halt, abgleichSperre, schreiber, lebt>>

\* unbestaetigte: what the directory lists and is not settled.  An error of
\* the store ends the comparison; trading starts without it.
AbgleichLesen(i) ==
    /\ abg[i].pc = "lesen"
    /\ \/ abg' = [abg EXCEPT ![i] = AbgStand("fragen",
                    {k \in sichtbar: Offen(k) /\ Konto[k[1]] = "global"}, {}, "fehlt")]
       \/ AblageFehler /\ abg' = [abg EXCEPT ![i] = AbgStand("fertig", {}, {}, "fehlt")]
    /\ UNCHANGED <<jobVars, outboxVars, brokerVars, halt, abgleichSperre, schreiber, lebt>>

\* Mutant: every error of the lookup counts as "unknown".
AbgleichFragenGrob(i, k) ==
    /\ abg[i].pc = "fragen"
    /\ k \in abg[i].liste
    /\ \E z \in Erledigt: abg' = [abg EXCEPT ![i] =
            AbgStand("merken", abg[i].liste \ {k}, {k}, z)]
    /\ UNCHANGED <<jobVars, outboxVars, brokerVars, halt, abgleichSperre, schreiber, lebt>>

\* Ask the broker for a key of the list: known, unknown (404), or any other
\* error, which leaves the intent alone.
AbgleichFragen(i, k) ==
    /\ abg[i].pc = "fragen"
    /\ k \in abg[i].liste
    /\ \/ abg' = [abg EXCEPT ![i] = AbgStand("merken", abg[i].liste \ {k}, {k},
                       IF k \in broker THEN "bestaetigt" ELSE "verworfen")]
       \/ Mehrdeutig /\ abg' = [abg EXCEPT ![i] =
                       AbgStand("fragen", abg[i].liste \ {k}, {}, "fehlt")]
    /\ UNCHANGED <<jobVars, outboxVars, brokerVars, halt, abgleichSperre, schreiber, lebt>>

\* Write the result; without the lock the intent stays as it is, an error of
\* the store ends the comparison.
AbgleichMerken(i) ==
    /\ abg[i].pc = "merken"
    /\ \/ /\ \/ \E k \in abg[i].k: Fort(k, abg[i].ziel)
             \/ AblageFehler /\ UNCHANGED outboxVars
          /\ abg' = [abg EXCEPT ![i] = AbgStand("fragen", abg[i].liste, {}, "fehlt")]
       \/ /\ AblageFehler
          /\ abg' = [abg EXCEPT ![i] = AbgStand("fertig", {}, {}, "fehlt")]
          /\ UNCHANGED outboxVars
    /\ UNCHANGED <<jobVars, brokerVars, halt, abgleichSperre, schreiber, lebt>>

\* All keys asked: the first trading cycle may begin.
AbgleichFertig(i) ==
    /\ abg[i].pc = "fragen"
    /\ abg[i].liste = {}
    /\ abg' = [abg EXCEPT ![i] = AbgStand("fertig", {}, {}, "fehlt")]
    /\ UNCHANGED <<jobVars, outboxVars, brokerVars, halt, abgleichSperre, schreiber, lebt>>

----------------------------------------------------------------------------
JobSchritt(a) ==
    \/ IntentBauen(a) \/ TorGesperrt(a) \/ Freigeben(a) \/ Festschreiben(a)
    \/ Vermerken(a) \/ Entscheiden(a) \/ Senden(a) \/ AntwortOrder(a)
    \/ AntwortDuplikat(a) \/ Nachschlagen(a) \/ AntwortAbgelehnt(a)
    \/ AntwortUnklar(a) \/ AntwortNetzfehler(a) \/ Bestaetigen(a) \/ Verwerfen(a)

AbgleichSchritt(i) ==
    \/ AbgleichLesen(i) \/ AbgleichMerken(i) \/ AbgleichFertig(i)
    \/ \E k \in Schluessel: AbgleichFragen(i, k)

Next ==
    \/ \E a \in Auftrag, i \in Inst: Beginnen(a, i)
    \/ \E a \in Auftrag: JobSchritt(a)
    \/ \E k \in Schluessel: BrokerNimmtAn(k) \/ BrokerLehntAb(k)
    \/ \E h \in {"global", "mandant"}: Umschalten(h)
    \/ SperreWechselt \/ LeaseVerfaellt
    \/ \E i \in Inst: Start(i) \/ Absturz(i) \/ AbgleichSchritt(i)

\* A coroutine that is not waiting for anybody is scheduled, and every call
\* of the client to the broker returns or times out.
Spec ==
    /\ Init /\ [][Next]_vars
    /\ \A a \in Auftrag: WF_vars(JobSchritt(a))
    /\ \A i \in Inst: WF_vars(AbgleichSchritt(i))

----------------------------------------------------------------------------
(* Properties.                                                             *)

\* Module text of core/outbox.py: "Der Intent liegt dauerhaft im StatePort,
\* bevor der Broker ihn sieht".  As long as the store works, every request
\* in flight and every order at the broker is one a restart can find,
\* wherever a process died.
SichtbarVorDemBroker == unterwegs \cup broker \subseteq sichtbar

\* A settled intent tells the truth: confirmed means the broker has the order,
\* rejected (docstring of als_verworfen: "wird sicher nicht zur Order") means
\* it has none and no request is or will be on its way.
AbschlussStimmt ==
    \A k \in Schluessel:
        /\ eintrag[k] = "bestaetigt" => k \in broker
        /\ eintrag[k] = "verworfen" =>
              /\ k \notin broker \cup unterwegs
              /\ pc[k[1]] \in {"entscheiden", "senden"} => K(k[1]) # k

\* Comment in _sende_durchs_tor: an order held back by a gate leaves no open
\* intent behind that a restart would take to be on its way, and no request.
ZurueckgehaltenSpurlos ==
    \A a \in Auftrag:
        pc[a] = "zurueck" => ~Offen(K(a)) /\ K(a) \notin unterwegs \cup broker

\* Docstring of _submit_with_market_failsafe: the market order replaces a
\* limit exit that the broker rejected.  So one leg never has two orders.
EineOrderJeBein ==
    \A a \in Auftrag: Cardinality({v \in {0, 1}: <<a, v>> \in unterwegs \cup broker}) <= 1

\* Once the comparison of a restarted instance is through, no intent of the
\* global account left behind by a dead process is still unsettled, as long
\* as store and broker answered (abgleichen).
AbgleichVollstaendig ==
    \A k \in sichtbar:
        (/\ pc[k[1]] = "tot" /\ Konto[k[1]] = "global"
         /\ \E i \in Inst: abg[i].pc = "fertig")
        => ~Offen(k)

\* A protective exit that passed the gates is handed to the broker whatever
\* is halted meanwhile, unless its process dies (OrderGateway._decide).
SchutzExitGehtHinaus ==
    \A a \in Auftrag:
        (Art[a] = "stop" /\ pc[a] = "fest") ~> (pc[a] \in {"warten", "tot"})
=============================================================================
