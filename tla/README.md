# Order safety of the autonomous trading engine: TLA+ models, checks and proofs

The repository is a trading engine that runs unattended. It evaluates symbols,
decides, and sends orders to a broker. This project models the part in which a
mistake costs money and a test hardly reaches it: who may send, what is written
down before an order goes out, what happens when a process dies or an answer is
lost, whether a halt really halts, what a human must approve, how an order is followed
to its end, and whether the books agree with the broker. Scores, sizes and prices are
not modelled.

Names of definitions follow the source, which is mostly German (*Berechtigung*
permission, *Sperre* lock, *festschreiben* write down, *Absendung* sending,
*Tor* gate, *Halt* halt, *Abgleich* comparison with the broker, *Freigabe* approval,
*Abgang* dispatch, *Deckel* cap, *Tausch* displacement, *Verfall* expiry).

`PROJECT.json` holds the machine-readable side: components, runs, the source lines
of every definition (`map`), one mutant per property, findings, hazards, theorems.
Run a check from this directory:

    tlc -config lease_contention.cfg MCEngineLease
    tlapm EngineLeaseProofs.tla

## 1. Inventory

### The parts, their state and how they interact

| Part | Source | State it keeps | Operations |
|---|---|---|---|
| Write permission (lease) | `core/lease.py`, `core/engine/lease.py` | one lock row per account (token, expiry) and a note naming the holder, both in the store; per process a registry of held lock objects | check before every order, acquire, break the lock of a dead holder, renew per heartbeat, release at stop |
| Outbox | `core/outbox.py` | one entry per idempotency key and a directory queue, in the store; locks per key and for clearing | write an intent down, three forward moves, clear, compare with the broker |
| Send path (Tor) | `core/engine/absendung_tor.py`, `core/idempotency.py` | only locals of the coroutine: intent, key, attempt | gates, freeing shares, outbox steps, gateway, duplicate adoption, market failsafe |
| Order gateway | `core/gateway/order_gateway.py` | none that a later decision reads | decide (halt, protective exits), call the broker |
| Kill switch | `core/kill_switch.py`, `core/state/synchron.py` | flags per process (global, per user); in the store a halt key and a trip record per scope | trip, reset, is_halted, mass-cancel thread, switch to paper |
| State store | `core/state/*` | rows and expiring locks, SQLite or Redis | set-if-absent, conditional renew and release, lists |
| Trading loop | `core/engine/trading_loop.py`, `zyklus*.py`, `schleifen_start.py` | running or not, progress stamp | start (comparison, then permission), cycle, stop at a halt |
| Reconciliation | `core/reconciliation.py`, `core/engine/routes/kapitalpfad.py` | in memory: known orders, known positions, fills seen, block on entries; in the store, if there is one, an expiring key per filed sell reason | first adoption, periodic run, fill stream, filing of reasons, release by a human |
| Broker stops | `core/broker_stops.py`, `core/engine/broker_stop_pflege.py` | stop orders at the broker | lay, renew, free shares for a sale |
| Human approval (HITL) | `core/hitl_queue.py`, `core/hitl_gate.py`, `core/hitl_day_notional.py`, `core/engine/hitl_freigabe.py` | expiring keys: pending, approved, index per symbol, marker; counter of the day; in Redis, or on the desktop in the memory of the process | judge, push, approve, reject, claim, execute, acknowledge, expire |
| Dispatch per client (Abgang) | `core/engine/absendung_abgang.py`, `absendung_vorlauf.py`, `absendung_nachlauf.py` | locals of the coroutine | check, reserve, send, poll, cancel, market fallback of a hanging exit, give the slot back |
| Compliance cap | `core/compliance.py` | trades of the day, in memory and in the store | check, reserve, refund, read again at a start |
| Displacement | `core/engine/verdraengung.py` | order id and quantity of the displaced sale | sell later or at once, recover after a failed purchase |
| Risk account, four-eyes, watchdogs, re-entry lockout, live guard | `core/risk_*.py`, `core/governance/`, `core/*_watchdog.py`, `core/engine/reentry_lockout.py`, `core/live_worm.py` | counters, limits, pending changes | limits per order, trips, two-person approvals |
| Evaluation, ML, reports, UI | `core/round_table/`, `core/ml/`, `src/` | numeric | out of scope |

The pieces meet in one place, the way of an order:

    trading loop --decide--> caller's halt check --> permission --> reconciliation lock
       --> free shares held by own stops --> outbox: written down, then "sent"
       --> gateway: halt again --> broker --> outbox: confirmed | rejected

The kill switch is asked at two points of this way, by the loop once per cycle, and is
tripped from routes, watchdogs and the risk account. The store is shared by all
processes; the registry of permissions and the halt flags are per process, and so
are lost with it and may disagree with the store.

Above this way lies the dispatch: a signal becomes one order per client, all at the same
time. Each passes the approval gate, the compliance cap and the way above, is polled
until a time limit, and is cancelled, replaced or undone if it hangs. What was held for
a human comes back through the routes and the drain of the next cycle. The periodic
reconciliation watches the result from outside and may block new entries.

### What is hard

* **Interleavings.** Coroutines of one process share the lease registry; every store
  call is an `await`. The kill switch is used from threads without a lock. Two engine
  processes may run on one store.
* **Crash between two store calls.** Entry and directory line of the outbox, trip
  record and halt key, lock row and holder note are written one after the other.
* **Expiry.** Every lock has a time to live; nothing fences a section that outlasts it.
* **Lost or ambiguous answers.** Broker calls time out, are repeated by the HTTP
  client, or fail with an error that says nothing about the order.
* **Stale values.** The holder note, the halt state in an intent, the flag in memory,
  the filled quantity as last polled, the record a release was decided on.
* **Check, then act.** The day's total and the cap are compared in one place and
  raised in another, by several clients at once.

### What makes each part correct

* Lease: nobody takes the permission from a living holder; a stuck engine gives it up;
  a lock of a dead process does not block the account for ever.
* Outbox: no line points to nothing; a restart sees intents appear, move forward and
  disappear only when settled.
* Send path: no order at the broker is hidden from a restart; a settled intent tells
  the truth; one leg, one order; a protective exit always gets out.
* Kill switch: a trip holds in its process until a reset, survives a crash, ends the
  trading loop.
* HITL: an order is submitted no more often than it was approved, is not lost in a crash
  the store survives, and is not executed against a rejection; what is executed without a
  human stays within the budget of the day.
* Dispatch: no more trades than the cap, no slot lost on a purchase without a fill; a
  fallback sells what is left and no more; a displacement happens whole or not at all;
  every dispatch ends.
* Reconciliation: every complete fill is found, the reason of a sale is filed and
  not filed twice while its key lives, a deviation blocks entries until a human who saw it
  releases them.

The 40 hazards in `PROJECT.json` name the lines where these can go wrong.

## 2. Modules

### EngineLease (models `core/lease.py`)

`sperre` is the lock row, `vermerk` the note, `registratur` the process-wide registry,
`pc`/`mein`/`fremd` the coroutines that check before an order, `herz` the renewal task,
`stopp` the stop routine. `vergeben` and `lebend` exist for the model: which tokens
were created, and by which process. The model has one account, because accounts are
independent keys.

| Code | Actions |
|---|---|
| `StateLock.acquire/renew/release/brechen/held` | `Acquire`, `Renew`, `Release`, `Brechen`, `Held` (operators of the actions) |
| `sichere_berechtigung`, `darf_schreiben` | `Nachschlagen`, `HaeltNoch`, `NeueSperre`, `Erwerben`, `Eintragen`, `AblageFehler` |
| `_uebernehmen_wenn_tot` | `HalterPruefen`, `HalterBrechen`, `ErwerbenNachBruch` |
| `_halter_vermerken` | `Vermerken`, and inside `HerzFertig` |
| `_lease_erneuerung`, `erneuere_auf_diesem_ring` | `HerzSchlaegt`, `HerzErneuert`, `HerzFertig` |
| `beende_auf_diesem_ring` | `Beenden`, `Freigeben` |
| the world | `Start`, `Absturz`, `Tick`, `VermerkLaeuftAb`, `ZyklusMeldet`, `RingEndet` |

A step ends at each store call, the points at which the event loop may switch. A
failed call may still have taken effect (`AblageFehler`). Pids are reused after a
process died.

### Outbox, OutboxIdeal (model `core/outbox.py`)

`Outbox` runs `festschreiben`, `_schreibe_fort` and `aufraeumen` call by call, inside
the section `_Abschnitt` with its lock. `eintrag` and `verzeichnis` are the two places
of the store. The operation that does not get its lock returns False and changes nothing, so it
is no step. `OutboxIdeal` is what a restart may rely on: a map from key to state
with three operations. The refinement maps a key to its entry if the directory lists it,
otherwise to "absent" (`Auffindbar`): `unbestaetigte` and `offener_intent` read the
directory first, so an entry without a line is not there for them.

### OrderTor (models the send path, the gateway, and the comparison after a start)

It composes the others at a coarser grain: an operation of the outbox is one step
(`Festschreiben`, `Vermerken`, `Bestaetigen`, `Verwerfen`), which the common refinement of
`OutboxIdeal` justifies; the permission is `schreiber`, which may lapse at any time; the halt is a
set of halted accounts that changes at any time; `SperreWechselt` is the reconciliation.
New are the job (`pc`, `inst`, `vers`, `gehalten`, `stopWeg`), requests in flight, the
broker, and the comparison `abg` of an instance that starts.

| Code | Actions |
|---|---|
| caller's halt check; building the intent | `Beginnen`; `IntentBauen` |
| `_tor_gesperrt` | `TorGesperrt` |
| `gib_verkauf_frei` | `Freigeben` |
| outbox steps in `_tor_absenden`, `_outbox_schritt` | `Festschreiben`, `Vermerken`, `Bestaetigen`, `Verwerfen` |
| `OrderGateway._decide`, `submit` | `Entscheiden`, `Senden` |
| broker answers, `_bestehende_order`, the failsafe | `AntwortOrder`, `AntwortDuplikat`, `Nachschlagen`, `AntwortAbgelehnt`, `AntwortUnklar`, `AntwortNetzfehler` |
| `abgleichen` | `AbgleichLesen`, `AbgleichFragen`, `AbgleichMerken`, `AbgleichFertig` |
| external broker | `BrokerNimmtAn`, `BrokerLehntAb` |

One order takes another way and is outside this module: the deferred sale of a displaced
position (`verdraengung.py`, `submit_deferred_displacement_sell`) calls the gateway
directly, without a client order id and without an entry in the outbox. Nothing that is
shown here about restarts and duplicates holds for it.

### KillSwitch (models `core/kill_switch.py`)

`lokal` are the flags of each process, `ablage` and `saetze` the halt keys and trip
records of the store, `laeuft` the trading loops, `stornos` the mass-cancel threads and
the account that held the orders when they were started. Every access to the
store and every assignment to a flag that follows one is a step.
The last variables (`verfehlt`, `sauber`, `getroffen`, `gemeldet`) are histories the
properties and observations speak about; no action reads them for its control. A trip
and a reset of overlapping scopes that run at the same time promise nothing to each
other, so a history notes only trips that met no counterpart (`sauber`).

### Hitl (models the approval gate, queue, budget, routes and drain)

`wartet`, `index`, `freigegeben`, `unterwegs` and `tagSumme` are the keys of the store,
`phase` and its companions the trading loop, `pc`/`auftrag`/`gelesen` the task of each
account and of the drain, `bpc`/`bid` the calls of the operators. Every access to the
store is a step. The remaining variables are histories. An order's value is a small
number; 0 stands for an order that cannot be valued.

`speicher` is what `RedisClient.get_redis` gives in this installation. Redis outlives the
process. On the desktop (`"lokal"`) the keys are in a `LocalStateClient`, so that `Absturz`
empties them: approvals and markers that go with it are noted in `verloren`, and `budget`
grows by the limit of one day, because the counter begins again. Without a store
(`"keiner"`) nothing is queued, claimed or counted.

| Code | Actions |
|---|---|
| `_decide`, `should_hold`, `HitlDayNotional.add` | `TorFrei`, `TorIndex`, `TorBlob`, `TorBewerten`, `TorBuchen`, `TorFehler` |
| `HitlQueue.push` | `PushOhneAblage`, `PushLesen`, `PushLoeschen`, `PushSetzen`, `PushIndex` |
| routes `hitl_approve`, `hitl_reject` | `Approve`, `ApproveSetzen`, `ApproveLoeschen`, `Reject`, `RejectLoeschen`, `RufFehler` |
| `_zyklus_vorbereiten` (day change), `claim_approved` | `ZyklusBeginn`, `ClaimKeys`, `ClaimLesen`, `ClaimMarke`, `ClaimStreichen`, `ClaimFertig`, `ClaimFehler` |
| `execute_approved_order`, `ack_inflight` | `Ausfuehren`, `SendenFreigabe`, `Ack`, `AusfuehrenFertig` |
| signals, the autonomous order | `Signal`, `SendenAutonom`, `ZyklusEnde` |
| the world | `Mitternacht`, `VerfallEintrag`, `VerfallFreigabe`, `Absturz` |

`gesendet` counts what is handed to the send path, per approval id; nothing limits it in
the model but the queue, the claim and the drain. That the broker would refuse a second
order with the same `client_order_id` (derived from the approval id) is external and not
assumed.

### Abgang (models the dispatch per client, the compliance cap and the displacement)

`pc`/`auf`/`lok` are the dispatch of each client, `order` its legs at the broker (the
order itself, the market order in its place, the sale of the displaced position, the
purchase that restores it), `zaehler` and `dauerhaft` the counter of trades in memory
and in the store. `anlass` and `merk` note which call failed or came late, so that a
property can name exactly the cases the code leaves open. `gebucht` marks a dispatch that
holds a slot, `verfallen` counts the sales of earlier signals that kept one without a fill.

`Danach` is where a failed or cancelled order goes next. Before the code gets to the
recovery and the refund it reads `symbol_to_close` through `_gebunden`
(`absendung_abgang.py:338`, `523`), which raises `UnboundLocalError` unless a purchase has
bound it (`order_executor.py:352`). So a purchase goes on to `RueckStorno` or `Erstatten`,
and a sale ends.

| Code | Actions |
|---|---|
| displacement before the checks | `SofortVerkaufen` |
| compliance, reservation, halt | `Pruefen` (with `Erlaubt`, `Befreit`, `Pflichtig`, `Verbuche`) |
| `_schritt_mandant_senden`, failsafe, error path | `Senden`, `SendenApiFehler`, `SendenFehler` |
| `submit_deferred_displacement_sell` | `Nachverkauf` |
| `_schritt_mandant_fuellung` | `Abfragen` |
| `_schritt_mandant_storno` | `Storno`, `Ausstieg`, `Erstatten` |
| `_recover_displacement` | `RueckStorno`, `RueckLesen`, `RueckKauf` |
| `reset_daily_limit` | `Zuruecksetzen` |
| the world | `Signale`, `BrokerFuellt`, `BrokerEndet`, `Absturz` |

The send path is one step here; `OrderTor` has it in detail.

### Abgleich (models `core/reconciliation.py` and the release route)

`stand` and `gefuellt` are the broker; `bekannt`, `buch`, `uebernommen`, `abgeglichen`,
`gesperrt`, `gesehen`, `gruende` the service in memory; `ablage` and `schluessel` the store
and its keys; `lauf`/`bild` the run in progress; `blick` the calls of the release route. A
run is `HoleOrders`, `HoleAbgeschlossene`, `HolePositionen`, then `Uebernehmen` (first run)
or `Vergleichen`; the broker moves between the fetches. `Liefern` is an event of the
stream, any fill at any time and any number of times, which covers loss, delay,
repetition and reordering. `Ruf`, `Aufheben` and `AufhebenFehler` are the route: read
the record, write the log, release if the record is still the same.

`GruendeAblegen` files the reasons of sales the engine did not decide: key, memory, log, in
this order, and each can fail, which only leaves a warning (`verpasst`).
`SchluesselVerfaellt` is the deadline of seven days. Without a synchronous store (neither
`REDIS_URL` nor `AAA_USER_DATA_DIR`) there is no key. `imDienst` and `seitFrist` count what
was filed by the present service and since the key last expired. `Absturz` is the end of
the service, by the death of the process or because the trading loop was started again,
which builds a new `ReconciliationService` in the same process (`schleifen_start.py`): the
books, the block and the memory of filed reasons are gone in both cases.

### MC modules

`MCEngineLease`, `MCOutbox`, `MCOrderTor`, `MCKillSwitch`, `MCHitl`, `MCAbgang`,
`MCAbgleich` give the function-valued
constants, and in `MCOutbox` the symmetry set. Symmetry is used only where
all checked properties are safety properties.

### Proof modules

`EngineLeaseProofs`, `OutboxProofs`, `OrderTorProofs`, `KillSwitchProofs`, `HitlProofs`,
`AbgangProofs`, `AbgleichProofs` extend the component they are about; see section 4.

## 3. Runs

### Passing

| Run | Instance | Checks |
|---|---|---|
| `lease_contention` | two processes on one machine, one coroutine each, two pids, three tokens, lock of two ticks, store failures; 408,000 states | nobody breaks a living holder's lock (`LebenderHalterBleibt`), a break in preparation aims at a dead process (`BruchTrifftNurTote`), the note never misnames a living holder (`VermerkNenntDenHalter`), a stuck engine gives the permission up again and again (`FestgefahreneEngineGibtAb`), an orphaned lock expires (`VerwaisteSperreLaeuftAb`) |
| `outbox_faults` | three coroutines, two keys, crashes and failures anywhere | the directory is faithful (`VerzeichnisTreu`), states run forward (`NurVorwaerts`), `Outbox` implements `OutboxIdeal` (`HaeltIdeal`) |
| `tor_restart` | a purchase of the global account beside a limit exit of a client with its market fallback; crashes, restarts, halts, lapsing permission; 271,000 states | no order is hidden from a restart (`SichtbarVorDemBroker`), the comparison leaves nothing of a dead process unsettled (`AbgleichVollstaendig`), a held-back order leaves nothing in the air (`ZurueckgehaltenSpurlos`), one leg has one order (`EineOrderJeBein`) |
| `tor_outage` | a protective limit exit; any step of the outbox fails, the broker answers ambiguously; 341,000 states | settled intents tell the truth (`AbschlussStimmt`), and past the gates the exit is handed to the broker (`SchutzExitGehtHinaus`) |
| `kill_halt` | two processes, a caller in each, a trading loop, store failures; 96,000 states | a returned trip holds in its process until its own reset (`HaltGilt`) and ends the loop (`HaltStopptSchleife`) |
| `kill_crash` | one process that dies at any step, one caller, two users, a reliable store; 29,000 states | a returned trip is durable (`TripIstDauerhaft`), a halt in the store has its record (`HaltNenntGrund`) |
| `hitl_approval` | one account, one symbol, two operators, three ids, two days, four events from outside, each kind of store; 329,000 states | an order is submitted no more often than it was approved (`EineFreigabeEineOrder`), an approval is never lost between claim and execution, except with the memory of the process (`KeineFreigabeVerloren`), nothing is submitted that was not approved or, undisturbed, was rejected (`MenschEntscheidet`), the day's budget holds once for each life of the store (`TagesBudget`), an approval is claimed (`FreigabeWirdGeholt`) |
| `abgang_budget` | two clients, three signals, a cap of one, default settings, two failures; 563,000 states | no more fills than the cap (`TagesDeckel`), a purchase without a fill costs nothing and a sale without one exactly its slot (`PlatzKommtZurueck`) |
| `abgang_mengen` | one client with a full book, two shares, all four settings, two polls, three failures; 243,000 states | exit and fallback sell no more than is held (`KeinUeberverkauf`) and no less (`AusstiegGedeckt`), the recovery buys back exactly what was sold (`TauschRueckgaengig`), the dispatch ends (`AbsendungEndet`) |
| `abgleich` | a purchase of one share and a sale of two the engine did not decide, stream on, block on, with and without a store, one failure or restart; 430,000 states | the reason of a sale is filed, once per service and once per life of its key (`GrundAbgelegt`), only a human who logged the present record releases (`AufhebungGesehen`), a complete fill is found in the end (`VollerFillErfasst`), a wrong position blocks in the end (`AbweichungSperrt`) |

### Violations: where the code does not do what it says

| Run | What happens |
|---|---|
| `hitl_requeue` | An approved buy above the limits is handed to `_execute_tenant_order`, whose step `_schritt_mandant_portfolio` (`absendung_vorlauf.py:397`) asks the gate again without looking at the source of the order. It is queued anew and never executed, although `trading_loop.py:339` says that an approved order bypasses the gate. With the default limits of 0 this meets every approved buy. |
| `abgang_tausch` | With the default buy-first the displaced position is sold as soon as the broker has accepted the purchase (`absendung_abgang.py:377`), not when it is filled. The purchase hangs and is cancelled: position gone, nothing bought, although `absendung_vorlauf.py:491` says a failed purchase changes nothing. |

### Observed while modelling, not kept as runs

* **Two senders.** `darf_schreiben` answers yes, the process pauses for longer than the
  time to live, another acquires; both send (`lease.py:365`). There is no fencing token.
* **Self-lockout.** Two coroutines of one process drop whichever registry entry is there
  (`lease.py:371`, `413`). The process can lose track of a lock it holds and is refused
  by it until it expires; `VerwaisteSperreLaeuftAb` bounds this by the time to live.
* **A section that outlasts its lock** (`outbox.py:177`, ten seconds, not renewed)
  writes over its successor and moves an intent backwards. With `FristLaeuft = TRUE`
  TLC finds this for `NurVorwaerts`.
* **An entry without a line.** After a crash between the two writes, the retry finds the
  entry and returns True (`outbox.py:130`) without adding the line. The refinement
  stays valid, as a restart never sees this intent; `SichtbarVorDemBroker` is
  therefore stated for a working store only.
* **Two trips at once.** The second returns on the first one's flag before anything is
  stored (`kill_switch.py:220`). A crash now loses both. `TripIstDauerhaft` is
  checked with one caller at a time.
* **Reset against question.** `is_halted` sets the flag from a value read before a reset
  (`kill_switch.py:183`); the process is halted again, and the next trip returns on that
  flag and writes nothing, so that this halt does not survive a restart.
* **Mass-cancel on the wrong account.** The thread resolves the account when it runs
  (`kill_switch.py:264`); if the switch to paper was faster, it cancels on the paper
  account (history `verfehlt`). A global reset clears the flags of all users and no key of
  a user (`kill_switch.py:318`).
* **Second instance.** A starting instance compares the outbox before it asks for the
  permission (`trading_loop.py:458`). It meets an intent the running instance has written
  down and not yet sent, the broker answers 404, the intent is marked rejected, and then
  the order goes out: `AbschlussStimmt` fails with two instances.
* **Two orders for one leg.** The failsafe answers every API error, also one after which
  the limit order exists (5xx, or a duplicate that could not be fetched), with a market
  order (`absendung_tor.py:251`): `EineOrderJeBein` fails with ambiguous answers.
* **Halt of one client.** The gateway asks for the halt of `intent.user_id`, a field the
  intent does not have (`order_gateway.py:160`); the halt of one client that begins after
  the caller's check does not stop the order.
* **Stop lost.** Whether own stops are cancelled hangs on the halt state in the intent
  (`broker_stop_pflege.py:470`); the gateway looks again afterwards. A halt in between:
  stop gone, sale refused.
* **Late arrival.** A request that outlives its process and arrives after the
  comparison's 404 contradicts the rejected intent (`outbox.py:342`).

* **Approvals.** Clients of one signal run at once (`signal_uebergabe.py:721`): two of them
  read the same total of the day and both stay within it (`hitl_gate.py:706`), so that
  `TagesBudget` fails with two accounts. A rejection between the steps of an approval is
  confirmed and the order executed. Two entries of one symbol can be pending: an approval
  deletes the index whatever id it names (`hitl_queue.py:173`), and two pushes interleave
  (`hitl_queue.py:83`). An approval given between drain and evaluation lets a second
  entry be queued. Sells of clients never pass the gate. The record that must precede the
  capital (Art. 14) is written best effort.
* **Approvals on the desktop.** Queue and counter are in memory. A restart loses what was
  approved and not yet executed, and the day gets its limit once more, although
  `hitl_day_notional.py:3` says the total must survive a restart. Without a store
  (`hitl_day_notional.py:43`, `56`) nothing is counted and the limit of the day does not exist.
* **Two approvals of one entry.** The second call read the entry before the first deleted
  it. If the drain claims in between, the order is submitted twice; only the broker's
  check of the `client_order_id` is left.
* **Slots of sales.** A sale bound by the cap that is refused or cancelled unfilled never
  gets its slot back: `_gebunden` raises before `refund_trade` (`absendung_abgang.py:361`,
  `552`). Comments at both places (351, 537) promise the refund for every order (#2118).
  With a cap of one, a signal to sell, the order accepted, polled open and cancelled are
  enough: nothing traded, the day is over. `PlatzKommtZurueck` states what the code does. An
  approved sale that ends this way is audited as `iron_dome_rejected`.
* **Slots of purchases.** A refund on a poll that is out of date lets the cap be exceeded by
  one; a comment says it happens only on confirmed zero fills. A halt
  after the reservation burns a slot. An unreadable counter followed by a refund can make
  the stored counter negative.
* **Fallback.** The market order is sized by the remainder as last polled
  (`absendung_abgang.py:470`); a fill after that oversells. After a 5xx the limit order may
  live beside it. A second fallback has the same key and is refused, so that a position
  can stay open.
* **Displacement.** If the sold quantity cannot be read, the recovery buys back the whole
  position (`verdraengung.py:257`), sold or not. A purchase filled after the last poll is
  kept beside the position bought back. Sell first: a refusal by compliance, a halt or an
  error that is not one of the API ends the dispatch without recovery.
* **Books.** `register_order`, `deregister_order` and `set_known_positions` have no caller,
  so the books never change after the first run: with `RECONCILIATION_BLOCK_ON_BREAK` (off
  by default) the engine's own first trade blocks entries. The first run marks the book
  as adopted even if its fetches failed (`reconciliation.py:646`), and a failed fetch of
  positions reports every known position as missing. An order filled in part and then
  cancelled is never booked by the periodic run. A block is lost on a restart of
  the process, and also when only the trading loop is started again.
* **Reasons of sales.** The key is written before the record, so that a failure between
  them loses the reason for seven days. An error while the key is read does so for this
  fill, although `_erster_grund` says "lieber doppelt als fehlend" (rather twice than missing)
  for a store that is absent. The first run of a new service looks at the last 50 closed
  orders without a limit of age: where fewer than 50 are closed in a week, a reason is filed
  again after its key expired. A comment (`reconciliation.py:74`) rules this out for normal
  trading.

### Bounds and why they are enough

* Lease: a takeover needs a holder and a contender, and a third token lets a process
  lose the permission and come back. Two pids on one machine force reuse. Two ticks
  tell "fresh" from "about to expire". The three tokens bound the run: when they are
  used up no new lock object is made, which is why deadlock is not checked here. The
  proofs cover any number of machines, coroutines and tokens.
* Outbox: three actors allow writer, mover and cleaner at once; two keys make the
  head of the directory and the judged key differ. No other bound.
* OrderTor: one instance in the passing runs, because with two the
  observation "second instance" hides everything else. A key has two attempts, as in
  `next_attempt` (the market fallback is not repeated). `tor_restart` assumes a
  working store and answers that are clear, `tor_outage` neither.
* `SpaeteAnkunft = FALSE`: a request is dead when its caller is. Nothing in the code
  guarantees this; see "late arrival".
* KillSwitch: the races are between one caller and the loop, and between a process
  and another one that resets; `kill_halt` has both. `kill_crash` has two users, so
  that scopes can be mixed up.
* Hitl: all three kinds of store are initial states. Two operators are enough for approve
  against approve and approve against reject;
  three ids allow an entry, its successor and one queued again; two days one midnight.
  `MaxEreignis` bounds what comes from outside (signals, calls, faults, expiries), not
  what the loop does. Midnight falls between cycles. Limits of 1 and values 0 to 2 give
  orders below, at and above a limit and orders without a value.
* Abgang: a cap of one and two clients make the last slot contested; a third signal can
  use a slot given back. One client with two shares gives partial fills; two polls a stale
  one. The signals of one client are about different symbols and follow each other, so the
  lock per order is not modelled. `COMPLIANCE_ALLOW_RISK_REDUCING_EXITS` is on, as by
  default. Deadlock is not checked because the signals are bounded.
* Abgleich: two orders, so that one can be wrong while the other is right; a sale of two
  shares is filled in parts. `Grenze` equals the number of orders: more closed orders than
  the limit between two runs are never found, as a comment in the code says. The one
  disturbance is a failed call or a new service. A first run finds orders in every state,
  so what a restart adds is keys and records of an earlier service. Failures before
  and after a restart together are left to the theorem about `GrundAbgelegt`, which has no
  bound.

### Fairness and why the code justifies it

* `EngineLease`: `WF(Tick)` only. Time passes; no process is assumed to do anything.
* `OrderTor`: weak fairness of each job and each comparison. The event loop runs a
  coroutine that waits for nobody, and the broker client has a timeout, so that
  waiting ends (`AntwortNetzfehler`). Nothing is assumed of the broker, of the
  environment, or of a restart. `SchutzExitGehtHinaus` admits the death of the process.
* `KillSwitch`: weak fairness of the steps of each thread, and of `Zyklus`: the loop
  sleeps for a bounded time and begins again.
* `Hitl`: weak fairness of the loop and of each task at the gate; operators owe nothing.
* `Abgang`: weak fairness of each dispatch, a coroutine of the event loop whose calls have
  timeouts. The broker need not fill or end anything.
* `Abgleich`: weak fairness of the periodic run, a loop of 30 seconds that survives its
  errors. The broker, the stream and the humans owe nothing.
* `Outbox` has no liveness property and no fairness.

## 4. Proofs

Every invariant and every action property the passing runs check is also a theorem. Each
holds for every value of the constants under the named assumption of its module
(`LeaseAssumption`, `OutboxAssumption`, `TorAssumption`, `KillSwitchAssumption`,
`HitlAssumption`, `AbgangAssumption`, `AbgleichAssumption`), which TLC evaluates in the
runs; the bounds on events there are arbitrary numbers. That the accounts
and the clients are finitely many is assumed where a proof counts them. A theorem that
needs more says so in its own ASSUME. The proofs of a component are in its `*Proofs`
module.

| Extra assumption | Theorems | Why it is needed (see "Observed") |
|---|---|---|
| a section ends within the time to live of its lock (`FristLaeuft = FALSE`) | all of `OutboxProofs` | a section that outlasts its lock |
| the store works (`AblageFehler = FALSE`) | `NichtsVerborgen`, `ZurueckgehaltenOhneSpur`, `NichtsBleibtLiegen`, `HaltHatSatz`, `TripBleibt` | the steps of the outbox and the writes of a trip are best effort: the order goes out, the trip returns without them |
| clear answers (`Mehrdeutig = FALSE`) | `EinBeinEineOrder`, `NichtsBleibtLiegen` | two orders for one leg |
| one instance | `AbschlussIstWahr`, `NichtsBleibtLiegen` | second instance |
| requests die with their caller (`SpaeteAnkunft = FALSE`) | `AbschlussIstWahr` | late arrival |
| no trip overlaps a reset of its scope (`[]Getrennt`) | `HaltHatSatz` | a reset deletes halt and record in the opposite order of a trip |
| one caller | `TripBleibt` | two trips at once |
| one account | `TagesBudgetGehalten`, `TagesBudgetRedis` | approvals: two clients read the same total |
| the store is Redis | `FreigabeBewahrtRedis`, `TagesBudgetRedis` | approvals on the desktop |

None is there for the prover's sake: when one is dropped, TLC finds a counterexample to
the property on the instance of its run, enlarged by a second instance, thread or account
where the assumption is about their number. (The type correctness of the outbox, which is
proved together with its other properties, is the exception.)

**EngineLeaseProofs** (`LeaseTypeCorrect`, `BruchSicher`, `VermerkSicher`,
`HalterSicher`). The argument is about tokens. `BruchTrifftNurTote` is not inductive:
that the note names a dead process says nothing unless the note is right about its
token. The inductive invariant is

    TypeOK /\ MerktNurEigene /\ TokenGetrennt /\ NurVergebene /\ LebendLaeuft
           /\ VermerkNenntDenHalter /\ BruchTrifftNurTote

every token a process remembers was created by it; two processes share none; row, note and
break targets name only tokens already created; only running processes have living tokens;
the note is right about living tokens. A new token is above every earlier one, so an old aim never hits it.
From the invariant each action is shown to leave a living holder alone, which
gives `LebenderHalterBleibt` as an action property.

**OutboxProofs** (`OutboxTypKorrekt`, `VerzeichnisSicher`, `ZustaendeNurVorwaerts`,
`OutboxHaeltIdeal`). The invariant is

    TypeOK /\ SperreGilt /\ FestInv /\ FortInv /\ VerzeichnisTreu /\ RaeumInv

an actor inside a section holds its lock; between reading and writing nobody else
changed the entry (`FestInv`, `FortInv`); the copy the cleaner works on is a prefix of
the directory (`RaeumInv`), so that `pop` takes the key that was judged although
writers hold other locks. `OutboxHaeltIdeal` then maps every step to one of
`OutboxIdeal` or to a stutter.

**OrderTorProofs** (`TorTypKorrekt`, `NichtsVerborgen`, `ZurueckgehaltenOhneSpur`,
`EinBeinEineOrder`, `AbschlussIstWahr`, `NichtsBleibtLiegen`, `TorHaeltIdeal`). All rest on `Basis`
(`TorBasis`), which needs no assumption on store, broker or processes:

    TypeOK /\ Getrennt /\ VorDemSenden /\ VorDemSchreiben /\ AntwortWahr /\ ErstAbgleich

a request is in flight, accepted or refused and only one of them; under a key that the
job has not sent, or not written, there is nothing; an instance runs jobs only after its
comparison. On top of it there is one strengthening per property:

* `Belegt`: a job past `Festschreiben` has a listed entry, whoever else moves it. Neither
  `SichtbarVorDemBroker` nor `ZurueckgehaltenSpurlos` is inductive without it.
* `NurNachAblehnung`: a job is at its second key only if the broker refused the first.
* `Abschluss`: a request in flight has a caller that waits (`Begleitet`), a running job an
  unsettled intent (`Unerledigt`), and what the comparison is about to write is what the broker has
  (`Befund`). With one instance no job runs while the comparison does, which is
  where a second one breaks the argument.
* `Ausstehend`: an intent left by a dead process is before the comparison, on its list, or
  being settled.

`TorHaeltIdeal` links the module to the outbox: with what a restart finds as the
refinement mapping, `OrderTor` implements `OutboxIdeal`, without any extra assumption. Each
coarse step of the outbox, the ones that fail half way included, is one operation of the
ideal outbox or invisible to it. `Outbox`, which has the single calls, implements the same
specification.

**KillSwitchProofs** (`KillTypKorrekt`, `HaltBleibt`, `HaltHatSatz`, `TripBleibt`).
`HaltGilt` is not inductive: a trip that is about to return must already have set the flag.
`FlagInv` says so for a thread past `Setzen` whose trip met no reset, and the invariant is
`TypeOK /\ FlagInv /\ HaltGilt`. It needs nothing of the store, which is the point:
the halt holds in the process whether or not the store answers. `HaltHatSatz` rests on
`Grund` (the record is there before the halt is written and goes after the halt has gone)
and covers any number of processes and threads. `TripBleibt` rests on `Dauer`: a flag in
memory is a halt in the store, except between the first and the last write of the trip
that set it. So a trip that returns early on the flag is durable too, if there is one caller.

**HitlProofs** (`HitlTypKorrekt`, `FreigabeNurEinmal`, `FreigabeBewahrt`,
`FreigabeBewahrtRedis`, `EinMenschEntscheidet`, `TagesBudgetGehalten`, `TagesBudgetRedis`).
`TypeOK` is not inductive: that an id is
left for the task that pushes next depends on the other tasks at the gate, so `Typ` counts them
(`Raum`) and says where tasks may be (`Ort`). `Konto` keeps the account of an approval:

    gesendet[i] + (1 if Offen(i)) + (1 if InArbeit(i)) <= zusagen[i]

it is open as long as its key is in the store or the drain is about to delete it, in work
from there to the end of the execution. The drain moves it from one to the other and
never back, wherever the process dies, so a submission uses an approval up. `Spur`: an
approval is deleted only when its marker is set, the marker only when the execution has
ended. `Dauerhaft`: with a store that is not in memory nothing is `verloren` and `budget`
is the limit of one day; with it the two theorems about Redis follow from the
general ones. `Herkunft`: all the drain reads, holds and sends was approved. `EinRuf`:
while nothing interferes there is one call at a time and no entry is both approved and
rejected. `Gedeckt`: what was executed and what is about to be is covered by the counter
in the store and the limits of its earlier lives, and future days are empty.

**AbgangProofs** (`AbgangTypKorrekt`, `AusstiegVerkauftNichtZuViel`,
`LimitAusstiegSchliesst`, `RueckkaufGenau`, `DeckelGehalten`, `PlatzWirdFrei`). No
assumption is added; the exceptions are those the properties name by `merk` and `anlass`.
For every action a lemma (`...Wirkt`) states its effect on the client's own dispatch, a
frame lemma the rest. For each client `Lage(c)` says where its legs stand:

    Beine(c) /\ Einfach(c) /\ Gedeckt(c) /\ Zurueck(c)

only the leg that is followed is at the broker and the last poll saw no more than is
filled; the market order is sent after the limit order has ended, for no more than was
left; an exit past its polls is covered; the displaced sale has ended when its fill is
read. The three properties of quantities are read off `Lage`. For the cap,
`TagesDeckel` says nothing about orders that may still be filled. The invariant
`Budget` counts them: `Vergeben` is the number of trades, of sales that kept a slot for
nothing (`verfallen`) and of dispatches that hold a slot without a fill and are not over or
are sales (`Laufend`), and

    Lagen /\ (\A c: Platz(c)) /\ Gezaehlt /\ Genau

says who holds a slot (`Platz`), that `Vergeben` is within the cap and within both
counters (`Gezaehlt`), and equal to both if nothing went wrong (`Genau`). Each
action changes `Laufend` by at most the one client, which settles the cardinalities. When
all is over only sales are left in it (`RuheBilanz`), and `PlatzKommtZurueck` follows from `Genau`.

**AbgleichProofs** (`AbgleichTypKorrekt`, `GrundJeVerkauf`, `NurGeseheneAufhebung`).
`Typ` adds how the fill of an order agrees with its state (`Fuellstand`). `GrundAbgelegt`
is not inductive: it does not say why a known sale is not filed again. `Bilanz` does, for
each sale: what this service filed it remembers; with a store, what was filed
since the key expired is under its key; and whatever memory, keys or known fills hold was
filed or warned about. A restart empties the memory and the first count together, an
expiry the key and the second. `AufhebungGesehen` is an action property: each action but
the release of a call that has logged the present record leaves the block in place.

### Only model-checked

Liveness: `FestgefahreneEngineGibtAb`, `VerwaisteSperreLaeuftAb`, `SchutzExitGehtHinaus`,
`HaltStopptSchleife`, `FreigabeWirdGeholt`, `AbsendungEndet`, `VollerFillErfasst`,
`AbweichungSperrt`. It needs fairness and ENABLED, which are out of the prover's reach.

## 5. Plan

In order of what a mistake costs:

1. Weaker assumptions where the code allows it: `TripBleibt` with several threads whose calls do
   not overlap, `AbschlussIstWahr` with several instances of which only one holds jobs.
2. Watchdogs on top of `KillSwitch`: counters of consecutive failures that trip the switch.
3. Broker stops: laying and renewing beside sales; a position is not left bare.
4. Four-eyes governance, re-entry lockout, liquidation of the book.

### Not modelled and why

* **Encodings of the store** (SQL, Redis scripts, JSON): the operations are
  modelled by what they do; unreadable entries of another version are left out.
* **Prices and sizes**: sizing, scaling and scoring are arithmetic on real numbers.
  Quantities are modelled where they decide something (partial fills, remainders).
* **Shadow mode, the bookkeeping after a fill, the choice of the position to displace**:
  they change nothing the modelled decisions read.
* **Audit records, alerts, logs**: written, never read by a decision. An installation
  without an audit log (`hole_ablage` gives None), which files no sell reason at all, is
  left out.
* **The switch that turns the lease off**: without it there is nothing to check.
* **Cryptography, licences, user interface, machine learning, language models,
  simulation, vendored indicators**: pure I/O, numeric, or third-party.

`PROJECT.json` lists every one of these parts with its status and the reason.
