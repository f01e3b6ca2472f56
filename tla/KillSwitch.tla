----------------------------- MODULE KillSwitch -----------------------------
(***************************************************************************)
(* The kill switch of core/kill_switch.py: a halt, global or of one user,  *)
(* kept in two places: flags in the memory of every process, which is_halted*)
(* sets when it finds the halt in the store and only a reset in the same   *)
(* process clears, and keys in the durable store.  Threads of several      *)
(* processes trip, reset and ask at the same time; each access to the      *)
(* store is a step of its own.  A trip also starts a thread that cancels   *)
(* all orders of the account and then switches the process to paper.       *)
(***************************************************************************)
EXTENDS Naturals

CONSTANTS
    Prozess,      \* processes of the installation
    Faden,        \* threads that use the kill switch
    ProzessVon,   \* [Faden -> Prozess]
    Schleife,     \* the threads that run a trading loop
    Nutzer,       \* users with a halt of their own
    Global,       \* the scope of the global halt
    LiveKonto,    \* whether a process may boot with a live account
    AblageFehler  \* whether a call to the store may fail

Bereich == Nutzer \cup {Global}

ASSUME KillSwitchAssumption ==
    /\ ProzessVon \in [Faden -> Prozess]
    /\ Schleife \subseteq Faden
    /\ Global \notin Nutzer
    /\ LiveKonto \in BOOLEAN /\ AblageFehler \in BOOLEAN

VARIABLES
    ablage,     \* scopes with a key system_halted in the store
    saetze,     \* scopes with a trip record in the store
    lokal,      \* per process: _local_halted and _user_halted
    lebt,       \* running processes
    laeuft,     \* processes whose trading loop runs
    live,       \* per process: the configuration selects the live account
    stornos,    \* mass-cancel threads: process, and the account at the trip
    pc, op, ziel, zu, \* per thread: step, operation, scope, fail_closed
    verfehlt,   \* history: processes whose mass-cancel hit another account
    sauber,     \* history: threads whose trip met no reset
    getroffen,  \* history: <<process, scope>> tripped and not reset since
    gemeldet    \* history: scopes tripped and not reset since

zustand == <<ablage, saetze, lokal, lebt, laeuft, live, stornos>>
faeden == <<pc, op, ziel, zu>>
chronik == <<verfehlt, sauber, getroffen, gemeldet>>
vars == <<zustand, faeden, chronik>>

PcStates == {"ruht", "lesen_global", "merken_global", "lesen_nutzer",
             "merken_nutzer", "setzen", "satz", "halt", "storno", "papier",
             "r_halt", "r_satz"}

TypeOK ==
    /\ ablage \subseteq Bereich /\ saetze \subseteq Bereich
    /\ lokal \in [Prozess -> SUBSET Bereich]
    /\ lebt \subseteq Prozess /\ laeuft \subseteq lebt
    /\ live \in [Prozess -> BOOLEAN]
    /\ stornos \subseteq lebt \X BOOLEAN
    /\ pc \in [Faden -> PcStates]
    /\ op \in [Faden -> {"trip", "reset", "pruefen", "zyklus"}]
    /\ ziel \in [Faden -> Bereich]
    /\ zu \in [Faden -> BOOLEAN]
    /\ verfehlt \subseteq Prozess
    /\ sauber \subseteq Faden
    /\ getroffen \subseteq Prozess \X Bereich /\ gemeldet \subseteq Bereich
    /\ \A t \in Faden: pc[t] # "ruht" => ProzessVon[t] \in lebt
    /\ \A t \in Faden: pc[t] \in {"lesen_nutzer", "merken_nutzer"} => ziel[t] \in Nutzer

Init ==
    /\ ablage = {} /\ saetze = {}
    /\ lokal = [p \in Prozess |-> {}]
    /\ lebt = {} /\ laeuft = {}
    /\ live = [p \in Prozess |-> FALSE]
    /\ stornos = {}
    /\ pc = [t \in Faden |-> "ruht"]
    /\ op = [t \in Faden |-> "pruefen"]
    /\ ziel = [t \in Faden |-> Global]
    /\ zu = [t \in Faden |-> FALSE]
    /\ verfehlt = {} /\ sauber = {} /\ getroffen = {} /\ gemeldet = {}

----------------------------------------------------------------------------
P(t) == ProzessVon[t]
Gehe(t, s) == pc' = [pc EXCEPT ![t] = s]

\* A halt or a reset of scope r concerns scope s.
Trifft(r, s) == r = Global \/ r = s

\* The flags in memory: the first two questions of is_halted.
LokalGehalten(p, s) == Global \in lokal[p] \/ s \in lokal[p]

\* Scopes of running trips or resets.
Laufend(o) == {ziel[u] : u \in {v \in Faden: op[v] = o /\ pc[v] # "ruht"}}

\* A thread of a running process begins an operation.
Rufe(t, o, s, f, schritt) ==
    /\ pc[t] = "ruht"
    /\ P(t) \in lebt
    /\ Gehe(t, schritt)
    /\ op' = [op EXCEPT ![t] = o]
    /\ ziel' = [ziel EXCEPT ![t] = s]
    /\ zu' = [zu EXCEPT ![t] = f]

\* The operation is over; its locals are gone.
Ende(t) ==
    /\ Gehe(t, "ruht")
    /\ op' = [op EXCEPT ![t] = "pruefen"]
    /\ ziel' = [ziel EXCEPT ![t] = Global]
    /\ zu' = [zu EXCEPT ![t] = FALSE]

\* What the histories note when a trip of scope s returns in process p.
Vermerkt(p, s, b) ==
    /\ getroffen' = IF b THEN getroffen \cup {<<p, s>>} ELSE getroffen
    /\ gemeldet' = IF b THEN gemeldet \cup {s} ELSE gemeldet

\* The end of a trip of thread t.
TripEnde(t) ==
    /\ Vermerkt(P(t), ziel[t], t \in sauber)
    /\ sauber' = sauber \ {t}
    /\ Ende(t)

----------------------------------------------------------------------------
(* is_halted against the store, on behalf of the operation of thread t.    *)

\* False: a trip goes on, a question or a cycle is answered.
NichtGehalten(t) ==
    IF op[t] = "trip" THEN Gehe(t, "setzen") /\ UNCHANGED <<op, ziel, zu>> ELSE Ende(t)

\* The store says nothing, or it cannot be read.
LesenGlobal(t) ==
    /\ pc[t] = "lesen_global"
    /\ \/ Global \in ablage /\ Gehe(t, "merken_global") /\ UNCHANGED <<op, ziel, zu>>
       \/ /\ Global \notin ablage
          /\ IF ziel[t] = Global THEN NichtGehalten(t)
             ELSE Gehe(t, "lesen_nutzer") /\ UNCHANGED <<op, ziel, zu>>
       \/ AblageFehler /\ NichtGehalten(t)
    /\ UNCHANGED <<zustand, chronik>>

LesenNutzer(t) ==
    /\ pc[t] = "lesen_nutzer"
    /\ \/ ziel[t] \in ablage /\ Gehe(t, "merken_nutzer") /\ UNCHANGED <<op, ziel, zu>>
       \/ (ziel[t] \notin ablage \/ AblageFehler) /\ NichtGehalten(t)
    /\ UNCHANGED <<zustand, chronik>>

\* Mutant: the halt found in the store is not remembered.
MerkenNicht(t) ==
    /\ pc[t] \in {"merken_global", "merken_nutzer"}
    /\ laeuft' = IF op[t] = "zyklus" THEN laeuft \ {P(t)} ELSE laeuft
    /\ TripEnde(t)
    /\ UNCHANGED <<ablage, saetze, lokal, lebt, live, stornos, verfehlt>>

\* True: the halt is remembered in the process.  A trip returns at once, a
\* cycle stops the trading loop.
Merken(t) ==
    /\ pc[t] \in {"merken_global", "merken_nutzer"}
    /\ lokal' = [lokal EXCEPT ![P(t)] = @ \cup
                   {IF pc[t] = "merken_global" THEN Global ELSE ziel[t]}]
    /\ laeuft' = IF op[t] = "zyklus" THEN laeuft \ {P(t)} ELSE laeuft
    /\ TripEnde(t)
    /\ UNCHANGED <<ablage, saetze, lebt, live, stornos, verfehlt>>

\* check_halt, is_halted asked by the send path, the watchdogs, the routes.
Pruefen(t, s) ==
    /\ ~LokalGehalten(P(t), s)
    /\ Rufe(t, "pruefen", s, FALSE, "lesen_global")
    /\ UNCHANGED <<zustand, chronik>>

\* Mutant: the loop asks the store only.
ZyklusNurAblage(t) ==
    /\ P(t) \in laeuft
    /\ Rufe(t, "zyklus", Global, FALSE, "lesen_global")
    /\ UNCHANGED <<zustand, chronik>>

\* The next cycle of the trading loop asks for the halt.
Zyklus(t) ==
    /\ P(t) \in laeuft
    /\ IF LokalGehalten(P(t), Global)
       THEN /\ pc[t] = "ruht"
            /\ laeuft' = laeuft \ {P(t)}
            /\ UNCHANGED <<faeden, ablage, saetze, lokal, lebt, live, stornos>>
       ELSE Rufe(t, "zyklus", Global, FALSE, "lesen_global") /\ UNCHANGED zustand
    /\ UNCHANGED chronik

----------------------------------------------------------------------------
(* trip                                                                    *)

\* A trip that finds its process halted returns at once.
Trip(t, s, f) ==
    LET rein == \A r \in Laufend("reset"): ~Trifft(r, s) IN
    /\ IF LokalGehalten(P(t), s)
       THEN /\ pc[t] = "ruht" /\ P(t) \in lebt
            /\ Vermerkt(P(t), s, rein)
            /\ UNCHANGED <<faeden, sauber>>
       ELSE /\ Rufe(t, "trip", s, f, "lesen_global")
            /\ sauber' = IF rein THEN sauber \cup {t} ELSE sauber
            /\ UNCHANGED <<getroffen, gemeldet>>
    /\ UNCHANGED <<zustand, verfehlt>>

\* First the flag in memory ...
Setzen(t) ==
    /\ pc[t] = "setzen"
    /\ lokal' = [lokal EXCEPT ![P(t)] = @ \cup {ziel[t]}]
    /\ Gehe(t, "satz")
    /\ UNCHANGED <<ablage, saetze, lebt, laeuft, live, stornos, op, ziel, zu, chronik>>

\* ... then the trip record ...
SatzSchreiben(t) ==
    /\ pc[t] = "satz"
    /\ \/ saetze' = saetze \cup {ziel[t]}
       \/ AblageFehler /\ UNCHANGED saetze
    /\ Gehe(t, "halt")
    /\ UNCHANGED <<ablage, lokal, lebt, laeuft, live, stornos, op, ziel, zu, chronik>>

\* Mutant: the halt stays in memory.
HaltNurLokal(t) ==
    /\ pc[t] = "halt"
    /\ Gehe(t, "storno")
    /\ UNCHANGED <<zustand, op, ziel, zu, chronik>>

\* ... then the halt.
HaltSchreiben(t) ==
    /\ pc[t] = "halt"
    /\ \/ ablage' = ablage \cup {ziel[t]}
       \/ AblageFehler /\ UNCHANGED ablage
    /\ Gehe(t, "storno")
    /\ UNCHANGED <<saetze, lokal, lebt, laeuft, live, stornos, op, ziel, zu, chronik>>

\* A thread is started that cancels all orders.
StornoStarten(t) ==
    /\ pc[t] = "storno"
    /\ stornos' = stornos \cup {<<P(t), live[P(t)]>>}
    /\ \/ /\ zu[t] /\ ziel[t] = Global
          /\ Gehe(t, "papier")
          /\ UNCHANGED <<op, ziel, zu, sauber, getroffen, gemeldet>>
       \/ (~zu[t] \/ ziel[t] # Global) /\ TripEnde(t)
    /\ UNCHANGED <<ablage, saetze, lokal, lebt, laeuft, live, verfehlt>>

\* _apply_fail_closed: the configuration of the process switches to paper.
AufPapier(t) ==
    /\ pc[t] = "papier"
    /\ live' = [live EXCEPT ![P(t)] = FALSE]
    /\ TripEnde(t)
    /\ UNCHANGED <<ablage, saetze, lokal, lebt, laeuft, stornos, verfehlt>>

\* async_mass_cancel: the account is taken from the configuration when the
\* thread gets to run (_resolve_broker_target).
MassenStorno(p, konto) ==
    /\ <<p, konto>> \in stornos
    /\ stornos' = stornos \ {<<p, konto>>}
    /\ verfehlt' = IF live[p] = konto THEN verfehlt ELSE verfehlt \cup {p}
    /\ UNCHANGED <<ablage, saetze, lokal, lebt, laeuft, live, faeden,
                   sauber, getroffen, gemeldet>>

----------------------------------------------------------------------------
(* reset                                                                   *)

\* The flags of the process are cleared at once; a global reset clears the
\* flags of all users too.
Reset(t, s) ==
    /\ Rufe(t, "reset", s, FALSE, "r_halt")
    /\ lokal' = [lokal EXCEPT ![P(t)] = IF s = Global THEN {} ELSE @ \ {s}]
    /\ sauber' = {u \in sauber: ~Trifft(s, ziel[u])}
    /\ getroffen' = {x \in getroffen: x[1] # P(t) \/ ~Trifft(s, x[2])}
    /\ gemeldet' = {r \in gemeldet: ~Trifft(s, r)}
    /\ UNCHANGED <<ablage, saetze, lebt, laeuft, live, stornos, verfehlt>>

\* Mutant: the record is deleted before the halt.
HaltLoeschenDanach(t) ==
    /\ pc[t] = "r_halt"
    /\ saetze' = saetze \ {ziel[t]}
    /\ Gehe(t, "r_satz")
    /\ UNCHANGED <<ablage, lokal, lebt, laeuft, live, stornos, op, ziel, zu, chronik>>

\* The key of this scope is deleted, of no other; an error ends the deleting.
HaltLoeschen(t) ==
    /\ pc[t] = "r_halt"
    /\ \/ /\ ablage' = ablage \ {ziel[t]}
          /\ Gehe(t, "r_satz")
          /\ UNCHANGED <<op, ziel, zu>>
       \/ AblageFehler /\ UNCHANGED ablage /\ Ende(t)
    /\ UNCHANGED <<saetze, lokal, lebt, laeuft, live, stornos, chronik>>

SatzLoeschen(t) ==
    /\ pc[t] = "r_satz"
    /\ \/ saetze' = saetze \ {ziel[t]}
       \/ AblageFehler /\ UNCHANGED saetze
    /\ Ende(t)
    /\ UNCHANGED <<ablage, lokal, lebt, laeuft, live, stornos, chronik>>

----------------------------------------------------------------------------
(* Processes.                                                              *)

\* A process starts with empty flags and an account chosen at boot.
Hochfahren(p) ==
    /\ p \notin lebt
    /\ lebt' = lebt \cup {p}
    /\ \E b \in {FALSE, LiveKonto}: live' = [live EXCEPT ![p] = b]
    /\ UNCHANGED <<ablage, saetze, lokal, laeuft, stornos, faeden, chronik>>

\* start_live: a halt does not keep the loop from starting; halt_beim_start_
\* raeumen clears nothing, and the first cycle stops the loop.
SchleifeStarten(p) ==
    /\ p \in lebt \ laeuft
    /\ \E t \in Schleife: P(t) = p
    /\ laeuft' = laeuft \cup {p}
    /\ UNCHANGED <<ablage, saetze, lokal, lebt, live, stornos, faeden, chronik>>

\* Mutant: the flags, the loop and the mass-cancel outlive the process.
AbsturzHalb(p) ==
    /\ p \in lebt
    /\ lebt' = lebt \ {p}
    /\ pc' = [t \in Faden |-> IF P(t) = p THEN "ruht" ELSE pc[t]]
    /\ UNCHANGED <<ablage, saetze, lokal, laeuft, live, stornos, op, ziel, zu, chronik>>

\* A process dies with its flags, its threads and its mass-cancel.
Absturz(p) ==
    /\ p \in lebt
    /\ lebt' = lebt \ {p} /\ laeuft' = laeuft \ {p}
    /\ lokal' = [lokal EXCEPT ![p] = {}]
    /\ live' = [live EXCEPT ![p] = FALSE]
    /\ stornos' = {x \in stornos: x[1] # p}
    /\ pc' = [t \in Faden |-> IF P(t) = p THEN "ruht" ELSE pc[t]]
    /\ op' = [t \in Faden |-> IF P(t) = p THEN "pruefen" ELSE op[t]]
    /\ ziel' = [t \in Faden |-> IF P(t) = p THEN Global ELSE ziel[t]]
    /\ zu' = [t \in Faden |-> IF P(t) = p THEN FALSE ELSE zu[t]]
    /\ getroffen' = {x \in getroffen: x[1] # p}
    /\ sauber' = {t \in sauber: P(t) # p}
    /\ UNCHANGED <<ablage, saetze, verfehlt, gemeldet>>

FadenSchritt(t) ==
    \/ LesenGlobal(t) \/ LesenNutzer(t) \/ Merken(t)
    \/ Setzen(t) \/ SatzSchreiben(t) \/ HaltSchreiben(t)
    \/ StornoStarten(t) \/ AufPapier(t)
    \/ HaltLoeschen(t) \/ SatzLoeschen(t)

Next ==
    \/ \E t \in Faden \ Schleife, s \in Bereich:
          \/ Pruefen(t, s) \/ Reset(t, s)
          \/ \E f \in BOOLEAN: Trip(t, s, f)
    \/ \E t \in Schleife: Zyklus(t)
    \/ \E t \in Faden: FadenSchritt(t)
    \/ \E p \in Prozess, b \in BOOLEAN: MassenStorno(p, b)
    \/ \E p \in Prozess: Hochfahren(p) \/ SchleifeStarten(p) \/ Absturz(p)

\* A running thread goes on, and a trading loop begins its next cycle.
Spec ==
    /\ Init /\ [][Next]_vars
    /\ \A t \in Faden: WF_vars(FadenSchritt(t))
    /\ \A t \in Schleife: WF_vars(Zyklus(t))

----------------------------------------------------------------------------
(* Properties.                                                             *)

\* Docstring of trip ("halt the system"), comment of panic_sell (the halt
\* persists until an explicit reset): after a trip has returned, every later
\* question in the same process is answered "halted" at its first step,
\* whatever other processes reset and whether or not the store answers.
HaltGilt == \A x \in getroffen: LokalGehalten(x[1], x[2])

\* Module text of core/state/synchron.py: "Ein Halt muss aber dauerhaft sein,
\* bevor trip() zurueckkehrt".  A tripped scope that nobody reset is halted
\* in the store, so that it survives the death of every process.
TripIstDauerhaft == \A s \in gemeldet: s \in ablage \/ Global \in ablage

\* Comment in trip: first the record, then the halt, both durable.  A halt
\* found after a restart can always name its reason.
HaltNenntGrund == ablage \subseteq saetze

\* Comment in live_disable and _zyklus_vorbereiten: a halt ends the trading
\* loop of the process unless it is reset meanwhile.
HaltStopptSchleife ==
    \A p \in Prozess:
        (p \in laeuft /\ <<p, Global>> \in getroffen)
        ~> (p \notin laeuft \/ <<p, Global>> \notin getroffen)
=============================================================================
