---------------------------- MODULE EngineLease ----------------------------
(***************************************************************************)
(* The time-limited write permission of core/lease.py: at most one engine  *)
(* process at a time may send orders for one account.  The permission is a *)
(* lock row in the shared state store (core/state): a token and an expiry. *)
(* Next to it lies a note naming the holder's host, pid and token; a       *)
(* contender on the same host uses it to break the lock of a holder that   *)
(* provably died (#3453).                                                  *)
(*                                                                         *)
(* Each operation of the store is one atomic step (one SQL statement, or   *)
(* one WATCH/MULTI transaction); between two of them any coroutine of any  *)
(* process may run.  A process runs several coroutines that ask for the    *)
(* permission before an order, one renewal task and one stop routine, all  *)
(* of which share the process-wide registry of held permissions.           *)
(***************************************************************************)
EXTENDS Naturals

CONSTANTS
    Inst,       \* engine instances (slots; a restarted slot is a new process)
    Host,       \* machines
    HostOf,     \* [Inst -> Host]
    Pid,        \* process ids, reused after a process died
    Aufgabe,    \* coroutines of one process that check before an order
    AufEngineRing,  \* <<instance, coroutine>> on the event loop of the engine
    KannHaengen,    \* instances whose trading cycle may get stuck
    MaxToken,   \* bound: lock objects (uuid tokens) ever created
    Frist,      \* time to live of the lock, in ticks
    MitFehlern  \* whether a call to the store may fail or lose its answer

ASSUME LeaseAssumption ==
    /\ HostOf \in [Inst -> Host]
    /\ AufEngineRing \subseteq Inst \X Aufgabe
    /\ KannHaengen \subseteq Inst
    /\ MaxToken \in Nat
    /\ Frist \in Nat \ {0}
    /\ MitFehlern \in BOOLEAN
    /\ 0 \notin Pid

Kein == 0                     \* no token, no pid
Token == 1..MaxToken
Niemand == "niemand"

VARIABLES
    sperre,     \* the lock row: [tok, rest]; tok = Kein when absent or expired
    vermerk,    \* the holder note: [host, pid, tok]; tok = Kein when absent
    registratur,\* per process: the registered lock object, [tok, ring]
    pid,        \* pid of the process in a slot, Kein when no process runs
    fortschritt,\* per process: the cycle reported recently
    pc, mein, fremd,   \* per coroutine: control state, own token, token to break
    herz,       \* per process: the renewal task, [pc, tok]
    stopp,      \* per process: token being released by the stop routine
    vergeben,   \* tokens created so far
    lebend      \* per process: the tokens created by the process now running

vars == <<sperre, vermerk, registratur, pid, fortschritt, pc, mein, fremd,
          herz, stopp, vergeben, lebend>>

PcStates == {"ruht", "pruefen", "verfallen", "erwerben", "halter", "brechen",
             "erwerben2", "vermerken", "eintragen"}

KeinEintrag == [tok |-> Kein, ring |-> "engine"]
KeineSperre == [tok |-> Kein, rest |-> 0]
KeinVermerk == [host |-> Niemand, pid |-> Kein, tok |-> Kein]
HerzRuht == [pc |-> "ruht", tok |-> Kein]

TypeOK ==
    /\ sperre \in [tok: Token \cup {Kein}, rest: 0..Frist]
    /\ vermerk \in [host: Host \cup {Niemand}, pid: Pid \cup {Kein}, tok: Token \cup {Kein}]
    /\ registratur \in [Inst -> [tok: Token \cup {Kein},
                                 ring: {"engine", "anderer", "tot"}]]
    /\ pid \in [Inst -> Pid \cup {Kein}]
    /\ fortschritt \in [Inst -> BOOLEAN]
    /\ pc \in [Inst -> [Aufgabe -> PcStates]]
    /\ mein \in [Inst -> [Aufgabe -> Token \cup {Kein}]]
    /\ fremd \in [Inst -> [Aufgabe -> Token \cup {Kein}]]
    /\ herz \in [Inst -> [pc: {"ruht", "erneuern", "vermerken", "austragen"},
                          tok: Token \cup {Kein}]]
    /\ stopp \in [Inst -> Token \cup {Kein}]
    /\ vergeben \in 0..MaxToken
    /\ lebend \in [Inst -> SUBSET Token]

Init ==
    /\ sperre = KeineSperre
    /\ vermerk = KeinVermerk
    /\ registratur = [i \in Inst |-> KeinEintrag]
    /\ pid = [i \in Inst |-> Kein]
    /\ fortschritt = [i \in Inst |-> TRUE]
    /\ pc = [i \in Inst |-> [a \in Aufgabe |-> "ruht"]]
    /\ mein = [i \in Inst |-> [a \in Aufgabe |-> Kein]]
    /\ fremd = [i \in Inst |-> [a \in Aufgabe |-> Kein]]
    /\ herz = [i \in Inst |-> HerzRuht]
    /\ stopp = [i \in Inst |-> Kein]
    /\ vergeben = 0
    /\ lebend = [i \in Inst |-> {}]

----------------------------------------------------------------------------
(* The lock of the state store (StateLock), one row per account.           *)

Frei == sperre.tok = Kein

\* Mutant: the expiry is written one tick too late.
AcquireLangeFrist(k) == Frei /\ sperre' = [tok |-> k, rest |-> Frist + 1]

\* acquire: succeeds iff there is no unexpired row, and then owns it.
Acquire(k) == Frei /\ sperre' = [tok |-> k, rest |-> Frist]

\* held: the row carries this token and has not expired.
Held(k) == k # Kein /\ sperre.tok = k

\* Mutant: renewal does not compare the token.
RenewOhneToken(k) == ~Frei /\ sperre' = [sperre EXCEPT !.rest = Frist]

\* renew: only while the row carries this token and has not expired.
Renew(k) == Held(k) /\ sperre' = [tok |-> k, rest |-> Frist]

\* release: deletes the row only if it carries this token.
Release(k) == sperre' = IF Held(k) THEN KeineSperre ELSE sperre

\* Mutant: the break does not compare the token.
BrechenOhneToken(k, eigen) == ~Frei /\ k # eigen /\ sperre' = KeineSperre

\* brechen: deletes the row only if it carries the foreign token named.
Brechen(k, eigen) == Held(k) /\ k # eigen /\ sperre' = KeineSperre

----------------------------------------------------------------------------
(* Processes and time.                                                     *)

Laeuft(i) == pid[i] # Kein

\* psutil.pid_exists on machine h: some process there has this pid.
PidExistiert(h, p) == \E j \in Inst: HostOf[j] = h /\ pid[j] = p

\* The permission is held by the process now running in slot i.
Haelt(i) == Laeuft(i) /\ sperre.tok \in lebend[i]

Gehe(i, a, s) == pc' = [pc EXCEPT ![i][a] = s]

\* The coroutine is done with its lock object (the answer is returned).
Ende(i, a) == Gehe(i, a, "ruht") /\ mein' = [mein EXCEPT ![i][a] = Kein]
Weiter(i, a, s) == Gehe(i, a, s) /\ UNCHANGED mein

\* A process starts: fresh memory, a pid free on its machine.
Start(i) ==
    /\ ~Laeuft(i)
    /\ \E p \in Pid: /\ ~PidExistiert(HostOf[i], p)
                     /\ pid' = [pid EXCEPT ![i] = p]
    /\ fortschritt' = [fortschritt EXCEPT ![i] = TRUE]
    /\ UNCHANGED <<sperre, vermerk, registratur, pc, mein, fremd, herz, stopp,
                   vergeben, lebend>>

\* A process dies at any point; the store keeps the row and the note.
Absturz(i) ==
    /\ Laeuft(i)
    /\ pid' = [pid EXCEPT ![i] = Kein]
    /\ registratur' = [registratur EXCEPT ![i] = KeinEintrag]
    /\ pc' = [pc EXCEPT ![i] = [a \in Aufgabe |-> "ruht"]]
    /\ mein' = [mein EXCEPT ![i] = [a \in Aufgabe |-> Kein]]
    /\ fremd' = [fremd EXCEPT ![i] = [a \in Aufgabe |-> Kein]]
    /\ herz' = [herz EXCEPT ![i] = HerzRuht]
    /\ stopp' = [stopp EXCEPT ![i] = Kein]
    /\ lebend' = [lebend EXCEPT ![i] = {}]
    /\ UNCHANGED <<sperre, vermerk, fortschritt, vergeben>>

\* Time passes: the row expires after Frist ticks without renewal.
Tick ==
    /\ ~Frei
    /\ sperre' = IF sperre.rest <= 1 THEN KeineSperre
                 ELSE [tok |-> sperre.tok, rest |-> sperre.rest - 1]
    /\ UNCHANGED <<vermerk, registratur, pid, fortschritt, pc, mein, fremd,
                   herz, stopp, vergeben, lebend>>

\* The note expires as well; it is only a hint, so at any time.
VermerkLaeuftAb ==
    /\ vermerk.tok # Kein
    /\ vermerk' = KeinVermerk
    /\ UNCHANGED <<sperre, registratur, pid, fortschritt, pc, mein, fremd,
                   herz, stopp, vergeben, lebend>>

\* _lease_fortschritt: the cycle stamp becomes older than the limit, or fresh.
ZyklusMeldet(i) ==
    /\ Laeuft(i) /\ i \in KannHaengen
    /\ fortschritt' = [fortschritt EXCEPT ![i] = ~fortschritt[i]]
    /\ UNCHANGED <<sperre, vermerk, registratur, pid, pc, mein, fremd, herz,
                   stopp, vergeben, lebend>>

\* The event loop on which a permission was acquired ends (not the engine's:
\* that one runs the stop routine below first).
RingEndet(i) ==
    /\ registratur[i].ring = "anderer"
    /\ registratur' = [registratur EXCEPT ![i] =
                            [tok |-> registratur[i].tok, ring |-> "tot"]]
    /\ UNCHANGED <<sperre, vermerk, pid, fortschritt, pc, mein, fremd, herz,
                   stopp, vergeben, lebend>>

----------------------------------------------------------------------------
(* sichere_berechtigung: the check before every order, one attempt.        *)

\* Look up the registry.  No entry: a new lock object.
Nachschlagen(i, a) ==
    /\ Laeuft(i)
    /\ pc[i][a] = "ruht"
    /\ Gehe(i, a, IF registratur[i].tok = Kein THEN "verfallen"
                  ELSE IF registratur[i].ring = "tot" THEN "verfallen"
                  ELSE "pruefen")
    /\ mein' = [mein EXCEPT ![i][a] = registratur[i].tok]
    /\ UNCHANGED <<sperre, vermerk, registratur, pid, fortschritt, fremd,
                   herz, stopp, vergeben, lebend>>

\* haelt_noch on the registered lock object: the caller may write.
HaeltNoch(i, a) ==
    /\ pc[i][a] = "pruefen"
    /\ \/ Held(mein[i][a]) /\ Ende(i, a)
       \/ ~Held(mein[i][a]) /\ Weiter(i, a, "verfallen")
    /\ UNCHANGED <<sperre, vermerk, registratur, pid, fortschritt, fremd,
                   herz, stopp, vergeben, lebend>>

\* Forget the registered entry (whichever is there now) and create a new
\* lock object with a token of its own.
NeueSperre(i, a) ==
    /\ pc[i][a] = "verfallen"
    /\ vergeben < MaxToken
    /\ vergeben' = vergeben + 1
    /\ mein' = [mein EXCEPT ![i][a] = vergeben + 1]
    /\ lebend' = [lebend EXCEPT ![i] = @ \cup {vergeben + 1}]
    /\ registratur' =
         IF mein[i][a] = Kein THEN registratur
         ELSE [registratur EXCEPT ![i] = KeinEintrag]
    /\ Gehe(i, a, "erwerben")
    /\ UNCHANGED <<sperre, vermerk, pid, fortschritt, fremd, herz, stopp>>

\* EngineLease.erwerben, first attempt.
Erwerben(i, a) ==
    /\ pc[i][a] = "erwerben"
    /\ \/ Acquire(mein[i][a]) /\ Gehe(i, a, "vermerken")
       \/ ~Frei /\ Gehe(i, a, "halter") /\ UNCHANGED sperre
    /\ UNCHANGED <<vermerk, registratur, pid, fortschritt, mein, fremd, herz,
                   stopp, vergeben, lebend>>

\* Mutant: any other process on this machine counts as dead.
NachweislichTotOhnePruefung(i) ==
    /\ vermerk.host = HostOf[i]
    /\ vermerk.pid # Kein
    /\ vermerk.pid # pid[i]

\* The process named by the note is provably dead: it ran on this machine, is
\* not this process, and no process has its pid.
NachweislichTot(i) ==
    /\ vermerk.host = HostOf[i]
    /\ vermerk.pid # Kein
    /\ vermerk.pid # pid[i]
    /\ ~PidExistiert(HostOf[i], vermerk.pid)

\* _uebernehmen_wenn_tot: read the note, judge the holder.  Where the pid
\* cannot be checked the holder counts as alive.
HalterPruefen(i, a) ==
    /\ pc[i][a] = "halter"
    /\ \/ /\ vermerk.tok # Kein /\ NachweislichTot(i)
          /\ fremd' = [fremd EXCEPT ![i][a] = vermerk.tok]
          /\ Weiter(i, a, "brechen")
       \/ /\ Ende(i, a)
          /\ UNCHANGED fremd
    /\ UNCHANGED <<sperre, vermerk, registratur, pid, fortschritt, herz,
                   stopp, vergeben, lebend>>

\* Break the lock of the dead holder, if the row still carries its token.
HalterBrechen(i, a) ==
    /\ pc[i][a] = "brechen"
    /\ \/ Brechen(fremd[i][a], mein[i][a]) /\ Weiter(i, a, "erwerben2")
       \/ ~Held(fremd[i][a]) /\ Ende(i, a) /\ UNCHANGED sperre
    /\ fremd' = [fremd EXCEPT ![i][a] = Kein]
    /\ UNCHANGED <<vermerk, registratur, pid, fortschritt, herz, stopp,
                   vergeben, lebend>>

\* EngineLease.erwerben, second attempt after a break.
ErwerbenNachBruch(i, a) ==
    /\ pc[i][a] = "erwerben2"
    /\ \/ Acquire(mein[i][a]) /\ Weiter(i, a, "vermerken")
       \/ ~Frei /\ Ende(i, a) /\ UNCHANGED sperre
    /\ UNCHANGED <<vermerk, registratur, pid, fortschritt, fremd, herz,
                   stopp, vergeben, lebend>>

\* Mutant: the note takes the token from the row instead of the lock object.
VermerkAusZeile(i, k) ==
    vermerk' = [host |-> HostOf[i], pid |-> pid[i], tok |-> sperre.tok]

\* _halter_vermerken: write the note; an error is swallowed.
VermerkSchreiben(i, k) ==
    \/ vermerk' = [host |-> HostOf[i], pid |-> pid[i], tok |-> k]
    \/ MitFehlern /\ UNCHANGED vermerk

Vermerken(i, a) ==
    /\ pc[i][a] = "vermerken"
    /\ VermerkSchreiben(i, mein[i][a])
    /\ Gehe(i, a, "eintragen")
    /\ UNCHANGED <<sperre, registratur, pid, fortschritt, mein, fremd, herz,
                   stopp, vergeben, lebend>>

\* Register the new lock object; the caller may write.
Eintragen(i, a) ==
    /\ pc[i][a] = "eintragen"
    /\ registratur' = [registratur EXCEPT ![i] =
            [tok |-> mein[i][a],
             ring |-> IF <<i, a>> \in AufEngineRing THEN "engine" ELSE "anderer"]]
    /\ Ende(i, a)
    /\ UNCHANGED <<sperre, vermerk, pid, fortschritt, fremd, herz,
                   stopp, vergeben, lebend>>

\* darf_schreiben: any error of the store means "no"; the registry is kept.
\* A request that took effect although its answer was lost is an error too.
AblageFehler(i, a) ==
    /\ MitFehlern
    /\ pc[i][a] \in {"pruefen", "erwerben", "halter", "brechen", "erwerben2"}
    /\ \/ UNCHANGED sperre
       \/ pc[i][a] \in {"erwerben", "erwerben2"} /\ Acquire(mein[i][a])
       \/ pc[i][a] = "brechen" /\ Brechen(fremd[i][a], mein[i][a])
    /\ Ende(i, a)
    /\ fremd' = [fremd EXCEPT ![i][a] = Kein]
    /\ UNCHANGED <<vermerk, registratur, pid, fortschritt, herz,
                   stopp, vergeben, lebend>>

----------------------------------------------------------------------------
(* The renewal task (_lease_erneuerung, erneuere_auf_diesem_ring) and stop. *)

\* Mutant: the heartbeat does not ask for progress.
HerzSchlaegtImmer(i) ==
    /\ Laeuft(i)
    /\ herz[i].pc = "ruht"
    /\ registratur[i].tok # Kein /\ registratur[i].ring = "engine"
    /\ herz' = [herz EXCEPT ![i] = [pc |-> "erneuern", tok |-> registratur[i].tok]]
    /\ UNCHANGED <<sperre, vermerk, registratur, pid, fortschritt, pc, mein,
                   fremd, stopp, vergeben, lebend>>

HerzSchlaegt(i) ==
    /\ Laeuft(i)
    /\ herz[i].pc = "ruht"
    /\ registratur[i].tok # Kein /\ registratur[i].ring = "engine"
    /\ fortschritt[i]
    /\ herz' = [herz EXCEPT ![i] = [pc |-> "erneuern", tok |-> registratur[i].tok]]
    /\ UNCHANGED <<sperre, vermerk, registratur, pid, fortschritt, pc, mein,
                   fremd, stopp, vergeben, lebend>>

\* EngineLease.erneuern; an error of the store leaves the entry registered.
HerzErneuert(i) ==
    /\ herz[i].pc = "erneuern"
    /\ \/ /\ Renew(herz[i].tok)
          /\ herz' = [herz EXCEPT ![i] = [pc |-> "vermerken", tok |-> herz[i].tok]]
       \/ /\ ~Held(herz[i].tok)
          /\ herz' = [herz EXCEPT ![i] = [pc |-> "austragen", tok |-> herz[i].tok]]
          /\ UNCHANGED sperre
       \/ /\ MitFehlern
          /\ herz' = [herz EXCEPT ![i] = HerzRuht]
          /\ UNCHANGED sperre
    /\ UNCHANGED <<vermerk, registratur, pid, fortschritt, pc, mein, fremd,
                   stopp, vergeben, lebend>>

\* After the renewal: the note again, or the entry (whichever is registered
\* now) is dropped.
HerzFertig(i) ==
    /\ \/ /\ herz[i].pc = "vermerken"
          /\ VermerkSchreiben(i, herz[i].tok)
          /\ UNCHANGED registratur
       \/ /\ herz[i].pc = "austragen"
          /\ registratur' = [registratur EXCEPT ![i] = KeinEintrag]
          /\ UNCHANGED vermerk
    /\ herz' = [herz EXCEPT ![i] = HerzRuht]
    /\ UNCHANGED <<sperre, pid, fortschritt, pc, mein, fremd, stopp,
                   vergeben, lebend>>

\* beende_auf_diesem_ring: deregister, then release (an error is swallowed).
Beenden(i) ==
    /\ Laeuft(i)
    /\ stopp[i] = Kein
    /\ registratur[i].tok # Kein /\ registratur[i].ring = "engine"
    /\ herz' = [herz EXCEPT ![i] = HerzRuht]
    /\ stopp' = [stopp EXCEPT ![i] = registratur[i].tok]
    /\ registratur' = [registratur EXCEPT ![i] = KeinEintrag]
    /\ UNCHANGED <<sperre, vermerk, pid, fortschritt, pc, mein, fremd,
                   vergeben, lebend>>

Freigeben(i) ==
    /\ stopp[i] # Kein
    /\ Release(stopp[i]) \/ (MitFehlern /\ UNCHANGED sperre)
    /\ stopp' = [stopp EXCEPT ![i] = Kein]
    /\ UNCHANGED <<vermerk, registratur, pid, fortschritt, pc, mein, fremd,
                   herz, vergeben, lebend>>

----------------------------------------------------------------------------
AufgabeSchritt(i, a) ==
    \/ Nachschlagen(i, a)  \/ HaeltNoch(i, a)     \/ NeueSperre(i, a)
    \/ Erwerben(i, a)      \/ HalterPruefen(i, a) \/ HalterBrechen(i, a)
    \/ ErwerbenNachBruch(i, a) \/ Vermerken(i, a) \/ Eintragen(i, a)
    \/ AblageFehler(i, a)

ProzessSchritt(i) ==
    \/ Start(i) \/ Absturz(i) \/ ZyklusMeldet(i) \/ RingEndet(i)
    \/ HerzSchlaegt(i) \/ HerzErneuert(i) \/ HerzFertig(i)
    \/ Beenden(i) \/ Freigeben(i)

Next ==
    \/ \E i \in Inst: ProzessSchritt(i)
    \/ \E i \in Inst, a \in Aufgabe: AufgabeSchritt(i, a)
    \/ Tick
    \/ VermerkLaeuftAb

\* Time passes whatever the processes do; nothing else is promised.
Spec == Init /\ [][Next]_vars /\ WF_vars(Tick)

----------------------------------------------------------------------------
(* Properties.                                                             *)

\* A running process that holds the permission loses it only because the
\* time ran out or because its own stop routine releases it: no contender
\* breaks, releases or overwrites the lock of a living holder, whatever
\* stale note, foreign machine or reused pid it looks at
\* (_uebernehmen_wenn_tot, StateLock.brechen, StateLock.release).
LebenderHalterBleibt ==
    [][\A i \in Inst:
          (Haelt(i) /\ pid'[i] = pid[i] /\ ~Haelt(i)')
             => (sperre.rest <= 1 \/ stopp[i] = sperre.tok)]_vars

\* A coroutine that is about to break a lock aims at the token of a process
\* that no longer runs, even though the note was read some steps earlier.
BruchTrifftNurTote ==
    \A i, j \in Inst: \A a \in Aufgabe:
        pc[i][a] = "brechen" => fremd[i][a] \notin lebend[j]

\* The note never attributes the token of a running process to another
\* process or machine: late writes of the note by a displaced holder may
\* hide the successor, never misname it (_halter_vermerken).
VermerkNenntDenHalter ==
    \A j \in Inst:
        vermerk.tok \in lebend[j] =>
            vermerk.host = HostOf[j] /\ vermerk.pid = pid[j]

\* An engine whose cycle has stopped making progress does not keep the
\* account: again and again the permission is free for another instance
\* (module text of core/lease.py, erneuere_auf_diesem_ring).
FestgefahreneEngineGibtAb ==
    \A i \in Inst: <>[](~fortschritt[i]) => []<>(~Haelt(i))

\* Nobody can extend the lock k any more: no process has it registered, in
\* the course of acquiring it, or in its renewal task.
Verwaist(k) ==
    /\ sperre.tok = k
    /\ \A i \in Inst:
          /\ registratur[i].tok # k
          /\ herz[i].tok # k
          /\ \A a \in Aufgabe: mein[i][a] # k

\* A lock that nobody can renew (its holder died, or lost track of it) does
\* not block the account for ever.
VerwaisteSperreLaeuftAb ==
    \A k \in Token: Verwaist(k) ~> sperre.tok # k
=============================================================================
