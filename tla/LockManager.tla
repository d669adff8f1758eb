---------------------------- MODULE LockManager ----------------------------
(***************************************************************************)
(* lib/lockManager.ts: a lease in Redis that lets one worker process at a  *)
(* time run a job (importProcess in lib/maintenance/import.ts).  A worker  *)
(* takes the key with a time to live, renews it every half of that time    *)
(* while its callback runs, and deletes it at the end.                     *)
(*                                                                         *)
(* Time passes in halves of lockTTL.  A command and the handling of its    *)
(* reply are one step, and the commands of one worker run in the order in  *)
(* which it sends them; the DEL after a failed renewal is a later step of  *)
(* its own.  Any command may throw, before or after Redis has run it.      *)
(***************************************************************************)
EXTENDS Integers

CONSTANTS
  Workers,     \* the worker processes
  Nobody,      \* the key does not exist
  Lost,        \* the key has the lockValue of a process that is gone
  HoldChoices, \* the values of holdLock that callers pass
  MaxLate,     \* bound on the ticks during which a due command was not run
  MaxErrors,   \* bound on the commands that throw
  MaxCrashes   \* bound on the processes that stop

ASSUME WorkersAssumption ==
  /\ Nobody \notin Workers /\ Lost \notin Workers /\ Nobody # Lost
  /\ HoldChoices \subseteq BOOLEAN
  /\ MaxLate \in Nat /\ MaxErrors \in Nat /\ MaxCrashes \in Nat

VARIABLES
  key,       \* the Redis key: [owner, ttl]
  pc,        \* where executeWithLock of each worker is
  hold,      \* its parameter holdLock
  timer,     \* ticks until the next run of renewalInterval
  dropping,  \* a failed renewal has still to delete the key
  open,      \* the manager's connection is not closed
  threw,     \* a renewal of the call threw
  errors,    \* how many commands threw
  late,      \* how many ticks passed while a command was due
  crashes    \* how many processes stopped

vars == <<key, pc, hold, timer, dropping, open, threw, errors, late, crashes>>

Half == 1          \* setInterval(callback, halfTTL)
TTL  == 2 * Half   \* lockTTL
Off  == Half + 1   \* renewalInterval is undefined

Free == [owner |-> Nobody, ttl |-> 0]

Init ==
  /\ key = Free
  /\ pc = [w \in Workers |-> "idle"]
  /\ hold = [w \in Workers |-> FALSE]
  /\ timer = [w \in Workers |-> Off]
  /\ dropping = [w \in Workers |-> FALSE]
  /\ open = [w \in Workers |-> FALSE]
  /\ threw = [w \in Workers |-> FALSE]
  /\ errors = 0
  /\ late = 0
  /\ crashes = 0

Goto(w, l) == pc' = [pc EXCEPT ![w] = l]

\* close(): the interval is cleared and the connection ended.
Close(w) ==
  /\ timer' = [timer EXCEPT ![w] = Off]
  /\ open' = [open EXCEPT ![w] = FALSE]

\* The connection takes a command; a DEL that was sent before it runs first.
Ready(w) == open[w] /\ ~dropping[w]

\* A command of w throws.
Throw == errors < MaxErrors /\ errors' = errors + 1

-----------------------------------------------------------------------------
\* executeWithLock is called, of a new manager or again of one that is kept.
Start(w, h) ==
  /\ pc[w] = "held" \/ (pc[w] = "idle" /\ timer[w] = Off)
  /\ ~dropping[w]
  /\ Goto(w, "acquire")
  /\ hold' = [hold EXCEPT ![w] = h]
  /\ open' = [open EXCEPT ![w] = @ \/ pc[w] = "idle"]
  /\ threw' = [threw EXCEPT ![w] = FALSE]
  /\ UNCHANGED <<key, timer, dropping, errors, late, crashes>>

\* "Connection is closed.": the error of a closed manager ends the call; once it
\* has the lock, stopRenewal has cleared the interval before.
Disconnected(w) ==
  /\ pc[w] \in {"acquire", "compare", "renew", "finish"}
  /\ ~open[w]
  /\ Goto(w, "idle")
  /\ timer' = IF pc[w] \in {"renew", "finish"} THEN [timer EXCEPT ![w] = Off] ELSE timer
  /\ UNCHANGED <<key, hold, dropping, open, threw, errors, late, crashes>>

\* Mutant: SET NX, without a time to live.
AcquireWithoutTTL(w) ==
  /\ pc[w] = "acquire" /\ Ready(w)
  /\ \/ key.owner = Nobody /\ key' = [owner |-> w, ttl |-> 0] /\ Goto(w, "renew")
     \/ key.owner # Nobody /\ UNCHANGED key /\ Goto(w, "compare")
  /\ UNCHANGED <<hold, timer, dropping, open, threw, errors, late, crashes>>

\* Mutant: SET PX, whoever has the key.
AcquireAnyway(w) ==
  /\ pc[w] = "acquire" /\ Ready(w)
  /\ key' = [owner |-> w, ttl |-> TTL]
  /\ Goto(w, "renew")
  /\ UNCHANGED <<hold, timer, dropping, open, threw, errors, late, crashes>>

\* acquireLock: SET PX NX.
AcquireLock(w) ==
  /\ pc[w] = "acquire" /\ Ready(w)
  /\ \/ key.owner = Nobody /\ key' = [owner |-> w, ttl |-> TTL] /\ Goto(w, "renew")
     \/ key.owner # Nobody /\ UNCHANGED key /\ Goto(w, "compare")
  /\ UNCHANGED <<hold, timer, dropping, open, threw, errors, late, crashes>>

\* isCurrentLock: GET; the lock of another instance ends the call.
IsCurrentLock(w) ==
  /\ pc[w] = "compare" /\ Ready(w)
  /\ \/ key.owner = w /\ Goto(w, "renew") /\ UNCHANGED <<timer, open>>
     \/ key.owner # w /\ Goto(w, "idle") /\ Close(w)
  /\ UNCHANGED <<key, hold, dropping, threw, errors, late, crashes>>

\* Mutant: PEXPIRE without the comparison.
RenewAnyTTL(w) == key' = IF key.owner # Nobody THEN [key EXCEPT !.ttl = TTL] ELSE key

\* renewHoldTTL: the script compares and extends in one go.
RenewHoldTTL(w) == key' = IF key.owner = w THEN [key EXCEPT !.ttl = TTL] ELSE key

\* Mutant: one renewal, and no interval.
StartRenewalOnce(w) ==
  /\ Ready(w)
  /\ \/ pc[w] = "renew" /\ Goto(w, "callback")
     \/ pc[w] = "finish" /\ hold[w] /\ Goto(w, "held")
  /\ RenewHoldTTL(w)
  /\ dropping' = [dropping EXCEPT ![w] = key.owner # w]
  /\ timer' = [timer EXCEPT ![w] = Off]
  /\ UNCHANGED <<hold, open, threw, errors, late, crashes>>

\* startRenewal, before the callback and, to hold the lock, after it: one
\* renewal at once, then the interval, whatever the renewal returned.
StartRenewal(w) ==
  /\ Ready(w)
  /\ \/ pc[w] = "renew" /\ Goto(w, "callback")
     \/ pc[w] = "finish" /\ hold[w] /\ Goto(w, "held")
  /\ RenewHoldTTL(w)
  /\ dropping' = [dropping EXCEPT ![w] = key.owner # w]
  /\ timer' = [timer EXCEPT ![w] = Half]
  /\ UNCHANGED <<hold, open, threw, errors, late, crashes>>

\* The renewal of startRenewal throws: its catch awaits stopRenewal.
StartRenewalThrows(w) ==
  /\ Ready(w) /\ Throw
  /\ \/ pc[w] = "renew" /\ Goto(w, "failed")
     \/ pc[w] = "finish" /\ hold[w] /\ Goto(w, "failedHold")
  /\ RenewHoldTTL(w) \/ UNCHANGED key
  /\ timer' = [timer EXCEPT ![w] = Off]
  /\ threw' = [threw EXCEPT ![w] = TRUE]
  /\ UNCHANGED <<hold, dropping, open, late, crashes>>

\* That stopRenewal deletes the key and closes the manager; then the interval is
\* set all the same, and the call goes on without the lock.
StopFailedStart(w) ==
  /\ \/ pc[w] = "failed" /\ Goto(w, "callback")
     \/ pc[w] = "failedHold" /\ Goto(w, "held")
  /\ key' = Free
  /\ open' = [open EXCEPT ![w] = FALSE]
  /\ timer' = [timer EXCEPT ![w] = Half]
  /\ UNCHANGED <<hold, dropping, threw, errors, late, crashes>>

\* Mutant: no finally block; a callback that throws ends the call.
EndCallbackUnguarded(w) ==
  /\ pc[w] = "callback"
  /\ Goto(w, "finish") \/ Goto(w, "idle")
  /\ UNCHANGED <<key, hold, timer, dropping, open, threw, errors, late, crashes>>

\* The callback returns or throws; the finally block runs either way.
EndCallback(w) ==
  /\ pc[w] = "callback"
  /\ Goto(w, "finish")
  /\ UNCHANGED <<key, hold, timer, dropping, open, threw, errors, late, crashes>>

\* stopRenewal and releaseLock: DEL, whoever has the key, then close.
StopRenewal(w) ==
  /\ pc[w] = "finish" /\ ~hold[w] /\ Ready(w)
  /\ key' = Free
  /\ Close(w)
  /\ Goto(w, "idle")
  /\ UNCHANGED <<hold, dropping, threw, errors, late, crashes>>

\* An error ends the call with the connection open.  A manager that holds on, or
\* did before the call, is kept by its caller; any other is gone, and its key is
\* left with nobody to renew it.
Abandon(w, k, t) ==
  LET kept == hold[w] \/ t # Off
  IN /\ Goto(w, IF kept THEN "held" ELSE "idle")
     /\ hold' = [hold EXCEPT ![w] = kept]
     /\ timer' = [timer EXCEPT ![w] = t]
     /\ key' = IF k.owner = w /\ ~kept THEN [k EXCEPT !.owner = Lost] ELSE k

\* A SET, GET or DEL that executeWithLock awaits throws.
CallThrows(w) ==
  /\ Ready(w) /\ Throw
  /\ \/ pc[w] \in {"acquire", "compare"} /\ Abandon(w, key, timer[w])
     \/ /\ pc[w] = "acquire" /\ key.owner = Nobody
        /\ Abandon(w, [owner |-> w, ttl |-> TTL], timer[w])
     \/ /\ pc[w] \in {"failed", "failedHold"} \/ (pc[w] = "finish" /\ ~hold[w])
        /\ Abandon(w, key, Off) \/ Abandon(w, Free, Off)
  /\ UNCHANGED <<dropping, open, threw, late, crashes>>

\* The process ends with key k in Redis: what it owns stays until it expires.
Exit(w, k) ==
  /\ Goto(w, "down")
  /\ Close(w)
  /\ dropping' = [dropping EXCEPT ![w] = FALSE]
  /\ key' = IF k.owner = w THEN [k EXCEPT !.owner = Lost] ELSE k
  /\ UNCHANGED <<hold, threw, late>>

\* A run of the interval's callback; that of a closed manager throws twice, and
\* the second error is nobody's and ends the process (processHandler.js).
Renew(w) ==
  /\ timer[w] = 0
  /\ \/ /\ Ready(w)
        /\ RenewHoldTTL(w)
        /\ timer' = [timer EXCEPT ![w] = IF key.owner = w THEN Half ELSE Off]
        /\ dropping' = [dropping EXCEPT ![w] = key.owner # w]
        /\ UNCHANGED <<pc, hold, open, threw, late>>
     \/ ~open[w] /\ Exit(w, key)
  /\ UNCHANGED <<errors, crashes>>

\* The renewal throws: its catch stops the renewals and gives up the lock, while
\* the callback goes on.
RenewThrows(w) ==
  /\ timer[w] = 0 /\ Ready(w) /\ Throw
  /\ RenewHoldTTL(w) \/ UNCHANGED key
  /\ timer' = [timer EXCEPT ![w] = Off]
  /\ dropping' = [dropping EXCEPT ![w] = TRUE]
  /\ threw' = [threw EXCEPT ![w] = TRUE]
  /\ UNCHANGED <<pc, hold, open, late, crashes>>

\* The stopRenewal of a failed renewal, while the callback goes on.
DropLock(w) ==
  /\ dropping[w]
  /\ key' = Free
  /\ Close(w)
  /\ dropping' = [dropping EXCEPT ![w] = FALSE]
  /\ UNCHANGED <<pc, hold, threw, errors, late, crashes>>

\* Its DEL throws: the rejection is nobody's, and handleShutdown ends the process.
DropLockThrows(w) ==
  /\ dropping[w] /\ Throw
  /\ Exit(w, key) \/ Exit(w, Free)
  /\ UNCHANGED crashes

\* handleShutdown, or a crash.
Shutdown(w) ==
  /\ pc[w] # "down" /\ crashes < MaxCrashes
  /\ crashes' = crashes + 1
  /\ Exit(w, key)
  /\ UNCHANGED errors

Restart(w) ==
  /\ pc[w] = "down"
  /\ Goto(w, "idle")
  /\ UNCHANGED <<key, hold, timer, dropping, open, threw, errors, late, crashes>>

\* A command whose time has come: an event loop that is not blocked and a
\* connection that is up run it before the next tick.
Due(w) == timer[w] = 0 \/ pc[w] \in {"renew", "failed", "failedHold"} \/ dropping[w]

Tick ==
  /\ IF \E w \in Workers : Due(w) THEN late < MaxLate /\ late' = late + 1
                                  ELSE late' = late
  /\ key' = IF key.ttl <= 1 THEN Free ELSE [key EXCEPT !.ttl = @ - 1]
  /\ timer' = [w \in Workers |-> IF timer[w] \in 1..Half THEN timer[w] - 1 ELSE timer[w]]
  /\ UNCHANGED <<pc, hold, dropping, open, threw, errors, crashes>>

Run(w) ==
  \/ Disconnected(w) \/ AcquireLock(w) \/ IsCurrentLock(w) \/ StartRenewal(w)
  \/ StopFailedStart(w) \/ EndCallback(w) \/ StopRenewal(w)

Errors(w) == StartRenewalThrows(w) \/ CallThrows(w) \/ RenewThrows(w) \/ DropLockThrows(w)

Next ==
  \/ \E w \in Workers :
       \/ \E h \in HoldChoices : Start(w, h)
       \/ Run(w) \/ Renew(w) \/ DropLock(w) \/ Errors(w) \/ Shutdown(w) \/ Restart(w)
  \/ Tick

\* Time passes; a process that is up goes on with its calls and its timers.
Fairness ==
  /\ WF_vars(Tick)
  /\ \A w \in Workers : WF_vars(Run(w)) /\ WF_vars(Renew(w)) /\ WF_vars(DropLock(w))

Spec == Init /\ [][Next]_vars /\ Fairness

-----------------------------------------------------------------------------
Inside == {w \in Workers : pc[w] = "callback"}

\* The variables keep their types, and a key that exists has time left.
TypeOK ==
  /\ key \in [owner : Workers \union {Nobody, Lost}, ttl : 0..TTL]
  /\ key.owner = Nobody <=> key.ttl = 0
  /\ pc \in [Workers -> {"idle", "acquire", "compare", "renew", "callback", "finish",
                         "held", "failed", "failedHold", "down"}]
  /\ hold \in [Workers -> BOOLEAN]
  /\ timer \in [Workers -> 0..Off]
  /\ dropping \in [Workers -> BOOLEAN]
  /\ open \in [Workers -> BOOLEAN]
  /\ threw \in [Workers -> BOOLEAN]
  /\ errors \in 0..MaxErrors /\ late \in 0..MaxLate /\ crashes \in 0..MaxCrashes

\* As long as no renewal came late, two workers run their callbacks at once only
\* if a renewal of one of them threw: its manager has closed, and its callback
\* goes on.  Releases, lapsed leases of stopped processes, held locks and other
\* commands that throw never let a second worker in.
MutualExclusion ==
  late = 0 => \A v, w \in Inside :
                v # w => \E x \in {v, w} : threw[x] /\ ~open[x]

Deletes(w) ==
  \/ StopRenewal(w) \/ StopFailedStart(w) \/ DropLock(w)
  \/ CallThrows(w) \/ DropLockThrows(w)

\* As long as no renewal came late, the key is deleted by its owner only, so a
\* worker never ends the lease of another although releaseLock does not compare:
\* neither at the end of its call nor after a renewal that failed or threw.
OnlyOwnLockDeleted ==
  [][\A w \in Workers :
       late = 0 /\ Deletes(w) /\ key' = Free => key.owner \in {w, Nobody}]_vars

\* Once its process is gone nothing prolongs a lease: a late renewal of another
\* worker, which still believes it has the lock, does not keep it alive.
LostLeaseNotProlonged ==
  [][key.owner = Lost /\ key'.owner = Lost => key'.ttl <= key.ttl]_vars

\* No key stays for ever but that of a worker that holds on: whether callbacks
\* end, renewals come late or processes stop, it is released, lapses or goes.
LockFreed ==
  /\ \A w \in Workers : key.owner = w /\ ~hold[w] ~> key.owner # w \/ hold[w]
  /\ key.owner = Lost ~> key.owner # Lost
=============================================================================
