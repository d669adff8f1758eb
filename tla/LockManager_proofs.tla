------------------------- MODULE LockManager_proofs -------------------------
(***************************************************************************)
(* Proofs about LockManager for any set of workers and any bounds: the     *)
(* variables keep their types, punctual renewals give mutual exclusion and *)
(* safe deletes, and the lease of a lost process is never prolonged.       *)
(***************************************************************************)
EXTENDS LockManager, TLAPS

\* The strengthening of MutualExclusion: as long as nothing came late, whoever
\* has an interval running on an open connection owns the key, with one tick more
\* to live than the interval waits; whoever is about to renew, or to give up after
\* a renewal that threw, owns it; and nothing but such a renewal closes a manager
\* before its call ends.
Punctual ==
  late = 0 =>
    \A w \in Workers :
      /\ dropping[w] \/ pc[w] \in {"failed", "failedHold"}
           => open[w] /\ key.owner = w /\ threw[w]
      /\ pc[w] \in {"failed", "failedHold"} => ~dropping[w] /\ timer[w] = Off
      /\ open[w] /\ timer[w] # Off => key.owner = w /\ key.ttl = timer[w] + 1
      /\ pc[w] = "renew" /\ open[w] => key.owner = w
      /\ pc[w] \in {"callback", "finish"} =>
           IF open[w] THEN dropping[w] \/ timer[w] # Off ELSE threw[w]

Inv == TypeOK /\ Punctual

-----------------------------------------------------------------------------
\* The initial state is of the right types and nothing has been taken.
LEMMA InitInv == Init => Inv
BY WorkersAssumption DEF Init, Inv, TypeOK, Punctual, Free, Off, Half, TTL

\* The steps of executeWithLock that reach the key keep the types.
LEMMA RunKeepsType ==
  ASSUME TypeOK, NEW w \in Workers, Run(w)
  PROVE  TypeOK'
<1> USE WorkersAssumption DEF TypeOK, Goto, Off, Half, TTL
<1>1. CASE Disconnected(w)  BY <1>1 DEF Disconnected
<1>2. CASE AcquireLock(w)   BY <1>2 DEF AcquireLock
<1>3. CASE IsCurrentLock(w)
  <2>1. CASE key.owner = w /\ UNCHANGED <<timer, open>>
    BY <1>3, <2>1 DEF IsCurrentLock
  <2>2. CASE Close(w)
    BY <1>3, <2>2 DEF IsCurrentLock, Close
  <2> QED BY <1>3, <2>1, <2>2 DEF IsCurrentLock
<1>4. CASE StartRenewal(w)  BY <1>4 DEF StartRenewal, RenewHoldTTL
<1>5. CASE StopFailedStart(w) BY <1>5 DEF StopFailedStart, Free
<1>6. CASE EndCallback(w)   BY <1>6 DEF EndCallback
<1>7. CASE StopRenewal(w)   BY <1>7 DEF StopRenewal, Close, Free
<1> QED BY <1>1, <1>2, <1>3, <1>4, <1>5, <1>6, <1>7 DEF Run

\* The end of a process keeps the types, whichever key it finds.
LEMMA ExitKeepsType ==
  ASSUME TypeOK, NEW w \in Workers, Exit(w, key) \/ Exit(w, Free),
         errors' \in 0..MaxErrors, crashes' \in 0..MaxCrashes
  PROVE  TypeOK'
<1> USE WorkersAssumption DEF TypeOK, Exit, Close, Goto, Free, Off, Half, TTL
<1>1. CASE Exit(w, key)
  BY <1>1
<1>2. CASE Exit(w, Free)
  BY <1>2
<1> QED BY <1>1, <1>2

\* Nor does a command that throws change them.
LEMMA ErrorsKeepType ==
  ASSUME TypeOK, NEW w \in Workers, Errors(w)
  PROVE  TypeOK'
<1> USE WorkersAssumption DEF TypeOK, Throw, Goto, Off, Half, TTL
<1>1. CASE StartRenewalThrows(w)
  BY <1>1 DEF StartRenewalThrows, RenewHoldTTL
<1>2. CASE CallThrows(w)
  BY <1>2 DEF CallThrows, Abandon, Ready, Free
<1>3. CASE RenewThrows(w)
  BY <1>3 DEF RenewThrows, RenewHoldTTL
<1>4. CASE DropLockThrows(w)
  <2>1. errors' \in 0..MaxErrors /\ crashes' \in 0..MaxCrashes
    BY <1>4 DEF DropLockThrows
  <2> QED BY <1>4, <2>1, ExitKeepsType DEF DropLockThrows
<1> QED BY <1>1, <1>2, <1>3, <1>4 DEF Errors

\* Every step keeps the types.
LEMMA StepKeepsType == TypeOK /\ [Next]_vars => TypeOK'
<1> SUFFICES ASSUME TypeOK, [Next]_vars PROVE TypeOK'
  OBVIOUS
<1> USE WorkersAssumption DEF TypeOK, Goto, Off, Half, TTL
<1>1. ASSUME NEW w \in Workers, NEW h \in HoldChoices, Start(w, h) PROVE TypeOK'
  BY <1>1 DEF Start
<1>2. ASSUME NEW w \in Workers, Run(w) PROVE TypeOK'
  BY <1>2, RunKeepsType
<1>3. ASSUME NEW w \in Workers, Renew(w) PROVE TypeOK'
  <2>1. CASE Ready(w)
    BY <1>3, <2>1 DEF Renew, RenewHoldTTL, Ready, Exit, Close
  <2>2. CASE Exit(w, key)
    BY <1>3, <2>2, ExitKeepsType DEF Renew
  <2> QED BY <1>3, <2>1, <2>2 DEF Renew
<1>4. ASSUME NEW w \in Workers, DropLock(w) PROVE TypeOK'
  BY <1>4 DEF DropLock, Close, Free
<1>5. ASSUME NEW w \in Workers, Shutdown(w) PROVE TypeOK'
  BY <1>5, ExitKeepsType DEF Shutdown
<1>6. ASSUME NEW w \in Workers, Restart(w) PROVE TypeOK'
  BY <1>6 DEF Restart
<1>7. CASE Tick
  BY <1>7 DEF Tick, Free
<1>8. ASSUME NEW w \in Workers, Errors(w) PROVE TypeOK'
  BY <1>8, ErrorsKeepType
<1>9. CASE UNCHANGED vars
  BY <1>9 DEF vars
<1> QED BY <1>1, <1>2, <1>3, <1>4, <1>5, <1>6, <1>7, <1>8, <1>9 DEF Next

\* A worker that gives up the lock after its renewal threw disturbs nobody: the
\* key was its own, and its manager is closed.
LEMMA OwnerGivesUp ==
  ASSUME Inv, NEW w \in Workers, NEW p, NEW t,
         late = 0 => key.owner = w /\ threw[w],
         p \in {"callback", "held", pc[w]} \ {"failed", "failedHold"},
         key' = Free, open' = [open EXCEPT ![w] = FALSE], pc' = [pc EXCEPT ![w] = p],
         timer' = [timer EXCEPT ![w] = t], late = 0 => dropping' = [dropping EXCEPT ![w] = FALSE],
         UNCHANGED <<threw, late>>
  PROVE  Punctual'
<1> USE WorkersAssumption DEF Inv, TypeOK, Punctual, Free
<1> SUFFICES ASSUME late = 0, NEW v \in Workers
    PROVE /\ dropping'[v] \/ pc'[v] \in {"failed", "failedHold"}
               => open'[v] /\ key'.owner = v /\ threw'[v]
          /\ pc'[v] \in {"failed", "failedHold"} => ~dropping'[v] /\ timer'[v] = Off
          /\ open'[v] /\ timer'[v] # Off => key'.owner = v /\ key'.ttl = timer'[v] + 1
          /\ pc'[v] = "renew" /\ open'[v] => key'.owner = v
          /\ pc'[v] \in {"callback", "finish"} =>
               IF open'[v] THEN dropping'[v] \/ timer'[v] # Off ELSE threw'[v]
  BY DEF Off, Half
<1>1. CASE v = w
  BY <1>1
<1>2. CASE v # w
  BY <1>2
<1> QED BY <1>1, <1>2

\* The steps of executeWithLock keep the lease with its owner.
LEMMA RunKeepsPunctual ==
  ASSUME Inv, NEW w \in Workers, Run(w)
  PROVE  Punctual'
<1> USE WorkersAssumption DEF Inv, TypeOK, Punctual, Ready, Goto, Off, Half, TTL
<1>1. CASE Disconnected(w)  BY <1>1 DEF Disconnected
<1>2. CASE AcquireLock(w)   BY <1>2 DEF AcquireLock
<1>3. CASE IsCurrentLock(w) BY <1>3 DEF IsCurrentLock, Close
<1>4. CASE StartRenewal(w)  BY <1>4 DEF StartRenewal, RenewHoldTTL
<1>5. CASE StopFailedStart(w)
  <2>1. late = 0 => /\ key.owner = w /\ threw[w]
                    /\ dropping' = [dropping EXCEPT ![w] = FALSE]
    BY <1>5 DEF StopFailedStart
  <2>2. CASE Goto(w, "callback")
    BY <1>5, <2>1, <2>2, OwnerGivesUp DEF StopFailedStart
  <2>3. CASE Goto(w, "held")
    BY <1>5, <2>1, <2>3, OwnerGivesUp DEF StopFailedStart
  <2> QED BY <1>5, <2>2, <2>3 DEF StopFailedStart
<1>6. CASE EndCallback(w)   BY <1>6 DEF EndCallback
<1>7. CASE StopRenewal(w)   BY <1>7 DEF StopRenewal, Close, Free
<1> QED BY <1>1, <1>2, <1>3, <1>4, <1>5, <1>6, <1>7 DEF Run

\* A command that throws leaves the key with its owner or ends the lease.
LEMMA ErrorsKeepPunctual ==
  ASSUME Inv, NEW w \in Workers, Errors(w)
  PROVE  Punctual'
<1> USE WorkersAssumption DEF Inv, TypeOK, Punctual, Ready, Throw, Goto, Off, Half, TTL
<1>1. CASE StartRenewalThrows(w)
  BY <1>1 DEF StartRenewalThrows, RenewHoldTTL
<1>2. CASE CallThrows(w)
  BY <1>2 DEF CallThrows, Abandon, Ready, Free
<1>3. CASE RenewThrows(w)
  BY <1>3 DEF RenewThrows, RenewHoldTTL
<1>4. CASE DropLockThrows(w)
  BY <1>4 DEF DropLockThrows, Exit, Close, Free
<1> QED BY <1>1, <1>2, <1>3, <1>4 DEF Errors

\* So does every other step: a tick shortens lease and interval alike, and is
\* not punctual when a renewal is due.
LEMMA StepKeepsPunctual == Inv /\ [Next]_vars => Punctual'
<1> SUFFICES ASSUME Inv, [Next]_vars PROVE Punctual'
  OBVIOUS
<1> USE WorkersAssumption DEF Inv, TypeOK, Punctual, Ready, Goto, Off, Half, TTL
<1>1. ASSUME NEW w \in Workers, NEW h \in HoldChoices, Start(w, h) PROVE Punctual'
  BY <1>1 DEF Start
<1>2. ASSUME NEW w \in Workers, Run(w) PROVE Punctual'
  BY <1>2, RunKeepsPunctual
<1>3. ASSUME NEW w \in Workers, Renew(w) PROVE Punctual'
  BY <1>3 DEF Renew, RenewHoldTTL, Exit, Close
<1>4. ASSUME NEW w \in Workers, DropLock(w) PROVE Punctual'
  <2>1. CASE late = 0
    <3>1. pc[w] \notin {"failed", "failedHold"} /\ key.owner = w /\ threw[w]
      BY <1>4, <2>1 DEF DropLock
    <3>2. pc' = [pc EXCEPT ![w] = pc[w]]
      BY <1>4 DEF DropLock
    <3> QED BY <1>4, <3>1, <3>2, OwnerGivesUp DEF DropLock, Close
  <2>2. CASE late # 0
    BY <1>4, <2>2 DEF DropLock
  <2> QED BY <2>1, <2>2
<1>5. ASSUME NEW w \in Workers, Shutdown(w) PROVE Punctual'
  BY <1>5 DEF Shutdown, Exit, Close
<1>6. ASSUME NEW w \in Workers, Restart(w) PROVE Punctual'
  BY <1>6 DEF Restart
<1>7. CASE Tick
  BY <1>7 DEF Tick, Free, Due
<1>8. ASSUME NEW w \in Workers, Errors(w) PROVE Punctual'
  BY <1>8, ErrorsKeepPunctual
<1>9. CASE UNCHANGED vars
  BY <1>9 DEF vars
<1> QED BY <1>1, <1>2, <1>3, <1>4, <1>5, <1>6, <1>7, <1>8, <1>9 DEF Next

\* The invariant holds in every state of every behaviour.
LEMMA Invariance == Spec => []Inv
<1>1. Inv /\ [Next]_vars => Inv'
  BY StepKeepsType, StepKeepsPunctual DEF Inv
<1> QED BY InitInv, <1>1, PTL DEF Spec

\* For any number of workers, held locks, crashes and restarts: the state of the
\* lock manager keeps its types.
THEOREM LockTypeCorrect == Spec => []TypeOK
BY Invariance, PTL DEF Inv

\* For any number of workers: while every renewal runs when it is due, the
\* callbacks of two workers overlap only if a renewal of one of them threw, whose
\* manager has closed.
THEOREM LockMutualExclusion == Spec => []MutualExclusion
<1>1. Inv => MutualExclusion
  BY WorkersAssumption DEF Inv, TypeOK, Punctual, MutualExclusion, Inside
<1> QED BY Invariance, <1>1, PTL

\* For any number of workers: while every renewal runs when it is due, no worker
\* deletes the key of another, neither at the end of its call nor after a renewal
\* that failed or threw.
THEOREM LockOnlyOwnDeleted == Spec => OnlyOwnLockDeleted
<1>1. ASSUME Inv, NEW w \in Workers, late = 0, Deletes(w), key' = Free
      PROVE  key.owner \in {w, Nobody}
  <2> USE <1>1, WorkersAssumption DEF Inv, TypeOK, Punctual
  <2>1. CASE StopRenewal(w)
    BY <2>1 DEF StopRenewal, Ready
  <2>2. CASE StopFailedStart(w)
    BY <2>2 DEF StopFailedStart
  <2>3. CASE DropLock(w)
    BY <2>3 DEF DropLock
  <2>4. CASE CallThrows(w)
    BY <2>4 DEF CallThrows, Abandon, Ready, Free, TTL, Half
  <2>5. CASE DropLockThrows(w)
    BY <2>5 DEF DropLockThrows
  <2> QED BY <2>1, <2>2, <2>3, <2>4, <2>5 DEF Deletes
<1>2. Inv => [\A w \in Workers : late = 0 /\ Deletes(w) /\ key' = Free
                               => key.owner \in {w, Nobody}]_vars
  BY <1>1
<1> QED BY Invariance, <1>2, PTL DEF OnlyOwnLockDeleted

\* The steps of executeWithLock do not prolong the lease of a process that is
\* gone: the commands that write the key compare its owner first.
LEMMA RunProlongsNoLostLease ==
  ASSUME TypeOK, NEW w \in Workers, Run(w), key.owner = Lost, key'.owner = Lost
  PROVE  key'.ttl <= key.ttl
<1> USE WorkersAssumption DEF TypeOK
<1>1. CASE Disconnected(w)  BY <1>1 DEF Disconnected
<1>2. CASE AcquireLock(w)   BY <1>2 DEF AcquireLock
<1>3. CASE IsCurrentLock(w) BY <1>3 DEF IsCurrentLock
<1>4. CASE StartRenewal(w)  BY <1>4 DEF StartRenewal, RenewHoldTTL
<1>5. CASE StopFailedStart(w) BY <1>5 DEF StopFailedStart, Free
<1>6. CASE EndCallback(w)   BY <1>6 DEF EndCallback
<1>7. CASE StopRenewal(w)   BY <1>7 DEF StopRenewal, Free
<1> QED BY <1>1, <1>2, <1>3, <1>4, <1>5, <1>6, <1>7 DEF Run

\* Nor does a command that throws.
LEMMA ErrorsProlongNoLostLease ==
  ASSUME TypeOK, NEW w \in Workers, Errors(w), key.owner = Lost, key'.owner = Lost
  PROVE  key'.ttl <= key.ttl
<1> USE WorkersAssumption DEF TypeOK
<1>1. CASE StartRenewalThrows(w)
  BY <1>1 DEF StartRenewalThrows, RenewHoldTTL
<1>2. CASE CallThrows(w)
  BY <1>2 DEF CallThrows, Abandon, Ready, Free
<1>3. CASE RenewThrows(w)
  BY <1>3 DEF RenewThrows, RenewHoldTTL
<1>4. CASE DropLockThrows(w)
  BY <1>4 DEF DropLockThrows, Exit, Close, Free
<1> QED BY <1>1, <1>2, <1>3, <1>4 DEF Errors

\* For any number of workers, punctual or late: once a process is gone, nothing
\* prolongs the lease it has left behind.
THEOREM LockLostLeaseEnds == Spec => LostLeaseNotProlonged
<1>1. ASSUME TypeOK, [Next]_vars, key.owner = Lost, key'.owner = Lost
      PROVE  key'.ttl <= key.ttl
  <2> USE <1>1, WorkersAssumption DEF TypeOK
  <2>1. ASSUME NEW w \in Workers, NEW h \in HoldChoices, Start(w, h) PROVE key'.ttl <= key.ttl
    BY <2>1 DEF Start
  <2>2. ASSUME NEW w \in Workers, Run(w) PROVE key'.ttl <= key.ttl
    BY <2>2, RunProlongsNoLostLease
  <2>3. ASSUME NEW w \in Workers, Renew(w) PROVE key'.ttl <= key.ttl
    BY <2>3 DEF Renew, RenewHoldTTL, Exit
  <2>4. ASSUME NEW w \in Workers, DropLock(w) PROVE key'.ttl <= key.ttl
    BY <2>4 DEF DropLock, Free
  <2>5. ASSUME NEW w \in Workers, Shutdown(w) PROVE key'.ttl <= key.ttl
    BY <2>5 DEF Shutdown, Exit
  <2>6. ASSUME NEW w \in Workers, Restart(w) PROVE key'.ttl <= key.ttl
    BY <2>6 DEF Restart
  <2>7. CASE Tick
    BY <2>7 DEF Tick, Free, TTL, Half
  <2>8. ASSUME NEW w \in Workers, Errors(w) PROVE key'.ttl <= key.ttl
    BY <2>8, ErrorsProlongNoLostLease
  <2>9. CASE UNCHANGED vars
    BY <2>9 DEF vars
  <2> QED BY <2>1, <2>2, <2>3, <2>4, <2>5, <2>6, <2>7, <2>8, <2>9 DEF Next
<1>2. TypeOK /\ [Next]_vars
        => [key.owner = Lost /\ key'.owner = Lost => key'.ttl <= key.ttl]_vars
  BY <1>1
<1> QED BY LockTypeCorrect, <1>2, PTL DEF Spec, LostLeaseNotProlonged
=============================================================================
