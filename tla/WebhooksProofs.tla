--------------------------- MODULE WebhooksProofs --------------------------
(***************************************************************************)
(* What holds of Webhooks for every set of events, accounts and workers,   *)
(* every number of attempts and every number of crashes and delays.        *)
(***************************************************************************)
EXTENDS Webhooks, TLAPS

USE NamesAssumption, AccountAssumption, LimitsAssumption

Steps == {"idle", "lock", "defer", "claim", "run", "unlock"} \cup Outcomes

\* A worker that has both locks has the lock of its event's account.
Locked ==
  \A w \in Workers :
    worker[w].pc \in {"claim", "run"} \cup Outcomes =>
      accountLock[AccountOf[worker[w].event]] = w

\* A worker that has not tried the locks has none.
NoLocksYet ==
  \A w \in Workers :
    worker[w].pc = "lock" => /\ \A e \in Events : eventLock[e] # w
                             /\ \A a \in Accounts : accountLock[a] # w

\* The attempts of an event count its handlers, and one is left when queued.
Counted ==
  \A e \in Events :
    /\ runs[e] = attempts[e]
    /\ attempts[e] <= MaxAttempts
    /\ status[e] = "QUEUED" => attempts[e] < MaxAttempts

\* The inductive invariant.
IInv == TypeOK /\ Locked /\ NoLocksYet /\ LiveHandlerKeepsEvent /\ Counted

-----------------------------------------------------------------------------
(* How the workers' records change.                                        *)

\* A busy worker has an event.
LEMMA Busy ==
  ASSUME TypeOK, NEW w \in Workers, worker[w].pc # "idle"
  PROVE  worker[w].event \in Events /\ AccountOf[worker[w].event] \in Accounts
BY DEF TypeOK, Worker

\* Moving a worker to another step leaves its event and the others alone.
LEMMA DoingMoves ==
  ASSUME TypeOK, NEW w \in Workers, NEW pc \in Steps, worker' = Doing(w, pc)
  PROVE  /\ worker' \in [Workers -> Worker]
         /\ worker'[w].pc = pc
         /\ worker'[w].event = worker[w].event /\ worker'[w].fresh = worker[w].fresh
         /\ \A v \in Workers : v # w => worker'[v] = worker[v]
<1>1. worker \in [Workers -> Worker]
  BY DEF TypeOK
<1>2. worker[w] \in [pc : Steps, event : Events \cup {Nobody}, fresh : BOOLEAN]
  BY <1>1 DEF Worker, Steps
<1> DEFINE m == [worker[w] EXCEPT !.pc = pc]
<1>3. /\ m \in [pc : Steps, event : Events \cup {Nobody}, fresh : BOOLEAN]
      /\ m.pc = pc /\ m.event = worker[w].event /\ m.fresh = worker[w].fresh
  BY <1>2
<1>4. worker' = [worker EXCEPT ![w] = m]
  BY <1>1 DEF Doing
<1> HIDE DEF m
<1>5. QED
  BY <1>1, <1>3, <1>4 DEF Worker, Steps

\* A new generation only makes the workers of the event stale.
LEMMA NewGenerationMoves ==
  ASSUME TypeOK, NEW e \in Events, NewGeneration(e)
  PROVE  /\ worker' \in [Workers -> Worker]
         /\ \A w \in Workers : /\ worker'[w].pc = worker[w].pc
                               /\ worker'[w].event = worker[w].event
                               /\ worker[w].event # e => worker'[w] = worker[w]
<1> DEFINE m(w) == [worker[w] EXCEPT !.fresh = FALSE]
<1>1. worker \in [Workers -> Worker]
  BY DEF TypeOK
<1>2. ASSUME NEW w \in Workers
      PROVE  m(w) \in Worker /\ m(w).pc = worker[w].pc /\ m(w).event = worker[w].event
  <2>1. worker[w] \in [pc : Steps, event : Events \cup {Nobody}, fresh : BOOLEAN]
    BY <1>1 DEF Worker, Steps
  <2>2. QED
    BY <2>1 DEF Worker, Steps
<1>3. worker' = [w \in Workers |-> IF worker[w].event = e THEN m(w) ELSE worker[w]]
  BY DEF NewGeneration
<1> HIDE DEF m
<1>4. QED
  BY <1>1, <1>2, <1>3

\* A worker that becomes idle leaves the others alone.
LEMMA IdleMoves ==
  ASSUME TypeOK, NEW w \in Workers, worker' = [worker EXCEPT ![w] = Idle]
  PROVE  /\ worker' \in [Workers -> Worker]
         /\ worker'[w].pc = "idle" /\ worker'[w].event = Nobody
         /\ \A v \in Workers : v # w => worker'[v] = worker[v]
<1>1. worker \in [Workers -> Worker] /\ Idle \in Worker
  BY DEF TypeOK, Worker, Idle
<1>2. Idle.pc = "idle" /\ Idle.event = Nobody
  BY DEF Idle
<1>3. QED
  BY <1>1, <1>2

\* Releasing takes every lock of the worker and no other.
LEMMA ReleasedLocks ==
  ASSUME NEW D, NEW lock \in [D -> Workers \cup {Nobody}], NEW w \in Workers
  PROVE  /\ Released(lock, w) \in [D -> Workers \cup {Nobody}]
         /\ \A x \in D : /\ Released(lock, w)[x] # w
                         /\ lock[x] # w => Released(lock, w)[x] = lock[x]
                         /\ lock[x] = w => Released(lock, w)[x] = Nobody
BY DEF Released

-----------------------------------------------------------------------------
(* The invariant is kept.                                                  *)

\* Initially there is nothing.
LEMMA InitIInv == Init => IInv
BY DEF Init, IInv, TypeOK, Locked, NoLocksYet, LiveHandlerKeepsEvent, Counted,
       Handling, Outcomes, Statuses, Worker, Idle

\* Steps of the service, the publisher and the accounts.
LEMMA EventTypes ==
  ASSUME IInv, NEW e \in Events,
         \/ Receive(e) \/ AdminRetry(e) \/ AdminIgnore(e) \/ Publish(e)
         \/ PublishDelayed(e) \/ AddJob(e) \/ AddFails(e)
  PROVE  TypeOK'
<1> USE DEF table, locks, bounds, Statuses
<1>t. TypeOK
  BY DEF IInv
<1>1. CASE Receive(e)
  BY <1>t, <1>1 DEF Receive, TypeOK
<1>2. CASE AdminRetry(e)
  <2>1. NewGeneration(e)
    BY <1>2 DEF AdminRetry
  <2>2. QED
    BY <1>t, <1>2, <2>1, NewGenerationMoves DEF AdminRetry, Act, TypeOK
<1>3. CASE AdminIgnore(e)
  BY <1>t, <1>3 DEF AdminIgnore, Act, TypeOK
<1>4. ASSUME Requeue(e)
      PROVE  /\ status' \in [Events -> Statuses]
             /\ job' \in [Events -> {"none", "held", "waiting"}]
             /\ worker' \in [Workers -> Worker]
             /\ \A w \in Workers : /\ worker'[w].pc = worker[w].pc
                                   /\ worker'[w].event = worker[w].event
  <2>1. CASE NewGeneration(e)
    BY <1>t, <1>4, <2>1, NewGenerationMoves DEF Requeue, TypeOK
  <2>2. CASE worker' = worker
    BY <1>t, <1>4, <2>2 DEF Requeue, TypeOK
  <2>3. QED
    BY <1>4, <2>1, <2>2 DEF Requeue
<1>5. CASE Publish(e)
  BY SMTT(30), <1>t, <1>4, <1>5 DEF Publish, TypeOK
<1>6. CASE PublishDelayed(e)
  BY SMTT(30), <1>t, <1>4, <1>6 DEF PublishDelayed, TypeOK
<1>7. CASE AddJob(e)
  BY <1>t, <1>7 DEF AddJob, TypeOK
<1>8. CASE AddFails(e)
  BY <1>t, <1>8 DEF AddFails, TypeOK
<1>9. QED
  BY <1>1, <1>2, <1>3, <1>5, <1>6, <1>7, <1>8

\* Steps of the workers.
LEMMA WorkerTypes ==
  ASSUME IInv, NEW w \in Workers,
         \/ \E e \in Events : Take(w, e)
         \/ WorkerStep(w) \/ WorkerCrash(w) \/ Stall(w)
  PROVE  TypeOK'
<1> USE DEF table, locks, bounds, Statuses
<1>t. TypeOK
  BY DEF IInv
<1> DEFINE ev == worker[w].event
<1>i. Idle \in Worker /\ Idle.pc = "idle" /\ Idle.event = Nobody
  BY DEF Idle, Worker
<1>m. ASSUME NEW pc \in Steps, pc # "idle", worker[w].pc # "idle",
             worker' = Doing(w, pc)
      PROVE  /\ worker' \in [Workers -> Worker]
             /\ \A v \in Workers : /\ worker'[v].event = worker[v].event
                                   /\ worker'[v].event = Nobody <=> worker'[v].pc = "idle"
  BY <1>t, <1>m, DoingMoves, Busy DEF TypeOK
<1>1. CASE \E e \in Events : Take(w, e)
  <2> SUFFICES ASSUME NEW e \in Events, Take(w, e)  PROVE TypeOK'
    BY <1>1
  <2> DEFINE r == IF status[e] = "QUEUED" THEN [pc |-> "lock", event |-> e, fresh |-> TRUE]
                                          ELSE Idle
  <2>1. r \in Worker /\ (r.event = Nobody <=> r.pc = "idle")
    BY <1>i DEF Worker
  <2>2. worker' = [worker EXCEPT ![w] = r] /\ worker[w].event = Nobody
    BY <1>t DEF Take, TypeOK
  <2>3. /\ worker' \in [Workers -> Worker] /\ worker'[w] = r
        /\ \A v \in Workers : v # w => worker'[v] = worker[v]
    BY <1>t, <2>1, <2>2 DEF TypeOK
  <2> HIDE DEF r
  <2>4. QED
    BY <1>t, <2>1, <2>2, <2>3 DEF Take, TypeOK
<1>2. CASE TryLocks(w)
  <2>1. worker[w].pc = "lock" /\ ev \in Events /\ AccountOf[ev] \in Accounts
    BY <1>t, <1>2, Busy DEF TryLocks
  <2>2. CASE eventLock[ev] # Nobody
    <3>1. worker' = [worker EXCEPT ![w] = Idle] /\ UNCHANGED locks
      BY <1>2, <2>2 DEF TryLocks
    <3>2. /\ \A e \in Events : eventLock[e] # w
          /\ \A a \in Accounts : accountLock[a] # w
      BY <2>1 DEF IInv, NoLocksYet
    <3>3. /\ worker' \in [Workers -> Worker]
          /\ worker'[w].pc = "idle" /\ worker'[w].event = Nobody
          /\ \A v \in Workers : v # w => worker'[v] = worker[v]
      BY <1>t, <3>1, IdleMoves
    <3>4. UNCHANGED <<table, job, cooldown, connected, bounds>>
      BY <1>2 DEF TryLocks
    <3>5. QED
      BY <1>t, <3>1, <3>2, <3>3, <3>4 DEF TypeOK
  <2>3. CASE eventLock[ev] = Nobody
    <3>1. worker' = Doing(w, "claim") \/ worker' = Doing(w, "defer")
      BY <1>2, <2>3 DEF TryLocks
    <3>2. /\ worker' \in [Workers -> Worker]
          /\ \A v \in Workers : /\ worker'[v].event = worker[v].event
                                /\ worker'[v].event = Nobody <=> worker'[v].pc = "idle"
      BY <1>m, <2>1, <3>1 DEF Steps
    <3>3. /\ eventLock' = [eventLock EXCEPT ![ev] = w]
          /\ accountLock' \in {accountLock, [accountLock EXCEPT ![AccountOf[ev]] = w]}
      BY <1>2, <2>3 DEF TryLocks
    <3>4. QED
      BY SMTT(30), <1>t, <1>2, <2>1, <3>2, <3>3 DEF TryLocks, TypeOK
  <2>4. QED
    BY <2>2, <2>3
<1>3. CASE Defer(w) \/ Claim(w) \/ Dispatch(w) \/ SaveResult(w)
  <2>1. /\ worker[w].pc # "idle"
        /\ \E pc \in Steps : pc # "idle" /\ worker' = Doing(w, pc)
    BY <1>3 DEF Defer, Claim, Dispatch, SaveResult, Steps, Outcomes
  <2>2. ev \in Events /\ AccountOf[ev] \in Accounts
    BY <1>t, <2>1, Busy
  <2>3. /\ worker' \in [Workers -> Worker]
        /\ \A v \in Workers : /\ worker'[v].event = worker[v].event
                              /\ worker'[v].event = Nobody <=> worker'[v].pc = "idle"
    BY <1>m, <2>1
  <2>4. /\ status' \in [Events -> Statuses]
        /\ attempts' \in [Events -> Nat] /\ runs' \in [Events -> Nat]
        /\ cooldown' \subseteq Accounts
    <3>1. CASE Defer(w)
      BY <1>t, <3>1, <2>2 DEF Defer, PutBack, TypeOK
    <3>2. CASE Claim(w)
      BY <1>t, <3>2, <2>2 DEF Claim, PutBack, TypeOK
    <3>3. CASE Dispatch(w)
      BY <1>t, <3>3, <2>2 DEF Dispatch, TypeOK
    <3>4. CASE SaveResult(w)
      BY <1>t, <3>4, <2>2 DEF SaveResult, TypeOK
    <3>5. QED
      BY <1>3, <3>1, <3>2, <3>3, <3>4
  <2>5. UNCHANGED <<job, locks, connected, bounds>>
    BY <1>3 DEF Defer, Claim, Dispatch, SaveResult
  <2>6. QED
    BY <1>t, <2>3, <2>4, <2>5 DEF TypeOK
<1>4. CASE Unlock(w) \/ WorkerCrash(w)
  <2>1. /\ worker' = [worker EXCEPT ![w] = Idle]
        /\ eventLock' = Released(eventLock, w)
        /\ accountLock' = Released(accountLock, w)
    BY <1>4 DEF Unlock, WorkerCrash
  <2>2. /\ eventLock' \in [Events -> Workers \cup {Nobody}]
        /\ \A e \in Events : eventLock'[e] # w
                           /\ (eventLock'[e] = eventLock[e] \/ eventLock'[e] = Nobody)
    BY <1>t, <2>1, ReleasedLocks DEF TypeOK
  <2>3. /\ accountLock' \in [Accounts -> Workers \cup {Nobody}]
        /\ \A a \in Accounts : accountLock'[a] # w
                           /\ (accountLock'[a] = accountLock[a] \/ accountLock'[a] = Nobody)
    BY <1>t, <2>1, ReleasedLocks DEF TypeOK
  <2>4. job' \in [Events -> {"none", "held", "waiting"}]
    BY <1>t, <1>4 DEF Unlock, WorkerCrash, TypeOK
  <2>5. /\ UNCHANGED <<table, cooldown, connected, delays, actions>>
        /\ crashes' \in 0..MaxCrashes
    BY <1>t, <1>4 DEF Unlock, WorkerCrash, TypeOK
  <2>6. /\ worker' \in [Workers -> Worker]
        /\ worker'[w].pc = "idle" /\ worker'[w].event = Nobody
        /\ \A v \in Workers : v # w => worker'[v] = worker[v]
    BY <1>t, <2>1, IdleMoves
  <2>7. QED
    BY <1>t, <2>2, <2>3, <2>4, <2>5, <2>6 DEF TypeOK
<1>5. CASE Stall(w)
  <2>1. job' = [job EXCEPT ![ev] = "waiting"]
    BY <1>5 DEF Stall
  <2>2. delays' = delays + 1 /\ delays < MaxDelays
    BY <1>5 DEF Stall
  <2>3. UNCHANGED <<table, worker, locks, cooldown, connected, crashes, actions>>
    BY <1>5 DEF Stall
  <2>4. delays' \in 0..MaxDelays
    BY <1>t, <2>2 DEF TypeOK
  <2>5. job' \in [Events -> {"none", "held", "waiting"}]
    BY <1>t, <2>1 DEF TypeOK
  <2>6. QED
    BY <1>t, <2>3, <2>4, <2>5 DEF TypeOK
<1>6. QED
  BY <1>1, <1>2, <1>3, <1>4, <1>5 DEF WorkerStep

\* The rest of the invariant says nothing of the other variables.
LEMMA Untouched ==
  ASSUME IInv, UNCHANGED <<table, worker, locks>>
  PROVE  Locked' /\ NoLocksYet' /\ LiveHandlerKeepsEvent' /\ Counted'
BY DEF IInv, Locked, NoLocksYet, LiveHandlerKeepsEvent, Counted, Handling,
       table, locks

\* What a step of the service or of the publisher on one event leaves alone: no
\* lock is touched, and an event being processed only if nobody has its account.
LEMMA EventFrame ==
  ASSUME IInv, NEW e \in Events,
         \/ Receive(e) \/ AdminRetry(e) \/ AdminIgnore(e) \/ Publish(e)
         \/ PublishDelayed(e) \/ AddJob(e) \/ AddFails(e)
  PROVE  /\ UNCHANGED locks
         /\ \A w \in Workers : /\ worker'[w].pc = worker[w].pc
                               /\ worker'[w].event = worker[w].event
                               /\ worker[w].event # e => worker'[w] = worker[w]
         /\ \A d \in Events : d # e => status'[d] = status[d]
         /\ status[e] = "PROCESSING" => \/ accountLock[AccountOf[e]] = Nobody
                                        \/ UNCHANGED <<status, worker>>
<1> USE DEF table, locks, bounds
<1>t. TypeOK
  BY DEF IInv
<1>1. CASE Receive(e)
  BY <1>t, <1>1 DEF Receive, TypeOK
<1>2. CASE AdminRetry(e)
  <2>1. NewGeneration(e)
    BY <1>2 DEF AdminRetry
  <2>2. QED
    BY <1>t, <1>2, <2>1, NewGenerationMoves DEF AdminRetry, TypeOK
<1>3. CASE AdminIgnore(e)
  BY <1>t, <1>3 DEF AdminIgnore, TypeOK
<1>4. ASSUME Requeue(e)
      PROVE  /\ \A w \in Workers : /\ worker'[w].pc = worker[w].pc
                                   /\ worker'[w].event = worker[w].event
                                   /\ worker[w].event # e => worker'[w] = worker[w]
             /\ \A d \in Events : d # e => status'[d] = status[d]
  <2>1. CASE NewGeneration(e)
    BY <1>t, <1>4, <2>1, NewGenerationMoves DEF Requeue, TypeOK
  <2>2. CASE worker' = worker
    BY <1>t, <1>4, <2>2 DEF Requeue, TypeOK
  <2>3. QED
    BY <1>4, <2>1, <2>2 DEF Requeue
<1>5. CASE Publish(e)
  BY <1>t, <1>4, <1>5 DEF Publish, Publishable, Interrupted
<1>6. CASE PublishDelayed(e)
  BY <1>t, <1>4, <1>6 DEF PublishDelayed
<1>7. CASE AddJob(e)
  BY <1>t, <1>7 DEF AddJob
<1>8. CASE AddFails(e)
  BY <1>t, <1>8 DEF AddFails, TypeOK
<1>9. QED
  BY <1>1, <1>2, <1>3, <1>5, <1>6, <1>7, <1>8

\* The same steps keep the count of attempts.
LEMMA EventCounts ==
  ASSUME IInv, NEW e \in Events,
         \/ Receive(e) \/ AdminRetry(e) \/ AdminIgnore(e) \/ Publish(e)
         \/ PublishDelayed(e) \/ AddJob(e) \/ AddFails(e)
  PROVE  Counted'
<1> USE DEF table, bounds
<1>t. TypeOK /\ Counted
  BY DEF IInv
<1>1. CASE UNCHANGED <<attempts, runs>>
  <2>1. \/ status' \in {[status EXCEPT ![e] = s] : s \in Statuses \ {"QUEUED"}}
        \/ status' = status
        \/ status' = [status EXCEPT ![e] = "QUEUED"] /\ ~(attempts[e] >= MaxAttempts)
    <3>1. CASE Receive(e) \/ AdminIgnore(e) \/ AddJob(e)
      BY <3>1 DEF Receive, AdminIgnore, AddJob, Statuses
    <3>2. CASE AdminRetry(e)
      BY <3>2 DEF AdminRetry, Statuses
    <3>3. CASE AddFails(e)
      BY ZenonT(30), <1>t, <3>3 DEF AddFails, Statuses, TypeOK
    <3>4. CASE Publish(e) \/ PublishDelayed(e)
      BY <3>4 DEF Publish, PublishDelayed, Requeue, Statuses
    <3>5. QED
      BY <3>1, <3>2, <3>3, <3>4
  <2>2. QED
    BY <1>t, <1>1, <2>1 DEF Counted, TypeOK, Statuses
<1>2. CASE AdminRetry(e)
  BY <1>t, <1>2 DEF AdminRetry, Counted, TypeOK
<1>3. QED
  BY <1>1, <1>2 DEF Receive, AdminIgnore, AddJob, AddFails, Publish, PublishDelayed

\* Hence they keep the invariant.
LEMMA EventInvariant ==
  ASSUME IInv, NEW e \in Events,
         \/ Receive(e) \/ AdminRetry(e) \/ AdminIgnore(e) \/ Publish(e)
         \/ PublishDelayed(e) \/ AddJob(e) \/ AddFails(e)
  PROVE  IInv'
<1>t. TypeOK /\ Locked /\ NoLocksYet /\ LiveHandlerKeepsEvent
  BY DEF IInv
<1>f. /\ UNCHANGED locks
      /\ \A w \in Workers : /\ worker'[w].pc = worker[w].pc
                            /\ worker'[w].event = worker[w].event
                            /\ worker[w].event # e => worker'[w] = worker[w]
      /\ \A d \in Events : d # e => status'[d] = status[d]
      /\ status[e] = "PROCESSING" => \/ accountLock[AccountOf[e]] = Nobody
                                     \/ UNCHANGED <<status, worker>>
  BY EventFrame
<1>1. Locked' /\ NoLocksYet'
  BY <1>t, <1>f DEF Locked, NoLocksYet, locks
<1>2. LiveHandlerKeepsEvent'
  <2> SUFFICES ASSUME NEW w \in Workers, worker'[w].pc \in {"run"} \cup Outcomes
               PROVE  worker'[w].fresh /\ status'[worker'[w].event] = "PROCESSING"
    BY DEF LiveHandlerKeepsEvent, Handling
  <2>1. worker[w].pc \in {"run"} \cup Outcomes
    BY <1>f
  <2>2. worker[w].fresh /\ status[worker[w].event] = "PROCESSING"
    BY <1>t, <2>1 DEF LiveHandlerKeepsEvent, Handling
  <2>3. worker[w].event \in Events /\ accountLock[AccountOf[worker[w].event]] = w
    BY <1>t, <2>1, Busy DEF Locked, Outcomes
  <2>4. CASE worker[w].event = e
    <3>1. UNCHANGED <<status, worker>>
      BY <1>f, <2>2, <2>3, <2>4
    <3>2. QED
      BY <2>2, <3>1
  <2>5. CASE worker[w].event # e
    <3>1. worker'[w] = worker[w] /\ status'[worker[w].event] = status[worker[w].event]
      BY <1>f, <2>3, <2>5
    <3>2. QED
      BY <2>2, <3>1
  <2>6. QED
    BY <2>4, <2>5
<1>3. QED
  BY <1>1, <1>2, EventTypes, EventCounts DEF IInv

\* A step of one worker moves no other, and takes and releases only free locks
\* and its own.
LEMMA WorkerFrame ==
  ASSUME IInv, NEW w \in Workers,
         (\E e \in Events : Take(w, e)) \/ WorkerStep(w) \/ WorkerCrash(w)
  PROVE  /\ \A v \in Workers \ {w} :
              /\ worker'[v] = worker[v]
              /\ \A a \in Accounts : accountLock[a] = v => accountLock'[a] = v
              /\ \A a \in Accounts : accountLock[a] # v => accountLock'[a] # v
              /\ \A e \in Events : eventLock[e] # v => eventLock'[e] # v
         /\ worker'[w].pc = "lock" => UNCHANGED locks
<1> USE DEF locks
<1>t. TypeOK
  BY DEF IInv
<1>1. CASE \E e \in Events : Take(w, e)
  BY <1>t, <1>1 DEF Take, TypeOK, Idle
<1>2. CASE TryLocks(w)
  <2>1. worker[w].pc = "lock" /\ AccountOf[worker[w].event] \in Accounts
    BY <1>t, <1>2, Busy DEF TryLocks
  <2>2. \/ worker' = [worker EXCEPT ![w] = Idle]
        \/ worker' = Doing(w, "claim") \/ worker' = Doing(w, "defer")
    BY <1>2 DEF TryLocks
  <2>3. /\ worker'[w].pc \in {"idle", "claim", "defer"}
        /\ \A v \in Workers \ {w} : worker'[v] = worker[v]
    BY <1>t, <2>2, IdleMoves, DoingMoves DEF Steps
  <2>4. \/ UNCHANGED locks
        \/ /\ eventLock' = [eventLock EXCEPT ![worker[w].event] = w]
           /\ UNCHANGED accountLock
        \/ /\ eventLock' = [eventLock EXCEPT ![worker[w].event] = w]
           /\ accountLock[AccountOf[worker[w].event]] = Nobody
           /\ accountLock' = [accountLock EXCEPT ![AccountOf[worker[w].event]] = w]
    BY <1>2 DEF TryLocks, AccountFree
  <2>5. QED
    BY <1>t, <2>1, <2>3, <2>4 DEF TypeOK
<1>3. CASE Defer(w) \/ Claim(w) \/ Dispatch(w) \/ SaveResult(w)
  <2>1. \E pc \in Steps : pc # "lock" /\ worker' = Doing(w, pc)
    BY <1>3 DEF Defer, Claim, Dispatch, SaveResult, Steps, Outcomes
  <2>2. UNCHANGED locks
    BY <1>3 DEF Defer, Claim, Dispatch, SaveResult
  <2>3. QED
    BY <1>t, <2>1, <2>2, DoingMoves
<1>4. CASE Unlock(w) \/ WorkerCrash(w)
  <2>1. /\ worker' = [worker EXCEPT ![w] = Idle] /\ worker[w].pc # "idle"
        /\ eventLock' = Released(eventLock, w)
        /\ accountLock' = Released(accountLock, w)
    BY <1>4 DEF Unlock, WorkerCrash
  <2>2. /\ worker'[w].pc = "idle"
        /\ \A v \in Workers \ {w} : worker'[v] = worker[v]
    BY <1>t, <2>1, IdleMoves
  <2>3. \A e \in Events : eventLock'[e] = eventLock[e] \/ eventLock'[e] = Nobody
    BY <1>t, <2>1, ReleasedLocks DEF TypeOK
  <2>4. \A a \in Accounts : /\ accountLock[a] # w => accountLock'[a] = accountLock[a]
                           /\ accountLock'[a] \in {accountLock[a], Nobody}
    BY <1>t, <2>1, ReleasedLocks DEF TypeOK
  <2>5. QED
    BY <1>t, <2>1, <2>2, <2>3, <2>4 DEF TypeOK
<1>5. QED
  BY <1>1, <1>2, <1>3, <1>4 DEF WorkerStep

\* The locks a worker needs are its own when it handles an event, and it has
\* none before it tries them.
LEMMA WorkerLocks ==
  ASSUME IInv, NEW w \in Workers,
         (\E e \in Events : Take(w, e)) \/ WorkerStep(w) \/ WorkerCrash(w)
  PROVE  Locked' /\ NoLocksYet'
<1>t. TypeOK /\ Locked /\ NoLocksYet
  BY DEF IInv
<1>o. \A v \in Workers \ {w} :
        /\ worker'[v] = worker[v]
        /\ \A a \in Accounts : accountLock[a] = v => accountLock'[a] = v
        /\ \A a \in Accounts : accountLock[a] # v => accountLock'[a] # v
        /\ \A e \in Events : eventLock[e] # v => eventLock'[e] # v
  BY WorkerFrame
<1>1. ASSUME NEW v \in Workers \ {w}, worker'[v].pc \in {"claim", "run"} \cup Outcomes
      PROVE  accountLock'[AccountOf[worker'[v].event]] = v
  <2>1. worker'[v] = worker[v]
    BY <1>o
  <2>2. /\ accountLock[AccountOf[worker[v].event]] = v
        /\ AccountOf[worker[v].event] \in Accounts
    BY <1>t, <1>1, <2>1, Busy DEF Locked, Outcomes
  <2>3. QED
    BY <1>o, <2>1, <2>2
<1>2. ASSUME worker'[w].pc \in {"claim", "run"} \cup Outcomes
      PROVE  accountLock'[AccountOf[worker'[w].event]] = w
  <2>1. CASE TryLocks(w)
    <3>1. AccountOf[worker[w].event] \in Accounts /\ accountLock \in [Accounts -> Workers \cup {Nobody}]
      BY <1>t, <2>1, Busy DEF TryLocks, TypeOK
    <3>2. /\ worker' = Doing(w, "claim")
          /\ accountLock' = [accountLock EXCEPT ![AccountOf[worker[w].event]] = w]
      <4>1. worker' # [worker EXCEPT ![w] = Idle]
        BY <1>t, <1>2, IdleMoves DEF Outcomes
      <4>2. worker' # Doing(w, "defer")
        BY <1>t, <1>2, DoingMoves DEF Outcomes, Steps
      <4>3. QED
        BY <2>1, <4>1, <4>2 DEF TryLocks
    <3>3. worker'[w].event = worker[w].event
      BY <1>t, <3>2, DoingMoves DEF Steps
    <3>4. QED
      BY <3>1, <3>2, <3>3
  <2>2. CASE Claim(w) \/ Dispatch(w)
    <3>1. /\ UNCHANGED accountLock
          /\ worker[w].pc \in {"claim", "run"}
          /\ \E pc \in Steps : worker' = Doing(w, pc)
      BY <2>2 DEF Claim, Dispatch, locks, Steps, Outcomes
    <3>2. worker'[w].event = worker[w].event
      BY <1>t, <3>1, DoingMoves
    <3>3. QED
      BY <1>t, <3>1, <3>2 DEF Locked
  <2>3. CASE Defer(w) \/ SaveResult(w)
    <3>1. worker' = Doing(w, "unlock")
      BY <2>3 DEF Defer, SaveResult
    <3>2. worker'[w].pc = "unlock"
      BY <1>t, <3>1, DoingMoves DEF Steps
    <3>3. QED
      BY <1>2, <3>2 DEF Outcomes
  <2>4. CASE Unlock(w) \/ WorkerCrash(w)
    <3>1. worker'[w].pc = "idle"
      BY <1>t, <2>4, IdleMoves DEF Unlock, WorkerCrash
    <3>2. QED
      BY <1>2, <3>1 DEF Outcomes
  <2>5. CASE \E e \in Events : Take(w, e)
    <3>1. worker'[w].pc \in {"lock", "idle"}
      BY <1>t, <2>5 DEF Take, TypeOK, Idle
    <3>2. QED
      BY <1>2, <3>1 DEF Outcomes
  <2>6. QED
    BY <2>1, <2>2, <2>3, <2>4, <2>5 DEF WorkerStep
<1>3. Locked'
  BY <1>1, <1>2 DEF Locked
<1>4. ASSUME worker'[w].pc = "lock"
      PROVE  /\ \A e \in Events : eventLock'[e] # w
             /\ \A a \in Accounts : accountLock'[a] # w
  <2>1. CASE worker[w].pc = "lock"
    BY <1>t, <1>4, <2>1, WorkerFrame DEF NoLocksYet, locks
  <2>2. CASE worker[w].pc # "lock"
    <3>1. UNCHANGED locks
      BY <1>4, <2>2, WorkerFrame
    <3>2. \E e \in Events : Take(w, e)
      <4>1. ASSUME Defer(w) \/ Claim(w) \/ Dispatch(w) \/ SaveResult(w)  PROVE FALSE
        <5>1. \E pc \in Steps : pc # "lock" /\ worker' = Doing(w, pc)
          BY <4>1 DEF Defer, Claim, Dispatch, SaveResult, Steps, Outcomes
        <5>2. QED
          BY <1>t, <1>4, <5>1, DoingMoves
      <4>2. ASSUME Unlock(w) \/ WorkerCrash(w)  PROVE FALSE
        BY <1>t, <1>4, <4>2, IdleMoves DEF Unlock, WorkerCrash
      <4>3. ASSUME TryLocks(w)  PROVE FALSE
        BY <2>2, <4>3 DEF TryLocks
      <4>4. QED
        BY <4>1, <4>2, <4>3 DEF WorkerStep
    <3>3. worker[w].event = Nobody
      BY <1>t, <3>2 DEF Take, TypeOK
    <3>4. QED
      BY <1>t, <3>1, <3>3 DEF TypeOK, locks
  <2>3. QED
    BY <2>1, <2>2
<1>5. NoLocksYet'
  BY <1>t, <1>o, <1>4 DEF NoLocksYet
<1>6. QED
  BY <1>3, <1>5

\* A worker writes only the status of its own event: a queued one, or the one it
\* handles.
LEMMA WorkerWrites ==
  ASSUME IInv, NEW w \in Workers,
         (\E e \in Events : Take(w, e)) \/ WorkerStep(w) \/ WorkerCrash(w)
  PROVE  \/ UNCHANGED table
         \/ /\ status[worker[w].event] = "QUEUED"
            /\ status' = [status EXCEPT ![worker[w].event] = "RETRYING"]
            /\ UNCHANGED <<attempts, runs>>
         \/ /\ Claim(w) /\ worker' = Doing(w, "run") /\ worker[w].fresh
            /\ status[worker[w].event] = "QUEUED"
            /\ status' = [status EXCEPT ![worker[w].event] = "PROCESSING"]
            /\ attempts' = [attempts EXCEPT ![worker[w].event] = @ + 1]
            /\ runs' = [runs EXCEPT ![worker[w].event] = @ + 1]
         \/ /\ SaveResult(w) /\ w \in Handling
            /\ status[worker[w].event] = "PROCESSING"
            /\ \E s \in {"PROCESSED", "RETRYING", "DEAD_LETTER"} :
                 status' = [status EXCEPT ![worker[w].event] = s]
            /\ UNCHANGED <<attempts, runs>>
<1> USE DEF table
<1>1. CASE Claim(w)
  BY <1>1 DEF Claim, PutBack, Holds
<1>2. CASE Defer(w)
  BY <1>2 DEF Defer, PutBack, Holds
<1>3. CASE SaveResult(w)
  BY <1>3 DEF SaveResult, Holds, Handling
<1>4. CASE ~(Claim(w) \/ Defer(w) \/ SaveResult(w))
  BY <1>4 DEF WorkerStep, Take, TryLocks, Dispatch, Unlock, WorkerCrash
<1>5. QED
  BY <1>1, <1>2, <1>3, <1>4

\* Only the worker that claims an event starts to handle it.
LEMMA HandlingStarts ==
  ASSUME IInv, NEW w \in Workers,
         (\E e \in Events : Take(w, e)) \/ WorkerStep(w) \/ WorkerCrash(w),
         worker'[w].pc \in {"run"} \cup Outcomes
  PROVE  /\ worker'[w].event = worker[w].event /\ worker'[w].fresh = worker[w].fresh
         /\ \/ w \in Handling /\ UNCHANGED status
            \/ Claim(w) /\ worker' = Doing(w, "run")
<1>t. TypeOK
  BY DEF IInv
<1>1. CASE (\E e \in Events : Take(w, e)) \/ Unlock(w) \/ WorkerCrash(w)
  <2>1. worker'[w].pc \in {"idle", "lock"}
    BY <1>t, <1>1, IdleMoves DEF Take, Unlock, WorkerCrash, TypeOK, Idle
  <2>2. QED
    BY <2>1 DEF Outcomes
<1>2. CASE TryLocks(w) \/ Defer(w) \/ SaveResult(w)
  <2>1. \/ worker' = [worker EXCEPT ![w] = Idle]
        \/ \E pc \in {"claim", "defer", "unlock"} : worker' = Doing(w, pc)
    BY <1>2 DEF TryLocks, Defer, SaveResult
  <2>2. worker'[w].pc \in {"idle", "claim", "defer", "unlock"}
    BY <1>t, <2>1, IdleMoves, DoingMoves DEF Steps
  <2>3. QED
    BY <2>2 DEF Outcomes
<1>3. CASE Claim(w)
  <2>1. worker' = Doing(w, "run") \/ worker' = Doing(w, "unlock")
    BY <1>3 DEF Claim
  <2>2. worker' = Doing(w, "run")
    BY <1>t, <2>1, DoingMoves DEF Steps, Outcomes
  <2>3. QED
    BY <1>t, <1>3, <2>2, DoingMoves DEF Steps
<1>4. CASE Dispatch(w)
  <2>1. /\ w \in Handling /\ UNCHANGED status
        /\ \E pc \in Steps : worker' = Doing(w, pc)
    BY <1>4 DEF Dispatch, Handling, Steps, table
  <2>2. PICK pc \in Steps : worker' = Doing(w, pc)
    BY <2>1
  <2>3. QED
    BY <1>t, <2>1, <2>2, DoingMoves
<1>5. QED
  BY <1>1, <1>2, <1>3, <1>4 DEF WorkerStep

\* A handler that runs keeps its event: nobody else has the account's lock.
LEMMA WorkerHandlers ==
  ASSUME IInv, NEW w \in Workers,
         (\E e \in Events : Take(w, e)) \/ WorkerStep(w) \/ WorkerCrash(w)
  PROVE  LiveHandlerKeepsEvent'
<1>t. TypeOK /\ Locked /\ LiveHandlerKeepsEvent
  BY DEF IInv
<1> SUFFICES ASSUME NEW v \in Workers, worker'[v].pc \in {"run"} \cup Outcomes
             PROVE  worker'[v].fresh /\ status'[worker'[v].event] = "PROCESSING"
  BY DEF LiveHandlerKeepsEvent, Handling
<1>1. CASE v # w
  <2>1. worker'[v] = worker[v]
    BY <1>1, WorkerFrame
  <2>2. v \in Handling
    BY <2>1 DEF Handling
  <2>3. worker[v].fresh /\ status[worker[v].event] = "PROCESSING"
    BY <1>t, <2>2 DEF LiveHandlerKeepsEvent
  <2>4. worker[v].event \in Events
    BY <1>t, <2>2, Busy DEF Handling, Outcomes
  <2>5. w \in Handling => worker[w].event # worker[v].event
    BY <1>t, <1>1, <2>2 DEF Locked, Handling
  <2>6. status'[worker[v].event] = "PROCESSING"
    BY <1>t, <2>3, <2>4, <2>5, WorkerWrites DEF TypeOK, table
  <2>7. QED
    BY <2>1, <2>3, <2>6
<1>2. CASE v = w
  <2>1. /\ worker'[w].event = worker[w].event /\ worker'[w].fresh = worker[w].fresh
        /\ \/ w \in Handling /\ UNCHANGED status
           \/ Claim(w) /\ worker' = Doing(w, "run")
    BY <1>2, HandlingStarts
  <2>2. CASE w \in Handling /\ UNCHANGED status
    BY <1>t, <1>2, <2>1, <2>2 DEF LiveHandlerKeepsEvent
  <2>3. CASE Claim(w) /\ worker' = Doing(w, "run")
    <3>1. worker[w].event \in Events
      BY <1>t, <2>3, Busy DEF Claim
    <3>2. worker' # Doing(w, "unlock")
      BY <1>t, <2>3, DoingMoves DEF Steps
    <3>3. worker[w].fresh /\ status' = [status EXCEPT ![worker[w].event] = "PROCESSING"]
      BY <2>3, <3>2 DEF Claim, Holds
    <3>4. QED
      BY <1>t, <1>2, <2>1, <3>1, <3>3 DEF TypeOK
  <2>4. QED
    BY <2>1, <2>2, <2>3
<1>3. QED
  BY <1>1, <1>2

\* A claim uses one of the attempts that a queued event has left.
LEMMA WorkerCounts ==
  ASSUME IInv, NEW w \in Workers,
         (\E e \in Events : Take(w, e)) \/ WorkerStep(w) \/ WorkerCrash(w)
  PROVE  Counted'
<1>t. TypeOK /\ Counted
  BY DEF IInv
<1>1. CASE UNCHANGED table
  BY <1>t, <1>1 DEF Counted, table
<1>2. CASE /\ UNCHANGED <<attempts, runs>>
           /\ \E s \in Statuses \ {"QUEUED"} : status' = [status EXCEPT ![worker[w].event] = s]
  BY <1>t, <1>2 DEF Counted, TypeOK
<1>3. CASE /\ Claim(w)
           /\ status[worker[w].event] = "QUEUED"
           /\ status' = [status EXCEPT ![worker[w].event] = "PROCESSING"]
           /\ attempts' = [attempts EXCEPT ![worker[w].event] = @ + 1]
           /\ runs' = [runs EXCEPT ![worker[w].event] = @ + 1]
  <2>1. worker[w].event \in Events
    BY <1>t, <1>3, Busy DEF Claim
  <2>2. attempts[worker[w].event] < MaxAttempts
    BY <1>t, <1>3, <2>1 DEF Counted
  <2>3. QED
    BY <1>t, <1>3, <2>1, <2>2 DEF Counted, TypeOK
<1>4. QED
  BY <1>1, <1>2, <1>3, WorkerWrites DEF Statuses

\* Initially the invariant holds and every step keeps it.
LEMMA NextKeepsInvariant == IInv /\ [Next]_vars => IInv'
<1> SUFFICES ASSUME IInv, [Next]_vars  PROVE IInv'
  OBVIOUS
<1> USE DEF table, locks, bounds
<1>t. TypeOK
  BY DEF IInv
<1>1. ASSUME NEW e \in Events,
             \/ Receive(e) \/ AdminRetry(e) \/ AdminIgnore(e) \/ Publish(e)
             \/ PublishDelayed(e) \/ AddJob(e) \/ AddFails(e)
      PROVE  IInv'
  BY <1>1, EventInvariant
<1>2. ASSUME NEW w \in Workers,
             (\E e \in Events : Take(w, e)) \/ WorkerStep(w) \/ WorkerCrash(w)
      PROVE  IInv'
  BY <1>2, WorkerTypes, WorkerLocks, WorkerHandlers, WorkerCounts DEF IInv
<1>3. ASSUME NEW w \in Workers, Stall(w)  PROVE IInv'
  BY <1>3, WorkerTypes, Untouched DEF Stall, IInv
<1>4. ASSUME NEW a \in Accounts, CooldownEnds(a)  PROVE IInv'
  <2>1. TypeOK'
    BY <1>t, <1>4 DEF CooldownEnds, TypeOK
  <2>2. QED
    BY <1>4, <2>1, Untouched DEF CooldownEnds, IInv
<1>5. ASSUME NEW a \in Accounts, ToggleAccount(a)  PROVE IInv'
  <2>1. TypeOK'
    BY <1>t, <1>5 DEF ToggleAccount, Act, TypeOK
  <2>2. QED
    BY <1>5, <2>1, Untouched DEF ToggleAccount, IInv
<1>6. ASSUME PublisherCrash  PROVE IInv'
  <2>1. TypeOK'
    BY <1>t, <1>6 DEF PublisherCrash, TypeOK
  <2>2. QED
    BY <1>6, <2>1, Untouched DEF PublisherCrash, IInv
<1>7. CASE UNCHANGED vars
  <2>1. TypeOK'
    BY <1>t, <1>7 DEF vars, TypeOK
  <2>2. QED
    BY <1>7, <2>1, Untouched DEF vars, IInv
<1>8. CASE Next
  BY <1>1, <1>2, <1>3, <1>4, <1>5, <1>6, <1>8 DEF Next, EventStep
<1>9. QED
  BY <1>7, <1>8

\* A step never reopens a processed event.
LEMMA ProcessedStays ==
  ASSUME IInv, [Next]_vars, NEW e \in Events, status[e] = "PROCESSED"
  PROVE  status'[e] = "PROCESSED"
<1> USE DEF table, locks, bounds
<1>t. TypeOK
  BY DEF IInv
<1>1. ASSUME NEW d \in Events,
             \/ Receive(d) \/ AdminRetry(d) \/ AdminIgnore(d) \/ Publish(d)
             \/ PublishDelayed(d) \/ AddJob(d) \/ AddFails(d)
      PROVE  status'[e] = "PROCESSED"
  <2>1. CASE d # e
    BY <1>1, <2>1, EventFrame
  <2>2. CASE d = e
    BY <1>t, <1>1, <2>2 DEF Receive, AdminRetry, AdminIgnore, Publish, Publishable,
       PublishDelayed, AddJob, AddFails, TypeOK
  <2>3. QED
    BY <2>1, <2>2
<1>2. ASSUME NEW w \in Workers,
             (\E d \in Events : Take(w, d)) \/ WorkerStep(w) \/ WorkerCrash(w)
      PROVE  status'[e] = "PROCESSED"
  BY <1>t, <1>2, WorkerWrites DEF TypeOK
<1>3. CASE UNCHANGED status
  BY <1>3
<1>4. QED
  BY <1>1, <1>2, <1>3 DEF Next, EventStep, Stall, CooldownEnds, ToggleAccount,
     PublisherCrash, vars

-----------------------------------------------------------------------------
(* The theorems.                                                           *)

\* The strengthened invariant holds in every behaviour.
THEOREM InvariantHolds == Spec => []IInv
BY InitIInv, NextKeepsInvariant, PTL DEF Spec

\* Every variable keeps its type, and a lock belongs to a worker at its event.
THEOREM TypeCorrect == Spec => []TypeOK
<1>1. IInv => TypeOK
  BY DEF IInv
<1>2. QED
  BY InvariantHolds, <1>1, PTL

\* At most one handler runs for an account, however many workers there are and
\* whatever crashes.
THEOREM AccountsAreExclusive == Spec => []OneHandlerPerAccount
<1>1. IInv => OneHandlerPerAccount
  BY DEF IInv, Locked, OneHandlerPerAccount, Handling
<1>2. QED
  BY InvariantHolds, <1>1, PTL

\* Recovery leaves an event with a handler that is alive.
THEOREM RecoverySparesTheLiving == Spec => []LiveHandlerKeepsEvent
<1>1. IInv => LiveHandlerKeepsEvent
  BY DEF IInv
<1>2. QED
  BY InvariantHolds, <1>1, PTL

\* A handler has its account and its event to itself.
THEOREM HandlersHaveTheirEvents == Spec => []HandlersAreExclusive
<1>1. OneHandlerPerAccount /\ LiveHandlerKeepsEvent => HandlersAreExclusive
  BY DEF HandlersAreExclusive
<1>2. QED
  BY AccountsAreExclusive, RecoverySparesTheLiving, <1>1, PTL

\* No event is handled more often than the configured attempts.
THEOREM AttemptsBounded == Spec => []BudgetRespected
<1>1. IInv => BudgetRespected
  BY DEF IInv, Counted, BudgetRespected
<1>2. QED
  BY InvariantHolds, <1>1, PTL

\* A processed event is final.
THEOREM ProcessedStaysProcessed == Spec => ProcessedIsFinal
<1>1. IInv /\ [Next]_vars =>
        [\A e \in Events : status[e] = "PROCESSED" => status'[e] = "PROCESSED"]_status
  BY ProcessedStays
<1>2. QED
  BY InvariantHolds, <1>1, PTL DEF Spec, ProcessedIsFinal

-----------------------------------------------------------------------------
(***************************************************************************)
(* Webhooks implements Delivery, for every set of events, accounts and     *)
(* workers, every number of attempts, crashes and delays.                  *)
(***************************************************************************)

\* Statuses of events that have yet to be settled, and that may be reopened.
Open == {"RECEIVED", "QUEUED", "PROCESSING", "RETRYING"}
Shut == {"DEAD_LETTER", "IGNORED"}

Moves(e, from, to) ==
  status[e] \in from /\ \E s \in to : status' = [status EXCEPT ![e] = s]

\* What a step does to the status and to the count of handlers of an event.
Writes(e) ==
  \/ Moves(e, {"NONE"}, {"RECEIVED", "IGNORED"}) /\ runs' = runs
  \/ Moves(e, Shut, {"RECEIVED"}) /\ runs' = [runs EXCEPT ![e] = 0]
  \/ Moves(e, Shut, {"IGNORED"}) /\ runs' = runs
  \/ Moves(e, Open, {"QUEUED", "RETRYING"}) /\ runs' = runs
  \/ /\ Moves(e, {"QUEUED"}, {"PROCESSING"}) /\ runs[e] < MaxAttempts
     /\ runs' = [runs EXCEPT ![e] = @ + 1]
  \/ Moves(e, {"PROCESSING"}, {"PROCESSED", "DEAD_LETTER"}) /\ runs' = runs
  \/ Moves(e, Open, {"DEAD_LETTER"}) /\ runs[e] > 0 /\ runs' = runs

\* An event being processed has had a handler.
Begun == \A e \in Events : status[e] = "PROCESSING" => runs[e] > 0

-----------------------------------------------------------------------------
(* The steps of Webhooks, reduced to what they write.                      *)

\* A step of the service or of the publisher.
LEMMA EventWrites ==
  ASSUME IInv, NEW e \in Events,
         \/ Receive(e) \/ AdminRetry(e) \/ AdminIgnore(e) \/ Publish(e)
         \/ PublishDelayed(e) \/ AddJob(e) \/ AddFails(e)
  PROVE  UNCHANGED <<status, runs>> \/ Writes(e)
<1> USE DEF table, bounds, Moves, Writes, Open, Shut
<1>t. TypeOK /\ Counted
  BY DEF IInv
<1>1. CASE Receive(e)
  BY <1>1 DEF Receive
<1>2. CASE AdminRetry(e)
  BY <1>2 DEF AdminRetry
<1>3. CASE AdminIgnore(e)
  BY <1>3 DEF AdminIgnore
<1>4. ASSUME Requeue(e), status[e] \in Open, UNCHANGED runs
      PROVE  Writes(e)
  <2>1. CASE attempts[e] >= MaxAttempts
    <3>1. runs[e] > 0
      BY <1>t, <2>1, LimitsAssumption DEF Counted, TypeOK
    <3>2. status' = [status EXCEPT ![e] = "DEAD_LETTER"]
      BY <1>4, <2>1 DEF Requeue
    <3>3. QED
      BY <1>4, <3>1, <3>2
  <2>2. CASE ~(attempts[e] >= MaxAttempts)
    BY <1>4, <2>2 DEF Requeue
  <2>3. QED
    BY <2>1, <2>2
<1>5. CASE Publish(e)
  BY <1>4, <1>5 DEF Publish, Publishable
<1>6. CASE PublishDelayed(e)
  BY <1>4, <1>6 DEF PublishDelayed
<1>7. CASE AddJob(e)
  BY <1>7 DEF AddJob
<1>8. CASE AddFails(e)
  <2>1. status' = [status EXCEPT ![e] = IF @ = "QUEUED" THEN "RETRYING" ELSE @]
        /\ runs' = runs
    BY <1>8 DEF AddFails
  <2>2. CASE status[e] = "QUEUED"
    BY <2>1, <2>2
  <2>3. CASE status[e] # "QUEUED"
    BY <1>t, <2>1, <2>3 DEF TypeOK
  <2>4. QED
    BY <2>2, <2>3
<1>9. QED
  BY <1>1, <1>2, <1>3, <1>5, <1>6, <1>7, <1>8

\* A step of a worker.
LEMMA HandlerWrites ==
  ASSUME IInv, NEW w \in Workers,
         (\E e \in Events : Take(w, e)) \/ WorkerStep(w) \/ WorkerCrash(w)
  PROVE  UNCHANGED <<status, runs>> \/ \E e \in Events : Writes(e)
<1> USE DEF table, Moves
<1>t. TypeOK /\ Counted
  BY DEF IInv
<1> DEFINE e == worker[w].event
<1>1. CASE UNCHANGED table
  BY <1>1
<1>2. CASE /\ status[e] = "QUEUED"
           /\ status' = [status EXCEPT ![e] = "RETRYING"]
           /\ UNCHANGED <<attempts, runs>>
  <2>1. CASE e \in Events
    BY <1>2, <2>1 DEF Writes, Open
  <2>2. CASE e \notin Events
    BY <1>t, <1>2, <2>2 DEF TypeOK
  <2>3. QED
    BY <2>1, <2>2
<1>3. CASE /\ Claim(w)
           /\ status[e] = "QUEUED"
           /\ status' = [status EXCEPT ![e] = "PROCESSING"]
           /\ runs' = [runs EXCEPT ![e] = @ + 1]
  <2>1. e \in Events
    BY <1>t, <1>3, Busy DEF Claim
  <2>2. runs[e] < MaxAttempts
    BY <1>t, <1>3, <2>1 DEF Counted
  <2>3. QED
    BY <1>3, <2>1, <2>2 DEF Writes
<1>4. CASE /\ SaveResult(w)
           /\ status[e] = "PROCESSING"
           /\ \E s \in {"PROCESSED", "RETRYING", "DEAD_LETTER"} :
                status' = [status EXCEPT ![e] = s]
           /\ UNCHANGED <<attempts, runs>>
  <2>1. e \in Events
    BY <1>t, <1>4, Busy DEF SaveResult, Outcomes
  <2>2. QED
    BY <1>4, <2>1 DEF Writes, Open
<1>5. QED
  BY <1>1, <1>2, <1>3, <1>4, WorkerWrites

\* Every step.
LEMMA StepWrites ==
  ASSUME IInv, [Next]_vars
  PROVE  UNCHANGED <<status, runs>> \/ \E e \in Events : Writes(e)
BY EventWrites, HandlerWrites
   DEF Next, EventStep, Stall, CooldownEnds, ToggleAccount, PublisherCrash, vars, table

-----------------------------------------------------------------------------
(* What they are in Delivery.                                              *)

\* A write of the status of one event changes its outcome alone.
LEMMA OutcomeMoves ==
  ASSUME TypeOK, NEW e \in Events, NEW s \in Statuses,
         status' = [status EXCEPT ![e] = s]
  PROVE  [d \in Events |-> Outcome(status'[d])]
           = [[d \in Events |-> Outcome(status[d])] EXCEPT ![e] = Outcome(s)]
BY DEF TypeOK

\* An event being processed stays one that had a handler.
LEMMA BegunKept ==
  ASSUME TypeOK, Begun, UNCHANGED <<status, runs>> \/ \E e \in Events : Writes(e)
  PROVE  Begun'
<1>1. CASE UNCHANGED <<status, runs>>
  BY <1>1 DEF Begun
<1>2. ASSUME NEW e \in Events, Writes(e)  PROVE Begun'
  BY <1>2 DEF Begun, Writes, Moves, Open, Shut, TypeOK
<1>3. QED
  BY <1>1, <1>2

\* What every status means to Delivery.
LEMMA OutcomeValues ==
  /\ Outcome("NONE") = "unknown" /\ Outcome("PROCESSED") = "done"
  /\ Outcome("DEAD_LETTER") = "failed" /\ Outcome("IGNORED") = "ignored"
  /\ \A s \in Open : Outcome(s) = "open"
BY DEF Outcome, Open

\* A write is a step of Delivery or changes nothing that it sees.
LEMMA WriteDelivers ==
  ASSUME TypeOK, Begun, NEW e \in Events, Writes(e)
  PROVE  Promised!Next \/ UNCHANGED Promised!vars
<1> DEFINE out  == [d \in Events |-> Outcome(status[d])]
           next == [d \in Events |-> Outcome(status'[d])]
<1>1. out[e] = Outcome(status[e])
  OBVIOUS
<1>2. ASSUME NEW from, NEW to, Moves(e, from, to), to \subseteq Statuses
      PROVE  status[e] \in from /\ \E s \in to : next = [out EXCEPT ![e] = Outcome(s)]
  BY <1>2, OutcomeMoves DEF Moves
<1>3. [out EXCEPT ![e] = out[e]] = out
  OBVIOUS
<1>4. CASE Moves(e, {"NONE"}, {"RECEIVED", "IGNORED"}) /\ runs' = runs
  <2> HIDE DEF out, next
  <2>1. status[e] = "NONE" /\ \E s \in {"RECEIVED", "IGNORED"} : next = [out EXCEPT ![e] = Outcome(s)]
    BY <1>2, <1>4 DEF Statuses
  <2>2. /\ out[e] = "unknown"
        /\ next = [out EXCEPT ![e] = "open"] \/ next = [out EXCEPT ![e] = "ignored"]
    BY <1>1, <2>1, OutcomeValues DEF Open
  <2>3. Promised!Accept(e) \/ Promised!Refuse(e)
    BY <1>4, <2>2 DEF Promised!Accept, Promised!Refuse, Promised!Ends, out, next
  <2>4. QED
    BY <2>3 DEF Promised!Next
<1>5. CASE Moves(e, Shut, {"RECEIVED"}) /\ runs' = [runs EXCEPT ![e] = 0]
  <2> HIDE DEF out, next
  <2>1. status[e] \in Shut /\ next = [out EXCEPT ![e] = Outcome("RECEIVED")]
    BY <1>2, <1>5 DEF Statuses
  <2>2. out[e] \in {"failed", "ignored"} /\ next = [out EXCEPT ![e] = "open"]
    BY <1>1, <2>1, OutcomeValues DEF Open, Shut
  <2>3. Promised!Reopen(e)
    BY <1>5, <2>2 DEF Promised!Reopen, Promised!Ends, out, next
  <2>4. QED
    BY <2>3 DEF Promised!Next
<1>6. CASE Moves(e, Shut, {"IGNORED"}) /\ runs' = runs
  <2> HIDE DEF out, next
  <2>1. status[e] \in Shut /\ next = [out EXCEPT ![e] = Outcome("IGNORED")]
    BY <1>2, <1>6 DEF Statuses
  <2>2. out[e] \in {"failed", "ignored"} /\ next = [out EXCEPT ![e] = "ignored"]
    BY <1>1, <2>1, OutcomeValues DEF Shut
  <2>3. CASE out[e] = "failed"
    <3>1. Promised!Dismiss(e)
      BY <1>6, <2>2, <2>3 DEF Promised!Dismiss, Promised!Ends, out, next
    <3>2. QED
      BY <3>1 DEF Promised!Next
  <2>4. CASE out[e] = "ignored"
    <3>1. next = out
      BY <1>3, <2>2, <2>4
    <3>2. QED
      BY <1>6, <3>1 DEF Promised!vars, out, next
  <2>5. QED
    BY <2>2, <2>3, <2>4
<1>7. CASE Moves(e, Open, {"QUEUED", "RETRYING"}) /\ runs' = runs
  <2> HIDE DEF out, next
  <2>1. status[e] \in Open /\ \E s \in {"QUEUED", "RETRYING"} : next = [out EXCEPT ![e] = Outcome(s)]
    BY <1>2, <1>7 DEF Statuses
  <2>2. out[e] = "open" /\ next = [out EXCEPT ![e] = "open"]
    BY <1>1, <2>1, OutcomeValues DEF Open
  <2>3. next = out
    BY <1>3, <2>2
  <2>4. QED
    BY <1>7, <2>3 DEF Promised!vars, out, next
<1>8. CASE /\ Moves(e, {"QUEUED"}, {"PROCESSING"}) /\ runs[e] < MaxAttempts
           /\ runs' = [runs EXCEPT ![e] = @ + 1]
  <2> HIDE DEF out, next
  <2>1. status[e] = "QUEUED" /\ next = [out EXCEPT ![e] = Outcome("PROCESSING")]
    BY <1>2, <1>8 DEF Statuses
  <2>2. out[e] = "open" /\ next = [out EXCEPT ![e] = "open"]
    BY <1>1, <2>1, OutcomeValues DEF Open
  <2>3. next = out
    BY <1>3, <2>2
  <2>4. Promised!Start(e)
    BY <1>8, <2>2, <2>3 DEF Promised!Start, out, next
  <2>5. QED
    BY <2>4 DEF Promised!Next
<1>9. CASE Moves(e, {"PROCESSING"}, {"PROCESSED", "DEAD_LETTER"}) /\ runs' = runs
  <2> HIDE DEF out, next
  <2>1. status[e] = "PROCESSING" /\ \E s \in {"PROCESSED", "DEAD_LETTER"} : next = [out EXCEPT ![e] = Outcome(s)]
    BY <1>2, <1>9 DEF Statuses
  <2>2. /\ out[e] = "open"
        /\ next = [out EXCEPT ![e] = "done"] \/ next = [out EXCEPT ![e] = "failed"]
    BY <1>1, <2>1, OutcomeValues DEF Open
  <2>3. runs[e] > 0
    BY <2>1 DEF Begun
  <2>4. Promised!Finish(e) \/ Promised!GiveUp(e)
    BY <1>9, <2>2, <2>3 DEF Promised!Finish, Promised!GiveUp, Promised!Ends, out, next
  <2>5. QED
    BY <2>4 DEF Promised!Next
<1>10. CASE Moves(e, Open, {"DEAD_LETTER"}) /\ runs[e] > 0 /\ runs' = runs
  <2> HIDE DEF out, next
  <2>1. status[e] \in Open /\ next = [out EXCEPT ![e] = Outcome("DEAD_LETTER")]
    BY <1>2, <1>10 DEF Statuses
  <2>2. out[e] = "open" /\ next = [out EXCEPT ![e] = "failed"]
    BY <1>1, <2>1, OutcomeValues
  <2>3. Promised!GiveUp(e)
    BY <1>10, <2>2 DEF Promised!GiveUp, Promised!Ends, out, next
  <2>4. QED
    BY <2>3 DEF Promised!Next
<1>11. QED
  BY <1>4, <1>5, <1>6, <1>7, <1>8, <1>9, <1>10 DEF Writes

-----------------------------------------------------------------------------
\* Initially every event is unknown.
LEMMA InitDelivers == Init => Promised!Init /\ Begun
BY OutcomeValues DEF Init, Promised!Init, Begun

\* The machinery of Webhooks keeps the promise of Delivery: bounded attempts,
\* no outcome without one, and no way back from success.
THEOREM WebhooksImplementDelivery == Spec => ImplementsDelivery
<1> DEFINE Inv == IInv /\ Begun
<1>1. Init => Inv
  BY InitIInv, InitDelivers
<1>2. Inv /\ [Next]_vars => Inv' /\ [Promised!Next]_(Promised!vars)
  <2> SUFFICES ASSUME IInv, Begun, [Next]_vars
               PROVE  IInv' /\ Begun' /\ [Promised!Next]_(Promised!vars)
    OBVIOUS
  <2>1. IInv' /\ TypeOK
    BY NextKeepsInvariant DEF IInv
  <2>2. UNCHANGED <<status, runs>> \/ \E e \in Events : Writes(e)
    BY StepWrites
  <2>3. Begun'
    BY <2>1, <2>2, BegunKept
  <2>4. CASE UNCHANGED <<status, runs>>
    BY <2>1, <2>3, <2>4 DEF Promised!vars
  <2>5. CASE \E e \in Events : Writes(e)
    BY <2>1, <2>3, <2>5, WriteDelivers
  <2>6. QED
    BY <2>2, <2>4, <2>5
<1>3. QED
  BY <1>1, <1>2, InitDelivers, PTL DEF Spec, ImplementsDelivery, Promised!Spec
=============================================================================
