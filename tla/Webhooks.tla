----------------------------- MODULE Webhooks ------------------------------
(***************************************************************************)
(* The life of marketplace notifications after they are received:          *)
(* MarketplaceWebhookService (receive, action), MarketplaceWebhookPublisher *)
(* and MarketplaceWebhookWorker (api/src/marketplace-connectors/webhooks).  *)
(*                                                                         *)
(* The database decides: an event has a status and a generation, a queue   *)
(* job carries the generation it was published with, and every write of a  *)
(* worker is conditional on status and generation.  Generations are only   *)
(* compared for equality, so the model does not count them: a job or a     *)
(* worker is "fresh" until the generation of its event moves on.           *)
(*                                                                         *)
(* A worker holds two session-level advisory locks, on the event and on    *)
(* the account, which the database releases when its connection dies.      *)
(***************************************************************************)
EXTENDS Naturals, FiniteSets

CONSTANTS
  Events, Accounts,
  AccountOf,    \* the account each event belongs to
  Workers,      \* MARKETPLACE_WEBHOOK_CONCURRENCY, over all instances
  Nobody,       \* a lock that is free, a worker without event
  MaxAttempts,  \* MARKETPLACE_WEBHOOK_MAX_ATTEMPTS
  MaxCrashes,   \* bound: deaths of a worker or of a publisher
  MaxDelays,    \* bound: jobs that wait so long that they look lost, jobs
                \* taken from a slow worker and failures of the queue
  MaxActions    \* bound: administrative retries and ignores, and accounts
                \* connected or disconnected

ASSUME NamesAssumption  == Nobody \notin Workers \cup Events
ASSUME AccountAssumption == AccountOf \in [Events -> Accounts]
ASSUME LimitsAssumption == /\ MaxAttempts \in Nat \ {0}
                           /\ {MaxCrashes, MaxDelays, MaxActions} \subseteq Nat

VARIABLES
  status, attempts,  \* of each event
  job,        \* its job of the current generation: none, held by the
              \* publisher that will add it, or waiting in the queue
  worker,     \* what each worker is doing, for which event, fresh or not
  eventLock, accountLock,  \* the worker that holds each advisory lock
  cooldown,   \* accounts blocked by the marketplace's rate limit
  connected,  \* accounts that are connected
  runs,       \* handlers started for each event since it was last received
  crashes, delays, actions

vars == <<status, attempts, job, worker, eventLock, accountLock, cooldown,
          connected, runs, crashes, delays, actions>>

table  == <<status, attempts, runs>>
locks  == <<eventLock, accountLock>>
bounds == <<crashes, delays, actions>>

-----------------------------------------------------------------------------

Statuses == {"NONE", "RECEIVED", "QUEUED", "PROCESSING", "RETRYING",
             "PROCESSED", "DEAD_LETTER", "IGNORED"}

Settled == {"PROCESSED", "DEAD_LETTER", "IGNORED"}

Outcomes == {"ok", "transient", "limited", "permanent"}

Idle == [pc |-> "idle", event |-> Nobody, fresh |-> FALSE]

Worker == [pc : {"idle", "lock", "defer", "claim", "run", "unlock"} \cup Outcomes,
           event : Events \cup {Nobody}, fresh : BOOLEAN]

\* Workers that execute a handler or hold its result.
Handling == {w \in Workers : worker[w].pc \in {"run"} \cup Outcomes}

Doing(w, pc) == [worker EXCEPT ![w].pc = pc]

\* The event moves to another generation: what was published before is stale.
NewGeneration(e) ==
  worker' = [w \in Workers |-> IF worker[w].event = e
                               THEN [worker[w] EXCEPT !.fresh = FALSE]
                               ELSE worker[w]]

-----------------------------------------------------------------------------
(* MarketplaceWebhookService. *)

\* A duplicate only counts; an event without a usable account is ignored.
Receive(e) ==
  /\ status[e] = "NONE"
  /\ status' = [status EXCEPT ![e] = IF AccountOf[e] \in connected THEN "RECEIVED"
                                     ELSE "IGNORED"]
  /\ UNCHANGED <<attempts, runs, job, worker, locks, cooldown, connected, bounds>>

Act == actions < MaxActions /\ actions' = actions + 1

AdminRetry(e) ==
  /\ Act
  /\ status[e] \in {"DEAD_LETTER", "IGNORED"}
  /\ AccountOf[e] \in connected
  /\ status' = [status EXCEPT ![e] = "RECEIVED"]
  /\ attempts' = [attempts EXCEPT ![e] = 0]
  /\ runs' = [runs EXCEPT ![e] = 0]
  /\ NewGeneration(e)
  /\ job' = [job EXCEPT ![e] = "none"]
  /\ UNCHANGED <<locks, cooldown, connected, crashes, delays>>

AdminIgnore(e) ==
  /\ Act
  /\ status[e] \in {"DEAD_LETTER", "IGNORED"}
  /\ status' = [status EXCEPT ![e] = "IGNORED"]
  /\ UNCHANGED <<attempts, runs, job, worker, locks, cooldown, connected,
                 crashes, delays>>

ToggleAccount(a) ==
  /\ Act
  /\ connected' = IF a \in connected THEN connected \ {a} ELSE connected \cup {a}
  /\ UNCHANGED <<table, job, worker, locks, cooldown, crashes, delays>>

-----------------------------------------------------------------------------
(* MarketplaceWebhookPublisher. *)

Lost_Never(e) == FALSE  \* mutant: stale queued events are not looked for

\* Nobody will work on the queued event any more.
Lost(e) == /\ job[e] = "none"
           /\ \A w \in Workers : ~(worker[w].event = e /\ worker[w].fresh)

\* The handler of the event has died: its account is not locked.
Interrupted(e) == accountLock[AccountOf[e]] = Nobody

Publishable(e) ==
  \/ status[e] \in {"RECEIVED", "RETRYING"}
  \/ status[e] = "QUEUED" /\ Lost(e)
  \/ status[e] = "PROCESSING" /\ Interrupted(e)

\* The transaction of flush for one event: gives it up or queues a generation.
Requeue_Unlimited(e) ==  \* mutant: the attempts are not compared
  /\ status' = [status EXCEPT ![e] = "QUEUED"]
  /\ job' = [job EXCEPT ![e] = "held"]
  /\ NewGeneration(e)

Requeue(e) ==
  IF attempts[e] >= MaxAttempts
  THEN /\ status' = [status EXCEPT ![e] = "DEAD_LETTER"]
       /\ UNCHANGED <<job, worker>>
  ELSE /\ status' = [status EXCEPT ![e] = "QUEUED"]
       /\ job' = [job EXCEPT ![e] = "held"]
       /\ NewGeneration(e)

Publish(e) ==
  /\ Publishable(e)
  /\ Requeue(e)
  /\ UNCHANGED <<attempts, runs, locks, cooldown, connected, bounds>>

\* A job that waits in a long queue, or a slow worker, looks lost.
PublishDelayed(e) ==
  /\ delays < MaxDelays
  /\ delays' = delays + 1
  /\ status[e] = "QUEUED" /\ ~Lost(e)
  /\ Requeue(e)
  /\ UNCHANGED <<attempts, runs, locks, cooldown, connected, crashes, actions>>

AddJob(e) ==
  /\ job[e] = "held"
  /\ job' = [job EXCEPT ![e] = "waiting"]
  /\ UNCHANGED <<table, worker, locks, cooldown, connected, bounds>>

\* The queue did not answer; it may have taken the job all the same.
AddFails(e) ==
  /\ delays < MaxDelays
  /\ delays' = delays + 1
  /\ job[e] = "held"
  /\ \E left \in {"none", "waiting"} : job' = [job EXCEPT ![e] = left]
  /\ status' = [status EXCEPT ![e] = IF @ = "QUEUED" THEN "RETRYING" ELSE @]
  /\ UNCHANGED <<attempts, runs, worker, locks, cooldown, connected, crashes, actions>>

PublisherCrash ==
  /\ crashes < MaxCrashes
  /\ crashes' = crashes + 1
  /\ job' = [e \in Events |-> IF job[e] = "held" THEN "none" ELSE job[e]]
  /\ UNCHANGED <<table, worker, locks, cooldown, connected, delays, actions>>

-----------------------------------------------------------------------------
(* MarketplaceWebhookWorker. *)

\* Takes a job and looks for its event, which must still be queued.
Take(w, e) ==
  /\ worker[w].pc = "idle"
  /\ job[e] = "waiting"
  /\ job' = [job EXCEPT ![e] = "none"]
  /\ worker' = [worker EXCEPT ![w] =
                  IF status[e] = "QUEUED"
                  THEN [pc |-> "lock", event |-> e, fresh |-> TRUE]
                  ELSE Idle]
  /\ UNCHANGED <<table, locks, cooldown, connected, bounds>>

AccountFree_Any(e) == TRUE  \* mutant: the account is not locked

AccountFree(e) == accountLock[AccountOf[e]] = Nobody

\* Both locks are tried, never waited for.
TryLocks(w) ==
  LET e == worker[w].event IN
  /\ worker[w].pc = "lock"
  /\ IF eventLock[e] # Nobody
     THEN worker' = [worker EXCEPT ![w] = Idle] /\ UNCHANGED locks
     ELSE /\ eventLock' = [eventLock EXCEPT ![e] = w]
          /\ IF AccountFree(e)
             THEN /\ accountLock' = [accountLock EXCEPT ![AccountOf[e]] = w]
                  /\ worker' = Doing(w, "claim")
             ELSE worker' = Doing(w, "defer") /\ UNCHANGED accountLock
  /\ UNCHANGED <<table, job, cooldown, connected, bounds>>

\* A conditional write: its event has this status and the worker's generation.
Holds(w, s) == worker[w].fresh /\ status[worker[w].event] = s

\* The event is left for later without consuming an attempt.
PutBack(w) ==
  status' = IF Holds(w, "QUEUED")
            THEN [status EXCEPT ![worker[w].event] = "RETRYING"] ELSE status

Defer(w) ==
  /\ worker[w].pc = "defer"
  /\ PutBack(w)
  /\ worker' = Doing(w, "unlock")
  /\ UNCHANGED <<attempts, runs, job, locks, cooldown, connected, bounds>>

Claim(w) ==
  LET e == worker[w].event IN
  /\ worker[w].pc = "claim"
  /\ IF AccountOf[e] \in cooldown
     THEN PutBack(w) /\ worker' = Doing(w, "unlock") /\ UNCHANGED <<attempts, runs>>
     ELSE IF Holds(w, "QUEUED")
     THEN /\ status' = [status EXCEPT ![e] = "PROCESSING"]
          /\ attempts' = [attempts EXCEPT ![e] = @ + 1]
          /\ runs' = [runs EXCEPT ![e] = @ + 1]
          /\ worker' = Doing(w, "run")
     ELSE worker' = Doing(w, "unlock") /\ UNCHANGED table
  /\ UNCHANGED <<job, locks, cooldown, connected, bounds>>

\* The handler: reads the marketplace and writes orders, listings, shipments.
Dispatch(w) ==
  /\ worker[w].pc = "run"
  /\ \E o \in Outcomes :
       /\ AccountOf[worker[w].event] \notin connected => o = "permanent"
       /\ worker' = Doing(w, o)
  /\ UNCHANGED <<table, job, locks, cooldown, connected, bounds>>

SaveResult(w) ==
  LET e     == worker[w].event
      retry == worker[w].pc # "permanent" /\ attempts[e] < MaxAttempts
      next  == IF worker[w].pc = "ok" THEN "PROCESSED"
               ELSE IF retry THEN "RETRYING" ELSE "DEAD_LETTER"
  IN
  /\ worker[w].pc \in Outcomes
  /\ cooldown' = IF worker[w].pc = "limited" THEN cooldown \cup {AccountOf[e]}
                 ELSE cooldown
  /\ status' = IF Holds(w, "PROCESSING") THEN [status EXCEPT ![e] = next] ELSE status
  /\ worker' = Doing(w, "unlock")
  /\ UNCHANGED <<attempts, runs, job, locks, connected, bounds>>

Released_Never(lock, w) == lock  \* mutant: no unlock in the finally block

Released(lock, w) == [x \in DOMAIN lock |-> IF lock[x] = w THEN Nobody ELSE lock[x]]

Unlock(w) ==
  /\ worker[w].pc = "unlock"
  /\ worker' = [worker EXCEPT ![w] = Idle]
  /\ eventLock' = Released(eventLock, w)
  /\ accountLock' = Released(accountLock, w)
  /\ UNCHANGED <<table, job, cooldown, connected, bounds>>

\* The worker dies.  BullMQ gives a stalled job to another worker, for which it
\* is of use only if the event is still queued in that generation.
WorkerCrash(w) ==
  /\ crashes < MaxCrashes
  /\ crashes' = crashes + 1
  /\ worker[w].pc # "idle"
  /\ job' = IF Holds(w, "QUEUED") THEN [job EXCEPT ![worker[w].event] = "waiting"]
            ELSE job
  /\ worker' = [worker EXCEPT ![w] = Idle]
  /\ eventLock' = Released(eventLock, w)
  /\ accountLock' = Released(accountLock, w)
  /\ UNCHANGED <<table, cooldown, connected, delays, actions>>

\* A worker that is slow to renew its job loses it to another, and goes on.
Stall(w) ==
  /\ delays < MaxDelays
  /\ delays' = delays + 1
  /\ worker[w].fresh
  /\ job' = [job EXCEPT ![worker[w].event] = "waiting"]
  /\ UNCHANGED <<table, worker, locks, cooldown, connected, crashes, actions>>

CooldownEnds(a) ==
  /\ a \in cooldown
  /\ cooldown' = cooldown \ {a}
  /\ UNCHANGED <<table, job, worker, locks, connected, bounds>>

-----------------------------------------------------------------------------

Init ==
  /\ status = [e \in Events |-> "NONE"]
  /\ attempts = [e \in Events |-> 0]
  /\ runs = [e \in Events |-> 0]
  /\ job = [e \in Events |-> "none"]
  /\ worker = [w \in Workers |-> Idle]
  /\ eventLock = [e \in Events |-> Nobody]
  /\ accountLock = [a \in Accounts |-> Nobody]
  /\ cooldown = {}
  /\ connected = Accounts
  /\ crashes = 0 /\ delays = 0 /\ actions = 0

WorkerStep(w) ==
  TryLocks(w) \/ Defer(w) \/ Claim(w) \/ Dispatch(w) \/ SaveResult(w) \/ Unlock(w)

EventStep(e) ==
  \/ Receive(e) \/ AdminRetry(e) \/ AdminIgnore(e)
  \/ Publish(e) \/ PublishDelayed(e) \/ AddJob(e) \/ AddFails(e)
  \/ \E w \in Workers : Take(w, e)

Next ==
  \/ \E e \in Events : EventStep(e)
  \/ \E w \in Workers : WorkerStep(w) \/ WorkerCrash(w) \/ Stall(w)
  \/ \E a \in Accounts : CooldownEnds(a) \/ ToggleAccount(a)
  \/ PublisherCrash

\* The publisher runs every two seconds, the queue hands out its jobs, a started
\* worker goes on and a cooldown expires.
Fairness ==
  /\ \A e \in Events : /\ WF_vars(Publish(e))
                       /\ WF_vars(AddJob(e))
                       /\ WF_vars(\E w \in Workers : Take(w, e))
  /\ \A w \in Workers : WF_vars(WorkerStep(w))
  /\ \A a \in Accounts : WF_vars(CooldownEnds(a))

Spec == Init /\ [][Next]_vars /\ Fairness

-----------------------------------------------------------------------------
(* Properties. *)

\* Every variable has its type, and a lock belongs to a worker that works on
\* the event or on an event of the account.
TypeOK ==
  /\ status \in [Events -> Statuses]
  /\ attempts \in [Events -> Nat] /\ runs \in [Events -> Nat]
  /\ job \in [Events -> {"none", "held", "waiting"}]
  /\ worker \in [Workers -> Worker]
  /\ \A w \in Workers : worker[w].event = Nobody <=> worker[w].pc = "idle"
  /\ eventLock \in [Events -> Workers \cup {Nobody}]
  /\ accountLock \in [Accounts -> Workers \cup {Nobody}]
  /\ \A e \in Events : eventLock[e] # Nobody => worker[eventLock[e]].event = e
  /\ \A a \in Accounts : accountLock[a] # Nobody =>
       LET e == worker[accountLock[a]].event IN e # Nobody /\ AccountOf[e] = a
  /\ cooldown \subseteq Accounts /\ connected \subseteq Accounts
  /\ crashes \in 0..MaxCrashes /\ delays \in 0..MaxDelays
  /\ actions \in 0..MaxActions

\* At most one handler runs for an account, over all instances.
OneHandlerPerAccount ==
  \A v, w \in Handling :
    v # w => AccountOf[worker[v].event] # AccountOf[worker[w].event]

\* Recovery never takes an event from a handler that is alive: its result will
\* be accepted, since the event is still processing in its generation.
LiveHandlerKeepsEvent ==
  \A w \in Handling : worker[w].fresh /\ status[worker[w].event] = "PROCESSING"

\* A handler has its account and its event to itself for as long as it lives.
HandlersAreExclusive == OneHandlerPerAccount /\ LiveHandlerKeepsEvent

\* An event is handled at most MaxAttempts times after it was received or
\* retried by hand, counting the handlers that died.
BudgetRespected == \A e \in Events : runs[e] <= MaxAttempts

\* A processed event is never processed again: a late worker, a recovery or an
\* administrator cannot reopen it.
ProcessedIsFinal ==
  [][\A e \in Events : status[e] = "PROCESSED" => status'[e] = "PROCESSED"]_status

\* What became of an event, as Delivery sees it.
Outcome(s) == CASE s = "NONE"        -> "unknown"
                [] s = "PROCESSED"   -> "done"
                [] s = "DEAD_LETTER" -> "failed"
                [] s = "IGNORED"     -> "ignored"
                [] OTHER             -> "open"

Promised == INSTANCE Delivery
       WITH outcome <- [e \in Events |-> Outcome(status[e])],
            starts <- runs

\* Queue, locks, generations and recovery implement Delivery: whatever dies, is
\* delivered twice or arrives late, an event has no more handlers than its
\* budget, no outcome without one, and stays processed once it is.
ImplementsDelivery == Promised!Spec

\* Every event that was received is settled in the end, whatever died, was lost
\* or was put back on the way.
EventSettles ==
  \A e \in Events : status[e] # "NONE" ~> status[e] \in Settled

=============================================================================
