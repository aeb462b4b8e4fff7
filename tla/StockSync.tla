----------------------------- MODULE StockSync -----------------------------
(***************************************************************************)
(* How the availability of one product reaches the marketplaces: the       *)
(* outbox publisher, the fan-out to the product's links and the            *)
(* synchronisation of each link (MarketplaceStockProcessor and             *)
(* MarketplaceStockSyncService, api/src/marketplace-connectors/stock).     *)
(*                                                                         *)
(* All three are jobs of one BullMQ queue served by Workers concurrent     *)
(* workers.  The database, the queue and the marketplace are only touched  *)
(* one statement at a time, so the jobs interleave between any two.  The   *)
(* balance is the history of its availability: stock[v] is what was        *)
(* available at version v, the last element is the balance now.            *)
(***************************************************************************)
EXTENDS Naturals, Sequences, FiniteSets

CONSTANTS
  Links,        \* marketplace links of the product
  NoLink,       \* no link is being served
  Workers,      \* STOCK_SYNC_CONCURRENCY
  MaxClaims,    \* times an event is claimed before it is given up
  MaxAttempts,  \* STOCK_SYNC_MAX_ATTEMPTS
  Quantities,   \* availabilities of the product
  MaxVersion,   \* bound: versions of the balance
  MaxRequests,  \* bound: synchronisations requested by hand
  MaxFaults,    \* bound: failures of the queue, links lost and recovered
  MaxCrashes    \* bound: crashes of the process; a job BullMQ finds stalled
                \* for the second time fails, so more than one is not modelled

ASSUME LinksAssumption  == NoLink \notin Links /\ IsFiniteSet(Links)
ASSUME LimitsAssumption == /\ {Workers, MaxClaims, MaxAttempts, MaxVersion}
                                \subseteq Nat \ {0}
                           /\ {MaxRequests, MaxFaults} \subseteq Nat
                           /\ MaxCrashes \in {0, 1}
                           /\ Quantities \subseteq Nat /\ 0 \in Quantities

VARIABLES
  stock,     \* availability at each version of the balance
  events,    \* outbox events, in order of creation
  claimed,   \* events held in the memory of running publishers
  fan,       \* the FANOUT job of each event
  rows,      \* marketplace_stock_syncs, one per link and version
  jobs,      \* the SYNC job of each link and version
  external,  \* version whose availability the marketplace shows, 0 at first
  ready,     \* links that are active on a connected account
  requests, faults, crashes,
  past       \* history: the events a publisher held when it died, and the
             \* rows reopened while their job had not yet ended

vars == <<stock, events, claimed, fan, rows, jobs, external, ready,
          requests, faults, crashes, past>>

-----------------------------------------------------------------------------

Versions == 1..MaxVersion
Version  == Len(stock)
Now      == stock[Version]

EventStatus == {"PENDING", "PROCESSING", "RETRYING", "PROCESSED", "FAILED"}

SyncStatus == {"NONE", "PENDING", "PROCESSING", "RETRYING", "SUCCESS",
               "SUPERSEDED", "FAILED"}

Open  == {"PENDING", "PROCESSING", "RETRYING"}
Ended == {"SUCCESS", "SUPERSEDED", "FAILED"}

Event == [version : Versions, status : EventStatus, claims : 0..MaxClaims]

Fanout == [state : {"none", "waiting", "active", "done", "failed"},
           todo : SUBSET Links, at : Links \cup {NoLink}]

Job == [state : {"none", "waiting", "active", "done"}, made : 0..MaxAttempts,
        pc : {"idle", "read", "send", "check", "end"}, read : 0..MaxVersion]

Idle == [state |-> "none", todo |-> {}, at |-> NoLink]

NoJob == [state |-> "none", made |-> 0, pc |-> "idle", read |-> 0]

\* Workers occupied by jobs of the queue; publishers that overlap count as one.
Busy == Cardinality({e \in DOMAIN fan : fan[e].state = "active"})
        + Cardinality({lv \in Links \X Versions : jobs[lv].state = "active"})
        + (IF claimed = {} THEN 0 ELSE 1)

FreeWorker == Busy < Workers

-----------------------------------------------------------------------------
(* The inventory. *)

Emit(v) ==
  /\ events' = Append(events, [version |-> v, status |-> "PENDING", claims |-> 0])
  /\ fan' = Append(fan, Idle)

\* persist: a new version of the balance, with an event when it changes what is
\* available.  Completing a reservation changes the balance but not this.
Change(q) ==
  /\ Version < MaxVersion
  /\ stock' = Append(stock, q)
  /\ IF q # Now THEN Emit(Version + 1) ELSE UNCHANGED <<events, fan>>
  /\ UNCHANGED <<claimed, rows, jobs, external, ready, requests, faults,
                 crashes, past>>

\* requestProduct, which retry and reconcileAccount call.
Request ==
  /\ requests < MaxRequests
  /\ requests' = requests + 1
  /\ Emit(Version)
  /\ UNCHANGED <<stock, claimed, rows, jobs, external, ready, faults,
                 crashes, past>>

-----------------------------------------------------------------------------
(* publishOutbox. *)

\* Claims events that are due; a retried one is due after a delay.
Claim(es) ==
  /\ FreeWorker
  /\ es # {}
  /\ \A e \in es : events[e].status \in {"PENDING", "RETRYING"}
  /\ events' = [e \in DOMAIN events |->
                  IF e \in es
                  THEN [events[e] EXCEPT !.status = "PROCESSING",
                                         !.claims = @ + 1]
                  ELSE events[e]]
  /\ claimed' = claimed \cup es
  /\ UNCHANGED <<stock, fan, rows, jobs, external, ready, requests, faults,
                 crashes, past>>

\* The job id is derived from the event: adding it again does nothing.
Added(e) ==
  IF fan[e].state = "none" THEN [fan EXCEPT ![e].state = "waiting"] ELSE fan

PublishAdd(e) ==
  /\ e \in claimed
  /\ fan[e].state = "none"
  /\ fan' = Added(e)
  /\ UNCHANGED <<stock, events, claimed, rows, jobs, external, ready,
                 requests, faults, crashes, past>>

PublishSave(e) ==
  /\ e \in claimed
  /\ fan[e].state # "none"
  /\ events' = [events EXCEPT ![e].status = "PROCESSED"]
  /\ claimed' = claimed \ {e}
  /\ UNCHANGED <<stock, fan, rows, jobs, external, ready, requests, faults,
                 crashes, past>>

\* The queue did not answer: it may have taken the job all the same.
PublishFails(e) ==
  /\ faults < MaxFaults
  /\ faults' = faults + 1
  /\ e \in claimed
  /\ fan' \in {fan, Added(e)}
  /\ events' = [events EXCEPT ![e].status =
                  IF events[e].claims >= MaxClaims THEN "FAILED" ELSE "RETRYING"]
  /\ claimed' = claimed \ {e}
  /\ UNCHANGED <<stock, rows, jobs, external, ready, requests, crashes, past>>

-----------------------------------------------------------------------------
(* fanout. *)

\* A fan-out with the links ls still to be served.
Serving(ls) == [state |-> IF ls = {} THEN "done" ELSE "active",
                todo |-> ls, at |-> NoLink]

FanoutStart(e) ==
  /\ FreeWorker
  /\ fan[e].state = "waiting"
  /\ fan' = [fan EXCEPT ![e] = Serving(ready)]
  /\ UNCHANGED <<stock, events, claimed, rows, jobs, external, ready,
                 requests, faults, crashes, past>>

\* Inserts the row of the link and version, or reopens one that has ended.
FanoutSave(e, l) ==
  /\ fan[e].state = "active" /\ fan[e].at = NoLink
  /\ l \in fan[e].todo
  /\ fan' = [fan EXCEPT ![e].at = l]
  /\ LET lv == <<l, events[e].version>> IN
     \/ rows[lv].status \in Open /\ UNCHANGED <<rows, past>>
     \/ /\ rows[lv].status \notin Open
        /\ rows' = [rows EXCEPT ![lv].status = "PENDING"]
        /\ past' = [past EXCEPT !.crossed =
                      IF jobs[lv].state = "active" THEN @ \cup {lv} ELSE @]
  /\ UNCHANGED <<stock, events, claimed, jobs, external, ready,
                 requests, faults, crashes>>

\* Mutant: a job that has ended is not removed, so that its id is still taken.
Enqueued_Kept(lv) ==
  IF jobs[lv].state # "none" THEN jobs
  ELSE [jobs EXCEPT ![lv] = [NoJob EXCEPT !.state = "waiting"]]

\* The job of the link and version, unless there is a live one.
Enqueued(lv) ==
  IF jobs[lv].state \in {"waiting", "active"} THEN jobs
  ELSE [jobs EXCEPT ![lv] = [NoJob EXCEPT !.state = "waiting"]]

FanoutAdd(e) ==
  /\ fan[e].state = "active" /\ fan[e].at # NoLink
  /\ jobs' = Enqueued(<<fan[e].at, events[e].version>>)
  /\ fan' = [fan EXCEPT ![e] = Serving(fan[e].todo \ {fan[e].at})]
  /\ UNCHANGED <<stock, events, claimed, rows, external, ready,
                 requests, faults, crashes, past>>

\* FANOUT jobs have one attempt.
FanoutFails(e) ==
  /\ faults < MaxFaults
  /\ faults' = faults + 1
  /\ fan[e].state = "active" /\ fan[e].at # NoLink
  /\ fan' = [fan EXCEPT ![e].state = "failed"]
  /\ UNCHANGED <<stock, events, claimed, rows, jobs, external, ready,
                 requests, crashes, past>>

-----------------------------------------------------------------------------
(* sync. *)

Finish(lv, status) ==
  /\ rows' = [rows EXCEPT ![lv].status = status]
  /\ jobs' = [jobs EXCEPT ![lv].pc = "end"]

Stale_Never(lv) == FALSE  \* mutant: the version is not compared before sending

\* The balance has moved on since the event.
Stale(lv) == Version > lv[2]

\* A worker takes the job and marks the row as being processed.
SyncStart(lv) ==
  /\ FreeWorker
  /\ jobs[lv].state = "waiting"
  /\ rows' = [rows EXCEPT ![lv].status = "PROCESSING"]
  /\ jobs' = [jobs EXCEPT ![lv].state = "active", ![lv].pc = "read"]
  /\ UNCHANGED <<stock, events, claimed, fan, external, ready,
                 requests, faults, crashes, past>>

\* Reads balance, link and connection and decides whether to send.
SyncRead(lv) ==
  /\ jobs[lv].pc = "read"
  /\ IF lv[1] \notin ready THEN Finish(lv, "FAILED")
     ELSE IF Stale(lv) THEN Finish(lv, "SUPERSEDED")
     ELSE /\ jobs' = [jobs EXCEPT ![lv].pc = "send", ![lv].read = Version]
          /\ UNCHANGED rows
  /\ UNCHANGED <<stock, events, claimed, fan, external, ready,
                 requests, faults, crashes, past>>

SyncSend(lv) ==
  /\ jobs[lv].pc = "send"
  /\ external' = [external EXCEPT ![lv[1]] = jobs[lv].read]
  /\ jobs' = [jobs EXCEPT ![lv].pc = "check"]
  /\ UNCHANGED <<stock, events, claimed, fan, rows, ready,
                 requests, faults, crashes, past>>

LastAttempt_Never(lv) == FALSE  \* mutant: every failure is retried

LastAttempt(lv) == jobs[lv].made + 1 >= MaxAttempts

SyncFails_Returned(lv, retryable) ==  \* mutant: no error reaches BullMQ
  /\ jobs[lv].pc = "send"
  /\ external' \in {external, [external EXCEPT ![lv[1]] = jobs[lv].read]}
  /\ Finish(lv, IF retryable /\ ~LastAttempt(lv) THEN "RETRYING" ELSE "FAILED")
  /\ UNCHANGED <<stock, events, claimed, fan, ready, requests, faults,
                 crashes, past>>

\* updateStock fails; a call that timed out may have taken effect.
SyncFails(lv, retryable) ==
  /\ jobs[lv].pc = "send"
  /\ external' \in {external, [external EXCEPT ![lv[1]] = jobs[lv].read]}
  /\ IF retryable /\ ~LastAttempt(lv)
     THEN /\ rows' = [rows EXCEPT ![lv].status = "RETRYING"]
          /\ jobs' = [jobs EXCEPT ![lv] = [NoJob EXCEPT !.state = "waiting",
                                                        !.made = jobs[lv].made + 1]]
     ELSE Finish(lv, "FAILED")
  /\ UNCHANGED <<stock, events, claimed, fan, ready, requests, faults,
                 crashes, past>>

\* Reads the version again: the row says whether the sent quantity is current.
SyncCheck(lv) ==
  /\ jobs[lv].pc = "check"
  /\ rows' = [rows EXCEPT ![lv] =
                [status |-> IF Version = jobs[lv].read THEN "SUCCESS"
                                                       ELSE "SUPERSEDED",
                 sent   |-> jobs[lv].read]]
  /\ jobs' = [jobs EXCEPT ![lv].pc = "end"]
  /\ UNCHANGED <<stock, events, claimed, fan, external, ready,
                 requests, faults, crashes, past>>

\* BullMQ completes the job after the processor has saved the row.
SyncEnd(lv) ==
  /\ jobs[lv].pc = "end"
  /\ jobs' = [jobs EXCEPT ![lv] = [NoJob EXCEPT !.state = "done"]]
  /\ UNCHANGED <<stock, events, claimed, fan, rows, external, ready,
                 requests, faults, crashes, past>>

-----------------------------------------------------------------------------
(* The environment. *)

\* A link is deactivated or its account disconnected, or the reverse.
Toggle(l) ==
  /\ faults < MaxFaults
  /\ faults' = faults + 1
  /\ ready' = IF l \in ready THEN ready \ {l} ELSE ready \cup {l}
  /\ UNCHANGED <<stock, events, claimed, fan, rows, jobs, external,
                 requests, crashes, past>>

\* The process dies: what publishers held is forgotten, and BullMQ gives the
\* stalled jobs to a worker again.
Crash ==
  /\ crashes < MaxCrashes
  /\ crashes' = crashes + 1
  /\ claimed' = {}
  /\ past' = [past EXCEPT !.dropped = @ \cup claimed]
  /\ fan' = [e \in DOMAIN fan |->
               IF fan[e].state = "active" THEN [Idle EXCEPT !.state = "waiting"]
               ELSE fan[e]]
  /\ jobs' = [lv \in Links \X Versions |->
                IF jobs[lv].state = "active"
                THEN [NoJob EXCEPT !.state = "waiting", !.made = jobs[lv].made]
                ELSE jobs[lv]]
  /\ UNCHANGED <<stock, events, rows, external, ready, requests, faults>>

-----------------------------------------------------------------------------

Init ==
  /\ stock = <<0>>
  /\ events = <<>>
  /\ claimed = {}
  /\ fan = <<>>
  /\ rows = [lv \in Links \X Versions |-> [status |-> "NONE", sent |-> 0]]
  /\ jobs = [lv \in Links \X Versions |-> NoJob]
  /\ external = [l \in Links |-> 0]
  /\ ready = Links
  /\ requests = 0 /\ faults = 0 /\ crashes = 0
  /\ past = [dropped |-> {}, crossed |-> {}]

Publisher(e) == PublishAdd(e) \/ PublishSave(e) \/ PublishFails(e)

FanoutStep(e) ==
  \/ FanoutStart(e) \/ FanoutAdd(e) \/ FanoutFails(e)
  \/ \E l \in Links : FanoutSave(e, l)

SyncStep(lv) ==
  \/ SyncStart(lv) \/ SyncRead(lv) \/ SyncSend(lv) \/ SyncCheck(lv) \/ SyncEnd(lv)
  \/ \E retryable \in BOOLEAN : SyncFails(lv, retryable)

Next ==
  \/ \E q \in Quantities : Change(q)
  \/ Request
  \/ \E es \in SUBSET DOMAIN events : Claim(es)
  \/ \E e \in DOMAIN events : Publisher(e) \/ FanoutStep(e)
  \/ \E lv \in Links \X Versions : SyncStep(lv)
  \/ \E l \in Links : Toggle(l)
  \/ Crash

\* The scheduler ticks every second and workers keep taking jobs; nothing
\* forces the inventory, the users or the failures to act.
EventIds == 1..(MaxVersion - 1 + MaxRequests)

Fairness ==
  /\ \A e \in EventIds :
       /\ WF_vars(\E es \in SUBSET DOMAIN events : e \in es /\ Claim(es))
       /\ WF_vars(e \in DOMAIN events /\ Publisher(e))
       /\ WF_vars(e \in DOMAIN events /\ FanoutStep(e))
  /\ \A lv \in Links \X Versions : WF_vars(SyncStep(lv))

Spec == Init /\ [][Next]_vars /\ Fairness

-----------------------------------------------------------------------------
(* Properties. *)

\* Every variable has its type.
TypeOK ==
  /\ stock \in Seq(Quantities) /\ Version \in Versions
  /\ events \in Seq(Event)
  /\ claimed \subseteq DOMAIN events
  /\ fan \in Seq(Fanout) /\ DOMAIN fan = DOMAIN events
  /\ rows \in [Links \X Versions -> [status : SyncStatus, sent : 0..MaxVersion]]
  /\ jobs \in [Links \X Versions -> Job]
  /\ external \in [Links -> 0..MaxVersion]
  /\ ready \subseteq Links
  /\ requests \in 0..MaxRequests /\ faults \in 0..MaxFaults
  /\ crashes \in 0..MaxCrashes
  /\ past \in [dropped : SUBSET DOMAIN events,
              crossed : SUBSET (Links \X Versions)]

\* The history of synchronisations is honest: a row that says SUCCESS sent what
\* was available at exactly its version, whatever changed while it was sent and
\* however often it was retried or run again after a crash.
SuccessSentItsVersion ==
  \A lv \in Links \X Versions :
    rows[lv].status = "SUCCESS" => rows[lv].sent = lv[2]

\* The outbox loses nothing but what a publisher held when it died: any other
\* event being processed is in the hands of a running publisher.
ClaimedOrDropped ==
  \A e \in DOMAIN events :
    events[e].status = "PROCESSING" => e \in claimed \/ e \in past.dropped

FanoutsOf(v) == {e \in DOMAIN events : events[e].version = v}

\* The fan-out of e is at the link or has failed there; one that died and is
\* run again will come to it.
Reaches(e, l) ==
  \/ fan[e].at = l
  \/ crashes > 0 /\ (fan[e].state = "waiting" \/ l \in fan[e].todo)

\* A row waiting to be sent has someone to send it, however often its version
\* was announced: its job, or a fan-out that will add it.  Only three things
\* leave one behind: a fan-out that lost the queue, the crossing of a repeated
\* fan-out with a job about to end, and a crash while a link comes and goes.
PendingRowIsServed ==
  \A lv \in (Links \X Versions) \ past.crossed :
    rows[lv].status = "PENDING" /\ (crashes = 0 \/ faults = 0)
    => \/ jobs[lv].state = "waiting"
       \/ \E e \in FanoutsOf(lv[2]) : Reaches(e, lv[1])

\* Every event and every row under way is in somebody's hands, unless the end
\* of a process or of the queue, or a crossing, has dropped it.
NothingDropped == ClaimedOrDropped /\ PendingRowIsServed

\* A synchronisation that was started ends, within its attempts and across the
\* crash of a worker.
StartedSyncEnds ==
  \A lv \in Links \X Versions :
    rows[lv].status \in {"PROCESSING", "RETRYING"} ~> rows[lv].status \in Ended

Settled == {e \in DOMAIN events : events[e].status \in {"PROCESSED", "FAILED"}}

\* An event is published or given up, unless a publisher died holding it.
EventLeavesOutbox ==
  \A e \in EventIds :
    e \in DOMAIN events
      ~> e \in past.dropped \/ e \in Settled

\* Nothing that was begun is left half done: neither a synchronisation nor the
\* publication of an event, unless the publisher died with it.
BegunWorkEnds == StartedSyncEnds /\ EventLeavesOutbox

\* The message of a superseded row: a newer version of the stock has replaced
\* this synchronisation, so a newer event announced what it did not send.
SupersededIsReplaced ==
  \A lv \in Links \X Versions :
    rows[lv].status = "SUPERSEDED" =>
      \E e \in DOMAIN events : events[e].version > lv[2]

\* The balance is the source of truth and old events are superseded: what a
\* marketplace shows is never replaced by the availability of an older version.
NeverShowsOlderStock ==
  [][\A l \in Links : external'[l] >= external[l]]_external

=============================================================================
