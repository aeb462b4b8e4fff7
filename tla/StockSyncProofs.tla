--------------------------- MODULE StockSyncProofs --------------------------
(***************************************************************************)
(* Theorems about StockSync, for every finite set of links and any number  *)
(* of workers, attempts, versions, requests, faults and quantities.        *)
(*                                                                         *)
(* A row that waits to be sent has no job under way, unless a repeated     *)
(* fan-out has crossed it, so that whoever comes to the link with a job    *)
(* leaves one behind.                                                      *)
(***************************************************************************)
EXTENDS StockSync, SequenceTheorems, TLAPS

EventsRight ==
  \A e \in DOMAIN events :
    /\ events[e].version <= Version
    /\ events[e].status \in {"PENDING", "RETRYING"}
         => events[e].claims < MaxClaims

FansRight ==
  \A e \in DOMAIN fan :
    /\ fan[e].at # NoLink => fan[e].state \in {"active", "failed"}
    /\ faults = 0 => fan[e].state # "failed"

JobsRight ==
  \A lv \in Links \X Versions :
    /\ jobs[lv].state # "none" => lv[2] <= Version
    /\ jobs[lv].pc # "idle" => jobs[lv].state = "active"
    /\ jobs[lv].pc \in {"send", "check"} => jobs[lv].read = lv[2]

\* The links come and go with the faults only.
ReadyRight == faults = 0 => ready = Links

\* Nobody is serving what waits to be served, and whoever will comes to it.
WaitsRight ==
  \A lv \in (Links \X Versions) \ past.crossed :
    rows[lv].status = "PENDING" => jobs[lv].state # "active"

Served == WaitsRight /\ PendingRowIsServed

IInv ==
  /\ TypeOK
  /\ EventsRight /\ ClaimedOrDropped
  /\ FansRight /\ ReadyRight
  /\ JobsRight /\ SuccessSentItsVersion
  /\ Served

-----------------------------------------------------------------------------
(* Sequences, and the fan-outs of a version.                               *)

LEMMA SeqByPoints ==
  ASSUME NEW S, NEW n \in Nat, NEW s \in [1..n -> S]
  PROVE  s \in Seq(S) /\ Len(s) = n /\ DOMAIN s = 1..n
<1>1. s \in Seq(S) /\ DOMAIN s = 1..n
  BY SeqDef
<1>2. Len(s) \in Nat /\ 1..n = 1..Len(s)
  BY <1>1, LenProperties
<1>3. Len(s) = n
  <2>1. CASE n = 0
    BY <1>2, <2>1
  <2>2. CASE n > 0
    BY <1>2, <2>2
  <2>3. QED
    BY <2>1, <2>2
<1>4. QED
  BY <1>1, <1>3

\* What the sequences of the state are, point by point.
LEMMA Points ==
  ASSUME TypeOK
  PROVE  /\ Len(events) \in Nat /\ DOMAIN events = 1..Len(events)
         /\ events \in [DOMAIN events -> Event]
         /\ fan \in [DOMAIN events -> Fanout] /\ DOMAIN fan = DOMAIN events
         /\ Version \in Versions /\ Versions \subseteq Nat
         /\ \A v : FanoutsOf(v) \subseteq DOMAIN events
<1>1. events \in Seq(Event) /\ fan \in Seq(Fanout) /\ DOMAIN fan = DOMAIN events
      /\ Version \in Versions
  BY DEF TypeOK
<1>2. /\ Len(events) \in Nat /\ DOMAIN events = 1..Len(events)
      /\ events \in [DOMAIN events -> Event]
  BY <1>1, LenProperties
<1>3. fan \in [DOMAIN events -> Fanout]
  BY <1>1, LenProperties
<1>4. QED
  BY <1>1, <1>2, <1>3, LimitsAssumption DEF FanoutsOf, Versions

\* Sequences of the same domain and of the right rows keep their types.
LEMMA NewPoints ==
  ASSUME TypeOK,
         events' \in [DOMAIN events -> Event], fan' \in [DOMAIN events -> Fanout]
  PROVE  /\ events' \in Seq(Event) /\ fan' \in Seq(Fanout)
         /\ DOMAIN events' = DOMAIN events /\ DOMAIN fan' = DOMAIN events
BY Points, SeqByPoints

\* The type of the constants that the rows are counted in.
LEMMA Limits ==
  /\ MaxClaims \in Nat \ {0} /\ MaxAttempts \in Nat \ {0}
  /\ MaxVersion \in Nat \ {0} /\ MaxRequests \in Nat /\ MaxFaults \in Nat
  /\ MaxCrashes \in Nat /\ 0 \in Quantities /\ NoLink \notin Links
BY LimitsAssumption, LinksAssumption

-----------------------------------------------------------------------------
(* The rows of a version are served.                                       *)

\* A step that forgets no fan-out and no waiting job, reopens no row and
\* touches the row of a job under way only.
LEMMA ServedKept ==
  ASSUME TypeOK, Served, crashes' = crashes, faults' = 0 => faults = 0,
         past' = past, DOMAIN events' = DOMAIN events,
         \A e \in DOMAIN events :
           /\ events'[e].version = events[e].version
           /\ crashes = 0 \/ faults' = 0
                => \A l \in Links : Reaches(e, l) => Reaches(e, l)',
         \A lv \in Links \X Versions :
           rows'[lv].status = "PENDING" =>
             /\ rows[lv].status = "PENDING"
             /\ jobs[lv].state # "active" =>
                  /\ jobs'[lv].state # "active"
                  /\ jobs[lv].state = "waiting" => jobs'[lv].state = "waiting"
  PROVE  Served'
<1>1. \A v : FanoutsOf(v)' = FanoutsOf(v) /\ FanoutsOf(v) \subseteq DOMAIN events
  BY DEF FanoutsOf
<1>2. WaitsRight'
  BY DEF Served, WaitsRight
<1>3. PendingRowIsServed'
  <2> SUFFICES ASSUME NEW lv \in (Links \X Versions) \ past.crossed,
                      rows'[lv].status = "PENDING", crashes = 0 \/ faults' = 0,
                      jobs'[lv].state # "waiting"
               PROVE  \E e \in FanoutsOf(lv[2])' : Reaches(e, lv[1])'
    BY DEF PendingRowIsServed
  <2>1. /\ rows[lv].status = "PENDING" /\ jobs[lv].state # "waiting"
        /\ crashes = 0 \/ faults = 0
    BY DEF Served, WaitsRight
  <2>2. PICK e \in FanoutsOf(lv[2]) : Reaches(e, lv[1])
    BY <2>1 DEF Served, PendingRowIsServed
  <2>3. e \in DOMAIN events /\ lv[1] \in Links
    BY <1>1
  <2>4. QED
    BY <1>1, <2>2, <2>3
<1>4. QED
  BY <1>2, <1>3 DEF Served

\* A new event has served nobody yet.
LEMMA ServedEmit ==
  ASSUME TypeOK, Served, NEW v \in Versions, Emit(v),
         UNCHANGED <<rows, jobs, faults, crashes, past>>
  PROVE  /\ events' \in Seq(Event) /\ fan' \in Seq(Fanout)
         /\ DOMAIN events' = DOMAIN events \cup {Len(events) + 1}
         /\ DOMAIN fan' = DOMAIN events'
         /\ \A e \in DOMAIN events : events'[e] = events[e] /\ fan'[e] = fan[e]
         /\ events'[Len(events) + 1] =
              [version |-> v, status |-> "PENDING", claims |-> 0]
         /\ fan'[Len(events) + 1] = Idle
         /\ Served'
<1> DEFINE n == Len(events) + 1
           x == [version |-> v, status |-> "PENDING", claims |-> 0]
<1>1. x \in Event /\ Idle \in Fanout
  BY Limits DEF Event, EventStatus, Fanout, Idle
<1>2. events \in Seq(Event) /\ fan \in Seq(Fanout) /\ Len(fan) = Len(events)
  <2>1. events \in Seq(Event) /\ fan \in Seq(Fanout)
    BY DEF TypeOK
  <2>2. fan \in [1..Len(events) -> Fanout] /\ Len(events) \in Nat
    BY Points
  <2>3. QED
    BY <2>1, <2>2, SeqByPoints
<1>3. events' = Append(events, x) /\ fan' = Append(fan, Idle)
  BY DEF Emit
<1>4. /\ events' \in Seq(Event) /\ Len(events') = n
      /\ \A i \in 1..Len(events) : events'[i] = events[i]
      /\ events'[n] = x
  BY <1>1, <1>2, <1>3, AppendProperties
<1>5. /\ fan' \in Seq(Fanout) /\ Len(fan') = n
      /\ \A i \in 1..Len(events) : fan'[i] = fan[i]
      /\ fan'[n] = Idle
  BY <1>1, <1>2, <1>3, AppendProperties
<1>6. /\ DOMAIN events' = DOMAIN events \cup {n} /\ DOMAIN fan' = DOMAIN events'
      /\ n \notin DOMAIN events /\ DOMAIN events = 1..Len(events)
  <2>1. DOMAIN events' = 1..n /\ DOMAIN fan' = 1..n
    BY <1>4, <1>5, LenProperties
  <2>2. QED
    BY <2>1, Points
<1>7. \A u : FanoutsOf(u) \subseteq FanoutsOf(u)'
             /\ FanoutsOf(u) \subseteq DOMAIN events
  BY <1>4, <1>6 DEF FanoutsOf
<1>8. \A e \in DOMAIN events : \A l : Reaches(e, l)' <=> Reaches(e, l)
  BY <1>5, <1>6 DEF Reaches
<1> HIDE DEF n, x
<1>9. Served'
  <2>1. WaitsRight'
    BY DEF Served, WaitsRight
  <2>2. PendingRowIsServed'
    BY <1>7, <1>8 DEF Served, PendingRowIsServed
  <2>3. QED
    BY <2>1, <2>2 DEF Served
<1>10. QED
  BY <1>4, <1>5, <1>6, <1>9 DEF n, x

-----------------------------------------------------------------------------
(* The inventory.                                                          *)

\* A version is added, or none, and it is announced or it is not.
LEMMA EmitStep ==
  ASSUME IInv, stock' \in Seq(Quantities), Version' \in Versions,
         Version <= Version', Emit(Version'), requests' \in 0..MaxRequests,
         UNCHANGED <<claimed, rows, jobs, external, ready, faults, crashes,
                     past>>
  PROVE  IInv'
<1> DEFINE n == Len(events) + 1
           x == [version |-> Version', status |-> "PENDING", claims |-> 0]
<1>1. TypeOK /\ Served
  BY DEF IInv
<1>2. /\ events' \in Seq(Event) /\ fan' \in Seq(Fanout)
      /\ DOMAIN events' = DOMAIN events \cup {n} /\ DOMAIN fan' = DOMAIN events'
      /\ \A e \in DOMAIN events : events'[e] = events[e] /\ fan'[e] = fan[e]
      /\ events'[n] = x /\ fan'[n] = Idle
      /\ Served'
  BY <1>1, ServedEmit
<1> HIDE DEF n, x
<1>3. TypeOK'
  BY <1>1, <1>2 DEF TypeOK
<1>4. /\ Version \in Nat /\ Version' \in Nat
      /\ \A e \in DOMAIN events : events[e].version \in Nat
      /\ \A lv \in Links \X Versions : lv[2] \in Nat
  BY <1>1, Points DEF Event
<1>5. x.version = Version' /\ x.status = "PENDING" /\ x.claims = 0
      /\ Idle.at = NoLink
  BY DEF x, Idle
<1>6. EventsRight' /\ ClaimedOrDropped'
  BY <1>2, <1>4, <1>5, Limits DEF IInv, EventsRight, ClaimedOrDropped
<1>7. FansRight'
  BY <1>1, <1>2, <1>5, Points DEF IInv, FansRight, Idle
<1>8. JobsRight' /\ SuccessSentItsVersion' /\ ReadyRight'
  BY <1>4 DEF ReadyRight, IInv, JobsRight, SuccessSentItsVersion
<1>9. QED
  BY <1>2, <1>3, <1>6, <1>7, <1>8 DEF IInv

LEMMA ChangeStep ==
  ASSUME IInv, NEW q \in Quantities, Change(q)
  PROVE  IInv'
<1>1. /\ Version < MaxVersion /\ stock' = Append(stock, q)
      /\ UNCHANGED <<claimed, rows, jobs, external, ready, requests, faults,
                     crashes, past>>
  BY DEF Change
<1>2. TypeOK /\ stock \in Seq(Quantities) /\ Version \in Nat
      /\ requests \in 0..MaxRequests
  BY Points DEF IInv, TypeOK
<1>3. stock' \in Seq(Quantities) /\ Version' = Version + 1
  BY <1>1, <1>2, AppendProperties DEF Version
<1>4. Version' \in Versions
  BY <1>1, <1>2, <1>3, Limits DEF Versions
<1>5. CASE Emit(Version + 1)
  BY <1>1, <1>2, <1>3, <1>4, <1>5, EmitStep
<1>6. CASE UNCHANGED <<events, fan>>
  <2>1. TypeOK'
    BY <1>1, <1>2, <1>3, <1>4, <1>6 DEF TypeOK
  <2>2. /\ \A e \in DOMAIN events : events[e].version \in Nat
        /\ \A lv \in Links \X Versions : lv[2] \in Nat
    BY <1>2, Points DEF Event
  <2>3. EventsRight' /\ ClaimedOrDropped' /\ FansRight' /\ JobsRight'
        /\ SuccessSentItsVersion' /\ ReadyRight'
    BY <1>1, <1>2, <1>3, <1>6, <2>2 DEF IInv, EventsRight, ClaimedOrDropped,
       FansRight, JobsRight, SuccessSentItsVersion, ReadyRight
  <2>4. Served'
    BY <1>1, <1>6 DEF IInv, Served, WaitsRight, PendingRowIsServed, Reaches,
                      FanoutsOf
  <2>5. QED
    BY <2>1, <2>3, <2>4 DEF IInv
<1>7. QED
  BY <1>5, <1>6 DEF Change

LEMMA RequestStep ==
  ASSUME IInv, Request
  PROVE  IInv'
<1>1. /\ requests < MaxRequests /\ requests' = requests + 1
      /\ Emit(Version) /\ UNCHANGED stock
      /\ UNCHANGED <<claimed, rows, jobs, external, ready, faults, crashes,
                     past>>
  BY DEF Request
<1>2. TypeOK /\ stock \in Seq(Quantities) /\ Version \in Versions
      /\ Version \in Nat /\ requests \in 0..MaxRequests
  BY Points DEF IInv, TypeOK
<1>3. Version' = Version /\ requests' \in 0..MaxRequests
  BY <1>1, <1>2, Limits DEF Version
<1>4. QED
  BY <1>1, <1>2, <1>3, EmitStep

-----------------------------------------------------------------------------
(* The outbox.                                                             *)

\* A step of the publisher rewrites one event, or claims some, and may start
\* the fan-out of one.
LEMMA PublisherStep ==
  ASSUME IInv, events' \in [DOMAIN events -> Event],
         claimed' \subseteq DOMAIN events,
         \A e \in DOMAIN events :
           /\ events'[e].version = events[e].version
           /\ events'[e].status \in {"PENDING", "RETRYING"}
                => events'[e].claims < MaxClaims
           /\ events'[e].status = "PROCESSING"
                => e \in claimed' \/ e \in past.dropped,
         fan' = fan \/ \E e \in DOMAIN events : fan' = Added(e),
         faults' \in 0..MaxFaults, faults' = 0 => faults = 0,
         UNCHANGED <<stock, rows, jobs, external, ready, requests, crashes,
                     past>>
  PROVE  IInv'
<1>1. TypeOK /\ Served
  BY DEF IInv
<1>2. /\ fan \in [DOMAIN events -> Fanout] /\ DOMAIN fan = DOMAIN events
      /\ \A l \in Links : l # NoLink
  BY <1>1, Points, Limits
<1>3. fan' \in [DOMAIN events -> Fanout]
      /\ \A e \in DOMAIN events :
           fan'[e] = fan[e] \/ (/\ fan[e].state = "none"
                                /\ fan'[e] = [fan[e] EXCEPT !.state = "waiting"])
  <2>1. CASE fan' = fan
    BY <1>2, <2>1
  <2>2. ASSUME NEW d \in DOMAIN events, fan' = Added(d), fan' # fan
        PROVE  /\ fan[d].state = "none" /\ fan[d] \in Fanout
               /\ fan' = [fan EXCEPT ![d] = [fan[d] EXCEPT !.state = "waiting"]]
    BY <1>2, <2>2 DEF Added
  <2>3. \A x \in Fanout : [x EXCEPT !.state = "waiting"] \in Fanout
    BY DEF Fanout
  <2>4. CASE fan' # fan
    BY <1>2, <2>2, <2>3, <2>4
  <2>5. QED
    BY <2>1, <2>4
<1>4. \A e \in DOMAIN events :
        /\ fan'[e].at = fan[e].at /\ fan'[e].todo = fan[e].todo
        /\ fan[e].state # "none" => fan'[e] = fan[e]
        /\ fan[e].state = "none" => fan'[e].state \in {"none", "waiting"}
  BY <1>2, <1>3 DEF Fanout
<1>5. /\ events' \in Seq(Event) /\ fan' \in Seq(Fanout)
      /\ DOMAIN events' = DOMAIN events /\ DOMAIN fan' = DOMAIN events
  BY <1>1, <1>3, NewPoints
<1>6. TypeOK'
  BY <1>1, <1>5 DEF TypeOK, Version
<1>7. Version' = Version
  BY DEF Version
<1>8. EventsRight' /\ ClaimedOrDropped'
  BY <1>5, <1>7 DEF IInv, EventsRight, ClaimedOrDropped
<1>9. FansRight' /\ ReadyRight'
  BY <1>2, <1>4, <1>5 DEF IInv, FansRight, ReadyRight
<1>10. JobsRight' /\ SuccessSentItsVersion'
  BY <1>7 DEF IInv, JobsRight, SuccessSentItsVersion
<1>11. Served'
  <2>1. \A e \in DOMAIN events : \A l : Reaches(e, l) => Reaches(e, l)'
    BY <1>4 DEF Reaches
  <2>2. QED
    BY <1>1, <1>5, <2>1, ServedKept
<1>12. QED
  BY <1>6, <1>8, <1>9, <1>10, <1>11 DEF IInv

LEMMA ClaimStep ==
  ASSUME IInv, NEW es \in SUBSET DOMAIN events, Claim(es)
  PROVE  IInv'
<1>1. /\ \A e \in es : events[e].status \in {"PENDING", "RETRYING"}
      /\ events' = [e \in DOMAIN events |->
                      IF e \in es THEN [events[e] EXCEPT !.status = "PROCESSING",
                                                         !.claims = @ + 1]
                                  ELSE events[e]]
      /\ claimed' = claimed \cup es
      /\ UNCHANGED <<stock, fan, rows, jobs, external, ready, requests, faults,
                     crashes, past>>
  BY DEF Claim
<1>2. TypeOK /\ claimed \subseteq DOMAIN events /\ faults \in 0..MaxFaults
      /\ events \in [DOMAIN events -> Event]
  BY Points DEF IInv, TypeOK
<1>3. ASSUME NEW e \in DOMAIN events
      PROVE  /\ events'[e] \in Event
             /\ events'[e].version = events[e].version
             /\ events'[e].status \in {"PENDING", "RETRYING"}
                  => events'[e].claims < MaxClaims
             /\ events'[e].status = "PROCESSING"
                  => e \in claimed' \/ e \in past.dropped
  <2>1. events[e] \in Event
    BY <1>2
  <2>2. CASE e \in es
    <3>1. events'[e] = [events[e] EXCEPT !.status = "PROCESSING",
                                         !.claims = @ + 1]
      BY <1>1, <2>2
    <3>2. events[e].claims < MaxClaims
      BY <1>1, <2>2 DEF IInv, EventsRight
    <3>3. events[e].claims \in 0..MaxClaims /\ events[e].claims + 1 \in 0..MaxClaims
      BY <2>1, <3>2, Limits DEF Event
    <3>4. events'[e] = [version |-> events[e].version, status |-> "PROCESSING",
                        claims |-> events[e].claims + 1]
      BY <2>1, <3>1 DEF Event
    <3>5. events'[e] \in Event /\ events'[e].version = events[e].version
          /\ events'[e].status = "PROCESSING"
      BY <2>1, <3>3, <3>4 DEF Event, EventStatus
    <3>6. QED
      BY <1>1, <2>2, <3>5
  <2>3. CASE e \notin es
    <3>1. events'[e] = events[e]
      BY <1>1, <2>3
    <3>2. QED
      BY <1>1, <2>1, <3>1 DEF IInv, EventsRight, ClaimedOrDropped
  <2>4. QED
    BY <2>2, <2>3
<1>4. events' \in [DOMAIN events -> Event] /\ claimed' \subseteq DOMAIN events
  BY <1>1, <1>2, <1>3
<1>5. QED
  BY <1>1, <1>2, <1>3, <1>4, PublisherStep

LEMMA PublishStep ==
  ASSUME IInv, NEW e \in DOMAIN events, Publisher(e)
  PROVE  IInv'
<1>1. TypeOK /\ claimed \subseteq DOMAIN events /\ faults \in 0..MaxFaults
      /\ events \in [DOMAIN events -> Event] /\ faults \in Nat
  BY SMTT(30), Points, Limits DEF IInv, TypeOK
<1>2. EventsRight /\ ClaimedOrDropped
  BY DEF IInv
<1>3. CASE PublishAdd(e)
  <2>1. fan' = Added(e)
        /\ UNCHANGED <<stock, events, claimed, rows, jobs, external, ready,
                       requests, faults, crashes, past>>
    BY <1>3 DEF PublishAdd
  <2>2. QED
    BY <1>1, <1>2, <2>1, PublisherStep DEF EventsRight, ClaimedOrDropped
<1>4. ASSUME NEW s \in {"PROCESSED", "FAILED", "RETRYING"},
             s = "RETRYING" => events[e].claims < MaxClaims,
             events' = [events EXCEPT ![e].status = s],
             claimed' = claimed \ {e}
      PROVE  /\ events' \in [DOMAIN events -> Event]
             /\ claimed' \subseteq DOMAIN events
             /\ \A d \in DOMAIN events :
                  /\ events'[d].version = events[d].version
                  /\ events'[d].status \in {"PENDING", "RETRYING"}
                       => events'[d].claims < MaxClaims
                  /\ events'[d].status = "PROCESSING"
                       => d \in claimed' \/ d \in past.dropped
  <2>1. events[e] \in Event
    BY <1>1
  <2>2. /\ [events[e] EXCEPT !.status = s] \in Event
        /\ [events[e] EXCEPT !.status = s].version = events[e].version
        /\ [events[e] EXCEPT !.status = s].claims = events[e].claims
        /\ [events[e] EXCEPT !.status = s].status = s
    BY <2>1 DEF Event, EventStatus
  <2>3. \A d \in DOMAIN events :
          events'[d] = IF d = e THEN [events[e] EXCEPT !.status = s]
                                ELSE events[d]
    BY <1>1, <1>4
  <2>4. events' \in [DOMAIN events -> Event]
    BY <1>1, <1>4, <2>2
  <2>5. QED
    BY <1>1, <1>2, <1>4, <2>2, <2>3, <2>4 DEF EventsRight, ClaimedOrDropped
<1>5. CASE PublishSave(e)
  <2>1. /\ events' = [events EXCEPT ![e].status = "PROCESSED"]
        /\ claimed' = claimed \ {e}
        /\ UNCHANGED <<stock, fan, rows, jobs, external, ready, requests, faults,
                       crashes, past>>
    BY <1>5 DEF PublishSave
  <2>2. QED
    BY <1>1, <1>4, <2>1, PublisherStep
<1>6. CASE PublishFails(e)
  <2> DEFINE s == IF events[e].claims >= MaxClaims THEN "FAILED" ELSE "RETRYING"
  <2>1. /\ faults < MaxFaults /\ faults' = faults + 1
        /\ fan' \in {fan, Added(e)}
        /\ events' = [events EXCEPT ![e].status = s]
        /\ claimed' = claimed \ {e}
        /\ UNCHANGED <<stock, rows, jobs, external, ready, requests, crashes,
                       past>>
    BY <1>6 DEF PublishFails
  <2>2. events[e].claims \in Nat
    BY <1>1, Limits DEF Event
  <2>3. /\ s \in {"PROCESSED", "FAILED", "RETRYING"}
        /\ s = "RETRYING" => events[e].claims < MaxClaims
    BY <2>2, Limits
  <2>4. faults' \in 0..MaxFaults /\ faults' # 0
    BY <1>1, <2>1, Limits
  <2> HIDE DEF s
  <2>5. QED
    BY <1>4, <2>1, <2>3, <2>4, PublisherStep
<1>7. QED
  BY <1>3, <1>5, <1>6 DEF Publisher

-----------------------------------------------------------------------------
(* The fan-out.                                                            *)

\* A step of one fan-out leaves events and stock alone.
LEMMA FanoutChange ==
  ASSUME IInv, NEW e \in DOMAIN events, NEW x \in Fanout,
         fan' = [fan EXCEPT ![e] = x],
         x.at # NoLink => x.state \in {"active", "failed"},
         x.state = "failed" => faults' # 0, faults' = 0 => faults = 0,
         rows' \in [Links \X Versions ->
                      [status : SyncStatus, sent : 0..MaxVersion]],
         jobs' \in [Links \X Versions -> Job],
         faults' \in 0..MaxFaults,
         past'.dropped = past.dropped,
         past' \in [dropped : SUBSET DOMAIN events,
                   crossed : SUBSET (Links \X Versions)],
         UNCHANGED <<stock, events, claimed, external, ready, requests, crashes>>
  PROVE  /\ TypeOK' /\ EventsRight' /\ ClaimedOrDropped' /\ FansRight'
         /\ ReadyRight'
         /\ \A d \in DOMAIN events : fan'[d] = IF d = e THEN x ELSE fan[d]
         /\ fan[e] \in Fanout
<1>1. TypeOK /\ fan \in [DOMAIN events -> Fanout] /\ DOMAIN fan = DOMAIN events
      /\ events \in [DOMAIN events -> Event]
  BY Points DEF IInv
<1>2. /\ \A d \in DOMAIN events : fan'[d] = IF d = e THEN x ELSE fan[d]
      /\ fan' \in [DOMAIN events -> Fanout] /\ fan[e] \in Fanout
  BY <1>1
<1>3. /\ events' \in Seq(Event) /\ fan' \in Seq(Fanout)
      /\ DOMAIN events' = DOMAIN events /\ DOMAIN fan' = DOMAIN events
  BY <1>1, <1>2, NewPoints
<1>4. TypeOK'
  BY <1>1, <1>3 DEF TypeOK, Version
<1>5. EventsRight' /\ ClaimedOrDropped' /\ FansRight' /\ ReadyRight'
  BY <1>1, <1>2, <1>3 DEF IInv, EventsRight, ClaimedOrDropped, FansRight,
                          ReadyRight, Version
<1>6. QED
  BY <1>2, <1>4, <1>5

LEMMA ServingRight ==
  ASSUME NEW ls \in SUBSET Links
  PROVE  Serving(ls) \in Fanout /\ Serving(ls).at = NoLink
         /\ Serving(ls).todo = ls /\ Serving(ls).state \in {"active", "done"}
BY DEF Serving, Fanout

LEMMA FanoutStartStep ==
  ASSUME IInv, NEW e \in DOMAIN events, FanoutStart(e)
  PROVE  IInv'
<1>1. /\ fan[e].state = "waiting" /\ fan' = [fan EXCEPT ![e] = Serving(ready)]
      /\ UNCHANGED <<stock, events, claimed, rows, jobs, external, ready,
                     requests, faults, crashes, past>>
  BY DEF FanoutStart
<1>2. TypeOK /\ Served /\ ready \in SUBSET Links /\ faults \in 0..MaxFaults
  BY DEF IInv, TypeOK
<1>3. Serving(ready) \in Fanout /\ Serving(ready).at = NoLink
      /\ Serving(ready).state # "failed"
  BY <1>2, ServingRight
<1>4. /\ TypeOK' /\ EventsRight' /\ ClaimedOrDropped' /\ FansRight'
      /\ ReadyRight'
      /\ \A d \in DOMAIN events :
           fan'[d] = IF d = e THEN Serving(ready) ELSE fan[d]
  BY <1>1, <1>2, <1>3, FanoutChange DEF TypeOK
<1>5. fan[e].at = NoLink
  BY <1>1, <1>2, Points DEF IInv, FansRight
<1>6. JobsRight' /\ SuccessSentItsVersion'
  BY <1>1 DEF IInv, JobsRight, SuccessSentItsVersion, Version
<1>7. Served'
  <2>1. ASSUME NEW d \in DOMAIN events, crashes = 0 \/ faults' = 0,
               NEW l \in Links, Reaches(d, l)
        PROVE  Reaches(d, l)'
    <3>1. CASE d = e
      <4>1. crashes > 0 /\ faults = 0
        BY <1>1, <1>2, <1>5, <2>1, <3>1, Limits DEF Reaches, TypeOK
      <4>2. l \in Serving(ready).todo
        BY <1>2, <4>1, ServingRight DEF IInv, ReadyRight
      <4>3. QED
        BY <1>1, <1>4, <3>1, <4>1, <4>2 DEF Reaches
    <3>2. CASE d # e
      BY <1>1, <1>4, <2>1, <3>2 DEF Reaches
    <3>3. QED
      BY <3>1, <3>2
  <2>2. QED
    BY <1>1, <1>2, <2>1, ServedKept
<1>8. QED
  BY <1>4, <1>6, <1>7 DEF IInv

LEMMA FanoutFailsStep ==
  ASSUME IInv, NEW e \in DOMAIN events, FanoutFails(e)
  PROVE  IInv'
<1> DEFINE x == [fan[e] EXCEPT !.state = "failed"]
<1>1. /\ faults < MaxFaults /\ faults' = faults + 1
      /\ fan[e].state = "active"
      /\ fan' = [fan EXCEPT ![e].state = "failed"]
      /\ UNCHANGED <<stock, events, claimed, rows, jobs, external, ready,
                     requests, crashes, past>>
  BY DEF FanoutFails
<1>2. TypeOK /\ Served /\ faults \in 0..MaxFaults /\ fan[e] \in Fanout
      /\ DOMAIN fan = DOMAIN events
  BY Points DEF IInv, TypeOK
<1>3. /\ x \in Fanout /\ x.at = fan[e].at /\ x.todo = fan[e].todo
      /\ x.state = "failed"
  BY <1>2 DEF Fanout
<1>4. fan' = [fan EXCEPT ![e] = x] /\ faults' \in 0..MaxFaults /\ faults' # 0
  BY <1>1, <1>2, Limits
<1> HIDE DEF x
<1>5. /\ TypeOK' /\ EventsRight' /\ ClaimedOrDropped' /\ FansRight'
      /\ ReadyRight'
      /\ \A d \in DOMAIN events : fan'[d] = IF d = e THEN x ELSE fan[d]
  BY ZenonT(30), <1>1, <1>2, <1>3, <1>4, FanoutChange DEF TypeOK
<1>6. JobsRight' /\ SuccessSentItsVersion'
  BY <1>1 DEF IInv, JobsRight, SuccessSentItsVersion, Version
<1>7. Served'
  <2>1. \A d \in DOMAIN events : crashes = 0 \/ faults' = 0 =>
          \A l \in Links : Reaches(d, l) => Reaches(d, l)'
    BY <1>1, <1>2, <1>3, <1>4, <1>5 DEF Reaches
  <2>2. QED
    BY <1>1, <1>2, <1>4, <2>1, ServedKept
<1>8. QED
  BY <1>5, <1>6, <1>7 DEF IInv

\* A row it reopens has no job under way, or is crossed.
LEMMA FanoutSaveStep ==
  ASSUME IInv, NEW e \in DOMAIN events, NEW l \in Links, FanoutSave(e, l)
  PROVE  IInv'
<1> DEFINE x == [fan[e] EXCEPT !.at = l]
           lv == <<l, events[e].version>>
<1>1. /\ fan[e].state = "active" /\ fan[e].at = NoLink /\ l \in fan[e].todo
      /\ fan' = [fan EXCEPT ![e].at = l]
      /\ \/ rows[lv].status \in Open /\ UNCHANGED <<rows, past>>
         \/ /\ rows[lv].status \notin Open
            /\ rows' = [rows EXCEPT ![lv].status = "PENDING"]
            /\ past' = [past EXCEPT !.crossed =
                          IF jobs[lv].state = "active" THEN @ \cup {lv} ELSE @]
      /\ UNCHANGED <<stock, events, claimed, jobs, external, ready, requests,
                     faults, crashes>>
  BY DEF FanoutSave
<1>2. TypeOK /\ Served /\ faults \in 0..MaxFaults /\ fan[e] \in Fanout
      /\ DOMAIN fan = DOMAIN events /\ events[e] \in Event
      /\ past \in [dropped : SUBSET DOMAIN events,
                  crossed : SUBSET (Links \X Versions)]
  BY Points DEF IInv, TypeOK
<1>3. /\ x \in Fanout /\ x.at = l /\ x.todo = fan[e].todo
      /\ x.state = "active" /\ l # NoLink
  BY <1>1, <1>2, Limits DEF Fanout
<1>4. fan' = [fan EXCEPT ![e] = x] /\ lv \in Links \X Versions
      /\ lv[1] = l /\ lv[2] = events[e].version
  BY <1>1, <1>2 DEF Event
<1> HIDE DEF x, lv
<1>5. /\ rows \in [Links \X Versions ->
                     [status : SyncStatus, sent : 0..MaxVersion]]
      /\ jobs \in [Links \X Versions -> Job]
  BY <1>2 DEF TypeOK
<1>6. /\ rows' \in [Links \X Versions ->
                      [status : SyncStatus, sent : 0..MaxVersion]]
      /\ \A kw \in Links \X Versions :
           \/ rows'[kw] = rows[kw]
           \/ /\ kw = lv /\ rows'[kw].status = "PENDING"
              /\ jobs[lv].state = "active" => lv \in past'.crossed
      /\ past' \in [dropped : SUBSET DOMAIN events,
                   crossed : SUBSET (Links \X Versions)]
      /\ past'.dropped = past.dropped /\ past.crossed \subseteq past'.crossed
  <2>1. \A r \in [status : SyncStatus, sent : 0..MaxVersion] :
          /\ [r EXCEPT !.status = "PENDING"]
               \in [status : SyncStatus, sent : 0..MaxVersion]
          /\ [r EXCEPT !.status = "PENDING"].status = "PENDING"
    BY DEF SyncStatus
  <2>2. \/ rows' = rows
        \/ /\ rows' = [rows EXCEPT ![lv] = [rows[lv] EXCEPT !.status = "PENDING"]]
           /\ jobs[lv].state = "active" => lv \in past'.crossed
    BY <1>1, <1>2 DEF TypeOK
  <2>3. /\ past' \in [dropped : SUBSET DOMAIN events,
                     crossed : SUBSET (Links \X Versions)]
        /\ past'.dropped = past.dropped /\ past.crossed \subseteq past'.crossed
    BY <1>1, <1>2, <1>4 DEF TypeOK
  <2>4. QED
    BY <1>4, <1>5, <2>1, <2>2, <2>3
<1>7. /\ TypeOK' /\ EventsRight' /\ ClaimedOrDropped' /\ FansRight'
      /\ ReadyRight'
      /\ \A d \in DOMAIN events : fan'[d] = IF d = e THEN x ELSE fan[d]
  <2>1. /\ x.state \in {"active", "failed"} /\ x.state # "failed"
        /\ faults' = faults /\ faults' \in 0..MaxFaults
        /\ jobs' \in [Links \X Versions -> Job]
        /\ UNCHANGED <<stock, events, claimed, external, ready, requests,
                       crashes>>
    BY <1>1, <1>2, <1>3, <1>5
  <2>2. QED
    BY ZenonT(30), <1>3, <1>4, <1>6, <2>1, FanoutChange
<1>8. JobsRight' /\ SuccessSentItsVersion'
  BY <1>1, <1>6 DEF IInv, JobsRight, SuccessSentItsVersion, Version
<1>9. Served'
  <2>1. /\ \A v : FanoutsOf(v)' = FanoutsOf(v) /\ FanoutsOf(v) \subseteq DOMAIN events
        /\ e \in FanoutsOf(lv[2])
    BY <1>1, <1>4 DEF FanoutsOf
  <2>2. /\ \A d \in DOMAIN events, k \in Links : Reaches(d, k) => Reaches(d, k)'
        /\ Reaches(e, l)'
    BY <1>1, <1>3, <1>7, Limits DEF Reaches
  <2>3. WaitsRight'
    BY <1>1, <1>2, <1>6 DEF Served, WaitsRight
  <2>4. PendingRowIsServed'
    <3> SUFFICES ASSUME NEW kw \in (Links \X Versions) \ past'.crossed,
                        rows'[kw].status = "PENDING", crashes = 0 \/ faults = 0,
                        jobs[kw].state # "waiting"
                 PROVE  \E d \in FanoutsOf(kw[2])' : Reaches(d, kw[1])'
      BY <1>1 DEF PendingRowIsServed
    <3>1. CASE kw = lv
      BY <1>4, <2>1, <2>2, <3>1
    <3>2. CASE kw # lv
      <4>1. PICK d \in FanoutsOf(kw[2]) : Reaches(d, kw[1])
        BY <1>2, <1>6, <3>2 DEF Served, PendingRowIsServed
      <4>2. d \in DOMAIN events /\ kw[1] \in Links
        BY <2>1
      <4>3. QED
        BY <2>1, <2>2, <4>1, <4>2
    <3>3. QED
      BY <3>1, <3>2
  <2>5. QED
    BY <2>3, <2>4 DEF Served
<1>10. QED
  BY <1>7, <1>8, <1>9 DEF IInv

LEMMA FanoutAddStep ==
  ASSUME IInv, NEW e \in DOMAIN events, FanoutAdd(e)
  PROVE  IInv'
<1> DEFINE l == fan[e].at
           x == Serving(fan[e].todo \ {l})
           lv == <<l, events[e].version>>
<1>1. /\ fan[e].state = "active" /\ l # NoLink
      /\ fan' = [fan EXCEPT ![e] = x] /\ jobs' = Enqueued(lv)
      /\ UNCHANGED <<stock, events, claimed, rows, external, ready, requests,
                     faults, crashes, past>>
  BY DEF FanoutAdd
<1>2. TypeOK /\ Served /\ faults \in 0..MaxFaults /\ fan[e] \in Fanout
      /\ DOMAIN fan = DOMAIN events /\ events[e] \in Event
      /\ past \in [dropped : SUBSET DOMAIN events,
                  crossed : SUBSET (Links \X Versions)]
  BY Points DEF IInv, TypeOK
<1>3. l \in Links /\ fan[e].todo \in SUBSET Links
  BY <1>1, <1>2 DEF Fanout
<1>4. /\ x \in Fanout /\ x.at = NoLink /\ x.todo = fan[e].todo \ {l}
      /\ x.state \in {"active", "done"}
  BY <1>3, ServingRight
<1>5. lv \in Links \X Versions /\ lv[1] = l /\ lv[2] = events[e].version
  BY <1>2, <1>3 DEF Event
<1> HIDE DEF x, lv
<1>6. /\ rows \in [Links \X Versions ->
                     [status : SyncStatus, sent : 0..MaxVersion]]
      /\ jobs \in [Links \X Versions -> Job]
  BY <1>2 DEF TypeOK
<1>7. /\ jobs' \in [Links \X Versions -> Job]
      /\ \A kw \in Links \X Versions :
           jobs'[kw] = jobs[kw]
             \/ /\ kw = lv /\ jobs[kw].state \notin {"waiting", "active"}
                /\ jobs'[kw].state = "waiting" /\ jobs'[kw].pc = "idle"
      /\ jobs[lv].state # "active" => jobs'[lv].state = "waiting"
  <2> DEFINE j == [NoJob EXCEPT !.state = "waiting"]
  <2>1. j \in Job /\ j.state = "waiting" /\ j.pc = "idle"
    BY Limits DEF NoJob, Job
  <2>2. jobs' = IF jobs[lv].state \in {"waiting", "active"} THEN jobs
                ELSE [jobs EXCEPT ![lv] = j]
    BY <1>1 DEF Enqueued
  <2> HIDE DEF j
  <2>3. QED
    BY <1>5, <1>6, <2>1, <2>2
<1>8. /\ TypeOK' /\ EventsRight' /\ ClaimedOrDropped' /\ FansRight'
      /\ ReadyRight'
      /\ \A d \in DOMAIN events : fan'[d] = IF d = e THEN x ELSE fan[d]
  BY <1>1, <1>2, <1>4, <1>6, <1>7, FanoutChange
<1>9. JobsRight' /\ SuccessSentItsVersion'
  <2>1. lv[2] <= Version
    BY <1>5 DEF IInv, EventsRight
  <2>2. QED
    BY <1>1, <1>7, <2>1 DEF IInv, JobsRight, SuccessSentItsVersion, Version
<1>10. Served'
  <2>1. /\ \A v : FanoutsOf(v)' = FanoutsOf(v) /\ FanoutsOf(v) \subseteq DOMAIN events
    BY <1>1 DEF FanoutsOf
  <2>2. \A d \in DOMAIN events, k \in Links :
          Reaches(d, k) /\ ~(d = e /\ k = l) => Reaches(d, k)'
    BY <1>1, <1>4, <1>8 DEF Reaches
  <2>3. WaitsRight'
    BY <1>1, <1>7 DEF Served, WaitsRight, IInv
  <2>4. PendingRowIsServed'
    <3> SUFFICES ASSUME NEW kw \in (Links \X Versions) \ past.crossed,
                        rows[kw].status = "PENDING", crashes = 0 \/ faults = 0,
                        jobs'[kw].state # "waiting"
                 PROVE  \E d \in FanoutsOf(kw[2])' : Reaches(d, kw[1])'
      BY <1>1 DEF PendingRowIsServed
    <3>1. kw # lv /\ jobs[kw].state # "waiting"
      BY <1>2, <1>7 DEF Served, WaitsRight
    <3>2. PICK d \in FanoutsOf(kw[2]) : Reaches(d, kw[1])
      BY <1>2, <3>1 DEF Served, PendingRowIsServed
    <3>3. d \in DOMAIN events /\ kw[1] \in Links /\ events[d].version = kw[2]
      BY <2>1 DEF FanoutsOf
    <3>4. ~(d = e /\ kw[1] = l)
      BY <1>5, <3>1, <3>3
    <3>5. QED
      BY <2>1, <2>2, <3>2, <3>3, <3>4
  <2>5. QED
    BY <2>3, <2>4 DEF Served
<1>11. QED
  BY <1>8, <1>9, <1>10 DEF IInv

-----------------------------------------------------------------------------
(* The synchronisation of a link.                                          *)

RowType == [status : SyncStatus, sent : 0..MaxVersion]

\* A step of one job that is there: the row r and the job j it leaves.
LEMMA SyncChange ==
  ASSUME IInv, NEW lv \in Links \X Versions, jobs[lv].state # "none",
         NEW r \in RowType, NEW j \in Job,
         rows' = [rows EXCEPT ![lv] = r], jobs' = [jobs EXCEPT ![lv] = j],
         j.pc # "idle" => j.state = "active",
         j.pc \in {"send", "check"} => j.read = lv[2],
         r.status = "SUCCESS" => r.sent = lv[2],
         r.status = "PENDING" => /\ rows[lv].status = "PENDING"
                                 /\ jobs[lv].state = "active",
         external' \in [Links -> 0..MaxVersion],
         UNCHANGED <<stock, events, claimed, fan, ready, requests, faults,
                     crashes, past>>
  PROVE  IInv'
<1>1. /\ TypeOK /\ Served /\ jobs \in [Links \X Versions -> Job]
      /\ rows \in [Links \X Versions -> RowType]
  BY DEF IInv, TypeOK, RowType
<1>2. /\ \A kw \in Links \X Versions : /\ rows'[kw] = IF kw = lv THEN r ELSE rows[kw]
                                       /\ jobs'[kw] = IF kw = lv THEN j ELSE jobs[kw]
      /\ rows' \in [Links \X Versions -> RowType]
      /\ jobs' \in [Links \X Versions -> Job]
  BY <1>1
<1>3. TypeOK'
  BY <1>1, <1>2 DEF TypeOK, RowType, Version
<1>4. EventsRight' /\ ClaimedOrDropped' /\ FansRight' /\ ReadyRight'
  BY DEF IInv, EventsRight, ClaimedOrDropped, FansRight, ReadyRight, Version
<1>5. JobsRight' /\ SuccessSentItsVersion'
  BY <1>2 DEF IInv, JobsRight, SuccessSentItsVersion, Version
<1>6. Served'
  <2>1. \A e \in DOMAIN events : \A l : Reaches(e, l) => Reaches(e, l)'
    BY DEF Reaches
  <2>2. QED
    BY <1>1, <1>2, <2>1, ServedKept
<1>7. QED
  BY <1>3, <1>4, <1>5, <1>6 DEF IInv

\* A job put back into the queue.
LEMMA Waiting ==
  ASSUME NEW m \in 0..MaxAttempts
  PROVE  /\ [NoJob EXCEPT !.state = "waiting", !.made = m] \in Job
         /\ [NoJob EXCEPT !.state = "waiting", !.made = m].state = "waiting"
         /\ [NoJob EXCEPT !.state = "waiting", !.made = m].pc = "idle"
<1>1. NoJob \in Job /\ NoJob.pc = "idle"
  BY Limits DEF NoJob, Job
<1>2. QED
  BY <1>1 DEF Job

\* What a step of a job starts from.
LEMMA SyncPoint ==
  ASSUME IInv, NEW lv \in Links \X Versions
  PROVE  /\ jobs[lv] \in Job /\ rows[lv] \in RowType
         /\ jobs \in [Links \X Versions -> Job]
         /\ rows \in [Links \X Versions -> RowType]
         /\ jobs[lv].pc # "idle" => jobs[lv].state = "active"
         /\ jobs[lv].pc \in {"send", "check"} => jobs[lv].read = lv[2]
         /\ jobs[lv].state # "none" => lv[2] <= Version
         /\ external \in [Links -> 0..MaxVersion]
         /\ Version \in Versions /\ Version \in Nat
         /\ lv[1] \in Links /\ lv[2] \in Versions /\ lv[2] \in Nat
BY Points DEF IInv, TypeOK, RowType, JobsRight

\* A job that ends leaves a row that has ended.
LEMMA FinishRight ==
  ASSUME IInv, NEW lv \in Links \X Versions, jobs[lv].state = "active",
         NEW status \in {"SUPERSEDED", "FAILED"}, Finish(lv, status),
         external' \in [Links -> 0..MaxVersion],
         UNCHANGED <<stock, events, claimed, fan, ready, requests, faults,
                     crashes, past>>
  PROVE  IInv'
<1> DEFINE r == [rows[lv] EXCEPT !.status = status]
           j == [jobs[lv] EXCEPT !.pc = "end"]
<1>1. /\ r \in RowType /\ r.status = status
  BY SyncPoint DEF RowType, SyncStatus
<1>2. j \in Job /\ j.pc = "end" /\ j.state = "active"
  BY SyncPoint DEF Job
<1>3. rows' = [rows EXCEPT ![lv] = r] /\ jobs' = [jobs EXCEPT ![lv] = j]
  BY SyncPoint DEF Finish
<1> HIDE DEF r, j
<1>4. QED
  BY <1>1, <1>2, <1>3, SyncChange

LEMMA SyncStartStep ==
  ASSUME IInv, NEW lv \in Links \X Versions, SyncStart(lv)
  PROVE  IInv'
<1> DEFINE r == [rows[lv] EXCEPT !.status = "PROCESSING"]
           j == [jobs[lv] EXCEPT !.state = "active", !.pc = "read"]
<1>1. /\ jobs[lv].state = "waiting"
      /\ rows' = [rows EXCEPT ![lv].status = "PROCESSING"]
      /\ jobs' = [jobs EXCEPT ![lv].state = "active", ![lv].pc = "read"]
      /\ UNCHANGED <<stock, events, claimed, fan, external, ready,
                     requests, faults, crashes, past>>
  BY DEF SyncStart
<1>2. /\ r \in RowType /\ r.status = "PROCESSING"
  BY SyncPoint DEF RowType, SyncStatus
<1>3. j \in Job /\ j.pc = "read" /\ j.state = "active"
  BY ZenonT(30), SyncPoint DEF Job
<1>4. rows' = [rows EXCEPT ![lv] = r] /\ jobs' = [jobs EXCEPT ![lv] = j]
      /\ external' \in [Links -> 0..MaxVersion]
  BY <1>1, SyncPoint
<1> HIDE DEF r, j
<1>5. /\ jobs[lv].state # "none" /\ r.status \notin {"SUCCESS", "PENDING"}
      /\ j.pc \notin {"send", "check"}
      /\ UNCHANGED <<stock, events, claimed, fan, ready, requests, faults,
                     crashes, past>>
  BY <1>1, <1>2, <1>3
<1>6. QED
  BY <1>2, <1>3, <1>4, <1>5, SyncChange

\* What is read is the version of the job: no older one is live, and a newer
\* one ends the job.
LEMMA SyncReadStep ==
  ASSUME IInv, NEW lv \in Links \X Versions, SyncRead(lv)
  PROVE  IInv'
<1>1. /\ jobs[lv].pc = "read" /\ jobs[lv].state = "active"
      /\ UNCHANGED <<stock, events, claimed, fan, external, ready,
                     requests, faults, crashes, past>>
  BY SyncPoint DEF SyncRead
<1>2. external' \in [Links -> 0..MaxVersion]
  BY <1>1, SyncPoint
<1>3. CASE Finish(lv, "FAILED") \/ Finish(lv, "SUPERSEDED")
  BY <1>1, <1>2, <1>3, FinishRight
<1>4. CASE /\ ~Stale(lv) /\ UNCHANGED rows
           /\ jobs' = [jobs EXCEPT ![lv].pc = "send", ![lv].read = Version]
  <2> DEFINE j == [jobs[lv] EXCEPT !.pc = "send", !.read = Version]
  <2>1. /\ jobs[lv] \in Job /\ rows[lv] \in RowType
        /\ Version \in Nat /\ lv[2] \in Nat /\ lv[2] <= Version
        /\ lv[2] \in 0..MaxVersion
    BY <1>1, SyncPoint, Limits DEF Versions
  <2>2. j \in Job /\ j.pc = "send" /\ j.state = "active" /\ j.read = lv[2]
    <3>1. Version = lv[2]
      BY <1>4, <2>1 DEF Stale
    <3>2. j = [jobs[lv] EXCEPT !.pc = "send", !.read = lv[2]]
      BY <3>1
    <3>3. QED
      BY <1>1, <2>1, <3>2 DEF Job
  <2>3. rows' = [rows EXCEPT ![lv] = rows[lv]] /\ jobs' = [jobs EXCEPT ![lv] = j]
    BY <1>4, SyncPoint
  <2>4. rows[lv].status = "SUCCESS" => rows[lv].sent = lv[2]
    BY DEF IInv, SuccessSentItsVersion
  <2> HIDE DEF j
  <2>5. QED
    BY <1>1, <1>2, <2>1, <2>2, <2>3, <2>4, SyncChange
<1>5. QED
  BY <1>3, <1>4 DEF SyncRead

LEMMA SyncSendStep ==
  ASSUME IInv, NEW lv \in Links \X Versions, SyncSend(lv)
  PROVE  IInv'
<1> DEFINE j == [jobs[lv] EXCEPT !.pc = "check"]
<1>1. /\ jobs[lv].pc = "send" /\ jobs[lv].state = "active"
      /\ jobs[lv].read = lv[2]
      /\ external' = [external EXCEPT ![lv[1]] = jobs[lv].read]
      /\ jobs' = [jobs EXCEPT ![lv].pc = "check"]
      /\ UNCHANGED <<stock, events, claimed, fan, rows, ready,
                     requests, faults, crashes, past>>
  BY SyncPoint DEF SyncSend
<1>2. j \in Job /\ j.pc = "check" /\ j.state = "active" /\ j.read = lv[2]
  BY <1>1, SyncPoint DEF Job
<1>3. rows' = [rows EXCEPT ![lv] = rows[lv]] /\ jobs' = [jobs EXCEPT ![lv] = j]
  BY <1>1, SyncPoint
<1>4. /\ rows[lv] \in RowType
      /\ rows[lv].status = "SUCCESS" => rows[lv].sent = lv[2]
  BY SyncPoint DEF IInv, SuccessSentItsVersion
<1>5. external' \in [Links -> 0..MaxVersion]
  BY <1>1, SyncPoint DEF Job
<1>6. /\ jobs[lv].state = "active"
      /\ UNCHANGED <<stock, events, claimed, fan, ready, requests, faults,
                     crashes, past>>
  BY <1>1
<1> HIDE DEF j
<1>7. QED
  BY <1>2, <1>3, <1>4, <1>5, <1>6, SyncChange

LEMMA SyncFailsStep ==
  ASSUME IInv, NEW lv \in Links \X Versions, NEW retryable \in BOOLEAN,
         SyncFails(lv, retryable)
  PROVE  IInv'
<1>1. /\ jobs[lv].pc = "send" /\ jobs[lv].state = "active"
      /\ external' \in {external, [external EXCEPT ![lv[1]] = jobs[lv].read]}
      /\ UNCHANGED <<stock, events, claimed, fan, ready, requests, faults,
                     crashes, past>>
  BY SyncPoint DEF SyncFails
<1>2. external' \in [Links -> 0..MaxVersion]
  BY <1>1, SyncPoint DEF Job
<1>3. CASE Finish(lv, "FAILED")
  BY <1>1, <1>2, <1>3, FinishRight
<1>4. CASE /\ ~LastAttempt(lv)
           /\ rows' = [rows EXCEPT ![lv].status = "RETRYING"]
           /\ jobs' = [jobs EXCEPT ![lv] = [NoJob EXCEPT !.state = "waiting",
                                                 !.made = jobs[lv].made + 1]]
  <2> DEFINE r == [rows[lv] EXCEPT !.status = "RETRYING"]
             j == [NoJob EXCEPT !.state = "waiting", !.made = jobs[lv].made + 1]
  <2>1. r \in RowType /\ r.status = "RETRYING"
    BY SyncPoint DEF RowType, SyncStatus
  <2>2. jobs[lv].made \in Nat /\ jobs[lv].made + 1 \in 0..MaxAttempts
    BY <1>4, SyncPoint, Limits DEF LastAttempt, Job
  <2>3. j \in Job /\ j.pc = "idle" /\ j.state = "waiting"
    BY <2>2, Waiting
  <2>4. rows' = [rows EXCEPT ![lv] = r] /\ jobs' = [jobs EXCEPT ![lv] = j]
    BY <1>4, SyncPoint
  <2> HIDE DEF r, j
  <2>5. QED
    BY <1>1, <1>2, <2>1, <2>3, <2>4, SyncChange
<1>5. QED
  BY <1>3, <1>4 DEF SyncFails

LEMMA SyncCheckStep ==
  ASSUME IInv, NEW lv \in Links \X Versions, SyncCheck(lv)
  PROVE  IInv'
<1> DEFINE r == [status |-> IF Version = jobs[lv].read THEN "SUCCESS"
                                                       ELSE "SUPERSEDED",
                 sent |-> jobs[lv].read]
           j == [jobs[lv] EXCEPT !.pc = "end"]
<1>1. /\ jobs[lv].pc = "check" /\ jobs[lv].state = "active"
      /\ jobs[lv].read = lv[2]
      /\ rows' = [rows EXCEPT ![lv] = r] /\ jobs' = [jobs EXCEPT ![lv].pc = "end"]
      /\ UNCHANGED <<stock, events, claimed, fan, external, ready,
                     requests, faults, crashes, past>>
  BY SyncPoint DEF SyncCheck
<1>2. /\ r \in RowType /\ r.status \in {"SUCCESS", "SUPERSEDED"}
      /\ r.sent = lv[2]
  BY <1>1, SyncPoint DEF Job, RowType, SyncStatus
<1>3. j \in Job /\ j.pc = "end" /\ j.state = "active"
  BY <1>1, SyncPoint DEF Job
<1>4. jobs' = [jobs EXCEPT ![lv] = j] /\ external' \in [Links -> 0..MaxVersion]
  BY <1>1, SyncPoint
<1> HIDE DEF r, j
<1>5. QED
  BY <1>1, <1>2, <1>3, <1>4, SyncChange

LEMMA SyncEndStep ==
  ASSUME IInv, NEW lv \in Links \X Versions, SyncEnd(lv)
  PROVE  IInv'
<1> DEFINE j == [NoJob EXCEPT !.state = "done"]
<1>1. /\ jobs[lv].state = "active" /\ jobs' = [jobs EXCEPT ![lv] = j]
      /\ UNCHANGED <<stock, events, claimed, fan, rows, external, ready,
                     requests, faults, crashes, past>>
  BY SyncPoint DEF SyncEnd
<1>2. j \in Job /\ j.pc = "idle" /\ j.state = "done"
  BY Limits DEF NoJob, Job
<1>3. rows' = [rows EXCEPT ![lv] = rows[lv]]
      /\ external' \in [Links -> 0..MaxVersion]
  BY <1>1, SyncPoint
<1>4. rows[lv].status = "SUCCESS" => rows[lv].sent = lv[2]
  BY DEF IInv, SuccessSentItsVersion
<1> HIDE DEF j
<1>5. QED
  BY <1>1, <1>2, <1>3, <1>4, SyncPoint, SyncChange

-----------------------------------------------------------------------------
(* The environment, and every step.                                        *)

LEMMA ToggleStep ==
  ASSUME IInv, NEW l \in Links, Toggle(l)
  PROVE  IInv'
<1>1. /\ faults < MaxFaults /\ faults' = faults + 1
      /\ ready' = IF l \in ready THEN ready \ {l} ELSE ready \cup {l}
      /\ UNCHANGED <<stock, events, claimed, fan, rows, jobs, external,
                     requests, crashes, past>>
  BY DEF Toggle
<1>2. TypeOK'
  BY <1>1, Limits DEF IInv, TypeOK, Version
<1>3. faults \in Nat /\ faults' # 0
  BY <1>1, Limits DEF IInv, TypeOK
<1>4. EventsRight' /\ ClaimedOrDropped' /\ FansRight' /\ ReadyRight'
      /\ JobsRight' /\ SuccessSentItsVersion'
  BY <1>1, <1>3 DEF IInv, EventsRight, ClaimedOrDropped, FansRight, ReadyRight,
     JobsRight, SuccessSentItsVersion, Version
<1>5. Served'
  BY <1>1, <1>3 DEF IInv, Served, WaitsRight, PendingRowIsServed, Reaches,
                    FanoutsOf
<1>6. QED
  BY <1>2, <1>4, <1>5 DEF IInv

LEMMA CrashStep ==
  ASSUME IInv, Crash
  PROVE  IInv'
<1> DEFINE i == [Idle EXCEPT !.state = "waiting"]
<1>1. /\ crashes < MaxCrashes /\ crashes' = crashes + 1 /\ claimed' = {}
      /\ fan' = [e \in DOMAIN fan |-> IF fan[e].state = "active" THEN i
                                      ELSE fan[e]]
      /\ jobs' = [lv \in Links \X Versions |->
                    IF jobs[lv].state = "active"
                    THEN [NoJob EXCEPT !.state = "waiting", !.made = jobs[lv].made]
                    ELSE jobs[lv]]
      /\ past' = [past EXCEPT !.dropped = @ \cup claimed]
      /\ UNCHANGED <<stock, events, rows, external, ready, requests, faults>>
  BY DEF Crash
<1>2. /\ TypeOK /\ crashes \in 0..MaxCrashes /\ DOMAIN fan = DOMAIN events
      /\ fan \in [DOMAIN events -> Fanout]
      /\ events \in [DOMAIN events -> Event]
  BY Points DEF IInv, TypeOK
<1>3. i \in Fanout /\ i.at = NoLink /\ i.state = "waiting"
  BY DEF Idle, Fanout
<1> HIDE DEF i
<1>4. /\ fan' \in [DOMAIN events -> Fanout]
      /\ \A e \in DOMAIN events :
           fan'[e] = i \/ (fan'[e] = fan[e] /\ fan[e].state # "active")
  BY <1>1, <1>2, <1>3
<1>5. /\ events' \in Seq(Event) /\ fan' \in Seq(Fanout)
      /\ DOMAIN events' = DOMAIN events /\ DOMAIN fan' = DOMAIN events
  BY <1>1, <1>2, <1>4, NewPoints
<1>6. ASSUME NEW lv \in Links \X Versions
      PROVE  /\ jobs'[lv] \in Job
             /\ jobs[lv].state = "none" => jobs'[lv].state = "none"
             /\ jobs[lv].state = "waiting" => jobs'[lv].state = "waiting"
             /\ jobs'[lv].state # "active"
             /\ jobs'[lv].pc # "idle" => /\ jobs'[lv].state = "active"
                                         /\ jobs'[lv] = jobs[lv]
  <2>1. CASE jobs[lv].state = "active"
    <3>1. jobs'[lv] = [NoJob EXCEPT !.state = "waiting", !.made = jobs[lv].made]
      BY <1>1, <2>1
    <3>2. jobs[lv].made \in 0..MaxAttempts
      BY SyncPoint DEF Job
    <3>3. QED
      BY <2>1, <3>1, <3>2, Waiting
  <2>2. CASE jobs[lv].state # "active"
    BY <1>1, <2>2, SyncPoint
  <2>3. QED
    BY <2>1, <2>2
<1>7. crashes' \in 0..MaxCrashes /\ crashes' > 0 /\ crashes' # 0
  <2>1. crashes < MaxCrashes /\ crashes' = crashes + 1
    BY <1>1
  <2>2. QED
    BY <1>2, <2>1, Limits
<1>8. jobs' \in [Links \X Versions -> Job]
  <2>1. jobs' = [lv \in Links \X Versions |-> jobs'[lv]]
    BY <1>1
  <2>2. QED
    BY <1>6, <2>1
<1>9. /\ claimed \subseteq DOMAIN events
      /\ past \in [dropped : SUBSET DOMAIN events,
                  crossed : SUBSET (Links \X Versions)]
      /\ past'.dropped = past.dropped \cup claimed /\ past'.crossed = past.crossed
      /\ past' \in [dropped : SUBSET DOMAIN events,
                   crossed : SUBSET (Links \X Versions)]
  BY <1>1, <1>2 DEF TypeOK
<1>10. TypeOK'
  BY <1>1, <1>2, <1>5, <1>7, <1>8, <1>9 DEF TypeOK, Version
<1>11. EventsRight' /\ ClaimedOrDropped' /\ SuccessSentItsVersion' /\ ReadyRight'
  BY <1>1, <1>9 DEF IInv, EventsRight, ClaimedOrDropped, SuccessSentItsVersion,
     ReadyRight, Version
<1>12. FansRight'
  BY <1>1, <1>2, <1>3, <1>4, <1>5 DEF IInv, FansRight
<1>13. JobsRight'
  <2>1. JobsRight /\ Version' = Version
    BY <1>1 DEF IInv, Version
  <2>2. QED
    BY <1>6, <2>1 DEF JobsRight
<1>14. Served'
  <2>1. WaitsRight'
    BY <1>6 DEF WaitsRight
  <2>2. PendingRowIsServed'
    <3> SUFFICES ASSUME NEW lv \in (Links \X Versions) \ past.crossed,
                        rows[lv].status = "PENDING", faults = 0,
                        jobs'[lv].state # "waiting"
                 PROVE  \E e \in FanoutsOf(lv[2])' : Reaches(e, lv[1])'
      BY <1>1, <1>7, <1>9 DEF PendingRowIsServed
    <3>1. PICK e \in FanoutsOf(lv[2]) : Reaches(e, lv[1])
      BY <1>6 DEF IInv, Served, PendingRowIsServed
    <3>2. e \in DOMAIN events /\ FanoutsOf(lv[2])' = FanoutsOf(lv[2])
          /\ lv[1] \in Links
      BY <1>1 DEF FanoutsOf
    <3>3. CASE fan'[e] = i
      BY <1>3, <1>7, <3>2, <3>3 DEF Reaches
    <3>4. CASE fan'[e] = fan[e] /\ fan[e].state # "active"
      <4>1. fan[e].at # lv[1]
        BY <1>2, <3>2, <3>4, Limits DEF IInv, FansRight
      <4>2. QED
        BY <1>7, <3>1, <3>2, <3>4, <4>1 DEF Reaches
    <3>5. QED
      BY <1>4, <3>2, <3>3, <3>4
  <2>3. QED
    BY <2>1, <2>2 DEF Served
<1>15. QED
  BY <1>10, <1>11, <1>12, <1>13, <1>14 DEF IInv

LEMMA NextStep ==
  ASSUME IInv, [Next]_vars
  PROVE  IInv'
<1>1. ASSUME NEW q \in Quantities, Change(q)
      PROVE  IInv'
  BY <1>1, ChangeStep
<1>2. ASSUME NEW es \in SUBSET DOMAIN events, Claim(es)
      PROVE  IInv'
  BY <1>2, ClaimStep
<1>3. ASSUME NEW e \in DOMAIN events, Publisher(e)
      PROVE  IInv'
  BY <1>3, PublishStep
<1>4. ASSUME NEW e \in DOMAIN events, FanoutStep(e)
      PROVE  IInv'
  BY <1>4, FanoutStartStep, FanoutAddStep, FanoutFailsStep, FanoutSaveStep
  DEF FanoutStep
<1>5. ASSUME NEW lv \in Links \X Versions, SyncStep(lv)
      PROVE  IInv'
  BY <1>5, SyncStartStep, SyncReadStep, SyncSendStep, SyncCheckStep, SyncEndStep,
     SyncFailsStep DEF SyncStep
<1>6. ASSUME NEW l \in Links, Toggle(l)
      PROVE  IInv'
  BY <1>6, ToggleStep
<1>7. CASE UNCHANGED vars
  <2>1. TypeOK'
    BY <1>7 DEF vars, IInv, TypeOK, Version
  <2>2. EventsRight' /\ ClaimedOrDropped' /\ FansRight' /\ ReadyRight'
        /\ JobsRight' /\ SuccessSentItsVersion'
    BY <1>7 DEF vars, IInv, EventsRight, ClaimedOrDropped, FansRight, ReadyRight,
       JobsRight, SuccessSentItsVersion, Version
  <2>3. Served'
    BY <1>7 DEF vars, IInv, Served, WaitsRight, PendingRowIsServed, Reaches,
       FanoutsOf
  <2>4. QED
    BY <2>1, <2>2, <2>3 DEF IInv
<1>8. QED
  BY <1>1, <1>2, <1>3, <1>4, <1>5, <1>6, <1>7, RequestStep, CrashStep DEF Next

LEMMA InitRight ==
  ASSUME Init
  PROVE  IInv
<1>1. stock \in Seq(Quantities) /\ Version = 1
  <2>1. <<0>> \in Seq(Quantities) /\ Len(<<0>>) = 1
    BY Limits
  <2>2. QED
    BY <2>1 DEF Init, Version
<1>2. events \in Seq(Event) /\ fan \in Seq(Fanout)
      /\ DOMAIN events = {} /\ DOMAIN fan = {}
  BY DEF Init
<1>3. \A lv \in Links \X Versions :
        /\ rows[lv].status = "NONE" /\ jobs[lv].state = "none"
        /\ jobs[lv].pc = "idle"
  BY DEF Init, NoJob
<1>4. TypeOK
  BY <1>1, <1>2, Limits DEF Init, TypeOK, Versions, SyncStatus, NoJob, Job
<1>5. EventsRight /\ ClaimedOrDropped /\ FansRight /\ ReadyRight
  BY <1>2 DEF Init, EventsRight, ClaimedOrDropped, FansRight, ReadyRight
<1>6. JobsRight /\ SuccessSentItsVersion
  BY <1>3 DEF JobsRight, SuccessSentItsVersion
<1>7. Served
  BY <1>3 DEF Served, WaitsRight, PendingRowIsServed
<1>8. QED
  BY <1>4, <1>5, <1>6, <1>7 DEF IInv

LEMMA Invariant == Spec => []IInv
<1>1. Init => IInv
  BY InitRight
<1>2. IInv /\ [Next]_vars => IInv'
  BY NextStep
<1>3. QED
  BY <1>1, <1>2, PTL DEF Spec

-----------------------------------------------------------------------------

\* Every variable keeps its type; no event is claimed and no synchronisation
\* attempted beyond its limit (marketplace-stock.processor.ts).
THEOREM TypeCorrect == Spec => []TypeOK
<1>1. IInv => TypeOK
  BY DEF IInv
<1>2. QED
  BY <1>1, Invariant, PTL

\* A row that says SUCCESS sent what was available at its version, through any
\* number of links, retries, changes of the stock and crashes (sync).
THEOREM SuccessIsHonest == Spec => []SuccessSentItsVersion
<1>1. IInv => SuccessSentItsVersion
  BY DEF IInv
<1>2. QED
  BY <1>1, Invariant, PTL

\* An event under way is held by a publisher, and a row to be sent by its job or
\* a fan-out, unless a process or the queue has failed, or a repeated fan-out met
\* a job about to end (publishOutbox, fanout).
THEOREM WorkIsHeld == Spec => []NothingDropped
<1>1. IInv => NothingDropped
  BY DEF IInv, Served, NothingDropped
<1>2. QED
  BY <1>1, Invariant, PTL

=============================================================================
