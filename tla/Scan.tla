-------------------------------- MODULE Scan --------------------------------
(***************************************************************************)
(* The periodic scan of the orders of one connected account:               *)
(* MarketplaceOrderScheduleService, MarketplaceOrderQueueService and       *)
(* MarketplaceOrderReconciliationProcessor.                                *)
(*                                                                         *)
(* The provider lists the orders updated since a date by their creation,   *)
(* page by page; an order that is updated meanwhile is found at the place  *)
(* of its creation, which the cursor may have passed.  Each process keeps  *)
(* its own copy of the row of the account and saves all of it.             *)
(***************************************************************************)
EXTENDS Integers, FiniteSets

CONSTANTS
  Scanners,     \* worker processes, one job at a time each
  NumOrders,    \* orders, numbered by their creation
  PageSize,     \* 50 in the code
  MaxPages,     \* 100 in the code
  Overlap,      \* ORDER_SYNC_OVERLAP_MINUTES
  LockTime,     \* four minutes
  MaxTime       \* bound of the run

VARIABLES
  now,
  updated,      \* orders: the date of the last update at the provider
  due,          \* orders updated since an import job was last queued
  row,          \* marketplace_order_sync_states
  scanner,      \* the jobs under way
  given_up      \* history: due when a scan ended that was cut, or too long

vars == <<now, updated, due, row, scanner, given_up>>

\* What the constants must be.
ConstantsFit ==
  /\ NumOrders \in Nat /\ MaxTime \in Nat
  /\ PageSize \in Nat \ {0} /\ MaxPages \in Nat \ {0}
  /\ Overlap \in Nat /\ LockTime \in Nat

Orders == 1..NumOrders
Never == -1

\* began: history, the time of the first page before the cursor.
Blank == [last |-> Never, cursor |-> 0, lock |-> Never, began |-> Never]

Idle == [pc |-> "idle", state |-> Blank, pages |-> 0]

\* An account just connected, with orders of before.
Init ==
  /\ now = 0
  /\ updated = [o \in Orders |-> 0]
  /\ due = Orders
  /\ row = Blank
  /\ scanner = [s \in Scanners |-> Idle]
  /\ given_up = {}

\* Minutes.
Tick ==
  /\ now < MaxTime
  /\ now' = now + 1
  /\ UNCHANGED <<updated, due, row, scanner, given_up>>

\* The provider; its webhook may be lost.
Update(o) ==
  /\ updated[o] < now
  /\ updated' = [updated EXCEPT ![o] = now]
  /\ due' = due \cup {o}
  /\ given_up' = given_up \ {o}
  /\ UNCHANGED <<now, row, scanner>>

-----------------------------------------------------------------------------

Since_Exact(state) == state.last

Since(state) == IF state.last = Never THEN Never ELSE state.last - Overlap

Locked(state) == state.lock > now

\* A job finds the row and takes the lock, in two steps of the database that
\* no other job of the process comes between.
Find(s) ==
  /\ scanner[s].pc = "idle"
  /\ ~Locked(row)
  /\ scanner' = [scanner EXCEPT ![s] = [Idle EXCEPT !.pc = "found",
                   !.state = [row EXCEPT !.lock = now + LockTime]]]
  /\ UNCHANGED <<now, updated, due, row, given_up>>

Lock(s) ==
  /\ scanner[s].pc = "found"
  /\ row' = scanner[s].state
  /\ scanner' = [scanner EXCEPT ![s].pc = "scans"]
  /\ UNCHANGED <<now, updated, due, given_up>>

\* searchOrders: the orders updated since a date.
Listed(since) == {o \in Orders : updated[o] >= since}

\* Where an order is in the list, by date of creation.
Place(o, since) == Cardinality({q \in Listed(since) : q < o})

PageOf(since, cursor) ==
  {o \in Listed(since) : Place(o, since) \in cursor .. (cursor + PageSize - 1)}

NextCursor(since, cursor) ==
  IF cursor + PageSize < Cardinality(Listed(since)) THEN cursor + PageSize
                                                    ELSE 0

Enqueue(orders) == due' = due \ orders /\ given_up' = given_up \ orders

\* The orders of the page a scanner asks for.
Found(s) == LET state == scanner[s].state
            IN PageOf(Since(state), state.cursor)

\* One page: its orders are queued one by one and then the cursor is saved.
Page(s) ==
  LET cursor == NextCursor(Since(scanner[s].state), scanner[s].state.cursor)
      state == [scanner[s].state EXCEPT
                  !.cursor = cursor, !.began = IF @ = Never THEN now ELSE @]
      last == cursor = 0 \/ scanner[s].pages + 1 = MaxPages
  IN /\ scanner[s].pc = "scans"
     /\ Enqueue(Found(s))
     /\ row' = state
     /\ scanner' = [scanner EXCEPT
          ![s] = [pc |-> IF last THEN "scanned" ELSE "scans", state |-> state,
                  pages |-> IF last THEN 0 ELSE @.pages + 1]]
     /\ UNCHANGED <<now, updated>>

\* After the last page, or after MaxPages of them.
Succeed(s) ==
  LET state == scanner[s].state IN
  /\ scanner[s].pc = "scanned"
  /\ row' = [Blank EXCEPT !.last = now]
  /\ scanner' = [scanner EXCEPT ![s] = Idle]
  /\ given_up' = IF state.cursor # 0 \/ now - state.began > Overlap
                   THEN due ELSE given_up
  /\ UNCHANGED <<now, updated, due>>

\* The tokens, a page, or a save fail; some orders of the page are queued.  The
\* cursor stays, the lock goes.
Fail(s) ==
  /\ scanner[s].pc \in {"scans", "scanned"}
  /\ \E queued \in SUBSET (IF scanner[s].pc = "scans" THEN Found(s) ELSE {}) :
       Enqueue(queued)
  /\ row' = [scanner[s].state EXCEPT !.lock = Never]
  /\ scanner' = [scanner EXCEPT ![s] = Idle]
  /\ UNCHANGED <<now, updated>>

\* The process stops: the lock stays until its time.
Crash(s) ==
  /\ scanner[s].pc # "idle"
  /\ scanner' = [scanner EXCEPT ![s] = Idle]
  /\ UNCHANGED <<now, updated, due, row, given_up>>

Next ==
  \/ Tick
  \/ \E o \in Orders : Update(o)
  \/ \E s \in Scanners :
       Find(s) \/ Lock(s) \/ Page(s) \/ Succeed(s) \/ Fail(s) \/ Crash(s)

Spec == Init /\ [][Next]_vars

-----------------------------------------------------------------------------
(* Properties.                                                             *)

Times == Never..MaxTime

State == [last : Times, cursor : 0..NumOrders, lock : Never..MaxTime + LockTime,
          began : Times]

TypeOK ==
  /\ now \in 0..MaxTime
  /\ updated \in [Orders -> 0..now] /\ due \subseteq Orders
  /\ row \in State
  /\ \A s \in Scanners :
       /\ scanner[s].pc \in {"idle", "found", "scans", "scanned"}
       /\ scanner[s].state \in State
       /\ scanner[s].pages \in 0..MaxPages
  /\ given_up \subseteq due

\* Later scans are still told of every update that no import job has followed,
\* though scans fail and are resumed from their cursor, and updates move orders
\* behind it: unless the scan that should have listed it was cut at its last
\* page, or took longer, from its first page on, than the overlap.
NoUpdateSlips == \A o \in due \ given_up : updated[o] >= Since(row)

=============================================================================
