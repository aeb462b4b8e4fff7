----------------------------- MODULE Inventory -----------------------------
(***************************************************************************)
(* The central stock of one company: InventoryService                      *)
(* (api/src/inventory/inventory.service.ts) together with the kit          *)
(* notifications of BundlesCompositionService.queueChanges.                *)
(*                                                                         *)
(* Every write runs in one database transaction that first takes the       *)
(* advisory lock of the company, so writers are serialised and the rest of *)
(* the system only sees committed rows.  An operation that touches one     *)
(* balance is one action on the committed state "db".  An operation that   *)
(* walks over several reservations is a transaction of several steps on    *)
(* "work", its uncommitted copy of the rows, ended by Commit or Rollback.  *)
(*                                                                         *)
(* Quantities are naturals: the code computes in thousandths with bigint.  *)
(***************************************************************************)
EXTENDS Integers, Sequences, FiniteSets, FiniteSetsExt

CONSTANTS
  Products,     \* physical products, numbered: the code sorts by product id
  Kits,         \* products that have an active bundle
  Composition,  \* Composition[k][p]: units of p in one kit k, 0 when absent
  OrderItems,   \* order items; one is the reference of its reservations
  ManualRefs,   \* references of reservations made by hand
  Keys,         \* values of the Idempotency-Key header
  NoKey,        \* the null idempotency key of order movements
  NoRef,        \* the null reference of manual movements
  MaxQty,       \* bound: largest quantity of one request
  MaxMoves      \* bound: length of the ledger

Refs       == OrderItems \cup ManualRefs
Lines      == Products \X Refs          \* identity of a reservation
OrderLines == Products \X OrderItems
Stocked    == Products \cup Kits        \* products with a balance row

ASSUME ProductsAssumption == Products \subseteq Nat /\ IsFiniteSet(Products)
ASSUME RefsAssumption     == IsFiniteSet(Refs)
ASSUME KitsAssumption     == /\ Kits \cap Products = {}
                             /\ Composition \in [Kits -> [Products -> Nat]]
                             /\ \A k \in Kits : \E p \in Products :
                                  Composition[k][p] > 0
ASSUME BoundsAssumption   == MaxQty \in Nat \ {0} /\ MaxMoves \in Nat
ASSUME NullsAssumption    == NoKey \notin Keys /\ NoRef \notin Refs

VARIABLES
  db,     \* committed balances, reservations, movements and outbox events
  op,     \* the open transaction: idle, reserve, complete, cancel, release
  todo,   \* its lines still to be processed
  want,   \* the quantities a "reserve" transaction was called with
  work    \* its uncommitted rows

vars == <<db, op, todo, want, work>>

-----------------------------------------------------------------------------
(* The rows. *)

Statuses == {"NONE", "ACTIVE", "COMPLETED", "CANCELED"}

MoveTypes == {"ENTRY", "EXIT", "ADJUSTMENT_INCREASE", "ADJUSTMENT_DECREASE",
              "RESERVATION", "RESERVATION_CANCELED", "SALE_COMPLETED",
              "SALE_CANCELED_REVERSAL"}

Balance == [current : Nat, reserved : Nat]

Movement == [type : MoveTypes, product : Products, ref : Refs \cup {NoRef},
             qty : Nat, key : Keys \cup {NoKey}, reversalOf : Nat,
             before : Balance, after : Balance]

Event == [product : Stocked, version : Nat, available : Int]

State == [current  : [Products -> Nat],
          reserved : [Products -> Nat],
          version  : [Stocked -> Nat],
          resv     : [Lines -> [status : Statuses, qty : Nat]],
          moves    : Seq(Movement),
          events   : SUBSET Event]

\* No stock, no reservation.  A kit has no balance row before its first event.
Empty == [current  |-> [p \in Products |-> 0],
          reserved |-> [p \in Products |-> 0],
          version  |-> [x \in Stocked |-> IF x \in Products THEN 1 ELSE 0],
          resv     |-> [l \in Lines |-> [status |-> "NONE", qty |-> 0]],
          moves    |-> <<>>,
          events   |-> {}]

NoWant == [l \in OrderLines |-> 0]

-----------------------------------------------------------------------------
(* Reading the rows of a state s. *)

Available(s, p) == s.current[p] - s.reserved[p]

\* The quantity a line holds: what it reserved, while it is active.
HeldQty(s, l) == IF s.resv[l].status = "ACTIVE" THEN s.resv[l].qty ELSE 0

\* The reservation can still be canceled or completed.
Live_Any(s, l) == s.resv[l].status # "NONE"  \* mutant: any recorded reservation

Live(s, l) == s.resv[l].status = "ACTIVE"

\* reserveOrderItems may set the line's quantity.
Reservable_Canceled(s, l) ==  \* mutant: a canceled reservation is reused
  s.resv[l].status \in {"NONE", "ACTIVE", "CANCELED"}

Reservable(s, l) == s.resv[l].status \in {"NONE", "ACTIVE"}

Dependents_None(p) == {}  \* mutant: kits are not told

Dependents(p) == {k \in Kits : Composition[k][p] > 0}

MaxKits(s, k) ==
  Min({(IF Available(s, p) > 0 THEN Available(s, p) ELSE 0)
         \div Composition[k][p] : p \in {q \in Products : Composition[k][q] > 0}})

UsedKeys(s) == {s.moves[i].key : i \in DOMAIN s.moves} \ {NoKey}

SalesOf(s, l) == {i \in DOMAIN s.moves :
                    /\ s.moves[i].type = "SALE_COMPLETED"
                    /\ s.moves[i].product = l[1]
                    /\ s.moves[i].ref = l[2]}

ReversalsOf(s, i) == {j \in DOMAIN s.moves : s.moves[j].reversalOf = i}

-----------------------------------------------------------------------------
(* Writing the rows. *)

\* The check persist makes before it writes.
Legal(current, reserved) == current >= 0 /\ reserved >= 0 /\ reserved <= current

Room(s) == Len(s.moves) < MaxMoves

\* The balance, its movement, the outbox event when availability changed and
\* the version and event of every kit that contains the product.
Persist(s, p, type, qty, current, reserved, ref, key, reversalOf) ==
  LET kits      == Dependents(p)
      announced == IF current - reserved # Available(s, p) THEN kits \cup {p}
                                                           ELSE kits
      t == [s EXCEPT
              !.current[p]  = current,
              !.reserved[p] = reserved,
              !.version     = [x \in Stocked |-> IF x = p \/ x \in kits
                                                 THEN s.version[x] + 1
                                                 ELSE s.version[x]],
              !.moves       = Append(s.moves,
                 [type |-> type, product |-> p, ref |-> ref, qty |-> qty,
                  key |-> key, reversalOf |-> reversalOf,
                  before |-> [current  |-> s.current[p],
                              reserved |-> s.reserved[p]],
                  after  |-> [current |-> current, reserved |-> reserved]])]
  IN [t EXCEPT !.events = s.events \cup
        {[product |-> x, version |-> t.version[x],
          available |-> IF x = p THEN current - reserved ELSE MaxKits(t, x)]
            : x \in announced}]

SetResv_Delta(s, l, status, qty) ==  \* mutant: stores the change of quantity
  [s EXCEPT !.resv[l] = [status |-> status, qty |-> qty - HeldQty(s, l)]]

SetResv(s, l, status, qty) ==
  [s EXCEPT !.resv[l] = [status |-> status, qty |-> qty]]

-----------------------------------------------------------------------------
(* Operations with an Idempotency-Key.  A key that is already in the       *)
(* ledger answers with the recorded movement or with a conflict and        *)
(* changes nothing.                                                        *)

Fresh(k) == op = "idle" /\ k \in Keys \ UsedKeys(db) /\ Room(db)

Entry(k, p, q) ==
  LET c == db.current[p] + q IN
  /\ Fresh(k)
  /\ Legal(c, db.reserved[p])
  /\ db' = Persist(db, p, "ENTRY", q, c, db.reserved[p], NoRef, k, 0)
  /\ UNCHANGED <<op, todo, want, work>>

Exit(k, p, q) ==
  LET c == db.current[p] - q IN
  /\ Fresh(k)
  /\ q <= Available(db, p)
  /\ Legal(c, db.reserved[p])
  /\ db' = Persist(db, p, "EXIT", q, c, db.reserved[p], NoRef, k, 0)
  /\ UNCHANGED <<op, todo, want, work>>

Adjust(k, p, counted) ==
  LET before == db.current[p]
      up     == counted > before
  IN
  /\ Fresh(k)
  /\ counted # before
  /\ counted >= db.reserved[p]
  /\ Legal(counted, db.reserved[p])
  /\ db' = Persist(db, p,
                   IF up THEN "ADJUSTMENT_INCREASE" ELSE "ADJUSTMENT_DECREASE",
                   IF up THEN counted - before ELSE before - counted,
                   counted, db.reserved[p], NoRef, k, 0)
  /\ UNCHANGED <<op, todo, want, work>>

CreateReservation(k, l, q) ==
  LET p == l[1]
      r == db.reserved[p] + q
  IN
  /\ Fresh(k)
  /\ q <= Available(db, p)
  /\ db.resv[l].status = "NONE"
  /\ Legal(db.current[p], r)
  /\ db' = SetResv(Persist(db, p, "RESERVATION", q, db.current[p], r, l[2], k, 0),
                   l, "ACTIVE", q)
  /\ UNCHANGED <<op, todo, want, work>>

\* cancelReservation (complete = FALSE) and completeReservation.
ProcessReservation(k, l, complete) ==
  LET p == l[1]
      q == db.resv[l].qty
      c == IF complete THEN db.current[p] - q ELSE db.current[p]
      r == db.reserved[p] - q
  IN
  /\ Fresh(k)
  /\ Live(db, l)
  /\ Legal(c, r)
  /\ db' = SetResv(Persist(db, p,
                     IF complete THEN "SALE_COMPLETED" ELSE "RESERVATION_CANCELED",
                     q, c, r, l[2], k, 0),
                   l, IF complete THEN "COMPLETED" ELSE "CANCELED", q)
  /\ UNCHANGED <<op, todo, want, work>>

\* Puts the sold units back; the reservation is left as it is.
ReverseSale(k, i) ==
  LET sale == db.moves[i]
      p    == sale.product
      c    == db.current[p] + sale.qty
  IN
  /\ Fresh(k)
  /\ sale.type = "SALE_COMPLETED"
  /\ ReversalsOf(db, i) = {}
  /\ Legal(c, db.reserved[p])
  /\ db' = Persist(db, p, "SALE_CANCELED_REVERSAL", sale.qty, c,
                   db.reserved[p], sale.ref, k, i)
  /\ UNCHANGED <<op, todo, want, work>>

-----------------------------------------------------------------------------
(* Transactions over the reservations of orders. *)

Requested(w) == {l \in OrderLines : w[l] > 0}

\* What the requested lines of product p need beyond what they already hold.
GroupDelta(w, p) ==
  MapThenSumSet(LAMBDA l : w[l] - HeldQty(db, l),
                {l \in Requested(w) : /\ l[1] = p
                                      /\ Reservable(db, l)})

Begin(kind, lines, w) ==
  /\ op = "idle"
  /\ op' = kind
  /\ todo' = lines
  /\ want' = w
  /\ work' = db
  /\ UNCHANGED db

\* reserveOrderItems up to its consolidated check; a group that does not fit
\* rejects the whole call.
BeginReserve(w) ==
  /\ Requested(w) # {}
  /\ \A p \in Products : GroupDelta(w, p) <= Available(db, p)
  /\ Begin("reserve", Requested(w), w)

\* settleOrderItems: loads the reservations of the items and keeps those the
\* action applies to.
BeginSettle(kind, items) ==
  LET settles == IF kind = "complete" THEN {"ACTIVE"} ELSE {"ACTIVE", "COMPLETED"}
  IN /\ kind \in {"complete", "cancel"}
     /\ items # {}
     /\ Begin(kind, {l \in OrderLines : /\ l[2] \in items
                                        /\ db.resv[l].status \in settles}, NoWant)

\* cancelOrderReservations: by reservation id, active ones only.
BeginRelease(lines) ==
  Begin("release", {l \in lines : Live(db, l)}, NoWant)

\* Lines are processed by product id, except by reservation id (any order
\* here) when releasing.
Turn(l) ==
  /\ l \in todo
  /\ op = "release" \/ \A o \in todo : l[1] <= o[1]

Done(l, s) ==
  /\ work' = s
  /\ todo' = todo \ {l}
  /\ UNCHANGED <<db, op, want>>

\* A line whose reservation was completed or canceled is left alone.
SkipLine(l) ==
  /\ op = "reserve" /\ Turn(l)
  /\ ~Reservable(work, l)
  /\ Done(l, work)

ReserveLine(l) ==
  LET p     == l[1]
      delta == want[l] - HeldQty(work, l)
      c     == work.current[p]
      r     == work.reserved[p] + delta
      moved == IF delta = 0 THEN work
               ELSE Persist(work, p,
                      IF delta > 0 THEN "RESERVATION" ELSE "RESERVATION_CANCELED",
                      IF delta > 0 THEN delta ELSE -delta, c, r, l[2], NoKey, 0)
  IN
  /\ op = "reserve" /\ Turn(l)
  /\ Reservable(work, l)
  /\ delta > 0 => delta <= Available(work, p)
  /\ delta # 0 => Room(work) /\ Legal(c, r)
  /\ Done(l, SetResv(moved, l, "ACTIVE", want[l]))

CompleteLine(l) ==
  LET p == l[1]
      q == work.resv[l].qty
      c == work.current[p] - q
      r == work.reserved[p] - q
  IN
  /\ op = "complete" /\ Turn(l)
  /\ Live(work, l)
  /\ Room(work) /\ Legal(c, r)
  /\ Done(l, SetResv(Persist(work, p, "SALE_COMPLETED", q, c, r, l[2], NoKey, 0),
                     l, "COMPLETED", q))

CancelActiveLine(l) ==
  LET p == l[1]
      q == work.resv[l].qty
      r == work.reserved[p] - q
  IN
  /\ op \in {"cancel", "release"} /\ Turn(l)
  /\ Live(work, l)
  /\ Room(work) /\ Legal(work.current[p], r)
  /\ Done(l, SetResv(Persist(work, p, "RESERVATION_CANCELED", q,
                             work.current[p], r, l[2], NoKey, 0),
                     l, "CANCELED", q))

CancelSoldLine_NoReturn(l) ==  \* mutant: the units are not put back
  /\ op = "cancel" /\ Turn(l)
  /\ work.resv[l].status = "COMPLETED"
  /\ Done(l, SetResv(work, l, "CANCELED", work.resv[l].qty))

\* Canceling a sold line puts its units back unless the sale was already
\* reversed; it fails when the sale cannot be found.
CancelSoldLine(l) ==
  /\ op = "cancel" /\ Turn(l)
  /\ work.resv[l].status = "COMPLETED"
  /\ \E i \in SalesOf(work, l) :
       LET p == l[1]
           q == work.moves[i].qty
           c == work.current[p] + q
           s == IF ReversalsOf(work, i) # {} THEN work
                ELSE Persist(work, p, "SALE_CANCELED_REVERSAL", q, c,
                             work.reserved[p], l[2], NoKey, i)
       IN /\ ReversalsOf(work, i) = {} => Room(work) /\ Legal(c, work.reserved[p])
          /\ Done(l, SetResv(s, l, "CANCELED", work.resv[l].qty))

Close(s) ==
  /\ db' = s
  /\ op' = "idle"
  /\ todo' = {}
  /\ want' = NoWant
  /\ work' = Empty

Commit == op # "idle" /\ todo = {} /\ Close(work)

Rollback_Partial == op # "idle" /\ Close(work)  \* mutant: keeps the lines done

Rollback_Balances ==  \* mutant: balances are saved outside the transaction
  op # "idle" /\ Close([db EXCEPT !.current = work.current,
                                  !.reserved = work.reserved])

\* A conflict on a line, or the loss of the connection, at any point.
Rollback == op # "idle" /\ Close(db)

-----------------------------------------------------------------------------

Init ==
  /\ db = Empty
  /\ op = "idle"
  /\ todo = {}
  /\ want = NoWant
  /\ work = Empty

KeyedNext ==
  \E k \in Keys :
    \/ \E p \in Products, q \in 1..MaxQty : Entry(k, p, q) \/ Exit(k, p, q)
    \/ \E p \in Products, q \in 0..MaxQty : Adjust(k, p, q)
    \/ \E l \in Lines, q \in 1..MaxQty : CreateReservation(k, l, q)
    \/ \E l \in Lines, complete \in BOOLEAN : ProcessReservation(k, l, complete)
    \/ \E i \in DOMAIN db.moves : ReverseSale(k, i)

OrderNext ==
  \/ \E w \in [OrderLines -> 0..MaxQty] : BeginReserve(w)
  \/ \E items \in SUBSET OrderItems, kind \in {"complete", "cancel"} :
       BeginSettle(kind, items)
  \/ \E lines \in SUBSET Lines : BeginRelease(lines)
  \/ \E l \in Lines : \/ SkipLine(l) \/ ReserveLine(l) \/ CompleteLine(l)
                      \/ CancelActiveLine(l) \/ CancelSoldLine(l)
  \/ Commit
  \/ Rollback

Next == KeyedNext \/ OrderNext

Spec == Init /\ [][Next]_vars

-----------------------------------------------------------------------------
(* Properties. *)

\* Every variable has its type, in the committed rows and inside a transaction.
TypeOK ==
  /\ db \in State
  /\ work \in State
  /\ op \in {"idle", "reserve", "complete", "cancel", "release"}
  /\ todo \subseteq (IF op = "release" THEN Lines ELSE OrderLines)
  /\ want \in [OrderLines -> Nat]

LinesOf(p) == {p} \X Refs

\* The units of product p that active reservations hold, one element per unit.
HeldUnits(s, p) ==
  UNION {{l} \X (1..HeldQty(s, l)) : l \in LinesOf(p)}

StockIsThere(s) ==
  \A p \in Products : /\ s.reserved[p] = Cardinality(HeldUnits(s, p))
                       /\ s.reserved[p] <= s.current[p]

\* The reserved quantity of a balance is exactly what its active reservations
\* hold, and the physical stock covers it: no order of reservations, partial
\* adjustments, settlements, cancellations and reversals makes the balance and
\* the reservation rows drift apart or promises units that are not there.
HeldStockIsThere == StockIsThere(db) /\ StockIsThere(work)

\* What the first n movements say of the balance of p: what the last one of p
\* among them left, nothing if there is none.
Leave(s, p, n, balance) ==
  LET own == {i \in 1..n : s.moves[i].product = p} IN
  IF own = {} THEN balance = [current |-> 0, reserved |-> 0]
  ELSE \E i \in own : /\ \A j \in own : j <= i
                      /\ s.moves[i].after = balance

\* The ledger is a ledger: the movements of a product chain (each starts from
\* the balance the previous one left) and the last one is the balance row.
LedgerExplainsBalance ==
  \A p \in Products :
    /\ Leave(db, p, Len(db.moves), [current  |-> db.current[p],
                                    reserved |-> db.reserved[p]])
    /\ \A i \in DOMAIN db.moves :
         db.moves[i].product = p => Leave(db, p, i - 1, db.moves[i].before)

\* A reservation and the ledger tell the same story: nothing was sold for an
\* open line, exactly its quantity was sold for a completed one, and a canceled
\* line keeps no unreturned sale, whichever of order cancellation and
\* reverseSale returned it.
SoldAsReserved ==
  \A l \in Lines :
    LET sales    == SalesOf(db, l)
        returned == {db.moves[j].reversalOf : j \in DOMAIN db.moves}
    IN CASE db.resv[l].status = "COMPLETED" ->
              Cardinality(sales) = 1 /\ \A i \in sales : db.moves[i].qty = db.resv[l].qty
         [] db.resv[l].status = "CANCELED" -> sales \subseteq returned
         [] OTHER -> sales = {}

\* A sale is returned at most once, with its own product and quantity, although
\* reverseSale and the cancellation of the order both return it.
ReturnedAtMostOnce ==
  \A i, j \in DOMAIN db.moves :
    LET r == db.moves[i].reversalOf IN
    r # 0 => /\ db.moves[r].type = "SALE_COMPLETED"
             /\ db.moves[r].product = db.moves[i].product
             /\ db.moves[r].qty = db.moves[i].qty
             /\ db.moves[j].reversalOf = r => i = j

\* What was sold and returned is what the reservations say, line by line, and
\* no sale is returned twice.
SalesMatchReservations == SoldAsReserved /\ ReturnedAtMostOnce

\* The newest outbox event of a product, physical or kit, carries what is
\* available of it now: whoever publishes only the newest event publishes the
\* truth, and a product without events has nothing available.
NewestEventTellsAvailability ==
  \A x \in Stocked :
    LET es  == {e \in db.events : e.product = x}
        now == IF x \in Kits THEN MaxKits(db, x) ELSE Available(db, x)
    IN IF es = {} THEN now = 0
       ELSE \E e \in es : /\ \A f \in es : f.version <= e.version
                          /\ e.available = now

\* Settling or releasing the reservations of an order is never refused half way:
\* for each pending line the balance covers what it holds, and the sale of a
\* completed line is in the ledger.
SettlementNeverRefused ==
  op \in {"complete", "cancel", "release"} =>
    \A l \in todo :
      /\ work.resv[l].status = "ACTIVE" => work.resv[l].qty <= work.reserved[l[1]]
      /\ work.resv[l].status = "COMPLETED" => SalesOf(work, l) # {}

\* What is reserved is there, and remains so until its order is settled: every
\* reservation is covered by the balance, and no line is refused at the end.
ReservationsAreCovered == HeldStockIsThere /\ SettlementNeverRefused

\* A reservation that was completed or canceled never holds stock again, and a
\* canceled one stays canceled: a late or repeated import of the order cannot
\* bring it back.
NeverRevived ==
  [][\A l \in Lines :
       /\ db.resv[l].status = "COMPLETED" => db'.resv[l].status \in {"COMPLETED", "CANCELED"}
       /\ db.resv[l].status = "CANCELED"  => db'.resv[l].status = "CANCELED"]_db

\* reserveOrderItems is all or nothing: if it leaves anything behind, every
\* requested line that can still be reserved holds the requested quantity.
ReserveAllOrNothing ==
  [][op = "reserve" /\ op' = "idle" /\ db' # db =>
       \A l \in Requested(want) :
         Reservable(db, l) => HeldQty(db', l) = want[l]]_vars

=============================================================================
