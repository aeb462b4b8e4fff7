------------------------------- MODULE Orders -------------------------------
(***************************************************************************)
(* One marketplace order on its way through the system: the import of what *)
(* the marketplace says (OrderImportService), its processing against the   *)
(* stock (OrderProcessingService), the status of its parcel                *)
(* (MercadoLivreWebhookDispatcher.shipment) and what users do to it        *)
(* (OrdersService, InventoryService).                                      *)
(*                                                                         *)
(* A job reads the marketplace first and writes the order later, in        *)
(* transactions of their own: "import", "process" and, for a parcel,       *)
(* "apply".  Between them other jobs of the same order and users run, so   *)
(* what a job carries may be old.  Every transaction locks the row of the  *)
(* order, so each is one action.                                           *)
(*                                                                         *)
(* Whether the stock is enough and which listings are linked change under  *)
(* these transactions at any time, so each transaction finds either.       *)
(* Inventory models the balances behind the reservations.  The raw import  *)
(* row, the issues, the history and the copies of names and prices are     *)
(* written and never decide anything in this code, so they are left out.   *)
(***************************************************************************)
EXTENDS Naturals, FiniteSets

CONSTANTS
  Items,        \* the lines of the order
  Workers,      \* jobs that can run at once
  Attempts,     \* attempts of one job
  MaxOrderAt,   \* bound: changes of the order at the marketplace
  MaxParcelAt,  \* bound: states of the parcel
  MaxExtra      \* bound: jobs of the periodic scan and of operators

ASSUME ItemsAssumption  == IsFiniteSet(Items) /\ Items # {}
ASSUME BoundsAssumption == /\ Attempts \in Nat \ {0}
                           /\ MaxOrderAt \in Nat \ {0}
                           /\ MaxExtra \in Nat
                           /\ MaxParcelAt \in 1..5

VARIABLES
  ext,       \* the order at the marketplace
  parcel,    \* its parcel at the marketplace
  news,      \* notifications not yet taken by a job
  order,     \* the row of the order
  shipment,  \* its shipment row
  resv,      \* the reservation of each line
  worker,    \* the running jobs
  dead,      \* a job has used up its attempts
  extra      \* jobs of the scan and of operators so far

rows == <<order, shipment, resv>>
vars == <<ext, parcel, news, order, shipment, resv, worker, dead,
          extra>>

-----------------------------------------------------------------------------
(* Statuses and their mapping. *)

OrderStatuses == {"NEW", "PAID", "AWAITING_INVOICE", "INVOICED",
                  "READY_TO_SHIP", "SHIPPED", "DELIVERED", "CANCELED", "ERROR"}
ProcessingStatuses == {"IMPORTING", "PENDING_PRODUCT_LINK", "PENDING_STOCK",
                       "READY_FOR_BILLING"}
PaymentStatuses  == {"PENDING", "PAID", "REFUNDED", "CANCELED", "CHARGEBACK"}
ShippingStatuses == {"PENDING", "READY_TO_SHIP", "SHIPPED", "DELIVERED",
                     "DELIVERY_FAILED", "RETURNED"}
ReservationStatuses == {"NONE", "ACTIVE", "COMPLETED", "CANCELED"}

\* What the marketplace calls the statuses, and what they become here.
OrderWord    == [payment_required |-> "NEW", paid |-> "PAID",
                 cancelled |-> "CANCELED"]
PaymentWord  == [pending |-> "PENDING", approved |-> "PAID",
                 refunded |-> "REFUNDED", cancelled |-> "CANCELED",
                 charged_back |-> "CHARGEBACK"]
ShippingWord == [pending |-> "PENDING", ready_to_ship |-> "READY_TO_SHIP",
                 shipped |-> "SHIPPED", delivered |-> "DELIVERED",
                 not_delivered |-> "DELIVERY_FAILED", returned |-> "RETURNED"]

\* The parcel's progress overrides the status of the order.
Mapped(status, payment, shipping) ==
  LET s == ShippingWord[shipping] IN
  [status   |-> IF s \in {"DELIVERED", "SHIPPED", "READY_TO_SHIP"}
                THEN s ELSE OrderWord[status],
   payment  |-> PaymentWord[payment],
   shipping |-> s]

OrderRank == [NEW |-> 0, PAID |-> 1, AWAITING_INVOICE |-> 2, INVOICED |-> 3,
              READY_TO_SHIP |-> 4, SHIPPED |-> 5, DELIVERED |-> 6]
ShippingRank == [PENDING |-> 0, READY_TO_SHIP |-> 1, SHIPPED |-> 2,
                 DELIVERED |-> 3]

\* The next status, unless both have a rank and it would go down.
Forward(rank, current, next) ==
  IF /\ {current, next} \subseteq DOMAIN rank
     /\ rank[next] < rank[current]
  THEN current ELSE next

Preserve_Nothing(current, next) == next  \* mutant: progress is not kept

Preserve(current, next) ==
  [status   |-> CASE current.status = "CANCELED" -> "CANCELED"
                  [] current.status # "CANCELED" /\ next.status = "CANCELED"
                       -> "CANCELED"
                  [] OTHER -> Forward(OrderRank, current.status, next.status),
   payment  |-> IF current.payment = "PAID" /\ next.payment = "PENDING"
                THEN "PAID" ELSE next.payment,
   shipping |-> Forward(ShippingRank, current.shipping, next.shipping)]

-----------------------------------------------------------------------------
(* The rows and the jobs. *)

ExtOrder == [at : 1..MaxOrderAt, status : DOMAIN OrderWord,
             payment : DOMAIN PaymentWord]
Parcel   == [at : 1..MaxParcelAt, status : DOMAIN ShippingWord]

NoOrder    == [at |-> 0]
OrderRow   == [at : 1..MaxOrderAt, status : OrderStatuses,
               processing : ProcessingStatuses, payment : PaymentStatuses,
               shipping : ShippingStatuses, extStatus : DOMAIN OrderWord,
               extPayment : DOMAIN PaymentWord, linked : SUBSET Items,
               billed : BOOLEAN]
NoShipment  == [at |-> 0, status |-> "none"]
ShipmentRow == [at : 0..MaxParcelAt, status : ShippingStatuses]

Idle == [pc |-> "idle"]
None == [at |-> 0]
Job  == [pc : {"parcel", "fetch", "import", "process", "apply"},
         forParcel : BOOLEAN, manual : BOOLEAN, tries : 1..Attempts,
         doc : ExtOrder \cup {None}, seen : Parcel \cup {None}]

Exists == order # NoOrder

Init ==
  /\ ext \in {[at |-> 1, status |-> "payment_required", payment |-> "pending"],
              [at |-> 1, status |-> "paid", payment |-> "approved"]}
  /\ parcel = [at |-> 1, status |-> "pending"]
  /\ news = {"order"}
  /\ order = NoOrder
  /\ shipment = NoShipment
  /\ resv = [i \in Items |-> "NONE"]
  /\ worker = [w \in Workers |-> Idle]
  /\ dead = FALSE
  /\ extra = 0

-----------------------------------------------------------------------------
(* The marketplace and the rest of the shop. *)

\* Where an order can go at the marketplace; it may also change in other ways.
OrderMoves == {<<"payment_required", "pending", "paid", "approved">>,
               <<"payment_required", "pending", "cancelled", "cancelled">>,
               <<"paid", "approved", "paid", "approved">>,
               <<"paid", "approved", "paid", "charged_back">>,
               <<"paid", "approved", "cancelled", "refunded">>}

OrderChanges(status, payment) ==
  /\ ext.at < MaxOrderAt
  /\ <<ext.status, ext.payment, status, payment>> \in OrderMoves
  /\ ext' = [at |-> ext.at + 1, status |-> status, payment |-> payment]
  /\ news' = news \cup {"order"}
  /\ UNCHANGED <<parcel, rows, worker, dead, extra>>

ParcelMoves == {<<"pending", "ready_to_ship">>, <<"ready_to_ship", "shipped">>,
                <<"shipped", "delivered">>, <<"shipped", "not_delivered">>,
                <<"not_delivered", "returned">>}

ParcelChanges(status) ==
  /\ ext.status = "paid"
  /\ parcel.at < MaxParcelAt
  /\ <<parcel.status, status>> \in ParcelMoves
  /\ parcel' = [at |-> parcel.at + 1, status |-> status]
  /\ news' = news \cup {"shipment"}
  /\ UNCHANGED <<ext, rows, worker, dead, extra>>

-----------------------------------------------------------------------------
(* Jobs: the read of the marketplace. *)

Goes(w, job) == worker' = [worker EXCEPT ![w] = job]

FirstStep(forParcel) == IF forParcel THEN "parcel" ELSE "fetch"

Start(w, forParcel, manual) ==
  /\ worker[w] = Idle
  /\ Goes(w, [pc |-> FirstStep(forParcel), forParcel |-> forParcel,
              manual |-> manual, tries |-> 1, doc |-> None, seen |-> None])

\* A notification becomes a job.
Notified(w) ==
  /\ \E n \in news : /\ Start(w, n = "shipment", FALSE)
                     /\ news' = news \ {n}
  /\ UNCHANGED <<ext, parcel, rows, dead, extra>>

\* The periodic scan or a duplicated notification (manual FALSE), or an
\* operator who asks for the order to be processed again (manual TRUE).
Requested(w, manual) ==
  /\ extra < MaxExtra
  /\ extra' = extra + 1
  /\ Start(w, FALSE, manual)
  /\ UNCHANGED <<ext, parcel, news, rows, dead>>

ReadParcel(w) ==
  /\ worker[w].pc = "parcel"
  /\ Goes(w, [worker[w] EXCEPT !.pc = "fetch", !.seen = parcel])
  /\ UNCHANGED <<ext, parcel, news, rows, dead, extra>>

Fetch(w) ==
  /\ worker[w].pc = "fetch"
  /\ Goes(w, [worker[w] EXCEPT !.pc = "import", !.doc = ext])
  /\ UNCHANGED <<ext, parcel, news, rows, dead, extra>>

-----------------------------------------------------------------------------
(* Jobs: importMarketplace. *)

\* What the row already says is at least as new, and nobody insists.
Skips(w) == Exists /\ ~worker[w].manual /\ order.at >= worker[w].doc.at

\* The connector knows only that the order has a parcel: "pending".
ImportedRow(doc, linked) ==
  LET mapped == Mapped(doc.status, doc.payment, "pending")
      kept   == IF Exists THEN Preserve(order, mapped) ELSE mapped
  IN [at |-> doc.at, status |-> kept.status, processing |-> "IMPORTING",
      payment |-> kept.payment, shipping |-> kept.shipping,
      extStatus |-> doc.status, extPayment |-> doc.payment, linked |-> linked,
      billed |-> Exists /\ order.billed]

ToProcess(w) == [worker[w] EXCEPT !.pc = "process", !.doc = None]

AfterImport_Done(w) ==  \* mutant: an order that is up to date needs nothing
  IF Skips(w) THEN Idle ELSE ToProcess(w)

AfterImport(w) == ToProcess(w)

\* replaceSnapshots resolves each line by the active link of its listing; a
\* line without one loses its product.
Resolutions == SUBSET Items

\* It deletes the shipment rows and writes one that knows no parcel.
ReplacedShipment(row) == [at |-> 0, status |-> row.shipping]

Import(w) ==
  /\ worker[w].pc = "import"
  /\ IF Skips(w)
     THEN UNCHANGED <<order, shipment>>
     ELSE \E linked \in Resolutions :
            LET row == ImportedRow(worker[w].doc, linked) IN
            /\ order' = row
            /\ shipment' = ReplacedShipment(row)
  /\ Goes(w, AfterImport(w))
  /\ UNCHANGED <<ext, parcel, news, resv, dead, extra>>

-----------------------------------------------------------------------------
(* Jobs: process. *)

Holding == {i \in Items : resv[i] \in {"ACTIVE", "COMPLETED"}}

\* settleOrderItems(cancel): reservations are released, sales are returned.
Release ==
  resv' = [i \in Items |-> IF i \in Holding THEN "CANCELED" ELSE resv[i]]

New == {i \in Items : resv[i] = "NONE"}

\* reserveOrderItems leaves a line alone once its reservation has ended.
Reserve ==
  resv' = [i \in Items |-> IF i \in New THEN "ACTIVE" ELSE resv[i]]

BillOrder(o) ==
  [o EXCEPT !.processing = "READY_FOR_BILLING",
            !.status = IF @ = "PAID" THEN "AWAITING_INVOICE" ELSE @,
            !.billed = TRUE]

ReleaseCanceled_Never ==  \* mutant: only the user's cancel releases
  order.status = "CANCELED" /\ UNCHANGED <<order, resv>>

ReleaseCanceled == order.status = "CANCELED" /\ Release /\ UNCHANGED order

LacksLink ==
  /\ order.status # "CANCELED"
  /\ order.linked # Items
  /\ order' = [order EXCEPT !.processing = "PENDING_PRODUCT_LINK"]
  /\ UNCHANGED resv

NotPaid ==
  /\ order.status # "CANCELED" /\ order.linked = Items
  /\ order.payment # "PAID"
  /\ UNCHANGED <<order, resv>>

Eligible == /\ order.status # "CANCELED" /\ order.linked = Items
            /\ order.payment = "PAID"

LacksStock_Ready ==  \* mutant: the conflict is swallowed
  /\ Eligible
  /\ New # {}
  /\ order' = BillOrder(order)
  /\ UNCHANGED resv

LacksStock ==
  /\ Eligible
  /\ New # {}
  /\ order' = [order EXCEPT !.processing = "PENDING_STOCK"]
  /\ UNCHANGED resv

HasStock ==
  /\ Eligible
  /\ Reserve
  /\ order' = IF order.processing = "READY_FOR_BILLING" THEN order
                                                        ELSE BillOrder(order)

Process(w) ==
  /\ worker[w].pc = "process"
  /\ \/ ReleaseCanceled
     \/ LacksLink
     \/ NotPaid
     \/ LacksStock
     \/ HasStock
  /\ Goes(w, IF worker[w].forParcel THEN [worker[w] EXCEPT !.pc = "apply"]
                                    ELSE Idle)
  /\ UNCHANGED <<ext, parcel, news, shipment, dead, extra>>

-----------------------------------------------------------------------------
(* Jobs: the status of the parcel. *)

\* An incoming status without a rank passes, and so does any status over it.
Behind(current, next) ==
  /\ {current, next} \subseteq DOMAIN ShippingRank
  /\ ShippingRank[next] < ShippingRank[current]

OldParcel(seen) == shipment.at > seen.at \/
                   Behind(order.shipping, ShippingWord[seen.status])

ApplyParcel(w) ==
  LET seen  == worker[w].seen
      moved == Preserve(order, Mapped(order.extStatus, order.extPayment,
                                      seen.status))
  IN
  /\ worker[w].pc = "apply"
  /\ IF OldParcel(seen)
     THEN UNCHANGED <<order, shipment>>
     ELSE /\ order' = [order EXCEPT !.status = moved.status,
                                    !.shipping = ShippingWord[seen.status]]
          /\ shipment' = [at |-> seen.at, status |-> ShippingWord[seen.status]]
  /\ Goes(w, Idle)
  /\ UNCHANGED <<ext, parcel, news, resv, dead, extra>>

Again(w) == [worker[w] EXCEPT !.pc = FirstStep(worker[w].forParcel),
                              !.tries = @ + 1, !.doc = None, !.seen = None]

Fail_Forgotten(w) ==  \* mutant: the error is caught and the job ends well
  /\ worker[w] # Idle
  /\ Goes(w, Idle)
  /\ UNCHANGED <<ext, parcel, news, rows, dead, extra>>

Fail_Uncounted(w) ==  \* mutant: the attempts are not compared with the limit
  /\ worker[w] # Idle
  /\ Goes(w, Again(w))
  /\ UNCHANGED <<ext, parcel, news, rows, dead, extra>>

\* A step throws or its process dies.  The job starts again, or is given up.
Fail(w) ==
  /\ worker[w] # Idle
  /\ IF worker[w].tries < Attempts
     THEN Goes(w, Again(w)) /\ UNCHANGED dead
     ELSE Goes(w, Idle) /\ dead' = TRUE
  /\ UNCHANGED <<ext, parcel, news, rows, extra>>

-----------------------------------------------------------------------------
(* Users. *)

\* The transitions to CANCELED that OrderStatusTransitionService allows.
Cancelable == {"NEW", "PAID", "AWAITING_INVOICE", "INVOICED", "READY_TO_SHIP",
               "CANCELED"}

UserCancels ==
  /\ Exists
  /\ order.status \in Cancelable
  /\ Release
  /\ order' = [order EXCEPT !.status = "CANCELED"]
  /\ UNCHANGED <<ext, parcel, news, shipment, worker, dead, extra>>

\* "Dar baixa no estoque": completeReservations.
UserCompletes ==
  /\ Exists
  /\ order.status # "CANCELED"
  /\ order.processing = "READY_FOR_BILLING"
  /\ resv' = [i \in Items |-> IF resv[i] = "ACTIVE" THEN "COMPLETED"
                                                   ELSE resv[i]]
  /\ UNCHANGED <<ext, parcel, news, order, shipment, worker, dead, extra>>

\* The stock screen ends any active reservation, those of orders too.
UserEndsReservation(i, status) ==
  /\ resv[i] = "ACTIVE"
  /\ resv' = [resv EXCEPT ![i] = status]
  /\ UNCHANGED <<ext, parcel, news, order, shipment, worker, dead, extra>>

-----------------------------------------------------------------------------
Step(w) ==
  ReadParcel(w) \/ Fetch(w) \/ Import(w) \/ Process(w) \/ ApplyParcel(w)

Next ==
  \/ \E s \in DOMAIN OrderWord, p \in DOMAIN PaymentWord : OrderChanges(s, p)
  \/ \E s \in DOMAIN ShippingWord : ParcelChanges(s)
  \/ \E w \in Workers : \/ Notified(w)
                        \/ \E manual \in BOOLEAN : Requested(w, manual)
                        \/ Step(w)
                        \/ Fail(w)
  \/ UserCancels
  \/ UserCompletes
  \/ \E i \in Items, s \in {"COMPLETED", "CANCELED"} : UserEndsReservation(i, s)

\* The queues deliver, and workers take the steps of their jobs.
Fairness == \A w \in Workers : WF_vars(Notified(w)) /\ WF_vars(Step(w))

Spec == Init /\ [][Next]_vars /\ Fairness

-----------------------------------------------------------------------------
(* Properties. *)

\* Every row and every job has its type.
TypeOK ==
  /\ ext \in ExtOrder /\ parcel \in Parcel
  /\ news \subseteq {"order", "shipment"}
  /\ order \in OrderRow \cup {NoOrder}
  /\ shipment \in ShipmentRow \cup {NoShipment}
  /\ resv \in [Items -> ReservationStatuses]
  /\ worker \in [Workers -> Job \cup {Idle}]
  /\ dead \in BOOLEAN
  /\ extra \in 0..MaxExtra
  /\ (shipment = NoShipment) = ~Exists

\* A canceled order holds no stock, nor sales, except between its import and
\* its processing by the same job; a job given up leaves its trace.
CanceledHoldsNothing ==
  Exists /\ order.status = "CANCELED" /\ Holding # {} =>
    \/ dead
    \/ \E w \in Workers : worker[w] # Idle /\ worker[w].pc # "apply"

\* No line of an order that is ready for billing was left without stock (the
\* stock screen may end its reservation afterwards: processReservation does
\* not look at the order).
ReadyIsReserved ==
  Exists /\ order.processing = "READY_FOR_BILLING" => New = {}

\* Stock is reserved for an order exactly when it is handed to billing, in
\* whatever state its parcel is by then.
ReservedIsBilled == (\E i \in Items : resv[i] # "NONE") => order.billed

\* The stock of an order and its hand-over to billing go together, in both
\* directions.
BillingMatchesStock == ReadyIsReserved /\ ReservedIsBilled

\* When no job is left, a paid and linked order has been decided: ready, or
\* waiting for stock.  An import that is skipped as old must still process.
PaidIsDecided ==
  /\ Exists /\ ~dead /\ (\A w \in Workers : worker[w] = Idle)
  /\ order.payment = "PAID" /\ order.linked = Items /\ order.status # "CANCELED"
  => order.processing \in {"READY_FOR_BILLING", "PENDING_STOCK"}

\* The status of an order never goes back, whatever old document or parcel a
\* late job carries and however an operator insists; a canceled order stays so.
StatusNeverGoesBack ==
  [][Exists => \/ order'.status = "CANCELED"
               \/ /\ order.status # "CANCELED"
                  /\ OrderRank[order'.status] >= OrderRank[order.status]]_vars

\* An older document replaces a newer one only in a job of an operator.
OnlyOperatorsGoBack ==
  [][Exists /\ order'.at < order.at =>
       \E w \in Workers : worker[w].pc = "import" /\ worker[w].manual
                          /\ worker'[w] # worker[w]]_vars

\* Neither the status of an order nor the document it was made from goes back,
\* but for the document and by an operator's will.
HistoryAdvances == StatusNeverGoesBack /\ OnlyOperatorsGoBack

\* A cancellation at the marketplace reaches the order and its stock, unless a
\* job was given up.
CancellationArrives ==
  ext.status = "cancelled"
    ~> dead \/ (Exists /\ order.status = "CANCELED" /\ Holding = {})

\* What the parcel of an order has gone through is never forgotten:
\* docs/marketplace-webhooks.md says that old events do not set a status back
\* and that an import keeps the progress of the shipment.
Stage == [PENDING |-> 0, READY_TO_SHIP |-> 1, SHIPPED |-> 2, DELIVERED |-> 3,
          DELIVERY_FAILED |-> 3, RETURNED |-> 4]

ParcelNeverGoesBack ==
  [][Exists => Stage[order'.shipping] >= Stage[order.shipping]]_vars
=============================================================================
