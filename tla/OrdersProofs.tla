---------------------------- MODULE OrdersProofs ----------------------------
(***************************************************************************)
(* What holds of Orders for every number of lines, workers and attempts,   *)
(* however often the order and its parcel change at the marketplace.       *)
(***************************************************************************)
EXTENDS Orders, TLAPS

USE ItemsAssumption, BoundsAssumption

\* What is reserved is reserved for an order that was written.
NothingBefore == ~Exists => \A i \in Items : resv[i] = "NONE"

\* What a job carries at each of its steps, and that it wrote the order.
CarriesOf(job, written) ==
  /\ job.pc \in {"process", "apply"} => written
  /\ job.pc = "import" => job.doc \in ExtOrder
  /\ job.pc = "apply" => job.forParcel
  /\ job.pc \in {"fetch", "import", "process", "apply"} /\ job.forParcel
       => job.seen \in Parcel

Carries == \A w \in Workers : CarriesOf(worker[w], Exists)

\* An order known to be cancelled at the marketplace is canceled here.
KnownCanceled ==
  Exists => /\ order.status # "ERROR"
            /\ order.extStatus = "cancelled" => order.status = "CANCELED"

ReadyIsBilled ==
  Exists /\ order.processing = "READY_FOR_BILLING" => order.billed

\* The order is canceled and holds stock, or it could be decided and is not.
Unserved ==
  /\ Exists
  /\ \/ order.status = "CANCELED" /\ Holding # {}
     \/ /\ order.status # "CANCELED" /\ order.payment = "PAID"
        /\ order.linked = Items
        /\ order.processing \notin {"READY_FOR_BILLING", "PENDING_STOCK"}

\* Some job will still process such an order, unless one was given up.
Served ==
  Unserved => dead \/ \E w \in Workers : worker[w] # Idle /\ worker[w].pc # "apply"

\* The inductive invariant.
IInv == /\ TypeOK /\ NothingBefore /\ Carries /\ KnownCanceled
        /\ ReadyIsBilled /\ ReadyIsReserved /\ ReservedIsBilled /\ Served

-----------------------------------------------------------------------------
(* Statuses.                                                               *)

\* The words of the marketplace have statuses of the right kinds.
LEMMA Words ==
  /\ DOMAIN OrderWord = {"payment_required", "paid", "cancelled"}
  /\ \A s \in DOMAIN OrderWord : OrderWord[s] \in {"NEW", "PAID", "CANCELED"}
  /\ \A s \in DOMAIN OrderWord : OrderWord[s] = "CANCELED" <=> s = "cancelled"
  /\ \A s \in DOMAIN PaymentWord : PaymentWord[s] \in PaymentStatuses
  /\ \A s \in DOMAIN ShippingWord : ShippingWord[s] \in ShippingStatuses
  /\ "pending" \in DOMAIN ShippingWord /\ ShippingWord["pending"] = "PENDING"
BY DEF OrderWord, PaymentWord, ShippingWord, PaymentStatuses, ShippingStatuses

\* Every status but those outside the order of progress has a rank.
LEMMA Ranks ==
  /\ DOMAIN OrderRank = OrderStatuses \ {"CANCELED", "ERROR"}
  /\ \A s \in DOMAIN OrderRank : OrderRank[s] \in Nat
  /\ DOMAIN ShippingRank = {"PENDING", "READY_TO_SHIP", "SHIPPED", "DELIVERED"}
  /\ \A s \in DOMAIN ShippingRank : ShippingRank[s] \in Nat
BY DEF OrderRank, OrderStatuses, ShippingRank

\* What an import or a parcel makes of the status and the shipping of an order:
\* it stays in range, a cancellation prevails, and nothing else goes down.
LEMMA PreserveProgress ==
  ASSUME NEW current, current.status \in OrderStatuses \ {"ERROR"},
         current.shipping \in ShippingStatuses,
         current.payment \in PaymentStatuses,
         NEW s \in DOMAIN OrderWord, NEW p \in DOMAIN PaymentWord,
         NEW sh \in DOMAIN ShippingWord
  PROVE  LET kept == Preserve(current, Mapped(s, p, sh)) IN
         /\ kept.status \in OrderStatuses \ {"ERROR"}
         /\ kept.payment \in PaymentStatuses
         /\ kept.shipping \in ShippingStatuses
         /\ current.status = "CANCELED" => kept.status = "CANCELED"
         /\ s = "cancelled" /\ sh = "pending" => kept.status = "CANCELED"
         /\ s # "cancelled" /\ current.status # "CANCELED"
              => kept.status # "CANCELED"
         /\ current.status # "CANCELED" /\ kept.status # "CANCELED"
              => OrderRank[kept.status] >= OrderRank[current.status]
<1> DEFINE next == Mapped(s, p, sh)
           kept == Preserve(current, next)
<1>1. /\ next.status \in OrderStatuses \ {"ERROR"}
      /\ next.payment \in PaymentStatuses
      /\ next.shipping \in ShippingStatuses
      /\ s = "cancelled" /\ sh = "pending" => next.status = "CANCELED"
      /\ s # "cancelled" => next.status # "CANCELED"
  BY Words DEF Mapped, OrderStatuses
<1> HIDE DEF next
<1>2. kept.status = CASE current.status = "CANCELED" -> "CANCELED"
                      [] current.status # "CANCELED" /\ next.status = "CANCELED"
                           -> "CANCELED"
                      [] OTHER -> Forward(OrderRank, current.status, next.status)
  BY DEF Preserve
<1>3. kept.payment \in PaymentStatuses /\ kept.shipping \in ShippingStatuses
  BY <1>1 DEF Preserve, Forward, PaymentStatuses
<1>4. CASE current.status # "CANCELED" /\ next.status # "CANCELED"
  <2>1. kept.status = Forward(OrderRank, current.status, next.status)
    BY <1>2, <1>4
  <2>2. /\ current.status \in DOMAIN OrderRank /\ next.status \in DOMAIN OrderRank
        /\ OrderRank[current.status] \in Nat /\ OrderRank[next.status] \in Nat
    BY <1>1, <1>4, Ranks
  <2>3. /\ kept.status \in {current.status, next.status}
        /\ OrderRank[kept.status] >= OrderRank[current.status]
    BY <2>1, <2>2 DEF Forward
  <2>4. QED
    BY <1>1, <1>3, <1>4, <2>3 DEF next
<1>5. CASE current.status = "CANCELED" \/ next.status = "CANCELED"
  <2>1. kept.status = "CANCELED"
    BY <1>2, <1>5
  <2>2. QED
    BY <1>1, <1>3, <1>5, <2>1 DEF next, OrderStatuses
<1>6. QED
  BY <1>4, <1>5

-----------------------------------------------------------------------------
(* Jobs.                                                                   *)

\* A worker that is at a step has a job.
LEMMA Busy ==
  ASSUME TypeOK, NEW w \in Workers, worker[w] # Idle \/ worker[w].pc # "idle"
  PROVE  worker[w] \in Job /\ worker[w] # Idle
BY DEF TypeOK, Idle

\* A job that is none has no step.
LEMMA JobIsNotIdle == \A job \in Job : job # Idle /\ job.pc # "idle"
BY DEF Job, Idle

\* A job that goes to another step changes what the step says and no more:
\* after the read of the parcel,
LEMMA JobAfterParcel ==
  ASSUME NEW j \in Job, NEW seen \in Parcel
  PROVE  LET job == [j EXCEPT !.pc = "fetch", !.seen = seen] IN
         job \in Job /\ job.pc = "fetch" /\ job.seen = seen
BY DEF Job

\* after the read of the order,
LEMMA JobAfterFetch ==
  ASSUME NEW j \in Job, NEW doc \in ExtOrder
  PROVE  LET job == [j EXCEPT !.pc = "import", !.doc = doc] IN
         /\ job \in Job /\ job.pc = "import" /\ job.doc = doc
         /\ job.forParcel = j.forParcel /\ job.seen = j.seen
BY DEF Job

\* after the import,
LEMMA JobAfterImport ==
  ASSUME NEW w, worker[w] \in Job
  PROVE  LET job == ToProcess(w) IN
         /\ job \in Job /\ job.pc = "process"
         /\ job.forParcel = worker[w].forParcel /\ job.seen = worker[w].seen
BY DEF Job, ToProcess

\* after processing,
LEMMA JobAfterProcess ==
  ASSUME NEW j \in Job
  PROVE  LET job == [j EXCEPT !.pc = "apply"] IN
         /\ job \in Job /\ job.pc = "apply"
         /\ job.forParcel = j.forParcel /\ job.seen = j.seen
BY DEF Job

\* and when it starts again.
LEMMA JobAgain ==
  ASSUME NEW w, worker[w] \in Job, worker[w].tries < Attempts
  PROVE  LET job == Again(w) IN
         /\ job \in Job /\ job.pc \in {"parcel", "fetch"}
         /\ job.pc = "fetch" => ~job.forParcel
<1> DEFINE j == worker[w]
<1>1. j \in Job /\ j.tries + 1 \in 1..Attempts
  BY DEF Job
<1>2. Again(w) = [j EXCEPT !.pc = FirstStep(j.forParcel), !.tries = j.tries + 1,
                           !.doc = None, !.seen = None]
  BY DEF Again
<1> HIDE DEF j
<1>3. FirstStep(j.forParcel) \in {"parcel", "fetch"}
      /\ (FirstStep(j.forParcel) = "fetch" => ~j.forParcel)
  BY DEF FirstStep
<1>4. QED
  BY <1>1, <1>2, <1>3 DEF Job

\* A worker that goes on leaves the others alone.
LEMMA GoesOn ==
  ASSUME TypeOK, NEW w \in Workers, NEW job \in Job \cup {Idle}, Goes(w, job)
  PROVE  /\ worker' \in [Workers -> Job \cup {Idle}]
         /\ worker'[w] = job
         /\ \A v \in Workers : v # w => worker'[v] = worker[v]
BY DEF TypeOK, Goes

\* It keeps what jobs carry if its new job carries what it needs.
LEMMA GoesCarrying ==
  ASSUME IInv, NEW w \in Workers, NEW job \in Job \cup {Idle}, Goes(w, job),
         Exists => Exists', CarriesOf(job, Exists')
  PROVE  Carries'
<1>1. worker'[w] = job /\ \A v \in Workers : v # w => worker'[v] = worker[v]
  BY GoesOn DEF IInv
<1>2. \A v \in Workers : CarriesOf(worker[v], Exists) => CarriesOf(worker[v], Exists')
  BY DEF CarriesOf
<1>3. QED
  BY <1>1, <1>2 DEF IInv, Carries

\* A job that still has to be processed serves the order.
LEMMA ServedByThis ==
  ASSUME IInv, NEW w \in Workers, NEW job \in Job, Goes(w, job), job.pc # "apply"
  PROVE  Served'
<1>1. worker'[w] = job /\ job # Idle
  BY GoesOn, JobIsNotIdle DEF IInv
<1>2. QED
  BY <1>1 DEF Served

\* A job whose end the order does not need leaves it to the others.
LEMMA ServedByOthers ==
  ASSUME IInv, NEW w \in Workers, NEW job \in Job \cup {Idle}, Goes(w, job),
         worker[w] = Idle \/ worker[w].pc = "apply",
         Unserved' => Unserved, dead' = dead
  PROVE  Served'
<1>1. \A v \in Workers : v # w => worker'[v] = worker[v]
  BY GoesOn DEF IInv
<1>2. QED
  BY <1>1 DEF IInv, Served

-----------------------------------------------------------------------------
(* The marketplace, and steps of jobs that write no row.                   *)

\* Initially there is nothing.
LEMMA InitIInv == Init => IInv
<1> SUFFICES ASSUME Init PROVE IInv
  OBVIOUS
<1>1. TypeOK
  <2>1. ext \in ExtOrder
    BY DEF Init, ExtOrder, OrderWord, PaymentWord
  <2>2. parcel \in Parcel
    BY DEF Init, Parcel, ShippingWord
  <2>3. order \in OrderRow \cup {NoOrder} /\ shipment \in ShipmentRow \cup {NoShipment}
        /\ (shipment = NoShipment) = ~Exists
    BY DEF Init, Exists
  <2>4. resv \in [Items -> ReservationStatuses]
    BY DEF Init, ReservationStatuses
  <2>5. worker \in [Workers -> Job \cup {Idle}]
    BY DEF Init
  <2>6. news \subseteq {"order", "shipment"} /\ dead \in BOOLEAN /\ extra \in 0..MaxExtra
    <3>1. news \subseteq {"order", "shipment"}
      BY DEF Init
    <3>2. dead \in BOOLEAN
      BY DEF Init
    <3>3. extra \in 0..MaxExtra
      BY DEF Init
    <3>4. QED
      BY <3>1, <3>2, <3>3
  <2>7. QED
    BY <2>1, <2>2, <2>3, <2>4, <2>5, <2>6, Zenon DEF TypeOK
<1>2. Carries
  BY DEF Init, Carries, CarriesOf, Idle
<1>3. QED
  BY <1>1, <1>2 DEF Init, IInv, NothingBefore, KnownCanceled, ReadyIsBilled,
       ReadyIsReserved, ReservedIsBilled, Served, Unserved, Exists

\* What is said of the rows alone stays true while they stay.
LEMMA SameRows ==
  ASSUME IInv, UNCHANGED rows
  PROVE  /\ Exists' <=> Exists
         /\ Unserved' <=> Unserved
         /\ NothingBefore' /\ KnownCanceled' /\ ReadyIsBilled'
         /\ ReadyIsReserved' /\ ReservedIsBilled'
<1> USE DEF rows, Exists, Holding, New
<1>1. (Exists' <=> Exists) /\ (Unserved' <=> Unserved)
  BY DEF Unserved
<1>2. NothingBefore' /\ KnownCanceled' /\ ReadyIsBilled'
  BY DEF IInv, NothingBefore, KnownCanceled, ReadyIsBilled
<1>3. ReadyIsReserved' /\ ReservedIsBilled'
  BY DEF IInv, ReadyIsReserved, ReservedIsBilled
<1>4. QED
  BY <1>1, <1>2, <1>3

\* Changes of the order and of its parcel at the marketplace.
LEMMA MarketSteps ==
  ASSUME IInv,
         \/ \E s \in DOMAIN OrderWord, p \in DOMAIN PaymentWord : OrderChanges(s, p)
         \/ \E s \in DOMAIN ShippingWord : ParcelChanges(s)
  PROVE  IInv'
<1>1. UNCHANGED <<rows, worker, dead, extra>>
  BY DEF OrderChanges, ParcelChanges
<1>2. /\ ext' \in ExtOrder
      /\ parcel' \in Parcel
      /\ news' \subseteq {"order", "shipment"}
  <2>1. ext \in ExtOrder /\ parcel \in Parcel /\ news \subseteq {"order", "shipment"}
    BY DEF IInv, TypeOK
  <2>2. CASE \E s \in DOMAIN OrderWord, p \in DOMAIN PaymentWord : OrderChanges(s, p)
    BY <2>1, <2>2 DEF OrderChanges, ExtOrder
  <2>3. CASE \E s \in DOMAIN ShippingWord : ParcelChanges(s)
    BY <2>1, <2>3 DEF ParcelChanges, Parcel
  <2>4. QED
    BY <2>2, <2>3
<1>3. /\ (Exists' <=> Exists) /\ (Unserved' <=> Unserved)
      /\ NothingBefore' /\ KnownCanceled' /\ ReadyIsBilled'
      /\ ReadyIsReserved' /\ ReservedIsBilled'
  BY <1>1, SameRows
<1>4. TypeOK'
  BY <1>1, <1>2, <1>3 DEF IInv, TypeOK, rows
<1>5. Carries' /\ Served'
  BY <1>1, <1>3 DEF IInv, Carries, CarriesOf, Served
<1>6. QED
  BY <1>3, <1>4, <1>5 DEF IInv

\* A job that starts, reads or goes on without a row of the order.
LEMMA JobOnly ==
  ASSUME IInv, NEW w \in Workers, NEW job \in Job \cup {Idle}, Goes(w, job),
         UNCHANGED <<ext, parcel, rows>>,
         news' \subseteq {"order", "shipment"}, extra' \in 0..MaxExtra,
         dead' \in BOOLEAN, CarriesOf(job, Exists),
         \/ dead'
         \/ job \in Job /\ job.pc # "apply"
         \/ (worker[w] = Idle \/ worker[w].pc = "apply") /\ dead' = dead
  PROVE  IInv'
<1>1. /\ (Exists' <=> Exists) /\ (Unserved' <=> Unserved)
      /\ NothingBefore' /\ KnownCanceled' /\ ReadyIsBilled'
      /\ ReadyIsReserved' /\ ReservedIsBilled'
  BY SameRows
<1>2. worker' \in [Workers -> Job \cup {Idle}]
  BY GoesOn DEF IInv
<1>3. TypeOK'
  BY <1>1, <1>2 DEF IInv, TypeOK, rows
<1>4. Carries'
  <2>1. CarriesOf(job, Exists')
    BY <1>1 DEF CarriesOf
  <2>2. QED
    BY <1>1, <2>1, GoesCarrying
<1>5. Served'
  <2>1. CASE dead'
    BY <2>1 DEF Served
  <2>2. CASE job \in Job /\ job.pc # "apply"
    BY <2>2, ServedByThis
  <2>3. CASE (worker[w] = Idle \/ worker[w].pc = "apply") /\ dead' = dead
    BY <1>1, <2>3, ServedByOthers
  <2>4. QED
    BY <2>1, <2>2, <2>3
<1>6. QED
  BY <1>1, <1>3, <1>4, <1>5 DEF IInv

\* Jobs that start.
LEMMA Starts ==
  ASSUME IInv, NEW w \in Workers,
         Notified(w) \/ \E manual \in BOOLEAN : Requested(w, manual)
  PROVE  IInv'
<1>1. PICK forParcel \in BOOLEAN, manual \in BOOLEAN :
        /\ Start(w, forParcel, manual)
        /\ Requested(w, manual) => ~forParcel
  BY DEF Notified, Requested
<1> DEFINE job == [pc |-> FirstStep(forParcel), forParcel |-> forParcel,
                   manual |-> manual, tries |-> 1, doc |-> None, seen |-> None]
<1>2. job \in Job /\ job.pc \in {"parcel", "fetch"}
      /\ (job.pc = "fetch" => ~job.forParcel)
  <2>1. FirstStep(forParcel) \in {"parcel", "fetch"}
        /\ (FirstStep(forParcel) = "fetch" => ~forParcel)
    BY DEF FirstStep
  <2>2. 1 \in 1..Attempts
    OBVIOUS
  <2>3. QED
    BY <2>1, <2>2 DEF Job
<1>3. Goes(w, job)
  BY <1>1 DEF Start
<1> HIDE DEF job
<1>4. UNCHANGED <<ext, parcel, rows>> /\ dead' = dead
      /\ news' \subseteq {"order", "shipment"} /\ extra' \in 0..MaxExtra
  <2>1. news \subseteq {"order", "shipment"} /\ extra \in 0..MaxExtra
    BY DEF IInv, TypeOK
  <2>2. CASE Notified(w)
    BY <2>1, <2>2 DEF Notified
  <2>3. CASE \E m \in BOOLEAN : Requested(w, m)
    BY <2>1, <2>3 DEF Requested
  <2>4. QED
    BY <2>2, <2>3
<1>5. CarriesOf(job, Exists)
  BY <1>2 DEF CarriesOf
<1>6. dead' \in BOOLEAN
  BY <1>4 DEF IInv, TypeOK
<1>7. QED
  BY <1>2, <1>3, <1>4, <1>5, <1>6, JobOnly

\* The reads of the marketplace.
LEMMA Reads ==
  ASSUME IInv, NEW w \in Workers, ReadParcel(w) \/ Fetch(w)
  PROVE  IInv'
<1>1. worker[w] \in Job
  BY Busy DEF IInv, ReadParcel, Fetch
<1>2. /\ ext \in ExtOrder /\ parcel \in Parcel /\ CarriesOf(worker[w], Exists)
      /\ UNCHANGED <<ext, parcel, rows>> /\ dead' \in BOOLEAN
      /\ news' \subseteq {"order", "shipment"} /\ extra' \in 0..MaxExtra
  BY DEF IInv, TypeOK, Carries, ReadParcel, Fetch
<1>3. CASE ReadParcel(w)
  <2> DEFINE job == [worker[w] EXCEPT !.pc = "fetch", !.seen = parcel]
  <2>1. job \in Job /\ job.pc = "fetch" /\ job.seen \in Parcel /\ Goes(w, job)
    <3>1. Goes(w, job)
      BY <1>3 DEF ReadParcel
    <3>2. job \in Job /\ job.pc = "fetch" /\ job.seen = parcel
      BY <1>1, <1>2, JobAfterParcel
    <3>3. QED
      BY <1>2, <3>1, <3>2
  <2> HIDE DEF job
  <2>2. CarriesOf(job, Exists)
    BY <2>1 DEF CarriesOf
  <2>3. QED
    BY <1>2, <2>1, <2>2, JobOnly
<1>4. CASE Fetch(w)
  <2> DEFINE job == [worker[w] EXCEPT !.pc = "import", !.doc = ext]
  <2>1. /\ job \in Job /\ job.pc = "import" /\ job.doc \in ExtOrder
        /\ job.forParcel = worker[w].forParcel /\ job.seen = worker[w].seen
        /\ Goes(w, job) /\ worker[w].pc = "fetch"
    <3>1. Goes(w, job) /\ worker[w].pc = "fetch"
      BY <1>4 DEF Fetch
    <3>2. /\ job \in Job /\ job.pc = "import" /\ job.doc = ext
          /\ job.forParcel = worker[w].forParcel /\ job.seen = worker[w].seen
      BY <1>1, <1>2, JobAfterFetch
    <3>3. QED
      BY <1>2, <3>1, <3>2, Zenon
  <2> HIDE DEF job
  <2>2. CarriesOf(job, Exists)
    BY <1>2, <2>1 DEF CarriesOf
  <2>3. QED
    BY <1>2, <2>1, <2>2, JobOnly
<1>5. QED
  BY <1>3, <1>4

\* A job that fails starts again or is given up.
LEMMA Fails ==
  ASSUME IInv, NEW w \in Workers, Fail(w)
  PROVE  IInv'
<1>1. worker[w] \in Job
  BY Busy DEF IInv, Fail
<1>2. /\ UNCHANGED <<ext, parcel, rows>>
      /\ news' \subseteq {"order", "shipment"} /\ extra' \in 0..MaxExtra
  BY DEF IInv, TypeOK, Fail
<1>3. CASE worker[w].tries < Attempts
  <2> DEFINE job == Again(w)
  <2>1. /\ job \in Job /\ job.pc \in {"parcel", "fetch"}
        /\ (job.pc = "fetch" => ~job.forParcel)
        /\ Goes(w, job) /\ dead' \in BOOLEAN
    BY <1>1, <1>3, JobAgain DEF IInv, TypeOK, Fail
  <2> HIDE DEF job
  <2>2. CarriesOf(job, Exists)
    BY <2>1 DEF CarriesOf
  <2>3. QED
    BY <1>2, <2>1, <2>2, JobOnly
<1>4. CASE ~(worker[w].tries < Attempts)
  <2>1. Goes(w, Idle) /\ dead' = TRUE
    BY <1>4 DEF Fail
  <2>2. CarriesOf(Idle, Exists)
    BY DEF CarriesOf, Idle
  <2>3. QED
    BY <1>2, <2>1, <2>2, JobOnly
<1>5. QED
  BY <1>3, <1>4

-----------------------------------------------------------------------------
(* Steps that write the order.                                             *)

\* The row of an order that was written.
LEMMA Row ==
  ASSUME TypeOK, Exists
  PROVE  /\ order \in OrderRow
         /\ order.at \in 1..MaxOrderAt /\ order.linked \in SUBSET Items
         /\ order.status \in OrderStatuses /\ order.payment \in PaymentStatuses
         /\ order.shipping \in ShippingStatuses
         /\ order.extStatus \in DOMAIN OrderWord
         /\ order.extPayment \in DOMAIN PaymentWord
         /\ order.billed \in BOOLEAN
         /\ shipment \in ShipmentRow
<1>1. order \in OrderRow
  BY DEF TypeOK, Exists
<1>2. shipment \in ShipmentRow
  BY DEF TypeOK
<1>3. QED
  BY <1>1, <1>2 DEF OrderRow

\* A row is not the absence of one.
LEMMA RowIsOrder == \A row \in OrderRow : row # NoOrder
BY DEF OrderRow, NoOrder

\* A shipment row is not the absence of one.
LEMMA ShipmentIsSome == \A row \in ShipmentRow : row # NoShipment
BY DEF ShipmentRow, NoShipment, ShippingStatuses

\* An import writes the statuses of its document over the progress of the
\* order; a cancellation is known from then on, and nothing is decided.
LEMMA Imported ==
  ASSUME IInv, NEW doc \in ExtOrder, NEW linked \in SUBSET Items
  PROVE  LET row == ImportedRow(doc, linked) IN
         /\ row \in OrderRow
         /\ row.at = doc.at
         /\ row.status # "ERROR"
         /\ row.extStatus = "cancelled" => row.status = "CANCELED"
         /\ row.processing = "IMPORTING"
         /\ row.shipping \in ShippingStatuses
         /\ Exists /\ order.billed => row.billed
         /\ Exists /\ order.status = "CANCELED" => row.status = "CANCELED"
         /\ Exists /\ order.status # "CANCELED" /\ row.status # "CANCELED"
              => OrderRank[row.status] >= OrderRank[order.status]
<1> DEFINE mapped == Mapped(doc.status, doc.payment, "pending")
           kept   == IF Exists THEN Preserve(order, mapped) ELSE mapped
           billed == Exists /\ order.billed
<1>1. doc.at \in 1..MaxOrderAt /\ doc.status \in DOMAIN OrderWord
      /\ doc.payment \in DOMAIN PaymentWord
  BY DEF ExtOrder
<1>2. /\ mapped.status \in OrderStatuses \ {"ERROR"}
      /\ mapped.payment \in PaymentStatuses /\ mapped.shipping \in ShippingStatuses
      /\ doc.status = "cancelled" => mapped.status = "CANCELED"
  BY <1>1, Words DEF Mapped, OrderStatuses
<1>3. /\ kept.status \in OrderStatuses \ {"ERROR"}
      /\ kept.payment \in PaymentStatuses /\ kept.shipping \in ShippingStatuses
      /\ doc.status = "cancelled" => kept.status = "CANCELED"
      /\ Exists /\ order.status = "CANCELED" => kept.status = "CANCELED"
      /\ Exists /\ order.status # "CANCELED" /\ kept.status # "CANCELED"
           => OrderRank[kept.status] >= OrderRank[order.status]
  <2>1. CASE ~Exists
    <3>1. kept = mapped
      BY <2>1
    <3>2. QED
      BY <1>2, <2>1, <3>1
  <2>2. CASE Exists
    <3>1. kept = Preserve(order, mapped)
      BY <2>2
    <3>2. /\ order.status \in OrderStatuses \ {"ERROR"}
          /\ order.shipping \in ShippingStatuses /\ order.payment \in PaymentStatuses
      BY <2>2, Row DEF IInv, KnownCanceled
    <3>3. "pending" \in DOMAIN ShippingWord
      BY Words
    <3>4. LET k == Preserve(order, Mapped(doc.status, doc.payment, "pending")) IN
          /\ k.status \in OrderStatuses \ {"ERROR"}
          /\ k.payment \in PaymentStatuses /\ k.shipping \in ShippingStatuses
          /\ order.status = "CANCELED" => k.status = "CANCELED"
          /\ doc.status = "cancelled" => k.status = "CANCELED"
          /\ order.status # "CANCELED" /\ k.status # "CANCELED"
               => OrderRank[k.status] >= OrderRank[order.status]
      BY <1>1, <3>2, <3>3, PreserveProgress
    <3>5. QED
      BY <3>1, <3>4
  <2>3. QED
    BY <2>1, <2>2
<1>4. billed \in BOOLEAN /\ (Exists /\ order.billed => billed)
  OBVIOUS
<1>5. ImportedRow(doc, linked) =
        [at |-> doc.at, status |-> kept.status, processing |-> "IMPORTING",
         payment |-> kept.payment, shipping |-> kept.shipping,
         extStatus |-> doc.status, extPayment |-> doc.payment, linked |-> linked,
         billed |-> billed]
  BY DEF ImportedRow
<1> HIDE DEF mapped, kept, billed
<1>6. QED
  BY <1>1, <1>3, <1>4, <1>5 DEF OrderRow, ProcessingStatuses

\* An import, whether it writes or skips what is old.
LEMMA Imports ==
  ASSUME IInv, NEW w \in Workers, Import(w)
  PROVE  IInv'
<1> DEFINE job == ToProcess(w)
<1>1. worker[w] \in Job /\ CarriesOf(worker[w], Exists) /\ worker[w].doc \in ExtOrder
      /\ worker[w].pc = "import"
  BY Busy DEF IInv, Carries, CarriesOf, Import
<1>2. /\ job \in Job /\ job.pc = "process"
      /\ job.forParcel = worker[w].forParcel /\ job.seen = worker[w].seen
  BY <1>1, JobAfterImport
<1>3. Goes(w, job) /\ UNCHANGED <<ext, parcel, news, resv, dead, extra>>
  BY DEF Import, AfterImport
<1> HIDE DEF job
<1>4. \A written : written => CarriesOf(job, written)
  BY <1>1, <1>2 DEF CarriesOf
<1>5. CASE Skips(w)
  <2>1. Exists /\ UNCHANGED <<ext, parcel, rows>>
    BY <1>3, <1>5 DEF Import, Skips, rows
  <2>2. /\ news' \subseteq {"order", "shipment"} /\ extra' \in 0..MaxExtra
        /\ dead' \in BOOLEAN
    BY <1>3 DEF IInv, TypeOK
  <2>3. QED
    BY <1>2, <1>3, <1>4, <2>1, <2>2, JobOnly
<1>6. CASE ~Skips(w)
  <2>1. PICK linked \in SUBSET Items :
          LET row == ImportedRow(worker[w].doc, linked) IN
          order' = row /\ shipment' = ReplacedShipment(row)
    BY <1>6 DEF Import, Resolutions
  <2>2. /\ order' \in OrderRow
        /\ order'.status # "ERROR"
        /\ order'.extStatus = "cancelled" => order'.status = "CANCELED"
        /\ order'.processing = "IMPORTING"
        /\ order'.shipping \in ShippingStatuses
        /\ Exists /\ order.billed => order'.billed
    BY <1>1, <2>1, Imported
  <2>3. shipment' \in ShipmentRow
    BY <2>1, <2>2 DEF ReplacedShipment, ShipmentRow
  <2>4. Exists'
    BY <2>2, RowIsOrder DEF Exists
  <2>5. TypeOK'
    <3>1. (shipment' = NoShipment) = ~Exists'
      BY <2>3, <2>4, ShipmentIsSome
    <3>2. worker' \in [Workers -> Job \cup {Idle}]
      BY <1>2, <1>3, GoesOn DEF IInv
    <3>3. QED
      BY <1>3, <2>2, <2>3, <3>1, <3>2 DEF IInv, TypeOK
  <2>6. Carries'
    BY <1>2, <1>3, <1>4, <2>4, GoesCarrying
  <2>7. Served'
    BY <1>2, <1>3, ServedByThis
  <2>8. NothingBefore' /\ KnownCanceled' /\ ReadyIsBilled' /\ ReadyIsReserved'
    BY <2>2, <2>4 DEF NothingBefore, KnownCanceled, ReadyIsBilled, ReadyIsReserved
  <2>9. ReservedIsBilled'
    BY <1>3, <2>2 DEF IInv, NothingBefore, ReservedIsBilled
  <2>10. QED
    BY <2>5, <2>6, <2>7, <2>8, <2>9 DEF IInv
<1>7. QED
  BY <1>5, <1>6

\* Releasing leaves nothing held and no line newer.
LEMMA Releases ==
  ASSUME TypeOK, Release
  PROVE  /\ resv' \in [Items -> ReservationStatuses]
         /\ Holding' = {}
         /\ New' = New
         /\ \A i \in Items : resv'[i] # "NONE" <=> resv[i] # "NONE"
<1>1. resv \in [Items -> ReservationStatuses]
  BY DEF TypeOK
<1>2. resv' \in [Items -> ReservationStatuses]
  BY <1>1 DEF Release, Holding, ReservationStatuses
<1>3. \A i \in Items : resv'[i] \notin {"ACTIVE", "COMPLETED"}
                         /\ (resv'[i] # "NONE" <=> resv[i] # "NONE")
  BY <1>1 DEF Release, Holding
<1>4. QED
  BY <1>2, <1>3 DEF Holding, New

\* Reserving leaves no line new.
LEMMA Reserves ==
  ASSUME TypeOK, Reserve
  PROVE  resv' \in [Items -> ReservationStatuses] /\ New' = {}
BY DEF TypeOK, Reserve, New, ReservationStatuses

\* Billing marks the row and moves a paid order on.
LEMMA Billed ==
  ASSUME NEW o \in OrderRow
  PROVE  LET row == BillOrder(o) IN
         /\ row \in OrderRow
         /\ row.at = o.at /\ row.processing = "READY_FOR_BILLING" /\ row.billed
         /\ row.extStatus = o.extStatus
         /\ row.status = IF o.status = "PAID" THEN "AWAITING_INVOICE" ELSE o.status
<1> DEFINE s == IF o.status = "PAID" THEN "AWAITING_INVOICE" ELSE o.status
<1>1. BillOrder(o) = [o EXCEPT !.processing = "READY_FOR_BILLING", !.status = s,
                               !.billed = TRUE]
  BY DEF BillOrder
<1>2. s \in OrderStatuses
  BY DEF OrderRow, OrderStatuses
<1> HIDE DEF s
<1>3. LET row == BillOrder(o) IN
      /\ row \in OrderRow
      /\ row.at = o.at /\ row.processing = "READY_FOR_BILLING" /\ row.billed = TRUE
      /\ row.extStatus = o.extStatus /\ row.status = s
  BY <1>1, <1>2 DEF OrderRow, ProcessingStatuses
<1>4. QED
  BY <1>3 DEF s

\* Waiting changes the state of processing alone.
LEMMA Waits ==
  ASSUME NEW o \in OrderRow, NEW p \in ProcessingStatuses
  PROVE  LET row == [o EXCEPT !.processing = p] IN
         /\ row \in OrderRow
         /\ row.at = o.at /\ row.status = o.status /\ row.processing = p
         /\ row.payment = o.payment /\ row.linked = o.linked
         /\ row.extStatus = o.extStatus /\ row.billed = o.billed
BY DEF OrderRow

\* Processing, in each of its five ways.
ProcessesRow ==
  ReleaseCanceled \/ LacksLink \/ NotPaid \/ LacksStock \/ HasStock

\* It decides the order, releases what is canceled and bills what it reserves.
LEMMA Processed ==
  ASSUME IInv, Exists, ProcessesRow
  PROVE  /\ order' \in OrderRow /\ resv' \in [Items -> ReservationStatuses]
         /\ order'.at = order.at
         /\ order'.extStatus = order.extStatus
         /\ order'.status \in {order.status, "AWAITING_INVOICE"}
         /\ order'.status = "AWAITING_INVOICE"
              => order.status \in {"PAID", "AWAITING_INVOICE"}
         /\ order'.processing = "READY_FOR_BILLING" => order'.billed /\ New' = {}
         /\ (\E i \in Items : resv'[i] # "NONE") => order'.billed
         /\ ~(order'.status = "CANCELED" /\ Holding' # {})
         /\ order'.status # "CANCELED" /\ order'.payment = "PAID"
              /\ order'.linked = Items
              => order'.processing \in {"READY_FOR_BILLING", "PENDING_STOCK"}
<1>1. order \in OrderRow /\ TypeOK /\ order.billed \in BOOLEAN
      /\ resv \in [Items -> ReservationStatuses]
  BY Row DEF IInv, TypeOK
<1>2. /\ order.processing = "READY_FOR_BILLING" => order.billed /\ New = {}
      /\ (\E i \in Items : resv[i] # "NONE") => order.billed
  BY DEF IInv, ReadyIsBilled, ReadyIsReserved, ReservedIsBilled
<1>3. CASE ReleaseCanceled
  <2>1. order' = order /\ order.status = "CANCELED" /\ Release
    BY <1>3 DEF ReleaseCanceled
  <2>2. QED
    BY <1>1, <1>2, <2>1, Releases
<1>4. CASE LacksLink
  <2>1. /\ order' = [order EXCEPT !.processing = "PENDING_PRODUCT_LINK"]
        /\ resv' = resv /\ order.status # "CANCELED" /\ order.linked # Items
    BY <1>4 DEF LacksLink
  <2>2. "PENDING_PRODUCT_LINK" \in ProcessingStatuses
    BY DEF ProcessingStatuses
  <2>3. /\ order' \in OrderRow
        /\ order'.at = order.at /\ order'.status = order.status
        /\ order'.processing = "PENDING_PRODUCT_LINK"
        /\ order'.linked = order.linked
        /\ order'.extStatus = order.extStatus /\ order'.billed = order.billed
    BY <1>1, <2>1, <2>2, Waits
  <2>4. QED
    BY <1>1, <1>2, <2>1, <2>3
<1>5. CASE NotPaid
  BY <1>1, <1>2, <1>5 DEF NotPaid, New
<1>6. CASE LacksStock
  <2>1. /\ order' = [order EXCEPT !.processing = "PENDING_STOCK"]
        /\ resv' = resv /\ order.status # "CANCELED"
    BY <1>6 DEF LacksStock, Eligible
  <2>2. "PENDING_STOCK" \in ProcessingStatuses
    BY DEF ProcessingStatuses
  <2>3. /\ order' \in OrderRow
        /\ order'.at = order.at /\ order'.status = order.status
        /\ order'.processing = "PENDING_STOCK"
        /\ order'.extStatus = order.extStatus /\ order'.billed = order.billed
    BY <1>1, <2>1, <2>2, Waits
  <2>4. QED
    BY <1>1, <1>2, <2>1, <2>3
<1>7. CASE HasStock
  <2>1. resv' \in [Items -> ReservationStatuses] /\ New' = {}
    BY <1>1, <1>7, Reserves DEF HasStock
  <2>2. order.status # "CANCELED"
    BY <1>7 DEF HasStock, Eligible
  <2>3. CASE order.processing = "READY_FOR_BILLING"
    <3>1. order' = order
      BY <1>7, <2>3 DEF HasStock
    <3>2. QED
      BY <1>1, <1>2, <2>1, <2>2, <2>3, <3>1
  <2>4. CASE order.processing # "READY_FOR_BILLING"
    <3>1. order' = BillOrder(order)
      BY <1>7, <2>4 DEF HasStock
    <3>2. /\ order' \in OrderRow
          /\ order'.at = order.at /\ order'.processing = "READY_FOR_BILLING"
          /\ order'.billed /\ order'.extStatus = order.extStatus
          /\ order'.status = IF order.status = "PAID" THEN "AWAITING_INVOICE"
                                                       ELSE order.status
      BY <1>1, <3>1, Billed
    <3>3. QED
      BY <2>1, <2>2, <3>2
  <2>5. QED
    BY <2>3, <2>4
<1>8. QED
  BY <1>3, <1>4, <1>5, <1>6, <1>7 DEF ProcessesRow

\* The step of a job that processes.
LEMMA Processes ==
  ASSUME IInv, NEW w \in Workers, Process(w)
  PROVE  IInv'
<1>1. worker[w] \in Job /\ CarriesOf(worker[w], Exists) /\ Exists
      /\ worker[w].pc = "process"
  BY Busy DEF IInv, Carries, CarriesOf, Process
<1>2. PICK job \in Job \cup {Idle} : Goes(w, job) /\ \A written :
        written => CarriesOf(job, written)
  <2>1. CASE worker[w].forParcel
    <3> DEFINE job == [worker[w] EXCEPT !.pc = "apply"]
    <3>1. Goes(w, job)
      BY <2>1 DEF Process
    <3>2. /\ job \in Job /\ job.pc = "apply"
          /\ job.forParcel = worker[w].forParcel /\ job.seen = worker[w].seen
      BY <1>1, JobAfterProcess
    <3> HIDE DEF job
    <3>3. \A written : written => CarriesOf(job, written)
      BY <1>1, <2>1, <3>2 DEF CarriesOf
    <3>4. QED
      BY <3>1, <3>2, <3>3
  <2>2. CASE ~worker[w].forParcel
    <3>1. Goes(w, Idle)
      BY <2>2 DEF Process
    <3>2. \A written : written => CarriesOf(Idle, written)
      BY DEF CarriesOf, Idle
    <3>3. QED
      BY <3>1, <3>2
  <2>3. QED
    BY <2>1, <2>2
<1>3. ProcessesRow /\ UNCHANGED <<ext, parcel, news, shipment, dead, extra>>
  BY DEF Process, ProcessesRow
<1>4. /\ order' \in OrderRow /\ resv' \in [Items -> ReservationStatuses]
      /\ order'.extStatus = order.extStatus
      /\ order'.status \in {order.status, "AWAITING_INVOICE"}
      /\ order'.status = "AWAITING_INVOICE"
           => order.status \in {"PAID", "AWAITING_INVOICE"}
      /\ order'.processing = "READY_FOR_BILLING" => order'.billed /\ New' = {}
      /\ (\E i \in Items : resv'[i] # "NONE") => order'.billed
      /\ ~(order'.status = "CANCELED" /\ Holding' # {})
      /\ order'.status # "CANCELED" /\ order'.payment = "PAID"
           /\ order'.linked = Items
           => order'.processing \in {"READY_FOR_BILLING", "PENDING_STOCK"}
  BY <1>1, <1>3, Processed
<1>5. Exists'
  BY <1>4, RowIsOrder DEF Exists
<1>6. TypeOK'
  <2>1. worker' \in [Workers -> Job \cup {Idle}]
    BY <1>2, GoesOn DEF IInv
  <2>2. (shipment' = NoShipment) = ~Exists'
    BY <1>1, <1>3, <1>5 DEF IInv, TypeOK
  <2>3. QED
    BY <1>3, <1>4, <2>1, <2>2 DEF IInv, TypeOK
<1>7. Carries'
  <2>1. CarriesOf(job, Exists')
    BY <1>2, <1>5
  <2>2. QED
    BY <1>2, <1>5, <2>1, GoesCarrying
<1>8. KnownCanceled'
  BY <1>1, <1>4 DEF IInv, KnownCanceled
<1>9. NothingBefore' /\ ReadyIsBilled' /\ ReadyIsReserved' /\ ReservedIsBilled'
  BY <1>4, <1>5
     DEF NothingBefore, ReadyIsBilled, ReadyIsReserved, ReservedIsBilled
<1>10. Served'
  BY <1>4 DEF Served, Unserved
<1>11. QED
  BY <1>6, <1>7, <1>8, <1>9, <1>10 DEF IInv

\* What a parcel makes of the row of its order.
LEMMA Applied ==
  ASSUME IInv, Exists, NEW seen \in Parcel
  PROVE  LET moved == Preserve(order, Mapped(order.extStatus, order.extPayment,
                                             seen.status))
             row   == [order EXCEPT !.status = moved.status,
                                    !.shipping = ShippingWord[seen.status]]
         IN
         /\ row \in OrderRow
         /\ row.at = order.at /\ row.extStatus = order.extStatus
         /\ row.processing = order.processing /\ row.payment = order.payment
         /\ row.linked = order.linked /\ row.billed = order.billed
         /\ row.status # "ERROR"
         /\ row.status = "CANCELED" <=> order.status = "CANCELED"
         /\ order.status # "CANCELED"
              => OrderRank[row.status] >= OrderRank[order.status]
<1> DEFINE moved == Preserve(order, Mapped(order.extStatus, order.extPayment,
                                           seen.status))
           sh    == ShippingWord[seen.status]
<1>1. /\ order \in OrderRow /\ order.status \in OrderStatuses \ {"ERROR"}
      /\ order.shipping \in ShippingStatuses /\ order.payment \in PaymentStatuses
      /\ order.extStatus \in DOMAIN OrderWord
      /\ order.extPayment \in DOMAIN PaymentWord
      /\ order.extStatus = "cancelled" => order.status = "CANCELED"
  BY Row DEF IInv, KnownCanceled
<1>2. seen.status \in DOMAIN ShippingWord /\ sh \in ShippingStatuses
  BY Words DEF Parcel
<1>3. /\ moved.status \in OrderStatuses \ {"ERROR"}
      /\ order.status = "CANCELED" => moved.status = "CANCELED"
      /\ order.extStatus # "cancelled" /\ order.status # "CANCELED"
           => moved.status # "CANCELED"
      /\ order.status # "CANCELED" /\ moved.status # "CANCELED"
           => OrderRank[moved.status] >= OrderRank[order.status]
  BY <1>1, <1>2, PreserveProgress
<1> HIDE DEF moved, sh
<1>4. LET row == [order EXCEPT !.status = moved.status, !.shipping = sh] IN
      /\ row \in OrderRow
      /\ row.at = order.at /\ row.extStatus = order.extStatus
      /\ row.processing = order.processing /\ row.payment = order.payment
      /\ row.linked = order.linked /\ row.billed = order.billed
      /\ row.status = moved.status
  BY <1>1, <1>2, <1>3 DEF OrderRow
<1>5. QED
  BY <1>1, <1>3, <1>4 DEF moved, sh

\* The step of a job that applies its parcel.
LEMMA Applies ==
  ASSUME IInv, NEW w \in Workers, ApplyParcel(w)
  PROVE  IInv'
<1>1. /\ worker[w] \in Job /\ Exists /\ worker[w].pc = "apply"
      /\ worker[w].seen \in Parcel
  BY Busy DEF IInv, Carries, CarriesOf, ApplyParcel
<1>2. Goes(w, Idle) /\ UNCHANGED <<ext, parcel, news, resv, dead, extra>>
  BY DEF ApplyParcel
<1>3. \A written : CarriesOf(Idle, written)
  BY DEF CarriesOf, Idle
<1>4. CASE OldParcel(worker[w].seen)
  <2>1. UNCHANGED <<ext, parcel, rows>>
    BY <1>2, <1>4 DEF ApplyParcel, rows
  <2>2. /\ news' \subseteq {"order", "shipment"} /\ extra' \in 0..MaxExtra
        /\ dead' \in BOOLEAN /\ dead' = dead
    BY <1>2 DEF IInv, TypeOK
  <2>3. QED
    BY <1>1, <1>2, <1>3, <2>1, <2>2, JobOnly
<1>5. CASE ~OldParcel(worker[w].seen)
  <2> DEFINE seen  == worker[w].seen
             moved == Preserve(order, Mapped(order.extStatus, order.extPayment,
                                             seen.status))
  <2>1. /\ order' = [order EXCEPT !.status = moved.status,
                                  !.shipping = ShippingWord[seen.status]]
        /\ shipment' = [at |-> seen.at, status |-> ShippingWord[seen.status]]
    BY <1>5 DEF ApplyParcel
  <2>2. /\ order' \in OrderRow
        /\ order'.extStatus = order.extStatus
        /\ order'.processing = order.processing /\ order'.payment = order.payment
        /\ order'.linked = order.linked /\ order'.billed = order.billed
        /\ order'.status # "ERROR"
        /\ order'.status = "CANCELED" <=> order.status = "CANCELED"
    BY <1>1, <2>1, Applied
  <2>3. shipment' \in ShipmentRow
    BY <1>1, <2>1, Words DEF Parcel, ShipmentRow
  <2> HIDE DEF seen, moved
  <2>4. Exists'
    BY <2>2, RowIsOrder DEF Exists
  <2>5. Holding' = Holding /\ New' = New
    BY <1>2 DEF Holding, New
  <2>6. TypeOK'
    <3>1. worker' \in [Workers -> Job \cup {Idle}]
      BY <1>2, GoesOn DEF IInv
    <3>2. (shipment' = NoShipment) = ~Exists'
      BY <2>3, <2>4, ShipmentIsSome
    <3>3. QED
      BY <1>2, <2>2, <2>3, <3>1, <3>2 DEF IInv, TypeOK
  <2>7. Carries'
    BY <1>2, <1>3, <2>4, GoesCarrying
  <2>8. Served'
    <3>1. Unserved' => Unserved
      BY <1>1, <2>2, <2>5 DEF Unserved
    <3>2. QED
      BY <1>1, <1>2, <3>1, ServedByOthers
  <2>9. KnownCanceled'
    BY <1>1, <2>2 DEF IInv, KnownCanceled
  <2>10. NothingBefore' /\ ReadyIsBilled' /\ ReadyIsReserved' /\ ReservedIsBilled'
    BY <1>1, <1>2, <2>2, <2>4, <2>5
       DEF IInv, NothingBefore, ReadyIsBilled, ReadyIsReserved, ReservedIsBilled
  <2>11. QED
    BY <2>6, <2>7, <2>8, <2>9, <2>10 DEF IInv
<1>6. QED
  BY <1>4, <1>5

\* A user who ends reservations without the row of the order.
LEMMA EndsReservations ==
  ASSUME IInv, Exists, UNCHANGED <<ext, parcel, news, order, shipment, worker,
                                   dead, extra>>,
         resv' \in [Items -> ReservationStatuses],
         \A i \in Items : /\ resv'[i] = "NONE" <=> resv[i] = "NONE"
                          /\ resv'[i] \in {"ACTIVE", "COMPLETED"}
                               => resv[i] \in {"ACTIVE", "COMPLETED"}
  PROVE  IInv'
<1>1. New' = New /\ Holding' \subseteq Holding /\ Exists'
  BY DEF New, Holding, Exists
<1>2. TypeOK'
  BY <1>1 DEF IInv, TypeOK
<1>3. Carries' /\ KnownCanceled' /\ ReadyIsBilled' /\ NothingBefore'
  BY <1>1 DEF IInv, Carries, CarriesOf, KnownCanceled, ReadyIsBilled, NothingBefore
<1>4. ReadyIsReserved' /\ ReservedIsBilled'
  BY <1>1 DEF IInv, ReadyIsReserved, ReservedIsBilled
<1>5. Served'
  <2>1. Unserved' => Unserved
    BY <1>1 DEF Unserved
  <2>2. QED
    BY <2>1 DEF IInv, Served
<1>6. QED
  BY <1>2, <1>3, <1>4, <1>5 DEF IInv

\* The order's screen and the stock screen complete or cancel reservations.
LEMMA Completes ==
  ASSUME IInv,
         \/ UserCompletes
         \/ \E i \in Items, s \in {"COMPLETED", "CANCELED"} : UserEndsReservation(i, s)
  PROVE  IInv'
<1>1. resv \in [Items -> ReservationStatuses]
  BY DEF IInv, TypeOK
<1>2. CASE UserCompletes
  <2>1. Exists /\ UNCHANGED <<ext, parcel, news, order, shipment, worker, dead, extra>>
    BY <1>2 DEF UserCompletes
  <2>2. /\ resv' \in [Items -> ReservationStatuses]
        /\ \A i \in Items : /\ resv'[i] = "NONE" <=> resv[i] = "NONE"
                            /\ resv'[i] \in {"ACTIVE", "COMPLETED"}
                                 => resv[i] \in {"ACTIVE", "COMPLETED"}
    BY <1>1, <1>2 DEF UserCompletes, ReservationStatuses
  <2>3. QED
    BY <2>1, <2>2, EndsReservations
<1>3. ASSUME NEW i \in Items, NEW s \in {"COMPLETED", "CANCELED"},
             UserEndsReservation(i, s)
      PROVE  IInv'
  <2>1. Exists /\ UNCHANGED <<ext, parcel, news, order, shipment, worker, dead, extra>>
    BY <1>3 DEF IInv, NothingBefore, UserEndsReservation
  <2>2. /\ resv' \in [Items -> ReservationStatuses]
        /\ \A k \in Items : /\ resv'[k] = "NONE" <=> resv[k] = "NONE"
                            /\ resv'[k] \in {"ACTIVE", "COMPLETED"}
                                 => resv[k] \in {"ACTIVE", "COMPLETED"}
    BY <1>1, <1>3 DEF UserEndsReservation, ReservationStatuses
  <2>3. QED
    BY <2>1, <2>2, EndsReservations
<1>4. QED
  BY <1>2, <1>3

\* A user cancels the order.
LEMMA Cancels ==
  ASSUME IInv, UserCancels
  PROVE  IInv'
<1>1. /\ Exists /\ order \in OrderRow /\ Release
      /\ order' = [order EXCEPT !.status = "CANCELED"]
      /\ UNCHANGED <<ext, parcel, news, shipment, worker, dead, extra>>
  BY Row DEF IInv, UserCancels
<1>2. /\ order' \in OrderRow /\ order'.status = "CANCELED"
      /\ order'.processing = order.processing /\ order'.billed = order.billed
  BY <1>1 DEF OrderRow, OrderStatuses
<1>3. /\ resv' \in [Items -> ReservationStatuses]
      /\ Holding' = {} /\ New' = New
      /\ \A i \in Items : resv'[i] # "NONE" <=> resv[i] # "NONE"
  BY <1>1, Releases DEF IInv
<1>4. Exists'
  BY <1>2, RowIsOrder DEF Exists
<1>5. TypeOK'
  <2>1. (shipment' = NoShipment) = ~Exists'
    BY <1>1, <1>4 DEF IInv, TypeOK
  <2>2. QED
    BY <1>1, <1>2, <1>3, <2>1 DEF IInv, TypeOK
<1>6. Carries'
  BY <1>1, <1>4 DEF IInv, Carries, CarriesOf
<1>7. NothingBefore' /\ KnownCanceled' /\ Served'
  BY <1>2, <1>3, <1>4 DEF NothingBefore, KnownCanceled, Served, Unserved
<1>8. ReadyIsBilled' /\ ReadyIsReserved' /\ ReservedIsBilled'
  BY <1>1, <1>2, <1>3 DEF IInv, ReadyIsBilled, ReadyIsReserved, ReservedIsBilled
<1>9. QED
  BY <1>5, <1>6, <1>7, <1>8 DEF IInv

-----------------------------------------------------------------------------
(* Theorems.                                                               *)

\* Every step keeps the invariant.
LEMMA StepIInv == IInv /\ [Next]_vars => IInv'
<1> SUFFICES ASSUME IInv, [Next]_vars PROVE IInv'
  OBVIOUS
<1>1. CASE \/ \E s \in DOMAIN OrderWord, p \in DOMAIN PaymentWord : OrderChanges(s, p)
           \/ \E s \in DOMAIN ShippingWord : ParcelChanges(s)
  BY <1>1, MarketSteps
<1>2. ASSUME NEW w \in Workers,
             \/ Notified(w)
             \/ \E manual \in BOOLEAN : Requested(w, manual)
             \/ Step(w)
             \/ Fail(w)
      PROVE  IInv'
  <2>1. CASE Notified(w) \/ \E manual \in BOOLEAN : Requested(w, manual)
    BY <2>1, Starts
  <2>2. CASE Step(w)
    BY <2>2, Reads, Imports, Processes, Applies DEF Step
  <2>3. CASE Fail(w)
    BY <2>3, Fails
  <2>4. QED
    BY <1>2, <2>1, <2>2, <2>3
<1>3. CASE UserCancels
  BY <1>3, Cancels
<1>4. CASE \/ UserCompletes
           \/ \E i \in Items, s \in {"COMPLETED", "CANCELED"} : UserEndsReservation(i, s)
  BY <1>4, Completes
<1>5. CASE UNCHANGED vars
  <2>1. UNCHANGED <<ext, parcel, news, rows, worker, dead, extra>>
    BY <1>5 DEF vars, rows
  <2>2. /\ (Exists' <=> Exists) /\ (Unserved' <=> Unserved)
        /\ NothingBefore' /\ KnownCanceled' /\ ReadyIsBilled'
        /\ ReadyIsReserved' /\ ReservedIsBilled'
    BY <2>1, SameRows
  <2>3. TypeOK'
    BY <2>1, <2>2 DEF IInv, TypeOK, rows
  <2>4. Carries' /\ Served'
    BY <2>1, <2>2 DEF IInv, Carries, CarriesOf, Served
  <2>5. QED
    BY <2>2, <2>3, <2>4 DEF IInv
<1>6. QED
  BY <1>1, <1>2, <1>3, <1>4, <1>5 DEF Next

\* The inductive invariant holds always.
THEOREM Invariant == Spec => []IInv
BY InitIInv, StepIInv, PTL DEF Spec

\* Every row and every job has its type, in every reachable state.
THEOREM TypeCorrect == Spec => []TypeOK
<1>1. IInv => TypeOK
  BY DEF IInv
<1>2. QED
  BY <1>1, Invariant, PTL

\* A canceled order holds stock only while a job that will process it runs, or
\* after a job was given up, whatever the number of lines, jobs and changes.
THEOREM CanceledOrdersHoldNothing == Spec => []CanceledHoldsNothing
<1>1. IInv => CanceledHoldsNothing
  BY DEF IInv, Served, Unserved, CanceledHoldsNothing
<1>2. QED
  BY <1>1, Invariant, PTL

\* An order that is ready for billing has had each of its lines reserved.
THEOREM ReadyOrdersAreReserved == Spec => []ReadyIsReserved
<1>1. IInv => ReadyIsReserved
  BY DEF IInv
<1>2. QED
  BY <1>1, Invariant, PTL

\* Stock is reserved for an order only with its hand-over to billing.
THEOREM ReservedOrdersAreBilled == Spec => []ReservedIsBilled
<1>1. IInv => ReservedIsBilled
  BY DEF IInv
<1>2. QED
  BY <1>1, Invariant, PTL

\* Stock and billing go together in both directions: BillOrder is called with
\* every line reserved, and no line is reserved without it.
THEOREM BillingIsReserved == Spec => []BillingMatchesStock
<1>1. ReadyIsReserved /\ ReservedIsBilled => BillingMatchesStock
  BY DEF BillingMatchesStock
<1>2. QED
  BY <1>1, ReadyOrdersAreReserved, ReservedOrdersAreBilled, PTL

\* A paid and linked order is decided when its jobs have ended and none was
\* given up.
THEOREM PaidOrdersAreDecided == Spec => []PaidIsDecided
<1>1. IInv => PaidIsDecided
  BY DEF IInv, Served, Unserved, PaidIsDecided
<1>2. QED
  BY <1>1, Invariant, PTL

-----------------------------------------------------------------------------
(* What a step may never do.                                               *)

\* A step that writes the order is an import that is not skipped, processing,
\* a parcel or a cancellation.
LEMMA WritesOrder ==
  ASSUME [Next]_vars
  PROVE  \/ order' = order
         \/ \E w \in Workers : \/ Import(w) /\ ~Skips(w)
                               \/ Process(w) /\ ProcessesRow
                               \/ ApplyParcel(w) /\ ~OldParcel(worker[w].seen)
         \/ UserCancels
<1>1. ASSUME NEW w \in Workers, Notified(w) \/ Fail(w) \/ ReadParcel(w) \/ Fetch(w)
                 \/ \E manual \in BOOLEAN : Requested(w, manual)
      PROVE  order' = order
  BY <1>1 DEF Notified, Fail, ReadParcel, Fetch, Requested, rows
<1>2. ASSUME NEW w \in Workers, Import(w), Skips(w)
      PROVE  order' = order
  BY <1>2 DEF Import
<1>3. ASSUME NEW w \in Workers, Process(w)
      PROVE  ProcessesRow
  BY <1>3 DEF Process, ProcessesRow
<1>4. ASSUME NEW w \in Workers, ApplyParcel(w), OldParcel(worker[w].seen)
      PROVE  order' = order
  BY <1>4 DEF ApplyParcel
<1>5. ASSUME \/ \E s \in DOMAIN OrderWord, p \in DOMAIN PaymentWord : OrderChanges(s, p)
             \/ \E s \in DOMAIN ShippingWord : ParcelChanges(s)
             \/ UserCompletes
             \/ \E i \in Items, s \in {"COMPLETED", "CANCELED"} : UserEndsReservation(i, s)
             \/ UNCHANGED vars
      PROVE  order' = order
  BY <1>5 DEF OrderChanges, ParcelChanges, UserCompletes, UserEndsReservation,
              vars, rows
<1>6. QED
  BY <1>1, <1>2, <1>3, <1>4, <1>5 DEF Next, Step

\* The status of an order never goes back: it is canceled, once and for all, or
\* its rank does not fall.
THEOREM StatusesAdvance == Spec => StatusNeverGoesBack
<1> DEFINE Advance == Exists => \/ order'.status = "CANCELED"
                                \/ /\ order.status # "CANCELED"
                                   /\ OrderRank[order'.status] >= OrderRank[order.status]
<1>1. IInv /\ [Next]_vars => [Advance]_vars
  <2> SUFFICES ASSUME IInv, [Next]_vars, Exists
               PROVE  \/ order'.status = "CANCELED"
                      \/ /\ order.status # "CANCELED"
                         /\ OrderRank[order'.status] >= OrderRank[order.status]
    OBVIOUS
  <2>1. order \in OrderRow /\ order.status \in OrderStatuses \ {"ERROR"}
    BY Row DEF IInv, KnownCanceled
  <2>2. order.status # "CANCELED"
          => order.status \in DOMAIN OrderRank /\ OrderRank[order.status] \in Nat
    BY <2>1, Ranks
  <2>3. CASE order' = order
    BY <2>2, <2>3
  <2>4. ASSUME NEW w \in Workers, Import(w), ~Skips(w)
        PROVE  order'.status = "CANCELED" \/
               (order.status # "CANCELED"
                  /\ OrderRank[order'.status] >= OrderRank[order.status])
    <3>1. worker[w].doc \in ExtOrder
      BY <2>4 DEF IInv, Carries, CarriesOf, Import
    <3>2. PICK linked \in SUBSET Items : order' = ImportedRow(worker[w].doc, linked)
      BY <2>4 DEF Import, Resolutions
    <3>3. QED
      BY <3>1, <3>2, Imported
  <2>5. ASSUME NEW w \in Workers, Process(w), ProcessesRow
        PROVE  order'.status = "CANCELED" \/
               (order.status # "CANCELED"
                  /\ OrderRank[order'.status] >= OrderRank[order.status])
    <3>1. /\ order'.status \in {order.status, "AWAITING_INVOICE"}
          /\ order'.status = "AWAITING_INVOICE"
               => order.status \in {"PAID", "AWAITING_INVOICE"}
      BY <2>5, Processed
    <3>2. OrderRank["PAID"] = 1 /\ OrderRank["AWAITING_INVOICE"] = 2
      BY DEF OrderRank
    <3>3. QED
      BY <2>2, <3>1, <3>2
  <2>6. ASSUME NEW w \in Workers, ApplyParcel(w), ~OldParcel(worker[w].seen)
        PROVE  order'.status = "CANCELED" \/
               (order.status # "CANCELED"
                  /\ OrderRank[order'.status] >= OrderRank[order.status])
    <3>1. worker[w].forParcel /\ worker[w].seen \in Parcel
      BY <2>6 DEF IInv, Carries, CarriesOf, ApplyParcel
    <3>2. order' = [order EXCEPT
            !.status = Preserve(order, Mapped(order.extStatus, order.extPayment,
                                              worker[w].seen.status)).status,
            !.shipping = ShippingWord[worker[w].seen.status]]
      BY <2>6 DEF ApplyParcel
    <3>3. QED
      BY <3>1, <3>2, Applied
  <2>7. CASE UserCancels
    BY <2>1, <2>7 DEF UserCancels, OrderRow
  <2>8. QED
    BY <2>3, <2>4, <2>5, <2>6, <2>7, WritesOrder
<1>2. QED
  BY <1>1, Invariant, PTL DEF Spec, StatusNeverGoesBack

\* An older document replaces a newer one only in a job of an operator.
THEOREM DocumentsAdvance == Spec => OnlyOperatorsGoBack
<1> DEFINE Operator == Exists /\ order'.at < order.at =>
             \E w \in Workers : worker[w].pc = "import" /\ worker[w].manual
                                /\ worker'[w] # worker[w]
<1>1. IInv /\ [Next]_vars => [Operator]_vars
  <2> SUFFICES ASSUME IInv, [Next]_vars, Exists, order'.at < order.at
               PROVE  \E w \in Workers : worker[w].pc = "import" /\ worker[w].manual
                                         /\ worker'[w] # worker[w]
    OBVIOUS
  <2>1. order \in OrderRow /\ order.at \in Nat
    BY Row DEF IInv
  <2>2. order' # order
    BY <2>1
  <2>3. ASSUME NEW w \in Workers, Process(w), ProcessesRow
        PROVE  order'.at = order.at
    BY <2>3, Processed
  <2>4. ASSUME NEW w \in Workers, ApplyParcel(w), ~OldParcel(worker[w].seen)
        PROVE  order'.at = order.at
    <3>1. order' = [order EXCEPT
            !.status = Preserve(order, Mapped(order.extStatus, order.extPayment,
                                              worker[w].seen.status)).status,
            !.shipping = ShippingWord[worker[w].seen.status]]
      BY <2>4 DEF ApplyParcel
    <3>2. QED
      BY <2>1, <3>1 DEF OrderRow
  <2>5. UserCancels => order'.at = order.at
    BY <2>1 DEF UserCancels, OrderRow
  <2>6. PICK w \in Workers : Import(w) /\ ~Skips(w)
    BY <2>1, <2>2, <2>3, <2>4, <2>5, WritesOrder
  <2>7. worker[w] \in Job /\ worker[w].doc \in ExtOrder /\ worker[w].pc = "import"
    BY <2>6, Busy DEF IInv, Carries, CarriesOf, Import
  <2>8. order'.at = worker[w].doc.at
    <3>1. PICK linked \in SUBSET Items : order' = ImportedRow(worker[w].doc, linked)
      BY <2>6 DEF Import, Resolutions
    <3>2. QED
      BY <2>7, <3>1, Imported
  <2>9. worker[w].manual
    <3>1. worker[w].doc.at \in Nat
      BY <2>7 DEF ExtOrder
    <3>2. ~worker[w].manual => order.at < worker[w].doc.at
      BY <2>1, <2>6, <3>1 DEF Skips
    <3>3. QED
      BY <2>1, <2>8, <3>1, <3>2
  <2>10. worker'[w].pc = "process"
    <3>1. ToProcess(w) \in Job /\ ToProcess(w).pc = "process"
      BY <2>7, JobAfterImport
    <3>2. Goes(w, ToProcess(w))
      BY <2>6 DEF Import, AfterImport
    <3>3. QED
      BY <3>1, <3>2, GoesOn DEF IInv
  <2>11. QED
    BY <2>7, <2>9, <2>10
<1>2. QED
  BY <1>1, Invariant, PTL DEF Spec, OnlyOperatorsGoBack
\* Neither an order nor its document goes back, whatever arrives late.
THEOREM OrdersAdvance == Spec => HistoryAdvances
BY StatusesAdvance, DocumentsAdvance DEF HistoryAdvances
=============================================================================
