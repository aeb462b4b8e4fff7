--------------------------- MODULE ProviderProofs ---------------------------
(***************************************************************************)
(* What holds of the parts of Provider, for every number of processes,     *)
(* handlers and requests, every quantity, balance and bound.               *)
(***************************************************************************)
EXTENDS Provider, FiniteSetTheorems, TLAPS

-----------------------------------------------------------------------------
(* The handler of a notification (Notices).                                *)

Handling == [pc : {"idle", "product", "item", "listing", "stock", "compare",
                   "note", "done"},
             shown : Quantities \cup {0}, expected : Quantities \cup {0},
             version : 0..MaxVersion,
             verdict : {"NONE", "CONFIRMATION", "STALE_EVENT", "EXTERNAL_CHANGE"},
             steady : BOOLEAN, foreign : BOOLEAN]

NoticeTypes ==
  /\ stock \in [version : 1..MaxVersion, available : Quantities]
  /\ shown \in Quantities /\ listed \in Quantities
  /\ sync \in [pc : {"none", "read", "put"}, version : 0..MaxVersion,
               quantity : Quantities \cup {0}]
  /\ last \in N!Sent
  /\ noted \in [sent : N!Sent, untold : BOOLEAN, foreign : BOOLEAN]
  /\ link \in {"ACTIVE", "INVALID"}
  /\ open \in [Quantities \X Quantities -> {0, 1}]
  /\ handler \in [Handlers -> Handling]
  /\ held \in Handlers \cup {None}

\* The row of a version says what that version of the balance said.
Tells(x) ==
  /\ x.version <= stock.version
  /\ x.version = stock.version => x.quantity = stock.available

\* Nobody but us set what the marketplace shows, and we recorded it.
ShownIsOurs ==
  /\ sync.pc # "none" => Tells(sync) /\ sync.quantity \in Quantities
  /\ Tells(last)
  /\ ~noted.foreign /\ sync.pc = "put" => shown = sync.quantity
  /\ ~noted.foreign /\ ~noted.untold => shown = noted.sent.quantity

\* What a handler x has read and judged, when the last success is l and the
\* open divergences are o.
ReadRight(x, l, o) ==
  /\ x.pc \notin {"idle", "product", "item"} => x.shown \in Quantities
  /\ x.pc \notin {"note", "done"} => x.verdict = "NONE"
  /\ x.pc = "note" => /\ x.verdict # "CONFIRMATION"
                      /\ ~(o[<<x.expected, x.shown>>] > 0)
  /\ x.pc \notin {"idle", "product", "item"} /\ x.steady /\ ~x.foreign
       => l.quantity = x.shown
  /\ x.pc = "compare" /\ x.steady =>
       /\ l.version <= x.version
       /\ l.version = x.version => l.quantity = x.expected

OneHandler == \A h \in Handlers : handler[h].pc # "idle" => held = h

NoticesRight ==
  /\ NoticeTypes
  /\ ShownIsOurs
  /\ OneHandler
  /\ \A h \in Handlers : ReadRight(handler[h], last, open)

LEMMA NoticesBegin == N!Init => NoticesRight
<1> SUFFICES ASSUME N!Init PROVE NoticesRight
  OBVIOUS
<1> USE DEF N!Init, N!NoSync, N!NeverSent, N!Idle
<1>1. MaxVersion \in Nat \ {0}
  BY ProviderAssumption DEF N!ConstantsFit
<1>2. last \in N!Sent /\ noted.sent \in N!Sent
  BY <1>1 DEF N!Sent
<1>3. N!Idle \in Handling
  BY <1>1 DEF Handling
<1>4. NoticeTypes
  BY <1>1, <1>2, <1>3 DEF NoticeTypes
<1>5. ShownIsOurs
  BY <1>1 DEF ShownIsOurs, Tells
<1>6. \A h \in Handlers : handler[h] = N!Idle
  OBVIOUS
<1>7. ReadRight(N!Idle, last, open)
  BY DEF ReadRight
<1>8. QED
  BY <1>4, <1>5, <1>6, <1>7 DEF NoticesRight, OneHandler

-----------------------------------------------------------------------------

\* A step of the stock, of a synchronisation, of the marketplace or of a user:
\* the handlers go on with what they have read.
LEMMA OutsideKeepsNotices ==
  ASSUME NoticesRight,
         \/ N!Change \/ N!Tamper \/ N!ReadBalance \/ N!Put \/ N!Record
         \/ N!Break \/ N!Age \/ N!Relink
         \/ \E d \in Quantities \X Quantities : N!Resolve(d)
  PROVE  NoticesRight'
<1> USE DEF N!NoSync, N!ours
<1>1. MaxVersion \in Nat \ {0}
  BY ProviderAssumption DEF N!ConstantsFit
<1>t. NoticeTypes /\ ShownIsOurs /\ OneHandler
  BY DEF NoticesRight
<1>r. \A h \in Handlers : ReadRight(handler[h], last, open)
  BY DEF NoticesRight
<1>2. ASSUME handler' = handler, last' = last, open' = open, held' = held
      PROVE  OneHandler' /\ \A h \in Handlers : ReadRight(handler[h], last, open)'
  BY <1>t, <1>r, <1>2 DEF OneHandler
<1>3. CASE N!Change
  <2>1. NoticeTypes'
    BY <1>1, <1>t, <1>3 DEF N!Change, NoticeTypes
  <2>2. stock'.version = stock.version + 1 /\ stock.version \in Nat
    BY <1>t, <1>3 DEF N!Change, NoticeTypes
  <2>3. /\ sync.version \in Nat /\ last.version \in Nat
    BY <1>1, <1>t DEF NoticeTypes, N!Sent
  <2>4. ShownIsOurs'
    BY <1>t, <1>3, <2>2, <2>3 DEF N!Change, ShownIsOurs, Tells
  <2>5. QED
    BY <1>2, <1>3, <2>1, <2>4 DEF N!Change, NoticesRight
<1>4. CASE N!Tamper
  <2>1. noted' = [noted EXCEPT !.foreign = TRUE] /\ shown' \in Quantities
    BY <1>4 DEF N!Tamper
  <2>2. NoticeTypes'
    BY <1>t, <1>4, <2>1 DEF N!Tamper, NoticeTypes
  <2>3. noted'.foreign
    BY <1>t, <2>1 DEF NoticeTypes
  <2>4. ShownIsOurs'
    BY <1>t, <1>4, <2>3 DEF N!Tamper, ShownIsOurs, Tells
  <2>5. QED
    BY <1>2, <1>4, <2>2, <2>4 DEF N!Tamper, NoticesRight
<1>5. CASE N!ReadBalance
  <2>1. sync' = [pc |-> "read", version |-> stock.version,
                 quantity |-> stock.available]
    BY <1>5 DEF N!ReadBalance
  <2>2. NoticeTypes'
    BY <1>1, <1>t, <1>5, <2>1 DEF N!ReadBalance, NoticeTypes
  <2>3. stock.version <= stock.version /\ stock.available \in Quantities
    BY <1>1, <1>t DEF NoticeTypes
  <2>4. ShownIsOurs'
    BY <1>t, <1>5, <2>1, <2>3 DEF N!ReadBalance, ShownIsOurs, Tells
  <2>5. QED
    BY <1>2, <1>5, <2>2, <2>4 DEF N!ReadBalance, NoticesRight
<1>6. ASSUME handler' = N!Overtaken, open' = open, held' = held
      PROVE  /\ OneHandler' /\ handler' \in [Handlers -> Handling]
             /\ \A h \in Handlers : ReadRight(handler[h], last, open)'
  <2>1. handler \in [Handlers -> Handling]
    BY <1>t DEF NoticeTypes
  <2>2. ASSUME NEW h \in Handlers
        PROVE  /\ handler'[h] \in Handling /\ handler'[h].pc = handler[h].pc
               /\ ReadRight(handler'[h], last', open)
    <3> DEFINE y == [handler[h] EXCEPT !.steady = FALSE]
    <3>1. handler[h] \in Handling /\ handler'[h] = y
      BY <1>6, <2>1 DEF N!Overtaken
    <3>2. y \in Handling
      BY <3>1 DEF Handling
    <3>3. /\ y.pc = handler[h].pc /\ y.shown = handler[h].shown
          /\ y.expected = handler[h].expected /\ y.verdict = handler[h].verdict
          /\ y.steady = FALSE
      BY <3>1 DEF Handling
    <3> HIDE DEF y
    <3>4. ReadRight(y, last', open)
      BY <1>r, <3>3 DEF ReadRight
    <3>5. QED
      BY <3>1, <3>2, <3>3, <3>4
  <2>3. handler' \in [Handlers -> Handling]
    BY <1>6, <2>2 DEF N!Overtaken
  <2>4. QED
    BY <1>6, <1>t, <2>2, <2>3 DEF OneHandler
<1>7. CASE N!Put
  <2>1. /\ sync' = [sync EXCEPT !.pc = "put"] /\ shown' = sync.quantity
        /\ noted' = [noted EXCEPT !.untold = TRUE, !.foreign = FALSE]
        /\ handler' = N!Overtaken /\ open' = open /\ held' = held
        /\ UNCHANGED <<stock, last, link, listed>> /\ sync.pc = "read"
    BY <1>7 DEF N!Put
  <2>2. sync.quantity \in Quantities
    BY <1>t, <2>1 DEF NoticeTypes, ShownIsOurs, Tells
  <2>3. NoticeTypes'
    BY <1>t, <1>6, <2>1, <2>2 DEF NoticeTypes
  <2>4. noted'.untold /\ noted'.sent = noted.sent
    BY <1>t, <2>1 DEF NoticeTypes
  <2>5. /\ sync'.quantity = sync.quantity /\ sync'.version = sync.version
        /\ shown' = sync'.quantity
    BY <1>t, <2>1 DEF NoticeTypes
  <2>6. ShownIsOurs'
    BY <1>t, <2>1, <2>2, <2>4, <2>5 DEF ShownIsOurs, Tells
  <2>7. QED
    BY <1>6, <2>1, <2>3, <2>6 DEF NoticesRight
<1>8. CASE N!Record
  <2> DEFINE sent == [version |-> sync.version, quantity |-> sync.quantity,
                      recent |-> TRUE]
  <2>1. /\ sync.pc = "put" /\ sync' = N!NoSync
        /\ last' = IF sync.version = stock.version THEN sent ELSE last
        /\ noted' = [noted EXCEPT !.sent = sent, !.untold = FALSE]
        /\ handler' = N!Overtaken /\ open' = open /\ held' = held
        /\ UNCHANGED <<stock, shown, link, listed>>
    BY <1>8 DEF N!Record
  <2>2. sent \in N!Sent /\ sent.version = sync.version /\ sent.quantity = sync.quantity
    BY <1>t DEF NoticeTypes, N!Sent
  <2> HIDE DEF sent
  <2>3. /\ noted' \in [sent : N!Sent, untold : BOOLEAN, foreign : BOOLEAN]
        /\ noted'.sent = sent /\ noted'.foreign = noted.foreign
    BY <1>t, <2>1, <2>2 DEF NoticeTypes
  <2>4. NoticeTypes'
    BY <1>1, <1>t, <1>6, <2>1, <2>2, <2>3 DEF NoticeTypes
  <2>5. ShownIsOurs'
    BY <1>t, <2>1, <2>2, <2>3 DEF ShownIsOurs, Tells
  <2>6. QED
    BY <1>6, <2>1, <2>4, <2>5 DEF NoticesRight
<1>9. CASE N!Break
  <2>1. NoticeTypes'
    BY <1>1, <1>t, <1>9 DEF N!Break, NoticeTypes
  <2>2. ShownIsOurs'
    BY <1>t, <1>9 DEF N!Break, ShownIsOurs, Tells
  <2>3. QED
    BY <1>2, <1>9, <2>1, <2>2 DEF N!Break, NoticesRight
<1>10. CASE N!Age
  <2>1. PICK recent \in {noted.sent.recent /\ noted.sent # last, FALSE} :
          /\ last' = [last EXCEPT !.recent = FALSE]
          /\ noted' = [noted EXCEPT !.sent.recent = recent]
          /\ UNCHANGED <<stock, shown, sync, link, listed, open, handler, held>>
    BY <1>10 DEF N!Age
  <2>2. /\ last' \in N!Sent /\ last'.version = last.version
        /\ last'.quantity = last.quantity
    BY <1>t, <2>1 DEF NoticeTypes, N!Sent
  <2>3. recent \in BOOLEAN
    BY <1>t, <2>1 DEF NoticeTypes, N!Sent
  <2>4. /\ noted' \in [sent : N!Sent, untold : BOOLEAN, foreign : BOOLEAN]
        /\ noted'.sent.quantity = noted.sent.quantity
        /\ noted'.foreign = noted.foreign /\ noted'.untold = noted.untold
    BY <1>t, <2>1, <2>3 DEF NoticeTypes, N!Sent
  <2>5. NoticeTypes'
    BY <1>t, <2>1, <2>2, <2>4 DEF NoticeTypes
  <2>6. ShownIsOurs'
    BY <1>t, <2>1, <2>2, <2>4 DEF ShownIsOurs, Tells
  <2>7. \A h \in Handlers : ReadRight(handler[h], last', open)
    BY <1>r, <2>2 DEF ReadRight
  <2>8. QED
    BY <1>t, <2>1, <2>5, <2>6, <2>7 DEF NoticesRight, OneHandler
<1>11. CASE N!Relink
  <2>1. NoticeTypes'
    BY <1>t, <1>11 DEF N!Relink, NoticeTypes
  <2>2. ShownIsOurs'
    BY <1>t, <1>11 DEF N!Relink, ShownIsOurs, Tells
  <2>3. QED
    BY <1>2, <1>11, <2>1, <2>2 DEF N!Relink, NoticesRight
<1>12. ASSUME NEW d \in Quantities \X Quantities, N!Resolve(d)
       PROVE  NoticesRight'
  <2>1. open' = [open EXCEPT ![d] = open[d] - 1] /\ open[d] > 0
    BY <1>12 DEF N!Resolve
  <2>2. open \in [Quantities \X Quantities -> {0, 1}]
    BY <1>t DEF NoticeTypes
  <2>3. open[d] = 1
    BY <2>1, <2>2
  <2>4. /\ open' = [open EXCEPT ![d] = 0]
        /\ open' \in [Quantities \X Quantities -> {0, 1}]
    BY <2>1, <2>2, <2>3
  <2>5. \A e : ~(open[e] > 0) => ~(open'[e] > 0)
    BY <2>2, <2>4
  <2>6. NoticeTypes' /\ ShownIsOurs'
    BY <1>t, <1>12, <2>4 DEF N!Resolve, NoticeTypes, ShownIsOurs, Tells
  <2>7. \A h \in Handlers : ReadRight(handler[h], last, open')
    BY <1>r, <2>5 DEF ReadRight
  <2>8. QED
    BY <1>t, <1>12, <2>6, <2>7 DEF N!Resolve, NoticesRight, OneHandler
<1>13. QED
  BY <1>3, <1>4, <1>5, <1>7, <1>8, <1>9, <1>10, <1>11, <1>12

\* A step of a handler writes its own record and what it has to say.
LEMMA HandlerKeepsNotices ==
  ASSUME NoticesRight, NEW h \in Handlers, N!Handle(h)
  PROVE  NoticesRight'
<1> USE DEF N!ours
<1>1. MaxVersion \in Nat \ {0} /\ None \notin Handlers
  BY ProviderAssumption DEF N!ConstantsFit
<1>t. NoticeTypes /\ ShownIsOurs /\ OneHandler
  BY DEF NoticesRight
<1>r. ReadRight(handler[h], last, open) /\ handler[h] \in Handling
  BY <1>t DEF NoticesRight, NoticeTypes
<1>o. /\ handler \in [Handlers -> Handling]
      /\ open \in [Quantities \X Quantities -> {0, 1}]
  BY <1>t DEF NoticeTypes
\* It is enough to look at the record y that it leaves.
<1>2. ASSUME NEW y \in Handling, handler' = [handler EXCEPT ![h] = y],
             ReadRight(y, last, open'), y.pc # "idle" => held' = h,
             handler[h].pc # "idle" \/ held = None,
             open' \in [Quantities \X Quantities -> {0, 1}],
             listed' \in Quantities, link' \in {"ACTIVE", "INVALID"},
             held' \in {h, None, held},
             UNCHANGED <<stock, shown, sync, last, noted>>
      PROVE  NoticesRight'
  <2>1. /\ handler' \in [Handlers -> Handling] /\ handler'[h] = y
        /\ \A g \in Handlers \ {h} : handler'[g] = handler[g]
    BY <1>2, <1>o
  <2>2. \A g \in Handlers \ {h} : handler[g].pc = "idle"
    BY <1>1, <1>2, <1>t DEF OneHandler
  <2>3. NoticeTypes' /\ ShownIsOurs'
    BY <1>2, <1>t, <2>1 DEF NoticeTypes, ShownIsOurs, Tells
  <2>4. OneHandler'
    BY <1>2, <2>1, <2>2 DEF OneHandler
  <2>5. ASSUME NEW g \in Handlers \ {h}
        PROVE  ReadRight(handler'[g], last, open')
    BY <2>1, <2>2, <2>5 DEF NoticesRight, ReadRight
  <2>6. QED
    BY <1>2, <2>1, <2>3, <2>4, <2>5 DEF NoticesRight
\* A record with another step, all the rest as it was.
<1>3. ASSUME NEW pc \in {"product", "item", "listing", "stock", "compare",
                         "note", "done"}
      PROVE  LET y == [handler[h] EXCEPT !.pc = pc] IN
             /\ y \in Handling /\ y.pc = pc
             /\ y.shown = handler[h].shown /\ y.expected = handler[h].expected
             /\ y.version = handler[h].version /\ y.steady = handler[h].steady
             /\ y.foreign = handler[h].foreign /\ y.verdict = handler[h].verdict
  BY <1>r DEF Handling
<1>4. N!Idle \in Handling /\ N!Idle.pc = "idle"
      /\ \A o : ReadRight(N!Idle, last, o)
  BY <1>1 DEF Handling, N!Idle, ReadRight
<1>5. listed \in Quantities /\ link \in {"ACTIVE", "INVALID"}
  BY <1>t DEF NoticeTypes
<1>6. handler[h].pc # "idle" => held = h
  BY <1>t DEF OneHandler
<1>7. CASE N!Take(h)
  <2>1. PICK pc \in {"item", "product"} :
          handler' = [handler EXCEPT ![h].pc = pc]
    BY <1>7 DEF N!Take, N!To
  <2> DEFINE y == [handler[h] EXCEPT !.pc = pc]
  <2>2. handler' = [handler EXCEPT ![h] = y]
    BY <2>1
  <2>3. /\ handler[h].pc = "idle" /\ held = None /\ held' = h
        /\ UNCHANGED <<stock, shown, sync, last, noted, link, listed, open>>
    BY <1>7 DEF N!Take, N!Free
  <2>4. y \in Handling /\ y.pc = pc /\ y.verdict = handler[h].verdict
    BY <1>3
  <2> HIDE DEF y
  <2>5. ReadRight(y, last, open)
    BY <1>r, <2>3, <2>4 DEF ReadRight
  <2>6. QED
    BY <1>2, <1>5, <1>o, <2>2, <2>3, <2>4, <2>5
<1>8. CASE N!ReadUserProduct(h)
  <2> DEFINE y == [handler[h] EXCEPT !.pc = "item"]
  <2>1. handler' = [handler EXCEPT ![h] = y]
    BY <1>8 DEF N!ReadUserProduct, N!To
  <2>2. /\ handler[h].pc = "product"
        /\ UNCHANGED <<stock, shown, sync, last, noted, link, listed, open, held>>
    BY <1>8 DEF N!ReadUserProduct
  <2>3. y \in Handling /\ y.pc = "item" /\ y.verdict = handler[h].verdict
    BY <1>3
  <2> HIDE DEF y
  <2>4. ReadRight(y, last, open)
    BY <1>r, <2>2, <2>3 DEF ReadRight
  <2>5. QED
    BY <1>2, <1>5, <1>6, <1>o, <2>1, <2>2, <2>3, <2>4
<1>9. CASE N!ReadItem(h)
  <2> DEFINE steady == noted.sent = last /\ ~noted.untold
             y == [handler[h] EXCEPT !.pc = "listing", !.shown = shown,
                     !.steady = steady, !.foreign = noted.foreign]
  <2>1. handler' = [handler EXCEPT ![h] = y]
    BY <1>9 DEF N!ReadItem
  <2>2. /\ handler[h].pc = "item"
        /\ UNCHANGED <<stock, shown, sync, last, noted, link, listed, open, held>>
    BY <1>9 DEF N!ReadItem
  <2>3. noted.foreign \in BOOLEAN /\ shown \in Quantities /\ steady \in BOOLEAN
    BY <1>t DEF NoticeTypes
  <2>4. steady /\ ~noted.foreign => last.quantity = shown
    BY <1>t DEF ShownIsOurs
  <2> HIDE DEF steady
  <2>5. /\ y \in Handling /\ y.pc = "listing" /\ y.verdict = handler[h].verdict
        /\ y.shown = shown /\ y.steady = steady /\ y.foreign = noted.foreign
    BY <1>r, <2>3 DEF Handling
  <2> HIDE DEF y
  <2>6. ReadRight(y, last, open)
    BY <1>r, <2>2, <2>3, <2>4, <2>5 DEF ReadRight
  <2>7. QED
    BY <1>2, <1>5, <1>6, <1>o, <2>1, <2>2, <2>5, <2>6
<1>10. CASE N!MissItem(h) \/ N!GiveUp(h)
  <2>1. /\ handler' = [handler EXCEPT ![h] = N!Idle]
        /\ held' = (IF held = h THEN None ELSE held)
        /\ handler[h].pc # "idle" /\ link' \in {link, "INVALID"}
        /\ UNCHANGED <<stock, shown, sync, last, noted, listed, open>>
    BY <1>10 DEF N!MissItem, N!GiveUp, N!Release
  <2>2. QED
    BY <1>2, <1>4, <1>5, <1>o, <2>1
<1>11. CASE N!SaveListing(h)
  <2>1. /\ handler[h].pc = "listing" /\ listed' = handler[h].shown
        /\ UNCHANGED <<stock, shown, sync, last, noted, link, open>>
    BY <1>11 DEF N!SaveListing
  <2>2. listed' \in Quantities
    BY <1>r, <2>1 DEF ReadRight
  <2>3. CASE link = "ACTIVE"
    <3> DEFINE y == [handler[h] EXCEPT !.pc = "stock"]
    <3>1. handler' = [handler EXCEPT ![h] = y] /\ held' = held
      BY <1>11, <2>3 DEF N!SaveListing, N!To
    <3>2. /\ y \in Handling /\ y.pc = "stock" /\ y.shown = handler[h].shown
          /\ y.steady = handler[h].steady /\ y.foreign = handler[h].foreign
          /\ y.verdict = handler[h].verdict
      BY <1>3
    <3> HIDE DEF y
    <3>3. ReadRight(y, last, open)
      BY <1>r, <2>1, <3>2 DEF ReadRight
    <3>4. QED
      BY <1>2, <1>5, <1>6, <1>o, <2>1, <2>2, <3>1, <3>2, <3>3
  <2>4. CASE link # "ACTIVE"
    <3>1. /\ handler' = [handler EXCEPT ![h] = N!Idle]
          /\ held' = (IF held = h THEN None ELSE held)
      BY <1>11, <2>4 DEF N!SaveListing, N!Release
    <3>2. QED
      BY <1>2, <1>4, <1>5, <1>o, <2>1, <2>2, <3>1
  <2>5. QED
    BY <2>3, <2>4
<1>12. CASE N!ReadStock(h)
  <2> DEFINE y == [handler[h] EXCEPT !.pc = "compare",
                     !.expected = stock.available, !.version = stock.version]
  <2>1. handler' = [handler EXCEPT ![h] = y]
    BY <1>12 DEF N!ReadStock
  <2>2. /\ handler[h].pc = "stock"
        /\ UNCHANGED <<stock, shown, sync, last, noted, link, listed, open, held>>
    BY <1>12 DEF N!ReadStock
  <2>3. stock.available \in Quantities /\ stock.version \in 0..MaxVersion
    BY <1>1, <1>t DEF NoticeTypes
  <2>4. /\ y \in Handling /\ y.pc = "compare" /\ y.verdict = handler[h].verdict
        /\ y.shown = handler[h].shown /\ y.steady = handler[h].steady
        /\ y.foreign = handler[h].foreign /\ y.expected = stock.available
        /\ y.version = stock.version
    BY <1>r, <2>3 DEF Handling
  <2> HIDE DEF y
  <2>5. ReadRight(y, last, open)
    BY <1>r, <1>t, <2>2, <2>3, <2>4 DEF ReadRight, ShownIsOurs, Tells
  <2>6. QED
    BY <1>2, <1>5, <1>6, <1>o, <2>1, <2>2, <2>4, <2>5
<1>13. CASE N!Compare(h)
  <2> DEFINE verdict == N!Verdict(h)
             pc == IF verdict = "CONFIRMATION" \/ open[N!Divergence(h)] > 0
                   THEN "done" ELSE "note"
             y == [handler[h] EXCEPT !.verdict = verdict, !.pc = pc]
  <2>1. handler' = [handler EXCEPT ![h] = y]
    BY <1>13 DEF N!Compare
  <2>2. /\ handler[h].pc = "compare"
        /\ UNCHANGED <<stock, shown, sync, last, noted, link, listed, open, held>>
    BY <1>13 DEF N!Compare
  <2>3. verdict \in {"CONFIRMATION", "STALE_EVENT", "EXTERNAL_CHANGE"}
    BY DEF N!Verdict
  <2>4. /\ pc \in {"note", "done"}
        /\ pc = "note" => /\ verdict # "CONFIRMATION"
                          /\ ~(open[<<handler[h].expected, handler[h].shown>>] > 0)
    BY DEF N!Divergence
  <2> HIDE DEF verdict, pc
  <2>5. /\ y \in Handling /\ y.pc = pc /\ y.verdict = verdict
        /\ y.shown = handler[h].shown /\ y.expected = handler[h].expected
        /\ y.steady = handler[h].steady /\ y.foreign = handler[h].foreign
    BY <1>r, <2>3, <2>4 DEF Handling
  <2> HIDE DEF y
  <2>6. ReadRight(y, last, open)
    BY <1>r, <2>2, <2>4, <2>5 DEF ReadRight
  <2>7. QED
    BY <1>2, <1>5, <1>6, <1>o, <2>1, <2>2, <2>5, <2>6
<1>14. CASE N!Note(h)
  <2> DEFINE y == [handler[h] EXCEPT !.pc = "done"]
             d == <<handler[h].expected, handler[h].shown>>
  <2>1. /\ handler' = [handler EXCEPT ![h] = y]
        /\ open' = [open EXCEPT ![d] = open[d] + 1]
    BY <1>14 DEF N!Note, N!To, N!Divergence
  <2>2. /\ handler[h].pc = "note"
        /\ UNCHANGED <<stock, shown, sync, last, noted, link, listed, held>>
    BY <1>14 DEF N!Note
  <2>3. /\ y \in Handling /\ y.pc = "done" /\ y.shown = handler[h].shown
        /\ y.steady = handler[h].steady /\ y.foreign = handler[h].foreign
    BY <1>3
  <2>4. ~(open[d] > 0)
    BY <1>r, <2>2 DEF ReadRight
  <2> HIDE DEF y, d
  <2>5. open' \in [Quantities \X Quantities -> {0, 1}]
    <3>1. CASE d \in Quantities \X Quantities
      <4>1. open[d] = 0
        BY <1>o, <2>4, <3>1
      <4>2. open' = [open EXCEPT ![d] = 1]
        BY <2>1, <4>1
      <4>3. QED
        BY <1>o, <4>2
    <3>2. CASE d \notin Quantities \X Quantities
      <4>1. open' = open
        BY <1>o, <2>1, <3>2
      <4>2. QED
        BY <1>o, <4>1
    <3>3. QED
      BY <3>1, <3>2
  <2>6. ReadRight(y, last, open')
    BY <1>r, <2>2, <2>3 DEF ReadRight
  <2>7. QED
    BY <1>2, <1>5, <1>6, <2>1, <2>2, <2>3, <2>5, <2>6
<1>15. QED
  BY <1>7, <1>8, <1>9, <1>10, <1>11, <1>12, <1>13, <1>14 DEF N!Handle

LEMMA NoticesKept == NoticesRight /\ [N!Next]_notices => NoticesRight'
<1> SUFFICES ASSUME NoticesRight, [N!Next]_notices PROVE NoticesRight'
  OBVIOUS
<1>1. CASE UNCHANGED notices
  BY <1>1 DEF notices, NoticesRight, NoticeTypes, ShownIsOurs, Tells, OneHandler
<1>2. CASE N!Next
  BY <1>2, OutsideKeepsNotices, HandlerKeepsNotices DEF N!Next
<1>3. QED
  BY <1>1, <1>2

\* A verdict other than a confirmation or an echo, for an item that nobody else
\* has touched, cannot be reached.
LEMMA AlarmIsReal ==
  ASSUME NoticesRight, [N!Next]_notices, NEW h \in Handlers,
         N!Alarm(h), handler[h].steady, last.recent
  PROVE  handler[h].foreign
<1>1. /\ handler[h].pc = "compare" /\ handler'[h].verdict = "EXTERNAL_CHANGE"
      /\ ReadRight(handler[h], last, open) /\ handler[h].verdict = "NONE"
  BY DEF N!Alarm, NoticesRight, ReadRight
<1>2. /\ handler \in [Handlers -> Handling] /\ handler[h] \in Handling
      /\ last.version \in Nat /\ handler[h].version \in Nat
  BY ProviderAssumption
     DEF NoticesRight, NoticeTypes, Handling, N!Sent, N!ConstantsFit
<1>3. CASE ~N!Compare(h)
  <2>1. CASE handler' = handler
    BY <1>1, <2>1
  <2>2. CASE handler' = N!Overtaken
    <3>1. handler'[h] = [handler[h] EXCEPT !.steady = FALSE]
      BY <2>2 DEF N!Overtaken
    <3>2. QED
      BY <1>1, <1>2, <3>1 DEF Handling
  <2>3. ASSUME NEW g \in Handlers, NEW y, handler' = [handler EXCEPT ![g] = y],
               g # h \/ y.verdict # "EXTERNAL_CHANGE"
        PROVE  FALSE
    BY <1>1, <1>2, <2>3
  <2>4. ASSUME NEW g \in Handlers, N!Handle(g)
        PROVE  FALSE
    <3>1. CASE N!GiveUp(g) \/ N!MissItem(g)
      <4>1. handler' = [handler EXCEPT ![g] = N!Idle]
        BY <3>1 DEF N!GiveUp, N!MissItem, N!Release
      <4>2. N!Idle.verdict # "EXTERNAL_CHANGE"
        BY DEF N!Idle
      <4>3. QED
        BY <2>3, <4>1, <4>2
    <3>2. CASE g = h
      BY <1>1, <1>3, <2>4, <3>1, <3>2
         DEF N!Handle, N!Take, N!ReadUserProduct, N!ReadItem, N!SaveListing,
             N!ReadStock, N!Note
    <3>3. CASE g # h
      <4> SUFFICES handler'[h] = handler[h]
        BY <1>1
      <4>1. ASSUME NEW pc, N!To(g, pc)
            PROVE  handler'[h] = handler[h]
        BY <1>2, <3>3, <4>1 DEF N!To
      <4>2. CASE N!Take(g) \/ N!ReadUserProduct(g) \/ N!SaveListing(g) \/ N!Note(g)
        BY <1>2, <3>1, <3>3, <4>1, <4>2
           DEF N!Take, N!ReadUserProduct, N!SaveListing, N!Note, N!Release
      <4>3. CASE N!ReadItem(g)
        BY <1>2, <3>3, <4>3 DEF N!ReadItem
      <4>4. CASE N!ReadStock(g)
        BY <1>2, <3>3, <4>4 DEF N!ReadStock
      <4>5. CASE N!Compare(g)
        BY <1>2, <3>3, <4>5 DEF N!Compare
      <4>6. QED
        BY <2>4, <3>1, <4>2, <4>3, <4>4, <4>5 DEF N!Handle
    <3>4. QED
      BY <3>2, <3>3
  <2>5. CASE UNCHANGED notices
    BY <2>1, <2>5 DEF notices
  <2>6. QED
    BY <2>1, <2>2, <2>4, <2>5
       DEF N!Next, N!Change, N!Tamper, N!ReadBalance, N!Put, N!Record, N!Break,
           N!Age, N!Relink, N!Resolve
<1>4. CASE N!Compare(h)
  <2>1. handler'[h].verdict = N!Verdict(h)
    BY <1>2, <1>4 DEF N!Compare, Handling
  <2>2. handler[h].shown # handler[h].expected /\ ~N!Echo(h)
    BY <1>1, <2>1 DEF N!Verdict
  <2>3. \/ last.version = handler[h].version
        \/ last.quantity # handler[h].shown
    BY <1>1, <1>2, <2>2 DEF N!Echo, ReadRight
  <2>4. QED
    BY <1>1, <1>2, <2>2, <2>3 DEF ReadRight, Handling
<1>5. QED
  BY <1>3, <1>4

-----------------------------------------------------------------------------

\* A step of the system is one of the handlers and what is around them, or
\* leaves them alone.
LEMMA NoticesStep == [ProviderNext]_provider => [N!Next]_notices
BY DEF ProviderNext, provider, notices, connection, calls, scan

LEMMA NoticesStayRight == ProviderSpec => []NoticesRight
<1>1. ProviderInit => NoticesRight
  BY NoticesBegin DEF ProviderInit
<1>2. QED
  BY <1>1, NoticesStep, NoticesKept, PTL DEF ProviderSpec

\* The same divergence is never open twice, however many notifications report
\* it: the account lock keeps the look and the note together.
THEOREM OneDivergence == ProviderSpec => []NoTwinDivergence
<1>1. NoticesRight => NoTwinDivergence
  BY DEF NoticesRight, NoticeTypes, NoTwinDivergence, N!NoTwinDivergence
<1>2. QED
  BY <1>1, NoticesStayRight, PTL

\* An alarm is real when the last synchronisation was recorded and none was
\* sent or recorded since the item was read: the versions of the balance tell
\* the echo of an older synchronisation from the work of somebody else.
THEOREM AlarmsOfOthers == ProviderSpec => AlarmsAreReal
<1>1. NoticesRight /\ [N!Next]_notices =>
        [\A h \in Handlers :
           N!Alarm(h) /\ handler[h].steady /\ last.recent
             => handler[h].foreign]_(N!vars)
  BY AlarmIsReal
<1>2. QED
  BY <1>1, NoticesStep, NoticesStayRight, PTL
     DEF ProviderSpec, AlarmsAreReal, N!AlarmsAreReal

-----------------------------------------------------------------------------
(* The requests of an operation (Calls).                                   *)

Codes == {"NONE", "OK", "PROVIDER_TIMEOUT", "RATE_LIMITED", "REAUTH_REQUIRED",
          "RESOURCE_NOT_FOUND", "PROVIDER_UNAVAILABLE", "UNKNOWN_PROVIDER_ERROR",
          "INVALID_PROVIDER_RESPONSE", "VALIDATION_ERROR", "INVALID_CREDENTIALS",
          "OPERATION_NOT_SUPPORTED", "CONNECTOR_DISABLED", "CONNECTION_NOT_READY"}

Errors == [code : Codes, retryable : BOOLEAN]

ASending == [pc : C!Steps, attempt : 0..2, sent : 0..3, refused : BOOLEAN,
             done : BOOLEAN, error : Errors]

CallTypes ==
  /\ operation \in C!Reads \cup C!Writes
  /\ deadline \in {"none", "ahead", "past"}
  /\ sending \in [C!Slots -> ASending]
  /\ outcome \in Errors

\* A failure after which nobody tries again, and that tells what happened.
Final(error) == ~error.retryable /\ error.code # "INVALID_PROVIDER_RESPONSE"

\* A request x of the operation o under the deadline d: its attempts are what
\* was sent, a refusal ends it if there is a deadline, and what it says it did
\* is what it did.
RequestRight(x, o, d) ==
  /\ x.error # C!NoError <=> x.pc = "failed"
  /\ x.error # C!Result
  /\ o \in C!Writes => x.attempt = 0
  /\ x.pc \in {"idle", "ready"} => x.sent = x.attempt
  /\ x.pc = "sent" => x.sent = x.attempt + 1
  /\ x.sent <= x.attempt + 1
  /\ d # "none" /\ x.refused => x.pc = "failed"
  /\ x.pc \in {"body", "ok"} => x.done
  /\ o \in C!Writes /\ x.pc \in {"idle", "ready", "sent"} => ~x.done
  /\ o \in C!Writes /\ x.pc = "failed" /\ Final(x.error) => ~x.done

\* Only a page of listings has more than one request.
OneByOne ==
  operation # "products" =>
    \A s \in C!Slots \ {First} : sending[s].pc = "idle"

OutcomeRight ==
  /\ outcome = C!Result => \A s \in C!Requested(operation) : sending[s].done
  /\ outcome \notin {C!NoError, C!Result} /\ operation \in C!Writes
       /\ Final(outcome)
     => ~sending[First].done /\ sending[First].pc \in {"idle", "failed"}

CallsRight ==
  /\ CallTypes
  /\ \A s \in C!Slots : RequestRight(sending[s], operation, deadline)
  /\ OneByOne
  /\ OutcomeRight

LEMMA NamedErrors ==
  /\ C!NoError \in Errors /\ C!Result \in Errors /\ C!NoError # C!Result
  /\ \A e \in Errors : e.code \notin {"NONE", "OK"} =>
       e # C!NoError /\ e # C!Result
  /\ \A code \in Codes, retryable \in BOOLEAN :
       /\ C!Error(code, retryable) \in Errors
       /\ C!Error(code, retryable).code = code
       /\ C!Error(code, retryable).retryable = retryable
BY DEF C!NoError, C!Result, C!Error, Errors, Codes

LEMMA FreshRequest ==
  \A o, d : /\ C!Fresh \in ASending /\ C!Fresh.pc = "idle"
            /\ RequestRight(C!Fresh, o, d)
<1>1. C!NoError \in Errors /\ C!NoError # C!Result
  BY NamedErrors
<1>2. C!Fresh \in ASending
  BY <1>1 DEF C!Fresh, ASending, C!Steps
<1>3. QED
  BY <1>1, <1>2 DEF C!Fresh, RequestRight

LEMMA CallsBegin == C!Init => CallsRight
<1> SUFFICES ASSUME C!Init PROVE CallsRight
  OBVIOUS
<1>1. \A s \in C!Slots : sending[s] = C!Fresh
  BY DEF C!Init
<1>2. CallTypes
  BY NamedErrors, FreshRequest DEF C!Init, CallTypes
<1>3. OneByOne /\ \A s \in C!Slots : RequestRight(sending[s], operation, deadline)
  BY <1>1, FreshRequest DEF OneByOne
<1>4. OutcomeRight
  BY NamedErrors DEF C!Init, OutcomeRight
<1>5. QED
  BY <1>2, <1>3, <1>4 DEF CallsRight

\* One request is replaced by y, which has been sent and is right.
LEMMA OneRequest ==
  ASSUME CallsRight, NEW s \in C!Slots, NEW y \in ASending,
         sending' = [sending EXCEPT ![s] = y],
         UNCHANGED <<operation, deadline, outcome>>,
         RequestRight(y, operation, deadline),
         sending[s].pc \notin {"idle", "failed"}, sending[s].done => y.done
  PROVE  CallsRight'
<1>1. sending \in [C!Slots -> ASending] /\ First \in C!Slots
  BY DEF CallsRight, CallTypes, C!Slots
<1>2. /\ sending' \in [C!Slots -> ASending] /\ sending'[s] = y
      /\ \A r \in C!Slots \ {s} : sending'[r] = sending[r]
  BY <1>1
<1>3. C!Requested(operation) \subseteq C!Slots
  BY DEF C!Requested, C!Slots
<1>4. CallTypes'
  BY <1>2 DEF CallsRight, CallTypes
<1>5. \A r \in C!Slots : RequestRight(sending'[r], operation, deadline)
  BY <1>2 DEF CallsRight
<1>6. OneByOne'
  BY <1>1, <1>2 DEF CallsRight, OneByOne
<1>7. OutcomeRight'
  BY <1>1, <1>2, <1>3 DEF CallsRight, OutcomeRight
<1>8. QED
  BY <1>4, <1>5, <1>6, <1>7 DEF CallsRight

LEMMA SendKeepsCalls ==
  ASSUME CallsRight, NEW s \in C!Slots, C!Send(s)
  PROVE  CallsRight'
<1> USE DEF C!Becomes
<1> DEFINE x == sending[s]
<1>1. x \in ASending /\ RequestRight(x, operation, deadline)
  BY DEF CallsRight, CallTypes
<1>2. operation \in C!Writes => ~C!Retryable(operation)
  BY DEF C!Writes, C!Reads, C!Retryable
<1>3. CASE C!Attempt(s)
  <2>1. x.pc = "ready"
    BY <1>3 DEF C!Attempt
  <2>2. CASE C!Becomes(s, C!Fail(s, C!Error("PROVIDER_TIMEOUT", TRUE)))
    <3> DEFINE e == C!Error("PROVIDER_TIMEOUT", TRUE)
               y == [x EXCEPT !.pc = "failed", !.error = e]
    <3>1. e \in Errors /\ e # C!NoError /\ e # C!Result /\ ~Final(e)
      BY NamedErrors DEF Codes, Final
    <3>2. sending' = [sending EXCEPT ![s] = y] /\ UNCHANGED <<operation, deadline, outcome>>
      BY <2>2 DEF C!Fail
    <3> HIDE DEF e
    <3>3. /\ y \in ASending /\ y.pc = "failed" /\ y.error = e /\ y.done = x.done
          /\ y.attempt = x.attempt /\ y.sent = x.sent /\ y.refused = x.refused
      BY <1>1, <3>1 DEF ASending, C!Steps
    <3> HIDE DEF y
    <3>4. RequestRight(y, operation, deadline)
      BY <1>1, <2>1, <3>1, <3>3 DEF RequestRight, ASending
    <3>5. QED
      BY <2>1, <3>2, <3>3, <3>4, OneRequest
  <2>3. CASE C!Becomes(s, [sending[s] EXCEPT !.pc = "sent", !.sent = @ + 1])
    <3> DEFINE n == x.sent + 1
               y == [x EXCEPT !.pc = "sent", !.sent = n]
    <3>1. sending' = [sending EXCEPT ![s] = y] /\ UNCHANGED <<operation, deadline, outcome>>
      BY <2>3
    <3>2. x.sent = x.attempt /\ x.attempt \in 0..2 /\ n = x.attempt + 1 /\ n \in 0..3
      BY <1>1, <2>1 DEF RequestRight, ASending
    <3> HIDE DEF n
    <3>3. /\ y \in ASending /\ y.pc = "sent" /\ y.error = x.error /\ y.done = x.done
          /\ y.attempt = x.attempt /\ y.sent = n /\ y.refused = x.refused
      BY <1>1, <3>2 DEF ASending, C!Steps
    <3> HIDE DEF y
    <3>4. RequestRight(y, operation, deadline)
      BY <1>1, <2>1, <3>2, <3>3 DEF RequestRight
    <3>5. QED
      BY <2>1, <3>1, <3>3, <3>4, OneRequest
  <2>4. QED
    BY <1>3, <2>2, <2>3 DEF C!Attempt
<1>4. CASE C!Accept(s)
  <2> DEFINE y == [x EXCEPT !.pc = "body", !.done = TRUE]
  <2>1. /\ x.pc = "sent" /\ sending' = [sending EXCEPT ![s] = y]
        /\ UNCHANGED <<operation, deadline, outcome>>
    BY <1>4 DEF C!Accept
  <2>2. /\ y \in ASending /\ y.pc = "body" /\ y.error = x.error /\ y.done = TRUE
        /\ y.attempt = x.attempt /\ y.sent = x.sent /\ y.refused = x.refused
    BY <1>1 DEF ASending, C!Steps
  <2> HIDE DEF y
  <2>3. RequestRight(y, operation, deadline)
    BY <1>1, <2>1, <2>2 DEF RequestRight
  <2>4. QED
    BY <2>1, <2>2, <2>3, OneRequest
\* Once more.
<1>5. ASSUME NEW done \in BOOLEAN, NEW refused \in BOOLEAN, x.pc = "sent",
             C!Again(s), x.done => done, deadline # "none" => ~refused,
             C!Becomes(s, [x EXCEPT !.done = done, !.refused = refused,
                             !.pc = "ready", !.attempt = x.attempt + 1])
      PROVE  CallsRight'
  <2> DEFINE n == x.attempt + 1
             y == [x EXCEPT !.done = done, !.refused = refused,
                     !.pc = "ready", !.attempt = n]
  <2>1. operation \notin C!Writes /\ n \in 0..2 /\ n = x.sent
    BY <1>1, <1>2, <1>5 DEF C!Again, RequestRight, ASending
  <2>3. sending' = [sending EXCEPT ![s] = y] /\ UNCHANGED <<operation, deadline, outcome>>
    BY <1>5
  <2> HIDE DEF n
  <2>2. /\ y \in ASending /\ y.pc = "ready" /\ y.error = x.error /\ y.done = done
        /\ y.attempt = n /\ y.sent = x.sent /\ y.refused = refused
    BY <1>1, <2>1 DEF ASending, C!Steps
  <2> HIDE DEF y
  <2>4. RequestRight(y, operation, deadline)
    BY <1>1, <1>5, <2>1, <2>2 DEF RequestRight, ASending
  <2>5. QED
    BY <1>5, <2>2, <2>3, <2>4, OneRequest
\* No more.
<1>6. ASSUME NEW done \in BOOLEAN, NEW refused \in BOOLEAN,
             NEW error \in Errors, error # C!NoError, error # C!Result,
             x.pc \in {"sent", "body"}, x.done => done,
             operation \in C!Writes /\ Final(error) => ~done,
             C!Becomes(s, [x EXCEPT !.done = done, !.refused = refused,
                             !.pc = "failed", !.error = error])
      PROVE  CallsRight'
  <2> DEFINE y == [x EXCEPT !.done = done, !.refused = refused,
                     !.pc = "failed", !.error = error]
  <2>1. /\ y \in ASending /\ y.pc = "failed" /\ y.error = error /\ y.done = done
        /\ y.attempt = x.attempt /\ y.sent = x.sent /\ y.refused = refused
    BY <1>1 DEF ASending, C!Steps
  <2>2. sending' = [sending EXCEPT ![s] = y] /\ UNCHANGED <<operation, deadline, outcome>>
    BY <1>6
  <2> HIDE DEF y
  <2>3. RequestRight(y, operation, deadline)
    BY <1>1, <1>6, <2>1 DEF RequestRight
  <2>4. QED
    BY <1>6, <2>1, <2>2, <2>3, OneRequest
<1>7. ASSUME NEW status \in C!Statuses
      PROVE  LET e == C!Classified(status) IN
             /\ e \in Errors /\ e # C!NoError /\ e # C!Result
             /\ status >= 500 => ~Final(e)
  <2>1. \A code \in Codes \ {"NONE", "OK"}, r \in BOOLEAN :
          /\ C!Error(code, r) \in Errors /\ C!Error(code, r) # C!NoError
          /\ C!Error(code, r) # C!Result /\ C!Error(code, r).retryable = r
    BY NamedErrors
  <2>2. {"RATE_LIMITED", "REAUTH_REQUIRED", "RESOURCE_NOT_FOUND",
         "PROVIDER_UNAVAILABLE", "UNKNOWN_PROVIDER_ERROR"} \subseteq Codes \ {"NONE", "OK"}
    BY DEF Codes
  <2>3. status \in {429, 502, 503, 504, 400, 401, 404, 500}
    BY DEF C!Statuses, C!Overloaded
  <2>4. CASE status = 429
    <3>1. C!Classified(status) = C!Error("RATE_LIMITED", TRUE)
      BY <2>4 DEF C!Classified
    <3>2. ~(status >= 500)
      BY <2>4
    <3>3. QED
      BY <2>1, <2>2, <3>1, <3>2
  <2>5. CASE status = 401
    <3>1. C!Classified(status) = C!Error("REAUTH_REQUIRED", FALSE)
      BY <2>5 DEF C!Classified
    <3>2. ~(status >= 500)
      BY <2>5
    <3>3. QED
      BY <2>1, <2>2, <3>1, <3>2
  <2>6. CASE status = 404
    <3>1. C!Classified(status) = C!Error("RESOURCE_NOT_FOUND", FALSE)
      BY <2>6 DEF C!Classified
    <3>2. ~(status >= 500)
      BY <2>6
    <3>3. QED
      BY <2>1, <2>2, <3>1, <3>2
  <2>7. CASE status = 400
    <3>1. C!Classified(status) = C!Error("UNKNOWN_PROVIDER_ERROR", FALSE)
      BY <2>7 DEF C!Classified
    <3>2. ~(status >= 500)
      BY <2>7
    <3>3. QED
      BY <2>1, <2>2, <3>1, <3>2
  <2>8. CASE status >= 500
    <3>1. C!Classified(status) = C!Error("PROVIDER_UNAVAILABLE", TRUE)
      BY <2>3, <2>8 DEF C!Classified
    <3>2. QED
      BY <2>1, <2>2, <3>1 DEF Final
  <2>9. QED
    BY <2>3, <2>4, <2>5, <2>6, <2>7, <2>8
<1>8. ASSUME NEW status \in C!Statuses, C!Decline(s, status)
      PROVE  CallsRight'
  <2>1. PICK done \in {x.done, x.done \/ status >= 500} :
          LET heard == [x EXCEPT !.done = done,
                          !.refused = x.refused \/ status \in C!Overloaded]
          IN \/ /\ status \in C!Overloaded /\ deadline = "none" /\ C!Again(s)
                /\ C!Becomes(s, [heard EXCEPT !.pc = "ready",
                                              !.attempt = heard.attempt + 1])
             \/ /\ status \notin C!Overloaded \/ deadline # "none" \/ ~C!Again(s)
                /\ C!Becomes(s, [heard EXCEPT !.pc = "failed",
                                              !.error = C!Classified(status)])
    BY <1>8 DEF C!Decline
  <2> DEFINE refused == x.refused \/ status \in C!Overloaded
             heard == [x EXCEPT !.done = done, !.refused = refused]
  <2>2. /\ x.pc = "sent" /\ done \in BOOLEAN /\ refused \in BOOLEAN
        /\ x.done => done
    BY <1>1, <1>8, <2>1 DEF C!Decline, ASending
  <2>3. operation \in C!Writes /\ Final(C!Classified(status)) => ~done
    BY <1>1, <1>7, <2>1, <2>2 DEF RequestRight
  <2> HIDE DEF refused
  <2>4. heard.attempt = x.attempt
    BY <1>1 DEF ASending
  <2>5. CASE /\ deadline = "none" /\ C!Again(s)
             /\ C!Becomes(s, [heard EXCEPT !.pc = "ready",
                                           !.attempt = heard.attempt + 1])
    BY <1>5, <2>2, <2>4, <2>5
  <2>6. CASE C!Becomes(s, [heard EXCEPT !.pc = "failed",
                                        !.error = C!Classified(status)])
    BY <1>6, <1>7, <2>2, <2>3, <2>6
  <2>7. QED
    BY <2>1, <2>5, <2>6 DEF refused
<1>9. CASE C!Break(s)
  <2> DEFINE e == C!Error("PROVIDER_TIMEOUT", TRUE)
  <2>1. PICK done \in {x.done, TRUE} :
          LET heard == [x EXCEPT !.done = done] IN
          \/ /\ C!Again(s)
             /\ C!Becomes(s, [heard EXCEPT !.pc = "ready",
                                           !.attempt = heard.attempt + 1])
          \/ /\ ~C!Again(s)
             /\ C!Becomes(s, [heard EXCEPT !.pc = "failed", !.error = e])
    BY <1>9 DEF C!Break
  <2> DEFINE heard == [x EXCEPT !.done = done]
  <2>2. /\ x.pc = "sent" /\ done \in BOOLEAN /\ x.refused \in BOOLEAN
        /\ x.done => done
    BY <1>1, <1>9, <2>1 DEF C!Break, ASending
  <2>3. e \in Errors /\ e # C!NoError /\ e # C!Result /\ ~Final(e)
    BY NamedErrors DEF Codes, Final
  <2>4. deadline # "none" => ~x.refused
    BY <1>1, <2>2 DEF RequestRight
  <2>5. /\ heard.attempt = x.attempt
        /\ heard = [x EXCEPT !.done = done, !.refused = x.refused]
    BY <1>1 DEF ASending
  <2> HIDE DEF heard, e
  <2>6. CASE /\ C!Again(s)
             /\ C!Becomes(s, [heard EXCEPT !.pc = "ready",
                                           !.attempt = heard.attempt + 1])
    BY <1>5, <2>2, <2>4, <2>5, <2>6
  <2>7. CASE C!Becomes(s, [heard EXCEPT !.pc = "failed", !.error = e])
    BY <1>6, <2>2, <2>3, <2>5, <2>7
  <2>8. QED
    BY <2>1, <2>6, <2>7 DEF heard
<1>10. CASE C!ReadBody(s)
  <2>1. x.pc = "body" /\ x.done
    BY <1>1, <1>10 DEF C!ReadBody, RequestRight
  <2>2. CASE C!Becomes(s, [sending[s] EXCEPT !.pc = "ok"])
    <3> DEFINE y == [x EXCEPT !.pc = "ok"]
    <3>1. sending' = [sending EXCEPT ![s] = y] /\ UNCHANGED <<operation, deadline, outcome>>
      BY <2>2
    <3>2. /\ y \in ASending /\ y.pc = "ok" /\ y.error = x.error /\ y.done = x.done
          /\ y.attempt = x.attempt /\ y.sent = x.sent /\ y.refused = x.refused
      BY <1>1 DEF ASending, C!Steps
    <3> HIDE DEF y
    <3>3. RequestRight(y, operation, deadline)
      BY <1>1, <2>1, <3>2 DEF RequestRight
    <3>4. QED
      BY <2>1, <3>1, <3>2, <3>3, OneRequest
  <2>3. CASE C!Becomes(s, C!Fail(s, C!Error("INVALID_PROVIDER_RESPONSE", FALSE)))
    <3> DEFINE e == C!Error("INVALID_PROVIDER_RESPONSE", FALSE)
    <3>1. e \in Errors /\ e # C!NoError /\ e # C!Result /\ ~Final(e)
      BY NamedErrors DEF Codes, Final
    <3>2. C!Fail(s, e) = [x EXCEPT !.done = x.done, !.refused = x.refused,
                            !.pc = "failed", !.error = e]
      BY <1>1 DEF C!Fail, ASending
    <3>3. x.done \in BOOLEAN /\ x.refused \in BOOLEAN
      BY <1>1 DEF ASending
    <3> HIDE DEF e
    <3>4. C!Becomes(s, C!Fail(s, e))
      BY <2>3 DEF e
    <3>5. QED
      BY <1>6, <2>1, <3>1, <3>2, <3>3, <3>4
  <2>4. QED
    BY <1>10, <2>2, <2>3 DEF C!ReadBody
<1>11. QED
  BY <1>3, <1>4, <1>8, <1>9, <1>10 DEF C!Send

LEMMA CallsKept == CallsRight /\ [C!Next]_calls => CallsRight'
<1> SUFFICES ASSUME CallsRight, [C!Next]_calls PROVE CallsRight'
  OBVIOUS
<1>t. /\ CallTypes /\ OneByOne /\ OutcomeRight
      /\ \A s \in C!Slots : RequestRight(sending[s], operation, deadline)
  BY DEF CallsRight
<1>1. First \in C!Slots /\ Items \subseteq C!Slots
  BY DEF C!Slots
<1>2. CASE UNCHANGED calls
  BY <1>t, <1>2 DEF calls, CallsRight, CallTypes, OneByOne, OutcomeRight
<1>3. CASE C!Expire
  <2>1. /\ deadline' # "none" /\ deadline # "none" /\ deadline' = "past"
        /\ UNCHANGED <<operation, sending, outcome>>
    BY <1>3 DEF C!Expire
  <2>2. \A s \in C!Slots : RequestRight(sending[s], operation, deadline')
    BY <1>t, <2>1 DEF RequestRight
  <2>3. QED
    BY <1>t, <2>1, <2>2 DEF CallsRight, CallTypes, OneByOne, OutcomeRight
<1>4. CASE C!Start
  <2>1. /\ outcome = C!NoError /\ \A s \in C!Slots : sending[s].pc = "idle"
        /\ UNCHANGED <<operation, deadline>>
    BY <1>4 DEF C!Start, C!Begun
  <2>2. CASE sending' = [sending EXCEPT ![First].pc = "ready"] /\ UNCHANGED outcome
    <3> DEFINE x == sending[First]
               y == [x EXCEPT !.pc = "ready"]
    <3>1. sending \in [C!Slots -> ASending] /\ x \in ASending
      BY <1>t, <1>1 DEF CallTypes
    <3>2. /\ y \in ASending /\ y.pc = "ready" /\ y.error = x.error /\ y.done = x.done
          /\ y.attempt = x.attempt /\ y.sent = x.sent /\ y.refused = x.refused
      BY <3>1 DEF ASending, C!Steps
    <3>3. sending' = [sending EXCEPT ![First] = y]
      BY <2>2
    <3> HIDE DEF y
    <3>4. /\ sending' \in [C!Slots -> ASending] /\ sending'[First] = y
          /\ \A r \in C!Slots \ {First} : sending'[r] = sending[r]
      BY <1>1, <3>1, <3>2, <3>3
    <3>5. RequestRight(y, operation, deadline)
      BY <1>t, <1>1, <2>1, <3>2 DEF RequestRight
    <3>6. OutcomeRight'
      BY <2>1, <2>2, NamedErrors DEF OutcomeRight
    <3>7. QED
      BY <1>t, <2>1, <2>2, <3>4, <3>5, <3>6 DEF CallsRight, CallTypes, OneByOne
  <2>3. ASSUME NEW code \in C!Objections(operation),
               outcome' = C!Error(code, FALSE), UNCHANGED sending
        PROVE  CallsRight'
    <3>1. code \in Codes \ {"NONE", "OK"}
      BY <2>3 DEF C!Objections, Codes
    <3>2. outcome' \in Errors /\ outcome' # C!NoError /\ outcome' # C!Result
      BY <2>3, <3>1, NamedErrors
    <3>3. ~sending[First].done \/ operation \notin C!Writes
      BY <1>t, <1>1, <2>1 DEF RequestRight
    <3>4. OutcomeRight'
      BY <1>1, <2>1, <2>3, <3>2, <3>3 DEF OutcomeRight
    <3>5. QED
      BY <1>t, <2>1, <2>3, <3>2, <3>4 DEF CallsRight, CallTypes, OneByOne
  <2>4. QED
    BY <1>4, <2>2, <2>3 DEF C!Start
<1>5. CASE C!ReadItems
  <2> DEFINE y == [C!Fresh EXCEPT !.pc = "ready"]
  <2>1. /\ operation = "products" /\ outcome = C!NoError
        /\ sending' = [s \in C!Slots |-> IF s \in Items THEN y ELSE sending[s]]
        /\ UNCHANGED <<operation, deadline, outcome>>
    BY <1>5 DEF C!ReadItems
  <2>2. C!Fresh \in ASending
    BY FreshRequest
  <2>3. /\ y \in ASending /\ y.pc = "ready" /\ y.error = C!NoError /\ y.done = FALSE
        /\ y.attempt = 0 /\ y.sent = 0 /\ y.refused = FALSE
    BY <2>2 DEF C!Fresh, ASending, C!Steps
  <2> HIDE DEF y
  <2>4. RequestRight(y, operation, deadline)
    BY <2>3, NamedErrors DEF RequestRight
  <2>5. sending' \in [C!Slots -> ASending]
    BY <1>t, <2>1, <2>3 DEF CallTypes
  <2>6. \A s \in C!Slots : RequestRight(sending'[s], operation, deadline)
    BY <1>t, <2>1, <2>4
  <2>7. OneByOne' /\ OutcomeRight'
    BY <2>1, NamedErrors DEF OneByOne, OutcomeRight
  <2>8. QED
    BY <1>t, <2>1, <2>5, <2>6, <2>7 DEF CallsRight, CallTypes
<1>6. CASE C!Finish
  <2>1. outcome = C!NoError /\ UNCHANGED <<operation, deadline, sending>>
    BY <1>6 DEF C!Finish
  <2>2. outcome' \in Errors /\ OutcomeRight'
    <3>1. CASE C!Complete(operation) /\ outcome' = C!Result
      <4>1. C!Requested(operation) \subseteq C!Slots
        BY DEF C!Requested, C!Slots
      <4>2. \A s \in C!Requested(operation) : sending[s].done
        BY <1>t, <3>1, <4>1 DEF C!Complete, RequestRight
      <4>3. QED
        BY <2>1, <3>1, <4>2, NamedErrors DEF OutcomeRight
    <3>2. CASE /\ operation = "order"
               /\ outcome' = C!Error("RESOURCE_NOT_FOUND", FALSE)
      <4>1. "RESOURCE_NOT_FOUND" \in Codes \ {"NONE", "OK"}
        BY DEF Codes
      <4>2. outcome' \in Errors /\ outcome' # C!Result
        BY <3>2, <4>1, NamedErrors
      <4>3. QED
        BY <2>1, <3>2, <4>2 DEF OutcomeRight, C!Writes
    <3>3. ASSUME NEW s \in C!Slots, sending[s].pc = "failed",
                 outcome' = sending[s].error
          PROVE  outcome' \in Errors /\ OutcomeRight'
      <4>1. outcome' \in Errors
        BY <1>t, <3>3 DEF CallTypes, ASending
      <4>2. RequestRight(sending[s], operation, deadline)
        BY <1>t
      <4>3. operation \in C!Writes => s = First
        BY <1>t, <3>3 DEF OneByOne, C!Writes
      <4>4. QED
        BY <2>1, <3>3, <4>1, <4>2, <4>3 DEF OutcomeRight, RequestRight
    <3>4. QED
      BY <1>6, <3>1, <3>2, <3>3 DEF C!Finish
  <2>3. QED
    BY <1>t, <2>1, <2>2 DEF CallsRight, CallTypes, OneByOne
<1>7. QED
  BY <1>2, <1>3, <1>4, <1>5, <1>6, SendKeepsCalls DEF C!Next

LEMMA CallsStep == [ProviderNext]_provider => [C!Next]_calls
BY DEF ProviderNext, provider, notices, connection, calls, scan

LEMMA CallsStayRight == ProviderSpec => []CallsRight
<1>1. ProviderInit => CallsRight
  BY CallsBegin DEF ProviderInit
<1>2. QED
  BY <1>1, CallsStep, CallsKept, PTL DEF ProviderSpec

\* What changes something is asked once, a refusal under a deadline goes back
\* at once, and what the caller is told of the outcome is true.
THEOREM CallsInLimits == ProviderSpec => []CallsKeepTheirLimits
<1>1. CallsRight => C!AskedOnce
  <2> SUFFICES ASSUME CallsRight, NEW s \in C!Slots
               PROVE  sending[s].sent <= IF operation \in C!Writes THEN 1 ELSE 3
    BY DEF C!AskedOnce
  <2>1. sending[s] \in ASending /\ RequestRight(sending[s], operation, deadline)
    BY DEF CallsRight, CallTypes
  <2>2. QED
    BY <2>1 DEF ASending, RequestRight
<1>2. CallsRight => C!DeadlineKept
  BY DEF CallsRight, RequestRight, C!DeadlineKept
<1>3. CallsRight => C!OutcomeTold
  BY DEF CallsRight, OutcomeRight, Final, C!OutcomeTold
<1>4. QED
  BY <1>1, <1>2, <1>3, CallsStayRight, PTL
     DEF CallsKeepTheirLimits, C!CallsKeepTheirLimits

-----------------------------------------------------------------------------
(* The connection and its tokens (Connection): rows, lock and runs.        *)

AProcess == [pc : ProcSteps, row : Row, fresh : Row, tok : 0..MaxTokens]

ConnectionTypes ==
  /\ conn \in Row /\ cred \in 0..MaxTokens /\ expired \in 0..MaxTokens
  /\ shop \in [issued : 0..MaxTokens, live : SUBSET (1..MaxTokens)]
  /\ run \in [Runs -> {"NONE", "PENDING", "RUNNING", "SUCCEEDED", "FAILED"}]
  /\ tries \in [Runs -> Nat]
  /\ proc \in [Procs -> AProcess]
  /\ lock \in Procs \cup {None}
  /\ back \in [Callbacks ->
                [pc : {"idle", "exchange", "saveCred", "saveRow"},
                 state : States \cup {None}, tok : 0..MaxTokens]]
  /\ state \in [States -> {"none", "open", "consumed"}]
  /\ user \in [pc : {"idle", "delete", "save"}, op : Ops \cup {None}, row : Row]
  /\ past \in [orphaned : SUBSET (0..MaxTokens), again : SUBSET (0..MaxTokens),
               exchanges : [States -> Nat]]
  /\ faults \in [count : 0..MaxEvents, unqueued : SUBSET Runs]

LockRight == \A p \in Procs : proc[p].pc \in Holding <=> lock = p

\* A job is given out again after a failure, MaxTries times at most, and once
\* after each end of the process.
RunsRight ==
  \A r \in Runs :
    /\ run[r] = "NONE" => proc[r].pc = "idle"
    /\ run[r] = "NONE" \/ proc[r].pc = "enqueue" => tries[r] = 0
    /\ tries[r] <= MaxTries + faults.count
    /\ proc[r].pc = "queued" => tries[r] < MaxTries + faults.count

Asked == user.pc # "idle" => user.op \in Ops

RowsConnected == ConnectionTypes /\ LockRight /\ RunsRight /\ Asked

\* The process p goes on to pc with the pair tok, and no other does anything.
Moves(p, pc, tok) ==
  /\ proc' \in [Procs -> AProcess]
  /\ proc'[p].pc = pc /\ proc'[p].tok = tok
  /\ \A q \in Procs \ {p} : proc'[q] = proc[q]

LEMMA Bounds == /\ MaxTokens \in Nat \ {0} /\ MaxTries \in Nat \ {0} /\ MaxEvents \in Nat
                /\ None \notin Procs /\ Runs \cap Callers = {}
                /\ Runs \subseteq Procs /\ Callers \subseteq Procs
                /\ Ops \subseteq {"enable", "disable", "disconnect", "edit"}
BY ConnectionAssumption DEF Procs

LEMMA AtStep ==
  /\ NoRow \in Row
  /\ \A pc \in ProcSteps : At(pc) \in AProcess /\ At(pc).pc = pc /\ At(pc).tok = 0
<1>1. NoRow \in Row
  BY Bounds DEF NoRow, Row, Status
<1>2. QED
  BY <1>1, Bounds DEF At, AProcess

LEMMA MovesWith ==
  ASSUME ConnectionTypes, NEW p \in Procs, NEW y \in AProcess,
         proc' = [proc EXCEPT ![p] = y]
  PROVE  Moves(p, y.pc, y.tok)
BY DEF ConnectionTypes, Moves

LEMMA MovesTo ==
  ASSUME ConnectionTypes, NEW p \in Procs, NEW pc \in ProcSteps, To(p, pc)
  PROVE  Moves(p, pc, proc[p].tok)
<1> DEFINE y == [proc[p] EXCEPT !.pc = pc]
<1>1. proc[p] \in AProcess /\ proc' = [proc EXCEPT ![p] = y]
  BY DEF ConnectionTypes, To
<1>2. y \in AProcess /\ y.pc = pc /\ y.tok = proc[p].tok
  BY <1>1 DEF AProcess
<1> HIDE DEF y
<1>3. QED
  BY <1>1, <1>2, MovesWith

LEMMA MovesEnd ==
  ASSUME ConnectionTypes, NEW p \in Procs, NEW pc \in ProcSteps,
         proc' = [proc EXCEPT ![p] = At(pc)]
  PROVE  Moves(p, pc, 0)
BY AtStep, MovesWith

LEMMA MovesKeep ==
  ASSUME ConnectionTypes, NEW p \in Procs, NEW pc \in ProcSteps, Keep(p, pc)
  PROVE  Moves(p, pc, 0)
<1> DEFINE row2 == IF p \in Runs THEN proc[p].row ELSE NoRow
           y == [At(pc) EXCEPT !.row = row2]
<1>1. proc[p] \in AProcess /\ proc' = [proc EXCEPT ![p] = y]
  BY DEF ConnectionTypes, Keep
<1>2. row2 \in Row
  BY <1>1, AtStep DEF AProcess
<1>3. At(pc) \in AProcess /\ At(pc).pc = pc /\ At(pc).tok = 0
  BY AtStep
<1> HIDE DEF row2
<1>4. y \in AProcess /\ y.pc = pc /\ y.tok = 0
  BY <1>2, <1>3 DEF AProcess
<1> HIDE DEF y
<1>5. QED
  BY <1>1, <1>4, MovesWith

LEMMA MovesFailed ==
  ASSUME ConnectionTypes, NEW p \in Procs, proc' = [proc EXCEPT ![p] = Failed(p)]
  PROVE  Moves(p, IF p \in Runs THEN "failing" ELSE "idle", 0)
BY MovesEnd DEF Failed, ProcSteps

\* How the lock goes from hand to hand.
LEMMA LockKept ==
  ASSUME RowsConnected, NEW p \in Procs, NEW pc, NEW tok, Moves(p, pc, tok),
         \/ lock' = lock /\ (pc \in Holding <=> proc[p].pc \in Holding)
         \/ lock = None /\ lock' = p /\ pc \in Holding
         \/ lock = p /\ lock' = None /\ pc \notin Holding
  PROVE  LockRight' /\ lock' \in Procs \cup {None}
BY Bounds DEF RowsConnected, ConnectionTypes, LockRight, Moves

LEMMA MovesRow ==
  ASSUME ConnectionTypes, NEW p \in Procs, NEW pc \in ProcSteps, NEW x \in Row,
         proc' = [proc EXCEPT ![p].pc = pc, ![p].row = x]
  PROVE  Moves(p, pc, proc[p].tok)
<1> DEFINE y == [proc[p] EXCEPT !.pc = pc, !.row = x]
<1>1. proc[p] \in AProcess /\ proc' = [proc EXCEPT ![p] = y]
  BY DEF ConnectionTypes
<1>2. y \in AProcess /\ y.pc = pc /\ y.tok = proc[p].tok
  BY <1>1 DEF AProcess
<1> HIDE DEF y
<1>3. QED
  BY <1>1, <1>2, MovesWith

LEMMA MovesFresh ==
  ASSUME ConnectionTypes, NEW p \in Procs, NEW pc \in ProcSteps, NEW x \in Row,
         proc' = [proc EXCEPT ![p].pc = pc, ![p].fresh = x]
  PROVE  Moves(p, pc, proc[p].tok)
<1> DEFINE y == [proc[p] EXCEPT !.pc = pc, !.fresh = x]
<1>1. proc[p] \in AProcess /\ proc' = [proc EXCEPT ![p] = y]
  BY DEF ConnectionTypes
<1>2. y \in AProcess /\ y.pc = pc /\ y.tok = proc[p].tok
  BY <1>1 DEF AProcess
<1> HIDE DEF y
<1>3. QED
  BY <1>1, <1>2, MovesWith

LEMMA MovesTok ==
  ASSUME ConnectionTypes, NEW p \in Procs, NEW pc \in ProcSteps,
         NEW x \in 0..MaxTokens,
         proc' = [proc EXCEPT ![p].pc = pc, ![p].tok = x]
  PROVE  Moves(p, pc, x)
<1> DEFINE y == [proc[p] EXCEPT !.pc = pc, !.tok = x]
<1>1. proc[p] \in AProcess /\ proc' = [proc EXCEPT ![p] = y]
  BY DEF ConnectionTypes
<1>2. y \in AProcess /\ y.pc = pc /\ y.tok = x
  BY <1>1 DEF AProcess
<1> HIDE DEF y
<1>3. QED
  BY <1>1, <1>2, MovesWith

\* A step of one job or call; a run that is queued has an attempt left.
LEMMA OnTheWay ==
  ASSUME RowsConnected, NEW p \in Procs, NEW pc, NEW tok, Moves(p, pc, tok),
         \/ lock' = lock /\ (pc \in Holding <=> proc[p].pc \in Holding)
         \/ lock = None /\ lock' = p /\ pc \in Holding
         \/ lock = p /\ lock' = None /\ pc \notin Holding,
         p \in Runs => proc[p].pc # "idle" /\ pc \notin {"idle", "enqueue"},
         p \in Runs /\ pc = "queued" => tries[p] < MaxTries,
         UNCHANGED <<tries, back, state, user, expired>>,
         \A r \in Runs : run'[r] = run[r] \/ run'[r] # "NONE",
         run' \in [Runs -> {"NONE", "PENDING", "RUNNING", "SUCCEEDED", "FAILED"}],
         conn' \in Row, cred' \in 0..MaxTokens,
         shop' \in [issued : 0..MaxTokens, live : SUBSET (1..MaxTokens)],
         past' \in [orphaned : SUBSET (0..MaxTokens),
                    again : SUBSET (0..MaxTokens), exchanges : [States -> Nat]],
         faults' \in [count : 0..MaxEvents, unqueued : SUBSET Runs],
         faults.count <= faults'.count
  PROVE  RowsConnected'
<1>1. LockRight' /\ lock' \in Procs \cup {None}
  BY LockKept
<1>2. ConnectionTypes'
  BY <1>1 DEF RowsConnected, ConnectionTypes, Moves
<1>3. RunsRight'
  <2> SUFFICES ASSUME NEW r \in Runs
               PROVE  /\ run'[r] = "NONE" => proc'[r].pc = "idle"
                      /\ run'[r] = "NONE" \/ proc'[r].pc = "enqueue" => tries[r] = 0
                      /\ tries[r] <= MaxTries + faults'.count
                      /\ proc'[r].pc = "queued" => tries[r] < MaxTries + faults'.count
    BY DEF RunsRight
  <2>1. r \in Procs /\ faults.count \in Nat /\ faults'.count \in Nat /\ tries[r] \in Nat
    BY Bounds DEF RowsConnected, ConnectionTypes
  <2>2. /\ run[r] = "NONE" => proc[r].pc = "idle"
        /\ run[r] = "NONE" \/ proc[r].pc = "enqueue" => tries[r] = 0
        /\ tries[r] <= MaxTries + faults.count
        /\ proc[r].pc = "queued" => tries[r] < MaxTries + faults.count
    BY DEF RowsConnected, RunsRight
  <2>3. tries[r] <= MaxTries + faults'.count
    BY <2>1, <2>2, Bounds
  <2>4. CASE r = p
    BY <2>1, <2>2, <2>3, <2>4, Bounds DEF Moves
  <2>5. CASE r # p
    BY <2>1, <2>2, <2>3, <2>5, Bounds DEF Moves
  <2>6. QED
    BY <2>4, <2>5
<1>4. QED
  BY <1>1, <1>2, <1>3 DEF RowsConnected, Asked

\* The renewal fails for its holder and for all who wait for it.
LEMMA AllRejected ==
  ASSUME RowsConnected, NEW p \in Procs, lock = p, Reject(p),
         UNCHANGED <<run, tries, back, state, user, expired, shop, past, faults>>,
         conn' \in Row, cred' \in 0..MaxTokens
  PROVE  RowsConnected'
<1>1. /\ proc[p].pc \in Holding
      /\ \A q \in Procs : proc[q].pc = "wait" => proc[q].pc \notin Holding
  BY DEF RowsConnected, LockRight, Holding
<1>2. ASSUME NEW q \in Procs
      PROVE  /\ proc'[q] \in AProcess
             /\ proc'[q].pc \notin Holding
             /\ \/ proc'[q] = proc[q]
                \/ /\ proc[q].pc \in Holding \cup {"wait"}
                   /\ proc'[q].pc = IF q \in Runs THEN "failing" ELSE "idle"
  <2>1. At("failing") \in AProcess /\ At("failing").pc = "failing"
        /\ At("idle") \in AProcess /\ At("idle").pc = "idle"
    BY AtStep DEF ProcSteps
  <2>2. Failed(q) \in AProcess /\ Failed(q).pc = IF q \in Runs THEN "failing" ELSE "idle"
    BY <2>1 DEF Failed
  <2>3. Failed(q).pc \notin Holding
    BY <2>2 DEF Holding
  <2>4. proc'[q] = IF q = p \/ proc[q].pc = "wait" THEN Failed(q) ELSE proc[q]
    BY DEF Reject
  <2>5. q # p => proc[q].pc \notin Holding
    BY DEF RowsConnected, LockRight
  <2>6. proc[q] \in AProcess
    BY DEF RowsConnected, ConnectionTypes
  <2>7. QED
    BY <1>1, <2>2, <2>3, <2>4, <2>5, <2>6
<1>3. lock' = None /\ LockRight'
  BY <1>2, Bounds DEF Reject, LockRight
<1>4. proc' = [q \in Procs |-> proc'[q]]
  BY DEF Reject
<1>5. proc' \in [Procs -> AProcess]
  BY <1>2, <1>4
<1>6. ConnectionTypes'
  BY <1>3, <1>5 DEF RowsConnected, ConnectionTypes
<1>7. RunsRight'
  <2> SUFFICES ASSUME NEW r \in Runs
               PROVE  /\ run[r] = "NONE" => proc'[r].pc = "idle"
                      /\ run[r] = "NONE" \/ proc'[r].pc = "enqueue" => tries[r] = 0
                      /\ tries[r] <= MaxTries + faults.count
                      /\ proc'[r].pc = "queued" => tries[r] < MaxTries + faults.count
    BY DEF RunsRight
  <2>1. r \in Procs
    BY Bounds
  <2>2. /\ run[r] = "NONE" => proc[r].pc = "idle"
        /\ run[r] = "NONE" \/ proc[r].pc = "enqueue" => tries[r] = 0
        /\ tries[r] <= MaxTries + faults.count
        /\ proc[r].pc = "queued" => tries[r] < MaxTries + faults.count
    BY DEF RowsConnected, RunsRight
  <2>3. "idle" \notin Holding \cup {"wait"}
    BY DEF Holding
  <2>4. QED
    BY <1>2, <2>1, <2>2, <2>3
<1>8. QED
  BY <1>3, <1>6, <1>7 DEF RowsConnected, Asked

\* A step that is none of a job's or a call's.
LEMMA NoneMoves ==
  ASSUME RowsConnected, ConnectionTypes', Asked',
         UNCHANGED <<proc, lock, run, tries>>, faults.count <= faults'.count
  PROVE  RowsConnected'
<1>1. LockRight'
  BY DEF RowsConnected, LockRight
<1>2. RunsRight'
  <2> SUFFICES ASSUME NEW r \in Runs
               PROVE  /\ run[r] = "NONE" => proc[r].pc = "idle"
                      /\ run[r] = "NONE" \/ proc[r].pc = "enqueue" => tries[r] = 0
                      /\ tries[r] <= MaxTries + faults'.count
                      /\ proc[r].pc = "queued" => tries[r] < MaxTries + faults'.count
    BY DEF RunsRight
  <2>1. faults.count \in Nat /\ faults'.count \in Nat /\ tries[r] \in Nat
    BY Bounds DEF RowsConnected, ConnectionTypes
  <2>2. QED
    BY <2>1, Bounds DEF RowsConnected, RunsRight
<1>3. QED
  BY <1>1, <1>2 DEF RowsConnected

LEMMA RunsKeepRows ==
  ASSUME RowsConnected, NEW r \in Runs,
         Request(r) \/ AddFails(r) \/ RunStep(r)
  PROVE  RowsConnected'
<1> USE DEF RowsConnected
<1>1. r \in Procs /\ proc[r] \in AProcess
  BY Bounds DEF ConnectionTypes
<1>2. /\ conn \in Row /\ cred \in 0..MaxTokens
      /\ shop \in [issued : 0..MaxTokens, live : SUBSET (1..MaxTokens)]
      /\ past \in [orphaned : SUBSET (0..MaxTokens),
                   again : SUBSET (0..MaxTokens), exchanges : [States -> Nat]]
      /\ faults \in [count : 0..MaxEvents, unqueued : SUBSET Runs]
      /\ run \in [Runs -> {"NONE", "PENDING", "RUNNING", "SUCCEEDED", "FAILED"}]
      /\ faults.count <= faults.count
  BY Bounds DEF ConnectionTypes
<1>3. CASE Request(r)
  <2>1. Moves(r, "enqueue", proc[r].tok)
    BY <1>1, <1>3, MovesTo DEF Request, ProcSteps
  <2>2. proc[r].pc = "idle" /\ tries[r] = 0
    BY <1>3 DEF Request, RunsRight
  <2>3. LockRight' /\ lock' \in Procs \cup {None}
    BY <1>1, <1>3, <2>1, <2>2, LockKept DEF Request, Holding
  <2>4. ConnectionTypes'
    BY <1>3, <2>1, <2>3
       DEF Request, ConnectionTypes, Moves, Unchanged_outside, Unchanged_shop
  <2>5. RunsRight'
    BY <1>1, <1>3, <2>1, <2>2, Bounds
       DEF Request, RunsRight, Moves, ConnectionTypes, Unchanged_shop
  <2>6. QED
    BY <1>3, <2>3, <2>4, <2>5 DEF Request, Asked, Unchanged_outside
<1>4. CASE AddJob(r)
  <2>1. Moves(r, "queued", proc[r].tok) /\ proc[r].pc = "enqueue"
    BY <1>1, <1>4, MovesTo DEF AddJob, ProcSteps
  <2>2. tries[r] < MaxTries
    BY <2>1, Bounds DEF RunsRight
  <2>3. QED
    BY <1>1, <1>2, <1>4, <2>1, <2>2, OnTheWay
       DEF AddJob, Holding, Unchanged_outside, Unchanged_shop
<1>5. CASE AddFails(r)
  <2>1. Moves(r, "done", 0) /\ proc[r].pc = "enqueue"
    BY <1>1, <1>5, MovesEnd DEF AddFails, End, ProcSteps
  <2>2. /\ faults' \in [count : 0..MaxEvents, unqueued : SUBSET Runs]
        /\ faults'.count = faults.count
    BY <1>2, <1>5 DEF AddFails
  <2>3. QED
    BY <1>1, <1>2, <1>5, <2>1, <2>2, OnTheWay
       DEF AddFails, Holding, Unchanged_outside
<1>6. CASE Start(r)
  <2>1. Moves(r, "check", proc[r].tok) /\ proc[r].pc = "queued"
    BY <1>1, <1>2, <1>6, MovesRow DEF Start, ProcSteps
  <2>2. /\ LockRight' /\ lock' \in Procs \cup {None}
    BY <1>1, <1>6, <2>1, LockKept DEF Start, Holding
  <2>3. tries \in [Runs -> Nat] /\ tries' = [tries EXCEPT ![r] = @ + 1]
        /\ run' = [run EXCEPT ![r] = "RUNNING"]
    BY <1>6 DEF Start, ConnectionTypes
  <2>4. ConnectionTypes'
    BY <1>2, <1>6, <2>1, <2>2, <2>3
       DEF Start, ConnectionTypes, Moves, Unchanged_outside, Unchanged_shop
  <2>5. tries[r] < MaxTries + faults.count
    BY <2>1 DEF RunsRight
  <2>6. RunsRight'
    <3> SUFFICES ASSUME NEW s \in Runs
                 PROVE  /\ run'[s] = "NONE" => proc'[s].pc = "idle"
                        /\ run'[s] = "NONE" \/ proc'[s].pc = "enqueue" => tries'[s] = 0
                        /\ tries'[s] <= MaxTries + faults.count
                        /\ proc'[s].pc = "queued" => tries'[s] < MaxTries + faults.count
      BY <1>6 DEF RunsRight, Start, Unchanged_shop
    <3>1. s \in Procs /\ tries[s] \in Nat /\ faults.count \in Nat
      BY <1>2, <2>3, Bounds
    <3>2. CASE s = r
      BY <1>2, <2>1, <2>3, <2>5, <3>1, <3>2, Bounds DEF Moves
    <3>3. CASE s # r
      BY <1>2, <2>1, <2>3, <3>1, <3>3 DEF Moves, RunsRight
    <3>4. QED
      BY <3>2, <3>3
  <2>7. QED
    BY <1>6, <2>2, <2>4, <2>6 DEF Start, Asked, Unchanged_outside
<1>7. CASE Finish(r)
  <2>1. Moves(r, "done", 0) /\ proc[r].pc = "work"
    BY <1>1, <1>7, MovesEnd DEF Finish, End, ProcSteps
  <2>2. /\ conn' \in Row /\ \A s \in Runs : run'[s] = run[s] \/ run'[s] # "NONE"
        /\ run' \in [Runs -> {"NONE", "PENDING", "RUNNING", "SUCCEEDED", "FAILED"}]
    BY <1>1, <1>2, <1>7 DEF Finish, AProcess
  <2>3. QED
    BY <1>1, <1>2, <1>7, <2>1, <2>2, OnTheWay
       DEF Finish, Holding, Unchanged_outside, Unchanged_shop
<1>8. CASE ReadForError(r)
  <2>1. Moves(r, "saveError", proc[r].tok) /\ proc[r].pc = "failing"
    BY <1>1, <1>2, <1>8, MovesRow DEF ReadForError, ProcSteps
  <2>2. QED
    BY <1>1, <1>2, <1>8, <2>1, OnTheWay
       DEF ReadForError, Holding, Unchanged_runs, Unchanged_outside, Unchanged_shop
<1>9. CASE SaveError(r)
  <2> DEFINE pc == IF tries[r] < MaxTries THEN "queued" ELSE "done"
  <2>1. pc \in {"queued", "done"} /\ (pc = "queued" => tries[r] < MaxTries)
    OBVIOUS
  <2>2. proc' = [proc EXCEPT ![r] = At(pc)] /\ proc[r].pc = "saveError"
    BY <1>9 DEF SaveError, End
  <2> HIDE DEF pc
  <2>3. Moves(r, pc, 0)
    BY <1>1, <2>1, <2>2, MovesEnd DEF ProcSteps
  <2>4. /\ conn' \in Row /\ \A s \in Runs : run'[s] = run[s] \/ run'[s] # "NONE"
        /\ run' \in [Runs -> {"NONE", "PENDING", "RUNNING", "SUCCEEDED", "FAILED"}]
    BY <1>1, <1>2, <1>9 DEF SaveError, AProcess
  <2>5. QED
    BY <1>1, <1>2, <1>9, <2>1, <2>2, <2>3, <2>4, OnTheWay
       DEF SaveError, Holding, Unchanged_outside, Unchanged_shop
<1>10. QED
  BY <1>3, <1>4, <1>5, <1>6, <1>7, <1>8, <1>9 DEF RunStep

\* The pairs the marketplace issues and takes back.
LEMMA ShopKept ==
  ASSUME ConnectionTypes, shop.issued < MaxTokens, NEW t
  PROVE  /\ Issue \in 1..MaxTokens
         /\ [issued |-> Issue, live |-> (shop.live \ {t}) \cup {Issue}]
              \in [issued : 0..MaxTokens, live : SUBSET (1..MaxTokens)]
         /\ [issued |-> Issue, live |-> shop.live \cup {Issue}]
              \in [issued : 0..MaxTokens, live : SUBSET (1..MaxTokens)]
<1> DEFINE i == shop.issued + 1
<1>1. i \in 1..MaxTokens /\ shop.live \in SUBSET (1..MaxTokens) /\ i \in 0..MaxTokens
  BY Bounds DEF ConnectionTypes
<1> HIDE DEF i
<1>2. /\ [issued |-> i, live |-> (shop.live \ {t}) \cup {i}]
              \in [issued : 0..MaxTokens, live : SUBSET (1..MaxTokens)]
      /\ [issued |-> i, live |-> shop.live \cup {i}]
              \in [issued : 0..MaxTokens, live : SUBSET (1..MaxTokens)]
  BY <1>1
<1>3. QED
  BY <1>1, <1>2 DEF Issue, i

LEMMA PresentedKept ==
  ASSUME ConnectionTypes, NEW t \in 0..MaxTokens
  PROVE  Presented(t) \in [orphaned : SUBSET (0..MaxTokens),
                  again : SUBSET (0..MaxTokens), exchanges : [States -> Nat]]
BY DEF ConnectionTypes, Presented

LEMMA RenewalKeepsRows ==
  ASSUME RowsConnected, NEW p \in Procs,
         TokenStep(p) \/ RenewUnheard(p) \/ WorkFails(p)
  PROVE  RowsConnected'
<1> DEFINE lost == IF p \in Runs THEN "failing" ELSE "idle"
<1>1. /\ proc[p] \in AProcess /\ proc[p].tok \in 0..MaxTokens
      /\ lost \in ProcSteps /\ lost \notin Holding
      /\ lost \notin {"queued", "enqueue"} /\ (lost = "idle" => p \notin Runs)
  BY DEF RowsConnected, ConnectionTypes, AProcess, ProcSteps, Holding
<1>2. /\ conn \in Row /\ cred \in 0..MaxTokens
      /\ shop \in [issued : 0..MaxTokens, live : SUBSET (1..MaxTokens)]
      /\ past \in [orphaned : SUBSET (0..MaxTokens),
                   again : SUBSET (0..MaxTokens), exchanges : [States -> Nat]]
      /\ faults \in [count : 0..MaxEvents, unqueued : SUBSET Runs]
      /\ run \in [Runs -> {"NONE", "PENDING", "RUNNING", "SUCCEEDED", "FAILED"}]
      /\ faults.count <= faults.count /\ ConnectionTypes
      /\ \A q \in Procs : proc[q].pc \in Holding <=> lock = q
  BY Bounds DEF RowsConnected, ConnectionTypes, LockRight
<1> USE DEF Unchanged_runs, Unchanged_outside, Unchanged_shop
<1>3. CASE Check(p)
  <2>1. CASE Keep(p, "creds") /\ UNCHANGED lock
    <3>1. Moves(p, "creds", 0)
      BY <1>2, <2>1, MovesKeep DEF ProcSteps
    <3>2. QED
      BY <1>2, <1>3, <2>1, <3>1, OnTheWay DEF Check, Holding
  <2>2. CASE Keep(p, "fresh") /\ lock = None /\ lock' = p
    <3>1. Moves(p, "fresh", 0)
      BY <1>2, <2>2, MovesKeep DEF ProcSteps
    <3>2. QED
      BY <1>2, <1>3, <2>2, <3>1, OnTheWay DEF Check, Holding
  <2>3. CASE Keep(p, "wait") /\ UNCHANGED lock
    <3>1. Moves(p, "wait", 0)
      BY <1>2, <2>3, MovesKeep DEF ProcSteps
    <3>2. QED
      BY <1>2, <1>3, <2>3, <3>1, OnTheWay DEF Check, Holding
  <2>4. QED
    BY <1>3, <2>1, <2>2, <2>3 DEF Check
<1>4. CASE ReadCreds(p)
  <2>1. CASE cred = 0
    <3>1. Moves(p, lost, 0)
      BY <1>2, <1>4, <2>1, MovesFailed DEF ReadCreds
    <3>2. QED
      BY <1>1, <1>2, <1>4, <3>1, OnTheWay DEF ReadCreds, Holding
  <2>2. CASE cred # 0
    <3>1. Moves(p, "work", 0)
      BY <1>2, <1>4, <2>2, MovesKeep DEF ReadCreds, ProcSteps
    <3>2. QED
      BY <1>2, <1>4, <3>1, OnTheWay DEF ReadCreds, Holding
  <2>3. QED
    BY <2>1, <2>2
<1>5. CASE Wake(p)
  <2>1. Moves(p, "fresh", proc[p].tok)
    BY <1>2, <1>5, MovesTo DEF Wake, ProcSteps
  <2>2. QED
    BY <1>2, <1>5, <2>1, OnTheWay DEF Wake, Holding
<1>6. CASE ReadFresh(p)
  <2>1. Moves(p, "current", proc[p].tok)
    BY <1>2, <1>6, MovesFresh DEF ReadFresh, ProcSteps
  <2>2. QED
    BY <1>2, <1>6, <2>1, OnTheWay DEF ReadFresh, Holding
<1>7. CASE ReadCurrent(p)
  <2>1. lock = p /\ proc[p].pc = "current"
    BY <1>2, <1>7 DEF ReadCurrent, Holding
  <2>2. CASE Reject(p)
    BY <1>2, <1>7, <2>1, <2>2, AllRejected DEF ReadCurrent
  <2>3. CASE Keep(p, "work") /\ lock' = None
    <3>1. Moves(p, "work", 0)
      BY <1>2, <2>3, MovesKeep DEF ProcSteps
    <3>2. QED
      BY <1>2, <1>7, <2>1, <2>3, <3>1, OnTheWay DEF ReadCurrent, Holding
  <2>4. CASE proc' = [proc EXCEPT ![p].pc = "renew", ![p].tok = cred] /\ UNCHANGED lock
    <3>1. Moves(p, "renew", cred)
      BY <1>2, <2>4, MovesTok DEF ProcSteps
    <3>2. QED
      BY <1>2, <1>7, <2>4, <3>1, OnTheWay DEF ReadCurrent, Holding
  <2>5. QED
    BY <1>7, <2>2, <2>3, <2>4 DEF ReadCurrent
<1>8. CASE Renew(p)
  <2>1. shop.issued < MaxTokens
    BY <1>8 DEF Renew
  <2>2. /\ Issue \in 0..MaxTokens
        /\ shop' \in [issued : 0..MaxTokens, live : SUBSET (1..MaxTokens)]
    BY <1>2, <1>8, <2>1, ShopKept, Bounds DEF Renew
  <2>3. past' \in [orphaned : SUBSET (0..MaxTokens),
                   again : SUBSET (0..MaxTokens), exchanges : [States -> Nat]]
    BY <1>1, <1>2, <1>8, PresentedKept DEF Renew
  <2>4. Moves(p, "saveCred", Issue)
    BY <1>2, <1>8, <2>2, MovesTok DEF Renew, ProcSteps
  <2>5. QED
    BY <1>2, <1>8, <2>2, <2>3, <2>4, OnTheWay DEF Renew, Holding
<1>9. CASE RenewUnheard(p)
  <2>1. shop.issued < MaxTokens /\ faults.count < MaxEvents
    BY <1>9 DEF RenewUnheard
  <2>2. shop' \in [issued : 0..MaxTokens, live : SUBSET (1..MaxTokens)]
    BY <1>2, <1>9, <2>1, ShopKept DEF RenewUnheard
  <2>3. past' \in [orphaned : SUBSET (0..MaxTokens),
                   again : SUBSET (0..MaxTokens), exchanges : [States -> Nat]]
    BY <1>1, <1>2, <1>9 DEF RenewUnheard
  <2>4. Moves(p, "refused", proc[p].tok)
    BY <1>2, <1>9, MovesTo DEF RenewUnheard, ProcSteps
  <2>5. /\ faults' \in [count : 0..MaxEvents, unqueued : SUBSET Runs]
        /\ faults.count <= faults'.count
    BY <1>2, <1>9, <2>1, Bounds DEF RenewUnheard
  <2>6. QED
    BY <1>2, <1>9, <2>2, <2>3, <2>4, <2>5, OnTheWay DEF RenewUnheard, Holding
<1>10. CASE RenewRefused(p)
  <2>1. past' \in [orphaned : SUBSET (0..MaxTokens),
                   again : SUBSET (0..MaxTokens), exchanges : [States -> Nat]]
    BY <1>1, <1>2, <1>10, PresentedKept DEF RenewRefused
  <2>2. Moves(p, "refused", proc[p].tok)
    BY <1>2, <1>10, MovesTo DEF RenewRefused, ProcSteps
  <2>3. QED
    BY <1>2, <1>10, <2>1, <2>2, OnTheWay DEF RenewRefused, Holding
<1>11. CASE SaveRenewed(p)
  <2>1. Moves(p, "saveRow", proc[p].tok)
    BY <1>2, <1>11, MovesTo DEF SaveRenewed, ProcSteps
  <2>2. QED
    BY <1>1, <1>2, <1>11, <2>1, OnTheWay DEF SaveRenewed, Holding
<1>12. CASE SaveFresh(p)
  <2>1. conn' \in Row
    BY <1>1, <1>12 DEF SaveFresh, AProcess, Row
  <2>2. Moves(p, "work", 0)
    BY <1>2, <1>12, MovesKeep DEF SaveFresh, ProcSteps
  <2>3. lock = p
    BY <1>2, <1>12 DEF SaveFresh, Holding
  <2>4. QED
    BY <1>2, <1>12, <2>1, <2>2, <2>3, OnTheWay DEF SaveFresh, Holding
<1>13. CASE SaveRefused(p)
  <2>1. conn' \in Row
    BY <1>1, <1>13 DEF SaveRefused, AProcess, Row, Status
  <2>2. lock = p
    BY <1>2, <1>13 DEF SaveRefused, Holding
  <2>3. QED
    BY <1>2, <1>13, <2>1, <2>2, AllRejected DEF SaveRefused
<1>14. CASE WorkFails(p)
  <2>1. Moves(p, lost, 0)
    BY <1>2, <1>14, MovesFailed DEF WorkFails
  <2>2. QED
    BY <1>1, <1>2, <1>14, <2>1, OnTheWay DEF WorkFails, Holding
<1>15. QED
  BY <1>3, <1>4, <1>5, <1>6, <1>7, <1>8, <1>9, <1>10, <1>11, <1>12, <1>13, <1>14
     DEF TokenStep

LEMMA CallersKeepRows ==
  ASSUME RowsConnected, NEW c \in Callers, Call(c) \/ Done(c)
  PROVE  RowsConnected'
<1>1. /\ c \in Procs /\ c \notin Runs
      /\ conn \in Row /\ cred \in 0..MaxTokens /\ conn.expiry \in 0..MaxTokens
      /\ shop \in [issued : 0..MaxTokens, live : SUBSET (1..MaxTokens)]
      /\ past \in [orphaned : SUBSET (0..MaxTokens),
                   again : SUBSET (0..MaxTokens), exchanges : [States -> Nat]]
      /\ faults \in [count : 0..MaxEvents, unqueued : SUBSET Runs]
      /\ run \in [Runs -> {"NONE", "PENDING", "RUNNING", "SUCCEEDED", "FAILED"}]
      /\ faults.count <= faults.count /\ ConnectionTypes
  BY Bounds DEF RowsConnected, ConnectionTypes, Row
<1> USE DEF Unchanged_runs, Unchanged_outside, Unchanged_shop
<1>2. CASE Call(c)
  <2>1. [NoRow EXCEPT !.expiry = conn.expiry] \in Row
    BY <1>1, AtStep DEF Row
  <2>2. Moves(c, "check", proc[c].tok)
    BY <1>1, <1>2, <2>1, MovesRow DEF Call, ProcSteps
  <2>3. QED
    BY <1>1, <1>2, <2>2, OnTheWay DEF Call, Holding
<1>3. CASE Done(c)
  <2>1. Moves(c, "idle", 0)
    BY <1>1, <1>3, MovesEnd DEF Done, End, ProcSteps
  <2>2. QED
    BY <1>1, <1>3, <2>1, OnTheWay DEF Done, Holding
<1>4. QED
  BY <1>2, <1>3

ACallback == [pc : {"idle", "exchange", "saveCred", "saveRow"},
              state : States \cup {None}, tok : 0..MaxTokens]

LEMMA CallbacksKeepRows ==
  ASSUME RowsConnected, NEW c \in Callbacks,
         \/ \E s \in States : ConsumeState(c, s)
         \/ ExchangeCode(c) \/ SaveCredentials(c) \/ SaveConnection(c)
  PROVE  RowsConnected'
<1>1. /\ ConnectionTypes /\ back[c] \in ACallback
      /\ back \in [Callbacks -> ACallback] /\ NoCallback \in ACallback
      /\ faults.count <= faults.count
  BY Bounds DEF RowsConnected, ConnectionTypes, ACallback, NoCallback
<1>2. UNCHANGED user => Asked'
  BY DEF RowsConnected, Asked
<1> USE DEF Unchanged_runs, Unchanged_outside, Unchanged_shop
<1>3. ASSUME NEW s \in States, ConsumeState(c, s)
      PROVE  RowsConnected'
  <2>1. back' \in [Callbacks -> ACallback]
    BY <1>1, <1>3 DEF ConsumeState, ACallback
  <2>2. state' \in [States -> {"none", "open", "consumed"}]
    BY <1>1, <1>3 DEF ConsumeState, ConnectionTypes
  <2>3. ConnectionTypes'
    BY <1>1, <1>3, <2>1, <2>2 DEF ConsumeState, ConnectionTypes, ACallback
  <2>4. QED
    BY <1>1, <1>2, <1>3, <2>3, NoneMoves DEF ConsumeState
<1>4. CASE ExchangeCode(c)
  <2>1. past' \in [orphaned : SUBSET (0..MaxTokens),
                   again : SUBSET (0..MaxTokens), exchanges : [States -> Nat]]
    <3>1. past' = [past EXCEPT !.exchanges[back[c].state] = @ + 1]
      BY <1>4 DEF ExchangeCode
    <3>2. past \in [orphaned : SUBSET (0..MaxTokens),
                    again : SUBSET (0..MaxTokens), exchanges : [States -> Nat]]
      BY <1>1 DEF ConnectionTypes
    <3>3. CASE back[c].state \in States
      BY <3>1, <3>2, <3>3
    <3>4. CASE back[c].state \notin States
      BY <3>1, <3>2, <3>4
    <3>5. QED
      BY <3>3, <3>4
  <2>2. /\ back' \in [Callbacks -> ACallback]
        /\ shop' \in [issued : 0..MaxTokens, live : SUBSET (1..MaxTokens)]
    <3>1. CASE UNCHANGED shop
      BY <1>1, <1>4, <3>1 DEF ExchangeCode, ConnectionTypes, ACallback
    <3>2. CASE /\ shop.issued < MaxTokens
               /\ shop' = [issued |-> Issue, live |-> shop.live \cup {Issue}]
      <4>1. /\ Issue \in 1..MaxTokens
            /\ shop' \in [issued : 0..MaxTokens, live : SUBSET (1..MaxTokens)]
        BY <1>1, <3>2, ShopKept
      <4>2. Issue \in 0..MaxTokens
        BY <4>1, Bounds
      <4>3. CASE back' = [back EXCEPT ![c].pc = "saveCred", ![c].tok = Issue]
        BY <1>1, <4>1, <4>2, <4>3 DEF ACallback
      <4>4. CASE back' = [back EXCEPT ![c] = NoCallback]
        BY <1>1, <4>1, <4>4
      <4>5. QED
        BY <1>4, <3>1, <4>3, <4>4 DEF ExchangeCode
    <3>3. QED
      BY <1>4, <3>1, <3>2 DEF ExchangeCode
  <2>3. ConnectionTypes'
    BY <1>1, <1>4, <2>1, <2>2 DEF ExchangeCode, ConnectionTypes, ACallback
  <2>4. QED
    BY <1>1, <1>2, <1>4, <2>3, NoneMoves DEF ExchangeCode
<1>5. CASE SaveCredentials(c)
  <2>1. back' \in [Callbacks -> ACallback] /\ cred' \in 0..MaxTokens
    BY <1>1, <1>5 DEF SaveCredentials, ACallback
  <2>2. ConnectionTypes'
    BY <1>1, <1>5, <2>1 DEF SaveCredentials, ConnectionTypes, ACallback
  <2>3. QED
    BY <1>1, <1>2, <1>5, <2>2, NoneMoves DEF SaveCredentials
<1>6. CASE SaveConnection(c)
  <2>1. back' \in [Callbacks -> ACallback] /\ conn' \in Row
    BY <1>1, <1>6 DEF SaveConnection, ACallback, Row, Status
  <2>2. ConnectionTypes'
    BY <1>1, <1>6, <2>1 DEF SaveConnection, ConnectionTypes, ACallback
  <2>3. QED
    BY <1>1, <1>2, <1>6, <2>2, NoneMoves DEF SaveConnection
<1>7. QED
  BY <1>3, <1>4, <1>5, <1>6

LEMMA UsersKeepRows ==
  ASSUME RowsConnected,
         \/ \E s \in States : Authorize(s)
         \/ \E op \in Ops : BeginOp(op)
         \/ DeleteCredentials \/ SaveOp \/ Expire
  PROVE  RowsConnected'
<1>1. /\ ConnectionTypes /\ faults.count <= faults.count /\ NoRow \in Row
      /\ user \in [pc : {"idle", "delete", "save"}, op : Ops \cup {None}, row : Row]
      /\ conn \in Row /\ faults \in [count : 0..MaxEvents, unqueued : SUBSET Runs]
      /\ shop.issued \in 0..MaxTokens
  BY Bounds, AtStep DEF RowsConnected, ConnectionTypes
<1>2. UNCHANGED user => Asked'
  BY DEF RowsConnected, Asked
<1> USE DEF Unchanged_runs, Unchanged_outside, Unchanged_shop
<1>3. ASSUME NEW s \in States, Authorize(s)
      PROVE  RowsConnected'
  <2>1. ConnectionTypes'
    BY <1>1, <1>3 DEF Authorize, ConnectionTypes
  <2>2. QED
    BY <1>1, <1>2, <1>3, <2>1, NoneMoves DEF Authorize
<1>4. ASSUME NEW op \in Ops, BeginOp(op)
      PROVE  RowsConnected'
  <2>1. user' \in [pc : {"idle", "delete", "save"}, op : Ops \cup {None}, row : Row]
        /\ user'.op \in Ops
    BY <1>1, <1>4 DEF BeginOp
  <2>2. /\ faults' \in [count : 0..MaxEvents, unqueued : SUBSET Runs]
        /\ faults.count <= faults'.count
    BY <1>1, <1>4, Bounds DEF BeginOp
  <2>3. ConnectionTypes'
    BY <1>1, <1>4, <2>1, <2>2 DEF BeginOp, ConnectionTypes
  <2>4. QED
    BY <1>1, <1>4, <2>1, <2>2, <2>3, NoneMoves DEF BeginOp, Asked
<1>5. CASE DeleteCredentials
  <2>1. user' \in [pc : {"idle", "delete", "save"}, op : Ops \cup {None}, row : Row]
        /\ user'.op = user.op /\ user.op \in Ops
    BY <1>1, <1>5 DEF DeleteCredentials, RowsConnected, Asked
  <2>2. ConnectionTypes'
    BY <1>1, <1>5, <2>1, Bounds DEF DeleteCredentials, ConnectionTypes
  <2>3. QED
    BY <1>1, <1>5, <2>1, <2>2, NoneMoves DEF DeleteCredentials, Asked
<1>6. CASE SaveOp
  <2>1. user.row \in Row /\ user.op \in Ops
    BY <1>1, <1>6 DEF SaveOp, RowsConnected, Asked
  <2>2. NewStatus(user.op, user.row.status) \in Status
    BY <2>1, Bounds DEF NewStatus, Row, Status
  <2>3. conn' \in Row
    BY <1>6, <2>1, <2>2 DEF SaveOp, Row
  <2>4. user' \in [pc : {"idle", "delete", "save"}, op : Ops \cup {None}, row : Row]
        /\ user'.pc = "idle"
    BY <1>1, <1>6 DEF SaveOp
  <2>5. ConnectionTypes'
    BY <1>1, <1>6, <2>3, <2>4 DEF SaveOp, ConnectionTypes
  <2>6. QED
    BY <1>1, <1>6, <2>4, <2>5, NoneMoves DEF SaveOp, Asked
<1>7. CASE Expire
  <2>1. ConnectionTypes'
    BY <1>1, <1>7 DEF Expire, ConnectionTypes
  <2>2. QED
    BY <1>1, <1>2, <1>7, <2>1, NoneMoves DEF Expire
<1>8. QED
  BY <1>3, <1>4, <1>5, <1>6, <1>7

\* Where a job and a call are after the end of the process.
AfterCrash(p) == IF p \in Callers THEN "idle"
                 ELSE CASE proc[p].pc \in {"idle", "done"} -> proc[p].pc
                        [] proc[p].pc = "enqueue" -> "done"
                        [] OTHER -> "queued"

LEMMA CrashKeepsRows ==
  ASSUME RowsConnected, Crash
  PROVE  RowsConnected'
<1>1. /\ ConnectionTypes /\ NoRow \in Row
      /\ user \in [pc : {"idle", "delete", "save"}, op : Ops \cup {None}, row : Row]
      /\ faults \in [count : 0..MaxEvents, unqueued : SUBSET Runs]
  BY AtStep DEF RowsConnected, ConnectionTypes
<1>2. proc' = [p \in Procs |-> At(AfterCrash(p))]
  BY DEF Crash, AfterCrash
<1>3. ASSUME NEW p \in Procs
      PROVE  /\ AfterCrash(p) \in {"idle", "done", "queued"}
             /\ AfterCrash(p) = "idle" => p \in Callers \/ proc[p].pc = "idle"
             /\ p \in Runs /\ proc[p].pc = "idle" => AfterCrash(p) = "idle"
             /\ proc'[p] \in AProcess /\ proc'[p].pc = AfterCrash(p)
             /\ proc'[p].tok = 0
  <2>1. AfterCrash(p) \in {"idle", "done", "queued"}
    BY DEF AfterCrash
  <2>2. AfterCrash(p) \in ProcSteps
    BY <2>1 DEF ProcSteps
  <2>3. proc'[p] = At(AfterCrash(p))
    BY <1>2
  <2>4. AfterCrash(p) = "idle" => p \in Callers \/ proc[p].pc = "idle"
    BY DEF AfterCrash
  <2>5. p \in Runs /\ proc[p].pc = "idle" => AfterCrash(p) = "idle"
    BY Bounds DEF AfterCrash
  <2>6. QED
    BY <2>1, <2>2, <2>3, <2>4, <2>5, AtStep
<1>4. proc' \in [Procs -> AProcess]
  BY <1>2, <1>3
<1>5. LockRight'
  BY <1>3, Bounds DEF Crash, LockRight, Holding
<1>6. /\ faults' \in [count : 0..MaxEvents, unqueued : SUBSET Runs]
      /\ faults'.count = faults.count + 1
  <2> DEFINE started == {r \in Runs : proc[r].pc = "enqueue"}
  <2>1. faults.count < MaxEvents
        /\ faults' = [faults EXCEPT !.count = @ + 1, !.unqueued = @ \cup started]
    BY DEF Crash
  <2>2. started \subseteq Runs
    OBVIOUS
  <2> HIDE DEF started
  <2>3. faults.count + 1 \in 0..MaxEvents
    BY <1>1, <2>1, Bounds
  <2>4. QED
    BY <1>1, <2>1, <2>2, <2>3
<1>7. user' \in [pc : {"idle", "delete", "save"}, op : Ops \cup {None}, row : Row]
      /\ user'.pc = "idle"
  BY <1>1 DEF Crash
<1>8. past' \in [orphaned : SUBSET (0..MaxTokens),
                 again : SUBSET (0..MaxTokens), exchanges : [States -> Nat]]
  BY <1>1 DEF Crash, ConnectionTypes
<1>9. back' \in [Callbacks -> ACallback]
  BY Bounds DEF Crash, NoCallback, ACallback
<1>10. ConnectionTypes'
  BY <1>1, <1>4, <1>6, <1>7, <1>8, <1>9 DEF Crash, ConnectionTypes, ACallback
<1>11. RunsRight'
  <2> SUFFICES ASSUME NEW r \in Runs
               PROVE  /\ run[r] = "NONE" => proc'[r].pc = "idle"
                      /\ run[r] = "NONE" \/ proc'[r].pc = "enqueue" => tries[r] = 0
                      /\ tries[r] <= MaxTries + faults'.count
                      /\ proc'[r].pc = "queued" => tries[r] < MaxTries + faults'.count
    BY DEF RunsRight, Crash
  <2>1. /\ r \in Procs /\ tries[r] \in Nat /\ faults.count \in Nat
    BY <1>1, Bounds DEF ConnectionTypes
  <2>2. /\ run[r] = "NONE" => proc[r].pc = "idle"
        /\ run[r] = "NONE" => tries[r] = 0
        /\ tries[r] <= MaxTries + faults.count
    BY DEF RowsConnected, RunsRight
  <2>3. /\ tries[r] <= MaxTries + faults'.count
        /\ tries[r] < MaxTries + faults'.count
    BY <1>6, <2>1, <2>2, Bounds
  <2>4. QED
    BY <1>3, <2>1, <2>2, <2>3
<1>12. QED
  BY <1>5, <1>7, <1>10, <1>11 DEF RowsConnected, Asked

LEMMA RowsKept == RowsConnected /\ [Next]_vars => RowsConnected'
<1> SUFFICES ASSUME RowsConnected, [Next]_vars
             PROVE  RowsConnected'
  OBVIOUS
<1>1. CASE Next
  BY <1>1, RunsKeepRows, RenewalKeepsRows, CallersKeepRows, CallbacksKeepRows,
     UsersKeepRows, CrashKeepsRows DEF Next
<1>2. CASE UNCHANGED vars
  BY <1>2 DEF vars, RowsConnected, ConnectionTypes, LockRight, RunsRight, Asked
<1>3. QED
  BY <1>1, <1>2

LEMMA RowsBegin == Init => RowsConnected
<1> SUFFICES ASSUME Init
             PROVE  RowsConnected
  OBVIOUS
<1>1. /\ NoRow \in Row /\ At("idle") \in AProcess
      /\ At("idle").pc = "idle" /\ "idle" \notin Holding
  BY AtStep DEF ProcSteps, Holding
<1>2. ConnectionTypes
  <2>1. proc \in [Procs -> AProcess]
    BY <1>1 DEF Init
  <2>2. /\ conn \in Row /\ cred \in 0..MaxTokens /\ expired \in 0..MaxTokens
        /\ shop \in [issued : 0..MaxTokens, live : SUBSET (1..MaxTokens)]
    <3>1. /\ "CONNECTED" \in Status /\ "PENDING" \in Status
          /\ 0 \in 0..MaxTokens /\ 1 \in 0..MaxTokens /\ 1 \in 1..MaxTokens
      BY Bounds DEF Status
    <3>2. QED
      BY <3>1 DEF Init, Row
  <2>3. /\ run \in [Runs -> {"NONE", "PENDING", "RUNNING", "SUCCEEDED", "FAILED"}]
        /\ tries \in [Runs -> Nat]
        /\ lock \in Procs \cup {None}
        /\ back \in [Callbacks -> ACallback]
        /\ state \in [States -> {"none", "open", "consumed"}]
    BY Bounds DEF Init, ACallback, NoCallback
  <2>4. /\ user \in [pc : {"idle", "delete", "save"}, op : Ops \cup {None}, row : Row]
        /\ past \in [orphaned : SUBSET (0..MaxTokens), again : SUBSET (0..MaxTokens),
                     exchanges : [States -> Nat]]
        /\ faults \in [count : 0..MaxEvents, unqueued : SUBSET Runs]
    BY <1>1, Bounds DEF Init
  <2>5. QED
    BY <2>1, <2>2, <2>3, <2>4 DEF ConnectionTypes, ACallback
<1>3. LockRight
  BY <1>1, Bounds DEF Init, LockRight
<1>4. RunsRight
  BY <1>1, Bounds DEF Init, RunsRight
<1>5. QED
  BY <1>2, <1>3, <1>4 DEF RowsConnected, Asked, Init

-----------------------------------------------------------------------------
(* The pairs of tokens: which of them the marketplace still accepts.       *)

Renewing == {"renew", "saveCred"}

\* Every pair in use was issued, so that the next one is new.
PairsIssued ==
  /\ cred <= shop.issued
  /\ \A t \in shop.live : t <= shop.issued
  /\ \A p \in Procs : proc[p].pc \in Renewing => proc[p].tok <= shop.issued
  /\ \A c \in Callbacks : back[c].pc = "saveCred" => back[c].tok <= shop.issued

\* The stored pair is accepted, or its answer was lost, or its successor is
\* about to be stored.
StoredAccepted ==
  \/ cred = 0 \/ cred \in shop.live \cup past.orphaned
  \/ \E p \in Procs : proc[p].pc = "saveCred"

RenewalAccepted ==
  \A p \in Procs :
    /\ proc[p].pc = "renew" => proc[p].tok \in shop.live \cup past.orphaned
    /\ proc[p].pc = "saveCred" => proc[p].tok \in shop.live

\* The pair of a redirect is nobody else's until it is stored.
RedirectAccepted ==
  \A c \in Callbacks : back[c].pc = "saveCred" =>
    /\ back[c].tok \in shop.live /\ back[c].tok # cred
    /\ \A p \in Procs : proc[p].pc \in Renewing => proc[p].tok # back[c].tok
    /\ \A d \in Callbacks \ {c} :
          back[d].pc = "saveCred" => back[d].tok # back[c].tok

TokensRight ==
  /\ PairsIssued /\ StoredAccepted /\ RenewalAccepted /\ RedirectAccepted
  /\ TokenSpentOnce

\* A step that is no part of a renewal for p, or of a storage for c.
StaysOut(p) ==
  proc[p].pc \in Renewing \/ proc'[p].pc \in Renewing =>
    proc'[p].pc = proc[p].pc /\ proc'[p].tok = proc[p].tok

Stores(c) ==
  back[c].pc = "saveCred" \/ back'[c].pc = "saveCred" =>
    back'[c].pc = back[c].pc /\ back'[c].tok = back[c].tok

LEMMA TokensUntouched ==
  ASSUME TokensRight, UNCHANGED <<cred, shop, past>>,
         \A p \in Procs : StaysOut(p), \A c \in Callbacks : Stores(c)
  PROVE  TokensRight'
<1>1. PairsIssued'
  BY DEF TokensRight, PairsIssued, StaysOut, Stores
<1>2. StoredAccepted'
  BY DEF TokensRight, StoredAccepted, StaysOut, Renewing
<1>3. RenewalAccepted'
  BY DEF TokensRight, RenewalAccepted, StaysOut, Renewing
<1>4. RedirectAccepted'
  BY DEF TokensRight, RedirectAccepted, StaysOut, Stores
<1>5. QED
  BY <1>1, <1>2, <1>3, <1>4 DEF TokensRight, TokenSpentOnce

LEMMA OutOfRenewal ==
  ASSUME NEW p \in Procs, NEW pc, NEW tok, Moves(p, pc, tok),
         proc[p].pc \notin Renewing, pc \notin Renewing
  PROVE  \A q \in Procs : StaysOut(q)
BY DEF Moves, StaysOut

LEMMA RunsStayOut ==
  ASSUME ConnectionTypes, NEW r \in Runs,
         Request(r) \/ AddFails(r) \/ RunStep(r), RunsRight
  PROVE  /\ \A q \in Procs : StaysOut(q)
         /\ UNCHANGED <<cred, shop, past, back, state>>
<1>1. /\ r \in Procs /\ conn \in Row /\ proc[r] \in AProcess
      /\ run[r] = "NONE" => proc[r].pc = "idle"
  BY Bounds DEF ConnectionTypes, RunsRight
<1> USE DEF Unchanged_runs, Unchanged_outside, Unchanged_shop
<1>2. UNCHANGED <<cred, shop, past, back, state>>
  BY DEF Request, AddFails, RunStep, AddJob, Start, Finish, ReadForError, SaveError
<1>3. CASE Request(r)
  <2>1. Moves(r, "enqueue", proc[r].tok) /\ proc[r].pc = "idle"
    BY <1>1, <1>3, MovesTo DEF Request, ProcSteps
  <2>2. QED
    BY <1>1, <1>2, <2>1, OutOfRenewal DEF Renewing
<1>4. CASE AddJob(r)
  <2>1. Moves(r, "queued", proc[r].tok) /\ proc[r].pc = "enqueue"
    BY <1>1, <1>4, MovesTo DEF AddJob, ProcSteps
  <2>2. QED
    BY <1>1, <1>2, <2>1, OutOfRenewal DEF Renewing
<1>5. CASE AddFails(r)
  <2>1. Moves(r, "done", 0) /\ proc[r].pc = "enqueue"
    BY <1>1, <1>5, MovesEnd DEF AddFails, End, ProcSteps
  <2>2. QED
    BY <1>1, <1>2, <2>1, OutOfRenewal DEF Renewing
<1>6. CASE Start(r)
  <2>1. Moves(r, "check", proc[r].tok) /\ proc[r].pc = "queued"
    BY <1>1, <1>6, MovesRow DEF Start, ProcSteps
  <2>2. QED
    BY <1>1, <1>2, <2>1, OutOfRenewal DEF Renewing
<1>7. CASE Finish(r)
  <2>1. Moves(r, "done", 0) /\ proc[r].pc = "work"
    BY <1>1, <1>7, MovesEnd DEF Finish, End, ProcSteps
  <2>2. QED
    BY <1>1, <1>2, <2>1, OutOfRenewal DEF Renewing
<1>8. CASE ReadForError(r)
  <2>1. Moves(r, "saveError", proc[r].tok) /\ proc[r].pc = "failing"
    BY <1>1, <1>8, MovesRow DEF ReadForError, ProcSteps
  <2>2. QED
    BY <1>1, <1>2, <2>1, OutOfRenewal DEF Renewing
<1>9. CASE SaveError(r)
  <2> DEFINE pc == IF tries[r] < MaxTries THEN "queued" ELSE "done"
  <2>1. pc \in {"queued", "done"}
    OBVIOUS
  <2>2. proc' = [proc EXCEPT ![r] = At(pc)] /\ proc[r].pc = "saveError"
    BY <1>9 DEF SaveError, End
  <2> HIDE DEF pc
  <2>3. Moves(r, pc, 0)
    BY <1>1, <2>1, <2>2, MovesEnd DEF ProcSteps
  <2>4. QED
    BY <1>1, <1>2, <2>1, <2>2, <2>3, OutOfRenewal DEF Renewing
<1>10. QED
  BY <1>3, <1>4, <1>5, <1>6, <1>7, <1>8, <1>9 DEF RunStep

LEMMA RejectedStayOut ==
  ASSUME ConnectionTypes, NEW p \in Procs, Reject(p), proc[p].pc \notin Renewing
  PROVE  \A q \in Procs : StaysOut(q)
<1> SUFFICES ASSUME NEW q \in Procs
             PROVE  StaysOut(q)
  OBVIOUS
<1>1. proc'[q] = IF q = p \/ proc[q].pc = "wait" THEN Failed(q) ELSE proc[q]
  BY DEF Reject
<1>2. Failed(q).pc \in {"failing", "idle"}
  BY DEF Failed, At
<1>3. QED
  BY <1>1, <1>2 DEF StaysOut, Renewing

\* The steps of a job or a call that renew nothing.
LEMMA ReadersStayOut ==
  ASSUME ConnectionTypes, NEW p \in Procs,
         \/ Check(p) \/ ReadCreds(p) \/ Wake(p) \/ ReadFresh(p)
         \/ SaveFresh(p) \/ SaveRefused(p) \/ WorkFails(p)
         \/ p \in Callers /\ (Call(p) \/ Done(p))
  PROVE  /\ \A q \in Procs : StaysOut(q)
         /\ UNCHANGED <<cred, shop, past, back, state>>
<1> DEFINE lost == IF p \in Runs THEN "failing" ELSE "idle"
<1>1. conn \in Row /\ lost \notin Renewing
  BY DEF ConnectionTypes, Renewing
<1> USE DEF Unchanged_runs, Unchanged_outside, Unchanged_shop
<1>2. UNCHANGED <<cred, shop, past, back, state>>
  BY DEF Check, ReadCreds, Wake, ReadFresh, SaveFresh, SaveRefused, WorkFails,
         Call, Done
<1>3. CASE Check(p)
  <2>1. proc[p].pc = "check" /\ \E pc \in {"creds", "fresh", "wait"} : Keep(p, pc)
    BY <1>3 DEF Check
  <2>2. PICK pc \in {"creds", "fresh", "wait"} : Keep(p, pc)
    BY <2>1
  <2>3. Moves(p, pc, 0)
    BY <2>2, MovesKeep DEF ProcSteps
  <2>4. QED
    BY <1>2, <2>1, <2>3, OutOfRenewal DEF Renewing
<1>4. CASE ReadCreds(p)
  <2>1. Moves(p, lost, 0) \/ Moves(p, "work", 0)
    BY <1>4, MovesFailed, MovesKeep DEF ReadCreds, ProcSteps
  <2>2. QED
    BY <1>1, <1>2, <1>4, <2>1, OutOfRenewal DEF Renewing, ReadCreds
<1>5. CASE Wake(p)
  <2>1. Moves(p, "fresh", proc[p].tok) /\ proc[p].pc = "wait"
    BY <1>5, MovesTo DEF Wake, ProcSteps
  <2>2. QED
    BY <1>2, <2>1, OutOfRenewal DEF Renewing
<1>6. CASE ReadFresh(p)
  <2>1. Moves(p, "current", proc[p].tok) /\ proc[p].pc = "fresh"
    BY <1>1, <1>6, MovesFresh DEF ReadFresh, ProcSteps
  <2>2. QED
    BY <1>2, <2>1, OutOfRenewal DEF Renewing
<1>7. CASE SaveFresh(p)
  <2>1. Moves(p, "work", 0) /\ proc[p].pc = "saveRow"
    BY <1>7, MovesKeep DEF SaveFresh, ProcSteps
  <2>2. QED
    BY <1>2, <2>1, OutOfRenewal DEF Renewing
<1>8. CASE SaveRefused(p)
  BY <1>2, <1>8, RejectedStayOut DEF SaveRefused, Renewing
<1>9. CASE WorkFails(p)
  <2>1. Moves(p, lost, 0) /\ proc[p].pc = "work"
    BY <1>9, MovesFailed DEF WorkFails
  <2>2. QED
    BY <1>1, <1>2, <2>1, OutOfRenewal DEF Renewing
<1>10. CASE Call(p)
  <2>1. [NoRow EXCEPT !.expiry = conn.expiry] \in Row
    BY <1>1, AtStep DEF Row
  <2>2. Moves(p, "check", proc[p].tok) /\ proc[p].pc = "idle"
    BY <1>10, <2>1, MovesRow DEF Call, ProcSteps
  <2>3. QED
    BY <1>2, <2>2, OutOfRenewal DEF Renewing
<1>11. CASE Done(p)
  <2>1. Moves(p, "idle", 0) /\ proc[p].pc = "work"
    BY <1>11, MovesEnd DEF Done, End, ProcSteps
  <2>2. QED
    BY <1>2, <2>1, OutOfRenewal DEF Renewing
<1>12. QED
  BY <1>3, <1>4, <1>5, <1>6, <1>7, <1>8, <1>9, <1>10, <1>11

\* One process renews at a time.
LEMMA Alone ==
  ASSUME RowsConnected, NEW p \in Procs, proc[p].pc \in Renewing \cup {"current"}
  PROVE  /\ lock = p
         /\ \A q \in Procs \ {p} : proc[q].pc \notin Renewing
BY DEF RowsConnected, LockRight, Renewing, Holding

LEMMA RenewalKeepsTokens ==
  ASSUME RowsConnected, TokensRight, NEW p \in Procs,
         \/ ReadCurrent(p) \/ Renew(p) \/ RenewUnheard(p) \/ RenewRefused(p)
         \/ SaveRenewed(p)
  PROVE  TokensRight'
<1>1. /\ ConnectionTypes /\ proc[p].tok \in 0..MaxTokens /\ cred \in 0..MaxTokens
      /\ shop.issued \in 0..MaxTokens /\ shop.live \subseteq 1..MaxTokens
      /\ past \in [orphaned : SUBSET (0..MaxTokens),
                   again : SUBSET (0..MaxTokens), exchanges : [States -> Nat]]
  BY DEF RowsConnected, ConnectionTypes, AProcess
<1>2. \A c \in Callbacks : back[c].tok \in 0..MaxTokens
  BY DEF RowsConnected, ConnectionTypes
<1> USE DEF Unchanged_runs, Unchanged_outside, Unchanged_shop
<1>3. CASE ReadCurrent(p)
  <2>1. /\ proc[p].pc = "current" /\ UNCHANGED <<cred, shop, past, back>>
        /\ \A q \in Procs : proc[q].pc \notin Renewing
    BY <1>3, Alone DEF ReadCurrent, Renewing
  <2>2. CASE Reject(p)
    BY <1>1, <2>1, <2>2, RejectedStayOut, TokensUntouched DEF Stores
  <2>3. CASE Keep(p, "work")
    <3>1. Moves(p, "work", 0)
      BY <1>1, <2>3, MovesKeep DEF ProcSteps
    <3>2. \A q \in Procs : StaysOut(q)
      BY <2>1, <3>1, OutOfRenewal DEF Renewing
    <3>3. QED
      BY <2>1, <3>2, TokensUntouched DEF Stores
  <2>4. CASE cred # 0 /\ proc' = [proc EXCEPT ![p].pc = "renew", ![p].tok = cred]
    <3>1. Moves(p, "renew", cred)
      BY <1>1, <2>4, MovesTok DEF ProcSteps
    <3>2. \A q \in Procs \ {p} : proc'[q].pc \notin Renewing
      BY <2>1, <3>1 DEF Moves
    <3>3. PairsIssued'
      BY <2>1, <3>1, <3>2 DEF TokensRight, PairsIssued, Moves
    <3>4. cred \in shop.live \cup past.orphaned
      BY <2>1, <2>4 DEF TokensRight, StoredAccepted, Renewing
    <3>5. StoredAccepted' /\ RenewalAccepted'
      BY <2>1, <3>1, <3>2, <3>4 DEF StoredAccepted, RenewalAccepted, Moves, Renewing
    <3>6. RedirectAccepted'
      BY <2>1, <3>1, <3>2 DEF TokensRight, RedirectAccepted, Moves
    <3>7. QED
      BY <2>1, <3>3, <3>5, <3>6 DEF TokensRight, TokenSpentOnce
  <2>5. QED
    BY <1>3, <2>2, <2>3, <2>4 DEF ReadCurrent
<1>4. CASE Renew(p) \/ RenewUnheard(p)
  <2> DEFINE t == proc[p].tok
             i == Issue
  <2>1. /\ proc[p].pc = "renew" /\ t \in shop.live /\ shop.issued < MaxTokens
        /\ shop' = [issued |-> i, live |-> (shop.live \ {t}) \cup {i}]
        /\ UNCHANGED <<cred, back>>
        /\ \A q \in Procs \ {p} : proc[q].pc \notin Renewing
    BY <1>4, Alone DEF Renew, RenewUnheard, Renewing
  <2>2. /\ i \in 0..MaxTokens /\ i > shop.issued /\ i \notin shop.live /\ i # 0
        /\ cred < i /\ \A c \in Callbacks : back[c].pc = "saveCred" => back[c].tok < i
        /\ \A u \in shop.live : u <= i
    <3>1. i = shop.issued + 1
      BY DEF Issue
    <3>2. /\ cred <= shop.issued /\ \A u \in shop.live : u <= shop.issued
          /\ \A c \in Callbacks : back[c].pc = "saveCred" => back[c].tok <= shop.issued
      BY DEF TokensRight, PairsIssued
    <3> HIDE DEF i
    <3>3. QED
      BY <1>1, <1>2, <2>1, <3>1, <3>2, Bounds
  <2>3. /\ past'.again = past.again
        /\ past'.orphaned = past.orphaned \cup (IF Renew(p) THEN {} ELSE {t})
        /\ past.orphaned \subseteq past'.orphaned
    BY <1>1, <1>4, <2>1 DEF Renew, RenewUnheard, Presented
  <2>4. \/ Moves(p, "saveCred", i)
        \/ Moves(p, "refused", t) /\ t \in past'.orphaned
    <3>1. CASE Renew(p)
      BY <1>1, <2>2, <3>1, MovesTok DEF Renew, ProcSteps
    <3>2. CASE RenewUnheard(p)
      <4>1. past'.orphaned = past.orphaned \cup {t}
        BY <1>1, <3>2 DEF RenewUnheard
      <4>2. QED
        BY <1>1, <3>2, <4>1, MovesTo DEF RenewUnheard, ProcSteps
    <3>3. QED
      BY <1>4, <3>1, <3>2
  <2>5. \A q \in Procs \ {p} : proc'[q].pc \notin Renewing
    BY <2>1, <2>4 DEF Moves
  <2>6. shop'.issued = i /\ shop'.live = (shop.live \ {t}) \cup {i}
    BY <2>1
  <2> HIDE DEF t, i
  <2>7. PairsIssued'
    <3>1. t <= i /\ i <= i /\ cred <= i
      BY <1>1, <2>1, <2>2
    <3>2. \A c \in Callbacks : back'[c].pc = "saveCred" => back'[c].tok <= i
      BY <1>2, <2>1, <2>2
    <3>3. \A u \in shop'.live : u <= i
      BY <2>2, <2>6, <3>1
    <3>4. \A q \in Procs : proc'[q].pc \in Renewing => proc'[q].tok <= i
      BY <2>4, <2>5, <3>1 DEF Moves
    <3>5. QED
      BY <2>1, <2>6, <3>1, <3>2, <3>3, <3>4 DEF PairsIssued
  <2>8. StoredAccepted'
    <3>1. CASE Moves(p, "saveCred", i)
      BY <3>1 DEF StoredAccepted, Moves
    <3>2. CASE t \in past'.orphaned
      <4>1. \A q \in Procs : proc[q].pc # "saveCred"
        BY <2>1 DEF Renewing
      <4>2. cred = 0 \/ cred \in shop.live \cup past.orphaned
        BY <4>1 DEF TokensRight, StoredAccepted
      <4>3. QED
        BY <2>1, <2>3, <2>6, <3>2, <4>2 DEF StoredAccepted
    <3>3. QED
      BY <2>4, <3>1, <3>2
  <2>9. RenewalAccepted'
    BY <2>4, <2>5, <2>6 DEF RenewalAccepted, Moves, Renewing
  <2>10. RedirectAccepted'
    <3> SUFFICES ASSUME NEW c \in Callbacks, back[c].pc = "saveCred"
                 PROVE  /\ back[c].tok \in shop'.live /\ back[c].tok # cred
                        /\ \A q \in Procs : proc'[q].pc \in Renewing =>
                              proc'[q].tok # back[c].tok
                        /\ \A d \in Callbacks \ {c} :
                              back[d].pc = "saveCred" => back[d].tok # back[c].tok
      BY <2>1 DEF RedirectAccepted
    <3>1. /\ back[c].tok \in shop.live /\ back[c].tok # cred /\ t # back[c].tok
          /\ \A d \in Callbacks \ {c} :
                back[d].pc = "saveCred" => back[d].tok # back[c].tok
      BY <2>1 DEF TokensRight, RedirectAccepted, t, Renewing
    <3>2. i # back[c].tok
      BY <2>2, <3>1
    <3>3. QED
      BY <2>4, <2>5, <2>6, <3>1, <3>2 DEF Moves, Renewing
  <2>11. QED
    BY <2>3, <2>7, <2>8, <2>9, <2>10 DEF TokensRight, TokenSpentOnce
<1>5. CASE RenewRefused(p)
  <2>1. /\ proc[p].pc = "renew" /\ UNCHANGED <<cred, shop, back>>
        /\ \A q \in Procs \ {p} : proc[q].pc \notin Renewing
    BY <1>5, Alone DEF RenewRefused, Renewing
  <2>2. Moves(p, "refused", proc[p].tok)
    BY <1>1, <1>5, MovesTo DEF RenewRefused, ProcSteps
  <2>3. \A q \in Procs : proc'[q].pc \notin Renewing
    BY <2>1, <2>2 DEF Moves, Renewing
  <2>4. proc[p].tok \in shop.live \cup past.orphaned
    BY <2>1 DEF TokensRight, RenewalAccepted
  <2>5. past'.orphaned = past.orphaned /\ past'.again \subseteq past.orphaned
    BY <1>1, <1>5, <2>4 DEF RenewRefused, Presented, TokensRight, TokenSpentOnce
  <2>6. PairsIssued' /\ RedirectAccepted'
    BY <2>1, <2>3 DEF TokensRight, PairsIssued, RedirectAccepted
  <2>7. \A q \in Procs : proc[q].pc # "saveCred" /\ proc'[q].pc \notin {"renew", "saveCred"}
    BY <2>1, <2>3 DEF Renewing
  <2>8. StoredAccepted' /\ RenewalAccepted'
    BY <2>1, <2>5, <2>7 DEF TokensRight, StoredAccepted, RenewalAccepted
  <2>9. QED
    BY <2>5, <2>6, <2>8 DEF TokensRight, TokenSpentOnce
<1>6. CASE SaveRenewed(p)
  <2>1. /\ proc[p].pc = "saveCred" /\ UNCHANGED <<shop, past, back>>
        /\ cred' = proc[p].tok
        /\ \A q \in Procs \ {p} : proc[q].pc \notin Renewing
    BY <1>6, Alone DEF SaveRenewed, Renewing
  <2>2. Moves(p, "saveRow", proc[p].tok)
    BY <1>1, <1>6, MovesTo DEF SaveRenewed, ProcSteps
  <2>3. \A q \in Procs : proc'[q].pc \notin Renewing
    BY <2>1, <2>2 DEF Moves, Renewing
  <2>4. proc[p].pc \in Renewing /\ proc[p].tok \in shop.live /\ proc[p].tok <= shop.issued
    BY <2>1 DEF TokensRight, RenewalAccepted, PairsIssued, Renewing
  <2>5. PairsIssued'
    BY <2>1, <2>3, <2>4 DEF TokensRight, PairsIssued
  <2>6. StoredAccepted' /\ RenewalAccepted'
    BY <2>1, <2>3, <2>4 DEF StoredAccepted, RenewalAccepted, Renewing
  <2>7. RedirectAccepted'
    BY <2>1, <2>3, <2>4 DEF TokensRight, RedirectAccepted
  <2>8. QED
    BY <2>1, <2>5, <2>6, <2>7 DEF TokensRight, TokenSpentOnce
<1>7. QED
  BY <1>3, <1>4, <1>5, <1>6

LEMMA RedirectsKeepTokens ==
  ASSUME RowsConnected, TokensRight, NEW c \in Callbacks,
         \/ \E s \in States : ConsumeState(c, s)
         \/ ExchangeCode(c) \/ SaveCredentials(c) \/ SaveConnection(c)
  PROVE  TokensRight'
<1>1. /\ back \in [Callbacks -> ACallback] /\ shop.issued \in 0..MaxTokens
      /\ cred \in 0..MaxTokens /\ shop.live \subseteq 1..MaxTokens
      /\ past \in [orphaned : SUBSET (0..MaxTokens),
                   again : SUBSET (0..MaxTokens), exchanges : [States -> Nat]]
      /\ \A p \in Procs : proc[p].tok \in 0..MaxTokens
      /\ \A d \in Callbacks : back[d].tok \in 0..MaxTokens
  BY DEF RowsConnected, ConnectionTypes, ACallback, AProcess
<1> USE DEF Unchanged_runs, Unchanged_outside, Unchanged_shop
<1>2. UNCHANGED proc => \A p \in Procs : StaysOut(p)
  BY DEF StaysOut
<1>3. ASSUME NEW s \in States, ConsumeState(c, s)
      PROVE  TokensRight'
  <2>1. \A d \in Callbacks : Stores(d)
    BY <1>1, <1>3 DEF ConsumeState, Stores, ACallback
  <2>2. QED
    BY <1>2, <1>3, <2>1, TokensUntouched DEF ConsumeState
<1>4. CASE ExchangeCode(c)
  <2>1. /\ back[c].pc = "exchange" /\ UNCHANGED <<cred, proc>>
        /\ past'.orphaned = past.orphaned /\ past'.again = past.again
    BY <1>1, <1>4 DEF ExchangeCode
  <2>2. \A d \in Callbacks \ {c} : back'[d] = back[d]
    BY <1>1, <1>4 DEF ExchangeCode
  <2>3. \/ UNCHANGED shop /\ back'[c].pc = "idle"
        \/ /\ shop' = [issued |-> Issue, live |-> shop.live \cup {Issue}]
           /\ \/ back'[c].pc = "idle"
              \/ back'[c].pc = "saveCred" /\ back'[c].tok = Issue
    BY <1>1, <1>4 DEF ExchangeCode, NoCallback, ACallback
  <2>4. /\ shop.issued <= shop'.issued
        /\ shop.live \subseteq shop'.live /\ \A t \in shop'.live : t <= shop'.issued
        /\ back'[c].pc = "saveCred" =>
              /\ back'[c].tok = shop'.issued /\ back'[c].tok \in shop'.live
              /\ back'[c].tok > shop.issued
    BY <1>1, <2>3, Bounds DEF TokensRight, PairsIssued, Issue
  <2>5. shop'.issued \in Nat
    BY <1>1, <2>3, Bounds DEF Issue
  <2>6. PairsIssued'
    <3>1. cred <= shop'.issued
      BY <1>1, <2>4, <2>5, Bounds DEF TokensRight, PairsIssued
    <3>2. \A p \in Procs : proc[p].pc \in Renewing => proc[p].tok <= shop'.issued
      BY <1>1, <2>4, <2>5, Bounds DEF TokensRight, PairsIssued
    <3>3. \A d \in Callbacks : back'[d].pc = "saveCred" => back'[d].tok <= shop'.issued
      BY <1>1, <2>2, <2>4, <2>5, Bounds DEF TokensRight, PairsIssued
    <3>4. QED
      BY <2>1, <2>4, <3>1, <3>2, <3>3 DEF PairsIssued
  <2>7. StoredAccepted' /\ RenewalAccepted'
    BY <2>1, <2>4 DEF TokensRight, StoredAccepted, RenewalAccepted
  <2>8. RedirectAccepted'
    <3> SUFFICES ASSUME NEW d \in Callbacks, back'[d].pc = "saveCred"
                 PROVE  /\ back'[d].tok \in shop'.live /\ back'[d].tok # cred
                        /\ \A p \in Procs : proc[p].pc \in Renewing =>
                              proc[p].tok # back'[d].tok
                        /\ \A e \in Callbacks \ {d} :
                              back'[e].pc = "saveCred" => back'[e].tok # back'[d].tok
      BY <2>1 DEF RedirectAccepted
    <3>1. /\ cred <= shop.issued
          /\ \A p \in Procs : proc[p].pc \in Renewing => proc[p].tok <= shop.issued
          /\ \A e \in Callbacks : back[e].pc = "saveCred" => back[e].tok <= shop.issued
      BY DEF TokensRight, PairsIssued
    <3>2. CASE d = c
      <4>1. back'[d].tok > shop.issued /\ back'[d].tok \in shop'.live
        BY <2>4, <3>2
      <4>2. back'[d].tok = shop'.issued
        BY <2>4, <3>2
      <4>3. \A p \in Procs : proc[p].pc \in Renewing => proc[p].tok # back'[d].tok
        BY <1>1, <2>5, <3>1, <4>1, <4>2
      <4>4. \A e \in Callbacks \ {d} :
               back'[e].pc = "saveCred" => back'[e].tok # back'[d].tok
        BY <1>1, <2>2, <2>5, <3>1, <3>2, <4>1, <4>2
      <4>5. back'[d].tok # cred
        BY <1>1, <2>5, <3>1, <4>1, <4>2
      <4>6. QED
        BY <4>1, <4>3, <4>4, <4>5
    <3>3. CASE d # c
      <4>1. /\ back'[d] = back[d] /\ back[d].pc = "saveCred"
            /\ back[d].tok <= shop.issued
        BY <2>2, <3>1, <3>3
      <4>2. /\ back[d].tok \in shop.live /\ back[d].tok # cred
            /\ \A p \in Procs : proc[p].pc \in Renewing => proc[p].tok # back[d].tok
            /\ \A e \in Callbacks \ {d} :
                  back[e].pc = "saveCred" => back[e].tok # back[d].tok
        BY <4>1 DEF TokensRight, RedirectAccepted
      <4>3. back'[c].pc = "saveCred" => back'[c].tok # back[d].tok
        BY <1>1, <2>4, <2>5, <4>1
      <4>4. QED
        BY <2>2, <2>4, <4>1, <4>2, <4>3
    <3>4. QED
      BY <3>2, <3>3
  <2>9. QED
    BY <2>1, <2>6, <2>7, <2>8 DEF TokensRight, TokenSpentOnce
<1>5. CASE SaveCredentials(c)
  <2>1. /\ back[c].pc = "saveCred" /\ cred' = back[c].tok
        /\ UNCHANGED <<proc, shop, past>>
        /\ \A d \in Callbacks \ {c} : back'[d] = back[d]
        /\ back'[c].pc = "saveRow"
    BY <1>1, <1>5 DEF SaveCredentials, ACallback
  <2>2. /\ back[c].tok \in shop.live /\ back[c].tok <= shop.issued
        /\ \A d \in Callbacks \ {c} :
              back[d].pc = "saveCred" => back[d].tok # back[c].tok
    BY <2>1 DEF TokensRight, RedirectAccepted, PairsIssued
  <2>3. PairsIssued' /\ StoredAccepted' /\ RenewalAccepted'
    BY <2>1, <2>2 DEF TokensRight, PairsIssued, StoredAccepted, RenewalAccepted
  <2>4. RedirectAccepted'
    BY <2>1, <2>2 DEF TokensRight, RedirectAccepted
  <2>5. QED
    BY <2>1, <2>3, <2>4 DEF TokensRight, TokenSpentOnce
<1>6. CASE SaveConnection(c)
  <2>1. \A d \in Callbacks : Stores(d)
    BY <1>1, <1>6 DEF SaveConnection, Stores, NoCallback, ACallback
  <2>2. QED
    BY <1>2, <1>6, <2>1, TokensUntouched DEF SaveConnection
<1>7. QED
  BY <1>3, <1>4, <1>5, <1>6

LEMMA UsersKeepTokens ==
  ASSUME RowsConnected, TokensRight,
         \/ \E s \in States : Authorize(s)
         \/ \E op \in Ops : BeginOp(op)
         \/ DeleteCredentials \/ SaveOp \/ Expire
  PROVE  TokensRight'
<1> USE DEF Unchanged_runs, Unchanged_outside, Unchanged_shop
<1>1. UNCHANGED <<proc, back, shop, past>>
  BY DEF Authorize, BeginOp, DeleteCredentials, SaveOp, Expire
<1>2. CASE UNCHANGED cred
  BY <1>1, <1>2, TokensUntouched DEF StaysOut, Stores
<1>3. CASE cred' = 0
  <2>1. PairsIssued' /\ StoredAccepted' /\ RenewalAccepted'
    <3>1. 0 <= shop.issued
      BY Bounds DEF RowsConnected, ConnectionTypes
    <3>2. QED
      BY <1>1, <1>3, <3>1
         DEF TokensRight, PairsIssued, StoredAccepted, RenewalAccepted
  <2>2. 0 \notin shop.live
    BY Bounds DEF RowsConnected, ConnectionTypes
  <2>3. RedirectAccepted'
    BY <1>1, <1>3, <2>2 DEF TokensRight, RedirectAccepted
  <2>4. QED
    BY <1>1, <2>1, <2>3 DEF TokensRight, TokenSpentOnce
<1>4. QED
  BY <1>2, <1>3 DEF Authorize, BeginOp, DeleteCredentials, SaveOp, Expire

LEMMA CrashKeepsTokens ==
  ASSUME RowsConnected, TokensRight, Crash
  PROVE  TokensRight'
<1>1. \A p \in Procs : proc'[p].pc \notin Renewing
  <2>1. proc' = [p \in Procs |-> At(AfterCrash(p))]
    BY DEF Crash, AfterCrash
  <2>2. \A p \in Procs : proc'[p].pc = AfterCrash(p)
    BY <2>1 DEF At
  <2>3. \A p \in Procs : AfterCrash(p) \in {"idle", "done", "queued"}
    BY DEF AfterCrash
  <2>4. QED
    BY <2>2, <2>3 DEF Renewing
<1>2. \A c \in Callbacks : back'[c].pc = "idle"
  BY DEF Crash, NoCallback
<1>3. UNCHANGED <<cred, shop>>
  BY DEF Crash
<1>4. /\ past'.again = past.again /\ past.orphaned \subseteq past'.orphaned
      /\ (\E p \in Procs : proc[p].pc = "saveCred") =>
            cred \in shop.live \cup past'.orphaned
  <2>1. past \in [orphaned : SUBSET (0..MaxTokens),
                  again : SUBSET (0..MaxTokens), exchanges : [States -> Nat]]
    BY DEF RowsConnected, ConnectionTypes
  <2>2. QED
    BY <2>1 DEF Crash
<1>5. PairsIssued' /\ RenewalAccepted' /\ RedirectAccepted'
  BY <1>1, <1>2, <1>3
     DEF TokensRight, PairsIssued, RenewalAccepted, RedirectAccepted, Renewing
<1>6. StoredAccepted'
  BY <1>3, <1>4 DEF TokensRight, StoredAccepted
<1>7. QED
  BY <1>4, <1>5, <1>6 DEF TokensRight, TokenSpentOnce

LEMMA TokensKept == RowsConnected /\ TokensRight /\ [Next]_vars => TokensRight'
<1> SUFFICES ASSUME RowsConnected, TokensRight, [Next]_vars
             PROVE  TokensRight'
  OBVIOUS
<1>1. ConnectionTypes /\ RunsRight /\ Callers \subseteq Procs
  BY Bounds DEF RowsConnected
<1>2. UNCHANGED back => \A c \in Callbacks : Stores(c)
  BY DEF Stores
<1>3. ASSUME NEW r \in Runs, Request(r) \/ AddFails(r) \/ RunStep(r)
      PROVE  TokensRight'
  BY <1>1, <1>2, <1>3, RunsStayOut, TokensUntouched
<1>4. ASSUME NEW c \in Callers, Call(c) \/ Done(c)
      PROVE  TokensRight'
  BY <1>1, <1>2, <1>4, ReadersStayOut, TokensUntouched
<1>5. ASSUME NEW p \in Procs, TokenStep(p) \/ RenewUnheard(p) \/ WorkFails(p)
      PROVE  TokensRight'
  <2>1. CASE \/ ReadCurrent(p) \/ Renew(p) \/ RenewUnheard(p) \/ RenewRefused(p)
             \/ SaveRenewed(p)
    BY <2>1, RenewalKeepsTokens
  <2>2. CASE \/ Check(p) \/ ReadCreds(p) \/ Wake(p) \/ ReadFresh(p)
             \/ SaveFresh(p) \/ SaveRefused(p) \/ WorkFails(p)
    BY <1>1, <1>2, <2>2, ReadersStayOut, TokensUntouched
  <2>3. QED
    BY <1>5, <2>1, <2>2 DEF TokenStep
<1>6. CASE UNCHANGED vars
  BY <1>2, <1>6, TokensUntouched DEF vars, StaysOut
<1>7. QED
  BY <1>3, <1>4, <1>5, <1>6, RedirectsKeepTokens, UsersKeepTokens, CrashKeepsTokens
     DEF Next

-----------------------------------------------------------------------------
(* A state of an authorization is exchanged by the redirect that consumed  *)
(* it, and by no other.                                                    *)

StatesRight ==
  /\ \A s \in States :
        /\ past.exchanges[s] \in 0..1
        /\ state[s] # "consumed" => past.exchanges[s] = 0
  /\ \A c \in Callbacks : back[c].pc = "exchange" =>
        /\ back[c].state \in States /\ state[back[c].state] = "consumed"
        /\ past.exchanges[back[c].state] = 0
        /\ \A d \in Callbacks \ {c} :
              back[d].pc = "exchange" => back[d].state # back[c].state

LEMMA StatesUntouched ==
  ASSUME ConnectionTypes, NEW p \in Procs, UNCHANGED <<state, back>>,
         ReadCurrent(p) \/ Renew(p) \/ RenewUnheard(p) \/ RenewRefused(p)
           \/ SaveRenewed(p)
  PROVE  past'.exchanges = past.exchanges
BY DEF ConnectionTypes, ReadCurrent, Renew, RenewUnheard, RenewRefused,
       SaveRenewed, Presented, Unchanged_shop

LEMMA StatesKept == RowsConnected /\ StatesRight /\ [Next]_vars => StatesRight'
<1> SUFFICES ASSUME RowsConnected, StatesRight, [Next]_vars
             PROVE  StatesRight'
  OBVIOUS
<1>1. /\ ConnectionTypes /\ RunsRight /\ Callers \subseteq Procs
      /\ back \in [Callbacks -> ACallback]
      /\ state \in [States -> {"none", "open", "consumed"}]
      /\ past \in [orphaned : SUBSET (0..MaxTokens),
                   again : SUBSET (0..MaxTokens), exchanges : [States -> Nat]]
  BY Bounds DEF RowsConnected, ConnectionTypes, ACallback
<1> USE DEF Unchanged_runs, Unchanged_outside, Unchanged_shop
<1>2. CASE UNCHANGED <<state, back>> /\ past'.exchanges = past.exchanges
  BY <1>2 DEF StatesRight
<1>3. ASSUME NEW r \in Runs, Request(r) \/ AddFails(r) \/ RunStep(r)
      PROVE  StatesRight'
  BY <1>1, <1>2, <1>3, RunsStayOut
<1>4. ASSUME NEW c \in Callers, Call(c) \/ Done(c)
      PROVE  StatesRight'
  BY <1>1, <1>2, <1>4, ReadersStayOut
<1>5. ASSUME NEW p \in Procs, TokenStep(p) \/ RenewUnheard(p) \/ WorkFails(p)
      PROVE  StatesRight'
  <2>1. CASE \/ ReadCurrent(p) \/ Renew(p) \/ RenewUnheard(p) \/ RenewRefused(p)
             \/ SaveRenewed(p)
    <3>1. UNCHANGED <<state, back>>
      BY <2>1 DEF ReadCurrent, Renew, RenewUnheard, RenewRefused, SaveRenewed
    <3>2. QED
      BY <1>1, <1>2, <2>1, <3>1, StatesUntouched
  <2>2. CASE \/ Check(p) \/ ReadCreds(p) \/ Wake(p) \/ ReadFresh(p)
             \/ SaveFresh(p) \/ SaveRefused(p) \/ WorkFails(p)
    BY <1>1, <1>2, <2>2, ReadersStayOut
  <2>3. QED
    BY <1>5, <2>1, <2>2 DEF TokenStep
<1>6. ASSUME NEW s \in States, Authorize(s)
      PROVE  StatesRight'
  <2>1. /\ state[s] = "none" /\ state' = [state EXCEPT ![s] = "open"]
        /\ UNCHANGED <<past, back>>
    BY <1>6 DEF Authorize
  <2>2. QED
    BY <1>1, <2>1 DEF StatesRight
<1>7. ASSUME NEW c \in Callbacks, NEW s \in States, ConsumeState(c, s)
      PROVE  StatesRight'
  <2>1. /\ state[s] = "open" /\ state' = [state EXCEPT ![s] = "consumed"]
        /\ UNCHANGED past
        /\ back'[c].state = s /\ \A d \in Callbacks \ {c} : back'[d] = back[d]
    BY <1>1, <1>7 DEF ConsumeState, ACallback
  <2>2. \A d \in Callbacks \ {c} : back[d].pc = "exchange" => back[d].state # s
    BY <2>1 DEF StatesRight
  <2>3. past.exchanges[s] = 0
    BY <2>1 DEF StatesRight
  <2>4. \A u \in States : past'.exchanges[u] \in 0..1
        /\ (state'[u] # "consumed" => past'.exchanges[u] = 0)
    BY <1>1, <2>1 DEF StatesRight
  <2>5. \A d \in Callbacks : back'[d].pc = "exchange" =>
          /\ back'[d].state \in States /\ state'[back'[d].state] = "consumed"
          /\ past.exchanges[back'[d].state] = 0
          /\ \A e \in Callbacks \ {d} :
                back'[e].pc = "exchange" => back'[e].state # back'[d].state
    BY <1>1, <2>1, <2>2, <2>3 DEF StatesRight
  <2>6. QED
    BY <2>1, <2>4, <2>5 DEF StatesRight
<1>8. ASSUME NEW c \in Callbacks, ExchangeCode(c)
      PROVE  StatesRight'
  <2> DEFINE s == back[c].state
  <2>1. /\ back[c].pc = "exchange" /\ s \in States /\ state[s] = "consumed"
        /\ past.exchanges[s] = 0
        /\ \A d \in Callbacks \ {c} : back[d].pc = "exchange" => back[d].state # s
    BY <1>8 DEF ExchangeCode, StatesRight
  <2>2. /\ UNCHANGED state
        /\ past' = [past EXCEPT !.exchanges[s] = @ + 1]
        /\ back'[c].pc # "exchange"
        /\ \A d \in Callbacks \ {c} : back'[d] = back[d]
    BY <1>1, <1>8 DEF ExchangeCode, ACallback, NoCallback
  <2> HIDE DEF s
  <2>3. past'.exchanges = [past.exchanges EXCEPT ![s] = 1]
    BY <1>1, <2>1, <2>2
  <2>4. QED
    BY <1>1, <2>1, <2>2, <2>3 DEF StatesRight
<1>9. ASSUME NEW c \in Callbacks, SaveCredentials(c) \/ SaveConnection(c)
      PROVE  StatesRight'
  <2>1. /\ UNCHANGED <<state, past>> /\ back'[c].pc # "exchange"
        /\ \A d \in Callbacks \ {c} : back'[d] = back[d]
    BY <1>1, <1>9 DEF SaveCredentials, SaveConnection, ACallback, NoCallback
  <2>2. QED
    BY <2>1 DEF StatesRight
<1>10. CASE (\E op \in Ops : BeginOp(op)) \/ DeleteCredentials \/ SaveOp \/ Expire
  BY <1>2, <1>10 DEF BeginOp, DeleteCredentials, SaveOp, Expire
<1>11. CASE Crash
  <2>1. /\ UNCHANGED state /\ \A c \in Callbacks : back'[c].pc = "idle"
        /\ past'.exchanges = past.exchanges
    BY <1>1, <1>11 DEF Crash, NoCallback
  <2>2. QED
    BY <2>1 DEF StatesRight
<1>12. CASE UNCHANGED vars
  BY <1>2, <1>12 DEF vars
<1>13. QED
  BY <1>3, <1>4, <1>5, <1>6, <1>7, <1>8, <1>9, <1>10, <1>11, <1>12 DEF Next

-----------------------------------------------------------------------------

ConnectionRight == RowsConnected /\ TokensRight /\ StatesRight

LEMMA ConnectionBegins == Init => ConnectionRight
<1> SUFFICES ASSUME Init
             PROVE  ConnectionRight
  OBVIOUS
<1>1. RowsConnected
  BY RowsBegin
<1>2. /\ \A p \in Procs : proc[p].pc = "idle"
      /\ \A c \in Callbacks : back[c].pc = "idle"
  BY DEF Init, At, NoCallback
<1>3. /\ cred <= shop.issued /\ \A t \in shop.live : t <= shop.issued
      /\ cred = 0 \/ cred \in shop.live
  BY DEF Init
<1>4. past.again = {} /\ \A s \in States : past.exchanges[s] = 0
  BY DEF Init
<1>5. TokensRight
  BY <1>2, <1>3, <1>4
     DEF TokensRight, PairsIssued, StoredAccepted, RenewalAccepted,
         RedirectAccepted, TokenSpentOnce, Renewing
<1>6. StatesRight
  BY <1>2, <1>4 DEF StatesRight
<1>7. QED
  BY <1>1, <1>5, <1>6 DEF ConnectionRight

LEMMA ConnectionStep == [ProviderNext]_provider => [Next]_vars
BY DEF ProviderNext, provider, connection

LEMMA ConnectionStaysRight == ProviderSpec => []ConnectionRight
<1>1. ProviderInit => ConnectionRight
  BY ConnectionBegins DEF ProviderInit
<1>2. ConnectionRight /\ [ProviderNext]_provider => ConnectionRight'
  BY ConnectionStep, RowsKept, TokensKept, StatesKept DEF ConnectionRight
<1>3. QED
  BY <1>1, <1>2, PTL DEF ProviderSpec

\* Whatever the renewals, the redirects, the ends of the process and the
\* answers that are lost between them: a refresh token is presented a second
\* time only if its answer never reached the credentials, and the state of an
\* authorization is exchanged once (withRefreshLock, consumeState).
THEOREM SecretsOnce == ProviderSpec => []SecretsSpentOnce
<1>1. ConnectionRight => SecretsSpentOnce
  <2> SUFFICES ASSUME ConnectionRight
               PROVE  SecretsSpentOnce
    OBVIOUS
  <2>1. TokenSpentOnce
    BY DEF ConnectionRight, TokensRight
  <2>2. StateExchangedOnce
    BY DEF ConnectionRight, StatesRight, StateExchangedOnce
  <2>3. QED
    BY <2>1, <2>2 DEF SecretsSpentOnce
<1>2. QED
  BY <1>1, ConnectionStaysRight, PTL

-----------------------------------------------------------------------------
(* The scan of the orders (Scan).                                          *)

AScanner == [pc : {"idle", "found", "scans", "scanned"}, state : S!State,
             pages : 0..(MaxPages - 1)]

ScanTypes ==
  /\ now \in 0..MaxTime
  /\ updated \in [S!Orders -> 0..now] /\ due \subseteq S!Orders
  /\ row \in S!State
  /\ scanner \in [Scanners -> AScanner]
  /\ given_up \subseteq due

\* The orders a scan still has to find.
Owed == due \ given_up

\* Who takes up the scan x finds all of them: those older than its first page
\* are not behind its cursor.
Kept(x) ==
  /\ x.last <= now /\ x.began <= now
  /\ x.began = S!Never => x.cursor = 0
  /\ \A o \in Owed :
        /\ updated[o] >= S!Since(x)
        /\ updated[o] < x.began => S!Place(o, S!Since(x)) >= x.cursor

\* A scan that reached the end of the list has left nothing behind.
Complete(y) ==
  y.pc = "scanned" /\ y.state.cursor = 0 =>
    \A o \in Owed : updated[o] >= y.state.began

ScanRight ==
  /\ ScanTypes
  /\ Kept(row)
  /\ \A s \in Scanners : Kept(scanner[s].state) /\ Complete(scanner[s])

LEMMA ScanBounds ==
  /\ NumOrders \in Nat /\ MaxTime \in Nat
  /\ PageSize \in Nat \ {0} /\ MaxPages \in Nat \ {0}
  /\ Overlap \in Nat /\ LockTime \in Nat
BY ProviderAssumption DEF S!ConstantsFit

\* The places of a list are its numbers from zero on.
LEMMA Places ==
  ASSUME NEW since, ScanTypes
  PROVE  /\ Cardinality(S!Listed(since)) \in 0..NumOrders
         /\ \A o \in S!Orders : S!Place(o, since) \in Nat
         /\ \A o \in S!Listed(since) :
               S!Place(o, since) < Cardinality(S!Listed(since))
<1> DEFINE L == S!Listed(since)
<1>1. /\ IsFiniteSet(1..NumOrders) /\ Cardinality(1..NumOrders) = NumOrders
  BY ScanBounds, FS_Interval
<1>2. L \subseteq 1..NumOrders
  BY DEF S!Listed, S!Orders
<1> HIDE DEF L
<1>3. IsFiniteSet(L) /\ Cardinality(L) \in Nat /\ Cardinality(L) <= NumOrders
  BY <1>1, <1>2, FS_Subset, FS_CardinalityType
<1>4. ASSUME NEW o \in S!Orders
      PROVE  /\ S!Place(o, since) \in Nat
             /\ o \in L => S!Place(o, since) < Cardinality(L)
  <2> DEFINE B == {q \in L : q < o}
  <2>1. S!Place(o, since) = Cardinality(B)
    BY DEF S!Place, S!Cardinality, Cardinality, L
  <2>2. B \subseteq L /\ o \notin B
    BY DEF S!Orders
  <2> HIDE DEF B
  <2>3. IsFiniteSet(B) /\ Cardinality(B) \in Nat
        /\ Cardinality(B) <= Cardinality(L)
        /\ (Cardinality(B) = Cardinality(L) => B = L)
    BY <1>3, <2>2, FS_Subset, FS_CardinalityType
  <2>4. QED
    BY <1>3, <2>1, <2>2, <2>3
<1>5. QED
  BY <1>2, <1>3, <1>4, ScanBounds DEF L, S!Orders

\* An order that is updated moves no other to an earlier place.
LEMMA PlacesGrow ==
  ASSUME ScanTypes, NEW since \in Int, NEW o \in S!Orders,
         updated' \in [S!Orders -> Int],
         \A q \in S!Orders : updated[q] <= updated'[q]
  PROVE  S!Place(o, since) <= S!Place(o, since)'
<1> DEFINE B == {q \in S!Listed(since) : q < o}
           D == {q \in S!Listed(since)' : q < o}
<1>1. S!Place(o, since) = Cardinality(B) /\ S!Place(o, since)' = Cardinality(D)
  BY DEF S!Place, S!Cardinality, Cardinality
<1>2. B \subseteq D
  <2> SUFFICES ASSUME NEW q \in S!Orders, updated[q] >= since
               PROVE  updated'[q] >= since
    BY DEF S!Listed
  <2>1. updated[q] \in Int /\ updated'[q] \in Int /\ updated[q] <= updated'[q]
    BY DEF ScanTypes
  <2>2. QED
    BY <2>1
<1>3. D \subseteq 1..NumOrders
  BY DEF S!Listed, S!Orders
<1> HIDE DEF B, D
<1>4. IsFiniteSet(D)
  <2>1. IsFiniteSet(1..NumOrders)
    BY ScanBounds, FS_Interval
  <2>2. QED
    BY <1>3, <2>1, FS_Subset
<1>5. QED
  BY <1>1, <1>2, <1>4, FS_Subset

LEMMA PlaceNext ==
  ASSUME NEW since, NEW o \in S!Orders
  PROVE  S!Place(o, since)' \in Nat
<1> DEFINE D == {q \in S!Listed(since)' : q < o}
<1>1. S!Place(o, since)' = Cardinality(D)
  BY DEF S!Place, S!Cardinality, Cardinality
<1>2. D \subseteq 1..NumOrders
  BY DEF S!Listed, S!Orders
<1> HIDE DEF D
<1>3. IsFiniteSet(1..NumOrders)
  BY ScanBounds, FS_Interval
<1>4. IsFiniteSet(D)
  BY <1>2, <1>3, FS_Subset
<1>5. QED
  BY <1>1, <1>4, FS_CardinalityType

\* What changes nothing of a scan but lets less be due.
LEMMA KeptOn ==
  ASSUME NEW x, Kept(x), UNCHANGED updated, now \in Int, now' \in Int, now <= now',
         x.last \in Int, x.began \in Int, Owed' \subseteq Owed
  PROVE  Kept(x)'
<1>1. x.last <= now' /\ x.began <= now'
  BY DEF Kept
<1>2. \A o \in Owed' :
        /\ updated'[o] >= S!Since(x)
        /\ updated'[o] < x.began => S!Place(o, S!Since(x))' >= x.cursor
  BY DEF Kept, S!Place, S!Listed
<1>3. QED
  BY <1>1, <1>2 DEF Kept, S!Since, S!Never

LEMMA CompleteOn ==
  ASSUME NEW y, Complete(y), UNCHANGED updated, Owed' \subseteq Owed
  PROVE  Complete(y)'
BY DEF Complete

\* The parts of a row that tell where its scan is.
LEMMA SameScan ==
  ASSUME NEW x, NEW y, Kept(x),
         y.last = x.last, y.cursor = x.cursor, y.began = x.began
  PROVE  Kept(y)
BY DEF Kept, S!Since

LEMMA UpdateKeeps ==
  ASSUME ScanTypes, NEW o \in S!Orders, S!Update(o), NEW x \in S!State, Kept(x)
  PROVE  Kept(x)'
<1>1. /\ now \in 0..MaxTime /\ now' = now /\ updated[o] < now
      /\ updated \in [S!Orders -> 0..now] /\ updated' = [updated EXCEPT ![o] = now]
      /\ due' = due \cup {o} /\ given_up' = given_up \ {o}
  BY DEF ScanTypes, S!Update
<1>2. \A q \in S!Orders : updated[q] \in Int /\ updated'[q] \in Int
        /\ updated[q] <= updated'[q] /\ (q # o => updated'[q] = updated[q])
  <2> SUFFICES ASSUME NEW q \in S!Orders
               PROVE  updated[q] \in Int /\ updated'[q] \in Int
                      /\ updated[q] <= updated'[q] /\ (q # o => updated'[q] = updated[q])
    OBVIOUS
  <2>1. CASE q = o
    BY <1>1, <2>1
  <2>2. CASE q # o
    BY <1>1, <2>2
  <2>3. QED
    BY <2>1, <2>2
<1>3. updated' \in [S!Orders -> Int]
  BY <1>1, <1>2
<1>4. /\ x.last \in Int /\ x.began \in Int /\ x.cursor \in Int
      /\ S!Since(x) \in Int /\ S!Since(x) <= now
  <2>1. x.last \in Int /\ x.began \in Int /\ x.cursor \in Int /\ x.last <= now
    BY ScanBounds DEF S!State, S!Times, S!Never, Kept
  <2>2. QED
    BY <1>1, <2>1, ScanBounds DEF S!Since, S!Never
<1>5. ASSUME NEW q \in Owed'
      PROVE  /\ updated'[q] >= S!Since(x)
             /\ updated'[q] < x.began => S!Place(q, S!Since(x))' >= x.cursor
  <2>1. q = o \/ q \in Owed
    BY <1>1, <1>5 DEF Owed
  <2>2. CASE q = o
    <3>1. updated'[q] = now
      BY <1>1, <2>2
    <3>2. x.began <= now
      BY DEF Kept
    <3>3. QED
      BY <1>1, <1>4, <3>1, <3>2
  <2>3. CASE q \in Owed /\ q # o
    <3>1. q \in S!Orders
      BY <2>3 DEF Owed, ScanTypes
    <3>2. updated'[q] = updated[q]
      BY <1>2, <2>3, <3>1
    <3>3. /\ updated[q] >= S!Since(x)
          /\ updated[q] < x.began => S!Place(q, S!Since(x)) >= x.cursor
      BY <2>3 DEF Kept
    <3>4. S!Place(q, S!Since(x)) <= S!Place(q, S!Since(x))'
      BY <1>2, <1>3, <1>4, <3>1, PlacesGrow
    <3>5. /\ S!Place(q, S!Since(x)) \in Nat
          /\ S!Place(q, S!Since(x))' \in Nat
      <4>1. S!Place(q, S!Since(x)) \in Nat
        BY <3>1, Places
      <4>2. S!Place(q, S!Since(x))' \in Nat
        BY <3>1, PlaceNext
      <4>3. QED
        BY <4>1, <4>2
    <3>6. QED
      BY <1>4, <3>2, <3>3, <3>4, <3>5
  <2>4. QED
    BY <2>1, <2>2, <2>3
<1>6. QED
  BY <1>1, <1>5 DEF Kept, S!Since, S!Never

LEMMA UpdateCompletes ==
  ASSUME ScanTypes, NEW o \in S!Orders, S!Update(o), NEW y, Complete(y),
         Kept(y.state), y.state \in S!State
  PROVE  Complete(y)'
<1>1. /\ now \in 0..MaxTime /\ updated' = [updated EXCEPT ![o] = now]
      /\ due' = due \cup {o} /\ given_up' = given_up \ {o}
      /\ updated \in [S!Orders -> 0..now] /\ due \subseteq S!Orders
  BY DEF ScanTypes, S!Update
<1>2. y.state.began <= now /\ y.state.began \in Int
  BY ScanBounds DEF Kept, S!State, S!Times, S!Never
<1>3. Owed' \subseteq Owed \cup {o}
  BY <1>1 DEF Owed
<1>4. \A q \in Owed' : q \in S!Orders /\ (q # o => q \in Owed /\ updated'[q] = updated[q])
  BY <1>1, <1>3 DEF Owed
<1>5. updated'[o] = now /\ now \in Int
  BY <1>1
<1>6. QED
  BY <1>2, <1>4, <1>5 DEF Complete

\* A page takes the orders at the cursor out of what is owed.
LEMMA PageKeeps ==
  ASSUME ScanTypes, NEW x \in S!State, Kept(x), NEW y, UNCHANGED <<updated, now>>,
         Owed' \subseteq Owed \ S!PageOf(S!Since(x), x.cursor),
         y.last = x.last, y.cursor = S!NextCursor(S!Since(x), x.cursor),
         y.began = IF x.began = S!Never THEN now ELSE x.began
  PROVE  /\ y.cursor \in 0..NumOrders /\ y.began \in 0..MaxTime
         /\ Kept(y)'
         /\ y.cursor = 0 => \A o \in Owed' : updated[o] >= y.began
<1> DEFINE since == S!Since(x)
           size == Cardinality(S!Listed(since))
<1>1. /\ now \in 0..MaxTime /\ x.cursor \in 0..NumOrders
      /\ x.last \in Int /\ x.began \in Int /\ x.began >= -1 /\ x.last >= -1
      /\ x.last <= now /\ x.began <= now /\ x.began <= MaxTime
  BY ScanBounds DEF ScanTypes, Kept, S!State, S!Times, S!Never
<1>2. since \in Int
  BY <1>1, ScanBounds DEF S!Since, S!Never
<1>3. /\ size \in 0..NumOrders
      /\ \A o \in S!Orders : S!Place(o, since) \in Nat
      /\ \A o \in S!Listed(since) : S!Place(o, since) < size
  BY <1>2, Places
<1>4. \/ y.cursor = x.cursor + PageSize /\ x.cursor + PageSize < size
      \/ y.cursor = 0 /\ x.cursor + PageSize >= size
  <2>1. Cardinality(S!Listed(since)) = S!Cardinality(S!Listed(since))
    BY DEF Cardinality, S!Cardinality
  <2> DEFINE n == S!Cardinality(S!Listed(since))
  <2>2. y.cursor = IF x.cursor + PageSize < n THEN x.cursor + PageSize ELSE 0
    BY DEF S!NextCursor
  <2>3. size = n
    BY <2>1
  <2> HIDE DEF n, since, size
  <2>4. QED
    BY <1>1, <1>3, <2>2, <2>3, ScanBounds
<1>5. y.began \in 0..MaxTime /\ y.began <= now /\ y.began >= x.began
  BY <1>1 DEF S!Never
<1> HIDE DEF size
<1>6. ASSUME NEW o \in Owed', updated[o] < y.began
      PROVE  S!Place(o, since) >= x.cursor + PageSize /\ o \in S!Listed(since)
  <2>1. o \in Owed /\ o \in S!Orders /\ o \notin S!PageOf(since, x.cursor)
    BY <1>6 DEF Owed, ScanTypes
  <2>2. o \in S!Listed(since)
    BY <2>1 DEF Kept, S!Listed
  <2>3. S!Place(o, since) >= x.cursor
    <3>1. CASE x.began = S!Never
      <4>1. x.cursor = 0
        BY <3>1 DEF Kept
      <4>2. QED
        BY <1>3, <2>1, <4>1
    <3>2. CASE x.began # S!Never
      BY <1>6, <2>1, <3>2 DEF Kept
    <3>3. QED
      BY <3>1, <3>2
  <2>4. S!Place(o, since) \notin x.cursor .. (x.cursor + PageSize - 1)
    BY <2>1, <2>2 DEF S!PageOf
  <2>5. S!Place(o, since) \in Nat
    BY <1>3, <2>1
  <2> HIDE DEF since
  <2>6. QED
    BY <1>1, <2>2, <2>3, <2>4, <2>5, ScanBounds
<1>7. y.cursor \in 0..NumOrders
  BY <1>1, <1>3, <1>4, ScanBounds
<1>8. y.cursor = 0 => \A o \in Owed' : updated[o] >= y.began
  <2> SUFFICES ASSUME y.cursor = 0, NEW o \in Owed', ~(updated[o] >= y.began)
               PROVE  FALSE
    OBVIOUS
  <2>1. updated[o] \in Int
    BY DEF Owed, ScanTypes
  <2>2. updated[o] < y.began
    BY <1>5, <2>1
  <2>3. S!Place(o, since) >= x.cursor + PageSize /\ S!Place(o, since) < size
        /\ S!Place(o, since) \in Nat
    BY <1>3, <1>6, <2>2 DEF S!Listed
  <2> HIDE DEF since
  <2>4. QED
    BY <1>1, <1>3, <1>4, <2>3, ScanBounds
<1>9. Kept(y)'
  <2>1. \A o \in Owed' : o \in Owed /\ o \in S!Orders
    BY DEF Owed, ScanTypes
  <2>2. S!Since(y) = since
    BY DEF S!Since
  <2>3. ASSUME NEW o \in Owed'
        PROVE  /\ updated[o] >= since
               /\ updated[o] < y.began => S!Place(o, since) >= y.cursor
    <3>1. updated[o] >= since
      BY <2>1 DEF Kept
    <3>2. S!Place(o, since) \in Nat
      BY <1>3, <2>1
    <3>3. updated[o] < y.began => S!Place(o, since) >= x.cursor + PageSize
      BY <1>6
    <3> HIDE DEF since
    <3>4. QED
      BY <1>1, <1>4, <3>1, <3>2, <3>3
  <2>4. \A o \in Owed' :
          /\ updated'[o] >= S!Since(y)
          /\ updated'[o] < y.began => S!Place(o, S!Since(y))' >= y.cursor
    BY <2>2, <2>3 DEF S!Place, S!Listed
  <2>5. y.began # S!Never /\ y.last <= now' /\ y.began <= now'
    BY <1>1, <1>5 DEF S!Never
  <2>6. QED
    BY <2>4, <2>5 DEF Kept, S!Since, S!Never
<1>10. QED
  BY <1>5, <1>7, <1>8, <1>9

\* What is to be shown of a step of a scanner that goes on as y and leaves r.
LEMMA GoesOn ==
  ASSUME ScanRight, NEW s \in Scanners, NEW y \in AScanner, NEW r \in S!State,
         scanner' = [scanner EXCEPT ![s] = y], row' = r,
         UNCHANGED <<now, updated>>, Owed' \subseteq Owed,
         due' \subseteq due, given_up' \subseteq due',
         Kept(y.state)', Complete(y)', Kept(r)'
  PROVE  ScanRight'
<1>1. /\ ScanTypes /\ now \in Int /\ now <= now
      /\ \A t \in Scanners : Kept(scanner[t].state) /\ Complete(scanner[t])
      /\ \A t \in Scanners : scanner[t].state \in S!State
  BY ScanBounds DEF ScanRight, ScanTypes, AScanner
<1>2. /\ scanner' \in [Scanners -> AScanner] /\ scanner'[s] = y
      /\ \A t \in Scanners \ {s} : scanner'[t] = scanner[t]
  BY <1>1 DEF ScanTypes
<1>3. ScanTypes'
  BY <1>1, <1>2 DEF ScanTypes
<1>4. ASSUME NEW t \in Scanners
      PROVE  (Kept(scanner[t].state) /\ Complete(scanner[t]))'
  <2>1. PICK z : z = scanner'[t]
    OBVIOUS
  <2>2. Kept(z.state)' /\ Complete(z)'
    <3>1. CASE t = s
      <4>1. z = y
        BY <1>2, <2>1, <3>1
      <4>2. QED
        BY <4>1
    <3>2. CASE t # s
      <4>1. z = scanner[t]
        BY <1>2, <2>1, <3>2
      <4>2. Kept(z.state) /\ Complete(z) /\ z.state \in S!State
        BY <1>1, <4>1
      <4>3. z.state.last \in Int /\ z.state.began \in Int
        BY <4>2, ScanBounds DEF S!State, S!Times, S!Never
      <4>4. Kept(z.state)'
        BY <1>1, <4>2, <4>3, KeptOn
      <4>5. QED
        BY <4>2, <4>4, CompleteOn
    <3>3. QED
      BY <3>1, <3>2
  <2>3. QED
    BY <2>1, <2>2 DEF Kept, Complete, S!Since
<1>5. Kept(row)'
  BY DEF Kept, S!Since
<1>6. QED
  BY <1>3, <1>4, <1>5 DEF ScanRight

LEMMA ScannerKeepsScans ==
  ASSUME ScanRight, NEW s \in Scanners,
         \/ S!Find(s) \/ S!Lock(s) \/ S!Page(s) \/ S!Succeed(s) \/ S!Fail(s)
         \/ S!Crash(s)
  PROVE  ScanRight'
<1>1. PICK x : x = scanner[s].state
  OBVIOUS
<1>2. PICK w : w = row
  OBVIOUS
<1>3. /\ ScanTypes /\ Kept(w) /\ Kept(x) /\ x \in S!State /\ w \in S!State
      /\ scanner[s] \in AScanner /\ scanner \in [Scanners -> AScanner]
      /\ now \in 0..MaxTime /\ now \in Int /\ now <= now
      /\ due \subseteq S!Orders /\ given_up \subseteq due
  BY <1>1, <1>2, ScanBounds DEF ScanRight, ScanTypes, AScanner
<1>4. /\ x.last \in S!Times /\ x.cursor \in 0..NumOrders /\ x.began \in S!Times
      /\ w.last \in S!Times /\ w.cursor \in 0..NumOrders /\ w.began \in S!Times
      /\ x.last \in Int /\ x.began \in Int /\ w.last \in Int /\ w.began \in Int
      /\ \A z \in Int : z \in S!Times <=> z >= -1 /\ z <= MaxTime
  BY <1>3, ScanBounds DEF S!State, S!Times, S!Never
<1>5. UNCHANGED <<now, updated>>
  BY DEF S!Find, S!Lock, S!Page, S!Succeed, S!Fail, S!Crash
<1>6. Owed' \subseteq Owed => Kept(w)' /\ Kept(x)'
  BY <1>3, <1>4, <1>5, KeptOn
<1>7. PICK b : b = S!Blank
  OBVIOUS
<1>8. /\ b \in S!State /\ b.last = S!Never /\ b.cursor = 0 /\ b.began = S!Never
      /\ Kept(b)'
  <2>1. /\ b \in S!State /\ b.last = -1 /\ b.cursor = 0 /\ b.began = -1
    BY <1>7, ScanBounds DEF S!Blank, S!State, S!Times, S!Never
  <2>2. \A o \in S!Orders : updated'[o] \in 0..now
    BY <1>3, <1>5 DEF ScanTypes
  <2>3. due' \subseteq S!Orders
    BY <1>3 DEF S!Find, S!Lock, S!Page, S!Enqueue, S!Succeed, S!Fail, S!Crash
  <2>4. \A o \in Owed' : updated'[o] >= S!Since(b) /\ ~(updated'[o] < b.began)
    BY <1>3, <2>1, <2>2, <2>3 DEF Owed, S!Since, S!Never
  <2>5. QED
    BY <1>3, <1>5, <2>1, <2>4 DEF Kept, S!Never, S!Since
<1>9. PICK i : i = S!Idle
  OBVIOUS
<1>10. i \in AScanner /\ i.state = b /\ Kept(i.state)' /\ Complete(i)'
  <2>1. i.pc = "idle" /\ i.state = b /\ i \in AScanner
    BY <1>7, <1>8, <1>9, ScanBounds DEF S!Idle, AScanner
  <2>2. Complete(i)'
    BY <2>1 DEF Complete
  <2>3. QED
    BY <1>8, <2>1, <2>2
<1>11. CASE S!Find(s)
  <2>1. PICK y : y = [S!Idle EXCEPT !.pc = "found",
                        !.state = [row EXCEPT !.lock = now + LockTime]]
    OBVIOUS
  <2>2. /\ y.pc = "found" /\ y.state.last = w.last /\ y.state.cursor = w.cursor
        /\ y.state.began = w.began /\ y \in AScanner
    <3>1. now + LockTime \in S!Never .. (MaxTime + LockTime)
      BY <1>3, ScanBounds DEF S!Never
    <3>2. i \in AScanner /\ y = [i EXCEPT !.pc = "found",
                        !.state = [w EXCEPT !.lock = now + LockTime]]
      BY <1>2, <1>9, <1>10, <2>1
    <3>3. [w EXCEPT !.lock = now + LockTime] \in S!State
      BY <1>3, <3>1 DEF S!State
    <3>4. QED
      BY <1>3, <3>2, <3>3 DEF AScanner, S!State
  <2>3. UNCHANGED <<row, due, given_up>> /\ scanner' = [scanner EXCEPT ![s] = y]
    BY <1>11, <2>1 DEF S!Find
  <2>4. Owed' \subseteq Owed
    BY <2>3 DEF Owed
  <2>5. Kept(y.state)' /\ Complete(y)'
    BY <1>6, <2>2, <2>4 DEF Kept, Complete, S!Since
  <2>6. QED
    BY <1>2, <1>3, <1>5, <1>6, <2>2, <2>3, <2>4, <2>5, GoesOn
<1>12. CASE S!Lock(s)
  <2>1. PICK y : y = [scanner[s] EXCEPT !.pc = "scans"]
    OBVIOUS
  <2>2. y.pc = "scans" /\ y.state = x /\ y \in AScanner
    BY <1>1, <1>3, <2>1 DEF AScanner
  <2>3. /\ row' = x /\ UNCHANGED <<due, given_up>>
        /\ scanner' = [scanner EXCEPT ![s] = y]
    BY <1>1, <1>3, <1>12, <2>1 DEF S!Lock
  <2>4. Owed' \subseteq Owed
    BY <2>3 DEF Owed
  <2>5. Kept(y.state)' /\ Complete(y)'
    BY <1>6, <2>2, <2>4 DEF Complete
  <2>6. QED
    BY <1>3, <1>5, <1>6, <2>2, <2>3, <2>4, <2>5, GoesOn
<1>13. CASE S!Page(s)
  <2> DEFINE cursor == S!NextCursor(S!Since(x), x.cursor)
             ends == cursor = 0 \/ scanner[s].pages + 1 = MaxPages
  <2>1. PICK z : z = [x EXCEPT !.cursor = cursor,
                        !.began = IF @ = S!Never THEN now ELSE @]
    OBVIOUS
  <2>2. PICK y : y = [pc |-> IF ends THEN "scanned" ELSE "scans", state |-> z,
                      pages |-> IF ends THEN 0 ELSE scanner[s].pages + 1]
    OBVIOUS
  <2>3. /\ row' = z /\ scanner' = [scanner EXCEPT ![s] = y]
        /\ S!Enqueue(S!PageOf(S!Since(x), x.cursor))
    BY <1>1, <1>3, <1>13, <2>1, <2>2 DEF S!Page, S!Found
  <2>4. /\ z.last = x.last /\ z.cursor = cursor
        /\ z.began = IF x.began = S!Never THEN now ELSE x.began
        /\ z.lock = x.lock /\ DOMAIN z = DOMAIN x
    BY <1>3, <2>1 DEF S!State
  <2>5. /\ Owed' \subseteq Owed \ S!PageOf(S!Since(x), x.cursor)
        /\ due' \subseteq due /\ given_up' \subseteq due'
    BY <1>3, <2>3 DEF Owed, S!Enqueue
  <2>6. /\ z.cursor \in 0..NumOrders /\ z.began \in 0..MaxTime /\ Kept(z)'
        /\ z.cursor = 0 => \A o \in Owed' : updated[o] >= z.began
    BY <1>3, <1>5, <2>4, <2>5, PageKeeps
  <2>7. z \in S!State
    <3>1. z.began \in S!Times /\ cursor \in 0..NumOrders
      BY <2>4, <2>6, ScanBounds DEF S!Times, S!Never
    <3> HIDE DEF cursor
    <3>2. QED
      BY <1>3, <2>1, <2>4, <3>1 DEF S!State
  <2>8. y \in AScanner /\ y.state = z /\ (y.pc = "scanned" \/ y.pc = "scans")
    <3>1. scanner[s].pages \in 0..(MaxPages - 1)
      BY <1>3 DEF AScanner
    <3>2. (IF ends THEN 0 ELSE scanner[s].pages + 1) \in 0..(MaxPages - 1)
      <4> HIDE DEF cursor
      <4>1. QED
        BY <3>1, ScanBounds
    <3> HIDE DEF ends
    <3>3. QED
      BY <2>2, <2>7, <3>2 DEF AScanner
  <2>9. Kept(y.state)' /\ Complete(y)'
    BY <1>5, <2>6, <2>8 DEF Complete
  <2>10. QED
    BY <1>3, <1>5, <2>3, <2>5, <2>6, <2>7, <2>8, <2>9, GoesOn
<1>14. CASE S!Succeed(s)
  <2>1. PICK r : r = [S!Blank EXCEPT !.last = now]
    OBVIOUS
  <2>2. /\ r.last = now /\ r.cursor = 0 /\ r.began = S!Never /\ r \in S!State
    BY <1>3, <2>1, ScanBounds DEF S!Blank, S!State, S!Times, S!Never
  <2>3. /\ row' = r /\ scanner' = [scanner EXCEPT ![s] = i] /\ due' = due
        /\ given_up' = IF x.cursor # 0 \/ now - x.began > Overlap
                         THEN due ELSE given_up
        /\ scanner[s].pc = "scanned"
    BY <1>1, <1>9, <1>14, <2>1 DEF S!Succeed
  <2>4. Owed' \subseteq Owed /\ given_up' \subseteq due'
    BY <1>3, <2>3 DEF Owed
  <2>5. \A o \in Owed' : updated[o] \in Int /\ updated[o] >= 0
                         /\ updated[o] >= now - Overlap
    <3> SUFFICES ASSUME NEW o \in Owed'
                 PROVE  updated[o] \in Int /\ updated[o] >= 0
                        /\ updated[o] >= now - Overlap
      OBVIOUS
    <3>1. o \in Owed /\ x.cursor = 0 /\ ~(now - x.began > Overlap)
      BY <2>3, <2>4 DEF Owed
    <3>2. updated[o] >= x.began
      BY <1>1, <2>3, <3>1 DEF ScanRight, Complete
    <3>3. updated[o] \in 0..now
      BY <1>3, <3>1 DEF Owed, ScanTypes
    <3>4. QED
      BY <1>3, <1>4, <3>1, <3>2, <3>3, ScanBounds
  <2>6. Kept(r)'
    <3>1. \A o \in Owed' : /\ updated'[o] >= S!Since(r)
                           /\ ~(updated'[o] < r.began)
      BY <1>3, <1>5, <2>2, <2>5 DEF S!Since, S!Never
    <3>2. r.last <= now' /\ r.began <= now' /\ r.cursor = 0
      BY <1>3, <1>5, <2>2 DEF S!Never
    <3>3. QED
      BY <3>1, <3>2 DEF Kept, S!Since
  <2>7. QED
    BY <1>5, <1>10, <2>2, <2>3, <2>4, <2>6, GoesOn
<1>15. CASE S!Fail(s)
  <2>1. PICK r : r = [x EXCEPT !.lock = S!Never]
    OBVIOUS
  <2>2. /\ r.last = x.last /\ r.cursor = x.cursor /\ r.began = x.began
        /\ r \in S!State
    BY <1>3, <2>1, ScanBounds DEF S!State, S!Never
  <2>3. /\ row' = r /\ scanner' = [scanner EXCEPT ![s] = i]
        /\ \E queued : S!Enqueue(queued)
    BY <1>1, <1>9, <1>15, <2>1 DEF S!Fail
  <2>4. Owed' \subseteq Owed /\ due' \subseteq due /\ given_up' \subseteq due'
    BY <1>3, <2>3 DEF Owed, S!Enqueue
  <2>5. Kept(r)'
    BY <1>6, <2>2, <2>4 DEF Kept, S!Since
  <2>6. QED
    BY <1>5, <1>10, <2>2, <2>3, <2>4, <2>5, GoesOn
<1>16. CASE S!Crash(s)
  <2>1. UNCHANGED <<row, due, given_up>> /\ scanner' = [scanner EXCEPT ![s] = i]
    BY <1>9, <1>16 DEF S!Crash
  <2>2. Owed' \subseteq Owed
    BY <2>1 DEF Owed
  <2>3. QED
    BY <1>2, <1>3, <1>5, <1>6, <1>10, <2>1, <2>2, GoesOn
<1>17. QED
  BY <1>11, <1>12, <1>13, <1>14, <1>15, <1>16

LEMMA ScanBegins == S!Init => ScanRight
<1> SUFFICES ASSUME S!Init
             PROVE  ScanRight
  OBVIOUS
<1>1. PICK b : b = S!Blank
  OBVIOUS
<1>2. PICK i : i = S!Idle
  OBVIOUS
<1>3. b \in S!State /\ b.last = -1 /\ b.cursor = 0 /\ b.began = -1
  BY <1>1, ScanBounds DEF S!Blank, S!State, S!Times, S!Never
<1>4. i \in AScanner /\ i.state = b /\ i.pc = "idle"
  BY <1>1, <1>2, <1>3, ScanBounds DEF S!Idle, AScanner
<1>5. /\ now = 0 /\ \A o \in S!Orders : updated[o] = 0
      /\ due = S!Orders /\ given_up = {} /\ row = b
      /\ updated = [o \in S!Orders |-> 0] /\ scanner = [s \in Scanners |-> i]
  BY <1>1, <1>2 DEF S!Init
<1>6. ScanTypes
  BY <1>3, <1>4, <1>5, ScanBounds DEF ScanTypes
<1>7. Kept(b)
  <2>1. \A o \in Owed : updated[o] >= S!Since(b) /\ ~(updated[o] < b.began)
    BY <1>3, <1>5 DEF Owed, S!Since, S!Never
  <2>2. QED
    BY <1>3, <1>5, <2>1 DEF Kept
<1>8. Kept(row)
  BY <1>5, <1>7
<1>9. \A s \in Scanners : Kept(scanner[s].state) /\ Complete(scanner[s])
  BY <1>4, <1>5, <1>7 DEF Complete
<1>10. QED
  BY <1>6, <1>8, <1>9 DEF ScanRight

\* What is to be shown of a step that is none of a scanner's.
LEMMA NoneScans ==
  ASSUME ScanRight, ScanTypes', UNCHANGED <<row, scanner>>,
         \A x \in S!State : Kept(x) => Kept(x)',
         \A y \in AScanner : Kept(y.state) /\ Complete(y) => Complete(y)'
  PROVE  ScanRight'
<1>1. row \in S!State /\ scanner \in [Scanners -> AScanner]
  BY DEF ScanRight, ScanTypes
<1>2. Kept(row)'
  <2>1. PICK w : w = row
    OBVIOUS
  <2>2. Kept(w)'
    BY <1>1, <2>1 DEF ScanRight
  <2>3. QED
    BY <2>1, <2>2 DEF Kept, S!Since
<1>3. ASSUME NEW s \in Scanners
      PROVE  (Kept(scanner[s].state) /\ Complete(scanner[s]))'
  <2>1. PICK y : y = scanner[s]
    OBVIOUS
  <2>2. y \in AScanner /\ y.state \in S!State /\ Kept(y.state) /\ Complete(y)
    BY <1>1, <2>1 DEF ScanRight, AScanner
  <2>3. Kept(y.state)' /\ Complete(y)'
    BY <2>2
  <2>4. QED
    BY <2>1, <2>3 DEF Kept, Complete, S!Since
<1>4. QED
  BY <1>2, <1>3 DEF ScanRight

LEMMA ScanKept == ScanRight /\ [S!Next]_scan => ScanRight'
<1> SUFFICES ASSUME ScanRight, [S!Next]_scan
             PROVE  ScanRight'
  OBVIOUS
<1>1. /\ ScanTypes /\ now \in 0..MaxTime /\ updated \in [S!Orders -> 0..now]
      /\ \A x \in S!State : x.last \in Int /\ x.began \in Int
      /\ \A y \in AScanner : y.state \in S!State
  BY ScanBounds DEF ScanRight, ScanTypes, S!State, S!Times, S!Never, AScanner
<1>2. CASE S!Tick \/ UNCHANGED scan
  <2>1. /\ UNCHANGED <<updated, due, row, scanner, given_up>>
        /\ now' \in 0..MaxTime /\ now <= now'
    BY <1>1, <1>2, ScanBounds DEF S!Tick, scan
  <2>2. ScanTypes'
    BY <1>1, <2>1, ScanBounds DEF ScanTypes
  <2>3. Owed' \subseteq Owed /\ now \in Int /\ now' \in Int
    BY <1>1, <2>1, ScanBounds DEF Owed
  <2>4. \A x \in S!State : Kept(x) => Kept(x)'
    BY <1>1, <2>1, <2>3, KeptOn
  <2>5. \A y \in AScanner : Complete(y) => Complete(y)'
    BY <2>1, <2>3, CompleteOn
  <2>6. QED
    BY <2>1, <2>2, <2>4, <2>5, NoneScans
<1>3. ASSUME NEW o \in S!Orders, S!Update(o)
      PROVE  ScanRight'
  <2>1. /\ UNCHANGED <<now, row, scanner>> /\ updated[o] < now
        /\ updated' = [updated EXCEPT ![o] = now]
        /\ due' = due \cup {o} /\ given_up' = given_up \ {o}
    BY <1>3 DEF S!Update
  <2>2. ScanTypes'
    <3>1. updated' \in [S!Orders -> 0..now]
      BY <1>1, <2>1, ScanBounds
    <3>2. QED
      BY <1>1, <2>1, <3>1 DEF ScanTypes
  <2>3. \A x \in S!State : Kept(x) => Kept(x)'
    BY <1>1, <1>3, UpdateKeeps
  <2>4. \A y \in AScanner : Kept(y.state) /\ Complete(y) => Complete(y)'
    BY <1>1, <1>3, UpdateCompletes
  <2>5. QED
    BY <2>1, <2>2, <2>3, <2>4, NoneScans
<1>4. ASSUME NEW s \in Scanners,
             \/ S!Find(s) \/ S!Lock(s) \/ S!Page(s) \/ S!Succeed(s) \/ S!Fail(s)
             \/ S!Crash(s)
      PROVE  ScanRight'
  BY <1>4, ScannerKeepsScans
<1>5. QED
  BY <1>2, <1>3, <1>4 DEF S!Next

LEMMA ScanStep == [ProviderNext]_provider => [S!Next]_scan
BY DEF ProviderNext, provider, scan

LEMMA ScanStaysRight == ProviderSpec => []ScanRight
<1>1. ProviderInit => ScanRight
  BY ScanBegins DEF ProviderInit
<1>2. ScanRight /\ [ProviderNext]_provider => ScanRight'
  BY ScanStep, ScanKept
<1>3. QED
  BY <1>1, <1>2, PTL DEF ProviderSpec

\* Whatever the scans that fail, are cut, resumed or run side by side, and the
\* updates that come between their pages: no order that no import job has
\* followed is older than what the next scan asks for (the reconciliation
\* processor, its cursor and its overlap).
THEOREM NoUpdateBehind == ProviderSpec => []NoUpdateSlips
<1>1. ScanRight => NoUpdateSlips
  BY DEF ScanRight, Kept, Owed, NoUpdateSlips, S!NoUpdateSlips
<1>2. QED
  BY <1>1, ScanStaysRight, PTL

-----------------------------------------------------------------------------
(* All parts.                                                              *)

LEMMA ConnectionTyped == ConnectionRight => TypeOK
<1> SUFFICES ASSUME ConnectionRight
             PROVE  TypeOK
  OBVIOUS
<1>1. ConnectionTypes /\ LockRight /\ RunsRight
  BY DEF ConnectionRight, RowsConnected
<1>2. tries \in [Runs -> 0..(MaxTries + MaxEvents)]
  <2>1. \A r \in Runs : tries[r] \in Nat /\ tries[r] <= MaxTries + faults.count
    BY <1>1 DEF ConnectionTypes, RunsRight
  <2>2. faults.count \in 0..MaxEvents
    BY <1>1 DEF ConnectionTypes
  <2>3. \A r \in Runs : tries[r] \in 0..(MaxTries + MaxEvents)
    BY <2>1, <2>2, Bounds
  <2>4. QED
    BY <1>1, <2>3 DEF ConnectionTypes
<1>3. QED
  BY <1>1, <1>2 DEF TypeOK, ConnectionTypes, LockRight, AProcess

\* Every variable of every part keeps its type, the lock of a renewal belongs
\* to the one process that renews, and a job is not tried more often than its
\* attempts and the ends of the process allow.
THEOREM ProviderTypes == ProviderSpec => []ProviderTypeOK
<1>1. CallsRight => C!TypeOK
  <2> SUFFICES ASSUME CallsRight
               PROVE  C!TypeOK
    OBVIOUS
  <2>1. \A s \in C!Slots : sending[s] \in ASending
                           /\ RequestRight(sending[s], operation, deadline)
    BY DEF CallsRight, CallTypes
  <2>2. \A s \in C!Slots : /\ sending[s].pc \in C!Steps /\ sending[s].attempt \in 0..2
                           /\ sending[s].error # C!NoError <=> sending[s].pc = "failed"
    BY <2>1 DEF ASending, RequestRight
  <2>3. QED
    BY <2>2 DEF CallsRight, CallTypes, C!TypeOK
<1>2. ScanRight => S!TypeOK
  <2> SUFFICES ASSUME ScanRight
               PROVE  S!TypeOK
    OBVIOUS
  <2>1. ScanTypes
    BY DEF ScanRight
  <2>2. \A n \in 0..(MaxPages - 1) : n \in 0..MaxPages
    BY ScanBounds
  <2>3. QED
    BY <2>1, <2>2 DEF ScanTypes, AScanner, S!TypeOK
<1>3. NoticesRight => N!TypeOK
  <2> SUFFICES ASSUME NoticesRight
               PROVE  N!TypeOK
    OBVIOUS
  <2>1. NoticeTypes /\ \A h \in Handlers : ReadRight(handler[h], last, open)
    BY DEF NoticesRight
  <2>2. \A h \in Handlers :
          /\ handler[h].pc \in {"idle", "product", "item", "listing", "stock",
                                "compare", "note", "done"}
          /\ handler[h].pc = "note" => handler[h].verdict # "CONFIRMATION"
    BY <2>1 DEF NoticeTypes, Handling, ReadRight
  <2>3. QED
    BY <2>1, <2>2 DEF NoticeTypes, N!TypeOK
<1>4. QED
  BY <1>1, <1>2, <1>3, ConnectionTyped, ConnectionStaysRight, CallsStayRight,
     ScanStaysRight, NoticesStayRight, PTL DEF ProviderTypeOK

=============================================================================
