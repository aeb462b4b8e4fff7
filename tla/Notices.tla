------------------------------- MODULE Notices ------------------------------
(***************************************************************************)
(* A notification about an item or a user product, compared with the       *)
(* central stock: MercadoLivreWebhookDispatcher (product, stockLocations), *)
(* for one listing and its link.                                           *)
(*                                                                         *)
(* The handler reads the item at the marketplace, then the stock, then the *)
(* last synchronisation that succeeded, one after the other, while stock   *)
(* and synchronisations go on.  A mismatch is either the echo of an older  *)
(* synchronisation or a change made by somebody else; either way it is     *)
(* noted once.  The account lock of the worker keeps handlers apart.  The  *)
(* variations of an item and the items of a user product are gone through  *)
(* one by one, each with rows of its own.                                  *)
(***************************************************************************)
EXTENDS Naturals, FiniteSets

CONSTANTS
  Handlers,
  Quantities,
  MaxVersion,   \* bound: versions of the balance
  MaxTampers,   \* bound: changes somebody else makes at the marketplace
  Nobody

VARIABLES
  stock,     \* the balance: version and what is available
  shown,     \* the quantity the marketplace shows
  sync,      \* the synchronisation under way
  last,      \* the last one that succeeded
  link,      \* product_marketplace_links.status
  listed,    \* marketplace_listings.available_quantity
  open,      \* open divergences, by what was expected and what was shown
  handler,   \* notifications under way
  lock,      \* the account lock
  tampers,   \* bound
  past       \* history: the last synchronisation recorded, whether one was
             \* sent and not recorded, and whether somebody else changed shown

vars == <<stock, shown, sync, last, link, listed, open, handler, lock,
          tampers, past>>

ours == <<stock, shown, sync, last, tampers>>

\* What the constants must be.
ConstantsFit == Nobody \notin Handlers /\ MaxVersion \in Nat \ {0}

NoSync == [pc |-> "none", version |-> 0, quantity |-> 0]
NeverSent == [version |-> 0, quantity |-> 0, recent |-> FALSE]

Idle == [pc |-> "idle", shown |-> 0, expected |-> 0, version |-> 0,
         verdict |-> "NONE", steady |-> FALSE, foreign |-> FALSE]

Init ==
  /\ \E q \in Quantities : stock = [version |-> 1, available |-> q]
  /\ shown \in Quantities
  /\ sync = NoSync
  /\ last = NeverSent
  /\ link = "ACTIVE"
  /\ listed = shown
  /\ open = [d \in Quantities \X Quantities |-> 0]
  /\ handler = [h \in Handlers |-> Idle]
  /\ lock = Nobody
  /\ tampers = 0
  /\ past = [sent |-> NeverSent, untold |-> FALSE, foreign |-> TRUE]

-----------------------------------------------------------------------------
(* Meanwhile: stock, synchronisations, the marketplace, the users.         *)

Change ==
  /\ stock.version < MaxVersion
  /\ \E q \in Quantities \ {stock.available} :
       stock' = [version |-> stock.version + 1, available |-> q]
  /\ UNCHANGED <<shown, sync, last, link, listed, open, handler, lock,
                 tampers, past>>

Tamper ==
  /\ tampers < MaxTampers
  /\ tampers' = tampers + 1
  /\ \E q \in Quantities \ {shown} : shown' = q
  /\ past' = [past EXCEPT !.foreign = TRUE]
  /\ UNCHANGED <<stock, sync, last, link, listed, open, handler, lock>>

\* What a handler under way has read is no longer all there is.
Overtaken == [h \in Handlers |-> [handler[h] EXCEPT !.steady = FALSE]]

ReadBalance ==
  /\ sync = NoSync /\ link = "ACTIVE"
  /\ sync' = [pc |-> "read", version |-> stock.version,
              quantity |-> stock.available]
  /\ UNCHANGED <<stock, shown, last, link, listed, open, handler, lock,
                 tampers, past>>

Put ==
  /\ sync.pc = "read"
  /\ sync' = [sync EXCEPT !.pc = "put"]
  /\ shown' = sync.quantity
  /\ handler' = Overtaken
  /\ past' = [past EXCEPT !.untold = TRUE, !.foreign = FALSE]
  /\ UNCHANGED <<stock, last, link, listed, open, lock, tampers>>

\* SUCCESS if the balance has not moved, SUPERSEDED if it has.
Record ==
  LET sent == [version |-> sync.version, quantity |-> sync.quantity,
               recent |-> TRUE]
  IN /\ sync.pc = "put"
     /\ sync' = NoSync
     /\ last' = IF sync.version = stock.version THEN sent ELSE last
     /\ handler' = Overtaken
     /\ past' = [past EXCEPT !.sent = sent, !.untold = FALSE]
     /\ UNCHANGED <<stock, shown, link, listed, open, lock, tampers>>

\* The request or a save fails, or the process stops.
Break ==
  /\ sync # NoSync
  /\ sync' = NoSync
  /\ UNCHANGED <<stock, shown, last, link, listed, open, handler, lock,
                 tampers, past>>

\* Five minutes after: the older row first.
Age ==
  /\ past.sent.recent \/ last.recent
  /\ last' = [last EXCEPT !.recent = FALSE]
  /\ \E recent \in {past.sent.recent /\ past.sent # last, FALSE} :
       past' = [past EXCEPT !.sent.recent = recent]
  /\ UNCHANGED <<stock, shown, sync, link, listed, open, handler, lock, tampers>>

\* resolveDivergence.
Resolve(d) ==
  /\ open[d] > 0
  /\ open' = [open EXCEPT ![d] = @ - 1]
  /\ UNCHANGED <<ours, link, listed, handler, lock, past>>

\* A user links the listing again.
Relink ==
  /\ link = "INVALID"
  /\ link' = "ACTIVE"
  /\ UNCHANGED <<ours, listed, open, handler, lock, past>>

-----------------------------------------------------------------------------
(* The handler.                                                            *)

Free_Always == TRUE

Free == lock = Nobody

To(h, pc) == handler' = [handler EXCEPT ![h].pc = pc]

\* dispatch: an item is read at once, a user product is looked up first.
Take(h) ==
  /\ handler[h].pc = "idle"
  /\ Free
  /\ lock' = h
  /\ \E pc \in {"item", "product"} : To(h, pc)
  /\ UNCHANGED <<ours, link, listed, open, past>>

Release(h) ==
  /\ handler' = [handler EXCEPT ![h] = Idle]
  /\ lock' = IF lock = h THEN Nobody ELSE lock

\* The deadline, an error of any request or query, or the end.
GiveUp(h) ==
  /\ handler[h].pc # "idle"
  /\ Release(h)
  /\ UNCHANGED <<ours, link, listed, open, past>>

\* stockLocations: the user product is of this account, and has items.
ReadUserProduct(h) ==
  /\ handler[h].pc = "product"
  /\ To(h, "item")
  /\ UNCHANGED <<ours, link, listed, open, lock, past>>

\* getItem, of this account.
ReadItem(h) ==
  /\ handler[h].pc = "item"
  /\ handler' = [handler EXCEPT ![h].pc = "listing", ![h].shown = shown,
                   ![h].steady = past.sent = last /\ ~past.untold,
                   ![h].foreign = past.foreign]
  /\ UNCHANGED <<ours, link, listed, open, lock, past>>

\* The marketplace no longer knows the item: the active link is invalidated and
\* the notification fails.
MissItem(h) ==
  /\ handler[h].pc = "item"
  /\ link' = "INVALID"
  /\ Release(h)
  /\ UNCHANGED <<ours, listed, open, past>>

\* upsertListing, then the active link.
SaveListing(h) ==
  /\ handler[h].pc = "listing"
  /\ listed' = handler[h].shown
  /\ IF link = "ACTIVE" THEN To(h, "stock") /\ UNCHANGED lock ELSE Release(h)
  /\ UNCHANGED <<ours, link, open, past>>

ReadStock(h) ==
  /\ handler[h].pc = "stock"
  /\ handler' = [handler EXCEPT ![h].pc = "compare",
                   ![h].expected = stock.available,
                   ![h].version = stock.version]
  /\ UNCHANGED <<ours, link, listed, open, lock, past>>

\* The last synchronisation that succeeded, if it was of an older balance.
Echo_NotSent(h) == last.recent /\ last.version < handler[h].version
                     /\ last.quantity = handler[h].expected

Echo(h) == last.recent /\ last.version < handler[h].version
             /\ last.quantity = handler[h].shown

Verdict(h) ==
  IF handler[h].shown = handler[h].expected THEN "CONFIRMATION"
  ELSE IF Echo(h) THEN "STALE_EVENT" ELSE "EXTERNAL_CHANGE"

Divergence(h) == <<handler[h].expected, handler[h].shown>>

\* existsBy: a divergence that is open is not noted again.
Compare(h) ==
  LET verdict == Verdict(h) IN
  /\ handler[h].pc = "compare"
  /\ handler' = [handler EXCEPT
       ![h].verdict = verdict,
       ![h].pc = IF verdict = "CONFIRMATION" \/ open[Divergence(h)] > 0
                   THEN "done" ELSE "note"]
  /\ UNCHANGED <<ours, link, listed, open, lock, past>>

Note(h) ==
  /\ handler[h].pc = "note"
  /\ open' = [open EXCEPT ![Divergence(h)] = @ + 1]
  /\ To(h, "done")
  /\ UNCHANGED <<ours, link, listed, lock, past>>

-----------------------------------------------------------------------------

Handle(h) ==
  \/ Take(h) \/ ReadUserProduct(h) \/ ReadItem(h) \/ MissItem(h)
  \/ SaveListing(h) \/ ReadStock(h) \/ Compare(h) \/ Note(h) \/ GiveUp(h)

Next ==
  \/ Change \/ Tamper
  \/ ReadBalance \/ Put \/ Record \/ Break \/ Age
  \/ Relink \/ \E d \in Quantities \X Quantities : Resolve(d)
  \/ \E h \in Handlers : Handle(h)

Spec == Init /\ [][Next]_vars

-----------------------------------------------------------------------------
(* Properties.                                                             *)

Sent == [version : 0..MaxVersion, quantity : Quantities \cup {0},
         recent : BOOLEAN]

TypeOK ==
  /\ stock \in [version : 1..MaxVersion, available : Quantities]
  /\ {shown, listed} \subseteq Quantities
  /\ sync.pc \in {"none", "read", "put"}
  /\ {last, past.sent} \subseteq Sent
  /\ link \in {"ACTIVE", "INVALID"}
  /\ \A h \in Handlers :
       /\ handler[h].pc \in {"idle", "product", "item", "listing", "stock",
                             "compare", "note", "done"}
       /\ handler[h].pc = "note" => handler[h].verdict # "CONFIRMATION"
  /\ lock \in Handlers \cup {Nobody}

\* The same divergence is never open twice, however many notifications report
\* it: the look and the note are two steps that only the account lock protects.
NoTwinDivergence == \A d \in Quantities \X Quantities : open[d] <= 1

\* The handler has judged what it read to be the work of somebody else.
Alarm(h) == /\ handler[h].pc = "compare"
            /\ handler'[h].verdict = "EXTERNAL_CHANGE"

\* An alarm is real when the last synchronisation was recorded as a success
\* less than five minutes ago and none was sent or recorded since the item was
\* read: then somebody else has changed what the marketplace shows.
AlarmsAreReal ==
  [][\A h \in Handlers :
       Alarm(h) /\ handler[h].steady /\ last.recent => handler[h].foreign]_vars

=============================================================================
