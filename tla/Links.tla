-------------------------------- MODULE Links -------------------------------
(***************************************************************************)
(* The links between products and marketplace listings                     *)
(* (api/src/product-marketplace-links): manual links, accepted suggestions, *)
(* batches (a batch is a row of single links with keys of their own),      *)
(* unlinking and validation, all repeated safely under an idempotency key. *)
(*                                                                         *)
(* A request is a transaction of two steps.  The first, without a lock,    *)
(* looks for an audit row with the request's key and reads the product;    *)
(* the second has the lock of the listing or the link and decides.  The    *)
(* audit row of a successful request holds its key, a hash of what was     *)
(* asked and the answer; its key is unique.  The unique index on active    *)
(* links is left out: the lock and the check under it must suffice.        *)
(***************************************************************************)
EXTENDS Naturals, Sequences, FiniteSets

CONSTANTS Products, Listings,
          Keys,         \* idempotency keys
          Calls,        \* requests under way at once
          Suggested,    \* the product with the SKU of a listing, or None
          None,
          MaxWrites     \* bound: writes of every kind

VARIABLES status,       \* of the products: read only
          offered,      \* listings that are neither closed nor deleted
          connected,    \* is the connection of the listings in use?
          link,         \* the links, in the order they were made
          audit,        \* the audit rows, in the order they were written
          call,         \* the requests
          writes        \* how many writes there were (bound)

linkVars == <<offered, connected, link, audit, call>>
vars == <<status, linkVars, writes>>

Spend(n) == writes + n <= MaxWrites /\ writes' = writes + n

\* What is asked, as its hash tells it: a suggestion that is not, or no longer,
\* an exact match is a link made by hand.
Create(p, l, exact) ==
    [op |-> "create", product |-> p, listing |-> l, exact |-> exact, link |-> 0]
About(op, i) ==
    [op |-> op, product |-> None, listing |-> None, exact |-> FALSE, link |-> i]

Idle == [pc |-> "idle", key |-> None, hash |-> None, answer |-> 0]

Exact(p, l) == Suggested[l] = p /\ status[p] = "ACTIVE"

Active(l) == {i \in DOMAIN link : link[i].listing = l /\ link[i].state = "ACTIVE"}

Recorded(key) == {i \in DOMAIN audit : audit[i].key = key}

Row(event, i, key, hash) ==
    [event |-> event, link |-> i, key |-> key, hash |-> hash]

-----------------------------------------------------------------------------
Done(c, pc, i) == call' = [call EXCEPT ![c].pc = pc, ![c].answer = i]
Fail(c) == Done(c, "error", 0)

\* The stored answer if the same was asked, else the key is refused.
Replay(c) ==
    \E i \in Recorded(call[c].key) :
        IF audit[i].hash = call[c].hash THEN Done(c, "ok", audit[i].link)
        ELSE Fail(c)

\* A request arrives, for the first time or again.
Receive(c, key, hash) ==
    /\ call[c].pc \in {"idle", "ok", "error"}
    /\ call' = [call EXCEPT ![c] = [pc |-> "received", key |-> key,
                                    hash |-> hash, answer |-> 0]]
    /\ UNCHANGED <<status, offered, connected, link, audit>>

Link(c, key, p, l) == Spend(2) /\ Receive(c, key, Create(p, l, FALSE))

\* The match is computed again before the transaction begins.
AcceptSuggestion(c, key, p, l) ==
    Spend(2) /\ Receive(c, key, Create(p, l, Exact(p, l)))

Unlink(c, key, i) == Spend(2) /\ Receive(c, key, About("unlink", i))
Validate(c, key, i) == Spend(2) /\ Receive(c, key, About("validate", i))

\* The first step of the transaction.
Check(c) ==
    LET h == call[c].hash IN
    /\ call[c].pc = "received"
    /\ \/ /\ Recorded(call[c].key) # {}
          /\ Replay(c)
       \/ /\ Recorded(call[c].key) = {}
          /\ h.op = "create" /\ status[h.product] # "ACTIVE"
          /\ Fail(c)
       \/ /\ Recorded(call[c].key) = {}
          /\ h.op = "create" => status[h.product] = "ACTIVE"
          /\ call' = [call EXCEPT ![c].pc = "checked"]
    /\ UNCHANGED <<status, offered, connected, link, audit, writes>>

\* The audit row is refused if another request has used the key meanwhile.
Taken(key) == Recorded(key) # {}

\* (mutant: nobody looks for an active link under the lock)
Linked_Never(l) == FALSE

Linked(l) == Active(l) # {}

\* The second step: with the listing locked.
SaveLink(c) ==
    LET h == call[c].hash
        i == Len(link) + 1 IN
    /\ call[c].pc = "checked" /\ h.op = "create"
    /\ \/ /\ ~connected \/ h.listing \notin offered
          /\ Fail(c)
          /\ UNCHANGED <<link, audit>>
       \/ /\ connected /\ h.listing \in offered
          /\ Linked(h.listing)
          /\ Fail(c)
          /\ audit' = Append(audit, Row("CONFLICT", 0, None, None))
          /\ UNCHANGED link
       \/ /\ connected /\ h.listing \in offered
          /\ ~Linked(h.listing)
          /\ IF Taken(call[c].key)
             THEN Replay(c) /\ UNCHANGED <<link, audit>>
             ELSE /\ link' = Append(link, [product |-> h.product,
                                           listing |-> h.listing,
                                           state |-> "ACTIVE",
                                           madeBy |-> call[c].key,
                                           endedBy |-> None])
                  /\ audit' = Append(audit, Row("CREATED", i, call[c].key, h))
                  /\ Done(c, "ok", i)
    /\ UNCHANGED <<status, offered, connected, writes>>

\* The second step: with the link locked.
SaveUnlink(c) ==
    LET h == call[c].hash IN
    /\ call[c].pc = "checked" /\ h.op = "unlink"
    /\ \/ /\ link[h.link].state # "ACTIVE"
          /\ Fail(c)
          /\ UNCHANGED <<link, audit>>
       \/ /\ link[h.link].state = "ACTIVE"
          /\ IF Taken(call[c].key)
             THEN Replay(c) /\ UNCHANGED <<link, audit>>
             ELSE /\ link' = [link EXCEPT ![h.link].state = "INACTIVE",
                                          ![h.link].endedBy = call[c].key]
                  /\ audit' = Append(audit, Row("UNLINKED", h.link, call[c].key, h))
                  /\ Done(c, "ok", h.link)
    /\ UNCHANGED <<status, offered, connected, writes>>

\* A validation notes on the link what it found; the link stays as it is.
SaveValidation(c) ==
    LET h == call[c].hash IN
    /\ call[c].pc = "checked" /\ h.op = "validate"
    /\ IF Taken(call[c].key)
       THEN Replay(c) /\ UNCHANGED audit
       ELSE /\ audit' = Append(audit, Row("VALIDATED", h.link, call[c].key, h))
            /\ Done(c, "ok", h.link)
    /\ UNCHANGED <<status, offered, connected, link, writes>>

-----------------------------------------------------------------------------
(* What happens to listings meanwhile.                                     *)

\* A notification about a listing the marketplace no longer has ends its link
\* in one statement that asks for no lock first and leaves no audit row.
Invalidate(l) ==
    /\ Spend(1)
    /\ Linked(l)
    /\ link' = [i \in DOMAIN link |-> IF i \in Active(l)
                                      THEN [link[i] EXCEPT !.state = "INVALID"]
                                      ELSE link[i]]
    /\ UNCHANGED <<status, offered, connected, audit, call>>

\* Synchronisation finds a listing closed, or open again.
SyncListing(l) ==
    /\ Spend(1)
    /\ offered' = IF l \in offered THEN offered \ {l} ELSE offered \cup {l}
    /\ UNCHANGED <<status, connected, link, audit, call>>

ToggleConnection ==
    /\ Spend(1)
    /\ connected' = ~connected
    /\ UNCHANGED <<status, offered, link, audit, call>>

-----------------------------------------------------------------------------
Init ==
    /\ status \in [Products -> {"ACTIVE", "INACTIVE"}]
    /\ offered = Listings
    /\ connected = TRUE
    /\ link = <<>> /\ audit = <<>>
    /\ call = [c \in Calls |-> Idle]
    /\ writes = 0

CallStep(c) == Check(c) \/ SaveLink(c) \/ SaveUnlink(c) \/ SaveValidation(c)

Next ==
    \/ \E c \in Calls, key \in Keys :
          \/ \E p \in Products, l \in Listings :
                Link(c, key, p, l) \/ AcceptSuggestion(c, key, p, l)
          \/ \E i \in DOMAIN link : Unlink(c, key, i) \/ Validate(c, key, i)
    \/ \E c \in Calls : CallStep(c)
    \/ \E l \in Listings : Invalidate(l) \/ SyncListing(l)
    \/ ToggleConnection

Spec == Init /\ [][Next]_vars

-----------------------------------------------------------------------------
Hash == [op : {"create", "unlink", "validate"}, product : Products \cup {None},
         listing : Listings \cup {None}, exact : BOOLEAN, link : Nat]

\* Every variable keeps its type, and audit rows are about links that exist.
TypeOK ==
    /\ offered \subseteq Listings /\ connected \in BOOLEAN
    /\ \A i \in DOMAIN link :
          link[i] \in [product : Products, listing : Listings,
                       state : {"ACTIVE", "INACTIVE", "INVALID"},
                       madeBy : Keys, endedBy : Keys \cup {None}]
    /\ \A i \in DOMAIN audit :
          audit[i] \in [event : {"CREATED", "UNLINKED", "VALIDATED", "CONFLICT"},
                        link : 0 .. Len(link), key : Keys \cup {None},
                        hash : Hash \cup {None}]
    /\ \A c \in Calls :
          call[c] \in [pc : {"idle", "received", "checked", "ok", "error"},
                       key : Keys \cup {None}, hash : Hash \cup {None},
                       answer : 0 .. Len(link)]

\* A listing never has two active links (README.md:12): two requests that both
\* found it free, or one of them a repetition, cannot both link it, although
\* the check is made by each under the lock alone (createWithOrigin).
OneActiveLink == \A l \in Listings : Cardinality(Active(l)) <= 1

\* What requests with one key have done to links.
Effects(key) == {i \in DOMAIN link : link[i].madeBy = key}
                \cup {Len(link) + i : i \in {j \in DOMAIN link : link[j].endedBy = key}}

\* A key has one effect at most, however often and with whatever content it is
\* sent, and a request that is answered with a link was about that link: the
\* answer of another request is never given to it (replay, the unique key).
OneEffectPerKey ==
    /\ \A key \in Keys : Cardinality(Effects(key)) <= 1
    /\ \A c \in Calls :
          call[c].pc = "ok" =>
             LET h == call[c].hash
                 x == link[call[c].answer] IN
             IF h.op = "create"
             THEN x.product = h.product /\ x.listing = h.listing
             ELSE call[c].answer = h.link

\* The audit accounts for the links: each was made by the request of a row,
\* an active link has no row that ends it, and an inactive link has one.  Only
\* notifications end a link without a row, and then it reads INVALID.
AuditExplainsLinks ==
    \A i \in DOMAIN link :
        /\ \E a \in DOMAIN audit :
              audit[a].event = "CREATED" /\ audit[a].link = i
              /\ audit[a].key = link[i].madeBy
        /\ link[i].state = "INACTIVE" <=>
              \E a \in DOMAIN audit : audit[a].event = "UNLINKED" /\ audit[a].link = i
=============================================================================
