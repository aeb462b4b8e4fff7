------------------------------- MODULE Screens ------------------------------
(***************************************************************************)
(* What a page of the frontend shows while its user changes filters,       *)
(* switches the company and acts on what the page lists.                   *)
(*                                                                         *)
(* An effect of the page asks the API for its data, again whenever what    *)
(* it depends on changes, and its cleanup disowns the request before (an   *)
(* AbortController, or a flag).  The company goes into the header of every *)
(* request; CompanyProvider sets it in an effect of its own, which React   *)
(* runs after those of the pages below it.  After an action a page either  *)
(* runs its effect again or calls its load function, which nothing         *)
(* disowns.                                                                *)
(***************************************************************************)
EXTENDS Naturals, FiniteSets

CONSTANTS
  Requests,     \* requests of a page under way at a time
  Companies,
  Filters,      \* also the number of the list's page, the id of the address
  MaxChanges    \* bound: changes of the view, actions

VARIABLES
  page,      \* how the page at hand loads
  view,      \* the company and the filter the user has chosen
  shown,     \* what the page has: for whom it was read, of which revision
  loads,     \* its requests
  timer,     \* the effect has run and asks in a moment
  action,    \* what the user has clicked, with the filter of that moment
  revision,  \* the data at the server, and what the user knows of it
  past       \* history: changes so far; the last load of the view failed;
             \* an action and the view have crossed

vars == <<page, view, shown, loads, timer, action, revision, past>>

-----------------------------------------------------------------------------
(* How each page loads.  keyed: mounted anew for another company; watches: *)
(* its effect depends on the company; later: the effect asks after a delay *)
(* or in a task of its own; owns: the cleanup disowns the request; reload: *)
(* what follows an action; hides: data of another company is not drawn.    *)

Careless == [keyed |-> FALSE, watches |-> TRUE, later |-> TRUE, owns |-> FALSE,
             reload |-> "load", hides |-> FALSE]
Careful == [Careless EXCEPT !.owns = TRUE]

InventoryPage == [Careful EXCEPT !.reload = "effect", !.hides = TRUE]
MovementsPage == [Careful EXCEPT !.reload = "effect", !.hides = TRUE]
OrdersPage == [Careful EXCEPT !.reload = "none"]
MarketplaceLinksPage == [Careful EXCEPT !.keyed = TRUE]
WebhooksPage == [Careful EXCEPT !.keyed = TRUE]
UnlinkedListingsPage == [Careful EXCEPT !.keyed = TRUE]
ProductDrawer == [Careful EXCEPT !.keyed = TRUE, !.reload = "none"]
BundleEditor == [Careful EXCEPT !.keyed = TRUE, !.later = FALSE]
\* The permissions, the first of its requests.
FiscalPage == [BundleEditor EXCEPT !.reload = "effect"]
FiscalProductEditor == [BundleEditor EXCEPT !.reload = "effect"]
OrderDetailsPage == [Careful EXCEPT !.later = FALSE]
MembersPage == Careless
IntegrationsPage == Careless
IntegrationDetailsPage == [Careless EXCEPT !.watches = FALSE]
StockSyncPage == [Careless EXCEPT !.later = FALSE]
ExternalOrdersPage ==
  [Careless EXCEPT !.later = FALSE, !.watches = FALSE, !.reload = "none"]
ListingsPage == ExternalOrdersPage

Pages == {InventoryPage, MovementsPage, OrdersPage, MarketplaceLinksPage,
          WebhooksPage, UnlinkedListingsPage, ProductDrawer, BundleEditor,
          FiscalPage, FiscalProductEditor, OrderDetailsPage, MembersPage,
          IntegrationsPage, IntegrationDetailsPage, StockSyncPage,
          ExternalOrdersPage, ListingsPage}

-----------------------------------------------------------------------------

Views == [company : Companies, filter : Filters]

Data(v, r) == [view |-> v, revision |-> r]
Empty == [view |-> [company |-> "none", filter |-> "none"], revision |-> 0]

Free == [pc |-> "free", data |-> Empty, owned |-> FALSE]
NoAction == [pc |-> "none", filter |-> "none"]

Asked(v, owned) == [pc |-> "sent", data |-> Data(v, 0), owned |-> owned]

\* The page is mounted and its effect has run, with the header set.
Init ==
  /\ page \in Pages
  /\ view \in Views
  /\ shown = Empty
  /\ \E r \in Requests :
       loads = [[q \in Requests |-> Free] EXCEPT
                  ![r] = IF page.later THEN @ ELSE Asked(view, page.owns)]
  /\ timer = page.later
  /\ action = NoAction
  /\ revision = [server |-> 1, known |-> 1]
  /\ past = [changes |-> 0, failed |-> FALSE, crossed |-> FALSE]

UnderWay(r) == loads[r].pc \in {"sent", "read"}

\* The cleanup of the effect.
Disowned ==
  [r \in Requests |-> IF loads[r].owned /\ UnderWay(r)
                        THEN [loads[r] EXCEPT !.pc = "disowned"] ELSE loads[r]]

\* One of the slots that are free carries a request for v.
Sends(before, v, owned) ==
  \E r \in Requests : /\ before[r] = Free
                      /\ loads' = [before EXCEPT ![r] = Asked(v, owned)]

\* The effect runs again: at once with the header there is, or in a moment.
Effect(before, v) ==
  IF page.later THEN loads' = before /\ timer' = TRUE
                ELSE Sends(before, v, page.owns) /\ timer' = FALSE

Changed == /\ past.changes < MaxChanges
           /\ past' = [past EXCEPT !.changes = @ + 1, !.failed = FALSE,
                         !.crossed = @ \/ action # NoAction \/ \E r \in Requests :
                                       UnderWay(r) /\ ~loads[r].owned]

Fire ==
  /\ timer
  /\ timer' = FALSE
  /\ Sends(loads, view, page.owns)
  /\ past' = [past EXCEPT !.failed = FALSE]
  /\ UNCHANGED <<page, view, shown, action, revision>>

Filter(f) ==
  /\ f # view.filter
  /\ Changed
  /\ view' = [view EXCEPT !.filter = f]
  /\ Effect(Disowned, view')
  /\ UNCHANGED <<page, shown, action, revision>>

\* confirmCompanySwitch.  An answer for a page that is no longer mounted
\* changes nothing.
Switch(c) ==
  /\ c # view.company
  /\ Changed
  /\ view' = [view EXCEPT !.company = c]
  /\ IF page.keyed
       THEN /\ Effect([r \in Requests |-> Free], view)
            /\ shown' = Empty /\ action' = NoAction
       ELSE /\ IF page.watches THEN Effect(Disowned, view)
                               ELSE UNCHANGED <<loads, timer>>
            /\ UNCHANGED <<shown, action>>
  /\ UNCHANGED <<page, revision>>

-----------------------------------------------------------------------------
(* Requests.                                                               *)

Becomes(r, load) == loads' = [loads EXCEPT ![r] = load]

Read(r) ==
  /\ loads[r].pc = "sent"
  /\ Becomes(r, [loads[r] EXCEPT !.pc = "read",
                                 !.data.revision = revision.server])
  /\ UNCHANGED <<page, view, shown, timer, action, revision, past>>

Ignored_Never(r) == FALSE

Ignored(r) == loads[r].pc = "disowned"

Answer(r) ==
  /\ loads[r].pc \in {"read", "disowned"}
  /\ shown' = IF Ignored(r) THEN shown ELSE loads[r].data
  /\ Becomes(r, Free)
  /\ past' = [past EXCEPT !.failed = IF Ignored(r) THEN @ ELSE FALSE]
  /\ UNCHANGED <<page, view, timer, action, revision>>

Fail(r) ==
  /\ UnderWay(r)
  /\ Becomes(r, Free)
  /\ past' = [past EXCEPT !.failed = TRUE]
  /\ UNCHANGED <<page, view, shown, timer, action, revision>>

-----------------------------------------------------------------------------
(* Actions: a retry, a link, an entry of a kit, ...                        *)

Act ==
  /\ page.reload # "none"
  /\ action = NoAction
  /\ past.changes < MaxChanges
  /\ past' = [past EXCEPT !.changes = @ + 1]
  /\ action' = [pc |-> "sent", filter |-> view.filter]
  /\ UNCHANGED <<page, view, shown, loads, timer, revision>>

\* The load function that follows is that of the click: with its filter.
Reload ==
  /\ Sends(loads, [view EXCEPT !.filter = action.filter], FALSE)
  /\ past' = [past EXCEPT !.failed = FALSE,
                !.crossed = @ \/ \E r \in Requests : UnderWay(r)]
  /\ UNCHANGED timer

Acted ==
  /\ action.pc = "sent"
  /\ action' = NoAction
  /\ revision' = [server |-> revision.server + 1, known |-> revision.server + 1]
  /\ IF page.reload = "load" THEN Reload
     ELSE Effect(Disowned, view) /\ past' = [past EXCEPT !.failed = FALSE]
  /\ UNCHANGED <<page, view, shown>>

\* After some failures a page loads all the same.
ActionFails ==
  /\ action.pc = "sent"
  /\ action' = NoAction
  /\ \/ page.reload = "load" /\ Reload
     \/ UNCHANGED <<loads, timer, past>>
  /\ UNCHANGED <<page, view, shown, revision>>

-----------------------------------------------------------------------------

Next ==
  \/ Fire \/ Act \/ Acted \/ ActionFails
  \/ \E f \in Filters : Filter(f)
  \/ \E c \in Companies : Switch(c)
  \/ \E r \in Requests : Read(r) \/ Answer(r) \/ Fail(r)

Spec == Init /\ [][Next]_vars

-----------------------------------------------------------------------------
(* Properties.                                                             *)

\* What is drawn of what the page has.
Drawn == IF page.hides /\ shown.view.company # view.company THEN Empty ELSE shown

TypeOK ==
  /\ view \in Views
  /\ shown = Empty \/ shown.view \in Views
  /\ \A r \in Requests :
       loads[r].pc \in {"free", "sent", "read", "disowned"}
  /\ timer \in BOOLEAN
  /\ action.pc \in {"none", "sent"}
  /\ revision.known <= revision.server

\* Nothing the page has asked for or is about to ask for is still to come.
Settled ==
  ~timer /\ action = NoAction /\ \A r \in Requests : ~UnderWay(r)

\* A page that hides foreign data or is mounted anew, and waits for the header,
\* never draws data of a company other than the chosen one.
ForeignDataHidden ==
  (page.hides \/ page.keyed) /\ page.later /\ Drawn # Empty
  => Drawn.view.company = view.company

\* A page that disowns its requests ends up with what its user has chosen, no
\* older than the user's last action, whatever the order of the answers: where
\* an action calls load, unless the view changed meanwhile, or the load ran
\* next to an earlier one.
EndsWithTheView ==
  /\ Settled /\ ~past.failed
  /\ page.owns /\ page.later /\ (page.reload = "load" => ~past.crossed)
  => \/ shown = Empty
     \/ shown.view = view /\ shown.revision >= revision.known

ScreenShowsItsView == ForeignDataHidden /\ EndsWithTheView

\* What the question before a switch says: the data open is discarded.  At
\* least nothing of the company before may stay once all has been answered.
OpenDataIsDiscarded ==
  Settled /\ ~past.failed /\ Drawn # Empty
  => Drawn.view.company = view.company

=============================================================================
