------------------------------ MODULE Catalogue -----------------------------
(***************************************************************************)
(* Products, the kits made of them and their links to listings, composed:  *)
(* Kits changes the status of the products that Links reads.               *)
(***************************************************************************)
EXTENDS Naturals, FiniteSets

CONSTANTS Products, Listings, Keys, Calls, Suggested, None, MaxUnits, MaxWrites

ConstantsFit ==
    /\ IsFiniteSet(Products)
    /\ MaxUnits \in Nat /\ MaxWrites \in Nat
    /\ None \notin Products \cup Listings \cup Keys
    /\ Suggested \in [Listings -> Products \cup {None}]

VARIABLES status, writes,
          edit, kit, comp, stock, moved, told,
          offered, connected, link, audit, call

K == INSTANCE Kits
L == INSTANCE Links

kitVars == <<edit, kit, comp, stock, moved, told>>
linkVars == <<offered, connected, link, audit, call>>
vars == <<status, kitVars, linkVars, writes>>

Init == K!Init /\ L!Init

Next ==
    \/ K!Next /\ UNCHANGED linkVars
    \/ L!Next /\ UNCHANGED kitVars

Spec == Init /\ [][Next]_vars

\* Every variable of kits and of links keeps its type.
TypeOK == K!TypeOK /\ L!TypeOK

\* No kit is a part of itself, and none has stock of its own.
CompositionSound == K!CompositionSound

\* What changes the availability of a kit sends an event about it, through all
\* levels, unless it is the status of a product.
ChangesAnnounced == K!ChangesAnnounced

\* A listing never has two active links, an idempotency key has one effect at
\* most and its answers are about what was asked, and the audit rows account
\* for the state of every link.
LinksSound == L!OneActiveLink /\ L!OneEffectPerKey /\ L!AuditExplainsLinks
=============================================================================
