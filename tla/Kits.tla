-------------------------------- MODULE Kits --------------------------------
(***************************************************************************)
(* Products that are kits of other products, over any number of levels     *)
(* (api/src/product_bundles, product_bundle_components, products).         *)
(*                                                                         *)
(* Every write of a composition and every movement of stock holds the      *)
(* advisory lock of the company's kits from its first read to its commit,  *)
(* so each is one action.  The status of a product is written without that *)
(* lock, and an edit of a product saves the whole row it read before: the  *)
(* status may change in between.                                           *)
(*                                                                         *)
(* A kit has no stock of its own: what can be sold of it follows from its  *)
(* components, and is announced to the marketplaces by an outbox event     *)
(* each time a component moves or a composition changes.                   *)
(***************************************************************************)
EXTENDS Naturals, FiniteSetsExt, Functions

CONSTANTS Products,
          None,       \* no edit under way
          MaxUnits,   \* bound: units in stock, units of a component in a kit
          MaxWrites   \* bound: writes, but for new kits

VARIABLES status,     \* of each product
          edit,       \* the row an edit of a product has read
          kit,        \* does the product have a composition?
          comp,       \* units of a component in a kit; 0: not a component
          stock,      \* units that can be sold of a product
          moved,      \* products that have had movements of stock
          told,       \* availability in the newest event of a kit
          writes      \* how many writes there were (bound)

kitVars == <<edit, kit, comp, stock, moved, told>>
vars == <<status, kitVars, writes>>

Write == writes < MaxWrites /\ writes' = writes + 1

-----------------------------------------------------------------------------
(* Expansion, availability and who depends on whom.                        *)

Parts(k) == {c \in Products : kit[k] /\ comp[k][c] > 0}

\* With a kit, T has its components.
Closed(T) == \A k \in T : kit[k] => Parts(k) \subseteq T

\* The products of S and all that they are made of.
Below(S) ==
    LET closed == {T \in SUBSET Products : S \subseteq T /\ Closed(T)} IN
    {p \in Products : \A T \in closed : p \in T}

\* (mutant: only the components of the component are looked at)
Closes_Near(k, c) == k = c \/ k \in Parts(c)

\* Would c as a component make k a part of itself?
Closes(k, c) == k \in Below({c})

\* The kits that p is in, at any level.
Above(p) == {k \in Products : p \in Below(Parts(k))}

\* Units of the plain product p in one k.
Units(k, p) ==
    LET units[q \in Products] ==
          IF kit[q] THEN SumFunction([c \in Parts(q) |-> comp[q][c] * units[c]])
          ELSE IF q = p THEN 1 ELSE 0
    IN units[k]

\* A kit can be expanded if it and all its parts are active and no kit among
\* them is empty or a part of itself.
Expandable(k) ==
    \A p \in Below({k}) :
        /\ status[p] = "ACTIVE"
        /\ kit[p] => Parts(p) # {} /\ p \notin Below(Parts(p))

\* (mutant: the components' limits are added up)
Available_Sum(k) ==
    IF kit[k] /\ Expandable(k)
    THEN MapThenSumSet(LAMBDA p : stock[p] \div Units(k, p),
                       {q \in Below({k}) : ~kit[q]})
    ELSE 0

\* How many of kit k can be sold (0 for a product that is no kit).
Available(k) ==
    IF kit[k] /\ Expandable(k)
    THEN Min({stock[p] \div Units(k, p) :
                p \in {q \in Below({k}) : ~kit[q]}})
    ELSE 0

\* (mutant: only the kits that p is directly in are told)
Tell_Near(p) ==
    told' = [k \in Products |-> IF p \in Parts(k) THEN Available(k)' ELSE told[k]]

\* A new event for every kit above p, and for p if it is one itself.
Tell(p) ==
    told' = [k \in Products |-> IF kit[k] /\ (k = p \/ k \in Above(p)')
                                THEN Available(k)' ELSE told[k]]

-----------------------------------------------------------------------------
(* Compositions.                                                           *)

\* Only a product that never had stock becomes a kit; it begins empty.
CreateKit(p) ==
    /\ ~kit[p] /\ p \notin moved
    /\ kit' = [kit EXCEPT ![p] = TRUE]
    /\ UNCHANGED <<status, edit, comp, stock, moved, told, writes>>

AddComponent(k, c, n) ==
    /\ Write
    /\ kit[k] /\ comp[k][c] = 0
    /\ status[c] = "ACTIVE" /\ n > 0
    /\ ~Closes(k, c)
    /\ comp' = [comp EXCEPT ![k][c] = n]
    /\ UNCHANGED <<status, edit, kit, stock, moved>>
    /\ Tell(k)

\* A change of the units, or the removal of the component (n = 0).
ChangeComponent(k, c, n) ==
    /\ Write
    /\ kit[k] /\ comp[k][c] > 0
    /\ comp' = [comp EXCEPT ![k][c] = n]
    /\ UNCHANGED <<status, edit, kit, stock, moved>>
    /\ Tell(k)

-----------------------------------------------------------------------------
(* Stock and products, as far as kits depend on them.                      *)

\* A movement leaves n units; a kit has none of its own.
Move(p, n) ==
    /\ Write
    /\ ~kit[p] /\ n # stock[p]
    /\ stock' = [stock EXCEPT ![p] = n]
    /\ moved' = moved \cup {p}
    /\ UNCHANGED <<status, edit, kit, comp>>
    /\ Tell(p)

\* Neither waits for the lock of the kits nor tells those above.
SetStatus(p, s) ==
    /\ Write
    /\ status[p] # s
    /\ status' = [status EXCEPT ![p] = s]
    /\ UNCHANGED kitVars

ReadForEdit(p) ==
    /\ Write
    /\ edit = None
    /\ edit' = [product |-> p, status |-> status[p]]
    /\ UNCHANGED <<status, kit, comp, stock, moved, told>>

\* The row is saved as it was read, but for what the user changed.
SaveEdit ==
    /\ edit # None
    /\ status' = [status EXCEPT ![edit.product] = edit.status]
    /\ edit' = None
    /\ UNCHANGED <<kit, comp, stock, moved, told, writes>>

-----------------------------------------------------------------------------
Init ==
    /\ status = [p \in Products |-> "ACTIVE"]
    /\ edit = None
    /\ kit = [p \in Products |-> FALSE]
    /\ comp = [k \in Products |-> [c \in Products |-> 0]]
    /\ stock = [p \in Products |-> 0]
    /\ moved = {}
    /\ told = [p \in Products |-> 0]
    /\ writes = 0

Next ==
    \/ \E p \in Products :
          \/ CreateKit(p)
          \/ \E n \in 0 .. MaxUnits : Move(p, n)
          \/ \E s \in {"ACTIVE", "INACTIVE"} : SetStatus(p, s)
          \/ ReadForEdit(p)
    \/ \E k, c \in Products, n \in 0 .. MaxUnits :
          AddComponent(k, c, n) \/ ChangeComponent(k, c, n)
    \/ SaveEdit

Spec == Init /\ [][Next]_vars

-----------------------------------------------------------------------------
\* Every variable keeps its type.
TypeOK ==
    /\ status \in [Products -> {"ACTIVE", "INACTIVE"}]
    /\ edit = None \/ edit \in [product : Products, status : {"ACTIVE", "INACTIVE"}]
    /\ kit \in [Products -> BOOLEAN]
    /\ comp \in [Products -> [Products -> 0 .. MaxUnits]]
    /\ {stock, told} \subseteq [Products -> 0 .. MaxUnits]
    /\ moved \subseteq Products
    /\ writes \in 0 .. MaxWrites

\* No kit is a part of itself through any chain of kits, whichever order the
\* components were added in (detectCycle), and no kit has stock of its own
\* or ever had (ProductBundlesService.create, InventoryService).
CompositionSound ==
    \A k \in Products :
        kit[k] => /\ k \notin Below(Parts(k))
                  /\ stock[k] = 0 /\ k \notin moved

\* A step that changes what can be sold of a kit sends its new availability,
\* through every level (queueChanges, dependentProducts).  A change of the
\* status of a product is excepted: the code writes it without telling anybody.
Announces ==
    <<kit, comp, stock>>' # <<kit, comp, stock>> =>
        \A k \in Products :
            Available(k)' # Available(k) => told'[k] = Available(k)'

ChangesAnnounced == [][Announces]_vars
=============================================================================
