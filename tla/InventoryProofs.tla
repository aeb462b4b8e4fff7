-------------------------- MODULE InventoryProofs --------------------------
(***************************************************************************)
(* What holds of Inventory for every set of products, kits, references and *)
(* keys, every quantity and every length of the ledger.                    *)
(***************************************************************************)
EXTENDS Inventory, FiniteSetTheorems, TLAPS

-----------------------------------------------------------------------------
(* Counting held units.  The units a family w of lines holds are pairs of  *)
(* a line and a number below its quantity.                                 *)

Units(w, L) == UNION {{l} \X (1..w[l]) : l \in L}

\* A finite family of lines holds finitely many units.
LEMMA UnitsFinite ==
  ASSUME NEW L, IsFiniteSet(L), NEW w \in [L -> Nat]
  PROVE  IsFiniteSet(Units(w, L))
<1> DEFINE U == {{l} \X (1..w[l]) : l \in L}
           f == [l \in L |-> {l} \X (1..w[l])]
<1>1. f \in Surjection(L, U)
  BY DEF Surjection
<1>2. IsFiniteSet(U)
  BY <1>1, FS_Surjection
<1>3. ASSUME NEW l \in L PROVE IsFiniteSet({l} \X (1..w[l]))
  <2>1. w[l] \in Nat
    OBVIOUS
  <2>2. IsFiniteSet({l})
    BY FS_Singleton
  <2>3. IsFiniteSet(1..w[l])
    BY <2>1, FS_Interval
  <2>4. QED
    BY <2>2, <2>3, FS_Product
<1>4. \A T \in U : IsFiniteSet(T)
  BY <1>3
<1>5. QED
  BY <1>2, <1>4, FS_UNION DEF Units

\* The units of a family are those of one line and those of the others.
LEMMA UnitsSplit ==
  ASSUME NEW L, IsFiniteSet(L), NEW w \in [L -> Nat], NEW x \in L
  PROVE  /\ Cardinality(Units(w, L \ {x})) \in Nat
         /\ Cardinality(Units(w, L)) = Cardinality(Units(w, L \ {x})) + w[x]
<1> DEFINE R == Units(w, L \ {x})
           X == {x} \X (1..w[x])
<1>1. w[x] \in Nat
  OBVIOUS
<1>2. IsFiniteSet({x}) /\ Cardinality({x}) = 1
  BY FS_Singleton
<1>3. IsFiniteSet(1..w[x]) /\ Cardinality(1..w[x]) = w[x]
  BY <1>1, FS_Interval
<1>4. IsFiniteSet(X) /\ Cardinality(X) = w[x]
  <2>1. IsFiniteSet(X) /\ Cardinality(X) = Cardinality({x}) * Cardinality(1..w[x])
    BY <1>2, <1>3, FS_Product
  <2>2. QED
    BY <1>1, <1>2, <1>3, <2>1
<1>5. IsFiniteSet(R)
  <2>1. IsFiniteSet(L \ {x})
    BY FS_RemoveElement
  <2> DEFINE v == [l \in L \ {x} |-> w[l]]
  <2>2. v \in [L \ {x} -> Nat]
    OBVIOUS
  <2>3. IsFiniteSet(Units(v, L \ {x}))
    BY <2>1, <2>2, UnitsFinite
  <2>4. Units(v, L \ {x}) = R
    BY DEF Units
  <2>5. QED
    BY <2>3, <2>4
<1>6. Units(w, L) = R \cup X
  BY DEF Units
<1>7. R \cap X = {}
  BY DEF Units
<1>8. Cardinality(R) \in Nat
  BY <1>5, FS_CardinalityType
<1>9. Cardinality(R \cup X) = Cardinality(R) + Cardinality(X) - Cardinality(R \cap X)
  BY <1>4, <1>5, FS_Union
<1>10. Cardinality(R \cap X) = 0
  BY <1>7, FS_EmptySet
<1>11. QED
  BY <1>1, <1>4, <1>6, <1>8, <1>9, <1>10

\* The number of held units of a product is a natural, at least what any of its
\* lines holds.
LEMMA HeldIsNat ==
  ASSUME NEW s \in State, NEW p \in Products, NEW x \in LinesOf(p)
  PROVE  /\ HeldQty(s, x) \in Nat
         /\ Cardinality(HeldUnits(s, p)) \in Nat
         /\ HeldQty(s, x) <= Cardinality(HeldUnits(s, p))
<1> DEFINE L == LinesOf(p)
           w == [l \in L |-> HeldQty(s, l)]
<1>1. L \subseteq Lines
  BY DEF LinesOf, Lines
<1>2. w \in [L -> Nat]
  BY <1>1 DEF HeldQty, State
<1>3. IsFiniteSet(L)
  BY RefsAssumption, FS_Singleton, FS_Product DEF LinesOf
<1>4. HeldUnits(s, p) = Units(w, L)
  BY DEF HeldUnits, Units
<1>5. Cardinality(Units(w, L \ {x})) \in Nat
  BY <1>2, <1>3, UnitsSplit
<1>6. Cardinality(Units(w, L)) = Cardinality(Units(w, L \ {x})) + w[x]
  BY <1>2, <1>3, UnitsSplit
<1>7. w[x] = HeldQty(s, x) /\ w[x] \in Nat
  BY <1>2
<1>8. QED
  BY <1>4, <1>5, <1>6, <1>7

\* When one line changes what it holds, the held units change by as much.
LEMMA HeldChange ==
  ASSUME NEW s \in State, NEW t \in State, NEW p \in Products,
         NEW x \in LinesOf(p),
         \A o \in LinesOf(p) \ {x} : HeldQty(t, o) = HeldQty(s, o)
  PROVE  Cardinality(HeldUnits(t, p)) =
           Cardinality(HeldUnits(s, p)) - HeldQty(s, x) + HeldQty(t, x)
<1> DEFINE L == LinesOf(p)
           v == [l \in L |-> HeldQty(s, l)]
           w == [l \in L |-> HeldQty(t, l)]
<1>1. L \subseteq Lines
  BY DEF LinesOf, Lines
<1>2. v \in [L -> Nat] /\ w \in [L -> Nat]
  BY <1>1 DEF HeldQty, State
<1>3. IsFiniteSet(L)
  BY RefsAssumption, FS_Singleton, FS_Product DEF LinesOf
<1>4. HeldUnits(s, p) = Units(v, L) /\ HeldUnits(t, p) = Units(w, L)
  BY DEF HeldUnits, Units
<1>5. Units(v, L \ {x}) = Units(w, L \ {x})
  BY DEF Units
<1>6. /\ Cardinality(Units(v, L \ {x})) \in Nat
      /\ Cardinality(Units(v, L)) = Cardinality(Units(v, L \ {x})) + v[x]
  BY <1>2, <1>3, UnitsSplit
<1>7. Cardinality(Units(w, L)) = Cardinality(Units(w, L \ {x})) + w[x]
  BY <1>2, <1>3, UnitsSplit
<1>8. /\ v[x] = HeldQty(s, x) /\ v[x] \in Nat
      /\ w[x] = HeldQty(t, x) /\ w[x] \in Nat
  BY <1>2
<1>9. QED
  BY <1>4, <1>5, <1>6, <1>7, <1>8

\* Units are counted from the quantities held, nothing else.
LEMMA HeldSame ==
  ASSUME NEW s, NEW t, NEW p,
         \A o \in LinesOf(p) : HeldQty(t, o) = HeldQty(s, o)
  PROVE  HeldUnits(t, p) = HeldUnits(s, p)
BY DEF HeldUnits

-----------------------------------------------------------------------------
(* What persist writes. *)

\* A non-empty set of naturals has a minimum.
LEMMA MinIsNat ==
  ASSUME NEW T \in SUBSET Nat, T # {}
  PROVE  Min(T) \in Nat
<1>1. \E x \in T : \A y \in T : ~ (<<y, x>> \in OpToRel(<, Nat))
  BY NatLessThanWellFounded, WFMin
<1>2. PICK x \in T : \A y \in T : ~ (<<y, x>> \in OpToRel(<, Nat))
  BY <1>1
<1>3. ASSUME NEW y \in T PROVE x =< y
  <2>1. x \in Nat /\ y \in Nat
    OBVIOUS
  <2>2. <<y, x>> \in Nat \X Nat /\ <<y, x>>[1] = y /\ <<y, x>>[2] = x
    BY <2>1
  <2>3. ~ (y < x)
    BY <1>2, <2>2, Zenon DEF OpToRel
  <2>4. QED
    BY <2>1, <2>3
<1>4. QED
  BY <1>3 DEF Min

\* The number of kits that can be assembled is a natural.
LEMMA MaxKitsIsNat ==
  ASSUME NEW s, s.current \in [Products -> Nat], s.reserved \in [Products -> Nat],
         NEW k \in Kits
  PROVE  MaxKits(s, k) \in Nat
<1> DEFINE Q    == {q \in Products : Composition[k][q] > 0}
           A(p) == IF Available(s, p) > 0 THEN Available(s, p) ELSE 0
           T    == {A(p) \div Composition[k][p] : p \in Q}
<1>1. Q # {}
  BY KitsAssumption
<1>2. ASSUME NEW p \in Q PROVE A(p) \div Composition[k][p] \in Nat
  <2>1. s.current[p] \in Nat /\ s.reserved[p] \in Nat
    OBVIOUS
  <2>2. A(p) \in Nat
    BY <2>1 DEF Available
  <2>3. Composition[k][p] \in Nat /\ Composition[k][p] > 0
    BY KitsAssumption
  <2> HIDE DEF A
  <2>4. QED
    BY <2>2, <2>3
<1>3. T \in SUBSET Nat /\ T # {}
  BY <1>1, <1>2
<1>4. MaxKits(s, k) = Min(T)
  BY DEF MaxKits
<1>5. QED
  BY <1>3, <1>4, MinIsNat

\* t is s after a movement on the balance of p.
Moved(s, t, p, type, c, r, ref) ==
  /\ t \in State
  /\ t.resv = s.resv
  /\ t.current = [s.current EXCEPT ![p] = c]
  /\ t.reserved = [s.reserved EXCEPT ![p] = r]
  /\ \E m \in Movement : /\ t.moves = Append(s.moves, m)
                         /\ m.type = type /\ m.product = p /\ m.ref = ref

\* persist keeps every row well typed, writes the two quantities it is given and
\* leaves the reservations to its caller.
LEMMA PersistRows ==
  ASSUME NEW s \in State, NEW p \in Products, NEW type \in MoveTypes,
         NEW qty \in Nat, NEW c \in Nat, NEW r \in Nat,
         NEW ref \in Refs \cup {NoRef}, NEW key \in Keys \cup {NoKey},
         NEW rev \in Nat
  PROVE  Moved(s, Persist(s, p, type, qty, c, r, ref, key, rev), p, type, c, r, ref)
<1> DEFINE t == Persist(s, p, type, qty, c, r, ref, key, rev)
           m == [type |-> type, product |-> p, ref |-> ref, qty |-> qty,
                 key |-> key, reversalOf |-> rev,
                 before |-> [current  |-> s.current[p],
                             reserved |-> s.reserved[p]],
                 after  |-> [current |-> c, reserved |-> r]]
           kits == Dependents(p)
           version == [x \in Stocked |-> IF x = p \/ x \in kits
                                         THEN s.version[x] + 1
                                         ELSE s.version[x]]
           announced == IF c - r # Available(s, p) THEN kits \cup {p} ELSE kits
           u == [s EXCEPT !.current[p] = c, !.reserved[p] = r,
                          !.version = version, !.moves = Append(s.moves, m)]
           es == {[product |-> x, version |-> u.version[x],
                   available |-> IF x = p THEN c - r ELSE MaxKits(u, x)]
                    : x \in announced}
<1>1. t = [u EXCEPT !.events = s.events \cup es]
  BY DEF Persist
<1>2. s.current \in [Products -> Nat] /\ s.reserved \in [Products -> Nat]
  BY DEF State
<1>3. m \in Movement
  BY <1>2 DEF Movement, Balance
<1>4. s.moves \in Seq(Movement)
  BY DEF State
<1>5. Append(s.moves, m) \in Seq(Movement)
  BY <1>3, <1>4
<1>6. version \in [Stocked -> Nat]
  BY DEF State
<1>7. /\ u.current = [s.current EXCEPT ![p] = c]
      /\ u.reserved = [s.reserved EXCEPT ![p] = r]
      /\ u.version = version
      /\ u.moves = Append(s.moves, m)
      /\ u.resv = s.resv
      /\ u.events = s.events
  BY DEF State
<1>8. u \in State
  <2>1. u.current \in [Products -> Nat] /\ u.reserved \in [Products -> Nat]
    BY <1>2, <1>7
  <2> HIDE DEF m, version
  <2>2. QED
    BY <1>5, <1>6, <1>7, <2>1 DEF State
<1>9. es \subseteq Event
  <2> SUFFICES ASSUME NEW x \in announced
               PROVE  [product |-> x, version |-> u.version[x],
                       available |-> IF x = p THEN c - r ELSE MaxKits(u, x)] \in Event
    OBVIOUS
  <2>1. x \in Stocked /\ (x # p => x \in Kits)
    BY DEF Stocked, Dependents
  <2>2. u.version[x] \in Nat
    BY <1>6, <1>7, <2>1
  <2>3. x # p => MaxKits(u, x) \in Nat
    BY <1>8, <2>1, MaxKitsIsNat DEF State
  <2> HIDE DEF u
  <2>4. QED
    BY <2>1, <2>2, <2>3 DEF Event
<1> HIDE DEF u, es
<1>10. /\ t.current = u.current /\ t.reserved = u.reserved
       /\ t.version = u.version /\ t.moves = u.moves
       /\ t.resv = u.resv /\ t.events = s.events \cup es
       /\ t \in State
  <2>1. s.events \in SUBSET Event
    BY DEF State
  <2>2. QED
    BY <1>1, <1>8, <1>9, <2>1 DEF State
<1>11. m.type = type /\ m.product = p /\ m.ref = ref
  OBVIOUS
<1> HIDE DEF m, t
<1>12. QED
  BY <1>3, <1>7, <1>10, <1>11 DEF t, Moved

-----------------------------------------------------------------------------
(* What a write keeps.  The rows are right when they are typed, the balances *)
(* match the active reservations and every completed line has its sale.      *)

SaleRecorded(s) ==
  \A l \in Lines : s.resv[l].status = "COMPLETED" => SalesOf(s, l) # {}

RightRows == {s \in State : StockIsThere(s) /\ SaleRecorded(s)}

\* A settled line is never opened again between s and t.
Follows ==
  {st \in State \X State :
     \A l \in Lines :
       /\ st[1].resv[l].status = "COMPLETED" =>
            st[2].resv[l].status \in {"COMPLETED", "CANCELED"}
       /\ st[1].resv[l].status = "CANCELED" => st[2].resv[l].status = "CANCELED"}

\* A write from s leaves right rows t behind it.
Keeps(s, t) == t \in RightRows /\ <<s, t>> \in Follows

\* No stock and no reservation is a right state.
LEMMA EmptyOK == Empty \in RightRows
<1>1. Empty \in State
  <2>1. <<>> \in Seq(Movement)
    OBVIOUS
  <2>2. QED
    BY <2>1 DEF Empty, State, Statuses
<1>2. \A p \in Products : HeldUnits(Empty, p) = {}
  <2>1. ASSUME NEW p \in Products, NEW l \in LinesOf(p)
        PROVE  HeldQty(Empty, l) = 0
    BY DEF LinesOf, Lines, HeldQty, Empty
  <2>2. 1..0 = {}
    OBVIOUS
  <2>3. QED
    BY <2>1, <2>2 DEF HeldUnits
<1>3. StockIsThere(Empty)
  <2>1. Cardinality({}) = 0
    BY FS_EmptySet
  <2>2. \A p \in Products : Empty.reserved[p] = 0 /\ Empty.current[p] = 0
    BY DEF Empty
  <2>3. QED
    BY <1>2, <2>1, <2>2 DEF StockIsThere
<1>4. SaleRecorded(Empty)
  BY DEF SaleRecorded, Empty
<1>5. QED
  BY <1>1, <1>3, <1>4 DEF RightRows

\* Appending a movement loses no sale and may add one.
LEMMA SalesGrow ==
  ASSUME NEW s \in State, NEW t \in State, NEW m \in Movement,
         t.moves = Append(s.moves, m), NEW l \in Lines
  PROVE  /\ SalesOf(s, l) \subseteq SalesOf(t, l)
         /\ m.type = "SALE_COMPLETED" /\ m.product = l[1] /\ m.ref = l[2]
              => SalesOf(t, l) # {}
<1>1. s.moves \in Seq(Movement)
  BY DEF State
<1>2. DOMAIN s.moves = 1..Len(s.moves) /\ Len(s.moves) \in Nat
  BY <1>1
<1>3. DOMAIN t.moves = 1..(Len(s.moves) + 1)
  BY <1>1
<1>4. \A i \in 1..Len(s.moves) : t.moves[i] = s.moves[i]
  BY <1>1
<1>5. t.moves[Len(s.moves) + 1] = m
  BY <1>1
<1>6. SalesOf(s, l) \subseteq SalesOf(t, l)
  BY <1>2, <1>3, <1>4 DEF SalesOf
<1>7. ASSUME m.type = "SALE_COMPLETED", m.product = l[1], m.ref = l[2]
      PROVE  Len(s.moves) + 1 \in SalesOf(t, l)
  BY <1>2, <1>3, <1>5, <1>7 DEF SalesOf
<1>8. QED
  BY <1>6, <1>7

\* A movement that leaves the reserved quantity alone, as entries, exits,
\* adjustments and reversals do.
LEMMA MoveKeepsRows ==
  ASSUME NEW s \in RightRows, NEW p \in Products, NEW type \in MoveTypes,
         NEW qty \in Nat, NEW c \in Int, Legal(c, s.reserved[p]),
         NEW ref \in Refs \cup {NoRef}, NEW key \in Keys \cup {NoKey},
         NEW rev \in Nat
  PROVE  Keeps(s, Persist(s, p, type, qty, c, s.reserved[p], ref, key, rev))
<1> DEFINE t == Persist(s, p, type, qty, c, s.reserved[p], ref, key, rev)
<1>1. s \in State /\ StockIsThere(s) /\ SaleRecorded(s)
  BY DEF RightRows
<1>2. c \in Nat /\ s.reserved[p] \in Nat /\ s.reserved[p] <= c
  BY <1>1 DEF Legal, State
<1>0. Moved(s, t, p, type, c, s.reserved[p], ref)
  BY <1>1, <1>2, PersistRows
<1> HIDE DEF t
<1>3. /\ t \in State
      /\ t.resv = s.resv
      /\ t.current = [s.current EXCEPT ![p] = c]
      /\ t.reserved = [s.reserved EXCEPT ![p] = s.reserved[p]]
      /\ \E m \in Movement : t.moves = Append(s.moves, m)
  BY <1>0 DEF Moved
<1>4. StockIsThere(t)
  <2> SUFFICES ASSUME NEW x \in Products
               PROVE  /\ t.reserved[x] = Cardinality(HeldUnits(t, x))
                      /\ t.reserved[x] <= t.current[x]
    BY DEF StockIsThere
  <2>1. HeldUnits(t, x) = HeldUnits(s, x)
    BY <1>3 DEF HeldUnits, HeldQty
  <2>2. t.reserved[x] = s.reserved[x]
    BY <1>1, <1>3 DEF State
  <2>3. t.current[x] = (IF x = p THEN c ELSE s.current[x])
    BY <1>1, <1>3 DEF State
  <2>4. QED
    BY <1>1, <1>2, <2>1, <2>2, <2>3 DEF StockIsThere
<1>5. SaleRecorded(t)
  BY <1>1, <1>3, SalesGrow DEF SaleRecorded
<1>6. <<s, t>> \in Follows
  BY <1>1, <1>3 DEF Follows, State
<1>7. QED
  BY <1>3, <1>4, <1>5, <1>6 DEF RightRows, Keeps, t

\* A movement on the stock of a line that changes the reserved quantity by what
\* the line's reservation changes.
LEMMA LineKeepsRows ==
  ASSUME NEW s \in RightRows, NEW l \in Lines, NEW type \in MoveTypes,
         NEW qty \in Nat, NEW c \in Int, NEW r \in Int, Legal(c, r),
         NEW key \in Keys \cup {NoKey}, NEW rev \in Nat,
         NEW status \in Statuses, NEW q \in Nat,
         r = s.reserved[l[1]] - HeldQty(s, l)
               + (IF status = "ACTIVE" THEN q ELSE 0),
         s.resv[l].status = "COMPLETED" => status \in {"COMPLETED", "CANCELED"},
         s.resv[l].status = "CANCELED" => status = "CANCELED",
         status = "COMPLETED" => type = "SALE_COMPLETED"
  PROVE  Keeps(s, SetResv(Persist(s, l[1], type, qty, c, r, l[2], key, rev),
                          l, status, q))
<1> DEFINE p == l[1]
           u == Persist(s, p, type, qty, c, r, l[2], key, rev)
           t == SetResv(u, l, status, q)
<1>1. s \in State /\ StockIsThere(s) /\ SaleRecorded(s)
  BY DEF RightRows
<1>2. p \in Products /\ l[2] \in Refs /\ l = <<l[1], l[2]>>
  BY DEF Lines
<1>3. c \in Nat /\ r \in Nat /\ r <= c
  BY DEF Legal
<1>0. Moved(s, u, p, type, c, r, l[2])
  BY <1>1, <1>2, <1>3, PersistRows
<1> HIDE DEF u
<1>4. /\ u \in State
      /\ u.resv = s.resv
      /\ u.current = [s.current EXCEPT ![p] = c]
      /\ u.reserved = [s.reserved EXCEPT ![p] = r]
      /\ \E m \in Movement : /\ u.moves = Append(s.moves, m)
                             /\ m.type = type /\ m.product = p /\ m.ref = l[2]
  BY <1>0 DEF Moved
<1>5. /\ t \in State
      /\ t.resv = [s.resv EXCEPT ![l] = [status |-> status, qty |-> q]]
      /\ t.current = u.current /\ t.reserved = u.reserved /\ t.moves = u.moves
  BY <1>4 DEF SetResv, State
<1> HIDE DEF t
<1>6. s.resv \in [Lines -> [status : Statuses, qty : Nat]]
  BY <1>1 DEF State
<1>7. t.resv[l] = [status |-> status, qty |-> q]
  BY <1>5, <1>6
<1>8. \A o \in Lines \ {l} : t.resv[o] = s.resv[o]
  BY <1>5, <1>6
<1>9. StockIsThere(t)
  <2> SUFFICES ASSUME NEW x \in Products
               PROVE  /\ t.reserved[x] = Cardinality(HeldUnits(t, x))
                      /\ t.reserved[x] <= t.current[x]
    BY DEF StockIsThere
  <2>1. /\ t.reserved[x] = (IF x = p THEN r ELSE s.reserved[x])
        /\ t.current[x] = (IF x = p THEN c ELSE s.current[x])
    BY <1>1, <1>4, <1>5 DEF State
  <2>2. LinesOf(x) \subseteq Lines
    BY DEF LinesOf, Lines
  <2>3. CASE x = p
    <3>1. l \in LinesOf(p)
      BY <1>2 DEF LinesOf
    <3>2. \A o \in LinesOf(p) \ {l} : HeldQty(t, o) = HeldQty(s, o)
      BY <1>8, <2>2, <2>3 DEF HeldQty
    <3>3. Cardinality(HeldUnits(t, p)) =
            Cardinality(HeldUnits(s, p)) - HeldQty(s, l) + HeldQty(t, l)
      BY <1>1, <1>2, <1>5, <3>1, <3>2, HeldChange
    <3>4. HeldQty(t, l) = (IF status = "ACTIVE" THEN q ELSE 0)
      BY <1>7 DEF HeldQty
    <3>5. s.reserved[p] = Cardinality(HeldUnits(s, p))
      BY <1>1, <1>2 DEF StockIsThere
    <3>6. QED
      BY <1>3, <2>1, <2>3, <3>3, <3>4, <3>5
  <2>4. CASE x # p
    <3>1. \A o \in LinesOf(x) : HeldQty(t, o) = HeldQty(s, o)
      <4> SUFFICES ASSUME NEW o \in LinesOf(x)
                   PROVE  HeldQty(t, o) = HeldQty(s, o)
        OBVIOUS
      <4>1. o \in Lines /\ o # l
        BY <2>2, <2>4 DEF LinesOf
      <4>2. QED
        BY <1>8, <4>1 DEF HeldQty
    <3>2. HeldUnits(t, x) = HeldUnits(s, x)
      BY <3>1, HeldSame
    <3>3. QED
      BY <1>1, <2>1, <2>4, <3>2 DEF StockIsThere
  <2>5. QED
    BY <2>3, <2>4
<1>10. SaleRecorded(t)
  <2> SUFFICES ASSUME NEW o \in Lines, t.resv[o].status = "COMPLETED"
               PROVE  SalesOf(t, o) # {}
    BY DEF SaleRecorded
  <2>1. PICK m \in Movement : /\ t.moves = Append(s.moves, m)
                              /\ m.type = type /\ m.product = p /\ m.ref = l[2]
    BY <1>4, <1>5
  <2>2. CASE o = l
    <3>1. status = "COMPLETED"
      BY <1>7, <2>2
    <3>2. QED
      BY <1>1, <1>5, <2>1, <2>2, <3>1, SalesGrow
  <2>3. CASE o # l
    <3>1. SalesOf(s, o) # {}
      BY <1>1, <1>8, <2>3 DEF SaleRecorded
    <3>2. QED
      BY <1>1, <1>5, <2>1, <3>1, SalesGrow
  <2>4. QED
    BY <2>2, <2>3
<1>11. <<s, t>> \in Follows
  <2>1. \A o \in Lines :
          /\ s.resv[o].status = "COMPLETED" => t.resv[o].status \in {"COMPLETED", "CANCELED"}
          /\ s.resv[o].status = "CANCELED" => t.resv[o].status = "CANCELED"
    BY <1>7, <1>8
  <2>2. QED
    BY <1>1, <1>5, <2>1 DEF Follows
<1>12. QED
  BY <1>5, <1>9, <1>10, <1>11 DEF RightRows, Keeps, t, u

\* Writing a reservation that holds as much as before.
LEMMA ResvKeepsRows ==
  ASSUME NEW s \in RightRows, NEW l \in Lines, NEW status \in Statuses \ {"COMPLETED"},
         NEW q \in Nat,
         HeldQty(s, l) = (IF status = "ACTIVE" THEN q ELSE 0),
         s.resv[l].status = "COMPLETED" => status = "CANCELED",
         s.resv[l].status = "CANCELED" => status = "CANCELED"
  PROVE  Keeps(s, SetResv(s, l, status, q))
<1> DEFINE t == SetResv(s, l, status, q)
<1>1. s \in State /\ StockIsThere(s) /\ SaleRecorded(s)
  BY DEF RightRows
<1>2. /\ t \in State
      /\ t.resv = [s.resv EXCEPT ![l] = [status |-> status, qty |-> q]]
      /\ t.current = s.current /\ t.reserved = s.reserved /\ t.moves = s.moves
  BY <1>1 DEF SetResv, State
<1> HIDE DEF t
<1>3. s.resv \in [Lines -> [status : Statuses, qty : Nat]]
  BY <1>1 DEF State
<1>4. t.resv[l] = [status |-> status, qty |-> q]
  BY <1>2, <1>3
<1>5. \A o \in Lines \ {l} : t.resv[o] = s.resv[o]
  BY <1>2, <1>3
<1>6. StockIsThere(t)
  <2> SUFFICES ASSUME NEW x \in Products
               PROVE  HeldUnits(t, x) = HeldUnits(s, x)
    BY <1>1, <1>2 DEF StockIsThere
  <2>1. LinesOf(x) \subseteq Lines
    BY DEF LinesOf, Lines
  <2>2. HeldQty(t, l) = HeldQty(s, l)
    BY <1>4 DEF HeldQty
  <2>3. \A o \in LinesOf(x) : HeldQty(t, o) = HeldQty(s, o)
    BY <1>5, <2>1, <2>2 DEF HeldQty
  <2>4. QED
    BY <2>3, HeldSame
<1>7. SaleRecorded(t)
  BY <1>1, <1>2, <1>4, <1>5 DEF SaleRecorded, SalesOf
<1>8. <<s, t>> \in Follows
  <2>1. \A o \in Lines :
          /\ s.resv[o].status = "COMPLETED" => t.resv[o].status \in {"COMPLETED", "CANCELED"}
          /\ s.resv[o].status = "CANCELED" => t.resv[o].status = "CANCELED"
    BY <1>4, <1>5
  <2>2. QED
    BY <1>1, <1>2, <2>1 DEF Follows
<1>9. QED
  BY <1>2, <1>6, <1>7, <1>8 DEF RightRows, Keeps, t

-----------------------------------------------------------------------------
(* The inductive invariant: both copies of the rows are right, and an open   *)
(* transaction has not reopened any line.                                    *)

IInv ==
  /\ TypeOK
  /\ db \in RightRows
  /\ work \in RightRows
  /\ op # "idle" => <<db, work>> \in Follows

\* The invariant holds afterwards and no line was reopened in the step.
Advances == IInv' /\ <<db, db'>> \in Follows

\* A step that leaves the committed rows alone reopens nothing.
LEMMA FollowsItself ==
  ASSUME NEW s \in State
  PROVE  <<s, s>> \in Follows
BY DEF Follows

\* A single write on the committed rows.
LEMMA CommittedWrite ==
  ASSUME IInv, Keeps(db, db'), UNCHANGED <<op, todo, want, work>>, op = "idle"
  PROVE  Advances
BY DEF IInv, TypeOK, Keeps, RightRows, Advances

\* One line of an open transaction.
LEMMA LineDone ==
  ASSUME IInv, NEW l \in Lines, NEW t, Keeps(work, t), Done(l, t), op # "idle"
  PROVE  Advances
<1>1. /\ work' = t /\ db' = db /\ op' = op /\ want' = want
      /\ todo' = todo \ {l}
  BY DEF Done
<1>2. (db \in RightRows)' /\ (work \in RightRows)'
  BY <1>1 DEF IInv, Keeps
<1>3. TypeOK'
  BY <1>1, <1>2 DEF IInv, TypeOK, RightRows
<1>4. <<db, t>> \in Follows
  BY DEF IInv, Keeps, Follows, State
<1>5. (op # "idle" => <<db, work>> \in Follows)'
  BY <1>1, <1>4
<1>6. <<db, db'>> \in Follows
  BY <1>1, FollowsItself DEF IInv, RightRows
<1>7. QED
  BY <1>2, <1>3, <1>5, <1>6 DEF IInv, Advances

\* Opening a transaction.
LEMMA BeginOK ==
  ASSUME IInv, NEW kind \in {"reserve", "complete", "cancel", "release"},
         NEW lines \in SUBSET Lines, kind # "release" => lines \subseteq OrderLines,
         NEW w \in [OrderLines -> Nat], Begin(kind, lines, w)
  PROVE  Advances
<1>1. /\ work' = db /\ db' = db /\ op' = kind /\ todo' = lines /\ want' = w
  BY DEF Begin
<1>2. (db \in RightRows)' /\ (work \in RightRows)'
  BY <1>1 DEF IInv
<1>3. TypeOK'
  BY <1>1, <1>2 DEF IInv, TypeOK, RightRows
<1>4. <<db, db>> \in Follows
  BY FollowsItself DEF IInv, RightRows
<1>5. (op # "idle" => <<db, work>> \in Follows)'
  BY <1>1, <1>4
<1>6. QED
  BY <1>1, <1>2, <1>3, <1>4, <1>5 DEF IInv, Advances

\* Ending a transaction with rows s.
LEMMA CloseOK ==
  ASSUME IInv, NEW s \in RightRows, <<db, s>> \in Follows, Close(s)
  PROVE  Advances
<1>1. /\ db' = s /\ op' = "idle" /\ todo' = {} /\ want' = NoWant /\ work' = Empty
  BY DEF Close
<1>2. (db \in RightRows)'
  BY <1>1
<1>3. (work \in RightRows)'
  BY <1>1, EmptyOK
<1>4. NoWant \in [OrderLines -> Nat]
  BY DEF NoWant
<1>5. TypeOK'
  BY <1>1, <1>2, <1>3, <1>4 DEF TypeOK, RightRows
<1>6. QED
  BY <1>1, <1>2, <1>3, <1>5 DEF IInv, Advances

-----------------------------------------------------------------------------
(* One lemma per group of operations.                                        *)

\* Entries, exits, adjustments and reversals.
LEMMA MovesAdvance ==
  ASSUME IInv, NEW k \in Keys,
         \/ \E p \in Products, q \in 1..MaxQty : Entry(k, p, q) \/ Exit(k, p, q)
         \/ \E p \in Products, q \in 0..MaxQty : Adjust(k, p, q)
         \/ \E i \in DOMAIN db.moves : ReverseSale(k, i)
  PROVE  Advances
<1>1. db \in RightRows /\ db \in State
  BY DEF IInv, RightRows
<1>2. /\ db.current \in [Products -> Nat]
      /\ db.reserved \in [Products -> Nat]
      /\ db.moves \in Seq(Movement)
  BY <1>1 DEF State
<1>3. NoRef \in Refs \cup {NoRef} /\ k \in Keys \cup {NoKey} /\ 0 \in Nat
  OBVIOUS
<1>4. {"ENTRY", "EXIT", "ADJUSTMENT_INCREASE", "ADJUSTMENT_DECREASE",
       "SALE_CANCELED_REVERSAL"} \subseteq MoveTypes
  BY DEF MoveTypes
<1>5. ASSUME NEW p \in Products, NEW q \in 1..MaxQty, Entry(k, p, q)
      PROVE  Advances
  <2>1. q \in Nat /\ db.current[p] + q \in Int
    BY <1>2, BoundsAssumption
  <2>2. Keeps(db, db')
    BY <1>1, <1>3, <1>4, <1>5, <2>1, MoveKeepsRows DEF Entry
  <2>3. QED
    BY <1>5, <2>2, CommittedWrite DEF Entry, Fresh
<1>6. ASSUME NEW p \in Products, NEW q \in 1..MaxQty, Exit(k, p, q)
      PROVE  Advances
  <2>1. q \in Nat /\ db.current[p] - q \in Int
    BY <1>2, BoundsAssumption
  <2>2. Keeps(db, db')
    BY <1>1, <1>3, <1>4, <1>6, <2>1, MoveKeepsRows DEF Exit
  <2>3. QED
    BY <1>6, <2>2, CommittedWrite DEF Exit, Fresh
<1>7. ASSUME NEW p \in Products, NEW q \in 0..MaxQty, Adjust(k, p, q)
      PROVE  Advances
  <2> DEFINE up   == q > db.current[p]
             type == IF up THEN "ADJUSTMENT_INCREASE" ELSE "ADJUSTMENT_DECREASE"
             diff == IF up THEN q - db.current[p] ELSE db.current[p] - q
  <2>1. q \in Int /\ db.current[p] \in Nat /\ diff \in Nat
    BY <1>2, BoundsAssumption
  <2>2. type \in MoveTypes
    BY <1>4
  <2>3. /\ Legal(q, db.reserved[p])
        /\ db' = Persist(db, p, type, diff, q, db.reserved[p], NoRef, k, 0)
    BY <1>7 DEF Adjust
  <2> HIDE DEF type, diff
  <2>4. Keeps(db, db')
    BY <1>1, <1>3, <2>1, <2>2, <2>3, MoveKeepsRows
  <2>5. QED
    BY <1>7, <2>4, CommittedWrite DEF Adjust, Fresh
<1>8. ASSUME NEW i \in DOMAIN db.moves, ReverseSale(k, i)
      PROVE  Advances
  <2>1. db.moves[i] \in Movement /\ i \in Nat
    BY <1>2
  <2>2. /\ db.moves[i].product \in Products
        /\ db.moves[i].qty \in Nat
        /\ db.moves[i].ref \in Refs \cup {NoRef}
    BY <2>1 DEF Movement
  <2>3. db.current[db.moves[i].product] + db.moves[i].qty \in Int
    BY <1>2, <2>2
  <2>4. Keeps(db, db')
    BY <1>1, <1>3, <1>4, <1>8, <2>1, <2>2, <2>3, MoveKeepsRows DEF ReverseSale
  <2>5. QED
    BY <1>8, <2>4, CommittedWrite DEF ReverseSale, Fresh
<1>9. QED
  BY <1>5, <1>6, <1>7, <1>8

\* Manual reservations: their creation, cancellation and completion.
LEMMA ReservationsAdvance ==
  ASSUME IInv, NEW k \in Keys, NEW l \in Lines,
         \/ \E q \in 1..MaxQty : CreateReservation(k, l, q)
         \/ \E complete \in BOOLEAN : ProcessReservation(k, l, complete)
  PROVE  Advances
<1>1. db \in RightRows /\ db \in State
  BY DEF IInv, RightRows
<1>2. l[1] \in Products
  BY DEF Lines
<1>3. /\ db.current[l[1]] \in Nat /\ db.reserved[l[1]] \in Nat
      /\ db.resv[l].qty \in Nat
  BY <1>1, <1>2 DEF State
<1>4. k \in Keys \cup {NoKey} /\ 0 \in Nat
  OBVIOUS
<1>5. {"RESERVATION", "RESERVATION_CANCELED", "SALE_COMPLETED"} \subseteq MoveTypes
  BY DEF MoveTypes
<1>6. {"ACTIVE", "COMPLETED", "CANCELED"} \subseteq Statuses
  BY DEF Statuses
<1>7. ASSUME NEW q \in 1..MaxQty, CreateReservation(k, l, q)
      PROVE  Advances
  <2>1. q \in Nat
    BY BoundsAssumption
  <2>2. HeldQty(db, l) = 0 /\ db.resv[l].status = "NONE"
    BY <1>7 DEF CreateReservation, HeldQty
  <2>3. db.reserved[l[1]] + q = db.reserved[l[1]] - HeldQty(db, l)
          + (IF "ACTIVE" = "ACTIVE" THEN q ELSE 0)
    BY <1>3, <2>1, <2>2
  <2>4. Legal(db.current[l[1]], db.reserved[l[1]] + q)
    BY <1>7 DEF CreateReservation
  <2>5. db.current[l[1]] \in Int /\ db.reserved[l[1]] + q \in Int
    BY <1>3, <2>1
  <2>6. Keeps(db, SetResv(Persist(db, l[1], "RESERVATION", q, db.current[l[1]],
                                  db.reserved[l[1]] + q, l[2], k, 0),
                          l, "ACTIVE", q))
    BY <1>1, <1>4, <1>5, <1>6, <2>1, <2>2, <2>3, <2>4, <2>5, LineKeepsRows
  <2>7. QED
    BY <1>7, <2>6, CommittedWrite DEF CreateReservation, Fresh
<1>8. ASSUME NEW complete \in BOOLEAN, ProcessReservation(k, l, complete)
      PROVE  Advances
  <2> DEFINE q      == db.resv[l].qty
             c      == IF complete THEN db.current[l[1]] - q ELSE db.current[l[1]]
             r      == db.reserved[l[1]] - q
             type   == IF complete THEN "SALE_COMPLETED" ELSE "RESERVATION_CANCELED"
             status == IF complete THEN "COMPLETED" ELSE "CANCELED"
  <2>1. q \in Nat /\ c \in Int /\ r \in Int
    BY <1>3
  <2>2. type \in MoveTypes /\ status \in Statuses /\ status # "ACTIVE"
        /\ (status = "COMPLETED" => type = "SALE_COMPLETED")
    BY <1>5, <1>6
  <2>3. HeldQty(db, l) = q /\ db.resv[l].status = "ACTIVE"
    BY <1>8 DEF ProcessReservation, Live, HeldQty
  <2>4. /\ Legal(c, r)
        /\ db' = SetResv(Persist(db, l[1], type, q, c, r, l[2], k, 0), l, status, q)
    BY <1>8 DEF ProcessReservation
  <2>5. r = db.reserved[l[1]] - HeldQty(db, l) + (IF status = "ACTIVE" THEN q ELSE 0)
    BY <1>3, <2>2, <2>3
  <2> HIDE DEF q, c, r, type, status
  <2>6. Keeps(db, db')
    BY <1>1, <1>4, <2>1, <2>2, <2>3, <2>4, <2>5, LineKeepsRows
  <2>7. QED
    BY <1>8, <2>6, CommittedWrite DEF ProcessReservation, Fresh
<1>9. QED
  BY <1>7, <1>8

\* The lines of the transactions of an order.
LEMMA LinesAdvance ==
  ASSUME IInv, NEW l \in Lines,
         \/ SkipLine(l) \/ ReserveLine(l) \/ CompleteLine(l)
         \/ CancelActiveLine(l) \/ CancelSoldLine(l)
  PROVE  Advances
<1>1. work \in RightRows /\ work \in State
  BY DEF IInv, RightRows
<1>2. l[1] \in Products
  BY DEF Lines
<1>3. /\ work.current[l[1]] \in Nat /\ work.reserved[l[1]] \in Nat
      /\ work.resv[l].qty \in Nat /\ work.resv[l].status \in Statuses
  BY <1>1, <1>2 DEF State
<1>4. NoKey \in Keys \cup {NoKey} /\ 0 \in Nat
  OBVIOUS
<1>5. {"RESERVATION", "RESERVATION_CANCELED", "SALE_COMPLETED",
       "SALE_CANCELED_REVERSAL"} \subseteq MoveTypes
  BY DEF MoveTypes
<1>6. {"ACTIVE", "COMPLETED", "CANCELED"} \subseteq Statuses
  BY DEF Statuses
<1>7. CASE SkipLine(l)
  <2>1. Keeps(work, work)
    BY <1>1, FollowsItself DEF Keeps
  <2>2. QED
    BY <1>7, <2>1, LineDone DEF SkipLine
<1>8. CASE ReserveLine(l)
  <2> DEFINE q     == want[l]
             delta == want[l] - HeldQty(work, l)
             r     == work.reserved[l[1]] + delta
             type  == IF delta > 0 THEN "RESERVATION" ELSE "RESERVATION_CANCELED"
             size  == IF delta > 0 THEN delta ELSE -delta
             next  == SetResv(IF delta = 0 THEN work
                              ELSE Persist(work, l[1], type, size,
                                     work.current[l[1]], r, l[2], NoKey, 0),
                              l, "ACTIVE", q)
  <2>1. l \in OrderLines
    BY <1>8 DEF ReserveLine, Turn, IInv, TypeOK
  <2>2. q \in Nat
    BY <2>1 DEF IInv, TypeOK
  <2>3. HeldQty(work, l) \in Nat
    BY <1>3 DEF HeldQty
  <2>4. delta \in Int /\ r \in Int /\ size \in Nat /\ type \in MoveTypes
        /\ work.current[l[1]] \in Int
    BY <1>3, <1>5, <2>2, <2>3
  <2>5. work.resv[l].status \in {"NONE", "ACTIVE"}
    BY <1>8 DEF ReserveLine, Reservable
  <2>6. Done(l, next) /\ (delta # 0 => Legal(work.current[l[1]], r))
    BY <1>8 DEF ReserveLine
  <2>7. r = work.reserved[l[1]] - HeldQty(work, l)
              + (IF "ACTIVE" = "ACTIVE" THEN q ELSE 0)
    BY <1>3, <2>2, <2>3
  <2>8. delta = 0 => HeldQty(work, l) = q
    BY <2>2, <2>3
  <2>9. op # "idle"
    BY <1>8 DEF ReserveLine
  <2> HIDE DEF q, delta, r, type, size
  <2>10. CASE delta = 0
    <3>1. next = SetResv(work, l, "ACTIVE", q)
      BY <2>10
    <3>2. Keeps(work, next)
      BY <1>1, <1>6, <2>2, <2>5, <2>8, <2>10, <3>1, ResvKeepsRows
    <3> HIDE DEF next
    <3>3. QED
      BY <2>6, <2>9, <3>2, LineDone
  <2>11. CASE delta # 0
    <3>1. next = SetResv(Persist(work, l[1], type, size, work.current[l[1]], r,
                                 l[2], NoKey, 0), l, "ACTIVE", q)
      BY <2>11
    <3>2. Keeps(work, next)
      BY <1>1, <1>4, <1>6, <2>2, <2>4, <2>5, <2>6, <2>7, <2>11, <3>1, LineKeepsRows
    <3> HIDE DEF next
    <3>3. QED
      BY <2>6, <2>9, <3>2, LineDone
  <2>12. QED
    BY <2>10, <2>11
<1>9. CASE CompleteLine(l)
  <2> DEFINE q == work.resv[l].qty
             c == work.current[l[1]] - q
             r == work.reserved[l[1]] - q
             next == SetResv(Persist(work, l[1], "SALE_COMPLETED", q, c, r, l[2],
                                     NoKey, 0), l, "COMPLETED", q)
  <2>1. q \in Nat /\ c \in Int /\ r \in Int
    BY <1>3
  <2>2. HeldQty(work, l) = q /\ work.resv[l].status = "ACTIVE"
    BY <1>9 DEF CompleteLine, Live, HeldQty
  <2>3. r = work.reserved[l[1]] - HeldQty(work, l)
              + (IF "COMPLETED" = "ACTIVE" THEN q ELSE 0)
    BY <1>3, <2>2
  <2>4. Done(l, next) /\ Legal(c, r) /\ op # "idle"
    BY <1>9 DEF CompleteLine
  <2> HIDE DEF q, c, r
  <2>5. Keeps(work, next)
    BY <1>1, <1>4, <1>5, <1>6, <2>1, <2>2, <2>3, <2>4, LineKeepsRows
  <2> HIDE DEF next
  <2>6. QED
    BY <2>4, <2>5, LineDone
<1>10. CASE CancelActiveLine(l)
  <2> DEFINE q == work.resv[l].qty
             r == work.reserved[l[1]] - q
             next == SetResv(Persist(work, l[1], "RESERVATION_CANCELED", q,
                                     work.current[l[1]], r, l[2], NoKey, 0),
                             l, "CANCELED", q)
  <2>1. q \in Nat /\ work.current[l[1]] \in Int /\ r \in Int
    BY <1>3
  <2>2. HeldQty(work, l) = q /\ work.resv[l].status = "ACTIVE"
    BY <1>10 DEF CancelActiveLine, Live, HeldQty
  <2>3. r = work.reserved[l[1]] - HeldQty(work, l)
              + (IF "CANCELED" = "ACTIVE" THEN q ELSE 0)
    BY <1>3, <2>2
  <2>4. Done(l, next) /\ Legal(work.current[l[1]], r) /\ op # "idle"
    BY <1>10 DEF CancelActiveLine
  <2> HIDE DEF q, r
  <2>5. Keeps(work, next)
    BY <1>1, <1>4, <1>5, <1>6, <2>1, <2>2, <2>3, <2>4, LineKeepsRows
  <2> HIDE DEF next
  <2>6. QED
    BY <2>4, <2>5, LineDone
<1>11. CASE CancelSoldLine(l)
  <2> DEFINE left == work.resv[l].qty
  <2>1. PICK i \in SalesOf(work, l) :
          LET q == work.moves[i].qty
              c == work.current[l[1]] + q
              s == IF ReversalsOf(work, i) # {} THEN work
                   ELSE Persist(work, l[1], "SALE_CANCELED_REVERSAL", q, c,
                                work.reserved[l[1]], l[2], NoKey, i)
          IN /\ ReversalsOf(work, i) = {} => Legal(c, work.reserved[l[1]])
             /\ Done(l, SetResv(s, l, "CANCELED", left))
    BY <1>11 DEF CancelSoldLine
  <2>2. HeldQty(work, l) = 0 /\ work.resv[l].status = "COMPLETED" /\ op # "idle"
    BY <1>11 DEF CancelSoldLine, HeldQty
  <2> DEFINE q == work.moves[i].qty
             c == work.current[l[1]] + q
             r == work.reserved[l[1]]
  <2>3. i \in DOMAIN work.moves /\ work.moves \in Seq(Movement)
    BY <1>1 DEF SalesOf, State
  <2>4. work.moves[i] \in Movement /\ i \in Nat
    BY <2>3
  <2>5. q \in Nat /\ c \in Int /\ r \in Int
    BY <1>3, <2>4 DEF Movement
  <2>6. r = work.reserved[l[1]] - HeldQty(work, l)
              + (IF "CANCELED" = "ACTIVE" THEN left ELSE 0)
    BY <1>3, <2>2
  <2>7. left \in Nat
    BY <1>3
  <2>8. CASE ReversalsOf(work, i) # {}
    <3>1. Done(l, SetResv(work, l, "CANCELED", left))
      BY <2>1, <2>8
    <3>2. Keeps(work, SetResv(work, l, "CANCELED", left))
      BY <1>1, <1>6, <2>2, <2>7, ResvKeepsRows
    <3>3. QED
      BY <2>2, <3>1, <3>2, LineDone
  <2>9. CASE ReversalsOf(work, i) = {}
    <3> DEFINE next == SetResv(Persist(work, l[1], "SALE_CANCELED_REVERSAL", q, c, r,
                                       l[2], NoKey, i), l, "CANCELED", left)
    <3>1. Done(l, next) /\ Legal(c, r)
      BY <2>1, <2>9
    <3> HIDE DEF q, c, r, left
    <3>2. Keeps(work, next)
      BY <1>1, <1>4, <1>5, <1>6, <2>2, <2>4, <2>5, <2>6, <2>7, <3>1, LineKeepsRows
    <3> HIDE DEF next
    <3>3. QED
      BY <2>2, <3>1, <3>2, LineDone
  <2>10. QED
    BY <2>8, <2>9
<1>12. QED
  BY <1>7, <1>8, <1>9, <1>10, <1>11

\* Opening and ending the transactions of an order.
LEMMA TransactionsAdvance ==
  ASSUME IInv,
         \/ \E w \in [OrderLines -> 0..MaxQty] : BeginReserve(w)
         \/ \E items \in SUBSET OrderItems, kind \in {"complete", "cancel"} :
              BeginSettle(kind, items)
         \/ \E lines \in SUBSET Lines : BeginRelease(lines)
         \/ Commit
         \/ Rollback
  PROVE  Advances
<1>1. OrderLines \subseteq Lines
  BY DEF OrderLines, Lines, Refs
<1>2. NoWant \in [OrderLines -> Nat]
  BY DEF NoWant
<1>3. ASSUME NEW w \in [OrderLines -> 0..MaxQty], BeginReserve(w)
      PROVE  Advances
  <2>1. w \in [OrderLines -> Nat]
    BY BoundsAssumption
  <2>2. Requested(w) \subseteq OrderLines
    BY DEF Requested
  <2>3. QED
    BY <1>1, <1>3, <2>1, <2>2, BeginOK DEF BeginReserve
<1>4. ASSUME NEW items \in SUBSET OrderItems, NEW kind \in {"complete", "cancel"},
             BeginSettle(kind, items)
      PROVE  Advances
  <2>1. PICK lines \in SUBSET OrderLines : Begin(kind, lines, NoWant)
    BY <1>4 DEF BeginSettle
  <2>2. QED
    BY <1>1, <1>2, <2>1, BeginOK
<1>5. ASSUME NEW lines \in SUBSET Lines, BeginRelease(lines)
      PROVE  Advances
  <2>1. Begin("release", {l \in lines : Live(db, l)}, NoWant)
    BY <1>5 DEF BeginRelease
  <2>2. {l \in lines : Live(db, l)} \in SUBSET Lines
    OBVIOUS
  <2>3. QED
    BY <1>2, <2>1, <2>2, BeginOK
<1>6. CASE Commit
  BY <1>6, CloseOK DEF Commit, IInv
<1>7. CASE Rollback
  BY <1>7, CloseOK, FollowsItself DEF Rollback, IInv, RightRows
<1>8. QED
  BY <1>3, <1>4, <1>5, <1>6, <1>7

\* Every step keeps the invariant.
LEMMA NextAdvances == IInv /\ [Next]_vars => Advances
<1> SUFFICES ASSUME IInv, [Next]_vars PROVE Advances
  OBVIOUS
<1>1. CASE KeyedNext
  BY <1>1, MovesAdvance, ReservationsAdvance DEF KeyedNext
<1>2. CASE OrderNext
  BY <1>2, LinesAdvance, TransactionsAdvance DEF OrderNext
<1>3. CASE UNCHANGED vars
  BY <1>3, FollowsItself DEF vars, IInv, TypeOK, RightRows, Advances
<1>4. QED
  BY <1>1, <1>2, <1>3 DEF Next

\* The rows start right.
LEMMA InitIInv == Init => IInv
<1> SUFFICES ASSUME Init PROVE IInv
  OBVIOUS
<1>1. db = Empty /\ work = Empty /\ op = "idle" /\ todo = {} /\ want = NoWant
  BY DEF Init
<1>2. Empty \in RightRows /\ Empty \in State
  BY EmptyOK DEF RightRows
<1>3. NoWant \in [OrderLines -> Nat]
  BY DEF NoWant
<1>4. QED
  BY <1>1, <1>2, <1>3 DEF IInv, TypeOK

-----------------------------------------------------------------------------
(* The theorems.                                                             *)

\* The strengthened invariant holds in every behaviour.
THEOREM RowsStayRight == Spec => []IInv
<1>1. IInv /\ [Next]_vars => IInv'
  BY NextAdvances DEF Advances
<1>2. QED
  BY InitIInv, <1>1, PTL DEF Spec

\* Every row keeps its type: quantities never go negative, even inside a
\* transaction that will be rolled back.
THEOREM TypeCorrect == Spec => []TypeOK
<1>1. IInv => TypeOK
  BY DEF IInv
<1>2. QED
  BY RowsStayRight, <1>1, PTL

\* The reserved quantity of every balance is what its active reservations hold,
\* and the physical stock covers it.
THEOREM HeldStock == Spec => []HeldStockIsThere
<1>1. IInv => HeldStockIsThere
  BY DEF IInv, RightRows, HeldStockIsThere
<1>2. QED
  BY RowsStayRight, <1>1, PTL

\* No line of a settlement can be refused by what the balance or the ledger say.
THEOREM SettlementSafe == Spec => []SettlementNeverRefused
<1>1. IInv => SettlementNeverRefused
  <2> SUFFICES ASSUME IInv, NEW l \in todo
               PROVE  /\ work.resv[l].status = "ACTIVE" => work.resv[l].qty <= work.reserved[l[1]]
                      /\ work.resv[l].status = "COMPLETED" => SalesOf(work, l) # {}
    BY DEF SettlementNeverRefused
  <2>1. l \in Lines
    BY DEF IInv, TypeOK, OrderLines, Lines, Refs
  <2>2. l[1] \in Products /\ l \in LinesOf(l[1])
    BY <2>1 DEF Lines, LinesOf
  <2>3. work \in State /\ StockIsThere(work) /\ SaleRecorded(work)
    BY DEF IInv, RightRows
  <2>4. HeldQty(work, l) <= work.reserved[l[1]]
    BY <2>2, <2>3, HeldIsNat DEF StockIsThere
  <2>5. QED
    BY <2>1, <2>3, <2>4 DEF HeldQty, SaleRecorded
<1>2. QED
  BY RowsStayRight, <1>1, PTL

\* Reservations are covered while they are open and when they are settled.
THEOREM ReservedIsCovered == Spec => []ReservationsAreCovered
<1>1. HeldStockIsThere /\ SettlementNeverRefused => ReservationsAreCovered
  BY DEF ReservationsAreCovered
<1>2. QED
  BY HeldStock, SettlementSafe, <1>1, PTL

\* A settled reservation never holds stock again.
THEOREM SettledStaysSettled == Spec => NeverRevived
<1>1. IInv /\ [Next]_vars =>
        [\A l \in Lines :
           /\ db.resv[l].status = "COMPLETED" =>
                db'.resv[l].status \in {"COMPLETED", "CANCELED"}
           /\ db.resv[l].status = "CANCELED" => db'.resv[l].status = "CANCELED"]_db
  BY NextAdvances DEF Advances, Follows
<1>2. QED
  BY RowsStayRight, <1>1, PTL DEF Spec, NeverRevived

-----------------------------------------------------------------------------
(* reserveOrderItems is all or nothing.                                      *)

\* Where an open reserve transaction is: the lines to come are as committed,
\* those behind it hold what was requested.
ReserveUnderWay ==
  op = "reserve" =>
    /\ todo \subseteq Requested(want)
    /\ \A l \in todo : work.resv[l] = db.resv[l]
    /\ \A l \in Requested(want) \ todo :
         Reservable(db, l) => HeldQty(work, l) = want[l]

\* One line of a reserve transaction, written or skipped.
LEMMA ReserveLineRows ==
  ASSUME IInv, NEW l \in Lines, ReserveLine(l)
  PROVE  /\ l \in OrderLines /\ HeldQty(work', l) = want[l]
         /\ \A o \in Lines \ {l} : work'.resv[o] = work.resv[o]
<1>1. work \in State /\ l[1] \in Products /\ l[2] \in Refs \cup {NoRef}
  BY DEF IInv, RightRows, Lines
<1>2. l \in OrderLines
  BY DEF ReserveLine, Turn, IInv, TypeOK
<1>3. want[l] \in Nat /\ HeldQty(work, l) \in Nat
  BY <1>1, <1>2 DEF IInv, TypeOK, HeldQty, State
<1>4. work.current[l[1]] \in Nat /\ work.reserved[l[1]] \in Nat
  BY <1>1 DEF State
<1> DEFINE delta == want[l] - HeldQty(work, l)
           r     == work.reserved[l[1]] + delta
           type  == IF delta > 0 THEN "RESERVATION" ELSE "RESERVATION_CANCELED"
           size  == IF delta > 0 THEN delta ELSE -delta
           moved == IF delta = 0 THEN work
                    ELSE Persist(work, l[1], type, size, work.current[l[1]], r,
                                 l[2], NoKey, 0)
<1>5. /\ work' = SetResv(moved, l, "ACTIVE", want[l])
      /\ delta # 0 => Legal(work.current[l[1]], r)
  BY DEF ReserveLine, Done
<1>6. delta \in Int /\ r \in Int /\ size \in Nat /\ type \in MoveTypes
  BY <1>3, <1>4 DEF MoveTypes
<1> HIDE DEF delta, r, type, size
<1>7. moved \in State /\ moved.resv = work.resv
  <2>1. CASE delta = 0
    BY <1>1, <2>1
  <2>2. CASE delta # 0
    <3>1. r \in Nat
      BY <1>5, <1>6, <2>2 DEF Legal
    <3>2. NoKey \in Keys \cup {NoKey} /\ 0 \in Nat
      OBVIOUS
    <3>3. Moved(work, Persist(work, l[1], type, size, work.current[l[1]], r,
                              l[2], NoKey, 0),
                l[1], type, work.current[l[1]], r, l[2])
      BY <1>1, <1>4, <1>6, <3>1, <3>2, PersistRows
    <3>4. QED
      BY <2>2, <3>3 DEF Moved
  <2>3. QED
    BY <2>1, <2>2
<1> HIDE DEF moved
<1>8. work'.resv = [work.resv EXCEPT ![l] = [status |-> "ACTIVE", qty |-> want[l]]]
  BY <1>5, <1>7 DEF SetResv, State
<1>9. work.resv \in [Lines -> [status : Statuses, qty : Nat]]
  BY <1>1 DEF State
<1>10. work'.resv[l] = [status |-> "ACTIVE", qty |-> want[l]]
  BY <1>8, <1>9
<1>11. QED
  BY <1>2, <1>8, <1>9, <1>10 DEF HeldQty

LEMMA ReserveGoesOn ==
  IInv /\ ReserveUnderWay /\ [Next]_vars => ReserveUnderWay'
<1> SUFFICES ASSUME IInv, ReserveUnderWay, [Next]_vars, op' = "reserve"
             PROVE  /\ todo' \subseteq Requested(want')
                    /\ \A l \in todo' : work'.resv[l] = db'.resv[l]
                    /\ \A l \in Requested(want') \ todo' :
                         Reservable(db', l) => HeldQty(work', l) = want'[l]
  BY DEF ReserveUnderWay, Requested, Reservable, HeldQty
<1>1. CASE KeyedNext
  BY ZenonT(30), <1>1 DEF KeyedNext, Entry, Exit, Adjust, CreateReservation,
              ProcessReservation, ReverseSale, Fresh
<1>2. ASSUME NEW w \in [OrderLines -> 0..MaxQty], BeginReserve(w)
      PROVE  /\ todo' = Requested(want') /\ work' = db /\ db' = db
  BY <1>2 DEF BeginReserve, Begin
<1>3. ASSUME NEW items \in SUBSET OrderItems, NEW kind \in {"complete", "cancel"},
             BeginSettle(kind, items)
      PROVE  FALSE
  BY <1>3 DEF BeginSettle, Begin
<1>4. ASSUME NEW lines \in SUBSET Lines, BeginRelease(lines)
      PROVE  FALSE
  BY <1>4 DEF BeginRelease, Begin
<1>5. ASSUME NEW l \in Lines, SkipLine(l) \/ ReserveLine(l)
      PROVE  /\ todo' \subseteq Requested(want')
             /\ \A o \in todo' : work'.resv[o] = db'.resv[o]
             /\ \A o \in Requested(want') \ todo' :
                  Reservable(db', o) => HeldQty(work', o) = want'[o]
  <2>1. /\ op = "reserve" /\ l \in todo
        /\ db' = db /\ want' = want /\ todo' = todo \ {l}
    BY <1>5 DEF SkipLine, ReserveLine, Turn, Done
  <2>2. /\ todo \subseteq Requested(want)
        /\ \A o \in todo : work.resv[o] = db.resv[o]
        /\ \A o \in Requested(want) \ todo :
             Reservable(db, o) => HeldQty(work, o) = want[o]
    BY <2>1 DEF ReserveUnderWay
  <2>3. Requested(want) \subseteq Lines
    BY DEF Requested, OrderLines, Lines, Refs
  <2>4. \A o \in Lines \ {l} : work'.resv[o] = work.resv[o]
    BY <1>5, ReserveLineRows DEF SkipLine, Done
  <2>5. Reservable(db, l) => HeldQty(work', l) = want[l]
    BY <1>5, <2>1, <2>2, ReserveLineRows DEF SkipLine, Reservable
  <2>6. \A o \in Lines \ {l} : HeldQty(work', o) = HeldQty(work, o)
    BY <2>4 DEF HeldQty
  <2>7. QED
    BY <2>1, <2>2, <2>3, <2>4, <2>5, <2>6
<1>6. ASSUME NEW l \in Lines,
             CompleteLine(l) \/ CancelActiveLine(l) \/ CancelSoldLine(l)
      PROVE  FALSE
  BY <1>6 DEF CompleteLine, CancelActiveLine, CancelSoldLine, Done
<1>7. CASE Commit \/ Rollback
  BY <1>7 DEF Commit, Rollback, Close
<1>8. CASE UNCHANGED vars
  BY <1>8 DEF vars, ReserveUnderWay
<1>9. QED
  BY <1>1, <1>2, <1>3, <1>4, <1>5, <1>6, <1>7, <1>8 DEF Next, OrderNext

\* If a reservation call leaves anything behind, every requested line that can
\* still be reserved holds the requested quantity.
THEOREM ReservesAllOrNothing == Spec => ReserveAllOrNothing
<1>1. Init => ReserveUnderWay
  BY DEF Init, ReserveUnderWay
<1>2. ReserveUnderWay /\ [Next]_vars =>
        [op = "reserve" /\ op' = "idle" /\ db' # db =>
           \A l \in Requested(want) :
             Reservable(db, l) => HeldQty(db', l) = want[l]]_vars
  <2> SUFFICES ASSUME ReserveUnderWay, Next, op = "reserve", op' = "idle",
                      db' # db, NEW l \in Requested(want), Reservable(db, l)
               PROVE  HeldQty(db', l) = want[l]
    OBVIOUS
  <2>1. ~KeyedNext
    BY DEF KeyedNext, Entry, Exit, Adjust, CreateReservation,
           ProcessReservation, ReverseSale, Fresh
  <2>2. Commit
    BY <2>1 DEF Next, OrderNext, BeginReserve, BeginSettle, BeginRelease, Begin,
                SkipLine, ReserveLine, CompleteLine, CancelActiveLine,
                CancelSoldLine, Done, Rollback, Close
  <2>3. db' = work /\ todo = {}
    BY <2>2 DEF Commit, Close
  <2>4. QED
    BY <2>3 DEF ReserveUnderWay, HeldQty
<1>3. QED
  BY RowsStayRight, ReserveGoesOn, <1>1, <1>2, PTL DEF Spec, ReserveAllOrNothing

-----------------------------------------------------------------------------
(***************************************************************************)
(* What the ledger and the outbox of Inventory say, for every set of       *)
(* products, kits, references and keys, every quantity and every length of *)
(* the ledger.                                                             *)
(*                                                                         *)
(* Every write appends one movement, or none, and changes one reservation, *)
(* or none: the books of the rows are kept write by write, in the          *)
(* committed rows and in those of an open transaction.                     *)
(***************************************************************************)

Returned(s) == {s.moves[j].reversalOf : j \in DOMAIN s.moves}

\* The ledger of s tells of the line l what its reservation does.
Told(s, l) ==
  /\ s.resv[l].status = "COMPLETED" =>
       \E i \in DOMAIN s.moves : /\ SalesOf(s, l) = {i}
                                 /\ s.moves[i].qty = s.resv[l].qty
  /\ s.resv[l].status = "CANCELED" => SalesOf(s, l) \subseteq Returned(s)
  /\ s.resv[l].status \in {"NONE", "ACTIVE"} => SalesOf(s, l) = {}

\* The movement i may be the return of the one it names, and is the only one.
ReturnRight(s, i) ==
  LET r == s.moves[i].reversalOf IN
  r # 0 => /\ r \in DOMAIN s.moves
           /\ s.moves[r].type = "SALE_COMPLETED"
           /\ s.moves[r].product = s.moves[i].product
           /\ s.moves[r].qty = s.moves[i].qty
           /\ \A j \in DOMAIN s.moves : s.moves[j].reversalOf = r => i = j

Now(s, x) == IF x \in Kits THEN MaxKits(s, x) ELSE Available(s, x)

EventsOf(s, x) == {e \in s.events : e.product = x}

\* No event is ahead of the version of x, and the newest one is true.
NewsRight(s, x) ==
  /\ \A e \in EventsOf(s, x) : e.version <= s.version[x]
  /\ IF EventsOf(s, x) = {} THEN Now(s, x) = 0
     ELSE \E e \in EventsOf(s, x) :
            /\ \A f \in EventsOf(s, x) : f.version <= e.version
            /\ e.available = Now(s, x)

Row(s, p) == [current |-> s.current[p], reserved |-> s.reserved[p]]

\* The movements of p chain and end at its balance row.
Chained(s, p) ==
  /\ Leave(s, p, Len(s.moves), Row(s, p))
  /\ \A i \in DOMAIN s.moves :
       s.moves[i].product = p => Leave(s, p, i - 1, s.moves[i].before)

Books(s) ==
  /\ \A p \in Products : Chained(s, p)
  /\ \A l \in Lines : Told(s, l)
  /\ \A i \in DOMAIN s.moves : ReturnRight(s, i)
  /\ \A x \in Stocked : NewsRight(s, x)

-----------------------------------------------------------------------------
(* One more movement.                                                      *)

IsSaleOf(m, l) ==
  m.type = "SALE_COMPLETED" /\ m.product = l[1] /\ m.ref = l[2]

\* t has the movements of s and then, at n, the movement m.
Longer(s, t, m, n) ==
  /\ DOMAIN t.moves = DOMAIN s.moves \cup {n}
  /\ n \notin DOMAIN s.moves /\ n # 0 /\ 0 \notin DOMAIN s.moves
  /\ \A i \in DOMAIN s.moves : t.moves[i] = s.moves[i]
  /\ t.moves[n] = m
  /\ \A l : SalesOf(t, l) = SalesOf(s, l)
              \cup (IF IsSaleOf(m, l) THEN {n} ELSE {})
  /\ Returned(t) = Returned(s) \cup {m.reversalOf}

LEMMA OneMore ==
  ASSUME NEW s \in State, NEW t \in State, NEW m \in Movement,
         t.moves = Append(s.moves, m)
  PROVE  Longer(s, t, m, Len(s.moves) + 1)
<1> DEFINE n == Len(s.moves) + 1
<1>1. s.moves \in Seq(Movement)
  BY DEF State
<1>2. DOMAIN s.moves = 1..Len(s.moves) /\ Len(s.moves) \in Nat
  BY <1>1
<1>3. DOMAIN t.moves = 1..n
  BY <1>1
<1>4. \A i \in 1..Len(s.moves) : t.moves[i] = s.moves[i]
  BY <1>1
<1>5. t.moves[n] = m
  BY <1>1
<1>6. /\ DOMAIN t.moves = DOMAIN s.moves \cup {n}
      /\ n \notin DOMAIN s.moves /\ n # 0 /\ 0 \notin DOMAIN s.moves
  BY <1>2, <1>3
<1> HIDE DEF n
<1>7. \A l : SalesOf(t, l) = SalesOf(s, l)
                \cup (IF IsSaleOf(m, l) THEN {n} ELSE {})
  BY <1>2, <1>4, <1>5, <1>6 DEF SalesOf, IsSaleOf
<1>8. Returned(t) = Returned(s) \cup {m.reversalOf}
  BY <1>2, <1>4, <1>5, <1>6 DEF Returned
<1>9. QED
  BY <1>2, <1>4, <1>5, <1>6, <1>7, <1>8 DEF n, Longer

\* A movement of the product p and quantity qty may return the sale r.
ReturnFits(s, p, qty, r) ==
  r # 0 => /\ r \in DOMAIN s.moves
           /\ s.moves[r].type = "SALE_COMPLETED"
           /\ s.moves[r].product = p
           /\ s.moves[r].qty = qty
           /\ ReversalsOf(s, r) = {}

LEMMA ReturnsKept ==
  ASSUME NEW s \in State, NEW t \in State, NEW m \in Movement,
         t.moves = Append(s.moves, m),
         ReturnFits(s, m.product, m.qty, m.reversalOf),
         \A i \in DOMAIN s.moves : ReturnRight(s, i)
  PROVE  \A i \in DOMAIN t.moves : ReturnRight(t, i)
<1> DEFINE n == Len(s.moves) + 1
<1>1. /\ DOMAIN t.moves = DOMAIN s.moves \cup {n}
      /\ n \notin DOMAIN s.moves
      /\ \A i \in DOMAIN s.moves : t.moves[i] = s.moves[i]
      /\ t.moves[n] = m
  BY OneMore DEF Longer
<1> HIDE DEF n
<1>2. \A j \in DOMAIN s.moves : m.reversalOf # 0 =>
        s.moves[j].reversalOf # m.reversalOf
  BY DEF ReturnFits, ReversalsOf
<1>3. ReturnRight(t, n)
  BY <1>1, <1>2 DEF ReturnFits, ReturnRight
<1>4. ASSUME NEW i \in DOMAIN s.moves
      PROVE  ReturnRight(t, i)
  <2>1. ReturnRight(s, i)
    OBVIOUS
  <2>2. QED
    BY <1>1, <1>2, <2>1 DEF ReturnRight
<1>5. QED
  BY <1>1, <1>3, <1>4

\* Of a line the movement says nothing of.
LEMMA OthersTold ==
  ASSUME NEW s \in State, NEW t \in State, NEW m \in Movement,
         t.moves = Append(s.moves, m), NEW l \in Lines, Told(s, l),
         t.resv[l] = s.resv[l], ~IsSaleOf(m, l)
  PROVE  Told(t, l)
<1> DEFINE n == Len(s.moves) + 1
<1>0. /\ DOMAIN t.moves = DOMAIN s.moves \cup {n}
      /\ \A i \in DOMAIN s.moves : t.moves[i] = s.moves[i]
      /\ \A o : SalesOf(t, o) = SalesOf(s, o)
                  \cup (IF IsSaleOf(m, o) THEN {n} ELSE {})
      /\ Returned(t) = Returned(s) \cup {m.reversalOf}
  BY OneMore DEF Longer
<1> HIDE DEF n
<1>1. /\ SalesOf(t, l) = SalesOf(s, l)
      /\ Returned(s) \subseteq Returned(t)
      /\ DOMAIN s.moves \subseteq DOMAIN t.moves
      /\ \A i \in DOMAIN s.moves : t.moves[i] = s.moves[i]
  BY <1>0
<1>2. t.resv[l].status = "COMPLETED" =>
        \E i \in DOMAIN t.moves : /\ SalesOf(t, l) = {i}
                                  /\ t.moves[i].qty = t.resv[l].qty
  BY <1>1 DEF Told
<1>3. t.resv[l].status = "CANCELED" => SalesOf(t, l) \subseteq Returned(t)
  BY <1>1 DEF Told
<1>4. t.resv[l].status \in {"NONE", "ACTIVE"} => SalesOf(t, l) = {}
  BY <1>1 DEF Told
<1>5. QED
  BY <1>2, <1>3, <1>4 DEF Told

-----------------------------------------------------------------------------
(* The chain of a product.                                                 *)

\* What the first movements leave is not touched by a later one.
LEMMA FirstOnes ==
  ASSUME NEW s, NEW t, NEW p, NEW n \in Nat, NEW balance,
         \A i \in 1..n : t.moves[i] = s.moves[i]
  PROVE  Leave(t, p, n, balance) <=> Leave(s, p, n, balance)
<1> DEFINE own(u) == {i \in 1..n : u.moves[i].product = p}
<1>1. own(t) = own(s)
  OBVIOUS
<1>2. QED
  BY <1>1 DEF Leave

\* A movement from the balance row of p to the new one continues the chain.
LEMMA ChainKept ==
  ASSUME NEW s \in State, NEW t \in State, NEW m \in Movement,
         t.moves = Append(s.moves, m),
         m.before = Row(s, m.product), m.after = Row(t, m.product),
         \A p \in Products \ {m.product} : Row(t, p) = Row(s, p),
         \A p \in Products : Chained(s, p)
  PROVE  \A p \in Products : Chained(t, p)
<1> DEFINE k == Len(s.moves)
<1>1. s.moves \in Seq(Movement)
  BY DEF State
<1>2. /\ k \in Nat /\ Len(t.moves) = k + 1
      /\ DOMAIN s.moves = 1..k /\ DOMAIN t.moves = 1..(k + 1)
      /\ \A i \in 1..k : t.moves[i] = s.moves[i]
      /\ t.moves[k + 1] = m
  BY <1>1
<1> HIDE DEF k
<1>3. ASSUME NEW p \in Products, NEW n \in 0..k, NEW balance
      PROVE  Leave(t, p, n, balance) <=> Leave(s, p, n, balance)
  BY SMTT(30), <1>2, FirstOnes
<1> SUFFICES ASSUME NEW p \in Products
             PROVE  Chained(t, p)
  OBVIOUS
<1>4. Leave(s, p, k, Row(s, p))
  BY DEF Chained, k
<1>5. Leave(t, p, k + 1, Row(t, p))
  <2> DEFINE own(u, n) == {i \in 1..n : u.moves[i].product = p}
  <2>1. CASE m.product = p
    <3>1. k + 1 \in own(t, k + 1) /\ \A j \in own(t, k + 1) : j <= k + 1
      BY <1>2, <2>1
    <3>2. t.moves[k + 1].after = Row(t, p)
      BY <1>2, <2>1
    <3>3. QED
      BY <3>1, <3>2 DEF Leave
  <2>2. CASE m.product # p
    <3>1. own(t, k + 1) = own(t, k)
      BY <1>2, <2>2
    <3>2. Leave(t, p, k, Row(t, p))
      BY <1>2, <1>3, <1>4, <2>2
    <3>3. QED
      BY <3>1, <3>2 DEF Leave
  <2>3. QED
    BY <2>1, <2>2
<1>6. ASSUME NEW i \in 1..(k + 1), t.moves[i].product = p
      PROVE  Leave(t, p, i - 1, t.moves[i].before)
  <2>1. CASE i \in 1..k
    <3>1. i \in DOMAIN s.moves /\ t.moves[i] = s.moves[i] /\ i - 1 \in 0..k
      BY <1>2, <2>1
    <3>2. Leave(s, p, i - 1, s.moves[i].before)
      BY <1>6, <3>1 DEF Chained
    <3>3. QED
      BY <1>3, <3>1, <3>2
  <2>2. CASE i = k + 1
    <3>1. t.moves[i] = m /\ m.product = p /\ i - 1 = k /\ k \in 0..k
      BY <1>2, <1>6, <2>2
    <3>2. m.before = Row(s, p)
      BY <3>1
    <3>3. QED
      BY <1>3, <1>4, <3>1, <3>2
  <2>3. QED
    BY <1>2, <2>1, <2>2
<1>7. QED
  BY <1>2, <1>5, <1>6 DEF Chained

-----------------------------------------------------------------------------
(* What persist announces.                                                 *)

\* What is available of a product, or of a kit, is known from the balances of
\* its own product or components.
LEMMA NowFrom ==
  ASSUME NEW s, NEW t, NEW x \in Stocked,
         x \notin Kits => Available(t, x) = Available(s, x),
         \A p \in Products : x \in Kits /\ Composition[x][p] > 0
                               => Available(t, p) = Available(s, p)
  PROVE  Now(t, x) = Now(s, x)
<1>1. CASE x \in Kits
  <2> DEFINE Q    == {q \in Products : Composition[x][q] > 0}
             A(u) == {(IF Available(u, p) > 0 THEN Available(u, p) ELSE 0)
                        \div Composition[x][p] : p \in Q}
  <2>1. A(t) = A(s)
    BY <1>1
  <2>2. MaxKits(t, x) = Min(A(t)) /\ MaxKits(s, x) = Min(A(s))
    BY DEF MaxKits
  <2>3. QED
    BY <1>1, <2>1, <2>2 DEF Now
<1>2. CASE x \notin Kits
  BY <1>2 DEF Now
<1>3. QED
  BY <1>1, <1>2

\* The versions and events persist leaves in t.
Announced(s, t, p) ==
  LET kits  == Dependents(p)
      xs    == IF Available(t, p) # Available(s, p) THEN kits \cup {p} ELSE kits
  IN /\ t.version = [x \in Stocked |-> IF x = p \/ x \in kits
                                       THEN s.version[x] + 1 ELSE s.version[x]]
     /\ t.events = s.events \cup
          {[product |-> x, version |-> t.version[x], available |-> Now(t, x)]
             : x \in xs}

LEMMA NewsKept ==
  ASSUME NEW s \in State, NEW t \in State, NEW p \in Products,
         \A q \in Products \ {p} : Available(t, q) = Available(s, q),
         Announced(s, t, p), \A x \in Stocked : NewsRight(s, x)
  PROVE  \A x \in Stocked : NewsRight(t, x)
<1> SUFFICES ASSUME NEW x \in Stocked
             PROVE  NewsRight(t, x)
  OBVIOUS
<1> DEFINE xs == IF Available(t, p) # Available(s, p) THEN Dependents(p) \cup {p}
                                                      ELSE Dependents(p)
           f(y) == [product |-> y, version |-> t.version[y],
                    available |-> Now(t, y)]
<1>1. t.events = s.events \cup {f(y) : y \in xs}
  BY DEF Announced
<1>2. /\ s.version[x] \in Nat
      /\ t.version[x] = IF x = p \/ x \in Dependents(p)
                        THEN s.version[x] + 1 ELSE s.version[x]
  BY DEF Announced, State
<1>3. xs \subseteq Stocked /\ p \in Stocked /\ p \notin Kits
  BY KitsAssumption DEF Dependents, Stocked
<1>4. \A e \in EventsOf(s, x) : e.version \in Nat
  BY DEF EventsOf, State, Event
<1>5. NewsRight(s, x)
  OBVIOUS
<1> HIDE DEF xs
<1>6. CASE x \in xs
  <2>1. f(x) \in EventsOf(t, x)
    BY <1>1, <1>6 DEF EventsOf
  <2>2. EventsOf(t, x) \subseteq EventsOf(s, x) \cup {f(x)}
    BY <1>1 DEF EventsOf
  <2>3. t.version[x] = s.version[x] + 1
    BY <1>2, <1>6 DEF xs
  <2>4. \A e \in EventsOf(s, x) : e.version <= t.version[x]
    BY <1>2, <1>4, <1>5, <2>3 DEF NewsRight
  <2>5. /\ f(x).version = t.version[x] /\ f(x).available = Now(t, x)
        /\ t.version[x] <= t.version[x]
    BY <1>2, <2>3
  <2> HIDE DEF f
  <2>6. \A e \in EventsOf(t, x) : e.version <= t.version[x]
    BY <2>2, <2>4, <2>5
  <2>7. QED
    BY <2>1, <2>5, <2>6 DEF NewsRight
<1>7. CASE x \notin xs
  <2>1. EventsOf(t, x) = EventsOf(s, x)
    BY <1>1, <1>7 DEF EventsOf
  <2>2. Now(t, x) = Now(s, x)
    <3>1. x \notin Dependents(p)
      BY <1>7 DEF xs
    <3>2. x \notin Kits => Available(t, x) = Available(s, x)
      BY <1>7 DEF xs, Stocked
    <3>3. ASSUME NEW q \in Products, x \in Kits, Composition[x][q] > 0
          PROVE  Available(t, q) = Available(s, q)
      BY <3>1, <3>3 DEF Dependents
    <3>4. QED
      BY <3>2, <3>3, NowFrom
  <2>3. \A e \in EventsOf(t, x) : e.version <= t.version[x]
    BY <1>2, <1>4, <1>5, <2>1 DEF NewsRight
  <2>4. QED
    BY <1>5, <2>1, <2>2, <2>3 DEF NewsRight
<1>8. QED
  BY <1>6, <1>7

\* t is s with one more movement, its availability announced.
Written(s, t, p, type, qty, ref, rev) ==
  /\ t \in State /\ t.resv = s.resv
  /\ \E m \in Movement :
       /\ t.moves = Append(s.moves, m)
       /\ m.type = type /\ m.product = p /\ m.ref = ref
       /\ m.qty = qty /\ m.reversalOf = rev
  /\ (\A x \in Stocked : NewsRight(s, x)) => \A x \in Stocked : NewsRight(t, x)
  /\ (\A x \in Products : Chained(s, x)) => \A x \in Products : Chained(t, x)

\* What persist appends and announces.
LEMMA PersistBooks ==
  ASSUME NEW s \in State, NEW p \in Products, NEW type \in MoveTypes,
         NEW qty \in Nat, NEW c \in Nat, NEW r \in Nat,
         NEW ref \in Refs \cup {NoRef}, NEW key \in Keys \cup {NoKey},
         NEW rev \in Nat
  PROVE  Written(s, Persist(s, p, type, qty, c, r, ref, key, rev),
                 p, type, qty, ref, rev)
<1> SUFFICES ASSUME NEW t, t = Persist(s, p, type, qty, c, r, ref, key, rev)
             PROVE  Written(s, t, p, type, qty, ref, rev)
  OBVIOUS
<1> DEFINE m == [type |-> type, product |-> p, ref |-> ref, qty |-> qty,
                 key |-> key, reversalOf |-> rev,
                 before |-> [current  |-> s.current[p],
                             reserved |-> s.reserved[p]],
                 after  |-> [current |-> c, reserved |-> r]]
           kits == Dependents(p)
           version == [x \in Stocked |-> IF x = p \/ x \in kits
                                         THEN s.version[x] + 1
                                         ELSE s.version[x]]
           announced == IF c - r # Available(s, p) THEN kits \cup {p} ELSE kits
           u == [s EXCEPT !.current[p] = c, !.reserved[p] = r,
                          !.version = version, !.moves = Append(s.moves, m)]
           es == {[product |-> x, version |-> u.version[x],
                   available |-> IF x = p THEN c - r ELSE MaxKits(u, x)]
                    : x \in announced}
<1>1. t = [u EXCEPT !.events = s.events \cup es]
  BY DEF Persist
<1>2. /\ s.current \in [Products -> Nat] /\ s.reserved \in [Products -> Nat]
      /\ s.moves \in Seq(Movement)
  BY DEF State
<1>3. m \in Movement
  BY <1>2 DEF Movement, Balance
<1>4. /\ u.current = [s.current EXCEPT ![p] = c]
      /\ u.reserved = [s.reserved EXCEPT ![p] = r]
      /\ u.version = version /\ u.moves = Append(s.moves, m)
      /\ u.resv = s.resv /\ u.events = s.events
  BY DEF State
<1>5. Moved(s, t, p, type, c, r, ref)
  BY PersistRows
<1> HIDE DEF u, es
<1>6. /\ t \in State /\ t.resv = s.resv
      /\ t.current = [s.current EXCEPT ![p] = c]
      /\ t.reserved = [s.reserved EXCEPT ![p] = r]
  BY <1>5 DEF Moved
<1>7. /\ t.version = version /\ t.moves = Append(s.moves, m)
      /\ t.events = s.events \cup es
      /\ t.current = u.current /\ t.reserved = u.reserved
  <2>1. DOMAIN u = {"current", "reserved", "version", "resv", "moves", "events"}
    BY DEF u, State
  <2>2. QED
    BY <1>1, <1>4, <1>6, <2>1
<1>8. \A x : Available(t, x) = Available(u, x) /\ MaxKits(t, x) = MaxKits(u, x)
  BY <1>7 DEF Available, MaxKits
<1>9. /\ Available(t, p) = c - r
      /\ \A q \in Products \ {p} : Available(t, q) = Available(s, q)
  BY <1>2, <1>6 DEF Available
<1>10. Announced(s, t, p)
  <2>1. \A x \in announced :
          Now(t, x) = IF x = p THEN c - r ELSE MaxKits(u, x)
    BY <1>8, <1>9, KitsAssumption DEF Now, Dependents
  <2>2. u.version = t.version
    BY <1>4, <1>7
  <2>3. es = {[product |-> x, version |-> t.version[x], available |-> Now(t, x)]
                : x \in announced}
    BY <2>1, <2>2 DEF es
  <2>4. QED
    BY <1>7, <1>9, <2>3 DEF Announced
<1>11. (\A x \in Stocked : NewsRight(s, x)) => \A x \in Stocked : NewsRight(t, x)
  BY <1>6, <1>9, <1>10, NewsKept
<1>12. /\ m.type = type /\ m.product = p /\ m.ref = ref
       /\ m.qty = qty /\ m.reversalOf = rev
  OBVIOUS
<1>13. m.before = Row(s, m.product) /\ m.after = Row(t, m.product)
  BY <1>2, <1>6 DEF Row
<1>14. \A q \in Products \ {m.product} : Row(t, q) = Row(s, q)
  BY <1>2, <1>6 DEF Row
<1> HIDE DEF m
<1>15. (\A x \in Products : Chained(s, x)) => \A x \in Products : Chained(t, x)
  BY <1>3, <1>6, <1>7, <1>13, <1>14, ChainKept
<1>16. QED
  BY <1>3, <1>6, <1>7, <1>11, <1>12, <1>15 DEF Written

-----------------------------------------------------------------------------
(* What a write keeps.                                                     *)

\* Writing a reservation says nothing of balances.
LEMMA ResvKeepsNews ==
  ASSUME NEW s \in State, NEW t \in State,
         t.current = s.current, t.reserved = s.reserved,
         t.version = s.version, t.events = s.events,
         \A x \in Stocked : NewsRight(s, x)
  PROVE  \A x \in Stocked : NewsRight(t, x)
<1> SUFFICES ASSUME NEW x \in Stocked
             PROVE  NewsRight(t, x)
  OBVIOUS
<1>1. \A p : Available(t, p) = Available(s, p)
  BY DEF Available
<1>2. Now(t, x) = Now(s, x)
  BY <1>1, NowFrom
<1>3. EventsOf(t, x) = EventsOf(s, x)
  BY DEF EventsOf
<1>4. NewsRight(s, x)
  OBVIOUS
<1>5. QED
  BY <1>2, <1>3, <1>4 DEF NewsRight

LEMMA ResvKeepsChain ==
  ASSUME NEW s, NEW t, NEW p, Chained(s, p),
         t.current = s.current, t.reserved = s.reserved, t.moves = s.moves
  PROVE  Chained(t, p)
<1>1. \A n, balance : Leave(t, p, n, balance) <=> Leave(s, p, n, balance)
  BY DEF Leave
<1>2. Row(t, p) = Row(s, p)
  BY DEF Row
<1>3. QED
  BY <1>1, <1>2 DEF Chained

\* t is s with the reservation of l written.
Booked(s, t, l, status, q) ==
  /\ t \in State
  /\ t.resv[l].status = status /\ t.resv[l].qty = q
  /\ \A o \in Lines \ {l} : t.resv[o] = s.resv[o]
  /\ t.current = s.current /\ t.reserved = s.reserved
  /\ t.version = s.version /\ t.events = s.events /\ t.moves = s.moves

LEMMA SetResvRows ==
  ASSUME NEW s \in State, NEW l \in Lines, NEW status \in Statuses, NEW q \in Nat
  PROVE  Booked(s, SetResv(s, l, status, q), l, status, q)
<1> SUFFICES ASSUME NEW t, t = SetResv(s, l, status, q)
             PROVE  Booked(s, t, l, status, q)
  OBVIOUS
<1>1. /\ t.resv = [s.resv EXCEPT ![l] = [status |-> status, qty |-> q]]
      /\ t.current = s.current /\ t.reserved = s.reserved
      /\ t.version = s.version /\ t.events = s.events /\ t.moves = s.moves
      /\ t \in State
  BY DEF SetResv, State
<1>2. s.resv \in [Lines -> [status : Statuses, qty : Nat]]
  BY DEF State
<1>3. QED
  BY <1>1, <1>2 DEF Booked

\* A movement that is no sale and touches no reservation.
LEMMA MoveBooks ==
  ASSUME NEW s \in State, Books(s), NEW p \in Products, NEW type \in MoveTypes,
         type # "SALE_COMPLETED", NEW qty \in Nat, NEW c \in Nat, NEW r \in Nat,
         NEW ref \in Refs \cup {NoRef}, NEW key \in Keys \cup {NoKey},
         NEW rev \in Nat, ReturnFits(s, p, qty, rev)
  PROVE  Books(Persist(s, p, type, qty, c, r, ref, key, rev))
<1> SUFFICES ASSUME NEW t, t = Persist(s, p, type, qty, c, r, ref, key, rev)
             PROVE  Books(t)
  OBVIOUS
<1>0. Written(s, t, p, type, qty, ref, rev)
  BY PersistBooks
<1>1. /\ t \in State /\ t.resv = s.resv
      /\ \A x \in Stocked : NewsRight(t, x)
      /\ \A x \in Products : Chained(t, x)
  BY <1>0 DEF Books, Written
<1>2. PICK m \in Movement : /\ t.moves = Append(s.moves, m)
                            /\ m.type = type /\ m.product = p
                            /\ m.qty = qty /\ m.reversalOf = rev
  BY <1>0 DEF Written
<1>3. \A i \in DOMAIN t.moves : ReturnRight(t, i)
  BY <1>1, <1>2, ReturnsKept DEF Books
<1>4. ASSUME NEW l \in Lines
      PROVE  Told(t, l)
  <2>1. Told(s, l) /\ ~IsSaleOf(m, l) /\ t.resv[l] = s.resv[l]
    BY <1>1, <1>2 DEF Books, IsSaleOf
  <2>2. QED
    BY <1>1, <1>2, <2>1, OthersTold
<1>5. QED
  BY <1>1, <1>3, <1>4 DEF Books

\* What the reservation of the line l may become, given its movement.
LineFits(s, l, type, qty, rev, status, q) ==
  \/ /\ status = "ACTIVE" /\ type # "SALE_COMPLETED"
     /\ s.resv[l].status \in {"NONE", "ACTIVE"}
  \/ /\ status = "COMPLETED" /\ type = "SALE_COMPLETED" /\ qty = q
     /\ s.resv[l].status = "ACTIVE"
  \/ /\ status = "CANCELED" /\ type # "SALE_COMPLETED"
     /\ \/ s.resv[l].status = "ACTIVE"
        \/ s.resv[l].status = "COMPLETED" /\ rev \in SalesOf(s, l)

\* A movement together with the reservation it is about.
LEMMA LineBooks ==
  ASSUME NEW s \in State, Books(s), NEW l \in Lines, NEW type \in MoveTypes,
         NEW qty \in Nat, NEW c \in Nat, NEW r \in Nat,
         NEW key \in Keys \cup {NoKey}, NEW rev \in Nat,
         NEW status \in Statuses, NEW q \in Nat,
         ReturnFits(s, l[1], qty, rev),
         LineFits(s, l, type, qty, rev, status, q)
  PROVE  Books(SetResv(Persist(s, l[1], type, qty, c, r, l[2], key, rev),
                       l, status, q))
<1> SUFFICES ASSUME NEW u, u = Persist(s, l[1], type, qty, c, r, l[2], key, rev),
                    NEW t, t = SetResv(u, l, status, q)
             PROVE  Books(t)
  OBVIOUS
<1> DEFINE n == Len(s.moves) + 1
<1>1. l[1] \in Products /\ l[2] \in Refs \cup {NoRef} /\ l = <<l[1], l[2]>>
  BY DEF Lines
<1>0. Written(s, u, l[1], type, qty, l[2], rev)
  BY <1>1, PersistBooks
<1>2. /\ u \in State /\ u.resv = s.resv
      /\ \A x \in Stocked : NewsRight(u, x)
      /\ \A x \in Products : Chained(u, x)
  BY <1>0 DEF Books, Written
<1>2a. Booked(u, t, l, status, q)
  BY <1>2, SetResvRows
<1>3. /\ t \in State
      /\ t.resv[l].status = status /\ t.resv[l].qty = q
      /\ \A o \in Lines \ {l} : t.resv[o] = u.resv[o]
      /\ t.current = u.current /\ t.reserved = u.reserved
      /\ t.version = u.version /\ t.events = u.events /\ t.moves = u.moves
  BY <1>2a DEF Booked
<1>4. PICK m \in Movement :
        /\ t.moves = Append(s.moves, m)
        /\ m.type = type /\ m.product = l[1] /\ m.ref = l[2]
        /\ m.qty = qty /\ m.reversalOf = rev
  BY <1>0, <1>3 DEF Written
<1>5. \A x \in Stocked : NewsRight(t, x)
  BY <1>2, <1>3, ResvKeepsNews DEF Books
<1>6. \A i \in DOMAIN t.moves : ReturnRight(t, i)
  BY <1>3, <1>4, ReturnsKept DEF Books
<1>7. ASSUME NEW o \in Lines \ {l}
      PROVE  Told(t, o)
  <2>1. o = <<o[1], o[2]>>
    BY DEF Lines
  <2>2. ~IsSaleOf(m, o)
    BY <1>1, <1>4, <2>1 DEF IsSaleOf
  <2>3. Told(s, o) /\ t.resv[o] = s.resv[o]
    BY <1>2, <1>3 DEF Books
  <2>4. QED
    BY <1>3, <1>4, <2>2, <2>3, OthersTold
<1>8. Told(t, l)
  <2>0. Longer(s, t, m, n)
    BY <1>3, <1>4, OneMore
  <2> HIDE DEF n
  <2>1. /\ DOMAIN t.moves = DOMAIN s.moves \cup {n}
        /\ t.moves[n] = m
        /\ \A o : SalesOf(t, o) = SalesOf(s, o)
                    \cup (IF IsSaleOf(m, o) THEN {n} ELSE {})
        /\ Returned(t) = Returned(s) \cup {m.reversalOf}
    BY <2>0 DEF Longer
  <2>2. IsSaleOf(m, l) <=> type = "SALE_COMPLETED"
    BY <1>4 DEF IsSaleOf
  <2>3. Told(s, l)
    BY DEF Books
  <2>4. CASE status = "ACTIVE"
    <3>1. SalesOf(t, l) = {}
      BY <2>1, <2>2, <2>3, <2>4 DEF LineFits, Told
    <3>2. QED
      BY <1>3, <2>4, <3>1 DEF Told
  <2>5. CASE status = "COMPLETED"
    <3>1. SalesOf(t, l) = {n} /\ qty = q
      BY <2>1, <2>2, <2>3, <2>5 DEF LineFits, Told
    <3>2. n \in DOMAIN t.moves /\ t.moves[n].qty = q
      BY <1>4, <2>1, <3>1
    <3>3. \E i \in DOMAIN t.moves : /\ SalesOf(t, l) = {i}
                                   /\ t.moves[i].qty = t.resv[l].qty
      BY <1>3, <3>1, <3>2
    <3>4. /\ t.resv[l].status # "CANCELED"
          /\ t.resv[l].status \notin {"NONE", "ACTIVE"}
      BY <1>3, <2>5
    <3>5. QED
      BY <3>3, <3>4, Zenon DEF Told
  <2>6. CASE status = "CANCELED"
    <3>0. ~IsSaleOf(m, l)
      BY <2>2, <2>6 DEF LineFits
    <3>1. SalesOf(t, l) = SalesOf(s, l)
      <4>1. SalesOf(t, l) = SalesOf(s, l) \cup {}
        BY <2>1, <3>0
      <4>2. QED
        BY <4>1
    <3>2. Returned(t) = Returned(s) \cup {rev}
      BY <1>4, <2>1
    <3>3. CASE s.resv[l].status = "ACTIVE"
      <4>1. SalesOf(s, l) = {}
        BY <2>3, <3>3 DEF Told
      <4>2. QED
        BY <1>3, <2>6, <3>1, <4>1 DEF Told
    <3>4. CASE s.resv[l].status = "COMPLETED" /\ rev \in SalesOf(s, l)
      <4>1. SalesOf(s, l) = {rev}
        BY <2>3, <3>4 DEF Told
      <4>2. SalesOf(t, l) \subseteq Returned(t)
        BY <3>1, <3>2, <4>1
      <4>3. QED
        BY <1>3, <2>6, <4>2 DEF Told
    <3>5. QED
      BY <2>6, <3>3, <3>4 DEF LineFits
  <2>7. QED
    BY <2>4, <2>5, <2>6 DEF LineFits
<1>9. \A x \in Products : Chained(t, x)
  BY <1>2, <1>3, ResvKeepsChain
<1>10. QED
  BY <1>5, <1>6, <1>7, <1>8, <1>9 DEF Books

\* A reservation written alone: it keeps its units, or its sale was returned.
LEMMA ResvBooks ==
  ASSUME NEW s \in State, Books(s), NEW l \in Lines,
         NEW status \in Statuses, NEW q \in Nat,
         \/ status = "ACTIVE" /\ s.resv[l].status \in {"NONE", "ACTIVE"}
         \/ /\ status = "CANCELED" /\ s.resv[l].status = "COMPLETED"
            /\ \E i \in SalesOf(s, l) : ReversalsOf(s, i) # {}
  PROVE  Books(SetResv(s, l, status, q))
<1> SUFFICES ASSUME NEW t, t = SetResv(s, l, status, q)
             PROVE  Books(t)
  OBVIOUS
<1>0. Booked(s, t, l, status, q)
  BY SetResvRows
<1>1. /\ t \in State
      /\ t.resv[l].status = status /\ t.resv[l].qty = q
      /\ \A o \in Lines \ {l} : t.resv[o] = s.resv[o]
      /\ t.current = s.current /\ t.reserved = s.reserved
      /\ t.version = s.version /\ t.events = s.events /\ t.moves = s.moves
  BY <1>0 DEF Booked
<1>2. \A x \in Stocked : NewsRight(t, x)
  BY <1>1, ResvKeepsNews DEF Books
<1>3. \A i \in DOMAIN t.moves : ReturnRight(t, i)
  BY <1>1 DEF Books, ReturnRight
<1>4. Returned(t) = Returned(s) /\ \A o : SalesOf(t, o) = SalesOf(s, o)
  BY <1>1 DEF Returned, SalesOf
<1>5. \A o \in Lines \ {l} : Told(t, o)
  BY <1>1, <1>4 DEF Books, Told
<1>6. Told(t, l)
  <2>1. Told(s, l)
    BY DEF Books
  <2>2. CASE status = "ACTIVE"
    BY <1>1, <1>4, <2>1, <2>2 DEF Told
  <2>3. CASE status = "CANCELED" /\ s.resv[l].status = "COMPLETED"
    <3>1. PICK i \in SalesOf(s, l) : ReversalsOf(s, i) # {}
      BY <2>3
    <3>2. SalesOf(s, l) = {i}
      BY <2>1, <2>3, <3>1 DEF Told
    <3>3. i \in Returned(s)
      BY <3>1 DEF ReversalsOf, Returned
    <3>4. QED
      BY <1>1, <1>4, <2>3, <3>2, <3>3 DEF Told
  <2>4. QED
    BY <2>2, <2>3
<1>7. \A x \in Products : Chained(t, x)
  BY <1>1, ResvKeepsChain DEF Books
<1>8. QED
  BY <1>2, <1>3, <1>5, <1>6, <1>7 DEF Books

\* No movement, no reservation, no event.
LEMMA EmptyBooks == Books(Empty)
<1>1. /\ Empty.moves = <<>> /\ Empty.events = {}
      /\ \A l \in Lines : Empty.resv[l].status = "NONE"
      /\ \A p \in Products : Empty.current[p] = 0 /\ Empty.reserved[p] = 0
      /\ \A x \in Stocked : Empty.version[x] \in Nat
  BY DEF Empty
<1>2. DOMAIN <<>> = {}
  OBVIOUS
<1>3. \A l \in Lines : Told(Empty, l)
  BY <1>1, <1>2 DEF Told, SalesOf
<1>4. \A p \in Products : Available(Empty, p) = 0
  BY <1>1 DEF Available
<1>5. ASSUME NEW k \in Kits
      PROVE  MaxKits(Empty, k) = 0
  <2> DEFINE Q    == {q \in Products : Composition[k][q] > 0}
             A(p) == IF Available(Empty, p) > 0 THEN Available(Empty, p) ELSE 0
             T    == {A(p) \div Composition[k][p] : p \in Q}
  <2>1. Q # {}
    BY KitsAssumption
  <2>2. ASSUME NEW p \in Q PROVE A(p) \div Composition[k][p] = 0
    <3>1. Composition[k][p] \in Nat /\ Composition[k][p] > 0
      BY KitsAssumption
    <3>2. A(p) = 0
      BY <1>4
    <3> HIDE DEF A
    <3>3. QED
      BY <3>1, <3>2
  <2>3. T = {0}
    BY <2>1, <2>2
  <2>4. MaxKits(Empty, k) = Min(T)
    BY DEF MaxKits
  <2> HIDE DEF T
  <2>5. Min({0}) = 0
    BY DEF Min
  <2>6. QED
    BY <2>3, <2>4, <2>5
<1>6. \A x \in Stocked : Now(Empty, x) = 0
  BY <1>4, <1>5 DEF Now, Stocked
<1>7. \A x \in Stocked : NewsRight(Empty, x)
  BY <1>1, <1>6 DEF NewsRight, EventsOf
<1>8. ASSUME NEW p \in Products
      PROVE  Chained(Empty, p)
  <2>1. Row(Empty, p) = [current |-> 0, reserved |-> 0] /\ Len(<<>>) = 0
    BY <1>1 DEF Row
  <2>2. Leave(Empty, p, 0, Row(Empty, p))
    BY <2>1 DEF Leave
  <2>3. QED
    BY <1>1, <1>2, <2>1, <2>2 DEF Chained
<1>9. QED
  BY <1>1, <1>2, <1>3, <1>7, <1>8 DEF Books

-----------------------------------------------------------------------------
(* The books through every operation.                                      *)

BooksRight == Books(db) /\ Books(work)

\* A movement that returns nothing always fits.
LEMMA NothingReturned ==
  ASSUME NEW s, NEW p, NEW qty
  PROVE  ReturnFits(s, p, qty, 0)
BY DEF ReturnFits

\* Entries, exits, adjustments and reversals.
LEMMA MovesKeepBooks ==
  ASSUME IInv, Books(db), NEW k \in Keys,
         \/ \E p \in Products, q \in 1..MaxQty : Entry(k, p, q) \/ Exit(k, p, q)
         \/ \E p \in Products, q \in 0..MaxQty : Adjust(k, p, q)
         \/ \E i \in DOMAIN db.moves : ReverseSale(k, i)
  PROVE  Books(db') /\ work' = work
<1>1. /\ db \in State /\ db.current \in [Products -> Nat]
      /\ db.reserved \in [Products -> Nat] /\ db.moves \in Seq(Movement)
  BY DEF IInv, RightRows, State
<1>2. NoRef \in Refs \cup {NoRef} /\ k \in Keys \cup {NoKey} /\ 0 \in Nat
  OBVIOUS
<1>3. {"ENTRY", "EXIT", "ADJUSTMENT_INCREASE", "ADJUSTMENT_DECREASE",
       "SALE_CANCELED_REVERSAL"} \subseteq MoveTypes \ {"SALE_COMPLETED"}
  BY DEF MoveTypes
<1>4. ASSUME NEW p \in Products, NEW q \in 1..MaxQty, Entry(k, p, q)
      PROVE  Books(db') /\ work' = work
  <2> DEFINE c == db.current[p] + q
  <2>1. c \in Nat /\ q \in Nat /\ db.reserved[p] \in Nat
    BY <1>1, BoundsAssumption
  <2>2. /\ db' = Persist(db, p, "ENTRY", q, c, db.reserved[p], NoRef, k, 0)
        /\ work' = work
    BY <1>4 DEF Entry
  <2> HIDE DEF c
  <2>3. QED
    BY <1>1, <1>2, <1>3, <2>1, <2>2, NothingReturned, MoveBooks
<1>5. ASSUME NEW p \in Products, NEW q \in 1..MaxQty, Exit(k, p, q)
      PROVE  Books(db') /\ work' = work
  <2> DEFINE c == db.current[p] - q
  <2>1. c \in Int /\ q \in Nat /\ db.reserved[p] \in Nat
    BY <1>1, BoundsAssumption
  <2>2. /\ db' = Persist(db, p, "EXIT", q, c, db.reserved[p], NoRef, k, 0)
        /\ work' = work /\ Legal(c, db.reserved[p])
    BY <1>5 DEF Exit
  <2> HIDE DEF c
  <2>3. c \in Nat
    BY <2>1, <2>2 DEF Legal
  <2>4. QED
    BY <1>1, <1>2, <1>3, <2>1, <2>2, <2>3, NothingReturned, MoveBooks
<1>6. ASSUME NEW p \in Products, NEW q \in 0..MaxQty, Adjust(k, p, q)
      PROVE  Books(db') /\ work' = work
  <2> DEFINE up   == q > db.current[p]
             type == IF up THEN "ADJUSTMENT_INCREASE" ELSE "ADJUSTMENT_DECREASE"
             diff == IF up THEN q - db.current[p] ELSE db.current[p] - q
  <2>1. q \in Nat /\ diff \in Nat /\ db.reserved[p] \in Nat
    BY <1>1, BoundsAssumption
  <2>2. type \in MoveTypes /\ type # "SALE_COMPLETED"
    BY <1>3
  <2>3. /\ db' = Persist(db, p, type, diff, q, db.reserved[p], NoRef, k, 0)
        /\ work' = work
    BY <1>6 DEF Adjust
  <2> HIDE DEF type, diff
  <2>4. QED
    BY <1>1, <1>2, <2>1, <2>2, <2>3, NothingReturned, MoveBooks
<1>7. ASSUME NEW i \in DOMAIN db.moves, ReverseSale(k, i)
      PROVE  Books(db') /\ work' = work
  <2> DEFINE m == db.moves[i]
             c == db.current[m.product] + m.qty
  <2>1. m \in Movement /\ i \in Nat
    BY <1>1
  <2>2. /\ db' = Persist(db, m.product, "SALE_CANCELED_REVERSAL", m.qty, c,
                         db.reserved[m.product], m.ref, k, i)
        /\ work' = work
    BY <1>7 DEF ReverseSale
  <2>3. ReturnFits(db, m.product, m.qty, i)
    BY <1>7 DEF ReverseSale, ReturnFits
  <2> HIDE DEF m
  <2>4. m.product \in Products /\ m.qty \in Nat /\ m.ref \in Refs \cup {NoRef}
    BY <2>1 DEF Movement
  <2>5. c \in Nat /\ db.reserved[m.product] \in Nat
    BY <1>1, <2>4
  <2> HIDE DEF c
  <2>6. QED
    BY <1>1, <1>2, <1>3, <2>1, <2>2, <2>3, <2>4, <2>5, MoveBooks
<1>8. QED
  BY <1>4, <1>5, <1>6, <1>7

\* Manual reservations.
LEMMA ReservationsKeepBooks ==
  ASSUME IInv, Books(db), NEW k \in Keys, NEW l \in Lines,
         \/ \E q \in 1..MaxQty : CreateReservation(k, l, q)
         \/ \E complete \in BOOLEAN : ProcessReservation(k, l, complete)
  PROVE  Books(db') /\ work' = work
<1>1. db \in State /\ l[1] \in Products
  BY DEF IInv, RightRows, Lines
<1>2. /\ db.current[l[1]] \in Nat /\ db.reserved[l[1]] \in Nat
      /\ db.resv[l].qty \in Nat
  BY <1>1 DEF State
<1>3. k \in Keys \cup {NoKey} /\ 0 \in Nat
  OBVIOUS
<1>4. /\ {"RESERVATION", "RESERVATION_CANCELED", "SALE_COMPLETED"} \subseteq MoveTypes
      /\ {"ACTIVE", "COMPLETED", "CANCELED"} \subseteq Statuses
  BY DEF MoveTypes, Statuses
<1>5. ASSUME NEW q \in 1..MaxQty, CreateReservation(k, l, q)
      PROVE  Books(db') /\ work' = work
  <2> DEFINE r == db.reserved[l[1]] + q
  <2>1. q \in Nat /\ r \in Nat
    BY <1>2, BoundsAssumption
  <2>2. /\ db' = SetResv(Persist(db, l[1], "RESERVATION", q, db.current[l[1]], r,
                                 l[2], k, 0), l, "ACTIVE", q)
        /\ work' = work /\ db.resv[l].status = "NONE"
    BY <1>5 DEF CreateReservation
  <2>3. LineFits(db, l, "RESERVATION", q, 0, "ACTIVE", q)
    BY <2>2 DEF LineFits
  <2> HIDE DEF r
  <2>4. QED
    BY <1>1, <1>2, <1>3, <1>4, <2>1, <2>2, <2>3, NothingReturned, LineBooks
<1>6. ASSUME NEW complete \in BOOLEAN, ProcessReservation(k, l, complete)
      PROVE  Books(db') /\ work' = work
  <2> DEFINE q      == db.resv[l].qty
             c      == IF complete THEN db.current[l[1]] - q ELSE db.current[l[1]]
             r      == db.reserved[l[1]] - q
             type   == IF complete THEN "SALE_COMPLETED" ELSE "RESERVATION_CANCELED"
             status == IF complete THEN "COMPLETED" ELSE "CANCELED"
  <2>1. q \in Nat /\ c \in Int /\ r \in Int
    BY <1>2
  <2>2. type \in MoveTypes /\ status \in Statuses
    BY <1>4
  <2>3. /\ db' = SetResv(Persist(db, l[1], type, q, c, r, l[2], k, 0), l, status, q)
        /\ work' = work /\ Legal(c, r) /\ db.resv[l].status = "ACTIVE"
    BY <1>6 DEF ProcessReservation, Live
  <2>4. LineFits(db, l, type, q, 0, status, q)
    BY <2>3 DEF LineFits
  <2> HIDE DEF q, c, r, type, status
  <2>5. c \in Nat /\ r \in Nat
    BY <2>1, <2>3 DEF Legal
  <2>6. QED
    BY <1>1, <1>3, <2>1, <2>2, <2>3, <2>4, <2>5, NothingReturned, LineBooks
<1>7. QED
  BY <1>5, <1>6

\* The lines of the transactions of an order.
LEMMA LinesKeepBooks ==
  ASSUME IInv, Books(work), NEW l \in Lines,
         \/ SkipLine(l) \/ ReserveLine(l) \/ CompleteLine(l)
         \/ CancelActiveLine(l) \/ CancelSoldLine(l)
  PROVE  Books(work') /\ db' = db
<1>1. work \in State /\ l[1] \in Products
  BY DEF IInv, RightRows, Lines
<1>2. /\ work.current[l[1]] \in Nat /\ work.reserved[l[1]] \in Nat
      /\ work.resv[l].qty \in Nat /\ work.moves \in Seq(Movement)
  BY <1>1 DEF State
<1>3. NoKey \in Keys \cup {NoKey} /\ 0 \in Nat
  OBVIOUS
<1>4. /\ {"RESERVATION", "RESERVATION_CANCELED", "SALE_COMPLETED",
          "SALE_CANCELED_REVERSAL"} \subseteq MoveTypes
      /\ {"ACTIVE", "COMPLETED", "CANCELED"} \subseteq Statuses
  BY DEF MoveTypes, Statuses
<1>5. CASE SkipLine(l)
  BY <1>5 DEF SkipLine, Done
<1>6. CASE ReserveLine(l)
  <2> DEFINE q     == want[l]
             delta == want[l] - HeldQty(work, l)
             r     == work.reserved[l[1]] + delta
             type  == IF delta > 0 THEN "RESERVATION" ELSE "RESERVATION_CANCELED"
             size  == IF delta > 0 THEN delta ELSE -delta
             next  == SetResv(IF delta = 0 THEN work
                              ELSE Persist(work, l[1], type, size,
                                     work.current[l[1]], r, l[2], NoKey, 0),
                              l, "ACTIVE", q)
  <2>1. l \in OrderLines
    BY <1>6 DEF ReserveLine, Turn, IInv, TypeOK
  <2>2. q \in Nat
    BY <2>1 DEF IInv, TypeOK
  <2>3. HeldQty(work, l) \in Nat
    BY <1>2 DEF HeldQty
  <2>4. /\ delta \in Int /\ r \in Int /\ size \in Nat
        /\ type \in MoveTypes /\ type # "SALE_COMPLETED"
    BY SMTT(30), <1>2, <1>4, <2>2, <2>3
  <2>5. work.resv[l].status \in {"NONE", "ACTIVE"}
    BY <1>6 DEF ReserveLine, Reservable
  <2>6. /\ work' = next /\ db' = db
        /\ delta # 0 => Legal(work.current[l[1]], r)
    BY <1>6 DEF ReserveLine, Done
  <2>7. LineFits(work, l, type, size, 0, "ACTIVE", q)
    BY <2>4, <2>5 DEF LineFits
  <2> HIDE DEF q, delta, r, type, size
  <2>8. CASE delta = 0
    <3>1. next = SetResv(work, l, "ACTIVE", q)
      BY <2>8
    <3> HIDE DEF next
    <3>2. QED
      BY <1>1, <1>4, <2>2, <2>5, <2>6, <3>1, ResvBooks
  <2>9. CASE delta # 0
    <3>1. next = SetResv(Persist(work, l[1], type, size, work.current[l[1]], r,
                                 l[2], NoKey, 0), l, "ACTIVE", q)
      BY <2>9
    <3>2. r \in Nat
      BY <2>4, <2>6, <2>9 DEF Legal
    <3> HIDE DEF next
    <3>3. QED
      BY <1>1, <1>2, <1>3, <1>4, <2>2, <2>4, <2>6, <2>7, <3>1, <3>2,
         NothingReturned, LineBooks
  <2>10. QED
    BY <2>8, <2>9
<1>7. CASE CompleteLine(l)
  <2> DEFINE q == work.resv[l].qty
             c == work.current[l[1]] - q
             r == work.reserved[l[1]] - q
  <2>1. q \in Nat /\ c \in Int /\ r \in Int
    BY <1>2
  <2>2. /\ work' = SetResv(Persist(work, l[1], "SALE_COMPLETED", q, c, r, l[2],
                                   NoKey, 0), l, "COMPLETED", q)
        /\ db' = db /\ Legal(c, r) /\ work.resv[l].status = "ACTIVE"
    BY <1>7 DEF CompleteLine, Live, Done
  <2>3. LineFits(work, l, "SALE_COMPLETED", q, 0, "COMPLETED", q)
    BY <2>2 DEF LineFits
  <2> HIDE DEF q, c, r
  <2>4. c \in Nat /\ r \in Nat
    BY <2>1, <2>2 DEF Legal
  <2>5. QED
    BY <1>1, <1>3, <1>4, <2>1, <2>2, <2>3, <2>4, NothingReturned, LineBooks
<1>8. CASE CancelActiveLine(l)
  <2> DEFINE q == work.resv[l].qty
             r == work.reserved[l[1]] - q
  <2>1. q \in Nat /\ r \in Int
    BY <1>2
  <2>2. /\ work' = SetResv(Persist(work, l[1], "RESERVATION_CANCELED", q,
                                   work.current[l[1]], r, l[2], NoKey, 0),
                           l, "CANCELED", q)
        /\ db' = db /\ Legal(work.current[l[1]], r)
        /\ work.resv[l].status = "ACTIVE"
    BY <1>8 DEF CancelActiveLine, Live, Done
  <2>3. LineFits(work, l, "RESERVATION_CANCELED", q, 0, "CANCELED", q)
    BY <2>2 DEF LineFits
  <2> HIDE DEF q, r
  <2>4. r \in Nat
    BY <2>1, <2>2 DEF Legal
  <2>5. QED
    BY <1>1, <1>2, <1>3, <1>4, <2>1, <2>2, <2>3, <2>4, NothingReturned, LineBooks
<1>9. CASE CancelSoldLine(l)
  <2> DEFINE left == work.resv[l].qty
  <2>1. PICK i \in SalesOf(work, l) :
          LET q == work.moves[i].qty
              c == work.current[l[1]] + q
              s == IF ReversalsOf(work, i) # {} THEN work
                   ELSE Persist(work, l[1], "SALE_CANCELED_REVERSAL", q, c,
                                work.reserved[l[1]], l[2], NoKey, i)
          IN Done(l, SetResv(s, l, "CANCELED", left))
    BY <1>9 DEF CancelSoldLine
  <2>2. work.resv[l].status = "COMPLETED" /\ left \in Nat
    BY <1>2, <1>9 DEF CancelSoldLine
  <2> DEFINE q == work.moves[i].qty
             c == work.current[l[1]] + q
  <2>3. work.moves[i] \in Movement /\ i \in Nat
    BY <1>2 DEF SalesOf
  <2>4. q \in Nat
    BY <2>3 DEF Movement
  <2>5. CASE ReversalsOf(work, i) # {}
    <3>1. work' = SetResv(work, l, "CANCELED", left) /\ db' = db
      BY <2>1, <2>5 DEF Done
    <3> HIDE DEF left
    <3>2. QED
      BY <1>1, <1>4, <2>2, <2>5, <3>1, ResvBooks
  <2>6. CASE ReversalsOf(work, i) = {}
    <3>1. /\ work' = SetResv(Persist(work, l[1], "SALE_CANCELED_REVERSAL", q, c,
                                     work.reserved[l[1]], l[2], NoKey, i),
                             l, "CANCELED", left)
          /\ db' = db
      BY <2>1, <2>6 DEF Done
    <3>2. ReturnFits(work, l[1], q, i)
      BY <2>6 DEF ReturnFits, SalesOf
    <3>3. LineFits(work, l, "SALE_CANCELED_REVERSAL", q, i, "CANCELED", left)
      BY <2>2 DEF LineFits
    <3> HIDE DEF q, left
    <3>4. c \in Nat
      BY <1>2, <2>4
    <3> HIDE DEF c
    <3>5. QED
      BY <1>1, <1>2, <1>3, <1>4, <2>2, <2>3, <2>4, <3>1, <3>2, <3>3, <3>4, LineBooks
  <2>7. QED
    BY <2>5, <2>6
<1>10. QED
  BY <1>5, <1>6, <1>7, <1>8, <1>9

\* Every step keeps the books.
LEMMA NextKeepsBooks ==
  IInv /\ BooksRight /\ [Next]_vars => BooksRight'
<1> SUFFICES ASSUME IInv, BooksRight, [Next]_vars
             PROVE  Books(db') /\ Books(work')
  BY DEF BooksRight
<1>1. Books(db) /\ Books(work)
  BY DEF BooksRight
<1>2. CASE KeyedNext
  <2>1. Books(db') /\ work' = work
    BY <1>1, <1>2, MovesKeepBooks, ReservationsKeepBooks DEF KeyedNext
  <2>2. QED
    BY <1>1, <2>1
<1>3. ASSUME NEW l \in Lines,
             \/ SkipLine(l) \/ ReserveLine(l) \/ CompleteLine(l)
             \/ CancelActiveLine(l) \/ CancelSoldLine(l)
      PROVE  Books(db') /\ Books(work')
  <2>1. Books(work') /\ db' = db
    BY <1>1, <1>3, LinesKeepBooks
  <2>2. QED
    BY <1>1, <2>1
<1>4. ASSUME \/ \E w \in [OrderLines -> 0..MaxQty] : BeginReserve(w)
             \/ \E items \in SUBSET OrderItems, kind \in {"complete", "cancel"} :
                  BeginSettle(kind, items)
             \/ \E lines \in SUBSET Lines : BeginRelease(lines)
      PROVE  Books(db') /\ Books(work')
  <2>1. db' = db /\ work' = db
    BY <1>4 DEF BeginReserve, BeginSettle, BeginRelease, Begin
  <2>2. QED
    BY <1>1, <2>1
<1>5. CASE Commit \/ Rollback
  <2>1. db' \in {db, work} /\ work' = Empty
    BY <1>5 DEF Commit, Rollback, Close
  <2>2. QED
    BY <1>1, <2>1, EmptyBooks
<1>6. CASE UNCHANGED vars
  BY <1>1, <1>6 DEF vars
<1>7. QED
  BY <1>2, <1>3, <1>4, <1>5, <1>6 DEF Next, OrderNext

\* The committed books and those of an open transaction are right.
THEOREM BooksStayRight == Spec => []BooksRight
<1>1. Init => BooksRight
  BY EmptyBooks DEF Init, BooksRight
<1>2. QED
  BY RowsStayRight, NextKeepsBooks, <1>1, PTL DEF Spec

-----------------------------------------------------------------------------
(* The theorems.                                                           *)

\* What was sold and returned is what the reservations say, and no sale is
\* returned twice.
THEOREM SalesAreAccounted == Spec => []SalesMatchReservations
<1>1. IInv /\ BooksRight => SoldAsReserved
  <2> SUFFICES ASSUME IInv, BooksRight, NEW l \in Lines
               PROVE  CASE db.resv[l].status = "COMPLETED" ->
                             /\ Cardinality(SalesOf(db, l)) = 1
                             /\ \A i \in SalesOf(db, l) :
                                  db.moves[i].qty = db.resv[l].qty
                        [] db.resv[l].status = "CANCELED" ->
                             SalesOf(db, l) \subseteq Returned(db)
                        [] OTHER -> SalesOf(db, l) = {}
    BY DEF SoldAsReserved, Returned
  <2>1. Told(db, l)
    BY DEF BooksRight, Books
  <2>2. CASE db.resv[l].status = "COMPLETED"
    <3>1. PICK i \in DOMAIN db.moves : /\ SalesOf(db, l) = {i}
                                       /\ db.moves[i].qty = db.resv[l].qty
      BY <2>1, <2>2 DEF Told
    <3>2. Cardinality({i}) = 1
      BY FS_Singleton
    <3>3. QED
      BY <2>2, <3>1, <3>2
  <2>3. CASE db.resv[l].status = "CANCELED"
    BY <2>1, <2>3 DEF Told
  <2>4. CASE db.resv[l].status \in {"NONE", "ACTIVE"}
    BY <2>1, <2>4 DEF Told
  <2>5. db.resv[l].status \in {"NONE", "ACTIVE", "COMPLETED", "CANCELED"}
    BY DEF IInv, RightRows, State, Statuses
  <2>6. QED
    BY <2>2, <2>3, <2>4, <2>5
<1>2. BooksRight => ReturnedAtMostOnce
  BY DEF BooksRight, Books, ReturnRight, ReturnedAtMostOnce
<1>3. QED
  BY RowsStayRight, BooksStayRight, <1>1, <1>2, PTL DEF SalesMatchReservations

\* The movements of a product chain, from nothing to the balance row.
THEOREM LedgerChains == Spec => []LedgerExplainsBalance
<1>1. BooksRight => LedgerExplainsBalance
  BY DEF BooksRight, Books, Chained, Row, LedgerExplainsBalance
<1>2. QED
  BY BooksStayRight, <1>1, PTL

\* The newest outbox event of a product, physical or kit, carries what is
\* available of it now.
THEOREM NewestEventIsTrue == Spec => []NewestEventTellsAvailability
<1>1. BooksRight => NewestEventTellsAvailability
  BY DEF BooksRight, Books, NewsRight, Now, EventsOf, NewestEventTellsAvailability
<1>2. QED
  BY BooksStayRight, <1>1, PTL

=============================================================================
