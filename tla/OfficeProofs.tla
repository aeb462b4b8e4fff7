---------------------------- MODULE OfficeProofs ----------------------------
(***************************************************************************)
(* Theorems about Office, for every set of products, listings, persons,    *)
(* tabs and requests and every bound.  Each part is proved about by itself *)
(* and the others leave it alone; what holds of Fiscal by itself is in     *)
(* FiscalProofs, and of Members in MembersProofs, whose facts about steps  *)
(* are used here.                                                          *)
(***************************************************************************)
EXTENDS Office, FiscalProofs, FiniteSetTheorems, SequenceTheorems, TLAPS

-----------------------------------------------------------------------------
(* Recursion on finite sets, sums and least numbers.                       *)

\* In a set of subsets of a finite set there is one with no other inside it.
LEMMA SmallestSubset ==
  ASSUME NEW S, IsFiniteSet(S), NEW T \in SUBSET (SUBSET S), T # {}
  PROVE  \E x \in T : \A y \in T : y \subseteq x => y = x
<1>1. T \subseteq FiniteSubsetsOf(S)
  BY FS_FiniteSubsetsOfFinite
<1>2. \E x \in T : \A y \in T : ~ (<<y, x>> \in StrictSubsetOrdering(S))
  BY <1>1, FS_StrictSubsetOrderingWellFounded, WFMin
<1>3. QED
  BY <1>2 DEF StrictSubsetOrdering

\* Every set of arguments has one that has none of the others below it.
Founded(S, low) ==
  /\ low \in [S -> SUBSET S]
  /\ \A T \in SUBSET S : T # {} => \E x \in T : low[x] \cap T = {}

\* What F makes of a function and an argument, it makes of what is below.
Looks(S, V, low, F) ==
  /\ F \in [[S -> V] \X S -> V]
  /\ \A x \in S, h \in [S -> V], g \in [S -> V] :
        (\A y \in low[x] : g[y] = h[y]) => F[<<g, x>>] = F[<<h, x>>]

\* F has h as a fixed point.
Solves(S, F, h) == \A x \in S : h[x] = F[<<h, x>>]

\* A function may be defined by what it is on smaller arguments: low has those
\* that F looks at.
LEMMA Recursion ==
  ASSUME NEW S, IsFiniteSet(S), NEW V, V # {}, NEW low, Founded(S, low),
         NEW F, Looks(S, V, low, F)
  PROVE  \E h \in [S -> V] : Solves(S, F, h)
<1> USE DEF Founded, Looks, Solves
<1> DEFINE Good(G, h) ==
             /\ \A x \in G : low[x] \subseteq G /\ h[x] = F[<<h, x>>]
           Rest == {R \in SUBSET S : \E h \in [S -> V] : Good(S \ R, h)}
<1>1. S \in Rest
  <2>1. PICK v \in V : TRUE
    OBVIOUS
  <2>2. [x \in S |-> v] \in [S -> V]
    OBVIOUS
  <2>3. QED
    BY <2>2
<1>2. PICK R \in Rest : \A Q \in Rest : Q \subseteq R => Q = R
  <2>1. Rest \in SUBSET (SUBSET S) /\ Rest # {}
    BY <1>1
  <2> HIDE DEF Rest
  <2>2. QED
    BY <2>1, SmallestSubset
<1>3. PICK h \in [S -> V] : Good(S \ R, h)
  OBVIOUS
<1>4. CASE R # {}
  <2>1. PICK x \in R : low[x] \cap R = {}
    BY <1>4
  <2> DEFINE g == [h EXCEPT ![x] = F[<<h, x>>]]
  <2>2. x \in S /\ g \in [S -> V] /\ low[x] \subseteq S \ R
    BY <2>1
  <2>3. \A y \in S : y # x => g[y] = h[y]
    BY <2>2
  <2>4. g[x] = F[<<h, x>>]
    BY <2>2
  <2>5. \A y \in (S \ R) \cup {x} : low[y] \subseteq S \ R
    BY <1>3, <2>2
  <2> HIDE DEF g
  <2>6. ASSUME NEW y \in (S \ R) \cup {x} PROVE F[<<g, y>>] = F[<<h, y>>]
    <3>1. y \in S /\ low[y] \in SUBSET S
      BY <2>2
    <3>2. \A z \in low[y] : g[z] = h[z]
      BY <2>2, <2>3, <2>5, <3>1
    <3>3. h \in [S -> V] /\ g \in [S -> V]
      BY <2>2
    <3>4. QED
      BY <3>1, <3>2, <3>3
  <2>7. Good(S \ (R \ {x}), g)
    <3>1. S \ (R \ {x}) = (S \ R) \cup {x}
      BY <2>2
    <3>2. ASSUME NEW y \in (S \ R) \cup {x}
          PROVE  low[y] \subseteq (S \ R) \cup {x} /\ g[y] = F[<<g, y>>]
      BY <1>3, <2>2, <2>3, <2>4, <2>5, <2>6
    <3>3. QED
      BY <3>1, <3>2
  <2>8. R \ {x} \in Rest
    BY <2>2, <2>7
  <2> HIDE DEF Rest
  <2>9. QED
    BY <1>2, <2>1, <2>8
<1>5. CASE R = {}
  BY <1>3, <1>5
<1>6. QED
  BY <1>4, <1>5

\* SumFunction is at least each of what it adds up.
LEMMA SumBounds ==
  ASSUME NEW S, IsFiniteSet(S), NEW f \in [S -> Nat]
  PROVE  /\ SumFunction(f) \in Nat
         /\ \A c \in S : f[c] <= SumFunction(f)
<1> DEFINE first(s) == CHOOSE x \in s : TRUE
           body(it, s) == IF s = {} THEN 0 ELSE f[first(s)] + it[s \ {first(s)}]
           iter == CHOOSE it : it = [s \in SUBSET S |-> body(it, s)]
           low == [s \in SUBSET S |-> IF s = {} THEN {} ELSE {s \ {first(s)}}]
           F == [a \in [SUBSET S -> Nat] \X SUBSET S |-> body(a[1], a[2])]
<1>1. SumFunction(f) = iter[S]
  <2>1. DOMAIN f = S
    OBVIOUS
  <2>2. QED
    BY <2>1 DEF SumFunction, SumFunctionOnSet, FoldFunctionOnSet, MapThenFoldSet
<1>2. \A s \in SUBSET S : s # {} => first(s) \in s
  OBVIOUS
<1> HIDE DEF first
<1>3. low \in [SUBSET S -> SUBSET (SUBSET S)]
  BY <1>2
<1>4. \A T \in SUBSET (SUBSET S) : T # {} => \E x \in T : low[x] \cap T = {}
  <2> SUFFICES ASSUME NEW T \in SUBSET (SUBSET S), T # {}
               PROVE  \E x \in T : low[x] \cap T = {}
    OBVIOUS
  <2>1. PICK x \in T : \A y \in T : y \subseteq x => y = x
    BY SmallestSubset
  <2>2. low[x] \cap T = {}
    BY <1>2, <2>1
  <2>3. QED
    BY <2>2
<1>5. F \in [[SUBSET S -> Nat] \X SUBSET S -> Nat]
  <2>1. ASSUME NEW it \in [SUBSET S -> Nat], NEW s \in SUBSET S
        PROVE  body(it, s) \in Nat
    BY <1>2
  <2> HIDE DEF body
  <2>2. QED
    BY <2>1
<1>6. \A s \in SUBSET S, h \in [SUBSET S -> Nat], g \in [SUBSET S -> Nat] :
         (\A y \in low[s] : g[y] = h[y]) => F[<<g, s>>] = F[<<h, s>>]
  OBVIOUS
<1>7. IsFiniteSet(SUBSET S)
  BY FS_SUBSET
<1>8. PICK h \in [SUBSET S -> Nat] : \A s \in SUBSET S : h[s] = F[<<h, s>>]
  <2> HIDE DEF low, F, body
  <2>1. Nat # {}
    OBVIOUS
  <2>2. Founded(SUBSET S, low) /\ Looks(SUBSET S, Nat, low, F)
    BY <1>3, <1>4, <1>5, <1>6 DEF Founded, Looks
  <2>3. \E h \in [SUBSET S -> Nat] : Solves(SUBSET S, F, h)
    BY <1>7, <2>1, <2>2, Recursion
  <2>4. QED
    BY <2>3 DEF Solves
<1>9. h = [s \in SUBSET S |-> body(h, s)]
  BY <1>8
<1>10. iter = [s \in SUBSET S |-> body(iter, s)]
  <2> HIDE DEF body
  <2>1. QED
    BY <1>9
<1> HIDE DEF iter
<1>11. \A s \in SUBSET S : iter[s] = body(iter, s)
  BY <1>10
<1> DEFINE Wrong == {s \in SUBSET S :
             ~(iter[s] \in Nat /\ \A c \in s : f[c] <= iter[s])}
<1>12. CASE Wrong # {}
  <2>1. PICK s \in Wrong : \A y \in Wrong : y \subseteq s => y = s
    <3>1. Wrong \in SUBSET (SUBSET S)
      OBVIOUS
    <3> HIDE DEF Wrong
    <3>2. QED
      BY <1>12, <3>1, SmallestSubset
  <2>2. s # {}
    <3>1. SUFFICES ASSUME s = {} PROVE FALSE
      OBVIOUS
    <3>2. {} \in SUBSET S
      OBVIOUS
    <3>3. iter[{}] = 0
      BY <1>11, <3>2
    <3>4. QED
      BY <3>1, <3>3
  <2>3. first(s) \in s /\ s \ {first(s)} \notin Wrong
    BY <1>2, <2>1, <2>2
  <2>4. iter[s] = f[first(s)] + iter[s \ {first(s)}]
    BY <1>11, <2>2
  <2>5. /\ iter[s \ {first(s)}] \in Nat
        /\ \A c \in s \ {first(s)} : f[c] <= iter[s \ {first(s)}]
    BY <2>3
  <2>6. f[first(s)] \in Nat
    BY <2>3
  <2>7. /\ iter[s] \in Nat /\ f[first(s)] <= iter[s]
        /\ iter[s \ {first(s)}] <= iter[s]
    BY <2>4, <2>5, <2>6
  <2>8. \A c \in s : f[c] \in Nat
    OBVIOUS
  <2>9. \A c \in s : f[c] <= iter[s]
    <3> SUFFICES ASSUME NEW c \in s PROVE f[c] <= iter[s]
      OBVIOUS
    <3>1. CASE c = first(s)
      BY <2>7, <3>1
    <3>2. CASE c # first(s)
      <4>1. f[c] \in Nat /\ f[c] <= iter[s \ {first(s)}]
        BY <2>5, <2>8, <3>2
      <4> HIDE DEF first, Wrong
      <4>2. QED
        BY <2>5, <2>7, <4>1
    <3>3. QED
      BY <3>1, <3>2
  <2>10. QED
    BY <2>7, <2>9
<1>13. QED
  BY <1>1, <1>12

Least(S) == CHOOSE x \in S : \A y \in S : x <= y

\* The least of a set of small numbers.
LEMMA LeastIs ==
  ASSUME NEW n \in Nat, NEW S \in SUBSET (0..n), S # {}
  PROVE  Least(S) \in S /\ \A y \in S : Least(S) <= y
<1> DEFINE Bs == {0..x : x \in S}
<1>1. IsFiniteSet(0..n)
  <2>1. 0 \in Int /\ n \in Int
    OBVIOUS
  <2>2. QED
    BY <2>1, FS_Interval
<1>2. PICK b \in Bs : \A d \in Bs : d \subseteq b => d = b
  <2>1. \A x \in S : x \in Nat /\ 0..x \subseteq 0..n
    OBVIOUS
  <2>2. Bs \in SUBSET (SUBSET (0..n)) /\ Bs # {}
    BY <2>1
  <2> DEFINE N == 0..n
  <2> HIDE DEF Bs, N
  <2>3. IsFiniteSet(N) /\ Bs \in SUBSET (SUBSET N) /\ Bs # {}
    BY <1>1, <2>2 DEF N
  <2>4. QED
    BY <2>3, SmallestSubset
<1>3. PICK x \in S : b = 0..x
  OBVIOUS
<1>4. ASSUME NEW y \in S PROVE x <= y
  <2>1. SUFFICES ASSUME y < x PROVE FALSE
    OBVIOUS
  <2>2. 0..y \subseteq b
    BY <1>3, <2>1
  <2>3. 0..y = b
    BY <1>2, <2>2
  <2>4. QED
    BY <1>3, <2>1, <2>3
<1>5. QED
  BY <1>4 DEF Least

\* A share of a number is no larger.
LEMMA Share ==
  ASSUME NEW a \in Nat, NEW b \in Nat, b > 0
  PROVE  a \div b \in 0..a
OBVIOUS

-----------------------------------------------------------------------------
(* The members of a company (Members).  Mem and M are the same module.     *)

M == INSTANCE MembersProofs WITH Users <- Persons, Nobody <- None

LEMMA MembersFit == M!ConstantsFit
BY OfficeAssumption
DEF Mem!ConstantsFit, M!ConstantsFit, Mem!IsFiniteSet, M!IsFiniteSet

LEMMA MembersInit == Mem!Init => M!Init
BY DEF Mem!Init, M!Init, Mem!Idle, M!Idle, Mem!Stranger, M!Stranger

LEMMA MembersNext == Mem!Next => M!Next
BY DEF Mem!Roles, M!Roles, Mem!Rank, M!Rank, Mem!Stranger, M!Stranger,
    Mem!Joined, M!Joined, Mem!Idle, M!Idle, Mem!Create, M!Create,
    Mem!Allowed, M!Allowed, Mem!MayEnter, M!MayEnter, Mem!Enter, M!Enter,
    Mem!Step, M!Step, Mem!Leave, M!Leave, Mem!Refuse, M!Refuse, Mem!Readers,
    M!Readers, Mem!Saved, M!Saved, Mem!Changes, M!Changes, Mem!Named,
    M!Named, Mem!Assigned, M!Assigned, Mem!ManagerOverAdmin,
    M!ManagerOverAdmin, Mem!AddMember, M!AddMember, Mem!RefuseAdd,
    M!RefuseAdd, Mem!Forbidden, M!Forbidden, Mem!TakesAnAdmin,
    M!TakesAnAdmin, Mem!ReadMember, M!ReadMember, Mem!RefuseChange,
    M!RefuseChange, Mem!ActiveAdmins, M!ActiveAdmins, Mem!Admins, M!Admins,
    Mem!CountAdmins, M!CountAdmins, Mem!SaveMember, M!SaveMember, Mem!Found,
    M!Found, Mem!ReadCompany, M!ReadCompany, Mem!SaveCompany, M!SaveCompany,
    Mem!CloseCompany, M!CloseCompany, Mem!Handle, M!Handle, Mem!Next,
    M!Next, Mem!Cardinality, M!Cardinality

LEMMA MembersStep == [OfficeNext]_office => [M!Next]_members
BY MembersNext DEF OfficeNext, office, members

LEMMA MembersInvariant == OfficeSpec => []M!IInv
<1>1. OfficeInit => M!IInv
  BY MembersFit, MembersInit, M!InitSound DEF OfficeInit
<1>2. M!IInv /\ [OfficeNext]_office => M!IInv'
  BY MembersFit, MembersStep, M!NextStep DEF M!vars, members
<1>3. QED
  BY <1>1, <1>2, PTL DEF OfficeSpec

\* A company keeps an active administrator, unless two requests overtook each
\* other (CompaniesService.updateMember).
THEOREM CompanyKeepsAdministrator == OfficeSpec => []AdministratorStays
<1>1. M!IInv => AdministratorStays
  BY DEF M!IInv, AdministratorStays, Mem!AdministratorStays, M!AdministratorStays, Mem!ActiveAdmins, M!ActiveAdmins, Mem!Joined, M!Joined
<1>2. QED
  BY <1>1, MembersInvariant, PTL

\* Nobody but an administrator makes or unmakes administrators (addMember,
\* updateMember, update).
THEOREM RolesAreGiven == OfficeSpec => RolesComeFromAdministrators
<1>1. OfficeInit => M!EditsSeeOpen
  BY DEF OfficeInit, Mem!Init, M!EditsSeeOpen, Mem!Idle
<1>2. M!IInv /\ M!EditsSeeOpen /\ [OfficeNext]_office => M!EditsSeeOpen'
  BY MembersStep, M!EditStep DEF M!vars, members
<1>3. M!RoleSteps => Mem!RoleSteps
  BY DEF M!RoleSteps, Mem!RoleSteps
<1>4. M!IInv /\ M!EditsSeeOpen /\ [OfficeNext]_office
      => [Mem!RoleSteps]_(Mem!vars)
  BY <1>3, MembersStep, M!RolesStep DEF M!vars, Mem!vars, members
<1>5. QED
  BY <1>1, <1>2, <1>4, MembersInvariant, PTL
  DEF OfficeSpec, RolesComeFromAdministrators, Mem!RolesComeFromAdministrators

-----------------------------------------------------------------------------
(* Kits (Catalogue, Kits).                                                 *)

PartsIn(kits, units, q) == {p \in Products : kits[q] /\ units[q][p] > 0}

ClosedIn(kits, units, T) ==
  \A q \in T : kits[q] => PartsIn(kits, units, q) \subseteq T

\* What q is made of, and does without q.
Avoids(kits, units, q, T) ==
  /\ PartsIn(kits, units, q) \subseteq T
  /\ ClosedIn(kits, units, T)
  /\ q \notin T

NoCycle(kits, units) ==
  \A q \in Products : \E T \in SUBSET Products : Avoids(kits, units, q, T)

KitsRight ==
  /\ kit \in [Products -> BOOLEAN]
  /\ comp \in [Products -> [Products -> Nat]]
  /\ stock \in [Products -> Nat]
  /\ \A q \in Products :
       /\ ~kit[q] => \A p \in Products : comp[q][p] = 0
       /\ kit[q] => q \notin moved
       /\ stock[q] # 0 => q \in moved
  /\ NoCycle(kit, comp)

\* Nothing is a part of itself if its parts do without it.
LEMMA AvoidedNotBelow ==
  ASSUME NoCycle(kit, comp), NEW q \in Products
  PROVE  q \notin Cat!K!Below(Cat!K!Parts(q))
BY DEF NoCycle, Avoids, ClosedIn, PartsIn, Cat!K!Below, Cat!K!Closed,
       Cat!K!Parts

\* What is not below c is avoided by some closed set with c.
LEMMA NotBelow ==
  ASSUME NEW q \in Products, NEW c \in Products, ~Cat!K!Closes(q, c)
  PROVE  \E T \in SUBSET Products :
           c \in T /\ ClosedIn(kit, comp, T) /\ q \notin T
BY DEF ClosedIn, PartsIn, Cat!K!Closes, Cat!K!Below, Cat!K!Closed, Cat!K!Parts

\* With fewer parts there are no more cycles.
LEMMA FewerParts ==
  ASSUME NEW ks, NEW us, NEW ks1, NEW us1, NoCycle(ks, us),
         \A q \in Products : PartsIn(ks1, us1, q) \subseteq PartsIn(ks, us, q)
  PROVE  NoCycle(ks1, us1)
<1>1. ASSUME NEW q \in Products, NEW T \in SUBSET Products,
             Avoids(ks, us, q, T)
      PROVE  Avoids(ks1, us1, q, T)
  BY <1>1 DEF Avoids, ClosedIn, PartsIn
<1>2. QED
  BY <1>1 DEF NoCycle

\* c becomes a part of k, and k is not below c.
LEMMA OneMorePart ==
  ASSUME NEW ks \in [Products -> BOOLEAN], NEW us, NEW us1, NoCycle(ks, us),
         NEW k \in Products, NEW c \in Products,
         \A q \in Products :
            PartsIn(ks, us1, q) \subseteq
              PartsIn(ks, us, q) \cup (IF q = k THEN {c} ELSE {}),
         NEW S \in SUBSET Products, c \in S, ClosedIn(ks, us, S), k \notin S
  PROVE  NoCycle(ks, us1)
<1> SUFFICES ASSUME NEW q \in Products
             PROVE  \E T \in SUBSET Products : Avoids(ks, us1, q, T)
  BY DEF NoCycle
<1>1. PICK T \in SUBSET Products : Avoids(ks, us, q, T)
  BY DEF NoCycle
<1>2. CASE q \notin S
  <2>1. Avoids(ks, us1, q, T \cup S)
    BY <1>1, <1>2 DEF Avoids, ClosedIn
  <2>2. QED
    BY <2>1
<1>3. CASE q \in S
  <2>1. PartsIn(ks, us, q) \subseteq S
    BY <1>3 DEF ClosedIn, PartsIn
  <2>2. k \notin T \cap S /\ q # k
    BY <1>3
  <2>3. ClosedIn(ks, us1, T \cap S)
    BY <1>1, <2>2 DEF Avoids, ClosedIn
  <2>4. PartsIn(ks, us1, q) \subseteq T \cap S
    BY <1>1, <2>1, <2>2 DEF Avoids
  <2>5. Avoids(ks, us1, q, T \cap S)
    BY <1>1, <2>3, <2>4 DEF Avoids
  <2>6. QED
    BY <2>5
<1>4. QED
  BY <1>2, <1>3

LEMMA KitsInit == ASSUME Cat!Init PROVE KitsRight
<1>1. /\ kit = [q \in Products |-> FALSE]
      /\ comp = [q \in Products |-> [c \in Products |-> 0]]
      /\ stock = [q \in Products |-> 0] /\ moved = {}
  BY DEF Cat!Init, Cat!K!Init
<1>2. \A q \in Products : Avoids(kit, comp, q, {})
  BY <1>1 DEF Avoids, ClosedIn, PartsIn
<1>3. QED
  BY <1>1, <1>2 DEF KitsRight, NoCycle

LEMMA CreateKitStep ==
  ASSUME KitsRight, NEW p \in Products, Cat!K!CreateKit(p)
  PROVE  KitsRight'
<1>1. /\ p \notin moved /\ kit' = [kit EXCEPT ![p] = TRUE] /\ ~kit[p]
      /\ UNCHANGED <<comp, stock, moved>>
  BY DEF Cat!K!CreateKit
<1>2. \A q \in Products : PartsIn(kit', comp', q) \subseteq PartsIn(kit, comp, q)
  BY <1>1 DEF KitsRight, PartsIn
<1>3. NoCycle(kit', comp')
  BY <1>2, FewerParts DEF KitsRight
<1>4. QED
  BY <1>1, <1>3 DEF KitsRight

LEMMA AddComponentStep ==
  ASSUME KitsRight, NEW k \in Products, NEW c \in Products,
         NEW n \in 0..MaxUnits, Cat!K!AddComponent(k, c, n)
  PROVE  KitsRight'
<1>1. /\ kit[k] /\ n > 0 /\ ~Cat!K!Closes(k, c)
      /\ comp' = [comp EXCEPT ![k][c] = n]
      /\ UNCHANGED <<kit, stock, moved>>
  BY DEF Cat!K!AddComponent
<1>2. PICK S \in SUBSET Products :
        c \in S /\ ClosedIn(kit, comp, S) /\ k \notin S
  BY <1>1, NotBelow
<1>3. \A q \in Products : PartsIn(kit, comp', q) \subseteq
        PartsIn(kit, comp, q) \cup (IF q = k THEN {c} ELSE {})
  BY <1>1 DEF KitsRight, PartsIn
<1>4. NoCycle(kit, comp')
  BY <1>2, <1>3, OneMorePart DEF KitsRight
<1>5. QED
  BY <1>1, <1>4 DEF KitsRight

LEMMA ChangeComponentStep ==
  ASSUME KitsRight, NEW k \in Products, NEW c \in Products,
         NEW n \in 0..MaxUnits, Cat!K!ChangeComponent(k, c, n)
  PROVE  KitsRight'
<1>1. /\ kit[k] /\ comp[k][c] > 0
      /\ comp' = [comp EXCEPT ![k][c] = n]
      /\ UNCHANGED <<kit, stock, moved>>
  BY DEF Cat!K!ChangeComponent
<1>2. \A q \in Products : PartsIn(kit, comp', q) \subseteq PartsIn(kit, comp, q)
  BY <1>1 DEF KitsRight, PartsIn
<1>3. NoCycle(kit, comp')
  BY <1>2, FewerParts DEF KitsRight
<1>4. QED
  BY <1>1, <1>3 DEF KitsRight

LEMMA MoveStep ==
  ASSUME KitsRight, NEW p \in Products, NEW n \in 0..MaxUnits, Cat!K!Move(p, n)
  PROVE  KitsRight'
BY DEF KitsRight, Cat!K!Move

LEMMA KitsStep ==
  ASSUME KitsRight, [Cat!Next]_catalogue
  PROVE  KitsRight'
<1>1. CASE UNCHANGED <<kit, comp, stock, moved>>
  BY <1>1 DEF KitsRight
<1>2. CASE Cat!K!Next
  BY <1>1, <1>2, CreateKitStep, AddComponentStep, ChangeComponentStep, MoveStep
  DEF Cat!K!Next, Cat!K!SetStatus, Cat!K!ReadForEdit, Cat!K!SaveEdit,
      Cat!K!kitVars
<1>3. QED
  BY <1>1, <1>2 DEF Cat!Next, Cat!kitVars, catalogue

\* In whatever order components are added, changed and removed, no kit becomes
\* a part of itself, and what ever had stock is no kit (detectCycle,
\* ProductBundlesService.create).
THEOREM NoKitInItself == OfficeSpec => []CompositionSound
<1>1. OfficeInit => KitsRight
  BY KitsInit DEF OfficeInit
<1>2. KitsRight /\ [OfficeNext]_office => KitsRight'
  BY KitsStep DEF OfficeNext, office, catalogue
<1>3. KitsRight => CompositionSound
  BY AvoidedNotBelow
  DEF KitsRight, CompositionSound, Cat!CompositionSound, Cat!K!CompositionSound
<1>4. QED
  BY <1>1, <1>2, <1>3, PTL DEF OfficeSpec

\* The products of S and all that they are made of.
BelowIn(ks, us, S) ==
  {p \in Products : \A T \in SUBSET Products :
                      S \subseteq T /\ ClosedIn(ks, us, T) => p \in T}

\* They are the smallest closed set with S.
LEMMA BelowLeast ==
  ASSUME NEW ks, NEW us, NEW S \in SUBSET Products
  PROVE  /\ S \subseteq BelowIn(ks, us, S)
         /\ BelowIn(ks, us, S) \subseteq Products
         /\ ClosedIn(ks, us, BelowIn(ks, us, S))
         /\ \A T \in SUBSET Products :
              S \subseteq T /\ ClosedIn(ks, us, T)
              => BelowIn(ks, us, S) \subseteq T
BY DEF BelowIn, ClosedIn, PartsIn

\* What is below q is q or below one of its parts.
LEMMA BelowParts ==
  ASSUME NEW ks, NEW us, NEW q \in Products,
         NEW p \in BelowIn(ks, us, {q}), p # q
  PROVE  ks[q] /\ \E c \in PartsIn(ks, us, q) : p \in BelowIn(ks, us, {c})
<1> DEFINE P == PartsIn(ks, us, q)
           U == {q} \cup UNION {BelowIn(ks, us, {c}) : c \in P}
<1>1. \A c \in P : /\ c \in BelowIn(ks, us, {c})
                   /\ BelowIn(ks, us, {c}) \subseteq Products
                   /\ ClosedIn(ks, us, BelowIn(ks, us, {c}))
  BY BelowLeast DEF PartsIn
<1>2. U \in SUBSET Products /\ {q} \subseteq U
  BY <1>1
<1>3. ClosedIn(ks, us, U)
  <2> SUFFICES ASSUME NEW x \in U, ks[x] PROVE PartsIn(ks, us, x) \subseteq U
    BY DEF ClosedIn
  <2>1. CASE x = q
    BY <1>1, <2>1
  <2>2. CASE x # q
    <3>1. PICK c \in P : x \in BelowIn(ks, us, {c})
      BY <2>2
    <3>2. PartsIn(ks, us, x) \subseteq BelowIn(ks, us, {c})
      BY <1>1, <3>1 DEF ClosedIn
    <3>3. QED
      BY <3>2
  <2>3. QED
    BY <2>1, <2>2
<1>4. p \in U
  <2> HIDE DEF U
  <2>1. {q} \in SUBSET Products
    OBVIOUS
  <2>2. BelowIn(ks, us, {q}) \subseteq U
    BY <1>2, <1>3, <2>1, BelowLeast
  <2>3. QED
    BY <2>2
<1>5. P # {} => ks[q]
  BY DEF PartsIn
<1>6. QED
  BY <1>4, <1>5

\* Without cycles, every set of products has one with no part in it.
LEMMA PartsFounded ==
  ASSUME IsFiniteSet(Products), NEW ks, NEW us, NoCycle(ks, us)
  PROVE  Founded(Products, [q \in Products |-> PartsIn(ks, us, q)])
<1> DEFINE low == [q \in Products |-> PartsIn(ks, us, q)]
           B(x) == BelowIn(ks, us, PartsIn(ks, us, x))
<1>1. \A x \in Products : PartsIn(ks, us, x) \in SUBSET Products
  BY DEF PartsIn
<1>2. low \in [Products -> SUBSET Products]
  BY <1>1
<1>3. \A x \in Products : /\ PartsIn(ks, us, x) \subseteq B(x)
                          /\ B(x) \subseteq Products
                          /\ ClosedIn(ks, us, B(x))
                          /\ x \notin B(x)
  <2> SUFFICES ASSUME NEW x \in Products
               PROVE  /\ PartsIn(ks, us, x) \subseteq B(x)
                      /\ B(x) \subseteq Products
                      /\ ClosedIn(ks, us, B(x))
                      /\ x \notin B(x)
    OBVIOUS
  <2>1. PICK T \in SUBSET Products : Avoids(ks, us, x, T)
    BY DEF NoCycle
  <2>2. B(x) \subseteq T
    BY <1>1, <2>1, BelowLeast DEF Avoids
  <2>3. QED
    BY <1>1, <2>1, <2>2, BelowLeast DEF Avoids
<1>4. ASSUME NEW T \in SUBSET Products, T # {}
      PROVE  \E x \in T : low[x] \cap T = {}
  <2>1. {B(x) : x \in T} \in SUBSET (SUBSET Products)
    BY <1>3
  <2>2. PICK x \in T : \A y \in T : B(y) \subseteq B(x) => B(y) = B(x)
    <3> DEFINE Bs == {B(x) : x \in T}
    <3>1. Bs # {} /\ Bs \in SUBSET (SUBSET Products)
      BY <1>4, <2>1
    <3> HIDE DEF Bs
    <3>2. \E b \in Bs : \A d \in Bs : d \subseteq b => d = b
      BY <3>1, SmallestSubset
    <3>3. QED
      BY <3>2 DEF Bs
  <2>3. ASSUME NEW y \in PartsIn(ks, us, x), y \in T PROVE FALSE
    <3>1. y \in B(x) /\ y \notin B(y)
      BY <1>3, <2>3
    <3>2. PartsIn(ks, us, y) \subseteq B(x)
      BY <1>3, <3>1 DEF ClosedIn, PartsIn
    <3>3. B(y) \subseteq B(x)
      BY <1>1, <1>3, <3>2, <2>3, BelowLeast
    <3>4. QED
      BY <2>2, <2>3, <3>1, <3>3
  <2>4. QED
    BY <2>3
<1>5. QED
  BY <1>2, <1>4 DEF Founded

\* The products of B are made alike.
Alike(ks, us, ks1, us1, B) == \A x \in B : ks1[x] = ks[x] /\ us1[x] = us[x]

\* The same products are below q if all that is below it is made as before.
LEMMA BelowSame ==
  ASSUME NEW ks, NEW us, NEW ks1, NEW us1, NEW q \in Products,
         Alike(ks, us, ks1, us1, BelowIn(ks, us, {q}))
  PROVE  BelowIn(ks1, us1, {q}) = BelowIn(ks, us, {q})
<1> DEFINE B == BelowIn(ks, us, {q})
           B1 == BelowIn(ks1, us1, {q})
<1> USE DEF Alike
<1>1. /\ q \in B /\ B \subseteq Products /\ ClosedIn(ks, us, B)
      /\ \A T \in SUBSET Products : q \in T /\ ClosedIn(ks, us, T) => B \subseteq T
  BY BelowLeast
<1>2. /\ q \in B1 /\ B1 \subseteq Products /\ ClosedIn(ks1, us1, B1)
      /\ \A T \in SUBSET Products : q \in T /\ ClosedIn(ks1, us1, T) => B1 \subseteq T
  BY BelowLeast
<1>3. \A x \in B : PartsIn(ks1, us1, x) = PartsIn(ks, us, x)
  BY DEF PartsIn
<1>4. ClosedIn(ks1, us1, B)
  BY <1>1, <1>3 DEF ClosedIn
<1>5. B1 \subseteq B
  BY <1>1, <1>2, <1>4
<1>6. ClosedIn(ks, us, B1)
  BY <1>2, <1>3, <1>5 DEF ClosedIn
<1>7. QED
  BY <1>1, <1>2, <1>5, <1>6

\* What one q has of the plain product p, given how much its parts have.
UnitsBody(ks, us, p, u, q) ==
  IF ks[q] THEN SumFunction([c \in PartsIn(ks, us, q) |-> us[q][c] * u[c]])
  ELSE IF q = p THEN 1 ELSE 0

UnitsOf(ks, us, p) ==
  CHOOSE u : u = [q \in Products |-> UnitsBody(ks, us, p, u, q)]

\* How much a product has is a number, and is what its definition says.
LEMMA UnitsAreNumbers ==
  ASSUME IsFiniteSet(Products), NEW ks, NEW us \in [Products -> [Products -> Nat]],
         NoCycle(ks, us), NEW p \in Products
  PROVE  /\ UnitsOf(ks, us, p) \in [Products -> Nat]
         /\ \A q \in Products :
              UnitsOf(ks, us, p)[q]
                = UnitsBody(ks, us, p, UnitsOf(ks, us, p), q)
<1> DEFINE P(q) == PartsIn(ks, us, q)
           low == [q \in Products |-> P(q)]
           body(u, q) == UnitsBody(ks, us, p, u, q)
           F == [a \in [Products -> Nat] \X Products |-> body(a[1], a[2])]
           u == UnitsOf(ks, us, p)
<1>1. Founded(Products, low)
  BY PartsFounded
<1>2. \A q \in Products : P(q) \in SUBSET Products /\ IsFiniteSet(P(q))
  BY FS_Subset DEF PartsIn
<1>3. ASSUME NEW g, NEW q \in Products, \A c \in P(q) : g[c] \in Nat
      PROVE  body(g, q) \in Nat
  <2> DEFINE f == [c \in P(q) |-> us[q][c] * g[c]]
  <2>1. f \in [P(q) -> Nat]
    <3>1. \A c \in P(q) : us[q][c] \in Nat
      BY <1>2
    <3>2. QED
      BY <1>3, <3>1
  <2> HIDE DEF f
  <2>2. SumFunction(f) \in Nat
    BY <1>2, <2>1, SumBounds
  <2>3. QED
    BY <2>2 DEF f, UnitsBody
<1>4. ASSUME NEW g, NEW h, NEW q \in Products, \A c \in P(q) : g[c] = h[c]
      PROVE  body(g, q) = body(h, q)
  <2>1. [c \in P(q) |-> us[q][c] * g[c]] = [c \in P(q) |-> us[q][c] * h[c]]
    BY <1>4
  <2>2. QED
    BY <2>1 DEF UnitsBody
<1>5. Looks(Products, Nat, low, F)
  <2> HIDE DEF body
  <2>1. F \in [[Products -> Nat] \X Products -> Nat]
    BY <1>2, <1>3
  <2>2. \A x \in Products, h \in [Products -> Nat], g \in [Products -> Nat] :
          (\A y \in low[x] : g[y] = h[y]) => F[<<g, x>>] = F[<<h, x>>]
    BY <1>4
  <2>3. QED
    BY <2>1, <2>2 DEF Looks
<1>6. PICK h \in [Products -> Nat] : Solves(Products, F, h)
  <2> HIDE DEF low, F
  <2>1. Nat # {}
    OBVIOUS
  <2>2. QED
    BY <1>1, <1>5, <2>1, Recursion
<1>7. h = [q \in Products |-> body(h, q)]
  <2> HIDE DEF body
  <2>1. \A q \in Products : h[q] = body(h, q)
    BY <1>6 DEF Solves
  <2>2. QED
    BY <2>1
<1>8. u = [q \in Products |-> body(u, q)]
  BY <1>7 DEF UnitsOf
<1> HIDE DEF u, body
<1>9. \A q \in Products : u[q] = body(u, q)
  BY <1>8
<1> DEFINE Wrong == {q \in Products : u[q] \notin Nat}
<1>10. Wrong = {}
  <2>1. SUFFICES ASSUME Wrong # {} PROVE FALSE
    OBVIOUS
  <2>2. PICK q \in Wrong : low[q] \cap Wrong = {}
    <3>1. Wrong \in SUBSET Products
      OBVIOUS
    <3> HIDE DEF Wrong, low
    <3>2. QED
      BY <1>1, <2>1, <3>1 DEF Founded
  <2>3. \A c \in P(q) : u[c] \in Nat
    BY <1>2, <2>2
  <2>4. QED
    BY <1>3, <1>9, <2>2, <2>3
<1>11. u \in [Products -> Nat]
  BY <1>8, <1>10
<1>12. QED
  BY <1>9, <1>11 DEF u, body

\* A plain product below q is in it at least once.
LEMMA UnitsPositive ==
  ASSUME IsFiniteSet(Products), NEW ks, NEW us \in [Products -> [Products -> Nat]],
         NoCycle(ks, us), NEW p \in Products, ~ks[p],
         NEW q \in Products, p \in BelowIn(ks, us, {q})
  PROVE  UnitsOf(ks, us, p)[q] > 0
<1> DEFINE u == UnitsOf(ks, us, p)
           low == [x \in Products |-> PartsIn(ks, us, x)]
           Wrong == {x \in Products : p \in BelowIn(ks, us, {x}) /\ u[x] = 0}
<1>1. /\ u \in [Products -> Nat]
      /\ \A x \in Products : u[x] = UnitsBody(ks, us, p, u, x)
  BY UnitsAreNumbers
<1> HIDE DEF u
<1>2. Wrong = {}
  <2>1. SUFFICES ASSUME Wrong # {} PROVE FALSE
    OBVIOUS
  <2>2. PICK x \in Wrong : low[x] \cap Wrong = {}
    <3>1. Wrong \in SUBSET Products /\ Founded(Products, low)
      BY PartsFounded
    <3> HIDE DEF Wrong, low
    <3>2. QED
      BY <2>1, <3>1 DEF Founded
  <2>3. x # p
    <3>1. UnitsBody(ks, us, p, u, p) = 1
      BY DEF UnitsBody
    <3>2. u[p] = 1
      BY <1>1, <3>1
    <3>3. QED
      BY <2>2, <3>2
  <2>4. PICK c \in PartsIn(ks, us, x) : p \in BelowIn(ks, us, {c})
    BY <2>2, <2>3, BelowParts
  <2>5. ks[x] /\ c \in Products /\ us[x][c] > 0
    BY <2>4 DEF PartsIn
  <2>6. u[c] > 0
    BY <1>1, <2>2, <2>4, <2>5
  <2> DEFINE f == [d \in PartsIn(ks, us, x) |-> us[x][d] * u[d]]
  <2>7. f \in [PartsIn(ks, us, x) -> Nat]
    <3>1. \A d \in PartsIn(ks, us, x) : us[x][d] \in Nat /\ u[d] \in Nat
      BY <1>1 DEF PartsIn
    <3>2. QED
      BY <3>1
  <2>8. f[c] > 0
    <3>1. \A a, b \in Nat : a > 0 /\ b > 0 => a * b > 0
      OBVIOUS
    <3>2. us[x][c] \in Nat /\ u[c] \in Nat /\ f[c] = us[x][c] * u[c]
      BY <1>1, <2>4, <2>5
    <3>3. QED
      BY <2>5, <2>6, <3>1, <3>2
  <2>9. u[x] = SumFunction(f)
    BY <1>1, <2>2, <2>5 DEF UnitsBody
  <2>10. IsFiniteSet(PartsIn(ks, us, x))
    BY FS_Subset DEF PartsIn
  <2> HIDE DEF f
  <2>11. SumFunction(f) \in Nat /\ f[c] <= SumFunction(f) /\ f[c] \in Nat
    BY <2>4, <2>7, <2>10, SumBounds
  <2>12. QED
    BY <2>2, <2>8, <2>9, <2>11
<1>3. QED
  BY <1>1, <1>2 DEF u

SameUnits(ks, us, ks1, us1, p, q) ==
  UnitsOf(ks1, us1, p)[q] = UnitsOf(ks, us, p)[q]

\* How much q has depends on what is below q, nothing else.
LEMMA UnitsSame ==
  ASSUME IsFiniteSet(Products), NEW ks, NEW us \in [Products -> [Products -> Nat]],
         NoCycle(ks, us), NEW ks1, NEW us1 \in [Products -> [Products -> Nat]],
         NoCycle(ks1, us1), NEW p \in Products, NEW q \in Products,
         Alike(ks, us, ks1, us1, BelowIn(ks, us, {q}))
  PROVE  SameUnits(ks, us, ks1, us1, p, q)
<1> DEFINE B == BelowIn(ks, us, {q})
           u == UnitsOf(ks, us, p)
           v == UnitsOf(ks1, us1, p)
           low == [x \in Products |-> PartsIn(ks, us, x)]
           Wrong == {x \in B : v[x] # u[x]}
<1> USE DEF Alike
<1>1. \A x \in Products : u[x] = UnitsBody(ks, us, p, u, x)
  BY UnitsAreNumbers
<1>2. \A x \in Products : v[x] = UnitsBody(ks1, us1, p, v, x)
  BY UnitsAreNumbers
<1>3. q \in B /\ B \subseteq Products /\ ClosedIn(ks, us, B)
  BY BelowLeast
<1>4. \A x \in B : PartsIn(ks1, us1, x) = PartsIn(ks, us, x)
  BY DEF PartsIn
<1> HIDE DEF u, v, B
<1>5. Wrong = {}
  <2>1. SUFFICES ASSUME Wrong # {} PROVE FALSE
    OBVIOUS
  <2>2. PICK x \in Wrong : low[x] \cap Wrong = {}
    <3>1. Wrong \in SUBSET Products /\ Founded(Products, low)
      BY <1>3, PartsFounded
    <3> HIDE DEF Wrong, low
    <3>2. QED
      BY <2>1, <3>1 DEF Founded
  <2>3. ks1[x] = ks[x] /\ us1[x] = us[x]
    BY <2>2 DEF B
  <2>4. ks[x] => \A c \in PartsIn(ks, us, x) : v[c] = u[c]
    BY <1>3, <2>2 DEF ClosedIn
  <2>5. ks[x] => [c \in PartsIn(ks1, us1, x) |-> us1[x][c] * v[c]]
                   = [c \in PartsIn(ks, us, x) |-> us[x][c] * u[c]]
    BY <1>4, <2>2, <2>3, <2>4
  <2>6. UnitsBody(ks1, us1, p, v, x) = UnitsBody(ks, us, p, u, x)
    BY <2>3, <2>5 DEF UnitsBody
  <2>7. QED
    BY <1>1, <1>2, <1>3, <2>2, <2>6
<1>6. QED
  BY <1>3, <1>5 DEF u, v, SameUnits

\* A kit can be expanded (status, kits and units given).
ExpandableIn(sts, ks, us, k) ==
  \A p \in BelowIn(ks, us, {k}) :
     /\ sts[p] = "ACTIVE"
     /\ ks[p] => /\ PartsIn(ks, us, p) # {}
                 /\ p \notin BelowIn(ks, us, PartsIn(ks, us, p))

\* How many of k the stock of each of its plain products is enough for.
SharesIn(ks, us, stk, k) ==
  {stk[p] \div UnitsOf(ks, us, p)[k] : p \in {q \in BelowIn(ks, us, {k}) : ~ks[q]}}

AvailableIn(sts, ks, us, stk, k) ==
  IF ks[k] /\ ExpandableIn(sts, ks, us, k) THEN Least(SharesIn(ks, us, stk, k))
  ELSE 0

LEMMA SharesAre ==
  ASSUME IsFiniteSet(Products), NEW ks, NEW us \in [Products -> [Products -> Nat]],
         NoCycle(ks, us), NEW k \in Products, NEW n \in Nat,
         NEW stk \in [Products -> 0..n]
  PROVE  /\ SharesIn(ks, us, stk, k) \in SUBSET (0..n)
         /\ \A p \in BelowIn(ks, us, {k}) :
              ~ks[p] /\ stk[p] = 0 => 0 \in SharesIn(ks, us, stk, k)
<1> SUFFICES ASSUME NEW p \in BelowIn(ks, us, {k}), ~ks[p]
             PROVE  /\ stk[p] \div UnitsOf(ks, us, p)[k] \in 0..n
                    /\ stk[p] = 0 => stk[p] \div UnitsOf(ks, us, p)[k] = 0
  BY DEF SharesIn
<1>1. p \in Products
  BY BelowLeast
<1>2. UnitsOf(ks, us, p)[k] \in Nat /\ UnitsOf(ks, us, p)[k] > 0
  BY <1>1, UnitsAreNumbers, UnitsPositive
<1>3. stk[p] \in 0..n
  BY <1>1
<1> DEFINE s == stk[p]
           u == UnitsOf(ks, us, p)[k]
<1> HIDE DEF s, u
<1>4. s \in Nat /\ s <= n /\ u \in Nat /\ u > 0
  BY <1>2, <1>3 DEF s, u
<1>5. s \div u \in 0..s
  BY <1>4, Share
<1>6. s \div u \in 0..n /\ (s = 0 => s \div u = 0)
  BY <1>4, <1>5
<1>7. QED
  BY <1>6 DEF s, u

\* An expandable kit has a plain product at the bottom.
LEMMA HasPlainPart ==
  ASSUME IsFiniteSet(Products), NEW sts, NEW ks, NEW us, NoCycle(ks, us),
         NEW k \in Products, ExpandableIn(sts, ks, us, k)
  PROVE  \E p \in BelowIn(ks, us, {k}) : ~ks[p]
<1> DEFINE B == BelowIn(ks, us, {k})
           low == [q \in Products |-> PartsIn(ks, us, q)]
<1>1. k \in B /\ B \in SUBSET Products /\ ClosedIn(ks, us, B)
  BY BelowLeast
<1>2. PICK p \in B : low[p] \cap B = {}
  <2>1. Founded(Products, low)
    BY PartsFounded
  <2>2. B # {}
    BY <1>1
  <2> HIDE DEF B, low
  <2>3. QED
    BY <1>1, <2>1, <2>2 DEF Founded
<1>3. ks[p] => PartsIn(ks, us, p) = {}
  BY <1>1, <1>2 DEF ClosedIn
<1>4. QED
  BY <1>3 DEF ExpandableIn

\* What is available is a number no larger than the largest stock, and none if
\* a plain part is out of stock.
LEMMA AvailableIs ==
  ASSUME IsFiniteSet(Products), NEW sts, NEW ks,
         NEW us \in [Products -> [Products -> Nat]],
         NoCycle(ks, us), NEW k \in Products, NEW n \in Nat,
         NEW stk \in [Products -> 0..n]
  PROVE  /\ AvailableIn(sts, ks, us, stk, k) \in 0..n
         /\ \A p \in BelowIn(ks, us, {k}) :
              ~ks[p] /\ stk[p] = 0 => AvailableIn(sts, ks, us, stk, k) = 0
<1> DEFINE S == SharesIn(ks, us, stk, k)
<1>1. /\ S \in SUBSET (0..n)
      /\ \A p \in BelowIn(ks, us, {k}) : ~ks[p] /\ stk[p] = 0 => 0 \in S
  BY SharesAre
<1>2. CASE ExpandableIn(sts, ks, us, k)
  <2>1. S # {}
    <3>1. PICK p \in BelowIn(ks, us, {k}) : ~ks[p]
      BY <1>2, HasPlainPart
    <3>2. stk[p] \div UnitsOf(ks, us, p)[k] \in S
      BY <3>1 DEF SharesIn
    <3>3. QED
      BY <3>2
  <2> HIDE DEF S
  <2>2. Least(S) \in S /\ \A y \in S : Least(S) <= y
    BY <1>1, <2>1, LeastIs
  <2> DEFINE m == Least(S)
             a == AvailableIn(sts, ks, us, stk, k)
  <2>3. a = 0 \/ a = m
    BY DEF AvailableIn, S
  <2> HIDE DEF m, a
  <2>4. m \in 0..n /\ (0 \in S => m <= 0)
    BY <1>1, <2>2 DEF m
  <2>5. a \in 0..n /\ (0 \in S => a = 0)
    BY <2>3, <2>4
  <2>6. QED
    BY <1>1, <2>5 DEF a
<1>3. CASE ~ExpandableIn(sts, ks, us, k)
  BY <1>3 DEF AvailableIn
<1>4. QED
  BY <1>2, <1>3

\* The products of B have the same status, parts and stock.
Untouched(B, sts, ks, us, stk, sts1, ks1, us1, stk1) ==
  \A x \in B : /\ sts1[x] = sts[x] /\ ks1[x] = ks[x]
               /\ us1[x] = us[x] /\ stk1[x] = stk[x]

SameAvailable(k, sts, ks, us, stk, sts1, ks1, us1, stk1) ==
  AvailableIn(sts1, ks1, us1, stk1, k) = AvailableIn(sts, ks, us, stk, k)

\* What is available of k depends on k and what is below it, nothing else.
LEMMA AvailableSame ==
  ASSUME IsFiniteSet(Products), NEW sts, NEW sts1,
         NEW ks, NEW us \in [Products -> [Products -> Nat]], NoCycle(ks, us),
         NEW ks1, NEW us1 \in [Products -> [Products -> Nat]], NoCycle(ks1, us1),
         NEW stk, NEW stk1, NEW k \in Products,
         Untouched(BelowIn(ks, us, {k}), sts, ks, us, stk, sts1, ks1, us1, stk1)
  PROVE  SameAvailable(k, sts, ks, us, stk, sts1, ks1, us1, stk1)
<1> USE DEF Untouched
<1> DEFINE B == BelowIn(ks, us, {k})
<1>1. /\ k \in B /\ B \subseteq Products /\ ClosedIn(ks, us, B)
      /\ BelowIn(ks1, us1, {k}) = B
  <2>1. Alike(ks, us, ks1, us1, B)
    BY DEF Alike
  <2>2. BelowIn(ks1, us1, {k}) = B
    BY <2>1, BelowSame
  <2>3. QED
    BY <2>2, BelowLeast
<1>2. \A x \in B : PartsIn(ks1, us1, x) = PartsIn(ks, us, x)
  BY DEF PartsIn
<1>3. ASSUME NEW x \in Products, NEW zs, NEW ws, NoCycle(zs, ws)
      PROVE  x \notin BelowIn(zs, ws, PartsIn(zs, ws, x))
  <2>1. PICK T \in SUBSET Products : Avoids(zs, ws, x, T)
    BY <1>3 DEF NoCycle
  <2>2. QED
    BY <2>1 DEF Avoids, BelowIn
<1>4. ExpandableIn(sts1, ks1, us1, k) <=> ExpandableIn(sts, ks, us, k)
  <2>1. \A x \in B : /\ x \notin BelowIn(ks, us, PartsIn(ks, us, x))
                     /\ x \notin BelowIn(ks1, us1, PartsIn(ks1, us1, x))
    BY <1>1, <1>3
  <2>2. QED
    BY <1>1, <1>2, <2>1 DEF ExpandableIn
<1>5. \A p \in B : UnitsOf(ks1, us1, p)[k] = UnitsOf(ks, us, p)[k]
  <2> SUFFICES ASSUME NEW p \in B
               PROVE  UnitsOf(ks1, us1, p)[k] = UnitsOf(ks, us, p)[k]
    OBVIOUS
  <2>1. Alike(ks, us, ks1, us1, B)
    BY DEF Alike
  <2>2. p \in Products
    BY <1>1
  <2>3. SameUnits(ks, us, ks1, us1, p, k)
    BY <2>1, <2>2, UnitsSame
  <2>4. QED
    BY <2>3 DEF SameUnits
<1>6. SharesIn(ks1, us1, stk1, k) = SharesIn(ks, us, stk, k)
  <2>1. {q \in B : ~ks1[q]} = {q \in B : ~ks[q]}
    OBVIOUS
  <2> DEFINE P == {q \in B : ~ks[q]}
  <2>2. {stk1[p] \div UnitsOf(ks1, us1, p)[k] : p \in P}
          = {stk[p] \div UnitsOf(ks, us, p)[k] : p \in P}
    BY <1>5
  <2>3. QED
    BY <1>1, <2>1, <2>2 DEF SharesIn
<1>7. ks1[k] = ks[k]
  BY <1>1
<1>8. QED
  BY <1>4, <1>6, <1>7 DEF AvailableIn, SameAvailable

LEMMA ProductsFit ==
  IsFiniteSet(Products) /\ MaxUnits \in Nat /\ MaxChanges \in Nat /\ None \notin Products
BY OfficeAssumption DEF Cat!ConstantsFit, Cat!IsFiniteSet, IsFiniteSet

\* The operators of Kits are those of the lemmas.
LEMMA KitsBelow ==
  ASSUME NEW S \in SUBSET Products
  PROVE  /\ Cat!K!Below(S) = BelowIn(kit, comp, S)
         /\ Cat!K!Below(S)' = BelowIn(kit', comp', S)
BY DEF Cat!K!Below, Cat!K!Closed, Cat!K!Parts, BelowIn, ClosedIn, PartsIn

LEMMA KitsParts ==
  ASSUME NEW k \in Products
  PROVE  /\ Cat!K!Parts(k) = PartsIn(kit, comp, k)
         /\ Cat!K!Parts(k)' = PartsIn(kit', comp', k)
         /\ PartsIn(kit, comp, k) \in SUBSET Products
BY DEF Cat!K!Parts, PartsIn

LEMMA KitsUnits ==
  ASSUME NEW k \in Products, NEW p \in Products
  PROVE  /\ Cat!K!Units(k, p) = UnitsOf(kit, comp, p)[k]
         /\ Cat!K!Units(k, p)' = UnitsOf(kit', comp', p)[k]
BY DEF Cat!K!Units, Cat!K!Parts, PartsIn, UnitsOf, UnitsBody,
       Cat!K!SumFunction, Cat!K!SumFunctionOnSet, Cat!K!FoldFunctionOnSet,
       Cat!K!MapThenFoldSet,
       SumFunction, SumFunctionOnSet, FoldFunctionOnSet, MapThenFoldSet

\* What is available is so by the formula of the lemmas.
LEMMA KitsAvailable ==
  ASSUME NEW k \in Products
  PROVE  /\ Cat!K!Available(k) = AvailableIn(status, kit, comp, stock, k)
         /\ Cat!K!Available(k)' = AvailableIn(status', kit', comp', stock', k)
<1> DEFINE B == BelowIn(kit, comp, {k})
           B1 == BelowIn(kit', comp', {k})
<1>1. /\ {k} \in SUBSET Products
      /\ Cat!K!Below({k}) = B /\ Cat!K!Below({k})' = B1
  BY KitsBelow
<1>2. B \in SUBSET Products /\ B1 \in SUBSET Products
  BY BelowLeast
<1>3. Cat!K!Expandable(k) <=> ExpandableIn(status, kit, comp, k)
  <2>1. ASSUME NEW p \in B
        PROVE  /\ Cat!K!Parts(p) = PartsIn(kit, comp, p)
               /\ Cat!K!Below(Cat!K!Parts(p)) = BelowIn(kit, comp, PartsIn(kit, comp, p))
    BY <1>2, KitsParts, KitsBelow
  <2>2. QED
    BY <1>1, <2>1 DEF Cat!K!Expandable, ExpandableIn
<1>4. Cat!K!Expandable(k)' <=> ExpandableIn(status', kit', comp', k)
  <2>1. ASSUME NEW p \in B1
        PROVE  /\ Cat!K!Parts(p)' = PartsIn(kit', comp', p)
               /\ Cat!K!Below(Cat!K!Parts(p))'
                    = BelowIn(kit', comp', PartsIn(kit', comp', p))
    <3>1. Cat!K!Parts(p)' = PartsIn(kit', comp', p)
      BY <1>2, KitsParts
    <3>2. Cat!K!Below(Cat!K!Parts(p))'
            = BelowIn(kit', comp', PartsIn(kit', comp', p))
      BY <3>1 DEF Cat!K!Below, Cat!K!Closed, Cat!K!Parts, BelowIn, ClosedIn, PartsIn
    <3>3. QED
      BY <3>1, <3>2
  <2>2. QED
    BY <1>1, <2>1 DEF Cat!K!Expandable, ExpandableIn
<1>5. {stock[p] \div Cat!K!Units(k, p) : p \in {q \in Cat!K!Below({k}) : ~kit[q]}}
        = SharesIn(kit, comp, stock, k)
  BY <1>1, <1>2, KitsUnits DEF SharesIn
<1>6. {stock[p] \div Cat!K!Units(k, p) : p \in {q \in Cat!K!Below({k}) : ~kit[q]}}'
        = SharesIn(kit', comp', stock', k)
  BY <1>1, <1>2, KitsUnits DEF SharesIn
<1>7. Cat!K!Available(k) = AvailableIn(status, kit, comp, stock, k)
  <2> DEFINE X == {stock[p] \div Cat!K!Units(k, p) : p \in {q \in Cat!K!Below({k}) : ~kit[q]}}
             S == SharesIn(kit, comp, stock, k)
  <2>1. X = S
    BY <1>5
  <2>2. Cat!K!Min(X) = Least(X)
    BY DEF Cat!K!Min, Least
  <2>3. Cat!K!Available(k) = IF kit[k] /\ Cat!K!Expandable(k) THEN Cat!K!Min(X) ELSE 0
    BY DEF Cat!K!Available
  <2> HIDE DEF X, S
  <2>4. Cat!K!Min(X) = Least(S)
    BY <2>1, <2>2
  <2>5. QED
    BY <1>3, <2>3, <2>4 DEF AvailableIn, S
<1>8. Cat!K!Available(k)' = AvailableIn(status', kit', comp', stock', k)
  <2> DEFINE X == {stock[p] \div Cat!K!Units(k, p) : p \in {q \in Cat!K!Below({k}) : ~kit[q]}}'
             S == SharesIn(kit', comp', stock', k)
  <2>1. X = S
    BY <1>6
  <2>2. Cat!K!Min(X) = Least(X)
    BY DEF Cat!K!Min, Least
  <2>3. Cat!K!Available(k)' = IF kit'[k] /\ Cat!K!Expandable(k)' THEN Cat!K!Min(X) ELSE 0
    BY DEF Cat!K!Available
  <2> HIDE DEF X, S
  <2>4. Cat!K!Min(X) = Least(S)
    BY <2>1, <2>2
  <2>5. QED
    BY <1>4, <2>3, <2>4 DEF AvailableIn, S
<1>9. QED
  BY <1>7, <1>8

\* A number of units there may be.
LEMMA AvailableFits ==
  ASSUME KitsRight', stock' \in [Products -> 0..MaxUnits], NEW k \in Products
  PROVE  Cat!K!Available(k)' \in 0..MaxUnits
<1>1. /\ comp' \in [Products -> [Products -> Nat]] /\ NoCycle(kit', comp')
      /\ IsFiniteSet(Products) /\ MaxUnits \in Nat
  BY ProductsFit DEF KitsRight
<1>2. AvailableIn(status', kit', comp', stock', k) \in 0..MaxUnits
  BY <1>1, AvailableIs
<1>3. QED
  BY <1>2, KitsAvailable

\* A step that changes nothing below k changes nothing that is available of k.
LEMMA AvailableStays ==
  ASSUME KitsRight, KitsRight', NEW k \in Products, status' = status,
         \A x \in BelowIn(kit', comp', {k}) :
            kit[x] = kit'[x] /\ comp[x] = comp'[x] /\ stock[x] = stock'[x]
  PROVE  Cat!K!Available(k)' = Cat!K!Available(k)
<1>1. /\ comp \in [Products -> [Products -> Nat]] /\ NoCycle(kit, comp)
      /\ comp' \in [Products -> [Products -> Nat]] /\ NoCycle(kit', comp')
      /\ IsFiniteSet(Products)
  BY ProductsFit DEF KitsRight
<1>2. Untouched(BelowIn(kit', comp', {k}), status', kit', comp', stock',
                status, kit, comp, stock)
  BY DEF Untouched
<1>3. SameAvailable(k, status', kit', comp', stock', status, kit, comp, stock)
  BY <1>1, <1>2, AvailableSame
<1>4. QED
  BY <1>3, KitsAvailable DEF SameAvailable

\* What is no kit is not sold as one.
LEMMA NoKitNoneAvailable ==
  ASSUME NEW k \in Products
  PROVE  /\ ~kit[k] => Cat!K!Available(k) = 0
         /\ ~kit'[k] => Cat!K!Available(k)' = 0
BY DEF Cat!K!Available

\* A new kit is empty, and what it is a part of could not be sold before.
LEMMA CreateKitTells ==
  ASSUME KitsRight, KitsRight', stock \in [Products -> 0..MaxUnits],
         NEW p \in Products, Cat!K!CreateKit(p), NEW k \in Products
  PROVE  Cat!K!Available(k)' = Cat!K!Available(k)
<1>1. /\ p \notin moved /\ kit' = [kit EXCEPT ![p] = TRUE] /\ ~kit[p]
      /\ UNCHANGED <<status, comp, stock, moved>>
  BY DEF Cat!K!CreateKit
<1>2. /\ kit \in [Products -> BOOLEAN] /\ \A c \in Products : comp[p][c] = 0
      /\ stock[p] = 0
  BY <1>1 DEF KitsRight
<1>3. \A q \in Products : PartsIn(kit', comp', q) = PartsIn(kit, comp, q)
  BY <1>1, <1>2 DEF PartsIn
<1>4. PartsIn(kit', comp', p) = {}
  BY <1>1, <1>2 DEF PartsIn
<1>5. \A T \in SUBSET Products : ClosedIn(kit', comp', T) <=> ClosedIn(kit, comp, T)
  BY <1>1, <1>2, <1>3, <1>4 DEF ClosedIn
<1>6. BelowIn(kit', comp', {k}) = BelowIn(kit, comp, {k})
  BY <1>5 DEF BelowIn
<1>7. CASE p \notin BelowIn(kit', comp', {k})
  <2>1. \A x \in BelowIn(kit', comp', {k}) :
          kit[x] = kit'[x] /\ comp[x] = comp'[x] /\ stock[x] = stock'[x]
    <3>1. \A x \in BelowIn(kit', comp', {k}) : x \in Products /\ x # p
      BY <1>7, BelowLeast
    <3>2. QED
      BY <1>1, <1>2, <3>1
  <2>2. QED
    BY <1>1, <2>1, AvailableStays
<1>8. CASE p \in BelowIn(kit', comp', {k})
  <2>1. ~ExpandableIn(status', kit', comp', k)
    BY <1>1, <1>2, <1>4, <1>8 DEF ExpandableIn
  <2>2. Cat!K!Available(k)' = 0
    BY <2>1, KitsAvailable DEF AvailableIn
  <2>3. AvailableIn(status, kit, comp, stock, k) = 0
    <3>1. /\ comp \in [Products -> [Products -> Nat]] /\ NoCycle(kit, comp)
          /\ IsFiniteSet(Products) /\ MaxUnits \in Nat
      BY ProductsFit DEF KitsRight
    <3>2. p \in BelowIn(kit, comp, {k})
      BY <1>6, <1>8
    <3>3. QED
      BY <1>1, <1>2, <3>1, <3>2, AvailableIs
  <2>4. QED
    BY <2>2, <2>3, KitsAvailable
<1>9. QED
  BY <1>7, <1>8

\* A step at p, which tells all above p, changes nothing else.
LEMMA TellTellsAll ==
  ASSUME KitsRight, KitsRight', NEW p \in Products,
         UNCHANGED <<status, kit>>, Cat!K!Tell(p),
         \A x \in Products : x # p => comp'[x] = comp[x] /\ stock'[x] = stock[x],
         NEW k \in Products, Cat!K!Available(k)' # Cat!K!Available(k)
  PROVE  told'[k] = Cat!K!Available(k)'
<1>1. kit[k]
  BY NoKitNoneAvailable
<1>2. p \in BelowIn(kit', comp', {k})
  <2>1. SUFFICES ASSUME p \notin BelowIn(kit', comp', {k}) PROVE FALSE
    OBVIOUS
  <2>2. \A x \in BelowIn(kit', comp', {k}) : x \in Products /\ x # p
    BY <2>1, BelowLeast
  <2>3. \A x \in BelowIn(kit', comp', {k}) :
          kit[x] = kit'[x] /\ comp[x] = comp'[x] /\ stock[x] = stock'[x]
    BY <2>2
  <2>4. QED
    BY <2>3, AvailableStays
<1>3. p # k => k \in Cat!K!Above(p)'
  <2>1. SUFFICES ASSUME p # k PROVE p \in Cat!K!Below(Cat!K!Parts(k))'
    BY DEF Cat!K!Above
  <2>2. PICK c \in PartsIn(kit', comp', k) : p \in BelowIn(kit', comp', {c})
    BY <1>2, <2>1, BelowParts
  <2>3. p \in BelowIn(kit', comp', PartsIn(kit', comp', k))
    BY <2>2 DEF BelowIn
  <2>4. QED
    BY <2>3
    DEF Cat!K!Below, Cat!K!Closed, Cat!K!Parts, BelowIn, ClosedIn, PartsIn
<1>4. told' = [q \in Products |-> IF kit[q] /\ (q = p \/ q \in Cat!K!Above(p)')
                                  THEN Cat!K!Available(q)' ELSE told[q]]
  BY DEF Cat!K!Tell
<1>5. QED
  BY <1>1, <1>3, <1>4

LEMMA KitsAnnounce ==
  ASSUME KitsRight, KitsRight', stock \in [Products -> 0..MaxUnits],
         [Cat!Next]_catalogue
  PROVE  Cat!K!Announces
<1> SUFFICES ASSUME <<kit, comp, stock>>' # <<kit, comp, stock>>,
                    NEW k \in Products,
                    Cat!K!Available(k)' # Cat!K!Available(k)
             PROVE  told'[k] = Cat!K!Available(k)'
  BY DEF Cat!K!Announces
<1>1. Cat!K!Next
  BY DEF Cat!Next, catalogue, Cat!kitVars
<1>2. ASSUME NEW p \in Products, Cat!K!CreateKit(p) PROVE FALSE
  BY <1>2, CreateKitTells
<1>3. ASSUME NEW p \in Products, NEW n \in 0..MaxUnits, Cat!K!Move(p, n)
      PROVE  told'[k] = Cat!K!Available(k)'
  <2>1. /\ UNCHANGED <<status, kit, comp>> /\ Cat!K!Tell(p)
        /\ stock' = [stock EXCEPT ![p] = n]
    BY <1>3 DEF Cat!K!Move
  <2>2. \A x \in Products : x # p => comp'[x] = comp[x] /\ stock'[x] = stock[x]
    BY <2>1
  <2>3. QED
    BY <2>1, <2>2, TellTellsAll
<1>4. ASSUME NEW q \in Products, NEW c \in Products, NEW n \in 0..MaxUnits,
             Cat!K!AddComponent(q, c, n) \/ Cat!K!ChangeComponent(q, c, n)
      PROVE  told'[k] = Cat!K!Available(k)'
  <2>1. /\ UNCHANGED <<status, kit, stock>> /\ Cat!K!Tell(q)
        /\ comp' = [comp EXCEPT ![q][c] = n]
    BY <1>4 DEF Cat!K!AddComponent, Cat!K!ChangeComponent
  <2>2. \A x \in Products : x # q => comp'[x] = comp[x] /\ stock'[x] = stock[x]
    BY <2>1 DEF KitsRight
  <2>3. QED
    BY <2>1, <2>2, TellTellsAll
<1>5. QED
  BY <1>1, <1>2, <1>3, <1>4
  DEF Cat!K!Next, Cat!K!SetStatus, Cat!K!ReadForEdit, Cat!K!SaveEdit,
      Cat!K!kitVars

KitsTyped ==
  /\ status \in [Products -> {"ACTIVE", "INACTIVE"}]
  /\ edit = None \/ edit \in [product : Products, status : {"ACTIVE", "INACTIVE"}]
  /\ comp \in [Products -> [Products -> 0..MaxUnits]]
  /\ stock \in [Products -> 0..MaxUnits]
  /\ told \in [Products -> 0..MaxUnits]
  /\ moved \subseteq Products
  /\ edits \in 0..MaxChanges

LEMMA KitsTypedInit == ASSUME Cat!Init PROVE KitsTyped
BY ProductsFit DEF Cat!Init, Cat!K!Init, KitsTyped

LEMMA TellTyped ==
  ASSUME KitsRight', told \in [Products -> 0..MaxUnits],
         stock' \in [Products -> 0..MaxUnits], NEW p \in Products, Cat!K!Tell(p)
  PROVE  told' \in [Products -> 0..MaxUnits]
<1>1. \A k \in Products : Cat!K!Available(k)' \in 0..MaxUnits
  BY AvailableFits
<1>2. told' = [q \in Products |-> IF kit[q] /\ (q = p \/ q \in Cat!K!Above(p)')
                                  THEN Cat!K!Available(q)' ELSE told[q]]
  BY DEF Cat!K!Tell
<1>3. QED
  BY <1>1, <1>2

LEMMA KitsTypedStep ==
  ASSUME KitsRight, KitsRight', KitsTyped, [Cat!Next]_catalogue
  PROVE  KitsTyped'
<1>1. CASE UNCHANGED catalogue
  BY <1>1 DEF catalogue, KitsTyped
<1>2. ASSUME NEW p \in Products, Cat!K!CreateKit(p) PROVE KitsTyped'
  BY <1>2 DEF Cat!K!CreateKit, KitsTyped
<1>3. ASSUME NEW p \in Products, NEW n \in 0..MaxUnits, Cat!K!Move(p, n)
      PROVE  KitsTyped'
  <2>1. /\ UNCHANGED <<status, edit, kit, comp>> /\ Cat!K!Tell(p)
        /\ stock' = [stock EXCEPT ![p] = n] /\ moved' = moved \cup {p}
        /\ edits < MaxChanges /\ edits' = edits + 1
    BY <1>3 DEF Cat!K!Move, Cat!K!Write
  <2>2. stock' \in [Products -> 0..MaxUnits]
    BY <2>1 DEF KitsTyped
  <2>3. told' \in [Products -> 0..MaxUnits]
    BY <2>1, <2>2, TellTyped DEF KitsTyped
  <2>4. edits' \in 0..MaxChanges
    BY <2>1, ProductsFit DEF KitsTyped
  <2>5. QED
    BY <2>1, <2>2, <2>3, <2>4 DEF KitsTyped
<1>4. ASSUME NEW q \in Products, NEW c \in Products, NEW n \in 0..MaxUnits,
             Cat!K!AddComponent(q, c, n) \/ Cat!K!ChangeComponent(q, c, n)
      PROVE  KitsTyped'
  <2>1. /\ UNCHANGED <<status, edit, kit, stock, moved>> /\ Cat!K!Tell(q)
        /\ comp' = [comp EXCEPT ![q][c] = n]
        /\ edits < MaxChanges /\ edits' = edits + 1
    BY <1>4 DEF Cat!K!AddComponent, Cat!K!ChangeComponent, Cat!K!Write
  <2>2. comp' \in [Products -> [Products -> 0..MaxUnits]]
    BY <2>1 DEF KitsTyped
  <2>3. told' \in [Products -> 0..MaxUnits]
    BY <2>1, TellTyped DEF KitsTyped
  <2>4. edits' \in 0..MaxChanges
    BY <2>1, ProductsFit DEF KitsTyped
  <2>5. QED
    BY <2>1, <2>2, <2>3, <2>4 DEF KitsTyped
<1>5. ASSUME NEW p \in Products,
             \/ \E s \in {"ACTIVE", "INACTIVE"} : Cat!K!SetStatus(p, s)
             \/ Cat!K!ReadForEdit(p)
      PROVE  KitsTyped'
  <2>1. edits < MaxChanges /\ edits' = edits + 1
    BY <1>5 DEF Cat!K!SetStatus, Cat!K!ReadForEdit, Cat!K!Write
  <2>2. edits' \in 0..MaxChanges
    BY <2>1, ProductsFit DEF KitsTyped
  <2>3. UNCHANGED <<comp, stock, told, moved>>
    BY <1>5 DEF Cat!K!SetStatus, Cat!K!ReadForEdit, Cat!K!kitVars
  <2>4. status' \in [Products -> {"ACTIVE", "INACTIVE"}]
    BY <1>5 DEF KitsTyped, Cat!K!SetStatus, Cat!K!ReadForEdit
  <2>5. edit' = None \/ edit' \in [product : Products, status : {"ACTIVE", "INACTIVE"}]
    BY <1>5 DEF KitsTyped, Cat!K!SetStatus, Cat!K!ReadForEdit, Cat!K!kitVars
  <2>6. QED
    BY <2>2, <2>3, <2>4, <2>5 DEF KitsTyped
<1>6. ASSUME Cat!K!SaveEdit PROVE KitsTyped'
  BY <1>6 DEF Cat!K!SaveEdit, KitsTyped
<1>7. CASE Cat!K!Next
  BY <1>2, <1>3, <1>4, <1>5, <1>6, <1>7 DEF Cat!K!Next
<1>8. ASSUME Cat!L!Next, UNCHANGED Cat!kitVars PROVE KitsTyped'
  <2>1. UNCHANGED <<edit, kit, comp, stock, moved, told>>
    BY <1>8 DEF Cat!kitVars
  <2>2. UNCHANGED status
    BY <1>8
    DEF Cat!L!Next, Cat!L!Link, Cat!L!AcceptSuggestion, Cat!L!Receive,
        Cat!L!Unlink, Cat!L!Validate, Cat!L!CallStep, Cat!L!Check,
        Cat!L!SaveLink, Cat!L!SaveUnlink, Cat!L!SaveValidation,
        Cat!L!Invalidate, Cat!L!SyncListing, Cat!L!ToggleConnection
  <2>3. UNCHANGED edits \/ \E n \in {1, 2} : Cat!L!Spend(n)
    BY <1>8
    DEF Cat!L!Next, Cat!L!Link, Cat!L!AcceptSuggestion,
        Cat!L!Unlink, Cat!L!Validate, Cat!L!CallStep, Cat!L!Check,
        Cat!L!SaveLink, Cat!L!SaveUnlink, Cat!L!SaveValidation,
        Cat!L!Invalidate, Cat!L!SyncListing, Cat!L!ToggleConnection
  <2>4. edits' \in 0..MaxChanges
    BY <2>3, ProductsFit DEF KitsTyped, Cat!L!Spend
  <2>5. QED
    BY <2>1, <2>2, <2>4 DEF KitsTyped
<1>9. QED
  BY <1>1, <1>7, <1>8 DEF Cat!Next

LEMMA KitsInvariant == OfficeSpec => [](KitsRight /\ KitsTyped)
<1>1. OfficeInit => KitsRight /\ KitsTyped
  BY KitsInit, KitsTypedInit DEF OfficeInit
<1>2. KitsRight /\ KitsTyped /\ [OfficeNext]_office => KitsRight' /\ KitsTyped'
  <2>1. [OfficeNext]_office => [Cat!Next]_catalogue
    BY DEF OfficeNext, office, catalogue
  <2>2. QED
    BY <2>1, KitsStep, KitsTypedStep
<1>3. QED
  BY <1>1, <1>2, PTL DEF OfficeSpec

\* What changes the availability of a kit sends an event about it, through all
\* levels of kits, unless it is the status of a product (queueChanges,
\* dependentProducts).
THEOREM KitsAreAnnounced == OfficeSpec => ChangesAnnounced
<1>1. [OfficeNext]_office => [Cat!Next]_catalogue
  BY DEF OfficeNext, office, catalogue
<1>2. /\ KitsRight /\ KitsTyped /\ (KitsRight /\ KitsTyped)'
      /\ [OfficeNext]_office
      => [Cat!K!Announces]_(Cat!K!vars)
  BY <1>1, KitsAnnounce DEF KitsTyped
<1>3. QED
  BY <1>2, KitsInvariant, PTL
  DEF OfficeSpec, ChangesAnnounced, Cat!ChangesAnnounced, Cat!K!ChangesAnnounced


-----------------------------------------------------------------------------
(* Logins (Sessions).  The row of the user has accepted nothing twice, a   *)
(* request that has read it knows whether it still is what it was, and a   *)
(* page the user left waits for nothing that would log it in.              *)

Ask == [op : Ses!Ops, page : Tabs \cup {None}, pc : Ses!Steps,
        stale : BOOLEAN, again : BOOLEAN, token : Nat, password : Nat,
        awaits : Asks \cup {None}]

Tab == [open : BOOLEAN, access : Nat, renewal : Asks \cup {None},
        out : BOOLEAN]

Past == [spent : [Ses!Numbers -> Nat], used : [Ses!Numbers -> Nat],
         access : Nat]

\* The row u, after i sessions and l links, with the history h.
RowRight(u, i, l, h) ==
  /\ u \in Ses!User /\ i \in Nat /\ l \in Nat /\ h \in Past
  /\ i + l + u.password <= MaxIssued + 1
  /\ u.refresh <= i
  /\ u.refresh # 0 => u.verified /\ h.access = u.password
                       /\ h.spent[u.refresh] = 0
  /\ \A t \in Ses!Numbers : h.spent[t] <= 1 /\ (t > i => h.spent[t] = 0)
  /\ \A n \in Ses!Numbers : h.used[n] <= 1 /\ (n > l => h.used[n] = 0)
  /\ \A k \in Ses!Kinds :
       u.link[k] <= l /\ (u.link[k] # 0 => h.used[u.link[k]] = 0)
  /\ u.link["verify"] # 0 => u.link["verify"] # u.link["reset"]

LogsIn(x) == x.op \in Ses!Refreshes \cup {"login"}

\* What the request x knows of the row.
AskKnows(x, u, i, l) ==
  /\ LogsIn(x) \/ x.op = "logout" => x.token <= i
  /\ x.op \in Ses!Refreshes /\ x.pc = "read" =>
       x.token # 0 /\ (x.token = u.refresh => x.password = u.password)
  /\ x.pc \in {"mail", "found"} => x.op \in Ses!Kinds
  /\ x.pc = "found" => x.token \in 1..l
  /\ x.pc = "wait" => x.op \in {"api", "change"}

\* A request that somebody waits for is that of a page, and a page the user
\* left waits for no login.
AskHeard(x, t) ==
  /\ ~x.stale /\ (LogsIn(x) \/ x.op \in {"api", "change"}) => x.page \in Tabs
  /\ ~x.stale /\ LogsIn(x) => ~t[x.page].out

TabsRight(t) == t \in [Tabs -> Tab] /\ \A p \in Tabs : t[p].out => t[p].access = 0

AsksRight(w, u, i, l, t) ==
  /\ w \in [Asks -> Ask]
  /\ \A c \in Asks : AskKnows(w[c], u, i, l) /\ AskHeard(w[c], t)

SessionsRight ==
  /\ RowRight(user, issued, links, spent)
  /\ cookie \in 0..issued
  /\ TabsRight(tab)
  /\ AsksRight(work, user, issued, links, tab)

LEMMA NoSession == None \notin Tabs /\ None \notin Asks /\ MaxIssued \in Nat
BY OfficeAssumption DEF Ses!ConstantsFit

\* An idle request, and one that is new.
LEMMA FreshAsk ==
  ASSUME NEW u, NEW i \in Nat, NEW l, NEW t
  PROVE  /\ Ses!Idle \in Ask /\ Ses!Idle.op = "none" /\ Ses!Idle.pc = "idle"
         /\ AskKnows(Ses!Idle, u, i, l) /\ AskHeard(Ses!Idle, t)
BY DEF Ses!Idle, Ask, AskKnows, AskHeard, LogsIn, Ses!Ops, Ses!Steps,
       Ses!Kinds, Ses!Refreshes

LEMMA SessionsInit == ASSUME Ses!Init PROVE SessionsRight
<1>1. RowRight(user, issued, links, spent)
  BY NoSession
  DEF Ses!Init, RowRight, Ses!User, Past, Ses!Kinds, Ses!Numbers
<1>2. TabsRight(tab)
  BY DEF Ses!Init, TabsRight, Tab, Ses!Closed
<1>3. AsksRight(work, user, issued, links, tab)
  <2>1. work = [c \in Asks |-> Ses!Idle] /\ issued \in Nat
    BY DEF Ses!Init
  <2>2. QED
    BY <2>1, FreshAsk DEF AsksRight
<1>4. QED
  BY <1>1, <1>2, <1>3 DEF Ses!Init, SessionsRight

\* Nothing changes at the server.
Quiet == UNCHANGED <<user, issued, links, spent>>

\* One request goes on, and nobody hears of it.
LEMMA QuietAsk ==
  ASSUME SessionsRight, Quiet, UNCHANGED <<cookie, tab>>,
         NEW c \in Asks, NEW x \in Ask, work' = [work EXCEPT ![c] = x],
         AskKnows(x, user, issued, links), AskHeard(x, tab)
  PROVE  SessionsRight'
<1>1. AsksRight(work', user, issued, links, tab)
  BY DEF SessionsRight, AsksRight
<1>2. QED
  BY <1>1 DEF SessionsRight, Quiet

LEMMA QuietStep ==
  ASSUME SessionsRight, Quiet, cookie' \in 0..issued, TabsRight(tab'),
         AsksRight(work', user, issued, links, tab')
  PROVE  SessionsRight'
BY DEF SessionsRight, Quiet

\* The answer of a handler.
LEMMA AnsweredAsk ==
  ASSUME SessionsRight, NEW c \in Asks, NEW pc \in {"ok", "no"},
         NEW n \in 0..issued, Ses!Answered(c, pc, n)
  PROVE  \E x \in Ask : /\ work' = [work EXCEPT ![c] = x]
                        /\ x.pc = pc /\ x.op = work[c].op
                        /\ x.page = work[c].page /\ x.stale = work[c].stale
                        /\ x.token = n
<1> DEFINE w == IF work[c].op = "change" THEN work[c].password ELSE 0
           x == [work[c] EXCEPT !.pc = pc, !.token = n, !.password = w]
<1>1. work[c] \in Ask /\ issued \in Nat /\ work \in [Asks -> Ask]
  BY DEF SessionsRight, AsksRight, RowRight
<1>2. w \in Nat
  BY <1>1 DEF Ask
<1>3. work' = [work EXCEPT ![c].pc = pc, ![c].token = n, ![c].password = w]
  BY DEF Ses!Answered
<1> HIDE DEF w
<1>4. x \in Ask
  <2>1. n \in Nat /\ pc \in Ses!Steps
    BY <1>1 DEF Ses!Steps
  <2>2. QED
    BY <1>1, <1>2, <2>1 DEF Ask
<1>5. /\ x.pc = pc /\ x.op = work[c].op
      /\ x.page = work[c].page /\ x.stale = work[c].stale
      /\ x.token = n
  BY <1>1 DEF Ask
<1>6. work' = [work EXCEPT ![c] = x]
  BY <1>1, <1>3
<1>7. QED
  BY <1>4, <1>5, <1>6

\* An answer is right however the row and the pages have changed since.
LEMMA AnswerRight ==
  ASSUME SessionsRight, NEW c \in Asks, NEW x \in Ask, NEW u, NEW i \in Nat,
         NEW l, x.pc \in {"ok", "no"}, x.op = work[c].op,
         x.page = work[c].page, x.stale = work[c].stale, x.token <= i
  PROVE  AskKnows(x, u, i, l) /\ AskHeard(x, tab)
BY DEF SessionsRight, AsksRight, AskKnows, AskHeard, LogsIn

LEMMA AnsweredStep ==
  ASSUME SessionsRight, Quiet, UNCHANGED <<cookie, tab>>,
         NEW c \in Asks, NEW pc \in {"ok", "no"}, Ses!Answered(c, pc, 0)
  PROVE  SessionsRight'
<1>1. issued \in Nat
  BY DEF SessionsRight, RowRight
<1>2. PICK x \in Ask : /\ work' = [work EXCEPT ![c] = x]
                      /\ x.pc = pc /\ x.op = work[c].op
                      /\ x.page = work[c].page /\ x.stale = work[c].stale
                      /\ x.token = 0
  BY <1>1, AnsweredAsk
<1>3. AskKnows(x, user, issued, links) /\ AskHeard(x, tab)
  BY <1>1, <1>2, AnswerRight
<1>4. QED
  BY <1>2, <1>3, QuietAsk

LEMMA AskFacts ==
  ASSUME SessionsRight, NEW c \in Asks
  PROVE  /\ work \in [Asks -> Ask] /\ work[c] \in Ask
         /\ AskKnows(work[c], user, issued, links) /\ AskHeard(work[c], tab)
         /\ AsksRight(work, user, issued, links, tab)
         /\ issued \in Nat /\ links \in Nat /\ cookie \in 0..issued
         /\ user \in Ses!User /\ user.password \in Nat /\ user.refresh <= issued
         /\ tab \in [Tabs -> Tab]
         /\ \A p \in Tabs : tab[p] \in Tab /\ (tab[p].out => tab[p].access = 0)
BY DEF SessionsRight, AsksRight, RowRight, TabsRight, Ses!User

\* A request that is read, but does not refresh.
LEMMA ToStep ==
  ASSUME SessionsRight, Quiet, UNCHANGED <<cookie, tab>>, NEW c \in Asks,
         NEW pc \in {"read", "valid"}, work[c].op \in {"login", "change", "api"},
         Ses!To(c, pc)
  PROVE  SessionsRight'
<1> DEFINE x == [work[c] EXCEPT !.pc = pc]
<1> USE AskFacts
<1>1. x \in Ask
  BY DEF Ask, Ses!Steps
<1>2. AskKnows(x, user, issued, links) /\ AskHeard(x, tab)
  BY DEF Ask, AskKnows, AskHeard, LogsIn, Ses!Refreshes
<1>3. work' = [work EXCEPT ![c] = x]
  BY DEF Ses!To
<1>4. QED
  BY <1>1, <1>2, <1>3, QuietAsk

LEMMA ReadStep ==
  ASSUME SessionsRight, NEW c \in Asks,
         Ses!ReadForLogin(c) \/ Ses!Validate(c) \/ Ses!ReadForChange(c)
  PROVE  SessionsRight'
<1>1. Quiet /\ UNCHANGED <<cookie, tab>>
  BY DEF Ses!ReadForLogin, Ses!Validate, Ses!ReadForChange, Quiet,
         Ses!Unchanged_row, Ses!Unchanged_issue, Ses!Unchanged_browser
<1>2. work[c].op \in {"login", "change", "api"}
  BY DEF Ses!ReadForLogin, Ses!Validate, Ses!ReadForChange
<1>3. \E pc \in {"ok", "no", "read", "valid"} :
        \/ pc \in {"ok", "no"} /\ Ses!Answered(c, pc, 0)
        \/ pc \in {"read", "valid"} /\ Ses!To(c, pc)
  BY DEF Ses!ReadForLogin, Ses!Validate, Ses!ReadForChange, Ses!Verdict
<1>4. QED
  BY <1>1, <1>2, <1>3, AnsweredStep, ToStep

LEMMA ReadForRefreshStep ==
  ASSUME SessionsRight, NEW c \in Asks, Ses!ReadForRefresh(c)
  PROVE  SessionsRight'
<1> DEFINE x == [work[c] EXCEPT !.pc = "read", !.password = user.password]
<1> USE AskFacts
<1>1. Quiet /\ UNCHANGED <<cookie, tab>>
  BY DEF Ses!ReadForRefresh, Quiet, Ses!Unchanged_row, Ses!Unchanged_issue,
         Ses!Unchanged_browser
<1>2. CASE Ses!Answered(c, "no", 0)
  BY <1>1, <1>2, AnsweredStep
<1>3. CASE /\ work[c].token # 0 /\ work[c].token = user.refresh
           /\ work' = [work EXCEPT ![c].pc = "read",
                                   ![c].password = user.password]
  <2>1. x \in Ask /\ work[c].op \in Ses!Refreshes
    BY DEF Ask, Ses!Steps, Ses!ReadForRefresh
  <2>2. AskKnows(x, user, issued, links) /\ AskHeard(x, tab)
    BY <1>3, <2>1 DEF Ask, AskKnows, AskHeard, LogsIn
  <2>3. work' = [work EXCEPT ![c] = x]
    BY <1>3
  <2>4. QED
    BY <1>1, <2>1, <2>2, <2>3, QuietAsk
<1>4. QED
  BY <1>2, <1>3 DEF Ses!ReadForRefresh

\* A request that a page sends with its access token.
LEMMA WorkStep ==
  ASSUME SessionsRight, NEW p \in Tabs, NEW c \in Asks, Ses!Work(p, c)
  PROVE  SessionsRight'
<1> USE AskFacts
<1>1. Quiet /\ UNCHANGED <<cookie, tab>>
  BY DEF Ses!Work, Quiet, Ses!Unchanged_row, Ses!Unchanged_issue,
         Ses!Unchanged_browser
<1>2. PICK op \in {"api", "change"} : Ses!Request(c, p, op, tab[p].access)
  BY DEF Ses!Work
<1> DEFINE w == IF op \in {"login", "change"} THEN user.password ELSE 0
           x == [Ses!Idle EXCEPT !.op = op, !.page = p, !.pc = "sent",
                                 !.token = tab[p].access, !.password = w]
<1>3. work' = [work EXCEPT ![c] = x]
  BY <1>2 DEF Ses!Request
<1>4. w \in Nat /\ tab[p].access \in Nat
  BY DEF Tab
<1> HIDE DEF w
<1>5. x \in Ask /\ AskKnows(x, user, issued, links) /\ AskHeard(x, tab)
  BY <1>4 DEF Ses!Idle, Ask, AskKnows, AskHeard, LogsIn, Ses!Refreshes,
              Ses!Ops, Ses!Steps
<1>6. QED
  BY <1>1, <1>3, <1>5, QuietAsk

LEMMA JoinStep ==
  ASSUME SessionsRight, NEW c \in Asks, Ses!Join(c)
  PROVE  SessionsRight'
<1> DEFINE r == tab[work[c].page].renewal
           x == [work[c] EXCEPT !.pc = "wait", !.awaits = r]
<1> USE AskFacts
<1>1. /\ Quiet /\ UNCHANGED <<cookie, tab>>
      /\ work[c].op \in {"api", "change"} /\ ~work[c].stale
      /\ work' = [work EXCEPT ![c].pc = "wait", ![c].awaits = r]
  BY DEF Ses!Join, Ses!Renewable, Quiet, Ses!Unchanged_row,
         Ses!Unchanged_issue, Ses!Unchanged_browser
<1>2. r \in Asks \cup {None}
  BY <1>1 DEF AskHeard, Tab
<1> HIDE DEF r
<1>3. x \in Ask /\ AskKnows(x, user, issued, links) /\ AskHeard(x, tab)
  BY <1>1, <1>2 DEF Ask, AskKnows, AskHeard, LogsIn, Ses!Refreshes, Ses!Steps
<1>4. work' = [work EXCEPT ![c] = x]
  BY <1>1
<1>5. QED
  BY <1>1, <1>3, <1>4, QuietAsk

\* Links are asked for and followed from anywhere.
LEMMA LinkStep ==
  ASSUME SessionsRight, NEW c \in Asks, NEW k \in Ses!Kinds,
         Ses!AskLink(c, k) \/ \E l \in Ses!Numbers : Ses!FollowLink(c, k, l)
  PROVE  SessionsRight'
<1> USE AskFacts
<1>1. Quiet /\ UNCHANGED <<cookie, tab>>
  BY DEF Ses!AskLink, Ses!FollowLink, Quiet, Ses!Unchanged_row,
         Ses!Unchanged_issue, Ses!Unchanged_browser
<1>2. CASE Ses!AskLink(c, k)
  <2> DEFINE x == [Ses!LinkCall(k) EXCEPT !.pc = "mail"]
  <2>1. x \in Ask /\ AskKnows(x, user, issued, links) /\ AskHeard(x, tab)
    BY DEF Ses!LinkCall, Ses!Idle, Ask, AskKnows, AskHeard, LogsIn,
           Ses!Refreshes, Ses!Ops, Ses!Steps, Ses!Kinds
  <2>2. work' = [work EXCEPT ![c] = x]
    BY <1>2 DEF Ses!AskLink
  <2>3. QED
    BY <1>1, <2>1, <2>2, QuietAsk
<1>3. ASSUME NEW l \in Ses!Numbers, Ses!FollowLink(c, k, l)
      PROVE  SessionsRight'
  <2> DEFINE x == [Ses!LinkCall(k) EXCEPT !.pc = "found", !.token = l]
  <2>0. l \in 1..links
    BY <1>3 DEF Ses!FollowLink
  <2>1. l \in 1..links /\ l \in Nat
    BY <2>0
  <2>2. x \in Ask /\ AskKnows(x, user, issued, links) /\ AskHeard(x, tab)
    BY <2>1 DEF Ses!LinkCall, Ses!Idle, Ask, AskKnows, AskHeard, LogsIn,
                Ses!Refreshes, Ses!Ops, Ses!Steps, Ses!Kinds
  <2>3. work' = [work EXCEPT ![c] = x]
    BY <1>3 DEF Ses!FollowLink
  <2>4. QED
    BY <1>1, <2>2, <2>3, QuietAsk
<1>4. QED
  BY <1>2, <1>3


\* What the pages hear: the cookie, a request that is over, a page that has
\* forgotten its session.
LEMMA CookieRight ==
  ASSUME SessionsRight, NEW c \in Asks, Ses!SetCookie(c)
  PROVE  cookie' \in 0..issued
BY AskFacts DEF Ses!SetCookie, AskKnows, LogsIn, Ask

LEMMA IdleRight ==
  ASSUME NEW w, NEW u, NEW i \in Nat, NEW l, NEW t, AsksRight(w, u, i, l, t),
         NEW c \in Asks
  PROVE  AsksRight([w EXCEPT ![c] = Ses!Idle], u, i, l, t)
BY FreshAsk DEF AsksRight

LEMMA ClearedRight ==
  ASSUME NEW w, NEW u, NEW i, NEW l, NEW t, AsksRight(w, u, i, l, t), NEW p
  PROVE  AsksRight(Ses!Cleared(w, p), u, i, l, t)
<1>1. ASSUME NEW c \in Asks
      PROVE  /\ [w[c] EXCEPT !.stale = TRUE] \in Ask
             /\ AskKnows([w[c] EXCEPT !.stale = TRUE], u, i, l)
             /\ AskHeard([w[c] EXCEPT !.stale = TRUE], t)
  BY DEF AsksRight, Ask, AskKnows, AskHeard, LogsIn
<1>2. QED
  BY <1>1 DEF AsksRight, Ses!Cleared

\* Pages that the user comes back to do no harm.
LEMMA PagesHeard ==
  ASSUME NEW w, NEW u, NEW i, NEW l, NEW t, AsksRight(w, u, i, l, t), NEW s,
         \A p \in Tabs : s[p].out => t[p].out
  PROVE  AsksRight(w, u, i, l, s)
BY DEF AsksRight, AskHeard

LEMMA EmptyRight ==
  ASSUME NEW t, TabsRight(t), NEW p \in Tabs
  PROVE  /\ TabsRight([t EXCEPT ![p] = Ses!Empty(@)])
         /\ \A q \in Tabs : [t EXCEPT ![p] = Ses!Empty(@)][q].out => t[q].out
BY DEF TabsRight, Tab, Ses!Empty

LEMMA HearLoginStep ==
  ASSUME SessionsRight, NEW c \in Asks, Ses!HearLogin(c)
  PROVE  SessionsRight'
<1> DEFINE p == work[c].page
<1> USE AskFacts
<1>1. /\ Quiet /\ Ses!SetCookie(c) /\ work[c].op = "login"
      /\ work' = [work EXCEPT ![c] = Ses!Idle]
      /\ tab' = IF work[c].pc = "ok" /\ ~work[c].stale
                  THEN [tab EXCEPT ![p].access = work[c].password] ELSE tab
  BY DEF Ses!HearLogin, Quiet, Ses!Unchanged_row, Ses!Unchanged_issue
<1>2. ~work[c].stale => p \in Tabs /\ ~tab[p].out
  BY <1>1 DEF AskHeard, LogsIn
<1>3. work[c].password \in Nat
  BY DEF Ask
<1>4. TabsRight(tab') /\ \A q \in Tabs : tab'[q].out => tab[q].out
  <2>1. CASE work[c].stale \/ work[c].pc # "ok"
    BY <1>1, <2>1 DEF SessionsRight
  <2>2. CASE work[c].pc = "ok" /\ ~work[c].stale
    <3>1. tab' = [tab EXCEPT ![p] = [tab[p] EXCEPT !.access = work[c].password]]
          /\ p \in Tabs /\ ~tab[p].out
      BY <1>1, <1>2, <2>2
    <3> HIDE DEF p
    <3>2. [tab[p] EXCEPT !.access = work[c].password] \in Tab
          /\ ~[tab[p] EXCEPT !.access = work[c].password].out
      BY <1>3, <3>1 DEF Tab
    <3>3. QED
      BY <3>1, <3>2 DEF TabsRight
  <2>3. QED
    BY <2>1, <2>2
<1>5. AsksRight(work', user, issued, links, tab')
  BY <1>1, <1>4, IdleRight, PagesHeard
<1>6. QED
  BY <1>1, <1>4, <1>5, CookieRight, QuietStep

LEMMA HearLogoutStep ==
  ASSUME SessionsRight, NEW c \in Asks, Ses!HearLogout(c)
  PROVE  SessionsRight'
<1>1. /\ Quiet /\ Ses!SetCookie(c) /\ UNCHANGED tab
      /\ work' = [work EXCEPT ![c] = Ses!Idle]
  BY DEF Ses!HearLogout, Quiet, Ses!Unchanged_row, Ses!Unchanged_issue
<1>2. AsksRight(work', user, issued, links, tab')
  BY <1>1, AskFacts, IdleRight
<1>3. TabsRight(tab')
  BY <1>1 DEF SessionsRight
<1>4. QED
  BY <1>1, <1>2, <1>3, CookieRight, QuietStep

LEMMA HearWorkStep ==
  ASSUME SessionsRight, NEW c \in Asks, Ses!HearWork(c)
  PROVE  SessionsRight'
<1> DEFINE p == work[c].page
           w == [work EXCEPT ![c] = Ses!Idle]
<1>1. /\ Quiet /\ Ses!SetCookie(c) /\ work[c].op \in {"api", "change"}
      /\ \/ /\ ~work[c].stale
            /\ tab' = [tab EXCEPT ![p] = Ses!Empty(@)]
            /\ work' = Ses!Cleared(w, p)
         \/ tab' = tab /\ work' = w
  BY DEF Ses!HearWork, Quiet, Ses!Unchanged_row, Ses!Unchanged_issue
<1>2. AsksRight(w, user, issued, links, tab) /\ TabsRight(tab)
  BY AskFacts, IdleRight DEF SessionsRight
<1>3. ~work[c].stale => p \in Tabs
  BY <1>1, AskFacts DEF AskHeard
<1> HIDE DEF w, p
<1>4. AsksRight(Ses!Cleared(w, p), user, issued, links, tab)
  BY <1>2, ClearedRight
<1>5. TabsRight(tab') /\ AsksRight(work', user, issued, links, tab')
  <2>1. CASE tab' = tab /\ work' = w
    BY <1>2, <2>1
  <2>2. CASE /\ ~work[c].stale
             /\ tab' = [tab EXCEPT ![p] = Ses!Empty(@)]
             /\ work' = Ses!Cleared(w, p)
    <3>1. TabsRight(tab') /\ \A q \in Tabs : tab'[q].out => tab[q].out
      BY <1>2, <1>3, <2>2, EmptyRight
    <3>2. QED
      BY <1>4, <2>2, <3>1, PagesHeard
  <2>3. QED
    BY <1>1, <2>1, <2>2
<1>6. QED
  BY <1>1, <1>5, CookieRight, QuietStep


LEMMA ReleaseRight ==
  ASSUME NEW c, NEW x \in Tab
  PROVE  /\ Ses!ReleaseRenewal(c, x) \in Tab
         /\ Ses!ReleaseRenewal(c, x).out = x.out
         /\ Ses!ReleaseRenewal(c, x).access = x.access
BY DEF Ses!ReleaseRenewal, Tab

\* The end of a renewal: a page that takes the session was not left.
LEMMA EndRefreshRight ==
  ASSUME SessionsRight, NEW c \in Asks, work[c].op \in Ses!Refreshes,
         NEW ok, Ses!EndRefresh(c, ok)
  PROVE  TabsRight(tab') /\ AsksRight(work', user, issued, links, tab')
<1> DEFINE p == work[c].page
           rest == [d \in Asks |-> IF d = c \/ d \in Ses!Waiting(c)
                                     THEN Ses!Idle ELSE work[d]]
           sent(d) == [work[d] EXCEPT !.pc = "sent", !.again = TRUE,
                         !.awaits = None, !.token = work[c].password]
<1> USE AskFacts
<1>1. AsksRight(rest, user, issued, links, tab)
  BY FreshAsk DEF AsksRight
<1>2. p \in Tabs \cup {None} /\ TabsRight(tab)
  BY DEF Ask, SessionsRight
<1>3. ASSUME ~work[c].stale
      PROVE  p \in Tabs /\ ~tab[p].out
  BY <1>3 DEF AskHeard, LogsIn
<1>4. CASE /\ Ses!Renewed(c, ok)
           /\ tab' = [tab EXCEPT ![p] =
                Ses!ReleaseRenewal(c, [@ EXCEPT !.access = work[c].password])]
           /\ work' = [d \in Asks |-> IF d \in Ses!Waiting(c) THEN sent(d)
                                                              ELSE rest[d]]
  <2>1. p \in Tabs /\ ~tab[p].out
    BY <1>3, <1>4 DEF Ses!Renewed
  <2>2. work[c].password \in Nat
    BY DEF Ask
  <2>3. ASSUME NEW d \in Ses!Waiting(c)
        PROVE  /\ sent(d) \in Ask /\ AskKnows(sent(d), user, issued, links)
               /\ AskHeard(sent(d), tab)
    <3>1. d \in Asks /\ work[d].pc = "wait"
      BY <2>3 DEF Ses!Waiting
    <3>2. work[d] \in Ask /\ work[d].op \in {"api", "change"}
          /\ AskHeard(work[d], tab)
      BY <3>1 DEF AskKnows
    <3>3. QED
      BY <2>2, <3>2 DEF Ask, Ses!Steps, AskKnows, AskHeard, LogsIn,
                        Ses!Refreshes
  <2>4. AsksRight(work', user, issued, links, tab)
    <3> HIDE DEF rest, sent
    <3>1. ASSUME NEW d \in Asks
          PROVE  /\ work'[d] \in Ask /\ AskKnows(work'[d], user, issued, links)
                 /\ AskHeard(work'[d], tab)
      BY <1>1, <1>4, <2>3 DEF AsksRight
    <3>2. QED
      BY <1>4, <3>1 DEF AsksRight
  <2> DEFINE x == [tab[p] EXCEPT !.access = work[c].password]
  <2>5. x \in Tab /\ ~x.out
    BY <2>1, <2>2 DEF Tab
  <2>6. tab' = [tab EXCEPT ![p] = Ses!ReleaseRenewal(c, x)]
    BY <1>4, <2>1
  <2> HIDE DEF x
  <2>7. TabsRight(tab') /\ \A q \in Tabs : tab'[q].out => tab[q].out
    BY <1>2, <2>1, <2>5, <2>6, ReleaseRight DEF TabsRight
  <2>8. QED
    BY <2>4, <2>7, PagesHeard
<1>5. CASE tab' = [tab EXCEPT ![p] = Ses!Empty(@)] /\ work' = Ses!Cleared(rest, p)
  <2> HIDE DEF rest, p
  <2>1. AsksRight(work', user, issued, links, tab)
    BY <1>1, <1>5, ClearedRight
  <2>2. TabsRight(tab') /\ \A q \in Tabs : tab'[q].out => tab[q].out
    <3>1. CASE p \in Tabs
      BY <1>2, <1>5, <3>1, EmptyRight
    <3>2. CASE p \notin Tabs
      <4>1. tab' = tab
        BY <1>5, <3>2
      <4>2. QED
        BY <1>2, <4>1
    <3>3. QED
      BY <3>1, <3>2
  <2>3. QED
    BY <2>1, <2>2, PagesHeard
<1>6. CASE /\ tab' = IF p = None THEN tab
                     ELSE [tab EXCEPT ![p] = Ses!ReleaseRenewal(c, @)]
           /\ work' = rest
  <2> HIDE DEF rest, p
  <2>1. TabsRight(tab') /\ \A q \in Tabs : tab'[q].out => tab[q].out
    BY <1>2, <1>6, ReleaseRight DEF TabsRight
  <2>2. QED
    BY <1>1, <1>6, <2>1, PagesHeard
<1>7. QED
  BY <1>4, <1>5, <1>6 DEF Ses!EndRefresh

LEMMA HearRefreshStep ==
  ASSUME SessionsRight, NEW c \in Asks, Ses!HearRefresh(c)
  PROVE  SessionsRight'
<1>1. /\ Quiet /\ Ses!SetCookie(c) /\ work[c].op \in Ses!Refreshes
      /\ Ses!EndRefresh(c, work[c].pc = "ok")
  BY DEF Ses!HearRefresh, Quiet, Ses!Unchanged_row, Ses!Unchanged_issue
<1>2. TabsRight(tab') /\ AsksRight(work', user, issued, links, tab')
  BY <1>1, EndRefreshRight
<1>3. QED
  BY <1>1, <1>2, CookieRight, QuietStep

LEMMA LoseAnswerStep ==
  ASSUME SessionsRight, NEW c \in Asks, Ses!LoseAnswer(c)
  PROVE  SessionsRight'
<1>1. Quiet /\ UNCHANGED cookie
  BY DEF Ses!LoseAnswer, Quiet, Ses!Unchanged_row, Ses!Unchanged_issue
<1>2. CASE work[c].op \in Ses!Refreshes /\ Ses!EndRefresh(c, FALSE)
  BY <1>1, <1>2, AskFacts, EndRefreshRight, QuietStep
<1>3. CASE work' = [work EXCEPT ![c] = Ses!Idle] /\ UNCHANGED tab
  <2>1. AsksRight(work', user, issued, links, tab') /\ TabsRight(tab')
    BY <1>3, AskFacts, IdleRight DEF SessionsRight
  <2>2. QED
    BY <1>1, <2>1, AskFacts, QuietStep
<1>4. QED
  BY <1>2, <1>3 DEF Ses!LoseAnswer


\* A request for a session, or for its end.
SessionAsk(op, p, n) ==
  [Ses!Idle EXCEPT !.op = op, !.page = p, !.pc = "sent", !.token = n]

LoginAsk(p, m) ==
  [Ses!Idle EXCEPT !.op = "login", !.page = p, !.pc = "sent", !.token = 0,
                   !.password = m]

LogoutAsk(n) == [Ses!Idle EXCEPT !.op = "logout", !.pc = "sent", !.token = n]

LEMMA SessionAsks ==
  ASSUME NEW op \in {"boot", "renew"}, NEW p \in Tabs, NEW n \in Nat,
         NEW m \in Nat
  PROVE  /\ LET x == SessionAsk(op, p, n) IN
            x \in Ask /\ x.op = op /\ x.page = p /\ x.pc = "sent" /\ x.token = n
         /\ LET x == LoginAsk(p, m) IN
            x \in Ask /\ x.op = "login" /\ x.page = p /\ x.pc = "sent"
              /\ x.token = 0
         /\ LET x == LogoutAsk(n) IN
            x \in Ask /\ x.op = "logout" /\ x.pc = "sent" /\ x.token = n
<1> USE DEF Ask, Ses!Idle, Ses!Ops, Ses!Steps, Ses!Refreshes
<1>1. LET x == SessionAsk(op, p, n) IN
      x \in Ask /\ x.op = op /\ x.page = p /\ x.pc = "sent" /\ x.token = n
  BY DEF SessionAsk
<1>2. LET x == LoginAsk(p, m) IN
      x \in Ask /\ x.op = "login" /\ x.page = p /\ x.pc = "sent" /\ x.token = 0
  BY DEF LoginAsk
<1>3. LET x == LogoutAsk(n) IN
      x \in Ask /\ x.op = "logout" /\ x.pc = "sent" /\ x.token = n
  BY DEF LogoutAsk
<1>4. QED
  BY <1>1, <1>2, <1>3

LEMMA SessionAskRight ==
  ASSUME SessionsRight, NEW x \in Ask, NEW t,
         x.op \in {"boot", "renew", "login", "logout"}, x.pc = "sent",
         x.token <= issued, x.op # "logout" => x.page \in Tabs /\ ~t[x.page].out
  PROVE  AskKnows(x, user, issued, links) /\ AskHeard(x, t)
BY DEF AskKnows, AskHeard, LogsIn, Ses!Refreshes

LEMMA RenewStep ==
  ASSUME SessionsRight, NEW c \in Asks, NEW d \in Asks, Ses!Renew(c, d)
  PROVE  SessionsRight'
<1> DEFINE p == work[c].page
           x == [work[c] EXCEPT !.pc = "wait", !.awaits = d]
           y == SessionAsk("renew", p, cookie)
<1> USE AskFacts
<1>1. /\ Quiet /\ UNCHANGED cookie
      /\ work[c].op \in {"api", "change"} /\ work[c].pc = "no"
      /\ ~work[c].stale /\ tab[p].access # 0 /\ work[d].pc = "idle"
      /\ tab' = [tab EXCEPT ![p].renewal = d]
      /\ work' = [work EXCEPT ![c].pc = "wait", ![c].awaits = d, ![d] = y]
  BY DEF Ses!Renew, Ses!Renewable, SessionAsk, Quiet, Ses!Unchanged_row,
         Ses!Unchanged_issue
<1>2. p \in Tabs /\ ~tab[p].out /\ c # d
  BY <1>1 DEF AskHeard
<1>3. x \in Ask /\ AskKnows(x, user, issued, links) /\ AskHeard(x, tab)
  BY <1>1 DEF Ask, AskKnows, AskHeard, LogsIn, Ses!Refreshes, Ses!Steps
<1>4. y \in Ask /\ AskKnows(y, user, issued, links) /\ AskHeard(y, tab)
  <2>1. cookie \in Nat /\ cookie <= issued /\ 0 <= issued /\ user.password \in Nat
    OBVIOUS
  <2> HIDE AskFacts
  <2>2. QED
    BY <1>2, <2>1, SessionAsks, SessionAskRight
<1>5. work' = [[work EXCEPT ![c] = x] EXCEPT ![d] = y]
  <2> HIDE DEF y
  <2>1. QED
    BY <1>1, <1>2
<1>6. AsksRight(work', user, issued, links, tab)
  <2> HIDE DEF x, y
  <2>1. QED
    BY <1>3, <1>4, <1>5 DEF AsksRight
<1>7. TabsRight(tab') /\ \A q \in Tabs : tab'[q].out => tab[q].out
  <2> HIDE DEF p
  <2>1. QED
    BY <1>1 DEF TabsRight, Tab
<1>8. QED
  BY <1>1, <1>6, <1>7, PagesHeard, QuietStep

\* A page that is loaded again has been left by nobody.
LEMMA LoadStep ==
  ASSUME SessionsRight, NEW p \in Tabs, NEW c \in Asks, Ses!Load(p, c)
  PROVE  SessionsRight'
<1> DEFINE y == SessionAsk("boot", p, cookie)
           pg == [Ses!Closed EXCEPT !.open = TRUE]
<1> USE AskFacts
<1>1. /\ Quiet /\ UNCHANGED cookie
      /\ tab' = [tab EXCEPT ![p] = pg]
      /\ work' = [Ses!Forgotten(p) EXCEPT ![c] = y]
  BY DEF Ses!Load, SessionAsk, Quiet, Ses!Unchanged_row, Ses!Unchanged_issue
<1>2. pg \in Tab /\ ~pg.out
  BY DEF Ses!Closed, Tab
<1> HIDE DEF pg
<1>3. TabsRight(tab') /\ ~tab'[p].out
      /\ \A q \in Tabs : tab'[q].out => tab[q].out
  BY <1>1, <1>2 DEF TabsRight
<1>4. AsksRight(Ses!Forgotten(p), user, issued, links, tab)
  <2>1. ASSUME NEW d \in Asks
        PROVE  LET z == [work[d] EXCEPT !.page = None, !.stale = TRUE] IN
               /\ z \in Ask /\ AskKnows(z, user, issued, links)
               /\ AskHeard(z, tab)
    BY DEF Ask, AskKnows, AskHeard, LogsIn
  <2>2. ASSUME NEW d \in Asks
        PROVE  LET z == Ses!Forgotten(p)[d] IN
               /\ z \in Ask /\ AskKnows(z, user, issued, links)
               /\ AskHeard(z, tab)
    BY <2>1, FreshAsk DEF Ses!Forgotten
  <2>3. QED
    BY <2>2 DEF AsksRight, Ses!Forgotten
<1>5. AsksRight(Ses!Forgotten(p), user, issued, links, tab')
  BY <1>3, <1>4, PagesHeard
<1>6. y \in Ask /\ AskKnows(y, user, issued, links) /\ AskHeard(y, tab')
  <2>1. cookie \in Nat /\ cookie <= issued /\ 0 <= issued /\ user.password \in Nat
    OBVIOUS
  <2> HIDE AskFacts
  <2>2. QED
    BY <1>3, <2>1, SessionAsks, SessionAskRight
<1>7. AsksRight(work', user, issued, links, tab')
  <2> HIDE DEF y
  <2>1. QED
    BY <1>1, <1>5, <1>6 DEF AsksRight
<1>8. QED
  BY <1>1, <1>3, <1>7, QuietStep

LEMMA LoginStep ==
  ASSUME SessionsRight, NEW p \in Tabs, NEW c \in Asks, Ses!Login(p, c)
  PROVE  SessionsRight'
<1> DEFINE y == LoginAsk(p, user.password)
<1> USE AskFacts
<1>1. /\ Quiet /\ UNCHANGED cookie
      /\ tab' = [tab EXCEPT ![p].out = FALSE]
      /\ work' = [work EXCEPT ![c] = y]
  BY DEF Ses!Login, Ses!Request, LoginAsk, Quiet, Ses!Unchanged_row, Ses!Unchanged_issue
<1>2. TabsRight(tab') /\ ~tab'[p].out
      /\ \A q \in Tabs : tab'[q].out => tab[q].out
  BY <1>1 DEF TabsRight, Tab
<1>3. AsksRight(work, user, issued, links, tab')
  BY <1>2, PagesHeard
<1>4. y \in Ask /\ AskKnows(y, user, issued, links) /\ AskHeard(y, tab')
  <2>1. cookie \in Nat /\ cookie <= issued /\ 0 <= issued /\ user.password \in Nat
    OBVIOUS
  <2>2. /\ y \in Ask /\ y.op = "login" /\ y.page = p /\ y.pc = "sent"
        /\ y.token = 0
    BY <2>1, SessionAsks
  <2> HIDE DEF y
  <2>3. QED
    BY <1>2, <2>1, <2>2
    DEF AskKnows, AskHeard, LogsIn, Ses!Refreshes
<1>5. AsksRight(work', user, issued, links, tab')
  <2> HIDE DEF y
  <2>1. QED
    BY <1>1, <1>3, <1>4 DEF AsksRight
<1>6. QED
  BY <1>1, <1>2, <1>5, QuietStep

\* All that the page still waits for has become stale.
LEMMA LogoutStep ==
  ASSUME SessionsRight, NEW p \in Tabs, NEW c \in Asks, Ses!Logout(p, c)
  PROVE  SessionsRight'
<1> DEFINE y == LogoutAsk(cookie)
           pg == [Ses!Empty(tab[p]) EXCEPT !.out = TRUE]
           w == Ses!Cleared(work, p)
<1> USE AskFacts
<1>1. /\ Quiet /\ UNCHANGED cookie
      /\ tab' = [tab EXCEPT ![p] = pg]
      /\ work' = [w EXCEPT ![c] = y]
  BY DEF Ses!Logout, LogoutAsk, Quiet, Ses!Unchanged_row, Ses!Unchanged_issue
<1>2. pg \in Tab /\ pg.access = 0
  BY DEF Ses!Empty, Tab
<1> HIDE DEF pg
<1>3. TabsRight(tab') /\ \A q \in Tabs : q # p => tab'[q] = tab[q]
  BY <1>1, <1>2 DEF TabsRight
<1>4. AsksRight(w, user, issued, links, tab)
  BY ClearedRight
<1>5. \A d \in Asks : w[d].page = p => w[d].stale
  BY DEF Ses!Cleared, Ask
<1>6. y \in Ask /\ AskKnows(y, user, issued, links) /\ AskHeard(y, tab')
  <2>1. cookie \in Nat /\ cookie <= issued /\ 0 <= issued /\ user.password \in Nat
    OBVIOUS
  <2> HIDE AskFacts
  <2>2. QED
    BY <2>1, SessionAsks, SessionAskRight
<1> HIDE DEF w, y
<1>7. AsksRight(w, user, issued, links, tab')
  <2>1. ASSUME NEW d \in Asks
        PROVE  AskHeard(w[d], tab')
    BY <1>3, <1>4, <1>5 DEF AsksRight, AskHeard
  <2>2. QED
    BY <1>4, <2>1 DEF AsksRight
<1>8. AsksRight(work', user, issued, links, tab')
  BY <1>1, <1>6, <1>7 DEF AsksRight
<1>9. QED
  BY <1>1, <1>3, <1>8, QuietStep


\* A handler writes the row: the requests that have read it before know a
\* session that is no longer accepted.
LEMMA RowStep ==
  ASSUME SessionsRight, NEW c \in Asks, NEW x \in Ask,
         work' = [work EXCEPT ![c] = x], UNCHANGED <<cookie, tab>>,
         RowRight(user', issued', links', spent'),
         issued' >= issued, links' >= links,
         \/ user'.refresh = user.refresh /\ user'.password = user.password
         \/ user'.refresh = 0
         \/ user'.refresh > issued,
         AskKnows(x, user', issued', links'), AskHeard(x, tab)
  PROVE  SessionsRight'
<1> USE AskFacts
<1>1. issued' \in Nat /\ links' \in Nat /\ user' \in Ses!User
  BY DEF RowRight
<1>2. ASSUME NEW d \in Asks
      PROVE  AskKnows(work[d], user', issued', links')
  <2>1. work[d] \in Ask /\ AskKnows(work[d], user, issued, links)
    OBVIOUS
  <2>2. work[d].token \in Nat /\ user.refresh \in Nat /\ user'.refresh \in Nat
    BY <1>1, <2>1 DEF Ask, Ses!User
  <2>3. QED
    BY <1>1, <2>1, <2>2 DEF AskKnows, LogsIn
<1>3. AsksRight(work', user', issued', links', tab)
  BY <1>2 DEF AsksRight
<1>4. cookie' \in 0..issued' /\ TabsRight(tab')
  BY <1>1 DEF SessionsRight
<1>5. QED
  BY <1>3, <1>4 DEF SessionsRight

\* A new session takes the place of the one before, which it may have spent.
LEMMA IssueRow ==
  ASSUME NEW u, NEW i, NEW l, NEW h, RowRight(u, i, l, h),
         i + l + u.password <= MaxIssued, u.verified,
         NEW g \in Past, g.access = u.password, g.used = h.used,
         \A t \in Ses!Numbers :
           \/ g.spent[t] = h.spent[t]
           \/ t = u.refresh /\ g.spent[t] = h.spent[t] + 1
  PROVE  /\ RowRight([u EXCEPT !.refresh = i + 1], i + 1, l, g)
         /\ [u EXCEPT !.refresh = i + 1].refresh = i + 1
<1> DEFINE v == [u EXCEPT !.refresh = i + 1]
<1>1. /\ v \in Ses!User /\ v.refresh = i + 1 /\ v.password = u.password
      /\ v.verified = u.verified /\ v.link = u.link
  <2>1. u \in Ses!User /\ i + 1 \in Nat
    BY DEF RowRight
  <2>2. QED
    BY <2>1 DEF Ses!User
<1>2. i \in Nat /\ l \in Nat /\ u.password \in Nat \ {0} /\ u.refresh \in Nat
      /\ u.refresh <= i
  BY DEF RowRight, Ses!User
<1>3. i + 1 \in Ses!Numbers
  BY <1>2, NoSession DEF Ses!Numbers
<1> HIDE DEF v
<1>4. \A t \in Ses!Numbers : g.spent[t] <= 1 /\ (t > i + 1 => g.spent[t] = 0)
  <2> TAKE t \in Ses!Numbers
  <2>1. t \in Nat /\ h.spent[t] \in Nat /\ t # 0
    BY NoSession DEF RowRight, Past, Ses!Numbers
  <2>2. CASE g.spent[t] = h.spent[t]
    BY <1>2, <2>1, <2>2 DEF RowRight
  <2>3. CASE t = u.refresh /\ g.spent[t] = h.spent[t] + 1
    <3>1. h.spent[t] = 0
      BY <2>1, <2>3 DEF RowRight
    <3>2. QED
      BY <1>2, <2>1, <2>3, <3>1
  <2>4. QED
    BY <2>2, <2>3
<1>5. g.spent[i + 1] = 0
  <2>1. i + 1 # u.refresh /\ i + 1 > i
    BY <1>2
  <2>2. h.spent[i + 1] = 0
    BY <1>3, <2>1 DEF RowRight
  <2>3. QED
    BY <1>3, <2>1, <2>2
<1>6. RowRight(v, i + 1, l, g)
  BY <1>1, <1>2, <1>4, <1>5, NoSession DEF RowRight
<1>7. QED
  BY <1>1, <1>6 DEF v

LEMMA EndRow ==
  ASSUME NEW u, NEW i, NEW l, NEW h, RowRight(u, i, l, h)
  PROVE  /\ RowRight([u EXCEPT !.refresh = 0], i, l, h)
         /\ [u EXCEPT !.refresh = 0].refresh = 0
<1> DEFINE v == [u EXCEPT !.refresh = 0]
<1>1. /\ v \in Ses!User /\ v.refresh = 0 /\ v.password = u.password
      /\ v.link = u.link
  BY DEF RowRight, Ses!User
<1> HIDE DEF v
<1>2. RowRight(v, i, l, h)
  BY <1>1 DEF RowRight
<1>3. QED
  BY <1>1, <1>2 DEF v

LEMMA PasswordFields ==
  ASSUME NEW u \in Ses!User
  PROVE  /\ Ses!NewPassword(u) \in Ses!User
         /\ Ses!NewPassword(u).password = u.password + 1
         /\ Ses!NewPassword(u).refresh = 0
         /\ Ses!NewPassword(u).link["verify"] = u.link["verify"]
         /\ Ses!NewPassword(u).link["reset"] = 0
<1>1. u.password + 1 \in Nat \ {0} /\ u.link \in [Ses!Kinds -> Nat]
  BY DEF Ses!User
<1>2. QED
  BY <1>1 DEF Ses!NewPassword, Ses!User, Ses!Kinds

\* A new password ends the session and the link by which it may be reset.
LEMMA PasswordRow ==
  ASSUME NEW u, NEW i, NEW l, NEW h, RowRight(u, i, l, h),
         i + l + u.password <= MaxIssued
  PROVE  RowRight(Ses!NewPassword(u), i, l, h)
<1> DEFINE v == Ses!NewPassword(u)
<1>1. /\ v \in Ses!User /\ v.password = u.password + 1 /\ v.refresh = 0
      /\ v.link["verify"] = u.link["verify"] /\ v.link["reset"] = 0
  BY PasswordFields DEF RowRight
<1>2. u.password \in Nat /\ i \in Nat /\ l \in Nat
  BY DEF RowRight, Ses!User
<1> HIDE DEF v
<1>3. RowRight(v, i, l, h)
  BY <1>1, <1>2, NoSession DEF RowRight, Ses!Kinds
<1>4. QED
  BY <1>3 DEF v

LEMMA LinkFields ==
  ASSUME NEW u \in Ses!User, NEW k \in Ses!Kinds, NEW n \in Nat
  PROVE  LET v == [u EXCEPT !.link[k] = n] IN
         /\ v \in Ses!User /\ v.password = u.password
         /\ v.verified = u.verified /\ v.refresh = u.refresh
         /\ v.link[k] = n
         /\ \A m \in Ses!Kinds \ {k} : v.link[m] = u.link[m]
BY DEF Ses!User, Ses!Kinds

\* The link mailed last takes the place of the one before.
LEMMA LinkRow ==
  ASSUME NEW u, NEW i, NEW l, NEW h, RowRight(u, i, l, h),
         i + l + u.password <= MaxIssued, NEW k \in Ses!Kinds
  PROVE  RowRight([u EXCEPT !.link[k] = l + 1], i, l + 1, h)
<1> DEFINE v == [u EXCEPT !.link[k] = l + 1]
<1>1. u \in Ses!User /\ l \in Nat /\ i \in Nat /\ u.password \in Nat \ {0}
      /\ u.link \in [Ses!Kinds -> Nat]
  BY DEF RowRight, Ses!User
<1>2. /\ v \in Ses!User /\ v.password = u.password
      /\ v.verified = u.verified /\ v.refresh = u.refresh
      /\ v.link[k] = l + 1
      /\ \A m \in Ses!Kinds \ {k} : v.link[m] = u.link[m]
  BY <1>1, LinkFields
<1> HIDE DEF v
<1>3. l + 1 \in Ses!Numbers
  BY <1>1, NoSession DEF Ses!Numbers
<1>4. h.used[l + 1] = 0
  BY <1>1, <1>3 DEF RowRight
<1>5. \A m \in Ses!Kinds :
        v.link[m] <= l + 1 /\ (v.link[m] # 0 => h.used[v.link[m]] = 0)
  BY <1>1, <1>2, <1>4 DEF RowRight
<1>6. v.link["verify"] # 0 => v.link["verify"] # v.link["reset"]
  <2>1. u.link["verify"] <= l /\ u.link["reset"] <= l
    BY DEF RowRight, Ses!Kinds
  <2>2. QED
    BY <1>1, <1>2, <2>1 DEF RowRight, Ses!Kinds
<1>7. \A n \in Ses!Numbers : h.used[n] <= 1 /\ (n > l + 1 => h.used[n] = 0)
  BY <1>1, NoSession DEF RowRight, Ses!Numbers
<1>8. RowRight(v, i, l + 1, h)
  BY <1>1, <1>2, <1>5, <1>6, <1>7, NoSession DEF RowRight
<1>9. QED
  BY <1>8 DEF v


LEMMA VerifyRow ==
  ASSUME NEW u, NEW i, NEW l, NEW h, RowRight(u, i, l, h)
  PROVE  LET v == [u EXCEPT !.verified = TRUE, !.link["verify"] = 0] IN
         /\ RowRight(v, i, l, h)
         /\ v.password = u.password /\ v.refresh = u.refresh
         /\ v.link["verify"] = 0 /\ v.link["reset"] = u.link["reset"]
<1> DEFINE v == [u EXCEPT !.verified = TRUE, !.link["verify"] = 0]
<1>1. u \in Ses!User /\ u.link \in [Ses!Kinds -> Nat] /\ l \in Nat
  BY DEF RowRight, Ses!User
<1>2. /\ v \in Ses!User /\ v.password = u.password /\ v.refresh = u.refresh
      /\ v.verified = TRUE
      /\ v.link["verify"] = 0 /\ v.link["reset"] = u.link["reset"]
  BY <1>1 DEF Ses!User, Ses!Kinds
<1> HIDE DEF v
<1>3. RowRight(v, i, l, h)
  BY <1>1, <1>2 DEF RowRight, Ses!Kinds
<1>4. QED
  BY <1>2, <1>3 DEF v

\* A link that is used is no longer in the row, and never was in both places.
LEMMA UsedRow ==
  ASSUME NEW u, NEW i, NEW l, NEW h, RowRight(u, i, l, h),
         NEW k \in Ses!Kinds, u.link[k] # 0,
         NEW v, RowRight(v, i, l, h), v.link[k] = 0,
         \A m \in Ses!Kinds \ {k} : v.link[m] = u.link[m],
         NEW g \in Past, g.spent = h.spent, g.access = h.access,
         \A n \in Ses!Numbers :
           \/ g.used[n] = h.used[n]
           \/ n = u.link[k] /\ g.used[n] = h.used[n] + 1
  PROVE  RowRight(v, i, l, g)
<1>1. u \in Ses!User /\ u.link \in [Ses!Kinds -> Nat] /\ l \in Nat /\ i \in Nat
      /\ u.password \in Nat \ {0} /\ l <= MaxIssued
  BY NoSession DEF RowRight, Ses!User
<1>2. u.link[k] \in Nat /\ u.link[k] <= l /\ h.used[u.link[k]] = 0
  BY <1>1 DEF RowRight
<1>3. \A n \in Ses!Numbers : g.used[n] <= 1 /\ (n > l => g.used[n] = 0)
  <2> TAKE n \in Ses!Numbers
  <2>1. n \in Nat /\ h.used[n] \in Nat
    BY NoSession DEF RowRight, Past, Ses!Numbers
  <2>2. CASE g.used[n] = h.used[n]
    BY <2>1, <2>2 DEF RowRight
  <2>3. CASE n = u.link[k] /\ g.used[n] = h.used[n] + 1
    BY <1>1, <1>2, <2>1, <2>3
  <2>4. QED
    BY <2>2, <2>3
<1>4. \A m \in Ses!Kinds :
        v.link[m] <= l /\ (v.link[m] # 0 => g.used[v.link[m]] = 0)
  <2> TAKE m \in Ses!Kinds
  <2>1. CASE m = k
    BY <1>1, <2>1
  <2>2. CASE m # k
    <3>1. v.link[m] = u.link[m] /\ u.link[m] \in Nat /\ u.link[m] <= l
          /\ (u.link[m] # 0 => h.used[u.link[m]] = 0)
      BY <1>1, <2>2 DEF RowRight
    <3>2. u.link[m] # 0 => u.link[m] # u.link[k]
      BY <2>2 DEF RowRight, Ses!Kinds
    <3>3. u.link[m] # 0 => u.link[m] \in Ses!Numbers
      BY <1>1, <3>1, NoSession DEF Ses!Numbers
    <3>4. u.link[m] # 0 => g.used[u.link[m]] = h.used[u.link[m]]
      BY <3>2, <3>3
    <3>5. QED
      BY <3>1, <3>4
  <2>3. QED
    BY <2>1, <2>2
<1>5. QED
  BY <1>3, <1>4 DEF RowRight

\* A session is issued for a login or a renewal that has read this row.
LEMMA IssueStep ==
  ASSUME SessionsRight, NEW c \in Asks, Ses!Issue(c), LogsIn(work[c]),
         user.verified, spent' \in Past, spent'.access = user.password,
         spent'.used = spent.used,
         \A t \in Ses!Numbers :
           \/ spent'.spent[t] = spent.spent[t]
           \/ t = user.refresh /\ spent'.spent[t] = spent.spent[t] + 1,
         UNCHANGED <<links, cookie, tab>>
  PROVE  SessionsRight'
<1> DEFINE x == [work[c] EXCEPT !.pc = "ok", !.token = issued + 1]
<1> USE AskFacts
<1>1. /\ issued + links + user.password <= MaxIssued
      /\ issued' = issued + 1 /\ user' = [user EXCEPT !.refresh = issued + 1]
      /\ work' = [work EXCEPT ![c].pc = "ok", ![c].token = issued + 1]
  BY DEF Ses!Issue, Ses!Bounded
<1>2. RowRight(user, issued, links, spent)
  BY DEF SessionsRight
<1>3. RowRight(user', issued', links', spent') /\ user'.refresh = issued + 1
  <2> DEFINE u == [user EXCEPT !.refresh = issued + 1]
  <2> PICK g : g = spent'
    OBVIOUS
  <2>1. RowRight(u, issued + 1, links, g) /\ u.refresh = issued + 1
    BY <1>1, <1>2, IssueRow
  <2> HIDE DEF u
  <2>2. user' = u /\ issued' = issued + 1 /\ links' = links
    BY <1>1 DEF u
  <2>3. QED
    BY <2>1, <2>2
<1>4. x \in Ask /\ x.op = work[c].op /\ x.pc = "ok" /\ x.token = issued + 1
      /\ x.page = work[c].page /\ x.stale = work[c].stale
  <2>1. work[c] \in Ask /\ issued + 1 \in Nat /\ "ok" \in Ses!Steps
    BY DEF Ses!Steps
  <2>2. QED
    BY <2>1 DEF Ask
<1>5. work' = [work EXCEPT ![c] = x]
  BY <1>1
<1> HIDE DEF x
<1>6. AskKnows(x, user', issued', links') /\ AskHeard(x, tab)
  BY <1>1, <1>4 DEF AskKnows, AskHeard, LogsIn
<1>7. issued' >= issued /\ links' >= links /\ user'.refresh > issued
  BY <1>1, <1>3
<1>8. QED
  BY <1>3, <1>4, <1>5, <1>6, <1>7, RowStep

LEMMA RefuseStep ==
  ASSUME SessionsRight, NEW c \in Asks, Ses!Refuse(c),
         UNCHANGED <<links, cookie, tab>>
  PROVE  SessionsRight'
BY AnsweredStep DEF Ses!Refuse, Quiet

LEMMA StartSessionStep ==
  ASSUME SessionsRight, NEW c \in Asks, Ses!StartSession(c)
  PROVE  SessionsRight'
<1>1. UNCHANGED <<links, cookie, tab>> /\ LogsIn(work[c])
  BY DEF Ses!StartSession, Ses!Unchanged_browser, LogsIn
<1>2. CASE /\ Ses!Startable(c) /\ Ses!Issue(c)
           /\ spent' = [spent EXCEPT !.access = work[c].password]
  <2>1. user.verified /\ work[c].password = user.password
    BY <1>2 DEF Ses!Startable
  <2>2. spent \in Past /\ user.password \in Nat
    BY AskFacts DEF SessionsRight, RowRight
  <2>3. /\ spent' \in Past /\ spent'.access = user.password
        /\ spent'.used = spent.used /\ spent'.spent = spent.spent
    BY <1>2, <2>1, <2>2 DEF Past
  <2>4. QED
    BY <1>1, <1>2, <2>1, <2>3, IssueStep
<1>3. QED
  BY <1>1, <1>2, RefuseStep DEF Ses!StartSession

\* Who renews presents the refresh token in the row, which nobody has spent.
LEMMA RotateStep ==
  ASSUME SessionsRight, NEW c \in Asks, Ses!Rotate(c)
  PROVE  SessionsRight'
<1>1. UNCHANGED <<links, cookie, tab>> /\ LogsIn(work[c])
      /\ work[c].op \in Ses!Refreshes /\ work[c].pc = "read"
  BY DEF Ses!Rotate, Ses!Unchanged_browser, LogsIn
<1> DEFINE n == work[c].token
<1>2. CASE /\ Ses!Rotatable(c) /\ Ses!Issue(c)
           /\ spent' = [spent EXCEPT !.spent[n] = @ + 1,
                                     !.access = work[c].password]
  <2>1. n = user.refresh /\ n # 0 /\ work[c].password = user.password
    BY <1>1, <1>2, AskFacts DEF Ses!Rotatable, AskKnows
  <2>2. spent \in Past /\ user.password \in Nat /\ user.verified
    BY <2>1, AskFacts DEF SessionsRight, RowRight
  <2> HIDE DEF n
  <2>3. spent.spent \in [Ses!Numbers -> Nat] /\ n \in Ses!Numbers
    <3>1. /\ user.refresh \in Nat /\ user.refresh <= issued
          /\ user.password \in Nat \ {0} /\ issued \in Nat /\ links \in Nat
          /\ issued + links + user.password <= MaxIssued + 1
      BY DEF SessionsRight, RowRight, Ses!User
    <3>2. n \in 1..MaxIssued
      BY <2>1, <3>1, NoSession
    <3>3. QED
      BY <2>2, <3>2 DEF Past, Ses!Numbers
  <2>4. /\ spent' \in Past /\ spent'.access = user.password
        /\ spent'.used = spent.used
        /\ spent'.spent = [spent.spent EXCEPT ![n] = @ + 1]
    <3> DEFINE f == [spent.spent EXCEPT ![n] = @ + 1]
    <3>1. f \in [Ses!Numbers -> Nat]
      BY <2>3
    <3>2. spent' = [spent EXCEPT !.spent = f, !.access = user.password]
      BY <1>2, <2>1
    <3> HIDE DEF f
    <3>3. /\ spent' \in Past /\ spent'.access = user.password
          /\ spent'.used = spent.used /\ spent'.spent = f
      BY <2>2, <3>1, <3>2 DEF Past
    <3>4. QED
      BY <3>3 DEF f
  <2>5. \A t \in Ses!Numbers :
          \/ spent'.spent[t] = spent.spent[t]
          \/ t = user.refresh /\ spent'.spent[t] = spent.spent[t] + 1
    BY <2>1, <2>3, <2>4
  <2>6. QED
    BY <1>1, <1>2, <2>2, <2>4, <2>5, IssueStep
<1>3. QED
  BY <1>1, <1>2, RefuseStep DEF Ses!Rotate


LEMMA EndSessionStep ==
  ASSUME SessionsRight, NEW c \in Asks, Ses!EndSession(c)
  PROVE  SessionsRight'
<1> USE AskFacts
<1>1. /\ UNCHANGED <<links, issued, spent, cookie, tab>>
      /\ user' = [user EXCEPT !.refresh =
                    IF @ = work[c].token THEN 0 ELSE @]
      /\ Ses!Answered(c, "ok", 0)
  BY DEF Ses!EndSession, Ses!Unchanged_issue, Ses!Unchanged_browser
<1>2. PICK x \in Ask : /\ work' = [work EXCEPT ![c] = x]
                      /\ x.pc = "ok" /\ x.op = work[c].op
                      /\ x.page = work[c].page /\ x.stale = work[c].stale
                      /\ x.token = 0
  BY <1>1, AnsweredAsk
<1>3. AskKnows(x, user', issued', links') /\ AskHeard(x, tab)
  <2>1. AskKnows(x, user, issued, links) /\ AskHeard(x, tab)
    BY <1>2, AnswerRight
  <2>2. QED
    BY <1>1, <1>2, <2>1 DEF AskKnows
<1>7. issued' >= issued /\ links' >= links
  BY <1>1
<1> HIDE AskFacts
<1>4. CASE user.refresh = work[c].token
  <2>1. user' = [user EXCEPT !.refresh = 0]
    BY <1>1, <1>4
  <2>2. RowRight(user', issued', links', spent') /\ user'.refresh = 0
    <3>1. RowRight(user, issued, links, spent)
      BY DEF SessionsRight
    <3>2. /\ RowRight([user EXCEPT !.refresh = 0], issued, links, spent)
          /\ [user EXCEPT !.refresh = 0].refresh = 0
      BY <3>1, EndRow
    <3>3. QED
      BY <1>1, <2>1, <3>2
  <2>3. QED
    BY <1>1, <1>2, <1>3, <1>7, <2>2, RowStep
<1>5. CASE user.refresh # work[c].token
  <2>1. user' = user
    BY <1>1, <1>5, AskFacts DEF Ses!User
  <2>2. RowRight(user', issued', links', spent')
    BY <1>1, <2>1 DEF SessionsRight
  <2>3. QED
    BY <1>1, <1>2, <1>3, <1>7, <2>1, <2>2, RowStep
<1>6. QED
  BY <1>4, <1>5

LEMMA ChangePasswordStep ==
  ASSUME SessionsRight, NEW c \in Asks, Ses!ChangePassword(c)
  PROVE  SessionsRight'
<1> USE AskFacts
<1>1. /\ UNCHANGED <<links, issued, spent, cookie, tab>>
      /\ issued + links + user.password <= MaxIssued
      /\ user' = Ses!NewPassword(user) /\ Ses!Answered(c, "ok", 0)
  BY DEF Ses!ChangePassword, Ses!Bounded, Ses!Unchanged_issue,
         Ses!Unchanged_browser
<1>2. PICK x \in Ask : /\ work' = [work EXCEPT ![c] = x]
                      /\ x.pc = "ok" /\ x.op = work[c].op
                      /\ x.page = work[c].page /\ x.stale = work[c].stale
                      /\ x.token = 0
  BY <1>1, AnsweredAsk
<1>3. AskKnows(x, user', issued', links') /\ AskHeard(x, tab)
  <2>1. AskKnows(x, user, issued, links) /\ AskHeard(x, tab)
    BY <1>2, AnswerRight
  <2>2. QED
    BY <1>1, <1>2, <2>1 DEF AskKnows
<1>4. RowRight(user, issued, links, spent)
  BY DEF SessionsRight
<1>5. RowRight(user', issued', links', spent') /\ user'.refresh = 0
  BY <1>1, <1>4, PasswordRow, PasswordFields
<1>6. issued' >= issued /\ links' >= links
  BY <1>1
<1> HIDE AskFacts
<1>7. QED
  BY <1>1, <1>2, <1>3, <1>5, <1>6, RowStep

LEMMA SaveLinkStep ==
  ASSUME SessionsRight, NEW c \in Asks, Ses!SaveLink(c)
  PROVE  SessionsRight'
<1> USE AskFacts
<1> DEFINE k == work[c].op
<1>1. /\ UNCHANGED <<issued, spent, cookie, tab>> /\ links' = links + 1
      /\ issued + links + user.password <= MaxIssued
      /\ user' = [user EXCEPT !.link[k] = links + 1]
      /\ work' = [work EXCEPT ![c] = Ses!Idle] /\ work[c].pc = "mail"
  BY DEF Ses!SaveLink, Ses!Bounded, Ses!Unchanged_issue,
         Ses!Unchanged_browser
<1>2. k \in Ses!Kinds
  BY <1>1 DEF AskKnows
<1> HIDE DEF k
<1>3. RowRight(user, issued, links, spent)
  BY DEF SessionsRight
<1>4. RowRight(user', issued', links', spent')
  BY <1>1, <1>2, <1>3, LinkRow
<1>5. user'.refresh = user.refresh /\ user'.password = user.password
  BY <1>1, <1>2, LinkFields
<1>6. /\ Ses!Idle \in Ask /\ AskKnows(Ses!Idle, user', issued', links')
      /\ AskHeard(Ses!Idle, tab)
  BY <1>1, FreshAsk DEF Ses!Idle, AskKnows, LogsIn, Ses!Refreshes
<1>7. issued' >= issued /\ links' >= links
  BY <1>1
<1> HIDE AskFacts
<1>8. QED
  BY <1>1, <1>4, <1>5, <1>6, <1>7, RowStep

\* A link that is consumed was in the row, and is no longer.
LEMMA ConsumeLinkStep ==
  ASSUME SessionsRight, NEW c \in Asks, Ses!ConsumeLink(c)
  PROVE  SessionsRight'
<1> USE AskFacts
<1> DEFINE k == work[c].op
           n == work[c].token
<1>1. /\ UNCHANGED <<links, issued, cookie, tab>>
      /\ work' = [work EXCEPT ![c] = Ses!Idle] /\ work[c].pc = "found"
  BY DEF Ses!ConsumeLink, Ses!Unchanged_issue, Ses!Unchanged_browser
<1>2. k \in Ses!Kinds /\ n \in 1..links
  BY <1>1 DEF AskKnows
<1>3. /\ Ses!Idle \in Ask /\ AskHeard(Ses!Idle, tab)
      /\ AskKnows(Ses!Idle, user', issued', links')
  BY <1>1, FreshAsk DEF Ses!Idle, AskKnows, LogsIn, Ses!Refreshes
<1>4. RowRight(user, issued, links, spent)
  BY DEF SessionsRight
<1>8. issued' >= issued /\ links' >= links
  BY <1>1
<1> HIDE AskFacts
<1>5. CASE UNCHANGED <<user, spent>>
  <2>1. RowRight(user', issued', links', spent')
    BY <1>1, <1>4, <1>5
  <2>2. QED
    BY <1>1, <1>3, <1>5, <1>8, <2>1, RowStep
<1>6. CASE /\ Ses!Consumable(c)
           /\ k = "reset" => Ses!Bounded
           /\ user' = IF k = "reset" THEN Ses!NewPassword(user)
                      ELSE [user EXCEPT !.verified = TRUE,
                                        !.link["verify"] = 0]
           /\ spent' = [spent EXCEPT !.used[n] = @ + 1]
  <2>1. user.link[k] = n /\ n # 0
    BY <1>2, <1>6 DEF Ses!Consumable
  <2> HIDE DEF n, k
  <2>2. n \in Ses!Numbers
    BY <1>2, <1>4, NoSession DEF RowRight, Ses!User, Ses!Numbers
  <2>3. /\ spent' \in Past /\ spent'.spent = spent.spent
        /\ spent'.access = spent.access
        /\ \A m \in Ses!Numbers :
             \/ spent'.used[m] = spent.used[m]
             \/ m = n /\ spent'.used[m] = spent.used[m] + 1
    <3> DEFINE f == [spent.used EXCEPT ![n] = @ + 1]
    <3>1. spent \in Past /\ spent.used \in [Ses!Numbers -> Nat]
      BY <1>4 DEF RowRight, Past
    <3> HIDE AskFacts
    <3>2. /\ f \in [Ses!Numbers -> Nat]
          /\ \A m \in Ses!Numbers :
               \/ f[m] = spent.used[m]
               \/ m = n /\ f[m] = spent.used[m] + 1
      BY <2>2, <3>1
    <3>3. spent' = [spent EXCEPT !.used = f]
      BY <1>6
    <3> HIDE DEF f
    <3>4. /\ spent' \in Past /\ spent'.spent = spent.spent
          /\ spent'.access = spent.access /\ spent'.used = f
      BY <3>1, <3>2, <3>3 DEF Past
    <3>5. QED
      BY <3>2, <3>4
  <2>4. /\ RowRight(user', issued, links, spent) /\ user'.link[k] = 0
        /\ \A m \in Ses!Kinds \ {k} : user'.link[m] = user.link[m]
        /\ \/ user'.refresh = user.refresh /\ user'.password = user.password
           \/ user'.refresh = 0
    <3>1. CASE k = "reset"
      <4>1. issued + links + user.password <= MaxIssued
            /\ user' = Ses!NewPassword(user)
        BY <1>6, <3>1 DEF Ses!Bounded
      <4>2. RowRight(Ses!NewPassword(user), issued, links, spent)
        BY <1>4, <4>1, PasswordRow
      <4>3. QED
        BY <1>4, <3>1, <4>1, <4>2, PasswordFields DEF RowRight, Ses!Kinds
    <3>2. CASE k = "verify"
      <4>1. user' = [user EXCEPT !.verified = TRUE, !.link["verify"] = 0]
        BY <1>6, <3>2
      <4>2. QED
        BY <1>4, <3>2, <4>1, VerifyRow DEF Ses!Kinds
    <3>3. QED
      BY <1>2, <3>1, <3>2 DEF Ses!Kinds
  <2>5. RowRight(user', issued', links', spent')
    <3> PICK g, v : g = spent' /\ v = user'
      OBVIOUS
    <3>1. RowRight(v, issued, links, g)
      BY <1>2, <1>4, <2>1, <2>3, <2>4, UsedRow
    <3>2. QED
      BY <1>1, <3>1
  <2>6. QED
    BY <1>1, <1>3, <1>8, <2>4, <2>5, RowStep
<1>7. QED
  BY <1>5, <1>6 DEF Ses!ConsumeLink

LEMMA SessionsStep ==
  ASSUME SessionsRight, [Ses!Next]_sessions
  PROVE  SessionsRight'
<1>1. CASE UNCHANGED sessions
  BY <1>1 DEF sessions, SessionsRight
<1>2. ASSUME NEW p \in Tabs, NEW c \in Asks,
             \/ Ses!Load(p, c) \/ Ses!Login(p, c)
             \/ Ses!Work(p, c) \/ Ses!Logout(p, c)
      PROVE  SessionsRight'
  BY <1>2, LoadStep, LoginStep, WorkStep, LogoutStep
<1>3. ASSUME NEW c \in Asks, Ses!Handle(c)
      PROVE  SessionsRight'
  BY <1>3, ReadStep, ReadForRefreshStep, StartSessionStep, RotateStep,
     EndSessionStep, ChangePasswordStep, SaveLinkStep, ConsumeLinkStep
  DEF Ses!Handle
<1>4. ASSUME NEW c \in Asks, Ses!Hear(c)
      PROVE  SessionsRight'
  BY <1>4, HearLoginStep, HearLogoutStep, HearRefreshStep, HearWorkStep,
     JoinStep, RenewStep, LoseAnswerStep
  DEF Ses!Hear
<1>5. ASSUME NEW c \in Asks, NEW k \in Ses!Kinds,
             Ses!AskLink(c, k) \/ \E l \in Ses!Numbers : Ses!FollowLink(c, k, l)
      PROVE  SessionsRight'
  BY <1>5, LinkStep
<1>6. QED
  BY <1>1, <1>2, <1>3, <1>4, <1>5 DEF Ses!Next

LEMMA SessionsInvariant == OfficeSpec => []SessionsRight
<1>1. OfficeInit => SessionsRight
  BY SessionsInit DEF OfficeInit
<1>2. SessionsRight /\ [OfficeNext]_office => SessionsRight'
  BY SessionsStep DEF OfficeNext, office, sessions
<1>3. QED
  BY <1>1, <1>2, PTL DEF OfficeSpec

\* Whatever was under way when a password was changed or reset, the refresh
\* token in the row is of the password in the row (startRefreshSession,
\* rotateRefreshToken, changePassword, consumePasswordReset).
THEOREM SessionsOfThePassword == OfficeSpec => []SessionOfThisPassword
<1>1. SessionsRight => SessionOfThisPassword
  BY DEF SessionsRight, RowRight, SessionOfThisPassword,
         Ses!SessionOfThisPassword
<1>2. QED
  BY <1>1, SessionsInvariant, PTL

\* However many pages and requests present them, a refresh token is exchanged
\* once and a mailed link used once, and no page the user left logs in by an
\* answer that comes late (AuthService, AuthContext).
THEOREM NothingComesBack == OfficeSpec => []EndedStaysEnded
<1>1. SessionsRight => EndedStaysEnded
  BY DEF SessionsRight, RowRight, TabsRight, EndedStaysEnded,
         Ses!EndedStaysEnded, Ses!NothingIsUsedTwice, Ses!LoggedOutStaysOut
<1>2. QED
  BY <1>1, SessionsInvariant, PTL


-----------------------------------------------------------------------------
(* Links (Catalogue, Links).  A request has one audit row at most, which   *)
(* tells what it did, and the rows tell all that was ever done to a link   *)
(* by a request.                                                           *)

ALink == [product : Products, listing : Listings,
          state : {"ACTIVE", "INACTIVE", "INVALID"},
          madeBy : Keys, endedBy : Keys \cup {None}]

AuditRow == [event : {"CREATED", "UNLINKED", "VALIDATED", "CONFLICT"},
             link : Nat, key : Keys \cup {None}, hash : Cat!L!Hash \cup {None}]

Call == [pc : {"idle", "received", "checked", "ok", "error"},
         key : Keys \cup {None}, hash : Cat!L!Hash \cup {None}, answer : Nat]

\* What the request of the audit row a did to the links s.
Tells(a, s) ==
  /\ a.event = "CONFLICT" => a.key = None
  /\ a.event # "CONFLICT" =>
       a.key \in Keys /\ a.hash \in Cat!L!Hash /\ a.link \in 1..Len(s)
  /\ a.event = "CREATED" => /\ a.hash.op = "create"
                            /\ a.key = s[a.link].madeBy
                            /\ a.hash.product = s[a.link].product
                            /\ a.hash.listing = s[a.link].listing
  /\ a.event = "UNLINKED" => /\ a.hash.op = "unlink" /\ a.hash.link = a.link
                             /\ a.key = s[a.link].endedBy
  /\ a.event = "VALIDATED" => a.hash.op = "validate" /\ a.hash.link = a.link

\* What was done to the link i has a row.
Told(i, s, rows) ==
  /\ \E a \in DOMAIN rows : rows[a].event = "CREATED" /\ rows[a].link = i
  /\ s[i].state = "INACTIVE" <=> s[i].endedBy # None
  /\ s[i].endedBy # None =>
       \E a \in DOMAIN rows : rows[a].event = "UNLINKED" /\ rows[a].link = i

KeysOnce(rows) ==
  \A a, b \in DOMAIN rows : rows[a].key = rows[b].key /\ rows[a].key # None => a = b

ActiveOnce(s) ==
  \A i, j \in DOMAIN s :
    /\ s[i].state = "ACTIVE" /\ s[j].state = "ACTIVE"
    /\ s[i].listing = s[j].listing
    => i = j

\* What is asked is about a product and a listing, or a link there is.
Sensible(h, n) ==
  /\ h \in Cat!L!Hash
  /\ h.op = "create" => h.product \in Products /\ h.listing \in Listings
  /\ h.op # "create" => h.link \in 1..n

Answers(h, n, s) ==
  IF h.op = "create"
  THEN /\ n \in 1..Len(s)
       /\ s[n].product = h.product /\ s[n].listing = h.listing
  ELSE n = h.link

CallRight(x, s) ==
  /\ x.pc # "idle" => x.key \in Keys /\ Sensible(x.hash, Len(s))
  /\ x.pc = "ok" => Answers(x.hash, x.answer, s)

RowsRight(s, rows) ==
  /\ s \in Seq(ALink) /\ rows \in Seq(AuditRow)
  /\ \A a \in DOMAIN rows : Tells(rows[a], s)
  /\ \A i \in DOMAIN s : Told(i, s, rows)
  /\ KeysOnce(rows)
  /\ ActiveOnce(s)

CallsRight(cs, s) ==
  cs \in [Callers -> Call] /\ \A c \in Callers : CallRight(cs[c], s)

LinksRight == RowsRight(link, audit) /\ CallsRight(call, link)

\* Links are added and ended, and otherwise stay.
Grows(s, t) ==
  /\ Len(s) <= Len(t)
  /\ \A i \in 1..Len(s) :
       /\ t[i].product = s[i].product /\ t[i].listing = s[i].listing
       /\ t[i].madeBy = s[i].madeBy
       /\ s[i].endedBy # None => t[i].endedBy = s[i].endedBy

LEMMA NoKey == None \notin Keys
BY OfficeAssumption DEF Cat!ConstantsFit

LEMMA GrowsTells ==
  ASSUME NEW s \in Seq(ALink), NEW t \in Seq(ALink), Grows(s, t)
  PROVE  /\ \A a : Tells(a, s) => Tells(a, t)
         /\ \A x : CallRight(x, s) => CallRight(x, t)
         /\ \A cs : CallsRight(cs, s) => CallsRight(cs, t)
<1>1. Len(s) \in Nat /\ Len(t) \in Nat /\ Len(s) <= Len(t)
  BY DEF Grows
<1>2. \A n \in 1..Len(s) : n \in 1..Len(t)
  BY <1>1
<1>3. ASSUME NEW a, Tells(a, s)
      PROVE  Tells(a, t)
  BY <1>2, <1>3, NoKey DEF Tells, Grows
<1>4. ASSUME NEW x, CallRight(x, s)
      PROVE  CallRight(x, t)
  BY <1>2, <1>4 DEF CallRight, Sensible, Answers, Grows
<1>5. QED
  BY <1>3, <1>4 DEF CallsRight

LEMMA LinksInit == ASSUME Cat!Init PROVE LinksRight
<1>1. link = <<>> /\ audit = <<>> /\ call = [c \in Callers |-> Cat!L!Idle]
  BY DEF Cat!Init, Cat!L!Init
<1>2. Cat!L!Idle \in Call /\ CallRight(Cat!L!Idle, link)
  BY DEF Cat!L!Idle, Call, CallRight
<1>3. QED
  BY <1>1, <1>2 DEF LinksRight, RowsRight, CallsRight, KeysOnce, ActiveOnce

LEMMA LinkFacts ==
  ASSUME LinksRight, NEW c \in Callers
  PROVE  /\ link \in Seq(ALink) /\ audit \in Seq(AuditRow)
         /\ Len(link) \in Nat /\ DOMAIN link = 1..Len(link)
         /\ Len(audit) \in Nat /\ DOMAIN audit = 1..Len(audit)
         /\ call \in [Callers -> Call] /\ call[c] \in Call
         /\ CallRight(call[c], link)
BY DEF LinksRight, RowsRight, CallsRight

\* One request goes on, and the rows stay as they are.
LEMMA OneCall ==
  ASSUME LinksRight, UNCHANGED <<link, audit>>, NEW c \in Callers,
         NEW x \in Call, call' = [call EXCEPT ![c] = x], CallRight(x, link)
  PROVE  LinksRight'
<1>1. CallsRight(call', link)
  BY DEF LinksRight, CallsRight
<1>2. QED
  BY <1>1 DEF LinksRight

LEMMA DoneCall ==
  ASSUME LinksRight, NEW c \in Callers, NEW pc \in {"ok", "error"},
         NEW n \in Nat, Cat!L!Done(c, pc, n)
  PROVE  \E x \in Call : /\ call' = [call EXCEPT ![c] = x]
                         /\ x.pc = pc /\ x.answer = n
                         /\ x.key = call[c].key /\ x.hash = call[c].hash
<1> DEFINE x == [call[c] EXCEPT !.pc = pc, !.answer = n]
<1>1. call[c] \in Call /\ call \in [Callers -> Call]
  BY LinkFacts
<1>2. /\ x \in Call /\ x.pc = pc /\ x.answer = n
      /\ x.key = call[c].key /\ x.hash = call[c].hash
  BY <1>1 DEF Call
<1>3. call' = [call EXCEPT ![c] = x]
  BY <1>1 DEF Cat!L!Done
<1>4. QED
  BY <1>2, <1>3

LEMMA FailStep ==
  ASSUME LinksRight, NEW c \in Callers, call[c].pc # "idle", Cat!L!Fail(c),
         UNCHANGED <<link, audit>>
  PROVE  LinksRight'
<1>1. PICK x \in Call : /\ call' = [call EXCEPT ![c] = x]
                        /\ x.pc = "error" /\ x.answer = 0
                        /\ x.key = call[c].key /\ x.hash = call[c].hash
  BY DoneCall DEF Cat!L!Fail
<1>2. CallRight(x, link)
  BY <1>1, LinkFacts DEF CallRight
<1>3. QED
  BY <1>1, <1>2, OneCall

\* A row with the hash of a request has the answer to it.
LEMMA ReplayStep ==
  ASSUME LinksRight, NEW c \in Callers, call[c].pc # "idle", Cat!L!Replay(c),
         UNCHANGED <<link, audit>>
  PROVE  LinksRight'
<1>1. CASE Cat!L!Fail(c)
  BY <1>1, FailStep
<1>2. ASSUME NEW a \in DOMAIN audit, audit[a].key = call[c].key,
             audit[a].hash = call[c].hash, Cat!L!Done(c, "ok", audit[a].link)
      PROVE  LinksRight'
  <2>1. audit[a] \in AuditRow /\ Tells(audit[a], link)
    BY LinkFacts DEF LinksRight, RowsRight
  <2>2. audit[a].link \in Nat
    BY <2>1 DEF AuditRow
  <2>3. PICK x \in Call : /\ call' = [call EXCEPT ![c] = x]
                          /\ x.pc = "ok" /\ x.answer = audit[a].link
                          /\ x.key = call[c].key /\ x.hash = call[c].hash
    BY <1>2, <2>2, DoneCall
  <2>4. call[c].key \in Keys /\ Sensible(call[c].hash, Len(link))
    BY LinkFacts DEF CallRight
  <2>5. audit[a].event \in {"CREATED", "UNLINKED", "VALIDATED"}
    BY <1>2, <2>1, <2>4, NoKey DEF AuditRow, Tells
  <2>6. Answers(call[c].hash, audit[a].link, link)
    BY <1>2, <2>1, <2>5 DEF Tells, Answers
  <2>7. CallRight(x, link)
    BY <2>3, <2>4, <2>6 DEF CallRight
  <2>8. QED
    BY <2>3, <2>7, OneCall
<1>3. QED
  BY <1>1, <1>2 DEF Cat!L!Replay, Cat!L!Recorded


LEMMA ReceiveStep ==
  ASSUME LinksRight, NEW c \in Callers, NEW key \in Keys, NEW h,
         Sensible(h, Len(link)), Cat!L!Receive(c, key, h)
  PROVE  LinksRight'
<1> DEFINE x == [pc |-> "received", key |-> key, hash |-> h, answer |-> 0]
<1>1. x \in Call /\ CallRight(x, link)
  BY DEF Call, CallRight, Sensible
<1>2. call' = [call EXCEPT ![c] = x] /\ UNCHANGED <<link, audit>>
  BY DEF Cat!L!Receive
<1> HIDE DEF x
<1>3. QED
  BY <1>1, <1>2, OneCall

LEMMA RequestStep ==
  ASSUME LinksRight, NEW c \in Callers, NEW key \in Keys,
         \/ \E p \in Products, l \in Listings :
              Cat!L!Link(c, key, p, l) \/ Cat!L!AcceptSuggestion(c, key, p, l)
         \/ \E i \in DOMAIN link :
              Cat!L!Unlink(c, key, i) \/ Cat!L!Validate(c, key, i)
  PROVE  LinksRight'
<1>1. \A p \in Products, l \in Listings, e \in BOOLEAN :
        Sensible(Cat!L!Create(p, l, e), Len(link))
  BY DEF Sensible, Cat!L!Create, Cat!L!Hash
<1>2. ASSUME NEW i \in DOMAIN link, NEW op \in {"unlink", "validate"}
      PROVE  Sensible(Cat!L!About(op, i), Len(link))
  <2>1. i \in 1..Len(link) /\ i \in Nat
    BY LinkFacts
  <2>2. QED
    BY <2>1 DEF Sensible, Cat!L!About, Cat!L!Hash
<1>3. \A p, l : Cat!L!Exact(p, l) \in BOOLEAN
  BY DEF Cat!L!Exact
<1>4. QED
  BY <1>1, <1>2, <1>3, ReceiveStep
  DEF Cat!L!Link, Cat!L!AcceptSuggestion, Cat!L!Unlink, Cat!L!Validate

LEMMA CheckStep ==
  ASSUME LinksRight, NEW c \in Callers, Cat!L!Check(c)
  PROVE  LinksRight'
<1>1. UNCHANGED <<link, audit>> /\ call[c].pc = "received"
  BY DEF Cat!L!Check
<1>2. CASE call' = [call EXCEPT ![c].pc = "checked"]
  <2> DEFINE x == [call[c] EXCEPT !.pc = "checked"]
  <2>1. x \in Call /\ CallRight(x, link) /\ call' = [call EXCEPT ![c] = x]
    BY <1>1, <1>2, LinkFacts DEF Call, CallRight
  <2>2. QED
    BY <1>1, <2>1, OneCall
<1>3. QED
  BY <1>1, <1>2, FailStep, ReplayStep DEF Cat!L!Check

\* A row more, and nothing else in the audit.
LEMMA OneRow ==
  ASSUME NEW rows \in Seq(AuditRow), NEW r \in AuditRow
  PROVE  /\ Append(rows, r) \in Seq(AuditRow)
         /\ DOMAIN rows = 1..Len(rows) /\ Len(rows) \in Nat
         /\ DOMAIN Append(rows, r) = DOMAIN rows \cup {Len(rows) + 1}
         /\ \A a \in DOMAIN rows : Append(rows, r)[a] = rows[a]
         /\ Append(rows, r)[Len(rows) + 1] = r
<1>1. Len(rows) \in Nat /\ DOMAIN rows = 1..Len(rows)
  OBVIOUS
<1>2. Append(rows, r) \in Seq(AuditRow)
  OBVIOUS
<1>3. \A a \in 1..Len(rows) : Append(rows, r)[a] = rows[a]
  OBVIOUS
<1>4. Append(rows, r)[Len(rows) + 1] = r
  OBVIOUS
<1>5. DOMAIN Append(rows, r) = 1..(Len(rows) + 1)
  <2>1. Len(Append(rows, r)) = Len(rows) + 1
    OBVIOUS
  <2>2. QED
    BY <1>2, <2>1
<1>6. ASSUME NEW n \in Nat
      PROVE  1..(n + 1) = (1..n) \cup {n + 1}
  OBVIOUS
<1>7. QED
  BY <1>1, <1>2, <1>3, <1>4, <1>5, <1>6

\* A request writes its row with a key that is not taken.
LEMMA Written ==
  ASSUME NEW s, NEW rows, RowsRight(s, rows), NEW t \in Seq(ALink), Grows(s, t),
         NEW r \in AuditRow, Tells(r, t),
         r.key = None \/ \A a \in DOMAIN rows : rows[a].key # r.key,
         \A i \in DOMAIN t : Told(i, t, Append(rows, r)), ActiveOnce(t)
  PROVE  RowsRight(t, Append(rows, r))
<1> DEFINE bs == Append(rows, r)
<1>1. s \in Seq(ALink) /\ rows \in Seq(AuditRow)
  BY DEF RowsRight
<1>2. /\ bs \in Seq(AuditRow)
      /\ \A a \in DOMAIN rows : bs[a] = rows[a]
      /\ bs[Len(rows) + 1] = r
      /\ DOMAIN bs = DOMAIN rows \cup {Len(rows) + 1}
  BY <1>1, OneRow
<1> HIDE DEF bs
<1>3. \A a \in DOMAIN bs : Tells(bs[a], t)
  BY <1>1, <1>2, GrowsTells DEF RowsRight
<1>4. KeysOnce(bs)
  BY <1>2 DEF RowsRight, KeysOnce
<1>5. \A i \in DOMAIN t : Told(i, t, bs)
  BY DEF bs
<1>6. RowsRight(t, bs)
  BY <1>2, <1>3, <1>4, <1>5 DEF RowsRight
<1>7. QED
  BY <1>6 DEF bs

\* What was told before is told still.
LEMMA ToldStill ==
  ASSUME NEW s, NEW rows \in Seq(AuditRow), NEW r \in AuditRow,
         NEW i, Told(i, s, rows)
  PROVE  Told(i, s, Append(rows, r))
<1> DEFINE bs == Append(rows, r)
<1>1. \A a \in DOMAIN rows : a \in DOMAIN bs /\ bs[a] = rows[a]
  BY OneRow
<1> HIDE DEF bs
<1>2. Told(i, s, bs)
  BY <1>1 DEF Told
<1>3. QED
  BY <1>2 DEF bs

\* A row about links that stay as they are.
LEMMA NotedStep ==
  ASSUME LinksRight, NEW r \in AuditRow, Tells(r, link),
         r.key = None \/ \A a \in DOMAIN audit : audit[a].key # r.key,
         audit' = Append(audit, r), link' = link, CallsRight(call', link)
  PROVE  LinksRight'
<1>1. RowsRight(link, audit) /\ link \in Seq(ALink) /\ audit \in Seq(AuditRow)
  BY DEF LinksRight, RowsRight
<1>2. Grows(link, link)
  BY <1>1 DEF Grows
<1>3. \A i \in DOMAIN link : Told(i, link, Append(audit, r))
  BY <1>1, ToldStill DEF RowsRight
<1>4. RowsRight(link, Append(audit, r))
  BY <1>1, <1>2, <1>3, Written DEF RowsRight
<1>5. QED
  BY <1>4 DEF LinksRight

LEMMA SaveValidationStep ==
  ASSUME LinksRight, NEW c \in Callers, Cat!L!SaveValidation(c)
  PROVE  LinksRight'
<1> DEFINE h == call[c].hash
           r == Cat!L!Row("VALIDATED", h.link, call[c].key, h)
<1>1. /\ call[c].pc = "checked" /\ h.op = "validate" /\ UNCHANGED link
  BY DEF Cat!L!SaveValidation
<1>2. CASE Cat!L!Replay(c) /\ UNCHANGED audit
  BY <1>1, <1>2, ReplayStep
<1>3. CASE /\ ~Cat!L!Taken(call[c].key)
           /\ audit' = Append(audit, r) /\ Cat!L!Done(c, "ok", h.link)
  <2>1. /\ call[c].key \in Keys /\ Sensible(h, Len(link))
        /\ h.link \in 1..Len(link) /\ h.link \in Nat /\ h \in Cat!L!Hash
    BY <1>1, LinkFacts DEF CallRight, Sensible
  <2>2. PICK x \in Call : /\ call' = [call EXCEPT ![c] = x]
                          /\ x.pc = "ok" /\ x.answer = h.link
                          /\ x.key = call[c].key /\ x.hash = call[c].hash
    BY <1>3, <2>1, DoneCall
  <2>3. CallRight(x, link)
    BY <1>1, <2>1, <2>2 DEF CallRight, Answers
  <2>4. CallsRight(call', link)
    BY <2>2, <2>3 DEF LinksRight, CallsRight
  <2>5. r \in AuditRow /\ Tells(r, link) /\ r.key = call[c].key
    BY <1>1, <2>1 DEF Cat!L!Row, AuditRow, Tells
  <2>6. \A a \in DOMAIN audit : audit[a].key # call[c].key
    BY <1>3 DEF Cat!L!Taken, Cat!L!Recorded
  <2> HIDE DEF r
  <2>7. QED
    BY <1>1, <1>3, <2>4, <2>5, <2>6, NotedStep
<1>4. QED
  BY <1>2, <1>3 DEF Cat!L!SaveValidation


LEMMA DoneCalls ==
  ASSUME LinksRight, NEW c \in Callers, call[c].pc # "idle",
         NEW pc \in {"ok", "error"}, NEW n \in Nat, Cat!L!Done(c, pc, n),
         NEW t \in Seq(ALink), Grows(link, t),
         pc = "ok" => Answers(call[c].hash, n, t)
  PROVE  CallsRight(call', t)
<1>1. PICK x \in Call : /\ call' = [call EXCEPT ![c] = x]
                        /\ x.pc = pc /\ x.answer = n
                        /\ x.key = call[c].key /\ x.hash = call[c].hash
  BY DoneCall
<1>2. CallsRight(call, t) /\ CallRight(call[c], t)
  BY LinkFacts, GrowsTells DEF LinksRight
<1>3. CallRight(x, t)
  BY <1>1, <1>2 DEF CallRight
<1>4. QED
  BY <1>1, <1>2, <1>3 DEF CallsRight

LEMMA OneLink ==
  ASSUME NEW s \in Seq(ALink), NEW x \in ALink
  PROVE  /\ Append(s, x) \in Seq(ALink)
         /\ DOMAIN s = 1..Len(s) /\ Len(s) \in Nat
         /\ Len(Append(s, x)) = Len(s) + 1
         /\ DOMAIN Append(s, x) = DOMAIN s \cup {Len(s) + 1}
         /\ \A i \in DOMAIN s : Append(s, x)[i] = s[i]
         /\ Append(s, x)[Len(s) + 1] = x
<1>1. Len(s) \in Nat /\ DOMAIN s = 1..Len(s)
  OBVIOUS
<1>2. Append(s, x) \in Seq(ALink)
  OBVIOUS
<1>3. \A i \in 1..Len(s) : Append(s, x)[i] = s[i]
  OBVIOUS
<1>4. Append(s, x)[Len(s) + 1] = x
  OBVIOUS
<1>5. Len(Append(s, x)) = Len(s) + 1
  OBVIOUS
<1>6. DOMAIN Append(s, x) = 1..(Len(s) + 1)
  BY <1>2, <1>5
<1>7. ASSUME NEW n \in Nat
      PROVE  1..(n + 1) = (1..n) \cup {n + 1}
  OBVIOUS
<1>8. QED
  BY <1>1, <1>2, <1>3, <1>4, <1>5, <1>6, <1>7

\* A new link, for a listing without an active one, and its row.
LEMMA Linking ==
  ASSUME NEW s, NEW rows, RowsRight(s, rows),
         NEW x \in ALink, x.state = "ACTIVE", x.endedBy = None,
         \A i \in DOMAIN s : ~(s[i].listing = x.listing /\ s[i].state = "ACTIVE"),
         NEW r \in AuditRow, r.event = "CREATED", r.link = Len(s) + 1,
         r.key = x.madeBy, r.hash \in Cat!L!Hash, r.hash.op = "create",
         r.hash.product = x.product, r.hash.listing = x.listing,
         \A a \in DOMAIN rows : rows[a].key # r.key
  PROVE  /\ RowsRight(Append(s, x), Append(rows, r))
         /\ Append(s, x) \in Seq(ALink) /\ Grows(s, Append(s, x))
         /\ Len(Append(s, x)) = Len(s) + 1 /\ Append(s, x)[Len(s) + 1] = x
         /\ Len(s) \in Nat
<1> DEFINE t == Append(s, x)
           bs == Append(rows, r)
<1>1. s \in Seq(ALink) /\ rows \in Seq(AuditRow) /\ ActiveOnce(s)
      /\ \A i \in DOMAIN s : Told(i, s, rows)
  BY DEF RowsRight
<1>2. /\ t \in Seq(ALink)
      /\ DOMAIN s = 1..Len(s) /\ Len(s) \in Nat /\ Len(t) = Len(s) + 1
      /\ DOMAIN t = DOMAIN s \cup {Len(s) + 1}
      /\ \A i \in DOMAIN s : t[i] = s[i]
      /\ t[Len(s) + 1] = x
  BY <1>1, OneLink
<1>3. /\ bs[Len(rows) + 1] = r
      /\ DOMAIN bs = DOMAIN rows \cup {Len(rows) + 1}
  BY <1>1, OneRow
<1>4. \A i \in DOMAIN s : Told(i, s, bs)
  BY <1>1, ToldStill
<1> HIDE DEF t, bs
<1>5. Grows(s, t)
  BY <1>2 DEF Grows
<1>6. Tells(r, t)
  <2>1. r.link \in 1..Len(t)
    BY <1>2
  <2>2. r.key \in Keys
    BY DEF ALink
  <2>3. QED
    BY <1>2, <2>1, <2>2 DEF Tells
<1>7. ASSUME NEW i \in DOMAIN t
      PROVE  Told(i, t, bs)
  <2>1. CASE i \in DOMAIN s
    BY <1>2, <1>4, <2>1 DEF Told
  <2>2. CASE i = Len(s) + 1
    BY <1>2, <1>3, <2>2 DEF Told
  <2>3. QED
    BY <1>2, <2>1, <2>2
<1>8. ActiveOnce(t)
  <2>1. \A i \in DOMAIN s : ~(t[i].listing = x.listing /\ t[i].state = "ACTIVE")
    BY <1>2
  <2>2. \A i, j \in DOMAIN s :
          /\ t[i].state = "ACTIVE" /\ t[j].state = "ACTIVE"
          /\ t[i].listing = t[j].listing
          => i = j
    BY <1>1, <1>2 DEF ActiveOnce
  <2>3. QED
    BY <1>2, <2>1, <2>2 DEF ActiveOnce
<1>9. RowsRight(t, bs)
  BY <1>2, <1>5, <1>6, <1>7, <1>8, Written DEF bs
<1>10. QED
  BY <1>2, <1>5, <1>9 DEF t, bs

LEMMA SaveNewLinkStep ==
  ASSUME LinksRight, NEW c \in Callers, Cat!L!SaveLink(c)
  PROVE  LinksRight'
<1> DEFINE h == call[c].hash
           n == Len(link) + 1
           x == [product |-> h.product, listing |-> h.listing,
                 state |-> "ACTIVE", madeBy |-> call[c].key, endedBy |-> None]
           r == Cat!L!Row("CREATED", n, call[c].key, h)
           conflict == Cat!L!Row("CONFLICT", 0, None, None)
<1>1. /\ call[c].pc = "checked" /\ h.op = "create"
      /\ \/ Cat!L!Fail(c) /\ UNCHANGED <<link, audit>>
         \/ Cat!L!Fail(c) /\ audit' = Append(audit, conflict) /\ UNCHANGED link
         \/ Cat!L!Replay(c) /\ UNCHANGED <<link, audit>>
         \/ /\ ~Cat!L!Linked(h.listing) /\ ~Cat!L!Taken(call[c].key)
            /\ link' = Append(link, x) /\ audit' = Append(audit, r)
            /\ Cat!L!Done(c, "ok", n)
  BY DEF Cat!L!SaveLink
<1>2. /\ call[c].key \in Keys /\ h \in Cat!L!Hash
      /\ h.product \in Products /\ h.listing \in Listings
      /\ link \in Seq(ALink) /\ Len(link) \in Nat /\ RowsRight(link, audit)
  BY <1>1, LinkFacts DEF CallRight, Sensible, LinksRight
<1>3. CASE /\ Cat!L!Fail(c) /\ audit' = Append(audit, conflict)
           /\ UNCHANGED link
  <2>1. conflict \in AuditRow /\ Tells(conflict, link) /\ conflict.key = None
    BY DEF Cat!L!Row, AuditRow, Tells
  <2>2. Grows(link, link)
    BY <1>2 DEF Grows
  <2>3. CallsRight(call', link)
    BY <1>1, <1>2, <1>3, <2>2, DoneCalls DEF Cat!L!Fail
  <2> HIDE DEF conflict
  <2>4. QED
    BY <1>3, <2>1, <2>3, NotedStep
<1>4. CASE /\ ~Cat!L!Linked(h.listing) /\ ~Cat!L!Taken(call[c].key)
           /\ link' = Append(link, x) /\ audit' = Append(audit, r)
           /\ Cat!L!Done(c, "ok", n)
  <2>1. /\ x \in ALink /\ x.state = "ACTIVE" /\ x.endedBy = None
        /\ x.listing = h.listing /\ x.product = h.product
        /\ x.madeBy = call[c].key
    BY <1>2 DEF ALink
  <2>2. /\ r \in AuditRow /\ r.event = "CREATED" /\ r.link = n
        /\ r.key = call[c].key /\ r.hash = h
    BY <1>2 DEF Cat!L!Row, AuditRow
  <2>3. \A i \in DOMAIN link : ~(link[i].listing = h.listing
                                 /\ link[i].state = "ACTIVE")
    BY <1>4 DEF Cat!L!Linked, Cat!L!Active
  <2>4. \A a \in DOMAIN audit : audit[a].key # call[c].key
    BY <1>4 DEF Cat!L!Taken, Cat!L!Recorded
  <2> HIDE DEF x, r
  <2>5. /\ RowsRight(Append(link, x), Append(audit, r))
        /\ Append(link, x) \in Seq(ALink) /\ Grows(link, Append(link, x))
        /\ Len(Append(link, x)) = n /\ Append(link, x)[n] = x
    BY <1>1, <1>2, <2>1, <2>2, <2>3, <2>4, Linking
  <2>6. Answers(h, n, Append(link, x))
    BY <1>1, <1>2, <2>1, <2>5 DEF Answers
  <2>7. CallsRight(call', Append(link, x))
    <3>1. n \in Nat /\ call[c].pc # "idle" /\ Cat!L!Done(c, "ok", n)
      BY <1>1, <1>2, <1>4
    <3> HIDE DEF n
    <3> PICK t : t = Append(link, x)
      OBVIOUS
    <3>2. t \in Seq(ALink) /\ Grows(link, t) /\ Answers(call[c].hash, n, t)
      BY <2>5, <2>6
    <3>3. CallsRight(call', t)
      BY <3>1, <3>2, DoneCalls
    <3>4. QED
      BY <3>3
  <2>8. QED
    BY <1>4, <2>5, <2>7 DEF LinksRight
<1>5. QED
  BY <1>1, <1>3, <1>4, FailStep, ReplayStep


\* The links t are those of s with the active link n ended, as the row r says.
Ended(s, n, t, r) ==
  /\ n \in DOMAIN s /\ s[n].state = "ACTIVE"
  /\ t \in Seq(ALink) /\ Len(t) = Len(s)
  /\ t[n].product = s[n].product /\ t[n].listing = s[n].listing
  /\ t[n].madeBy = s[n].madeBy /\ t[n].state = "INACTIVE"
  /\ \A i \in DOMAIN s \ {n} : t[i] = s[i]
  /\ r \in AuditRow /\ r.event = "UNLINKED" /\ r.link = n
  /\ r.key = t[n].endedBy /\ r.key \in Keys
  /\ r.hash \in Cat!L!Hash /\ r.hash.op = "unlink" /\ r.hash.link = n

LEMMA Unlinking ==
  ASSUME NEW s, NEW rows, NEW n, NEW t, NEW r,
         RowsRight(s, rows), Ended(s, n, t, r),
         \A a \in DOMAIN rows : rows[a].key # r.key
  PROVE  RowsRight(t, Append(rows, r)) /\ Grows(s, t)
<1> DEFINE bs == Append(rows, r)
<1> USE DEF Ended
<1>1. s \in Seq(ALink) /\ rows \in Seq(AuditRow) /\ ActiveOnce(s)
      /\ \A i \in DOMAIN s : Told(i, s, rows)
  BY DEF RowsRight
<1>2. DOMAIN s = 1..Len(s) /\ DOMAIN t = 1..Len(s) /\ Len(s) \in Nat
  BY <1>1
<1>3. /\ bs[Len(rows) + 1] = r
      /\ DOMAIN bs = DOMAIN rows \cup {Len(rows) + 1}
  BY <1>1, OneRow
<1>4. \A i \in DOMAIN s : Told(i, s, bs)
  BY <1>1, ToldStill
<1> HIDE DEF bs
<1>5. s[n].endedBy = None
  BY <1>4 DEF Told
<1>6. Grows(s, t)
  BY <1>2, <1>5 DEF Grows
<1>7. Tells(r, t)
  BY <1>2 DEF Tells
<1>8. ASSUME NEW i \in DOMAIN t
      PROVE  Told(i, t, bs)
  <2>1. CASE i # n
    BY <1>2, <1>4, <2>1 DEF Told
  <2>2. CASE i = n
    <3>1. t[n].endedBy # None
      BY NoKey
    <3>2. QED
      BY <1>2, <1>3, <1>4, <2>2, <3>1 DEF Told
  <2>3. QED
    BY <2>1, <2>2
<1>9. ActiveOnce(t)
  BY <1>1, <1>2 DEF ActiveOnce
<1>10. RowsRight(t, bs)
  BY <1>2, <1>6, <1>7, <1>8, <1>9, Written DEF bs
<1>11. QED
  BY <1>6, <1>10 DEF bs

\* One link is changed, and the others stay.
LEMMA OneChanged ==
  ASSUME NEW s \in Seq(ALink), NEW n \in 1..Len(s), NEW x \in ALink,
         NEW t, t = [s EXCEPT ![n] = x]
  PROVE  /\ t \in Seq(ALink) /\ Len(t) = Len(s) /\ t[n] = x
         /\ \A i \in DOMAIN s \ {n} : t[i] = s[i]
<1>1. s \in [1..Len(s) -> ALink] /\ Len(s) \in Nat
  OBVIOUS
<1>2. t \in [1..Len(s) -> ALink]
  BY <1>1
<1>3. t \in Seq(ALink) /\ Len(t) = Len(s)
  BY <1>1, <1>2, IsASeq
<1>4. QED
  BY <1>1, <1>3

LEMMA SaveUnlinkStep ==
  ASSUME LinksRight, NEW c \in Callers, Cat!L!SaveUnlink(c)
  PROVE  LinksRight'
<1> DEFINE h == call[c].hash
           n == h.link
           r == Cat!L!Row("UNLINKED", n, call[c].key, h)
           x == [link[n] EXCEPT !.state = "INACTIVE", !.endedBy = call[c].key]
           t == [link EXCEPT ![n] = x]
<1>1. /\ call[c].pc = "checked" /\ h.op = "unlink"
      /\ \/ Cat!L!Fail(c) /\ UNCHANGED <<link, audit>>
         \/ Cat!L!Replay(c) /\ UNCHANGED <<link, audit>>
         \/ /\ link[n].state = "ACTIVE" /\ ~Cat!L!Taken(call[c].key)
            /\ link' = t /\ audit' = Append(audit, r)
            /\ Cat!L!Done(c, "ok", n)
  BY DEF Cat!L!SaveUnlink
<1>2. /\ call[c].key \in Keys /\ h \in Cat!L!Hash
      /\ n \in 1..Len(link) /\ n \in Nat /\ DOMAIN link = 1..Len(link)
      /\ link \in Seq(ALink) /\ Len(link) \in Nat /\ RowsRight(link, audit)
  BY <1>1, LinkFacts DEF CallRight, Sensible, LinksRight
<1>3. CASE /\ link[n].state = "ACTIVE" /\ ~Cat!L!Taken(call[c].key)
           /\ link' = t /\ audit' = Append(audit, r)
           /\ Cat!L!Done(c, "ok", n)
  <2>1. r \in AuditRow /\ r.event = "UNLINKED" /\ r.link = n
        /\ r.key = call[c].key /\ r.hash = h
    BY <1>2 DEF Cat!L!Row, AuditRow
  <2>2. link[n] \in ALink
    BY <1>2
  <2>3. /\ x \in ALink /\ x.product = link[n].product
        /\ x.listing = link[n].listing /\ x.madeBy = link[n].madeBy
        /\ x.state = "INACTIVE" /\ x.endedBy = call[c].key
    BY <1>2, <2>2 DEF ALink
  <2>4. \A a \in DOMAIN audit : audit[a].key # call[c].key
    BY <1>3 DEF Cat!L!Taken, Cat!L!Recorded
  <2>5. link[n].state = "ACTIVE" /\ n \in DOMAIN link
        /\ call[c].pc # "idle" /\ Cat!L!Done(c, "ok", n)
        /\ link' = [link EXCEPT ![n] = x] /\ audit' = Append(audit, r)
    BY <1>1, <1>2, <1>3
  <2> PICK u : u = t
    OBVIOUS
  <2>6. u = [link EXCEPT ![n] = x] /\ link' = u
    BY <2>5
  <2> HIDE DEF t, x, r
  <2>7. /\ u \in Seq(ALink) /\ Len(u) = Len(link) /\ u[n] = x
        /\ \A i \in DOMAIN link \ {n} : u[i] = link[i]
    BY <1>2, <2>3, <2>6, OneChanged
  <2>8. h.link = n /\ h.op = "unlink" /\ h = call[c].hash
    BY <1>1
  <2>9. Answers(call[c].hash, n, u)
    BY <2>8 DEF Answers
  <2> HIDE DEF n, h
  <2>10. RowsRight(u, Append(audit, r)) /\ Grows(link, u)
    <3>1. /\ u[n].product = link[n].product /\ u[n].listing = link[n].listing
          /\ u[n].madeBy = link[n].madeBy /\ u[n].state = "INACTIVE"
          /\ u[n].endedBy = call[c].key
      BY <2>3, <2>7
    <3>2. /\ r.key = u[n].endedBy /\ r.key \in Keys
          /\ r.hash \in Cat!L!Hash /\ r.hash.op = "unlink" /\ r.hash.link = n
          /\ \A a \in DOMAIN audit : audit[a].key # r.key
      BY <1>2, <2>1, <2>4, <2>8, <3>1
    <3>3. /\ RowsRight(link, audit) /\ n \in DOMAIN link
          /\ link[n].state = "ACTIVE" /\ u \in Seq(ALink)
          /\ Len(u) = Len(link) /\ \A i \in DOMAIN link \ {n} : u[i] = link[i]
          /\ r \in AuditRow /\ r.event = "UNLINKED" /\ r.link = n
      BY <1>2, <2>1, <2>5, <2>7
    <3>4. Ended(link, n, u, r)
      BY <3>1, <3>2, <3>3 DEF Ended
    <3>5. QED
      BY <3>2, <3>3, <3>4, Unlinking
  <2>11. CallsRight(call', u)
    BY <1>2, <2>5, <2>7, <2>9, <2>10, DoneCalls
  <2>12. QED
    BY <2>5, <2>6, <2>10, <2>11 DEF LinksRight
<1>4. QED
  BY <1>1, <1>3, FailStep, ReplayStep


\* The listing is gone: its link is invalid, and nothing else changes.
LEMMA InvalidateStep ==
  ASSUME LinksRight, NEW l \in Listings, Cat!L!Invalidate(l)
  PROVE  LinksRight'
<1> DEFINE x(i) == [link[i] EXCEPT !.state = "INVALID"]
           t == [i \in DOMAIN link |-> IF i \in Cat!L!Active(l) THEN x(i)
                                       ELSE link[i]]
<1>1. link' = t /\ UNCHANGED <<audit, call>>
  BY DEF Cat!L!Invalidate
<1>2. /\ link \in Seq(ALink) /\ DOMAIN link = 1..Len(link) /\ Len(link) \in Nat
      /\ audit \in Seq(AuditRow)
      /\ RowsRight(link, audit) /\ CallsRight(call, link)
  BY DEF LinksRight, RowsRight
<1>3. ASSUME NEW i \in DOMAIN link
      PROVE  /\ link[i] \in ALink /\ x(i) \in ALink
             /\ x(i).product = link[i].product /\ x(i).listing = link[i].listing
             /\ x(i).madeBy = link[i].madeBy /\ x(i).endedBy = link[i].endedBy
             /\ x(i).state = "INVALID"
  <2>1. link[i] \in ALink
    BY <1>2
  <2>2. QED
    BY <2>1 DEF ALink
<1>4. \A i \in Cat!L!Active(l) : link[i].state = "ACTIVE"
  BY DEF Cat!L!Active
<1> PICK u : u = t
  OBVIOUS
<1>5. u \in [1..Len(link) -> ALink]
  BY <1>2, <1>3
<1>6. u \in Seq(ALink) /\ Len(u) = Len(link) /\ DOMAIN u = DOMAIN link
  BY <1>2, <1>5, IsASeq
<1>7. ASSUME NEW i \in DOMAIN link
      PROVE  /\ u[i].product = link[i].product /\ u[i].listing = link[i].listing
             /\ u[i].madeBy = link[i].madeBy /\ u[i].endedBy = link[i].endedBy
             /\ \/ u[i].state = link[i].state
                \/ u[i].state = "INVALID" /\ link[i].state = "ACTIVE"
  BY <1>3, <1>4
<1> HIDE DEF t, x
<1>8. Grows(link, u)
  BY <1>2, <1>6, <1>7 DEF Grows
<1>9. \A a \in DOMAIN audit : Tells(audit[a], u)
  BY <1>2, <1>6, <1>8, GrowsTells DEF RowsRight
<1>10. ASSUME NEW i \in DOMAIN u
       PROVE  Told(i, u, audit)
  <2>1. Told(i, link, audit)
    BY <1>2, <1>6 DEF RowsRight
  <2>2. QED
    BY <1>6, <1>7, <2>1 DEF Told
<1>11. ActiveOnce(u)
  <2>1. ActiveOnce(link)
    BY <1>2 DEF RowsRight
  <2>2. \A i \in DOMAIN u : u[i].state = "ACTIVE" => link[i].state = "ACTIVE"
    BY <1>6, <1>7
  <2>3. QED
    BY <1>6, <1>7, <2>1, <2>2 DEF ActiveOnce
<1>12. RowsRight(u, audit)
  BY <1>2, <1>6, <1>9, <1>10, <1>11 DEF RowsRight
<1>13. CallsRight(call, u)
  BY <1>2, <1>6, <1>8, GrowsTells
<1>14. QED
  BY <1>1, <1>12, <1>13 DEF LinksRight, t



LEMMA LinksStep ==
  ASSUME LinksRight, [Cat!Next]_catalogue
  PROVE  LinksRight'
<1>1. CASE UNCHANGED <<link, audit, call>>
  BY <1>1 DEF LinksRight
<1>2. CASE Cat!L!Next
  <2>1. ASSUME NEW c \in Callers, Cat!L!CallStep(c)
        PROVE  LinksRight'
    BY <2>1, CheckStep, SaveNewLinkStep, SaveUnlinkStep, SaveValidationStep
    DEF Cat!L!CallStep
  <2>2. ASSUME NEW l \in Listings, Cat!L!Invalidate(l) \/ Cat!L!SyncListing(l)
        PROVE  LinksRight'
    BY <1>1, <2>2, InvalidateStep DEF Cat!L!SyncListing
  <2>3. CASE Cat!L!ToggleConnection
    BY <1>1, <2>3 DEF Cat!L!ToggleConnection
  <2>4. ASSUME NEW c \in Callers, NEW key \in Keys,
               \/ \E p \in Products, l \in Listings :
                    Cat!L!Link(c, key, p, l) \/ Cat!L!AcceptSuggestion(c, key, p, l)
               \/ \E i \in DOMAIN link :
                    Cat!L!Unlink(c, key, i) \/ Cat!L!Validate(c, key, i)
        PROVE  LinksRight'
    BY <2>4, RequestStep
  <2>5. QED
    BY <1>2, <2>1, <2>2, <2>3, <2>4 DEF Cat!L!Next
<1>3. QED
  BY <1>1, <1>2 DEF Cat!Next, Cat!linkVars, catalogue

LEMMA LinksInvariant == OfficeSpec => []LinksRight
<1>1. OfficeInit => LinksRight
  BY LinksInit DEF OfficeInit
<1>2. LinksRight /\ [OfficeNext]_office => LinksRight'
  BY LinksStep DEF OfficeNext, office, catalogue
<1>3. QED
  BY <1>1, <1>2, PTL DEF OfficeSpec

LEMMA AtMostOne ==
  ASSUME NEW S, \A x, y \in S : x = y
  PROVE  Cat!L!Cardinality(S) <= 1
<1>1. CASE S = {}
  BY <1>1, FS_EmptySet DEF Cat!L!Cardinality, Cardinality
<1>2. CASE S # {}
  <2>1. PICK x \in S : TRUE
    BY <1>2
  <2>2. S = {x}
    BY <2>1
  <2>3. QED
    <3>1. Cat!L!Cardinality({x}) = 1
      BY FS_Singleton DEF Cat!L!Cardinality, Cardinality
    <3>2. QED
      BY <2>2, <3>1
<1>3. QED
  BY <1>1, <1>2

\* What was done for a key to a link has a row with the key.
LEMMA EffectsHaveRows ==
  ASSUME LinksRight, NEW i \in DOMAIN link
  PROVE  /\ \E a \in DOMAIN audit : /\ audit[a].event = "CREATED"
                                    /\ audit[a].link = i
                                    /\ audit[a].key = link[i].madeBy
         /\ link[i].state = "INACTIVE" <=>
              \E a \in DOMAIN audit : audit[a].event = "UNLINKED"
                                      /\ audit[a].link = i
         /\ link[i].endedBy # None =>
              \E a \in DOMAIN audit : /\ audit[a].event = "UNLINKED"
                                      /\ audit[a].link = i
                                      /\ audit[a].key = link[i].endedBy
<1>1. Told(i, link, audit) /\ \A a \in DOMAIN audit : Tells(audit[a], link)
  BY DEF LinksRight, RowsRight
<1>2. QED
  BY <1>1, NoKey DEF Told, Tells

LEMMA OneEffect ==
  ASSUME LinksRight, NEW key \in Keys
  PROVE  Cat!L!Cardinality(Cat!L!Effects(key)) <= 1
<1>1. DOMAIN link = 1..Len(link) /\ Len(link) \in Nat
  BY DEF LinksRight, RowsRight
<1>2. \A a, b \in DOMAIN audit :
        audit[a].key = key /\ audit[b].key = key => a = b
  BY NoKey DEF LinksRight, RowsRight, KeysOnce
<1>3. ASSUME NEW i \in DOMAIN link, NEW j \in DOMAIN link,
             link[i].madeBy = key, link[j].madeBy = key
      PROVE  i = j
  BY <1>2, <1>3, EffectsHaveRows
<1>4. ASSUME NEW i \in DOMAIN link, NEW j \in DOMAIN link,
             link[i].endedBy = key, link[j].endedBy = key
      PROVE  i = j
  BY <1>2, <1>4, NoKey, EffectsHaveRows
<1>5. ASSUME NEW i \in DOMAIN link, NEW j \in DOMAIN link,
             link[i].madeBy = key, link[j].endedBy = key
      PROVE  FALSE
  BY <1>2, <1>5, NoKey, EffectsHaveRows
<1>6. \A x, y \in Cat!L!Effects(key) : x = y
  BY <1>1, <1>3, <1>4, <1>5 DEF Cat!L!Effects
<1>7. QED
  BY <1>6, AtMostOne

\* However requests overtake each other and are repeated, a listing has one
\* active link at most, a key one effect and only answers to what was asked,
\* and the audit rows account for every link (ProductMarketplaceLinksService).
THEOREM LinksAccounted == OfficeSpec => []LinksSound
<1>1. ASSUME LinksRight
      PROVE  Cat!L!OneActiveLink
  <2>1. ASSUME NEW l \in Listings
        PROVE  \A i, j \in Cat!L!Active(l) : i = j
    BY <1>1 DEF LinksRight, RowsRight, ActiveOnce, Cat!L!Active
  <2>2. QED
    BY <2>1, AtMostOne DEF Cat!L!OneActiveLink
<1>2. ASSUME LinksRight
      PROVE  Cat!L!OneEffectPerKey
  <2>1. ASSUME NEW c \in Callers, call[c].pc = "ok"
        PROVE  Answers(call[c].hash, call[c].answer, link)
    BY <1>2, <2>1, LinkFacts DEF CallRight
  <2>2. QED
    BY <1>2, <2>1, OneEffect DEF Cat!L!OneEffectPerKey, Answers
<1>3. ASSUME LinksRight
      PROVE  Cat!L!AuditExplainsLinks
  BY <1>3, EffectsHaveRows DEF Cat!L!AuditExplainsLinks
<1>4. LinksRight => LinksSound
  BY <1>1, <1>2, <1>3 DEF LinksSound, Cat!LinksSound
<1>5. QED
  BY <1>4, LinksInvariant, PTL


-----------------------------------------------------------------------------
(* Pages (Screens).  What is under way is for the view there is, at least  *)
(* as new as what the user knows, and unless something is under way or has *)
(* failed the page shows the view.                                         *)

Load == [pc : {"free", "sent", "read", "disowned"},
         data : [view : Scr!Views \cup {Scr!Empty.view}, revision : Nat],
         owned : BOOLEAN]

ScreenTyped ==
  /\ view \in Scr!Views
  /\ loads \in [Loads -> Load]
  /\ revision \in [server : Nat, known : Nat] /\ revision.known <= revision.server
  /\ action \in [pc : {"none", "sent"}, filter : Filters \cup {"none"}]
  /\ action.pc = "sent" => action.filter \in Filters
  /\ action.pc = "none" => action = Scr!NoAction
  /\ crossed \in [changes : Nat, failed : BOOLEAN, crossed : BOOLEAN]
  /\ page.owns \in BOOLEAN /\ (page.owns => page.watches)

Pending(x) == x.pc \in {"sent", "read"}

OfCompany(ls, d, c) ==
  /\ \A r \in Loads : Pending(ls[r]) => ls[r].data.view.company = c
  /\ d = Scr!Empty \/ d.view.company = c

Fits(x, v, k) ==
  Pending(x) => x.data.view = v /\ (x.pc = "read" => x.data.revision >= k)

\* What comes, or is there, is of the view v and tells the revision k.
Comes(ls, d, v, k) ==
  \/ timer \/ crossed.failed
  \/ \E r \in Loads : Pending(ls[r])
  \/ d = Scr!Empty
  \/ d.view = v /\ d.revision >= k

Watchful == page.owns /\ page.later /\ (page.reload = "load" => ~crossed.crossed)

AsChosen ==
  /\ \A r \in Loads : Fits(loads[r], view, revision.known)
  /\ page.reload # "load" => \A r \in Loads : Pending(loads[r]) => loads[r].owned
  /\ page.reload = "load" /\ action.pc = "sent" => action.filter = view.filter
  /\ Comes(loads, shown, view, revision.known)

ScreensRight ==
  /\ ScreenTyped
  /\ page.keyed /\ page.later => OfCompany(loads, shown, view.company)
  /\ Watchful => AsChosen

\* Every page that disowns its requests asks again for another company.
LEMMA PagesWatch ==
  ASSUME NEW p \in Scr!Pages
  PROVE  p.owns \in BOOLEAN /\ (p.owns => p.watches)
<1> DEFINE Owner(q) == q.owns = TRUE /\ q.watches = TRUE
<1>1. /\ Owner(Scr!InventoryPage) /\ Owner(Scr!MovementsPage)
      /\ Owner(Scr!OrdersPage) /\ Owner(Scr!MarketplaceLinksPage)
      /\ Owner(Scr!OrderDetailsPage)
  BY DEF Scr!Careless, Scr!Careful, Scr!InventoryPage, Scr!MovementsPage,
     Scr!OrdersPage, Scr!MarketplaceLinksPage, Scr!OrderDetailsPage
<1>2. /\ Owner(Scr!WebhooksPage) /\ Owner(Scr!UnlinkedListingsPage)
      /\ Owner(Scr!ProductDrawer)
  BY DEF Scr!Careless, Scr!Careful, Scr!WebhooksPage, Scr!UnlinkedListingsPage,
     Scr!ProductDrawer
<1>3. /\ Owner(Scr!BundleEditor) /\ Owner(Scr!FiscalPage)
      /\ Owner(Scr!FiscalProductEditor)
  BY DEF Scr!Careless, Scr!Careful, Scr!BundleEditor, Scr!FiscalPage,
     Scr!FiscalProductEditor
<1>4. /\ Scr!MembersPage.owns = FALSE /\ Scr!IntegrationsPage.owns = FALSE
      /\ Scr!IntegrationDetailsPage.owns = FALSE
      /\ Scr!StockSyncPage.owns = FALSE
      /\ Scr!ExternalOrdersPage.owns = FALSE /\ Scr!ListingsPage.owns = FALSE
  BY DEF Scr!Careless, Scr!MembersPage, Scr!IntegrationsPage,
     Scr!IntegrationDetailsPage, Scr!StockSyncPage, Scr!ExternalOrdersPage,
     Scr!ListingsPage
<1>5. QED
  BY <1>1, <1>2, <1>3, <1>4 DEF Scr!Pages

LEMMA FreeLoad ==
  /\ Scr!Free \in Load /\ ~Pending(Scr!Free)
  /\ \A v \in Scr!Views, o \in BOOLEAN :
       LET x == Scr!Asked(v, o) IN
       x \in Load /\ x.pc = "sent" /\ x.data.view = v /\ x.owned = o
<1>1. Scr!Free \in Load /\ ~Pending(Scr!Free)
  BY DEF Scr!Free, Scr!Empty, Load, Pending
<1>2. ASSUME NEW v \in Scr!Views, NEW o \in BOOLEAN
      PROVE  LET x == Scr!Asked(v, o) IN
             x \in Load /\ x.pc = "sent" /\ x.data.view = v /\ x.owned = o
  BY DEF Scr!Asked, Scr!Data, Load
<1>3. QED
  BY <1>1, <1>2

\* The requests ls are those of before and one more, for v.
OneMore(ls, before, v, o) ==
  /\ ls \in [Loads -> Load]
  /\ \E r \in Loads :
       /\ ls[r].pc = "sent" /\ ls[r].data.view = v /\ ls[r].owned = o
       /\ \A q \in Loads \ {r} : ls[q] = before[q]

LEMMA Sent ==
  ASSUME NEW before \in [Loads -> Load], NEW v \in Scr!Views, NEW o \in BOOLEAN,
         Scr!Sends(before, v, o)
  PROVE  OneMore(loads', before, v, o)
<1>1. PICK r \in Loads : loads' = [before EXCEPT ![r] = Scr!Asked(v, o)]
  BY DEF Scr!Sends
<1> PICK x : x = Scr!Asked(v, o)
  OBVIOUS
<1>2. x \in Load /\ x.pc = "sent" /\ x.data.view = v /\ x.owned = o
  BY FreeLoad
<1>3. QED
  BY <1>1, <1>2 DEF OneMore

LEMMA LeftAlone ==
  ASSUME loads \in [Loads -> Load]
  PROVE  /\ Scr!Disowned \in [Loads -> Load]
         /\ \A r \in Loads : Pending(Scr!Disowned[r]) =>
              Scr!Disowned[r] = loads[r] /\ ~loads[r].owned
<1>1. \A r \in Loads : loads[r] \in Load
  OBVIOUS
<1>2. \A r \in Loads : LET x == [loads[r] EXCEPT !.pc = "disowned"] IN
                       x \in Load /\ ~Pending(x)
  BY <1>1 DEF Load, Pending
<1>3. QED
  BY <1>1, <1>2 DEF Scr!Disowned, Scr!UnderWay, Pending

LEMMA ScreensInit == ASSUME Scr!Init PROVE ScreensRight
<1>1. view \in Scr!Views /\ page \in Scr!Pages /\ shown = Scr!Empty
      /\ revision = [server |-> 1, known |-> 1] /\ action = Scr!NoAction
      /\ crossed = [changes |-> 0, failed |-> FALSE, crossed |-> FALSE]
      /\ timer = page.later
  BY DEF Scr!Init
<1>2. PICK r \in Loads :
        loads = [[q \in Loads |-> Scr!Free] EXCEPT
                   ![r] = IF page.later THEN Scr!Free
                          ELSE Scr!Asked(view, page.owns)]
  BY DEF Scr!Init
<1>3. page.owns \in BOOLEAN
  BY <1>1, PagesWatch
<1>4. loads \in [Loads -> Load]
  BY <1>1, <1>2, <1>3, FreeLoad
<1>5. page.later => \A q \in Loads : loads[q] = Scr!Free
  BY <1>2
<1>6. ScreenTyped
  BY <1>1, <1>4, PagesWatch DEF ScreenTyped, Scr!NoAction
<1>7. page.later => \A q \in Loads : ~Pending(loads[q])
  BY <1>5, FreeLoad
<1>8. QED
  BY <1>1, <1>6, <1>7
  DEF ScreensRight, OfCompany, Watchful, AsChosen, Fits, Comes, Scr!NoAction



\* Nobody else asks: what is pending was so before.
Fewer(ls, before) ==
  \A r \in Loads : Pending(ls[r]) => ls[r] = before[r]

LEMMA ScreenFacts ==
  ASSUME ScreensRight
  PROVE  /\ ScreenTyped
         /\ view \in Scr!Views /\ view.company \in Companies
         /\ \A f \in Filters : LET w == [view EXCEPT !.filter = f] IN
              w \in Scr!Views /\ w.company = view.company /\ w.filter = f
         /\ \A d \in Companies : [view EXCEPT !.company = d] \in Scr!Views
         /\ loads \in [Loads -> Load]
         /\ page.owns \in BOOLEAN /\ (page.owns => page.watches)
<1>1. ScreenTyped /\ view \in Scr!Views
  BY DEF ScreensRight, ScreenTyped
<1>2. QED
  BY <1>1 DEF ScreenTyped, Scr!Views

\* The requests have changed, or one more is under way.
LEMMA MoreFits ==
  ASSUME ScreensRight, NEW v \in Scr!Views, NEW o \in BOOLEAN,
         NEW ls, OneMore(ls, loads, v, o)
  PROVE  /\ OfCompany(loads, shown, v.company) => OfCompany(ls, shown, v.company)
         /\ \A k : (\A r \in Loads : Fits(loads[r], v, k))
                   => \A r \in Loads : Fits(ls[r], v, k)
         /\ \E r \in Loads : Pending(ls[r])
         /\ o /\ (\A r \in Loads : Pending(loads[r]) => loads[r].owned)
            => \A r \in Loads : Pending(ls[r]) => ls[r].owned
BY DEF OneMore, OfCompany, Fits, Pending

LEMMA FireStep == ASSUME ScreensRight, Scr!Fire PROVE ScreensRight'
<1>1. /\ OneMore(loads', loads, view, page.owns)
      /\ UNCHANGED <<page, view, shown, action, revision>>
      /\ crossed' = [crossed EXCEPT !.failed = FALSE]
  BY Sent, ScreenFacts DEF Scr!Fire
<1>2. ScreenTyped'
  BY <1>1 DEF ScreensRight, ScreenTyped, OneMore
<1>3. page.keyed /\ page.later => OfCompany(loads', shown, view.company)
  BY <1>1, ScreenFacts, MoreFits DEF ScreensRight
<1>4. Watchful' => Watchful
  BY <1>1 DEF Watchful, ScreensRight, ScreenTyped
<1>5. ASSUME Watchful
      PROVE  AsChosen'
  <2>1. /\ AsChosen /\ page.owns
        /\ view \in Scr!Views /\ page.owns \in BOOLEAN
    BY <1>5, ScreenFacts DEF ScreensRight, Watchful
  <2>2. /\ \A r \in Loads : Fits(loads'[r], view, revision.known)
        /\ \E r \in Loads : Pending(loads'[r])
        /\ page.reload # "load" =>
             \A r \in Loads : Pending(loads'[r]) => loads'[r].owned
    BY <1>1, <2>1, MoreFits DEF AsChosen
  <2>3. QED
    BY <1>1, <2>1, <2>2 DEF AsChosen, Comes
<1>6. QED
  BY <1>1, <1>2, <1>3, <1>4, <1>5 DEF ScreensRight

\* The view changes, or the data is old: what was asked for is disowned, and
\* the effect asks again.
NothingCrosses ==
  page.reload = "load" =>
    /\ action' = Scr!NoAction
    /\ ~ \E r \in Loads : Scr!UnderWay(r) /\ ~loads[r].owned

LEMMA AskAgainStep ==
  ASSUME ScreensRight, page.later, loads' = Scr!Disowned, timer' = TRUE,
         UNCHANGED <<page, shown>>, ScreenTyped',
         page.keyed => view'.company = view.company,
         Watchful' => Watchful /\ NothingCrosses
  PROVE  ScreensRight'
<1>1. loads \in [Loads -> Load]
  BY DEF ScreensRight, ScreenTyped
<1>2. \A r \in Loads : Pending(loads'[r]) =>
        loads'[r] = loads[r] /\ ~loads[r].owned
  BY <1>1, LeftAlone
<1>3. page.keyed => OfCompany(loads', shown, view'.company)
  BY <1>2 DEF ScreensRight, OfCompany
<1>4. ASSUME Watchful'
      PROVE  AsChosen'
  <2>1. Watchful /\ AsChosen
    BY <1>4 DEF ScreensRight
  <2>2. ASSUME NEW r \in Loads, Pending(loads'[r])
        PROVE  FALSE
    <3>1. Pending(loads[r]) /\ ~loads[r].owned
      BY <1>2, <2>2
    <3>2. page.reload = "load"
      BY <2>1, <3>1 DEF AsChosen
    <3>3. QED
      BY <1>4, <3>1, <3>2 DEF NothingCrosses, Scr!UnderWay, Pending
  <2>3. page.reload = "load" => action'.pc # "sent"
    BY <1>4 DEF NothingCrosses, Scr!NoAction
  <2>4. QED
    BY <2>2, <2>3 DEF AsChosen, Fits, Comes
<1>5. (page.keyed /\ page.later => OfCompany(loads, shown, view.company))'
  BY <1>3
<1>6. (Watchful => AsChosen)'
  BY <1>4
<1>7. QED
  BY <1>5, <1>6 DEF ScreensRight

LEMMA EffectStep ==
  ASSUME ScreensRight, NEW v \in Scr!Views, NEW before \in [Loads -> Load],
         Scr!Effect(before, v)
  PROVE  /\ loads' \in [Loads -> Load]
         /\ page.later => loads' = before /\ timer' = TRUE
BY ScreenFacts, Sent DEF Scr!Effect, OneMore

LEMMA ChangedStep ==
  ASSUME ScreensRight, Scr!Changed
  PROVE  /\ crossed' \in [changes : Nat, failed : BOOLEAN, crossed : BOOLEAN]
         /\ ~crossed'.crossed =>
              /\ ~crossed.crossed /\ action = Scr!NoAction
              /\ ~ \E r \in Loads : Scr!UnderWay(r) /\ ~loads[r].owned
<1> DEFINE b == \/ crossed.crossed \/ action # Scr!NoAction
                \/ \E r \in Loads : Scr!UnderWay(r) /\ ~loads[r].owned
<1>1. crossed \in [changes : Nat, failed : BOOLEAN, crossed : BOOLEAN]
  BY DEF ScreensRight, ScreenTyped
<1>2. b \in BOOLEAN
  BY <1>1
<1>3. crossed' = [crossed EXCEPT !.changes = @ + 1, !.failed = FALSE,
                                 !.crossed = b]
  BY DEF Scr!Changed
<1>4. crossed'.crossed = b
      /\ crossed' \in [changes : Nat, failed : BOOLEAN, crossed : BOOLEAN]
  <2> PICK e \in BOOLEAN : e = b
    BY <1>2
  <2> HIDE DEF b
  <2>1. crossed' = [crossed EXCEPT !.changes = @ + 1, !.failed = FALSE,
                                   !.crossed = e]
    BY <1>3
  <2>2. crossed.changes + 1 \in Nat
    BY <1>1
  <2>3. QED
    BY <1>1, <2>1, <2>2
<1>5. QED
  BY <1>4

LEMMA FilterStep ==
  ASSUME ScreensRight, NEW f \in Filters, Scr!Filter(f)
  PROVE  ScreensRight'
<1>1. /\ Scr!Changed /\ view' = [view EXCEPT !.filter = f]
      /\ Scr!Effect(Scr!Disowned, view')
      /\ UNCHANGED <<page, shown, action, revision>>
  BY DEF Scr!Filter
<1>2. view' \in Scr!Views /\ view'.company = view.company
  BY <1>1, ScreenFacts
<1>3. /\ loads' \in [Loads -> Load]
      /\ page.later => loads' = Scr!Disowned /\ timer' = TRUE
  BY <1>1, <1>2, ScreenFacts, LeftAlone, EffectStep
<1>4. ScreenTyped'
  BY <1>1, <1>2, <1>3, ChangedStep DEF ScreensRight, ScreenTyped
<1>5. Watchful' => Watchful /\ NothingCrosses
  BY <1>1, ChangedStep DEF Watchful, NothingCrosses
<1>6. CASE page.later
  BY <1>1, <1>2, <1>3, <1>4, <1>5, <1>6, AskAgainStep
<1>7. CASE ~page.later
  BY <1>1, <1>4, <1>7 DEF ScreensRight, Watchful
<1>8. QED
  BY <1>6, <1>7



LEMMA SwitchStep ==
  ASSUME ScreensRight, NEW d \in Companies, Scr!Switch(d)
  PROVE  ScreensRight'
<1> DEFINE none == [r \in Loads |-> Scr!Free]
<1>1. /\ Scr!Changed /\ view' = [view EXCEPT !.company = d]
      /\ UNCHANGED <<page, revision>>
  BY DEF Scr!Switch
<1>2. view' \in Scr!Views /\ view \in Scr!Views /\ none \in [Loads -> Load]
  BY <1>1, ScreenFacts, FreeLoad
<1>3. Watchful' => (Watchful /\ NothingCrosses) \/ page.keyed
  BY <1>1, ChangedStep DEF Scr!Switch, Watchful, NothingCrosses
<1>4. CASE page.keyed
  <2>1. /\ shown' = Scr!Empty /\ action' = Scr!NoAction
        /\ Scr!Effect(none, view)
    BY <1>4 DEF Scr!Switch
  <2> HIDE DEF none
  <2>2. /\ loads' \in [Loads -> Load]
        /\ page.later => loads' = none /\ timer' = TRUE
    BY <1>2, <2>1, EffectStep
  <2>3. ScreenTyped'
    BY <1>1, <1>2, <2>1, <2>2, ChangedStep
    DEF ScreensRight, ScreenTyped, Scr!NoAction
  <2>4. page.later => \A r \in Loads : ~Pending(loads'[r])
    BY <2>2, FreeLoad DEF none
  <2>5. (page.keyed /\ page.later => OfCompany(loads, shown, view.company))'
    BY <1>1, <2>1, <2>4 DEF OfCompany
  <2>6. (Watchful => AsChosen)'
    BY <1>1, <2>1, <2>2, <2>4 DEF Watchful, AsChosen, Fits, Comes, Scr!NoAction
  <2>7. QED
    BY <2>3, <2>5, <2>6 DEF ScreensRight
<1>5. CASE ~page.keyed /\ page.watches
  <2>1. UNCHANGED <<shown, action>> /\ Scr!Effect(Scr!Disowned, view)
    BY <1>5 DEF Scr!Switch
  <2>2. /\ loads' \in [Loads -> Load]
        /\ page.later => loads' = Scr!Disowned /\ timer' = TRUE
    BY <1>2, <2>1, ScreenFacts, LeftAlone, EffectStep
  <2>3. ScreenTyped'
    BY <1>1, <1>2, <2>1, <2>2, ChangedStep DEF ScreensRight, ScreenTyped
  <2>4. CASE page.later
    BY <1>1, <1>3, <1>5, <2>1, <2>2, <2>3, <2>4, AskAgainStep
  <2>5. CASE ~page.later
    BY <1>1, <2>3, <2>5 DEF ScreensRight, Watchful
  <2>6. QED
    BY <2>4, <2>5
<1>6. CASE ~page.keyed /\ ~page.watches
  <2>1. UNCHANGED <<shown, action, loads, timer>>
    BY <1>6 DEF Scr!Switch
  <2>2. ScreenTyped'
    BY <1>1, <1>2, <2>1, ChangedStep DEF ScreensRight, ScreenTyped
  <2>3. ~page.owns
    BY <1>6, ScreenFacts
  <2>4. QED
    BY <1>1, <1>6, <2>2, <2>3 DEF ScreensRight, Watchful
<1>7. QED
  BY <1>4, <1>5, <1>6

LEMMA PageReads ==
  ASSUME ScreensRight, NEW r \in Loads, Scr!Read(r)
  PROVE  ScreensRight'
<1> DEFINE x == [loads[r] EXCEPT !.pc = "read", !.data.revision = revision.server]
<1>1. /\ loads[r].pc = "sent" /\ loads' = [loads EXCEPT ![r] = x]
      /\ UNCHANGED <<page, view, shown, timer, action, revision, crossed>>
  BY DEF Scr!Read, Scr!Becomes
<1>2. /\ ScreenTyped /\ loads \in [Loads -> Load] /\ loads[r] \in Load
      /\ revision.server \in Nat /\ revision.known \in Nat
      /\ revision.server >= revision.known
  BY DEF ScreensRight, ScreenTyped
<1>3. /\ x \in Load /\ x.pc = "read" /\ x.data.view = loads[r].data.view
      /\ x.data.revision = revision.server /\ x.owned = loads[r].owned
  BY <1>2 DEF Load
<1> HIDE DEF x
<1>4. /\ loads' \in [Loads -> Load] /\ loads'[r] = x
      /\ \A q \in Loads \ {r} : loads'[q] = loads[q]
  BY <1>1, <1>2, <1>3
<1>5. ScreenTyped'
  BY <1>1, <1>2, <1>4 DEF ScreenTyped
<1>6. (page.keyed /\ page.later => OfCompany(loads, shown, view.company))'
  BY <1>1, <1>3, <1>4 DEF ScreensRight, OfCompany, Pending
<1>7. ASSUME Watchful
      PROVE  AsChosen'
  <2>1. AsChosen
    BY <1>7 DEF ScreensRight
  <2>2. \A q \in Loads : Fits(loads'[q], view, revision.known)
    BY <1>1, <1>2, <1>3, <1>4, <2>1 DEF AsChosen, Fits, Pending
  <2>3. Pending(loads'[r])
    BY <1>3, <1>4 DEF Pending
  <2>4. page.reload # "load" =>
          \A q \in Loads : Pending(loads'[q]) => loads'[q].owned
    BY <1>1, <1>3, <1>4, <2>1 DEF AsChosen, Pending
  <2>5. QED
    BY <1>1, <2>1, <2>2, <2>3, <2>4 DEF AsChosen, Comes
<1>8. (Watchful => AsChosen)'
  BY <1>1, <1>7 DEF Watchful
<1>9. QED
  BY <1>5, <1>6, <1>8 DEF ScreensRight

\* A request ends.
LEMMA PageHeard ==
  ASSUME ScreensRight, NEW r \in Loads, Scr!Answer(r) \/ Scr!Fail(r)
  PROVE  ScreensRight'
<1>1. /\ loads' = [loads EXCEPT ![r] = Scr!Free]
      /\ UNCHANGED <<page, view, timer, action, revision>>
      /\ \E e \in BOOLEAN : crossed' = [crossed EXCEPT !.failed = e]
      /\ \/ shown' = shown /\ crossed' = crossed /\ loads[r].pc = "disowned"
         \/ shown' = shown /\ crossed' = [crossed EXCEPT !.failed = TRUE]
         \/ shown' = loads[r].data /\ loads[r].pc = "read"
  <2>1. crossed \in [changes : Nat, failed : BOOLEAN, crossed : BOOLEAN]
    BY DEF ScreensRight, ScreenTyped
  <2>2. CASE Scr!Fail(r)
    BY <2>1, <2>2 DEF Scr!Fail, Scr!Becomes
  <2>3. CASE Scr!Answer(r)
    BY <2>1, <2>3 DEF Scr!Answer, Scr!Becomes, Scr!Ignored
  <2>4. QED
    BY <2>2, <2>3
<1>2. /\ ScreenTyped /\ loads \in [Loads -> Load] /\ loads[r] \in Load
      /\ crossed \in [changes : Nat, failed : BOOLEAN, crossed : BOOLEAN]
  BY DEF ScreensRight, ScreenTyped
<1>3. /\ loads' \in [Loads -> Load] /\ ~Pending(loads'[r])
      /\ \A q \in Loads \ {r} : loads'[q] = loads[q]
  BY <1>1, <1>2, FreeLoad
<1>4. ScreenTyped' /\ crossed'.crossed = crossed.crossed
  BY <1>1, <1>2, <1>3 DEF ScreenTyped
<1>5. (page.keyed /\ page.later => OfCompany(loads, shown, view.company))'
  BY <1>1, <1>3 DEF ScreensRight, OfCompany, Pending
<1>6. ASSUME Watchful
      PROVE  AsChosen'
  <2>1. AsChosen
    BY <1>6 DEF ScreensRight
  <2>2. /\ \A q \in Loads : Fits(loads'[q], view, revision.known)
        /\ page.reload # "load" =>
             \A q \in Loads : Pending(loads'[q]) => loads'[q].owned
    BY <1>3, <2>1 DEF AsChosen, Fits
  <2>3. Comes(loads, shown, view, revision.known)'
    <3>1. CASE shown' = shown /\ crossed' = crossed /\ loads[r].pc = "disowned"
      BY <1>1, <1>3, <2>1, <3>1 DEF AsChosen, Comes, Pending
    <3>2. CASE shown' = shown /\ crossed' = [crossed EXCEPT !.failed = TRUE]
      BY <1>2, <3>2 DEF Comes
    <3>3. CASE shown' = loads[r].data /\ loads[r].pc = "read"
      BY <1>1, <2>1, <3>3 DEF AsChosen, Fits, Comes, Pending
    <3>4. QED
      BY <1>1, <3>1, <3>2, <3>3
  <2>4. QED
    BY <1>1, <2>1, <2>2, <2>3 DEF AsChosen
<1>7. (Watchful => AsChosen)'
  BY <1>1, <1>4, <1>6 DEF Watchful
<1>8. QED
  BY <1>4, <1>5, <1>7 DEF ScreensRight

LEMMA ActStep == ASSUME ScreensRight, Scr!Act PROVE ScreensRight'
<1>1. /\ UNCHANGED <<page, view, shown, loads, timer, revision>>
      /\ action' = [pc |-> "sent", filter |-> view.filter]
      /\ crossed' = [crossed EXCEPT !.changes = @ + 1]
  BY DEF Scr!Act
<1>2. /\ ScreenTyped /\ view.filter \in Filters
      /\ crossed \in [changes : Nat, failed : BOOLEAN, crossed : BOOLEAN]
  BY DEF ScreensRight, ScreenTyped, Scr!Views
<1>3. crossed' \in [changes : Nat, failed : BOOLEAN, crossed : BOOLEAN]
      /\ crossed'.failed = crossed.failed /\ crossed'.crossed = crossed.crossed
  BY <1>1, <1>2
<1>4. ScreenTyped'
  BY <1>1, <1>2, <1>3 DEF ScreenTyped
<1>5. (Watchful => AsChosen)'
  BY <1>1, <1>3 DEF ScreensRight, Watchful, AsChosen, Comes
<1>6. QED
  BY <1>1, <1>4, <1>5 DEF ScreensRight



\* The load after an action, whether it failed or the data is new.
LEMMA ReloadStep ==
  ASSUME ScreensRight, action.pc = "sent", page.reload = "load", Scr!Reload,
         action' = Scr!NoAction, UNCHANGED <<page, view, shown>>,
         revision' \in [server : Nat, known : Nat],
         revision'.known <= revision'.server,
         revision' = revision \/ revision'.known = revision'.server
  PROVE  ScreensRight'
<1> DEFINE w == [view EXCEPT !.filter = action.filter]
           b == crossed.crossed \/ \E r \in Loads : Scr!UnderWay(r)
<1>1. /\ ScreenTyped /\ action.filter \in Filters
      /\ crossed \in [changes : Nat, failed : BOOLEAN, crossed : BOOLEAN]
  BY DEF ScreensRight, ScreenTyped
<1>2. /\ w \in Scr!Views /\ w.company = view.company
      /\ action.filter = view.filter => w = view
  BY <1>1, ScreenFacts DEF Scr!Views
<1>3. OneMore(loads', loads, w, FALSE)
  <2>1. Scr!Sends(loads, w, FALSE) /\ loads \in [Loads -> Load]
    BY ScreenFacts DEF Scr!Reload
  <2> HIDE DEF w
  <2>2. QED
    BY <1>2, <2>1, Sent
<1>4. b \in BOOLEAN
  BY <1>1
<1>5. crossed' = [crossed EXCEPT !.failed = FALSE, !.crossed = b]
      /\ timer' = timer
  BY DEF Scr!Reload
<1>6. crossed'.crossed = b
      /\ crossed' \in [changes : Nat, failed : BOOLEAN, crossed : BOOLEAN]
  <2> PICK e \in BOOLEAN : e = b
    BY <1>4
  <2> HIDE DEF b
  <2>1. crossed' = [crossed EXCEPT !.failed = FALSE, !.crossed = e]
    BY <1>5
  <2>2. QED
    BY <1>1, <2>1
<1> HIDE DEF w
<1>7. ScreenTyped'
  BY <1>1, <1>3, <1>6 DEF ScreenTyped, OneMore, Scr!NoAction
<1>8. (page.keyed /\ page.later => OfCompany(loads, shown, view.company))'
  BY <1>2, <1>3, MoreFits DEF ScreensRight
<1>9. ASSUME Watchful'
      PROVE  AsChosen'
  <2>1. /\ Watchful /\ AsChosen
        /\ \A r \in Loads : ~Pending(loads[r])
    BY <1>6, <1>9 DEF ScreensRight, Watchful, Scr!UnderWay, Pending
  <2>2. w = view
    BY <1>2, <2>1 DEF AsChosen
  <2>3. PICK r \in Loads :
          /\ loads'[r].pc = "sent" /\ loads'[r].data.view = view
          /\ \A q \in Loads \ {r} : loads'[q] = loads[q]
    BY <1>3, <2>2 DEF OneMore
  <2>4. Pending(loads'[r]) /\ Fits(loads'[r], view, revision'.known)
    BY <2>3 DEF Pending, Fits
  <2>5. \A q \in Loads : Fits(loads'[q], view, revision'.known)
    BY <2>1, <2>3, <2>4 DEF Fits
  <2>6. QED
    BY <2>4, <2>5 DEF AsChosen, Comes, Scr!NoAction
<1>10. (Watchful => AsChosen)'
  BY <1>9
<1>11. QED
  BY <1>7, <1>8, <1>10 DEF ScreensRight

LEMMA ActedStep == ASSUME ScreensRight, Scr!Acted PROVE ScreensRight'
<1>1. /\ action.pc = "sent" /\ action' = Scr!NoAction
      /\ revision' = [server |-> revision.server + 1,
                      known |-> revision.server + 1]
      /\ UNCHANGED <<page, view, shown>>
  BY DEF Scr!Acted
<1>2. /\ ScreenTyped /\ revision.server + 1 \in Nat
      /\ crossed \in [changes : Nat, failed : BOOLEAN, crossed : BOOLEAN]
  BY DEF ScreensRight, ScreenTyped
<1>3. /\ revision' \in [server : Nat, known : Nat]
      /\ revision'.known <= revision'.server
      /\ revision'.known = revision'.server
  BY <1>1, <1>2
<1>4. CASE page.reload = "load"
  BY <1>1, <1>3, <1>4, ReloadStep DEF Scr!Acted
<1>5. CASE page.reload # "load"
  <2>1. /\ Scr!Effect(Scr!Disowned, view)
        /\ crossed' = [crossed EXCEPT !.failed = FALSE]
    BY <1>5 DEF Scr!Acted
  <2>2. /\ loads' \in [Loads -> Load]
        /\ page.later => loads' = Scr!Disowned /\ timer' = TRUE
    BY <2>1, ScreenFacts, LeftAlone, EffectStep
  <2>3. ScreenTyped'
    BY <1>1, <1>2, <1>3, <2>1, <2>2 DEF ScreenTyped, Scr!NoAction
  <2>4. Watchful' => Watchful /\ NothingCrosses
    BY <1>1, <1>5 DEF Watchful, NothingCrosses
  <2>5. CASE page.later
    BY <1>1, <2>2, <2>3, <2>4, <2>5, AskAgainStep
  <2>6. CASE ~page.later
    BY <1>1, <2>3, <2>6 DEF ScreensRight, Watchful
  <2>7. QED
    BY <2>5, <2>6
<1>6. QED
  BY <1>4, <1>5

LEMMA ActionFailsStep == ASSUME ScreensRight, Scr!ActionFails PROVE ScreensRight'
<1>1. /\ action.pc = "sent" /\ action' = Scr!NoAction
      /\ UNCHANGED <<page, view, shown, revision>>
  BY DEF Scr!ActionFails
<1>2. CASE page.reload = "load" /\ Scr!Reload
  <2>1. revision \in [server : Nat, known : Nat]
        /\ revision.known <= revision.server
    BY DEF ScreensRight, ScreenTyped
  <2>2. QED
    BY <1>1, <1>2, <2>1, ReloadStep
<1>3. CASE UNCHANGED <<loads, timer, crossed>>
  <2>1. ScreenTyped'
    BY <1>1, <1>3 DEF ScreensRight, ScreenTyped, Scr!NoAction
  <2>2. (Watchful => AsChosen)'
    BY <1>1, <1>3
    DEF ScreensRight, Watchful, AsChosen, Comes, Scr!NoAction
  <2>3. QED
    BY <1>1, <1>3, <2>1, <2>2 DEF ScreensRight
<1>4. QED
  BY <1>2, <1>3 DEF Scr!ActionFails

LEMMA ScreensStep ==
  ASSUME ScreensRight, [Scr!Next]_screens
  PROVE  ScreensRight'
<1>1. CASE UNCHANGED screens
  BY <1>1
  DEF screens, ScreensRight, ScreenTyped, Watchful, AsChosen, Comes
<1>2. CASE Scr!Next
  BY <1>2, FireStep, ActStep, ActedStep, ActionFailsStep, FilterStep,
     SwitchStep, PageReads, PageHeard
  DEF Scr!Next
<1>3. QED
  BY <1>1, <1>2

LEMMA ScreensInvariant == OfficeSpec => []ScreensRight
<1>1. OfficeInit => ScreensRight
  BY ScreensInit DEF OfficeInit
<1>2. ScreensRight /\ [OfficeNext]_office => ScreensRight'
  BY ScreensStep DEF OfficeNext, office
<1>3. QED
  BY <1>1, <1>2, PTL DEF OfficeSpec

\* However answers and the user's changes overtake each other, a page that
\* hides foreign data never draws it, and one that disowns its requests comes
\* to show the view as new as the user knows it (the effects of the pages).
THEOREM PagesShowTheirView == OfficeSpec => []ScreenShowsItsView
<1>1. ScreensRight => Scr!ForeignDataHidden
  BY DEF ScreensRight, OfCompany, Scr!ForeignDataHidden, Scr!Drawn
<1>2. ScreensRight => Scr!EndsWithTheView
  BY DEF ScreensRight, Watchful, AsChosen, Comes, Pending,
         Scr!EndsWithTheView, Scr!Settled, Scr!UnderWay
<1>3. ScreensRight => ScreenShowsItsView
  BY <1>1, <1>2 DEF ScreenShowsItsView, Scr!ScreenShowsItsView
<1>4. QED
  BY <1>3, ScreensInvariant, PTL

-----------------------------------------------------------------------------
(* Types.  What the invariants above do not say of the variables.          *)

LEMMA PagesLater == ASSUME NEW p \in Scr!Pages PROVE p.later \in BOOLEAN
<1>1. /\ Scr!InventoryPage.later = TRUE /\ Scr!MovementsPage.later = TRUE
      /\ Scr!OrdersPage.later = TRUE /\ Scr!MarketplaceLinksPage.later = TRUE
      /\ Scr!OrderDetailsPage.later = FALSE /\ Scr!WebhooksPage.later = TRUE
  BY DEF Scr!Careless, Scr!Careful, Scr!InventoryPage, Scr!MovementsPage,
     Scr!OrdersPage, Scr!MarketplaceLinksPage, Scr!OrderDetailsPage,
     Scr!WebhooksPage
<1>2. /\ Scr!UnlinkedListingsPage.later = TRUE /\ Scr!ProductDrawer.later = TRUE
      /\ Scr!BundleEditor.later = FALSE /\ Scr!FiscalPage.later = FALSE
      /\ Scr!FiscalProductEditor.later = FALSE
  BY DEF Scr!Careless, Scr!Careful, Scr!UnlinkedListingsPage,
     Scr!ProductDrawer, Scr!BundleEditor, Scr!FiscalPage,
     Scr!FiscalProductEditor
<1>3. /\ Scr!MembersPage.later = TRUE /\ Scr!IntegrationsPage.later = TRUE
      /\ Scr!IntegrationDetailsPage.later = TRUE
      /\ Scr!StockSyncPage.later = FALSE
      /\ Scr!ExternalOrdersPage.later = FALSE /\ Scr!ListingsPage.later = FALSE
  BY DEF Scr!Careless, Scr!MembersPage, Scr!IntegrationsPage,
     Scr!IntegrationDetailsPage, Scr!StockSyncPage, Scr!ExternalOrdersPage,
     Scr!ListingsPage
<1>4. QED
  BY <1>1, <1>2, <1>3 DEF Scr!Pages

\* A request, and what a page has, is for a view.
ForAView(ls) == \A r \in Loads : ls[r].pc # "free" => ls[r].data.view \in Scr!Views

ScreenSeen ==
  /\ timer \in BOOLEAN
  /\ shown = Scr!Empty \/ shown.view \in Scr!Views
  /\ ForAView(loads)

LEMMA SentForAView ==
  ASSUME NEW before \in [Loads -> Load], ForAView(before), NEW v \in Scr!Views,
         NEW o \in BOOLEAN, Scr!Sends(before, v, o)
  PROVE  ForAView(loads')
BY Sent DEF OneMore, ForAView

LEMMA DisownedForAView ==
  ASSUME loads \in [Loads -> Load], ForAView(loads)
  PROVE  ForAView(Scr!Disowned)
<1> SUFFICES ASSUME NEW r \in Loads, Scr!Disowned[r].pc # "free"
             PROVE  Scr!Disowned[r].data.view \in Scr!Views
  BY DEF ForAView
<1>1. loads[r] \in Load
  OBVIOUS
<1>2. LET x == [loads[r] EXCEPT !.pc = "disowned"] IN x.data = loads[r].data
  BY <1>1 DEF Load
<1>3. \/ Scr!Disowned[r] = loads[r]
      \/ /\ Scr!Disowned[r] = [loads[r] EXCEPT !.pc = "disowned"]
         /\ loads[r].pc \in {"sent", "read"}
  BY DEF Scr!Disowned, Scr!UnderWay
<1>4. QED
  BY <1>2, <1>3 DEF ForAView

LEMMA EffectForAView ==
  ASSUME ScreensRight, NEW v \in Scr!Views, NEW before \in [Loads -> Load],
         ForAView(before), Scr!Effect(before, v)
  PROVE  ForAView(loads') /\ timer' \in BOOLEAN
BY ScreenFacts, SentForAView DEF Scr!Effect

LEMMA ScreenSeenInit == ASSUME Scr!Init PROVE ScreenSeen
<1>1. view \in Scr!Views /\ page \in Scr!Pages /\ shown = Scr!Empty
      /\ timer = page.later
  BY DEF Scr!Init
<1>2. PICK r \in Loads :
        loads = [[q \in Loads |-> Scr!Free] EXCEPT
                   ![r] = IF page.later THEN Scr!Free
                          ELSE Scr!Asked(view, page.owns)]
  BY DEF Scr!Init
<1>3. page.later \in BOOLEAN
  BY <1>1, PagesLater
<1>4. ForAView(loads)
  BY <1>1, <1>2 DEF ForAView, Scr!Free, Scr!Asked, Scr!Data
<1>5. QED
  BY <1>1, <1>3, <1>4 DEF ScreenSeen

LEMMA ScreenSeenStep ==
  ASSUME ScreensRight, ScreenSeen, [Scr!Next]_screens
  PROVE  ScreenSeen'
<1> USE ScreenFacts
<1>1. CASE UNCHANGED screens
  BY <1>1 DEF screens, ScreenSeen
<1>2. ASSUME Scr!Fire PROVE ScreenSeen'
  BY <1>2, SentForAView DEF Scr!Fire, ScreenSeen
<1>3. ASSUME Scr!Act PROVE ScreenSeen'
  BY <1>3 DEF Scr!Act, ScreenSeen
<1>4. ASSUME Scr!Reload, action.pc = "sent", UNCHANGED shown
      PROVE  ScreenSeen'
  <2>1. [view EXCEPT !.filter = action.filter] \in Scr!Views
    BY <1>4 DEF ScreenTyped
  <2>2. ForAView(loads') /\ timer' = timer
    BY <1>4, <2>1, SentForAView DEF Scr!Reload, ScreenSeen
  <2>3. QED
    BY <1>4, <2>2 DEF ScreenSeen
<1>5. ASSUME NEW v \in Scr!Views, Scr!Effect(Scr!Disowned, v), UNCHANGED shown
      PROVE  ScreenSeen'
  BY <1>5, LeftAlone, DisownedForAView, EffectForAView DEF ScreenSeen
<1>6. ASSUME Scr!Acted PROVE ScreenSeen'
  BY <1>4, <1>5, <1>6 DEF Scr!Acted
<1>7. ASSUME Scr!ActionFails PROVE ScreenSeen'
  BY <1>4, <1>7 DEF Scr!ActionFails, ScreenSeen
<1>8. ASSUME NEW f \in Filters, Scr!Filter(f) PROVE ScreenSeen'
  <2>1. view' \in Scr!Views
    BY <1>8 DEF Scr!Filter
  <2>2. QED
    BY <1>5, <1>8, <2>1 DEF Scr!Filter
<1>9. ASSUME NEW c \in Companies, Scr!Switch(c) PROVE ScreenSeen'
  <2> DEFINE none == [r \in Loads |-> Scr!Free]
  <2>1. CASE page.keyed
    <3>1. Scr!Effect(none, view) /\ shown' = Scr!Empty
      BY <1>9, <2>1 DEF Scr!Switch
    <3>2. none \in [Loads -> Load] /\ ForAView(none)
      BY FreeLoad DEF ForAView, Scr!Free
    <3> HIDE DEF none
    <3>3. QED
      BY <3>1, <3>2, EffectForAView DEF ScreenSeen
  <2>2. CASE ~page.keyed
    BY <1>5, <1>9, <2>2 DEF Scr!Switch, ScreenSeen
  <2>3. QED
    BY <2>1, <2>2
<1>10. ASSUME NEW r \in Loads, Scr!Read(r) PROVE ScreenSeen'
  <2> DEFINE x == [loads[r] EXCEPT !.pc = "read", !.data.revision = revision.server]
  <2>1. /\ loads' = [loads EXCEPT ![r] = x] /\ UNCHANGED <<shown, timer>>
        /\ loads[r].pc = "sent" /\ loads[r] \in Load
    BY <1>10 DEF Scr!Read, Scr!Becomes
  <2>2. x.data.view = loads[r].data.view
    BY <2>1 DEF Load
  <2> HIDE DEF x
  <2>3. ForAView(loads')
    BY <2>1, <2>2 DEF ForAView, ScreenSeen
  <2>4. QED
    BY <2>1, <2>3 DEF ScreenSeen
<1>11. ASSUME NEW r \in Loads, Scr!Answer(r) \/ Scr!Fail(r) PROVE ScreenSeen'
  <2>1. /\ loads' = [loads EXCEPT ![r] = Scr!Free] /\ timer' = timer
        /\ shown' = shown \/ (shown' = loads[r].data /\ loads[r].pc # "free")
    BY <1>11 DEF Scr!Answer, Scr!Fail, Scr!Becomes
  <2>2. ForAView(loads')
    BY <2>1, FreeLoad DEF ForAView, ScreenSeen, Scr!Free
  <2>3. QED
    BY <2>1, <2>2 DEF ScreenSeen, ForAView
<1>12. CASE Scr!Next
  BY <1>2, <1>3, <1>6, <1>7, <1>8, <1>9, <1>10, <1>11, <1>12 DEF Scr!Next
<1>13. QED
  BY <1>1, <1>12

LEMMA ScreensTyped == OfficeSpec => []Scr!TypeOK
<1>1. OfficeInit => ScreenSeen
  BY ScreenSeenInit DEF OfficeInit
<1>2. ScreensRight /\ ScreenSeen /\ [OfficeNext]_office => ScreenSeen'
  BY ScreenSeenStep DEF OfficeNext, office
<1>3. ScreensRight /\ ScreenSeen => Scr!TypeOK
  <2> SUFFICES ASSUME ScreensRight, ScreenSeen PROVE Scr!TypeOK
    OBVIOUS
  <2>1. \A r \in Loads : loads[r] \in Load
    BY ScreenFacts
  <2>2. \A r \in Loads : loads[r].pc \in {"free", "sent", "read", "disowned"}
    BY <2>1 DEF Load
  <2>3. QED
    BY <2>2 DEF ScreensRight, ScreenTyped, ScreenSeen, Scr!TypeOK
<1>4. QED
  BY <1>1, <1>2, <1>3, ScreensInvariant, PTL DEF OfficeSpec

\* A request that waits awaits the renewal that will answer it, the renewal of
\* a page is its own, and no password is newer than that of the row.
AsksTyped(w, m) ==
  \A c \in Asks :
    /\ w[c].password <= m
    /\ w[c].pc = "wait" => w[c].awaits \in Asks /\ w[w[c].awaits].op = "renew"
    /\ w[c].op = "renew" => w[c].pc # "idle"

TabsTyped(t, w, m) ==
  \A p \in Tabs :
    /\ t[p].access <= m
    /\ t[p].renewal # None =>
         w[t[p].renewal].op = "renew" /\ w[t[p].renewal].page = p

SessionsTyped ==
  AsksTyped(work, user.password) /\ TabsTyped(tab, work, user.password)

LEMMA SessionsTypedInit == ASSUME Ses!Init PROVE SessionsTyped
<1>1. /\ work = [c \in Asks |-> Ses!Idle] /\ tab = [p \in Tabs |-> Ses!Closed]
      /\ user.password = 1
  BY DEF Ses!Init
<1>2. QED
  BY <1>1 DEF SessionsTyped, AsksTyped, TabsTyped, Ses!Idle, Ses!Closed

\* What is known of one request, and of one page.
LEMMA TypedFacts ==
  ASSUME SessionsRight, SessionsTyped
  PROVE  /\ AsksTyped(work, user.password) /\ TabsTyped(tab, work, user.password)
         /\ work \in [Asks -> Ask] /\ tab \in [Tabs -> Tab]
         /\ user.password \in Nat /\ None \notin Asks /\ None \notin Tabs
         /\ \A c \in Asks :
              /\ work[c] \in Ask /\ work[c].password \in Nat
              /\ work[c].password <= user.password
              /\ work[c].pc = "idle" => work[c].op # "renew"
              /\ work[c].pc = "wait" => work[c].op \in {"api", "change"}
<1>1. ASSUME NEW c \in Asks
      PROVE  /\ work[c] \in Ask /\ work[c].password \in Nat
             /\ work[c].pc = "wait" => work[c].op \in {"api", "change"}
  <2>1. work[c] \in Ask /\ AskKnows(work[c], user, issued, links)
    BY AskFacts
  <2>2. QED
    BY <2>1 DEF AskKnows, Ask
<1>2. /\ work \in [Asks -> Ask] /\ tab \in [Tabs -> Tab]
      /\ user.password \in Nat
  BY DEF SessionsRight, AsksRight, TabsRight, RowRight, Ses!User
<1>3. QED
  BY <1>1, <1>2, NoSession DEF SessionsTyped, AsksTyped

\* One request goes on, which is no renewal, or the same one as before.
LEMMA OneAskTyped ==
  ASSUME SessionsRight, SessionsTyped, NEW c \in Asks, NEW x,
         work' = [work EXCEPT ![c] = x],
         user'.password \in Nat, user'.password >= user.password,
         x.password <= user'.password,
         x.pc = "wait" => x.awaits \in Asks /\ work[x.awaits].op = "renew",
         x.op = "renew" => x.pc # "idle",
         x.pc = "wait" => x.op # "renew",
         work[c].op = "renew" => x.op = "renew" /\ x.page = work[c].page,
         \A p \in Tabs : /\ tab'[p].access <= user'.password
                         /\ tab'[p].renewal \in {tab[p].renewal, None}
  PROVE  SessionsTyped'
<1> USE TypedFacts
<1>1. AsksTyped(work', user'.password)
  BY DEF AsksTyped
<1>2. TabsTyped(tab', work', user'.password)
  <2>1. ASSUME NEW p \in Tabs, tab[p].renewal # None
        PROVE  LET d == tab[p].renewal IN
               /\ d \in Asks /\ work'[d].op = "renew" /\ work'[d].page = p
    BY <2>1 DEF TabsTyped, Tab
  <2>2. QED
    BY <2>1 DEF TabsTyped
<1>3. QED
  BY <1>1, <1>2 DEF SessionsTyped

\* The pages are as they were.
LEMMA SameTabs ==
  ASSUME SessionsRight, SessionsTyped, tab' = tab,
         user'.password \in Nat, user'.password >= user.password
  PROVE  \A p \in Tabs : /\ tab'[p].access <= user'.password
                         /\ tab'[p].renewal \in {tab[p].renewal, None}
BY TypedFacts DEF TabsTyped, Tab

LEMMA AnsweredTyped ==
  ASSUME SessionsRight, SessionsTyped, NEW c \in Asks,
         NEW pc \in {"ok", "no"}, NEW n, Ses!Answered(c, pc, n),
         work[c].pc # "wait", tab' = tab,
         user'.password \in Nat, user'.password >= user.password
  PROVE  SessionsTyped'
<1> USE TypedFacts
<1> DEFINE m == IF work[c].op = "change" THEN work[c].password ELSE 0
           x == [work[c] EXCEPT !.pc = pc, !.token = n, !.password = m]
<1>1. work' = [work EXCEPT ![c] = x]
  BY DEF Ses!Answered
<1>2. m <= user'.password
  OBVIOUS
<1> HIDE DEF m
<1>3. /\ x.pc = pc /\ x.op = work[c].op /\ x.page = work[c].page
      /\ x.password <= user'.password
  BY <1>2 DEF Ask
<1> HIDE DEF x
<1>4. QED
  BY <1>1, <1>3, SameTabs, OneAskTyped

\* The password of the row only grows.
LEMMA PasswordGrows ==
  ASSUME SessionsRight, NEW c \in Asks, Ses!Handle(c)
  PROVE  user'.password \in Nat /\ user'.password >= user.password
<1>1. user \in Ses!User /\ user.password \in Nat
  BY AskFacts
<1>2. CASE UNCHANGED user
  BY <1>1, <1>2
<1>3. CASE user' = Ses!NewPassword(user)
  BY <1>1, <1>3, PasswordFields
<1>4. CASE Ses!Issue(c)
  BY <1>1, <1>4 DEF Ses!Issue, Ses!User
<1>5. CASE Ses!EndSession(c)
  BY <1>1, <1>5 DEF Ses!EndSession, Ses!User
<1>6. CASE \E k, n : user' = [user EXCEPT !.link[k] = n]
  BY <1>1, <1>6 DEF Ses!User
<1>7. CASE user' = [user EXCEPT !.verified = TRUE, !.link["verify"] = 0]
  BY <1>1, <1>7 DEF Ses!User
<1>8. CASE Ses!ConsumeLink(c)
  BY <1>2, <1>3, <1>7, <1>8 DEF Ses!ConsumeLink
<1>9. QED
  BY <1>2, <1>3, <1>4, <1>5, <1>6, <1>8
  DEF Ses!Handle, Ses!ReadForLogin, Ses!StartSession, Ses!ReadForRefresh,
      Ses!Rotate, Ses!Validate, Ses!ReadForChange, Ses!ChangePassword,
      Ses!SaveLink, Ses!Refuse, Ses!Unchanged_row

\* A request at the server stays that of its page.
LEMMA HandleTyped ==
  ASSUME SessionsRight, SessionsTyped, NEW c \in Asks, Ses!Handle(c)
  PROVE  SessionsTyped'
<1> USE TypedFacts
<1>1. user'.password \in Nat /\ user'.password >= user.password
  BY PasswordGrows
<1>2. /\ tab' = tab
      /\ work[c].pc \in {"sent", "read", "valid", "mail", "found"}
      /\ work[c].pc \in {"mail", "found"} => work[c].op \in Ses!Kinds
  <2>1. AskKnows(work[c], user, issued, links)
    BY AskFacts
  <2>2. QED
    BY <2>1
    DEF AskKnows, Ses!Handle, Ses!ReadForLogin, Ses!StartSession,
        Ses!ReadForRefresh, Ses!Rotate, Ses!EndSession, Ses!Validate,
        Ses!ReadForChange, Ses!ChangePassword, Ses!SaveLink,
        Ses!ConsumeLink, Ses!Unchanged_browser
<1>3. CASE \E pc \in {"ok", "no"} : Ses!Answered(c, pc, 0)
  BY <1>1, <1>2, <1>3, AnsweredTyped
<1>4. ASSUME NEW x, work' = [work EXCEPT ![c] = x],
             x.pc \notin {"wait", "idle"}, x.op = work[c].op,
             x.page = work[c].page, x.password <= user'.password
      PROVE  SessionsTyped'
  BY <1>1, <1>2, <1>4, SameTabs, OneAskTyped
<1>5. ASSUME NEW pc \in {"read", "valid"}, Ses!To(c, pc)
      PROVE  SessionsTyped'
  <2> DEFINE x == [work[c] EXCEPT !.pc = pc]
  <2>1. work' = [work EXCEPT ![c] = x]
    BY <1>5 DEF Ses!To
  <2>2. /\ x.pc = pc /\ x.op = work[c].op /\ x.page = work[c].page
        /\ x.password <= user'.password
    BY <1>1 DEF Ask
  <2> HIDE DEF x
  <2>3. QED
    BY <1>4, <2>1, <2>2
<1>6. CASE work' = [work EXCEPT ![c].pc = "read", ![c].password = user.password]
  <2> DEFINE x == [work[c] EXCEPT !.pc = "read", !.password = user.password]
  <2>1. work' = [work EXCEPT ![c] = x]
    BY <1>6
  <2>2. /\ x.pc = "read" /\ x.op = work[c].op /\ x.page = work[c].page
        /\ x.password <= user'.password
    BY <1>1 DEF Ask
  <2> HIDE DEF x
  <2>3. QED
    BY <1>4, <2>1, <2>2
<1>7. CASE Ses!Issue(c)
  <2> DEFINE x == [work[c] EXCEPT !.pc = "ok", !.token = issued + 1]
  <2>1. work' = [work EXCEPT ![c] = x]
    BY <1>7 DEF Ses!Issue
  <2>2. /\ x.pc = "ok" /\ x.op = work[c].op /\ x.page = work[c].page
        /\ x.password <= user'.password
    BY <1>1 DEF Ask
  <2> HIDE DEF x
  <2>3. QED
    BY <1>4, <2>1, <2>2
<1>8. CASE /\ work' = [work EXCEPT ![c] = Ses!Idle]
           /\ work[c].pc \in {"mail", "found"}
  <2>1. /\ Ses!Idle.pc = "idle" /\ Ses!Idle.op = "none"
        /\ Ses!Idle.password <= user'.password
    BY <1>1 DEF Ses!Idle
  <2>2. work[c].op # "renew"
    BY <1>2, <1>8 DEF Ses!Kinds
  <2>3. QED
    BY <1>1, <1>2, <1>8, <2>1, <2>2, SameTabs, OneAskTyped
<1>9. QED
  BY <1>3, <1>5, <1>6, <1>7, <1>8
  DEF Ses!Handle, Ses!ReadForLogin, Ses!StartSession, Ses!ReadForRefresh,
      Ses!Rotate, Ses!EndSession, Ses!Validate, Ses!ReadForChange,
      Ses!ChangePassword, Ses!SaveLink, Ses!ConsumeLink, Ses!Verdict,
      Ses!Refuse

\* One request that is no renewal, while the row stays as it is.
NoRenewal(x, w, m) ==
  /\ x.op # "renew" /\ x.password <= m
  /\ x.pc = "wait" => x.awaits \in Asks /\ w[x.awaits].op = "renew"

TabsKept(s, t, m) ==
  \A p \in Tabs : s[p].access <= m /\ s[p].renewal \in {t[p].renewal, None}

LEMMA QuietAskTyped ==
  ASSUME SessionsRight, SessionsTyped, user' = user, NEW c \in Asks, NEW x,
         work' = [work EXCEPT ![c] = x], work[c].op # "renew",
         NoRenewal(x, work, user.password),
         TabsKept(tab', tab, user.password)
  PROVE  SessionsTyped'
<1>1. user'.password = user.password /\ user.password \in Nat
  BY TypedFacts
<1>2. /\ user'.password \in Nat /\ user'.password >= user.password
      /\ x.password <= user'.password
      /\ \A p \in Tabs : /\ tab'[p].access <= user'.password
                         /\ tab'[p].renewal \in {tab[p].renewal, None}
  BY <1>1 DEF NoRenewal, TabsKept
<1>3. QED
  BY <1>2, OneAskTyped DEF NoRenewal

LEMMA TabsAsTheyAre ==
  ASSUME SessionsRight, SessionsTyped, tab' = tab
  PROVE  TabsKept(tab', tab, user.password)
BY TypedFacts DEF TabsTyped, TabsKept

LEMMA NewAskTyped ==
  ASSUME SessionsRight, SessionsTyped, NEW c \in Asks,
         \/ \E p \in Tabs : Ses!Work(p, c)
         \/ \E k \in Ses!Kinds :
              Ses!AskLink(c, k) \/ \E l \in Ses!Numbers : Ses!FollowLink(c, k, l)
  PROVE  SessionsTyped'
<1>1. /\ tab' = tab /\ user' = user /\ work[c].pc = "idle"
  BY DEF Ses!Work, Ses!AskLink, Ses!FollowLink, Ses!Request,
         Ses!Unchanged_row, Ses!Unchanged_browser
<1>2. PICK x : /\ work' = [work EXCEPT ![c] = x]
               /\ x.pc \in {"sent", "mail", "found"} /\ x.op # "renew"
               /\ x.password \in {0, user.password}
  <2>1. ASSUME NEW p \in Tabs, Ses!Work(p, c)
        PROVE  \E x : /\ work' = [work EXCEPT ![c] = x]
                      /\ x.pc = "sent" /\ x.op # "renew"
                      /\ x.password \in {0, user.password}
    <3>1. PICK op \in {"api", "change"} :
            Ses!Request(c, p, op, tab[p].access)
      BY <2>1 DEF Ses!Work
    <3> DEFINE m == IF op \in {"login", "change"} THEN user.password ELSE 0
               x == [Ses!Idle EXCEPT !.op = op, !.page = p, !.pc = "sent",
                                     !.token = tab[p].access, !.password = m]
    <3>2. work' = [work EXCEPT ![c] = x]
      BY <3>1 DEF Ses!Request
    <3>3. m \in {0, user.password}
      OBVIOUS
    <3> HIDE DEF m
    <3>4. x.pc = "sent" /\ x.op # "renew" /\ x.password = m
      BY DEF Ses!Idle
    <3>5. QED
      BY <3>2, <3>3, <3>4
  <2>2. ASSUME NEW k \in Ses!Kinds, Ses!AskLink(c, k)
        PROVE  \E x : /\ work' = [work EXCEPT ![c] = x]
                      /\ x.pc = "mail" /\ x.op # "renew" /\ x.password = 0
    <3> DEFINE x == [Ses!LinkCall(k) EXCEPT !.pc = "mail"]
    <3>1. work' = [work EXCEPT ![c] = x]
      BY <2>2 DEF Ses!AskLink
    <3>2. x.pc = "mail" /\ x.op # "renew" /\ x.password = 0
      BY DEF Ses!LinkCall, Ses!Idle, Ses!Kinds
    <3>3. QED
      BY <3>1, <3>2
  <2>3. ASSUME NEW k \in Ses!Kinds, NEW l, Ses!FollowLink(c, k, l)
        PROVE  \E x : /\ work' = [work EXCEPT ![c] = x]
                      /\ x.pc = "found" /\ x.op # "renew" /\ x.password = 0
    <3> DEFINE x == [Ses!LinkCall(k) EXCEPT !.pc = "found", !.token = l]
    <3>1. work' = [work EXCEPT ![c] = x]
      BY <2>3 DEF Ses!FollowLink
    <3>2. x.pc = "found" /\ x.op # "renew" /\ x.password = 0
      BY DEF Ses!LinkCall, Ses!Idle, Ses!Kinds
    <3>3. QED
      BY <3>1, <3>2
  <2>4. QED
    BY <2>1, <2>2, <2>3
<1>3. NoRenewal(x, work, user.password)
  BY <1>2, TypedFacts DEF NoRenewal
<1>4. work[c].op # "renew" /\ TabsKept(tab', tab, user.password)
  BY <1>1, TypedFacts, TabsAsTheyAre
<1>5. QED
  BY <1>1, <1>2, <1>3, <1>4, QuietAskTyped

LEMMA LoginTyped ==
  ASSUME SessionsRight, SessionsTyped, NEW p \in Tabs, NEW c \in Asks,
         Ses!Login(p, c)
  PROVE  SessionsTyped'
<1> DEFINE x == LoginAsk(p, user.password)
<1> USE TypedFacts
<1>1. /\ user' = user /\ work[c].pc = "idle"
      /\ tab' = [tab EXCEPT ![p].out = FALSE]
      /\ work' = [work EXCEPT ![c] = x]
  BY DEF Ses!Login, Ses!Request, LoginAsk, Ses!Unchanged_row
<1>2. x.pc = "sent" /\ x.op = "login" /\ x.password = user.password
  BY DEF LoginAsk, Ses!Idle
<1>3. TabsKept(tab', tab, user.password)
  BY <1>1 DEF TabsTyped, TabsKept, Tab
<1> HIDE DEF x
<1>4. NoRenewal(x, work, user.password) /\ work[c].op # "renew"
  BY <1>1, <1>2 DEF NoRenewal
<1>5. QED
  BY <1>1, <1>3, <1>4, QuietAskTyped

LEMMA HearTyped ==
  ASSUME SessionsRight, SessionsTyped, NEW c \in Asks,
         \/ Ses!HearLogin(c) \/ Ses!HearLogout(c)
         \/ Ses!LoseAnswer(c) /\ work[c].op \notin Ses!Refreshes
  PROVE  SessionsTyped'
<1> USE TypedFacts
<1>1. user' = user /\ work' = [work EXCEPT ![c] = Ses!Idle]
      /\ work[c].op # "renew"
  BY DEF Ses!HearLogin, Ses!HearLogout, Ses!LoseAnswer, Ses!Unchanged_row,
         Ses!Refreshes
<1>2. TabsKept(tab', tab, user.password)
  <2>1. CASE tab' = tab
    BY <2>1, TabsAsTheyAre
  <2>2. CASE tab' = [tab EXCEPT ![work[c].page].access = work[c].password]
    BY <2>2 DEF TabsTyped, TabsKept, Tab
  <2>3. QED
    BY <2>1, <2>2 DEF Ses!HearLogin, Ses!HearLogout, Ses!LoseAnswer
<1>3. NoRenewal(Ses!Idle, work, user.password)
  BY DEF Ses!Idle, NoRenewal
<1>4. QED
  BY <1>1, <1>2, <1>3, QuietAskTyped

LEMMA JoinTyped ==
  ASSUME SessionsRight, SessionsTyped, NEW c \in Asks, Ses!Join(c)
  PROVE  SessionsTyped'
<1> DEFINE r == tab[work[c].page].renewal
           x == [work[c] EXCEPT !.pc = "wait", !.awaits = r]
<1> USE TypedFacts
<1>1. /\ user' = user /\ tab' = tab
      /\ work[c].op \in {"api", "change"} /\ ~work[c].stale /\ r # None
      /\ work' = [work EXCEPT ![c].pc = "wait", ![c].awaits = r]
  BY DEF Ses!Join, Ses!Renewable, Ses!Unchanged_row, Ses!Unchanged_browser
<1>2. work[c].page \in Tabs
  BY <1>1, AskFacts DEF AskHeard
<1>3. r \in Asks /\ work[r].op = "renew"
  BY <1>1, <1>2 DEF TabsTyped, Tab
<1> HIDE DEF r
<1>4. /\ x.pc = "wait" /\ x.awaits = r /\ x.op = work[c].op
      /\ x.password = work[c].password
  BY DEF Ask
<1>5. work' = [work EXCEPT ![c] = x]
  BY <1>1
<1> HIDE DEF x
<1>6. NoRenewal(x, work, user.password) /\ work[c].op # "renew"
  BY <1>1, <1>3, <1>4 DEF NoRenewal
<1>7. QED
  BY <1>1, <1>5, <1>6, TabsAsTheyAre, QuietAskTyped

\* Several requests at a time: those that still wait wait for a renewal that is
\* still there, and so do the pages.
LEMMA ManyTyped ==
  ASSUME SessionsRight, SessionsTyped, user' = user,
         \A c \in Asks : /\ work'[c].password <= user.password
                         /\ work'[c].op = "renew" => work'[c].pc # "idle",
         \A c \in Asks : work'[c].pc = "wait" =>
           work'[c].awaits \in Asks /\ work'[work'[c].awaits].op = "renew",
         \A p \in Tabs : tab'[p].access <= user.password,
         \A p \in Tabs : tab'[p].renewal # None =>
           LET d == tab'[p].renewal IN
           work'[d].op = "renew" /\ work'[d].page = p
  PROVE  SessionsTyped'
BY DEF SessionsTyped, AsksTyped, TabsTyped

LEMMA RenewTyped ==
  ASSUME SessionsRight, SessionsTyped, NEW c \in Asks, NEW d \in Asks,
         Ses!Renew(c, d)
  PROVE  SessionsTyped'
<1> DEFINE p == work[c].page
           x == [work[c] EXCEPT !.pc = "wait", !.awaits = d]
           y == SessionAsk("renew", p, cookie)
<1> USE TypedFacts
<1>1. /\ user' = user /\ work[d].pc = "idle"
      /\ work[c].op \in {"api", "change"} /\ ~work[c].stale /\ work[c].pc = "no"
      /\ tab' = [tab EXCEPT ![p].renewal = d]
      /\ work' = [work EXCEPT ![c].pc = "wait", ![c].awaits = d, ![d] = y]
  BY DEF Ses!Renew, Ses!Renewable, SessionAsk, Ses!Unchanged_row
<1>2. c # d /\ work[d].op # "renew"
  BY <1>1
<1>3. p \in Tabs
  BY <1>1, AskFacts DEF AskHeard
<1>4. /\ x.pc = "wait" /\ x.awaits = d /\ x.op = work[c].op
      /\ x.password = work[c].password
  BY DEF Ask
<1>5. y.pc = "sent" /\ y.op = "renew" /\ y.page = p /\ y.password = 0
  BY DEF SessionAsk, Ses!Idle
<1>6. work' = [[work EXCEPT ![c] = x] EXCEPT ![d] = y]
  <2> HIDE DEF y
  <2>1. QED
    BY <1>1, <1>2
<1> HIDE DEF x, y, p
<1>7. /\ work'[d] = y /\ work'[c] = x
      /\ \A e \in Asks \ {c, d} : work'[e] = work[e]
  BY <1>2, <1>6
<1>8. \A e \in Asks : /\ work'[e].password <= user.password
                      /\ work'[e].op = "renew" => work'[e].pc # "idle"
  BY <1>1, <1>4, <1>5, <1>7
<1>9. \A e \in Asks : work'[e].pc = "wait" =>
        work'[e].awaits \in Asks /\ work'[work'[e].awaits].op = "renew"
  BY <1>1, <1>2, <1>4, <1>5, <1>7 DEF AsksTyped
<1>10. \A q \in Tabs : tab'[q].access <= user.password
  BY <1>1 DEF TabsTyped, Tab
<1>11. ASSUME NEW q \in Tabs, tab'[q].renewal # None
       PROVE  LET e == tab'[q].renewal IN
              work'[e].op = "renew" /\ work'[e].page = q
  <2>1. CASE q = p
    <3>1. tab'[q].renewal = d
      BY <1>1, <1>3, <2>1 DEF Tab
    <3>2. QED
      BY <1>5, <1>7, <2>1, <3>1
  <2>2. CASE q # p
    <3> DEFINE e == tab[q].renewal
    <3>1. tab'[q] = tab[q] /\ e \in Asks \cup {None}
      BY <1>1, <1>3, <2>2 DEF Tab
    <3>2. e \in Asks /\ work[e].op = "renew" /\ work[e].page = q
      BY <1>11, <3>1 DEF TabsTyped
    <3>3. work'[e] = work[e]
      BY <1>1, <1>2, <1>7, <3>2
    <3>4. QED
      BY <3>1, <3>2, <3>3
  <2>3. QED
    BY <2>1, <2>2
<1>12. QED
  BY <1>1, <1>8, <1>9, <1>10, <1>11, ManyTyped

LEMMA LoadTyped ==
  ASSUME SessionsRight, SessionsTyped, NEW p \in Tabs, NEW c \in Asks,
         Ses!Load(p, c)
  PROVE  SessionsTyped'
<1> DEFINE y == SessionAsk("boot", p, cookie)
           pg == [Ses!Closed EXCEPT !.open = TRUE]
           f == Ses!Forgotten(p)
<1> USE TypedFacts
<1>1. /\ user' = user /\ work[c].pc = "idle"
      /\ tab' = [tab EXCEPT ![p] = pg]
      /\ work' = [f EXCEPT ![c] = y]
  BY DEF Ses!Load, SessionAsk, Ses!Unchanged_row
<1>2. pg.access = 0 /\ pg.renewal = None
  BY DEF Ses!Closed
<1>3. y.pc = "sent" /\ y.op = "boot" /\ y.password = 0
  BY DEF SessionAsk, Ses!Idle
<1>4. ASSUME NEW e \in Asks
      PROVE  /\ work[e].page # p => f[e] = work[e]
             /\ work[e].page = p =>
                  \/ f[e].pc = "idle" /\ f[e].op = "none"
                     /\ f[e].password = 0 /\ work[e].pc = "wait"
                  \/ /\ f[e].op = work[e].op /\ f[e].pc = work[e].pc
                     /\ f[e].password = work[e].password
                     /\ f[e].pc # "wait"
  <2>1. Ses!Idle.pc = "idle" /\ Ses!Idle.op = "none" /\ Ses!Idle.password = 0
    BY DEF Ses!Idle
  <2>2. LET z == [work[e] EXCEPT !.page = None, !.stale = TRUE] IN
        /\ z.op = work[e].op /\ z.pc = work[e].pc
        /\ z.password = work[e].password
    BY DEF Ask
  <2>3. QED
    BY <2>1, <2>2 DEF Ses!Forgotten
<1>5. f = [e \in Asks |-> f[e]]
  BY DEF Ses!Forgotten
<1> HIDE DEF f, y, pg
<1>6. work'[c] = y /\ \A e \in Asks \ {c} : work'[e] = f[e]
  BY <1>1, <1>5
<1>7. \A e \in Asks : /\ work'[e].password <= user.password
                      /\ work'[e].op = "renew" => work'[e].pc # "idle"
  BY <1>3, <1>4, <1>6
<1>8. ASSUME NEW d \in Asks, work[d].op = "renew"
      PROVE  /\ d # c /\ work'[d].op = "renew"
             /\ work[d].page # p => work'[d].page = work[d].page
  BY <1>1, <1>4, <1>6, <1>8
<1>9. ASSUME NEW e \in Asks, work'[e].pc = "wait"
      PROVE  work'[e].awaits \in Asks /\ work'[work'[e].awaits].op = "renew"
  <2>1. work'[e] = work[e]
    BY <1>3, <1>4, <1>6, <1>9
  <2>2. QED
    BY <1>8, <1>9, <2>1 DEF AsksTyped
<1>10. \A q \in Tabs : tab'[q].access <= user.password
  BY <1>1, <1>2 DEF TabsTyped
<1>11. ASSUME NEW q \in Tabs, tab'[q].renewal # None
       PROVE  LET e == tab'[q].renewal IN
              work'[e].op = "renew" /\ work'[e].page = q
  <2>1. q # p /\ tab'[q] = tab[q] /\ tab[q].renewal \in Asks
    BY <1>1, <1>2, <1>11 DEF Tab
  <2>2. QED
    BY <1>8, <1>11, <2>1 DEF TabsTyped
<1>12. QED
  BY <1>1, <1>7, <1>9, <1>10, <1>11, ManyTyped

\* To make requests stale changes nothing else.
LEMMA ClearedFields ==
  ASSUME NEW w, NEW p, NEW e \in Asks, w[e] \in Ask
  PROVE  /\ Ses!Cleared(w, p)[e].op = w[e].op
         /\ Ses!Cleared(w, p)[e].pc = w[e].pc
         /\ Ses!Cleared(w, p)[e].page = w[e].page
         /\ Ses!Cleared(w, p)[e].password = w[e].password
         /\ Ses!Cleared(w, p)[e].awaits = w[e].awaits
BY DEF Ses!Cleared, Ask

\* A request that ends or takes a place, in a page that forgets its session.
LEMMA ClearedTyped ==
  ASSUME SessionsRight, SessionsTyped, user' = user, NEW p \in Tabs,
         NEW c \in Asks, NEW w, work[c].op # "renew",
         \A e \in Asks \ {c} :
           /\ w[e].op = work[e].op /\ w[e].pc = work[e].pc
           /\ w[e].page = work[e].page /\ w[e].password = work[e].password
           /\ w[e].awaits = work[e].awaits,
         w[c].op # "renew", w[c].pc # "wait", w[c].password = 0,
         work' = w,
         \A q \in Tabs \ {p} : tab'[q] = tab[q],
         tab'[p].access = 0, tab'[p].renewal = None
  PROVE  SessionsTyped'
<1> USE TypedFacts
<1>1. \A e \in Asks : /\ work'[e].password <= user.password
                      /\ work'[e].op = "renew" => work'[e].pc # "idle"
  OBVIOUS
<1>2. \A d \in Asks : work[d].op = "renew" =>
        work'[d].op = "renew" /\ work'[d].page = work[d].page
  OBVIOUS
<1>3. ASSUME NEW e \in Asks, work'[e].pc = "wait"
      PROVE  work'[e].awaits \in Asks /\ work'[work'[e].awaits].op = "renew"
  <2>1. work[e].pc = "wait" /\ work'[e].awaits = work[e].awaits
    BY <1>3
  <2>2. QED
    BY <1>2, <2>1 DEF AsksTyped
<1>4. \A q \in Tabs : tab'[q].access <= user.password
  BY DEF TabsTyped
<1>5. ASSUME NEW q \in Tabs, tab'[q].renewal # None
      PROVE  LET e == tab'[q].renewal IN
             work'[e].op = "renew" /\ work'[e].page = q
  <2>1. q # p /\ tab'[q] = tab[q] /\ tab[q].renewal \in Asks
    BY <1>5 DEF Tab
  <2>2. QED
    BY <1>2, <1>5, <2>1 DEF TabsTyped
<1>6. QED
  BY <1>1, <1>3, <1>4, <1>5, ManyTyped

LEMMA LogoutTyped ==
  ASSUME SessionsRight, SessionsTyped, NEW p \in Tabs, NEW c \in Asks,
         Ses!Logout(p, c)
  PROVE  SessionsTyped'
<1> DEFINE y == LogoutAsk(cookie)
           pg == [Ses!Empty(tab[p]) EXCEPT !.out = TRUE]
           v == Ses!Cleared(work, p)
           w == [v EXCEPT ![c] = y]
<1> USE TypedFacts
<1>1. /\ user' = user /\ work[c].pc = "idle"
      /\ tab' = [tab EXCEPT ![p] = pg]
      /\ work' = w
  BY DEF Ses!Logout, LogoutAsk, Ses!Unchanged_row
<1>2. pg.access = 0 /\ pg.renewal = None
  BY DEF Ses!Empty, Tab
<1>3. y.pc = "sent" /\ y.op = "logout" /\ y.password = 0
  BY DEF LogoutAsk, Ses!Idle
<1>4. \A e \in Asks : /\ v[e].op = work[e].op /\ v[e].pc = work[e].pc
                      /\ v[e].page = work[e].page
                      /\ v[e].password = work[e].password
                      /\ v[e].awaits = work[e].awaits
  BY ClearedFields
<1>5. v = [e \in Asks |-> v[e]]
  BY DEF Ses!Cleared
<1> HIDE DEF v, y, pg
<1>6. w[c] = y /\ \A e \in Asks \ {c} : w[e] = v[e]
  BY <1>5
<1>7. tab'[p] = pg /\ \A q \in Tabs \ {p} : tab'[q] = tab[q]
  BY <1>1
<1> HIDE DEF w
<1>8. work[c].op # "renew"
  BY <1>1
<1>9. \A e \in Asks \ {c} :
        /\ w[e].op = work[e].op /\ w[e].pc = work[e].pc
        /\ w[e].page = work[e].page /\ w[e].password = work[e].password
        /\ w[e].awaits = work[e].awaits
  BY <1>4, <1>6
<1>10. w[c].op # "renew" /\ w[c].pc # "wait" /\ w[c].password = 0
  BY <1>3, <1>6
<1>11. tab'[p].access = 0 /\ tab'[p].renewal = None
  BY <1>2, <1>7
<1>12. QED
  BY <1>1, <1>7, <1>8, <1>9, <1>10, <1>11, ClearedTyped

LEMMA HearWorkTyped ==
  ASSUME SessionsRight, SessionsTyped, NEW c \in Asks, Ses!HearWork(c)
  PROVE  SessionsTyped'
<1> DEFINE p == work[c].page
           v == [work EXCEPT ![c] = Ses!Idle]
           w == Ses!Cleared(v, p)
           pg == Ses!Empty(tab[p])
<1> USE TypedFacts
<1>1. /\ user' = user /\ work[c].op \in {"api", "change"}
      /\ \/ /\ ~work[c].stale
            /\ tab' = [tab EXCEPT ![p] = pg]
            /\ work' = w
         \/ tab' = tab /\ work' = v
  BY DEF Ses!HearWork, Ses!Unchanged_row
<1>2. Ses!Idle \in Ask /\ Ses!Idle.pc = "idle" /\ Ses!Idle.op = "none"
      /\ Ses!Idle.password = 0
  BY FreshAsk, AskFacts DEF Ses!Idle
<1>3. CASE tab' = tab /\ work' = v
  <2>1. NoRenewal(Ses!Idle, work, user.password)
    BY <1>2 DEF NoRenewal
  <2>2. QED
    BY <1>1, <1>3, <2>1, TabsAsTheyAre, QuietAskTyped
<1>4. CASE ~work[c].stale /\ tab' = [tab EXCEPT ![p] = pg] /\ work' = w
  <2>1. p \in Tabs
    BY <1>1, <1>4, AskFacts DEF AskHeard
  <2>2. pg.access = 0 /\ pg.renewal = None
    BY <2>1 DEF Ses!Empty, Tab
  <2>3. v[c] = Ses!Idle /\ \A e \in Asks \ {c} : v[e] = work[e]
    OBVIOUS
  <2>4. \A e \in Asks : v[e] \in Ask
    BY <1>2, <2>3
  <2> HIDE DEF v
  <2>5. \A e \in Asks : /\ w[e].op = v[e].op /\ w[e].pc = v[e].pc
                        /\ w[e].page = v[e].page
                        /\ w[e].password = v[e].password
                        /\ w[e].awaits = v[e].awaits
    BY <2>4, ClearedFields
  <2> HIDE DEF w, p, pg
  <2>6. tab'[p] = pg /\ \A q \in Tabs \ {p} : tab'[q] = tab[q]
    BY <1>4, <2>1
  <2>7. \A e \in Asks \ {c} :
          /\ w[e].op = work[e].op /\ w[e].pc = work[e].pc
          /\ w[e].page = work[e].page /\ w[e].password = work[e].password
          /\ w[e].awaits = work[e].awaits
    BY <2>3, <2>5
  <2>8. w[c].op # "renew" /\ w[c].pc # "wait" /\ w[c].password = 0
    BY <1>2, <2>3, <2>5
  <2>9. tab'[p].access = 0 /\ tab'[p].renewal = None /\ work[c].op # "renew"
    BY <1>1, <2>2, <2>6
  <2>10. QED
    BY <1>1, <1>4, <2>1, <2>6, <2>7, <2>8, <2>9, ClearedTyped
<1>5. QED
  BY <1>1, <1>3, <1>4

\* A renewal is over: nobody waits for it any longer, and its page has let go
\* of it.
LEMMA OverTyped ==
  ASSUME SessionsRight, SessionsTyped, user' = user, NEW c \in Asks,
         work[c].op \in Ses!Refreshes,
         \A e \in Asks \ ({c} \cup Ses!Waiting(c)) :
           /\ work'[e].op = work[e].op /\ work'[e].pc = work[e].pc
           /\ work'[e].page = work[e].page
           /\ work'[e].password = work[e].password
           /\ work'[e].awaits = work[e].awaits,
         \A e \in {c} \cup Ses!Waiting(c) :
           /\ work'[e].op # "renew" /\ work'[e].pc # "wait"
           /\ work'[e].password <= user.password,
         \A q \in Tabs :
           /\ tab'[q].access <= user.password
           /\ tab'[q].renewal \in {tab[q].renewal, None}
           /\ q = work[c].page /\ work[c].op = "renew" => tab'[q].renewal = None
  PROVE  SessionsTyped'
<1> USE TypedFacts
<1> DEFINE over == {c} \cup Ses!Waiting(c)
<1>1. \A e \in Ses!Waiting(c) : /\ e \in Asks /\ work[e].awaits = c
                                /\ work[e].pc = "wait" /\ work[e].op # "renew"
  BY DEF Ses!Waiting
<1>2. \A e \in Asks : /\ work'[e].password <= user.password
                      /\ work'[e].op = "renew" => work'[e].pc # "idle"
  <2>1. ASSUME NEW e \in Asks
        PROVE  /\ work'[e].password <= user.password
               /\ work'[e].op = "renew" => work'[e].pc # "idle"
    BY <1>1, <2>1
  <2>2. QED
    BY <2>1
<1>3. ASSUME NEW d \in Asks, d # c, work[d].op = "renew"
      PROVE  work'[d].op = "renew" /\ work'[d].page = work[d].page
  BY <1>1, <1>3
<1>4. ASSUME NEW e \in Asks, work'[e].pc = "wait"
      PROVE  work'[e].awaits \in Asks /\ work'[work'[e].awaits].op = "renew"
  <2>1. /\ e \notin over /\ work[e].pc = "wait"
        /\ work'[e].awaits = work[e].awaits
    BY <1>4
  <2>2. work[e].awaits # c
    BY <1>4, <2>1 DEF Ses!Waiting
  <2>3. QED
    BY <1>3, <2>1, <2>2 DEF AsksTyped
<1>5. ASSUME NEW q \in Tabs, tab'[q].renewal # None
      PROVE  LET e == tab'[q].renewal IN
             work'[e].op = "renew" /\ work'[e].page = q
  <2> DEFINE e == tab[q].renewal
  <2>1. tab'[q].renewal = e /\ e \in Asks
    BY <1>5 DEF Tab
  <2>2. work[e].op = "renew" /\ work[e].page = q
    BY <1>5, <2>1 DEF TabsTyped
  <2>3. e # c
    BY <1>5, <2>1, <2>2
  <2>4. QED
    BY <1>3, <2>1, <2>2, <2>3
<1>6. \A q \in Tabs : tab'[q].access <= user.password
  OBVIOUS
<1>7. QED
  BY <1>2, <1>4, <1>5, <1>6, ManyTyped

LEMMA ReleasedFields ==
  ASSUME NEW c, NEW x \in Tab
  PROVE  LET z == Ses!ReleaseRenewal(c, x) IN
         /\ z.access = x.access /\ z.renewal \in {x.renewal, None}
         /\ work[c].op = "renew" => z.renewal = None
BY DEF Ses!ReleaseRenewal, Tab

LEMMA EndRefreshTyped ==
  ASSUME SessionsRight, SessionsTyped, user' = user, NEW c \in Asks,
         work[c].op \in Ses!Refreshes, NEW ok, Ses!EndRefresh(c, ok)
  PROVE  SessionsTyped'
<1> DEFINE p == work[c].page
           over == {c} \cup Ses!Waiting(c)
           rest == [d \in Asks |-> IF d = c \/ d \in Ses!Waiting(c)
                                     THEN Ses!Idle ELSE work[d]]
           sent(d) == [work[d] EXCEPT !.pc = "sent", !.again = TRUE,
                         !.awaits = None, !.token = work[c].password]
           KeptAsks == \A e \in Asks \ over :
             /\ work'[e].op = work[e].op /\ work'[e].pc = work[e].pc
             /\ work'[e].page = work[e].page
             /\ work'[e].password = work[e].password
             /\ work'[e].awaits = work[e].awaits
           FreeAsks == \A e \in over :
             /\ work'[e].op # "renew" /\ work'[e].pc # "wait"
             /\ work'[e].password <= user.password
           FreeTabs == \A q \in Tabs :
             /\ tab'[q].access <= user.password
             /\ tab'[q].renewal \in {tab[q].renewal, None}
             /\ q = work[c].page /\ work[c].op = "renew"
                  => tab'[q].renewal = None
<1> USE TypedFacts
<1>1. /\ p \in Tabs \cup {None} /\ (~work[c].stale => p \in Tabs)
      /\ \A q \in Tabs : /\ tab[q] \in Tab /\ tab[q].access <= user.password
                         /\ tab[q].renewal \in {tab[q].renewal, None}
  BY AskFacts DEF Ask, AskHeard, LogsIn, TabsTyped
<1>2. /\ Ses!Idle \in Ask /\ Ses!Idle.pc = "idle" /\ Ses!Idle.op = "none"
      /\ Ses!Idle.password <= user.password
  <2>1. Ses!Idle.password = 0
    BY DEF Ses!Idle
  <2>2. Ses!Idle \in Ask /\ Ses!Idle.pc = "idle" /\ Ses!Idle.op = "none"
    BY FreshAsk, AskFacts
  <2>3. QED
    BY <2>1, <2>2
<1>3. over \subseteq Asks /\ \A d \in Ses!Waiting(c) :
        work[d].op # "renew" /\ d # c
  BY DEF Ses!Waiting, Ses!Refreshes
<1>4. /\ \A d \in over : rest[d] = Ses!Idle
      /\ \A d \in Asks \ over : rest[d] = work[d]
      /\ rest = [d \in Asks |-> rest[d]]
      /\ \A d \in Asks : rest[d] \in Ask
  BY <1>2, <1>3
<1>5. ASSUME NEW x \in Tab, x.access <= user.password, p \in Tabs,
             x.renewal = tab[p].renewal,
             tab' = [tab EXCEPT ![p] = Ses!ReleaseRenewal(c, x)]
      PROVE  FreeTabs
  <2>1. tab'[p] = Ses!ReleaseRenewal(c, x) /\ \A q \in Tabs \ {p} : tab'[q] = tab[q]
    BY <1>5
  <2>2. QED
    BY <1>1, <1>5, <2>1, ReleasedFields
<1>6. CASE /\ Ses!Renewed(c, ok)
           /\ tab' = [tab EXCEPT ![p] =
                Ses!ReleaseRenewal(c, [@ EXCEPT !.access = work[c].password])]
           /\ work' = [d \in Asks |-> IF d \in Ses!Waiting(c) THEN sent(d)
                                                              ELSE rest[d]]
  <2>1. p \in Tabs
    BY <1>1, <1>6 DEF Ses!Renewed
  <2>2. FreeTabs
    <3> DEFINE x == [tab[p] EXCEPT !.access = work[c].password]
    <3>1. x \in Tab /\ x.access = work[c].password /\ x.renewal = tab[p].renewal
      BY <2>1 DEF Tab
    <3>2. tab' = [tab EXCEPT ![p] = Ses!ReleaseRenewal(c, x)]
      BY <1>6, <2>1
    <3> HIDE DEF x, FreeTabs
    <3>3. QED
      BY <1>5, <2>1, <3>1, <3>2
  <2>3. \A d \in Ses!Waiting(c) : /\ sent(d).pc = "sent"
                                  /\ sent(d).op = work[d].op
                                  /\ sent(d).password = work[d].password
    BY <1>3 DEF Ask
  <2> HIDE DEF rest, sent
  <2>4. /\ \A d \in Ses!Waiting(c) : work'[d] = sent(d)
        /\ \A d \in Asks \ Ses!Waiting(c) : work'[d] = rest[d]
    BY <1>3, <1>6
  <2>5. KeptAsks
    BY <1>4, <2>4
  <2>6. FreeAsks
    BY <1>2, <1>3, <1>4, <2>3, <2>4
  <2>7. QED
    BY <2>2, <2>5, <2>6, OverTyped
<1>7. CASE tab' = [tab EXCEPT ![p] = Ses!Empty(@)] /\ work' = Ses!Cleared(rest, p)
  <2>1. FreeTabs
    <3>1. CASE p \in Tabs
      <4>1. Ses!Empty(tab[p]).access = 0 /\ Ses!Empty(tab[p]).renewal = None
        BY <3>1 DEF Ses!Empty, Tab
      <4>2. tab'[p] = Ses!Empty(tab[p]) /\ \A q \in Tabs \ {p} : tab'[q] = tab[q]
        BY <1>7, <3>1
      <4>3. QED
        BY <1>1, <4>1, <4>2
    <3>2. CASE p \notin Tabs
      <4>1. tab' = tab
        BY <1>7, <3>2
      <4>2. QED
        BY <1>1, <3>2, <4>1
    <3>3. QED
      BY <3>1, <3>2
  <2> HIDE DEF rest
  <2>2. \A e \in Asks : /\ work'[e].op = rest[e].op
                        /\ work'[e].pc = rest[e].pc
                        /\ work'[e].page = rest[e].page
                        /\ work'[e].password = rest[e].password
                        /\ work'[e].awaits = rest[e].awaits
    BY <1>4, <1>7, ClearedFields
  <2>3. KeptAsks
    BY <1>4, <2>2
  <2>4. FreeAsks
    <3>1. ASSUME NEW e \in over
          PROVE  /\ work'[e].op # "renew" /\ work'[e].pc # "wait"
                 /\ work'[e].password <= user.password
      <4>1. e \in Asks /\ rest[e] = Ses!Idle
        BY <1>3, <1>4
      <4>2. QED
        BY <1>2, <2>2, <4>1
    <3>2. QED
      BY <3>1
  <2>5. QED
    BY <2>1, <2>3, <2>4, OverTyped
<1>8. CASE /\ tab' = IF p = None THEN tab
                     ELSE [tab EXCEPT ![p] = Ses!ReleaseRenewal(c, @)]
           /\ work' = rest
  <2>1. FreeTabs
    <3>1. CASE p \in Tabs
      <4>1. tab' = [tab EXCEPT ![p] = Ses!ReleaseRenewal(c, tab[p])]
        BY <1>8, <3>1
      <4> HIDE DEF FreeTabs
      <4>2. QED
        BY <1>1, <1>5, <3>1, <4>1
    <3>2. CASE p = None
      BY <1>1, <1>8, <3>2
    <3>3. QED
      BY <1>1, <3>1, <3>2
  <2> HIDE DEF rest
  <2>2. KeptAsks
    BY <1>4, <1>8
  <2>3. FreeAsks
    BY <1>2, <1>4, <1>8
  <2>4. QED
    BY <2>1, <2>2, <2>3, OverTyped
<1>9. QED
  BY <1>6, <1>7, <1>8 DEF Ses!EndRefresh

LEMMA SessionsTypedStep ==
  ASSUME SessionsRight, SessionsTyped, [Ses!Next]_sessions
  PROVE  SessionsTyped'
<1>1. CASE UNCHANGED sessions
  BY <1>1 DEF sessions, SessionsTyped, AsksTyped, TabsTyped
<1>2. ASSUME NEW p \in Tabs, NEW c \in Asks,
             \/ Ses!Load(p, c) \/ Ses!Login(p, c)
             \/ Ses!Work(p, c) \/ Ses!Logout(p, c)
      PROVE  SessionsTyped'
  BY <1>2, LoadTyped, LoginTyped, NewAskTyped, LogoutTyped
<1>3. ASSUME NEW c \in Asks, Ses!Handle(c)
      PROVE  SessionsTyped'
  BY <1>3, HandleTyped
<1>4. ASSUME NEW c \in Asks, Ses!Hear(c)
      PROVE  SessionsTyped'
  <2>1. CASE \/ Ses!HearRefresh(c)
             \/ Ses!LoseAnswer(c) /\ work[c].op \in Ses!Refreshes
    <3>1. user' = user /\ work[c].op \in Ses!Refreshes
          /\ \E ok \in BOOLEAN : Ses!EndRefresh(c, ok)
      BY <2>1 DEF Ses!HearRefresh, Ses!LoseAnswer, Ses!Unchanged_row
    <3>2. QED
      BY <3>1, EndRefreshTyped
  <2>2. CASE \/ Ses!HearLogin(c) \/ Ses!HearLogout(c)
             \/ Ses!LoseAnswer(c) /\ work[c].op \notin Ses!Refreshes
    BY <2>2, HearTyped
  <2>3. CASE \/ Ses!HearWork(c) \/ Ses!Join(c)
             \/ \E d \in Asks : Ses!Renew(c, d)
    BY <2>3, HearWorkTyped, JoinTyped, RenewTyped
  <2>4. \/ Ses!HearRefresh(c) \/ Ses!LoseAnswer(c)
        \/ Ses!HearLogin(c) \/ Ses!HearLogout(c) \/ Ses!HearWork(c)
        \/ Ses!Join(c) \/ \E d \in Asks : Ses!Renew(c, d)
    BY <1>4 DEF Ses!Hear
  <2>5. QED
    BY <2>1, <2>2, <2>3, <2>4
<1>5. ASSUME NEW c \in Asks, NEW k \in Ses!Kinds,
             Ses!AskLink(c, k) \/ \E l \in Ses!Numbers : Ses!FollowLink(c, k, l)
      PROVE  SessionsTyped'
  BY <1>5, NewAskTyped
<1>6. QED
  BY <1>1, <1>2, <1>3, <1>4, <1>5 DEF Ses!Next

LEMMA SessionsHaveTypes == ASSUME SessionsRight, SessionsTyped PROVE Ses!TypeOK
<1> USE TypedFacts
<1>1. /\ user \in Ses!User /\ user.refresh <= issued
      /\ \A k \in Ses!Kinds : user.link[k] <= links
      /\ issued \in Nat /\ issued + links + user.password <= MaxIssued + 1
      /\ links \in Nat /\ cookie \in 0..issued
  BY DEF SessionsRight, RowRight
<1>2. tab \in [Tabs -> [open : BOOLEAN, access : 0..user.password,
                        renewal : Asks \cup {None}, out : BOOLEAN]]
  <2>1. ASSUME NEW p \in Tabs
        PROVE  tab[p] \in [open : BOOLEAN, access : 0..user.password,
                           renewal : Asks \cup {None}, out : BOOLEAN]
    <3>1. tab[p] \in Tab /\ tab[p].access <= user.password
      BY DEF TabsTyped
    <3>2. QED
      BY <3>1 DEF Tab
  <2>2. QED
    BY <2>1
<1>3. work \in [Asks -> [op : Ses!Ops, page : Tabs \cup {None},
                         pc : Ses!Steps, stale : BOOLEAN, again : BOOLEAN,
                         token : Nat, password : 0..user.password,
                         awaits : Asks \cup {None}]]
  <2>1. ASSUME NEW c \in Asks
        PROVE  work[c] \in [op : Ses!Ops, page : Tabs \cup {None},
                            pc : Ses!Steps, stale : BOOLEAN, again : BOOLEAN,
                            token : Nat, password : 0..user.password,
                            awaits : Asks \cup {None}]
    BY DEF Ask
  <2>2. QED
    BY <2>1
<1>4. \A c \in Asks : work[c].pc = "wait" =>
        work[c].awaits # None /\ work[work[c].awaits].op = "renew"
  BY DEF AsksTyped
<1>5. QED
  BY <1>1, <1>2, <1>3, <1>4 DEF Ses!TypeOK

LEMMA SessionsInTypes == OfficeSpec => []Ses!TypeOK
<1>1. OfficeInit => SessionsTyped
  BY SessionsTypedInit DEF OfficeInit
<1>2. SessionsRight /\ SessionsTyped /\ [OfficeNext]_office => SessionsTyped'
  BY SessionsTypedStep DEF OfficeNext, office, sessions
<1>3. QED
  BY <1>1, <1>2, SessionsHaveTypes, SessionsInvariant, PTL DEF OfficeSpec

\* An audit row about nothing names no link, and only an answer names one.
LinksTyped ==
  /\ offered \subseteq Listings /\ connected \in BOOLEAN
  /\ \A a \in DOMAIN audit : audit[a].event = "CONFLICT" => audit[a].link = 0
  /\ \A c \in Callers : call[c].pc # "ok" => call[c].answer = 0

AnswersOnly(cs) == \A c \in Callers : cs[c].pc # "ok" => cs[c].answer = 0

ConflictsOnly(rows) ==
  \A a \in DOMAIN rows : rows[a].event = "CONFLICT" => rows[a].link = 0

LEMMA LinksTypedInit == ASSUME Cat!Init PROVE LinksTyped
<1>1. /\ offered = Listings /\ connected = TRUE /\ audit = <<>>
      /\ call = [c \in Callers |-> Cat!L!Idle]
  BY DEF Cat!Init, Cat!L!Init
<1>2. QED
  BY <1>1 DEF LinksTyped, Cat!L!Idle

\* A request that goes on, fails or is answered.
LEMMA AnswersStill ==
  ASSUME LinksRight, LinksTyped, NEW c \in Callers,
         \/ \E n : Cat!L!Done(c, "ok", n)
         \/ Cat!L!Done(c, "error", 0)
         \/ call[c].pc # "ok" /\ call' = [call EXCEPT ![c].pc = "checked"]
         \/ \E key, h : Cat!L!Receive(c, key, h)
  PROVE  AnswersOnly(call')
<1>1. call \in [Callers -> Call]
  BY LinkFacts
<1>2. ASSUME NEW pc, NEW n, Cat!L!Done(c, pc, n), pc # "ok" => n = 0
      PROVE  AnswersOnly(call')
  BY <1>1, <1>2 DEF Cat!L!Done, AnswersOnly, LinksTyped, Call
<1>3. CASE call[c].pc # "ok" /\ call' = [call EXCEPT ![c].pc = "checked"]
  BY <1>1, <1>3 DEF AnswersOnly, LinksTyped, Call
<1>4. ASSUME NEW key, NEW h, Cat!L!Receive(c, key, h)
      PROVE  AnswersOnly(call')
  BY <1>1, <1>4 DEF Cat!L!Receive, AnswersOnly, LinksTyped
<1>5. QED
  BY <1>2, <1>3, <1>4

LEMMA ConflictsStill ==
  ASSUME LinksRight, LinksTyped, NEW r \in AuditRow,
         r.event = "CONFLICT" => r.link = 0
  PROVE  ConflictsOnly(Append(audit, r))
<1> DEFINE bs == Append(audit, r)
<1>1. /\ \A a \in DOMAIN audit : bs[a] = audit[a]
      /\ bs[Len(audit) + 1] = r
      /\ DOMAIN bs = DOMAIN audit \cup {Len(audit) + 1}
  BY OneRow DEF LinksRight, RowsRight
<1> HIDE DEF bs
<1>2. ConflictsOnly(bs)
  BY <1>1 DEF ConflictsOnly, LinksTyped
<1>3. QED
  BY <1>2 DEF bs

\* A row that a request with a key writes.
LEMMA RequestRow ==
  ASSUME LinksRight, LinksTyped, NEW c \in Callers, call[c].pc = "checked",
         NEW event \in {"CREATED", "UNLINKED", "VALIDATED"}, NEW i \in Nat
  PROVE  ConflictsOnly(Append(audit,
           Cat!L!Row(event, i, call[c].key, call[c].hash)))
<1> DEFINE r == Cat!L!Row(event, i, call[c].key, call[c].hash)
<1>1. call[c].key \in Keys /\ call[c].hash \in Cat!L!Hash
  BY LinkFacts DEF CallRight, Sensible
<1>2. r \in AuditRow /\ r.event # "CONFLICT"
  BY <1>1 DEF Cat!L!Row, AuditRow
<1> HIDE DEF r
<1>3. ConflictsOnly(Append(audit, r))
  BY <1>2, ConflictsStill
<1>4. QED
  BY <1>3 DEF r

LEMMA LinksTypedCall ==
  ASSUME LinksRight, LinksTyped, NEW c \in Callers, Cat!L!CallStep(c)
  PROVE  LinksTyped'
<1> DEFINE h == call[c].hash
<1>1. UNCHANGED <<offered, connected>>
  BY DEF Cat!L!CallStep, Cat!L!Check, Cat!L!SaveLink, Cat!L!SaveUnlink,
         Cat!L!SaveValidation
<1>2. \A n : Cat!L!Done(c, "ok", n) => AnswersOnly(call')
  BY AnswersStill
<1>3. Cat!L!Fail(c) => AnswersOnly(call')
  BY AnswersStill DEF Cat!L!Fail
<1>4. Cat!L!Replay(c) => AnswersOnly(call')
  BY <1>2, <1>3 DEF Cat!L!Replay
<1>5. ConflictsOnly(audit)
  BY DEF LinksTyped, ConflictsOnly
<1>6. AnswersOnly(call') /\ ConflictsOnly(audit')
  <2>1. CASE Cat!L!Check(c)
    <3>1. audit' = audit /\ call[c].pc = "received"
      BY <2>1 DEF Cat!L!Check
    <3>2. call' = [call EXCEPT ![c].pc = "checked"] => AnswersOnly(call')
      BY <3>1, AnswersStill
    <3>3. QED
      BY <1>3, <1>4, <1>5, <2>1, <3>1, <3>2 DEF Cat!L!Check
  <2>2. CASE Cat!L!SaveLink(c)
    <3> DEFINE conflict == Cat!L!Row("CONFLICT", 0, None, None)
               r == Cat!L!Row("CREATED", Len(link) + 1, call[c].key, h)
    <3>1. /\ call[c].pc = "checked"
          /\ \/ Cat!L!Fail(c) \/ Cat!L!Replay(c)
             \/ Cat!L!Done(c, "ok", Len(link) + 1)
          /\ audit' \in {audit, Append(audit, conflict), Append(audit, r)}
      BY <2>2 DEF Cat!L!SaveLink
    <3>2. conflict \in AuditRow /\ conflict.link = 0
      BY DEF Cat!L!Row, AuditRow
    <3>3. Len(link) + 1 \in Nat
      BY LinkFacts
    <3>4. ConflictsOnly(Append(audit, r))
      BY <3>1, <3>3, RequestRow
    <3> HIDE DEF conflict, r
    <3>5. ConflictsOnly(Append(audit, conflict))
      BY <3>2, ConflictsStill
    <3>6. AnswersOnly(call')
      BY <1>2, <1>3, <1>4, <3>1
    <3>7. QED
      BY <1>5, <3>1, <3>4, <3>5, <3>6
  <2>3. ASSUME NEW event \in {"UNLINKED", "VALIDATED"},
               call[c].pc = "checked", h.op # "create",
               \/ Cat!L!Fail(c) \/ Cat!L!Replay(c)
               \/ Cat!L!Done(c, "ok", h.link),
               \/ audit' = audit
               \/ audit' = Append(audit,
                             Cat!L!Row(event, h.link, call[c].key, h))
        PROVE  AnswersOnly(call') /\ ConflictsOnly(audit')
    <3>1. h.link \in 1..Len(link) /\ Len(link) \in Nat
      BY <2>3, LinkFacts DEF CallRight, Sensible
    <3>2. h.link \in Nat
      BY <3>1
    <3>3. AnswersOnly(call')
      BY <1>2, <1>3, <1>4, <2>3
    <3>4. QED
      BY <1>5, <2>3, <3>2, <3>3, RequestRow
  <2>4. CASE Cat!L!SaveUnlink(c)
    <3>1. /\ call[c].pc = "checked" /\ h.op # "create"
          /\ \/ Cat!L!Fail(c) \/ Cat!L!Replay(c)
             \/ Cat!L!Done(c, "ok", h.link)
          /\ \/ audit' = audit
             \/ audit' = Append(audit,
                           Cat!L!Row("UNLINKED", h.link, call[c].key, h))
      BY <2>4 DEF Cat!L!SaveUnlink
    <3>2. QED
      BY <2>3, <3>1
  <2>5. CASE Cat!L!SaveValidation(c)
    <3>1. /\ call[c].pc = "checked" /\ h.op # "create"
          /\ \/ Cat!L!Fail(c) \/ Cat!L!Replay(c)
             \/ Cat!L!Done(c, "ok", h.link)
          /\ \/ audit' = audit
             \/ audit' = Append(audit,
                           Cat!L!Row("VALIDATED", h.link, call[c].key, h))
      BY <2>5 DEF Cat!L!SaveValidation
    <3>2. QED
      BY <2>3, <3>1
  <2>6. QED
    BY <2>1, <2>2, <2>4, <2>5 DEF Cat!L!CallStep
<1>7. QED
  BY <1>1, <1>6 DEF LinksTyped, AnswersOnly, ConflictsOnly

LEMMA LinksTypedStep ==
  ASSUME LinksRight, LinksTyped, [Cat!Next]_catalogue
  PROVE  LinksTyped'
<1>1. CASE UNCHANGED <<offered, connected, audit, call>>
  BY <1>1 DEF LinksTyped
<1>2. CASE Cat!L!Next
  <2>1. ASSUME NEW c \in Callers, Cat!L!CallStep(c)
        PROVE  LinksTyped'
    BY <2>1, LinksTypedCall
  <2>2. ASSUME NEW l \in Listings, Cat!L!SyncListing(l)
        PROVE  LinksTyped'
    BY <2>2 DEF Cat!L!SyncListing, LinksTyped
  <2>3. ASSUME NEW l \in Listings, Cat!L!Invalidate(l)
        PROVE  LinksTyped'
    BY <1>1, <2>3 DEF Cat!L!Invalidate
  <2>4. CASE Cat!L!ToggleConnection
    BY <2>4 DEF Cat!L!ToggleConnection, LinksTyped
  <2>5. ASSUME NEW c \in Callers, NEW key,
               \/ \E p, l : Cat!L!Link(c, key, p, l)
                              \/ Cat!L!AcceptSuggestion(c, key, p, l)
               \/ \E i : Cat!L!Unlink(c, key, i) \/ Cat!L!Validate(c, key, i)
        PROVE  LinksTyped'
    <3>1. PICK h : Cat!L!Receive(c, key, h)
      BY <2>5 DEF Cat!L!Link, Cat!L!AcceptSuggestion, Cat!L!Unlink,
                  Cat!L!Validate
    <3>2. AnswersOnly(call')
      BY <3>1, AnswersStill
    <3>3. UNCHANGED <<offered, connected, audit>>
      BY <3>1 DEF Cat!L!Receive
    <3>4. QED
      BY <3>2, <3>3 DEF LinksTyped, AnswersOnly
  <2>6. QED
    BY <1>2, <2>1, <2>2, <2>3, <2>4, <2>5 DEF Cat!L!Next
<1>3. QED
  BY <1>1, <1>2 DEF Cat!Next, Cat!linkVars, catalogue

LEMMA LinksHaveTypes == ASSUME LinksRight, LinksTyped PROVE Cat!L!TypeOK
<1>1. /\ link \in Seq(ALink) /\ audit \in Seq(AuditRow) /\ Len(link) \in Nat
      /\ call \in [Callers -> Call]
      /\ \A a \in DOMAIN audit : Tells(audit[a], link)
      /\ \A c \in Callers : CallRight(call[c], link)
  BY DEF LinksRight, RowsRight, CallsRight
<1>2. \A i \in DOMAIN link : link[i] \in ALink
  BY <1>1
<1>3. ASSUME NEW a \in DOMAIN audit
      PROVE  audit[a] \in [event : {"CREATED", "UNLINKED", "VALIDATED",
                                    "CONFLICT"},
                           link : 0 .. Len(link), key : Keys \cup {None},
                           hash : Cat!L!Hash \cup {None}]
  <2>1. audit[a] \in AuditRow /\ Tells(audit[a], link)
    BY <1>1
  <2>2. audit[a].link \in 0..Len(link)
    <3>1. CASE audit[a].event = "CONFLICT"
      BY <1>1, <3>1 DEF LinksTyped
    <3>2. CASE audit[a].event # "CONFLICT"
      BY <1>1, <2>1, <3>2 DEF Tells
    <3>3. QED
      BY <3>1, <3>2
  <2>3. QED
    BY <2>1, <2>2 DEF AuditRow
<1>4. ASSUME NEW c \in Callers
      PROVE  call[c] \in [pc : {"idle", "received", "checked", "ok", "error"},
                          key : Keys \cup {None},
                          hash : Cat!L!Hash \cup {None}, answer : 0 .. Len(link)]
  <2>1. call[c] \in Call /\ CallRight(call[c], link)
    BY <1>1
  <2>2. call[c].answer \in 0..Len(link)
    <3>1. CASE call[c].pc # "ok"
      BY <1>1, <3>1 DEF LinksTyped
    <3>2. CASE call[c].pc = "ok"
      BY <1>1, <2>1, <3>2 DEF CallRight, Answers, Sensible
    <3>3. QED
      BY <3>1, <3>2
  <2>3. QED
    BY <2>1, <2>2 DEF Call
<1>5. QED
  BY <1>2, <1>3, <1>4 DEF Cat!L!TypeOK, LinksTyped, ALink

LEMMA KitsHaveTypes == ASSUME KitsRight, KitsTyped PROVE Cat!K!TypeOK
<1>1. kit \in [Products -> BOOLEAN]
  BY DEF KitsRight
<1>2. QED
  BY <1>1 DEF KitsTyped, Cat!K!TypeOK

LEMMA CatalogueInTypes == OfficeSpec => []Cat!TypeOK
<1>1. OfficeInit => LinksTyped
  BY LinksTypedInit DEF OfficeInit
<1>2. LinksRight /\ LinksTyped /\ [OfficeNext]_office => LinksTyped'
  BY LinksTypedStep DEF OfficeNext, office, catalogue
<1>3. /\ KitsRight /\ KitsTyped /\ LinksRight /\ LinksTyped
      => Cat!TypeOK
  BY KitsHaveTypes, LinksHaveTypes DEF Cat!TypeOK
<1>4. QED
  BY <1>1, <1>2, <1>3, LinksInvariant, KitsInvariant, PTL DEF OfficeSpec

LEMMA MembersInTypes == OfficeSpec => []Mem!TypeOK
<1>1. M!IInv => M!TypeOK
  BY DEF M!IInv, M!Typed, M!TypeOK, M!Request, M!Sound
<1>2. M!TypeOK => Mem!TypeOK
  BY DEF M!TypeOK, Mem!TypeOK, M!Row, Mem!Row, M!Stranger, Mem!Stranger,
         M!Allowed, Mem!Allowed, M!Roles, Mem!Roles, M!Rank, Mem!Rank
<1>3. QED
  BY <1>1, <1>2, MembersInvariant, PTL

LEMMA FiscalInTypes == OfficeSpec => []TypeOK
<1>1. OfficeInit => Init
  BY DEF OfficeInit
<1>2. [OfficeNext]_office => [Next]_vars
  BY DEF OfficeNext, office, fiscal
<1>3. QED
  BY <1>1, <1>2, TypeCorrect, PTL DEF OfficeSpec, Spec

\* Every variable of every part keeps its type, whatever the other parts do:
\* the rows, requests, pages and histories of the fiscal configuration, the
\* catalogue, the members, the sessions and the screens.
THEOREM OfficeTypes == OfficeSpec => []OfficeTypeOK
BY FiscalInTypes, CatalogueInTypes, MembersInTypes, SessionsInTypes,
   ScreensTyped, PTL DEF OfficeTypeOK

=============================================================================
