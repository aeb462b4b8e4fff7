--------------------------- MODULE MembersProofs ----------------------------
(***************************************************************************)
(* Theorems about Members, for every finite set of users, any requests and *)
(* any number of saves.                                                    *)
(*                                                                         *)
(* What a request has read and counted is still true of the members as     *)
(* long as no save has overtaken it.                                       *)
(***************************************************************************)
EXTENDS Members, FiniteSetTheorems, TLAPS

Ops == {"none", "add", "change", "edit", "close"}

Request == [op : Ops, pc : {"idle", "entered", "read"},
            actor : Users \cup {Nobody}, role : Roles \cup {"NONE"},
            target : Users \cup {Nobody}, row : Row, counts : BOOLEAN,
            stale : BOOLEAN]

AdminsOf(m) == {u \in Users : m[u] = Joined("ADMIN")}

\* What the request x relies on when the members are m.
Sound(x, m) ==
  /\ x.pc # "idle" => x.role \in Allowed(x.op)
  /\ x.op # "change" => x.target = Nobody
  /\ x.op = "change" /\ x.pc = "read" =>
       /\ x.target \in Users /\ x.row.role \in Roles
       /\ x.row.role = "ADMIN" => x.role = "ADMIN"
       /\ ~x.stale =>
            /\ m[x.target].role = "ADMIN" => x.role = "ADMIN"
            /\ /\ ~x.counts
               /\ m[x.target] = Joined("ADMIN") /\ x.row # Joined("ADMIN")
               => Cardinality(AdminsOf(m)) > 1

Typed ==
  /\ company \in {"none", "open", "closed"}
  /\ member \in [Users -> Row]
  /\ \A u \in Users : member[u].role = "NONE" => member[u] = Stranger
  /\ request \in [Requests -> Request]
  /\ saves \in 0..MaxSaves
  /\ overtaken \subseteq {"member", "company"}

IInv ==
  /\ Typed
  /\ \A r \in Requests : Sound(request[r], member)
  /\ company = "none" => /\ \A r \in Requests : request[r].pc = "idle"
                         /\ \A u \in Users : member[u] = Stranger
  /\ AdministratorStays

-----------------------------------------------------------------------------
(* Requests and rows.                                                      *)

LEMMA IdleSound ==
  ASSUME NEW m
  PROVE  Idle \in Request /\ Sound(Idle, m)
BY DEF Idle, Request, Ops, Row, Stranger, Sound

\* A request that was overtaken relies on nothing the members are.
LEMMA StaleSound ==
  ASSUME NEW x \in Request, NEW m, NEW n, Sound(x, m)
  PROVE  /\ [x EXCEPT !.stale = TRUE] \in Request
         /\ Sound([x EXCEPT !.stale = TRUE], n)
BY DEF Request, Sound

\* Whoever is an administrator of any kind is one with a row of their own.
LEMMA JoinedRow ==
  ASSUME NEW role \in Roles
  PROVE  Joined(role) \in Row /\ Joined(role) # Stranger
         /\ Joined(role).role = role
BY DEF Joined, Stranger, Row, Roles

\* Object.assign changes what a request names.
LEMMA AssignedRow ==
  ASSUME NEW row \in Row, NEW to \in Changes
  PROVE  /\ Assigned(row, to) \in Row
         /\ Assigned(row, to).role =
              IF "role" \in DOMAIN to THEN to.role ELSE row.role
         /\ Assigned(row, to).active =
              IF "active" \in DOMAIN to THEN to.active ELSE row.active
         /\ "role" \in DOMAIN to => to.role \in Roles
         /\ "active" \in DOMAIN to => to.active \in BOOLEAN
<1>1. row = [role |-> row.role, active |-> row.active]
      /\ DOMAIN row = {"role", "active"}
      /\ row.role \in Roles \cup {"NONE"} /\ row.active \in BOOLEAN
  BY DEF Row
<1>2. /\ "role" \in DOMAIN to => to.role \in Roles
      /\ "active" \in DOMAIN to => to.active \in BOOLEAN
  BY DEF Changes
<1>3. Assigned(row, to) =
        [role |-> IF "role" \in DOMAIN to THEN to.role ELSE row.role,
         active |-> IF "active" \in DOMAIN to THEN to.active ELSE row.active]
  BY <1>1 DEF Assigned
<1>4. QED
  BY <1>1, <1>2, <1>3 DEF Row

\* The administrators that remain when one of at least two goes.
LEMMA OneRemains ==
  ASSUME ConstantsFit, NEW m, NEW n, NEW t \in Users,
         \A u \in Users \ {t} : n[u] = m[u],
         t \in AdminsOf(m) => Cardinality(AdminsOf(m)) > 1,
         AdminsOf(m) # {}
  PROVE  AdminsOf(n) # {}
<1>1. IsFiniteSet(AdminsOf(m))
  BY FS_Subset DEF ConstantsFit, AdminsOf
<1>2. CASE t \notin AdminsOf(m)
  BY <1>2 DEF AdminsOf
<1>3. CASE t \in AdminsOf(m)
  <2>1. AdminsOf(m) # {t}
    BY <1>3, FS_Singleton
  <2>2. PICK u \in AdminsOf(m) : u # t
    BY <1>3, <2>1
  <2>3. QED
    BY <2>2 DEF AdminsOf
<1>4. QED
  BY <1>2, <1>3

-----------------------------------------------------------------------------
(* Steps.                                                                  *)

\* After a save the requests are sound again: the one that saved is over, and
\* those that had read what changed are overtaken.
LEMMA SavedSound ==
  ASSUME IInv, ConstantsFit, NEW r \in Requests, NEW op \in Ops,
         NEW changed \in BOOLEAN, Saved(r, op, changed),
         member' = member \/ (op = "change" /\ changed)
  PROVE  /\ request' \in [Requests -> Request]
         /\ \A q \in Requests : Sound(request'[q], member')
         /\ saves' \in 0..MaxSaves
<1> USE DEF IInv, Typed
<1>1. request' = [q \in Requests |->
        IF q = r THEN Idle
        ELSE IF changed /\ q \in Readers(op)
             THEN [request[q] EXCEPT !.stale = TRUE] ELSE request[q]]
  BY DEF Saved
<1>2. ASSUME NEW q \in Requests
      PROVE  request'[q] \in Request /\ Sound(request'[q], member')
  <2>1. CASE q = r
    BY <1>1, <2>1, IdleSound
  <2>2. CASE q # r /\ changed /\ q \in Readers(op)
    BY <1>1, <2>2, StaleSound
  <2>3. CASE q # r /\ ~(changed /\ q \in Readers(op))
    <3>1. request'[q] = request[q] /\ request[q] \in Request
      BY <1>1, <2>3
    <3>2. Sound(request[q], member)
      OBVIOUS
    <3>3. CASE member' = member
      BY <3>1, <3>2, <3>3
    <3>4. CASE op = "change" /\ changed
      <4>1. ~(request[q].op = "change" /\ request[q].pc = "read")
        BY <2>3, <3>4 DEF Readers
      <4>2. QED
        BY <3>1, <3>2, <4>1 DEF Sound
    <3>5. QED
      BY <3>3, <3>4
  <2>4. QED
    BY <2>1, <2>2, <2>3
<1>3. saves' \in 0..MaxSaves
  BY DEF Saved, ConstantsFit
<1>4. QED
  BY <1>1, <1>2, <1>3

\* A step that only rewrites one request, soundly.
LEMMA RequestStep ==
  ASSUME IInv, NEW r \in Requests, NEW x \in Request, Sound(x, member),
         request' = [request EXCEPT ![r] = x],
         x.pc = "idle" \/ company # "none",
         UNCHANGED <<company, member, saves, overtaken>>
  PROVE  IInv'
<1>1. \A q \in Requests : request'[q] = IF q = r THEN x ELSE request[q]
  BY DEF IInv, Typed
<1>2. Typed'
  BY <1>1 DEF IInv, Typed
<1>3. \A q \in Requests : Sound(request'[q], member')
  BY <1>1 DEF IInv
<1>4. AdministratorStays'
  BY DEF IInv, AdministratorStays, ActiveAdmins
<1>5. company' = "none" => /\ \A q \in Requests : request'[q].pc = "idle"
                           /\ \A u \in Users : member'[u] = Stranger
  BY <1>1 DEF IInv
<1>6. QED
  BY <1>2, <1>3, <1>4, <1>5 DEF IInv

\* The company and its first administrator.
LEMMA CreateStep ==
  ASSUME IInv, NEW u \in Users, Create(u)
  PROVE  IInv'
<1> USE DEF IInv, Typed
<1>1. /\ company = "none" /\ company' = "open"
      /\ member' = [member EXCEPT ![u] = Joined("ADMIN")]
      /\ UNCHANGED <<request, saves, overtaken>>
  BY DEF Create
<1>2. Joined("ADMIN") \in Row /\ Joined("ADMIN").role = "ADMIN"
  BY JoinedRow DEF Roles
<1>3. member' \in [Users -> Row] /\ member'[u] = Joined("ADMIN")
  BY <1>1, <1>2
<1>4. \A v \in Users : member'[v].role = "NONE" => member'[v] = Stranger
  BY <1>1, <1>2
<1>5. \A q \in Requests : Sound(request'[q], member')
  BY <1>1 DEF Sound
<1>6. AdministratorStays'
  BY <1>3 DEF AdministratorStays, ActiveAdmins
<1>7. QED
  BY <1>1, <1>3, <1>4, <1>5, <1>6

LEMMA EnterStep ==
  ASSUME IInv, NEW r \in Requests, NEW u \in Users,
         NEW op \in {"add", "change", "edit", "close"}, Enter(r, u, op)
  PROVE  IInv'
<1> DEFINE x == [Idle EXCEPT !.op = op, !.pc = "entered", !.actor = u,
                             !.role = member[u].role]
<1>1. x \in Request /\ Sound(x, member)
  BY DEF Enter, MayEnter, Idle, Stranger, Request, Ops, Row, Sound, IInv,
         Typed, Roles
<1>2. request' = [request EXCEPT ![r] = x] /\ company # "none"
  BY DEF Enter, MayEnter
<1>3. UNCHANGED <<company, member, saves, overtaken>>
  BY DEF Enter
<1>4. QED
  BY <1>1, <1>2, <1>3, RequestStep

\* A request that ends without a save.
LEMMA RefuseStep ==
  ASSUME IInv, NEW r \in Requests, Leave(r),
         UNCHANGED <<company, member, saves, overtaken>>
  PROVE  IInv'
<1>1. Idle \in Request /\ Sound(Idle, member) /\ Idle.pc = "idle"
  BY IdleSound DEF Idle
<1>2. QED
  BY <1>1, RequestStep DEF Leave

LEMMA AddMemberStep ==
  ASSUME IInv, ConstantsFit, NEW r \in Requests, NEW t \in Users,
         NEW role \in Roles, AddMember(r, t, role)
  PROVE  IInv'
<1> USE DEF IInv, Typed
<1>1. /\ member[t] = Stranger
      /\ member' = [member EXCEPT ![t] = Joined(role)]
      /\ Saved(r, "change", TRUE)
      /\ UNCHANGED <<company, overtaken>>
      /\ request[r].pc = "entered"
  BY DEF AddMember
<1>2. /\ request' \in [Requests -> Request]
      /\ \A q \in Requests : Sound(request'[q], member')
      /\ saves' \in 0..MaxSaves
  BY <1>1, SavedSound DEF Ops
<1>3. Joined(role) \in Row /\ Joined(role).role # "NONE"
  BY JoinedRow DEF Roles
<1>4. /\ member' \in [Users -> Row]
      /\ \A v \in Users : member'[v].role = "NONE" => member'[v] = Stranger
  BY <1>1, <1>3
<1>5. ActiveAdmins \subseteq ActiveAdmins'
  BY <1>1, JoinedRow DEF ActiveAdmins, Roles
<1>6. company # "none"
  BY <1>1
<1>7. AdministratorStays'
  BY <1>1, <1>5 DEF AdministratorStays
<1>8. QED
  BY <1>1, <1>2, <1>4, <1>6, <1>7

\* What ReadMember leaves in the request: if it takes the role of an
\* administrator, they are still to be counted.
LEMMA ReadMemberStep ==
  ASSUME IInv, NEW r \in Requests, NEW t \in Users, NEW to \in Changes,
         ReadMember(r, t, to)
  PROVE  IInv'
<1> USE DEF IInv, Typed
<1> DEFINE row == Assigned(member[t], to)
           x == [request[r] EXCEPT !.pc = "read", !.target = t, !.row = row,
                   !.counts = TakesAnAdmin(member[t], to), !.actor = Nobody]
<1>1. /\ request[r].op = "change" /\ request[r].pc = "entered"
      /\ ~Forbidden(r, t, to)
      /\ request' = [request EXCEPT ![r] = x]
      /\ UNCHANGED <<company, member, saves, overtaken>>
  BY DEF ReadMember
<1>2. member[t] \in Row /\ member[t] # Stranger /\ member[t].role \in Roles
  <2>1. member[t] # Stranger
    BY <1>1 DEF Forbidden
  <2>2. QED
    BY <2>1 DEF Row
<1>3. /\ row \in Row
      /\ row.role = IF "role" \in DOMAIN to THEN to.role ELSE member[t].role
      /\ row.active = IF "active" \in DOMAIN to THEN to.active
                                                 ELSE member[t].active
      /\ row.role \in Roles
  BY <1>2, AssignedRow
<1>4. request[r].role \in {"ADMIN", "MANAGER"}
  BY <1>1 DEF Sound, Allowed
<1>5. \A roles : request[r].role = "MANAGER" /\ "ADMIN" \in roles
                  => ManagerOverAdmin(r, roles)
  BY DEF ManagerOverAdmin
<1>6. member[t].role = "ADMIN" => request[r].role = "ADMIN"
  BY <1>1, <1>4, <1>5 DEF Forbidden
<1>7. row.role = "ADMIN" => request[r].role = "ADMIN"
  <2>1. CASE "role" \in DOMAIN to /\ to.role = "ADMIN"
    <3>1. "ADMIN" \in Named(to, "role")
      BY <2>1 DEF Named
    <3>2. QED
      BY <1>1, <1>4, <1>5, <3>1 DEF Forbidden
  <2>2. QED
    BY <1>3, <1>6, <2>1
<1>8. member[t] = Joined("ADMIN") /\ row # Joined("ADMIN")
      => TakesAnAdmin(member[t], to)
  <2> SUFFICES ASSUME member[t] = Joined("ADMIN"), row # Joined("ADMIN")
               PROVE  TakesAnAdmin(member[t], to)
    OBVIOUS
  <2>1. member[t].role = "ADMIN" /\ member[t].active = TRUE
    BY DEF Joined
  <2>2. row.role # "ADMIN" \/ row.active # TRUE
    BY <1>3 DEF Row, Joined
  <2>3. CASE row.role # "ADMIN"
    <3>1. "role" \in DOMAIN to /\ to.role \in Roles \ {"ADMIN"}
      BY <1>3, <2>1, <2>3
    <3>2. to.role \in Named(to, "role")
      BY <3>1 DEF Named
    <3>3. QED
      BY <2>1, <3>1, <3>2 DEF TakesAnAdmin
  <2>4. CASE row.active # TRUE
    <3>1. "active" \in DOMAIN to /\ to.active = FALSE
      BY <1>2, <1>3, <2>1, <2>4, AssignedRow
    <3>2. FALSE \in Named(to, "active")
      BY <3>1 DEF Named
    <3>3. QED
      BY <2>1, <3>2 DEF TakesAnAdmin
  <2>5. QED
    BY <2>2, <2>3, <2>4
<1>9. TakesAnAdmin(member[t], to) \in BOOLEAN
  BY DEF TakesAnAdmin
<1>10. x \in Request /\ x.pc = "read" /\ x.target = t /\ x.row = row
       /\ x.role = request[r].role /\ x.op = "change"
       /\ x.counts = TakesAnAdmin(member[t], to)
  <2>1. request[r] \in Request
    OBVIOUS
  <2> HIDE DEF row
  <2>2. row \in Row /\ request[r].op = "change"
    BY <1>1, <1>3
  <2> USE <1>9
  <2> QED
    BY <2>1, <2>2 DEF Request
<1>11. Sound(x, member)
  BY <1>3, <1>4, <1>6, <1>7, <1>8, <1>10 DEF Sound, Allowed
<1>12. company # "none"
  BY <1>1
<1>13. QED
  BY <1>1, <1>10, <1>11, <1>12, RequestStep

LEMMA CountAdminsStep ==
  ASSUME IInv, NEW r \in Requests, CountAdmins(r)
  PROVE  IInv'
<1> DEFINE x == [request[r] EXCEPT !.counts = FALSE]
<1>1. UNCHANGED <<company, member, saves, overtaken>> /\ request[r].pc = "read"
  BY DEF CountAdmins
<1>2. request[r] \in Request /\ Sound(request[r], member) /\ company # "none"
  BY <1>1 DEF IInv, Typed
<1>3. CASE Leave(r)
  BY <1>1, <1>3, RefuseStep
<1>4. CASE /\ Cardinality(Admins) > 1
           /\ request' = [request EXCEPT ![r].counts = FALSE]
  <2>1. Cardinality(AdminsOf(member)) > 1
    BY <1>4 DEF Admins, ActiveAdmins, AdminsOf
  <2>2. x \in Request /\ Sound(x, member)
    BY <1>2, <2>1 DEF Request, Sound
  <2>3. request' = [request EXCEPT ![r] = x]
    BY <1>4 DEF IInv, Typed
  <2>4. QED
    BY <1>1, <1>2, <2>2, <2>3, RequestStep
<1>5. QED
  BY <1>3, <1>4 DEF CountAdmins

\* A save that was not overtaken takes an administrator only where another was
\* counted.
LEMMA SaveMemberStep ==
  ASSUME IInv, ConstantsFit, NEW r \in Requests, SaveMember(r)
  PROVE  IInv'
<1> DEFINE t == request[r].target
           row == request[r].row
<1>1. /\ request[r].op = "change" /\ request[r].pc = "read"
      /\ ~request[r].counts
      /\ member' = [member EXCEPT ![t] = row]
      /\ overtaken' = IF request[r].stale THEN overtaken \cup {"member"}
                                          ELSE overtaken
      /\ Saved(r, "change", member[t] # row)
      /\ UNCHANGED company
  BY DEF SaveMember
<1>2. /\ t \in Users /\ row \in Row /\ row.role \in Roles
      /\ ~request[r].stale /\ member[t] = Joined("ADMIN")
           /\ row # Joined("ADMIN") => Cardinality(AdminsOf(member)) > 1
      /\ member \in [Users -> Row] /\ request[r].stale \in BOOLEAN
      /\ company # "none"
  BY <1>1 DEF IInv, Typed, Sound, Request
<1> HIDE DEF t, row
<1>3. member' = member \/ member[t] # row
  BY <1>1, <1>2
<1>4. /\ request' \in [Requests -> Request]
      /\ \A q \in Requests : Sound(request'[q], member')
      /\ saves' \in 0..MaxSaves
  <2>1. (member[t] # row) \in BOOLEAN /\ "change" \in Ops
    BY DEF Ops
  <2>2. CASE member[t] # row
    <3>1. Saved(r, "change", TRUE)
      BY <1>1, <2>2 DEF Saved
    <3>2. QED
      BY <2>1, <3>1, SavedSound
  <2>3. CASE member[t] = row
    <3>1. Saved(r, "change", FALSE) /\ member' = member
      BY <1>1, <1>3, <2>3 DEF Saved
    <3>2. QED
      BY <2>1, <3>1, SavedSound
  <2>4. QED
    BY <2>2, <2>3
<1>5. \A u \in Users : member'[u] = IF u = t THEN row ELSE member[u]
  BY <1>1, <1>2
<1>6. Typed'
  <2>1. \A u \in Users : member'[u].role = "NONE" => member'[u] = Stranger
    BY <1>2, <1>5 DEF IInv, Typed, Roles
  <2>2. member' \in [Users -> Row]
    BY <1>1, <1>2
  <2>3. company' \in {"none", "open", "closed"}
        /\ overtaken' \subseteq {"member", "company"}
    BY <1>1 DEF IInv, Typed
  <2>4. QED
    BY <1>4, <2>1, <2>2, <2>3 DEF Typed
<1>7. AdministratorStays'
  <2> SUFFICES ASSUME "member" \notin overtaken'
               PROVE  ActiveAdmins' # {}
    BY DEF AdministratorStays
  <2>1. ~request[r].stale /\ "member" \notin overtaken
    BY <1>1
  <2>2. AdminsOf(member) # {}
    BY <1>2, <2>1 DEF IInv, AdministratorStays, ActiveAdmins, AdminsOf
  <2>3. CASE row = Joined("ADMIN")
    BY <1>2, <1>5, <2>3 DEF ActiveAdmins
  <2>4. CASE row # Joined("ADMIN")
    <3>1. t \in AdminsOf(member) => Cardinality(AdminsOf(member)) > 1
      BY <1>2, <2>1, <2>4 DEF AdminsOf
    <3>2. AdminsOf(member') # {}
      BY <1>2, <1>5, <2>2, <3>1, OneRemains
    <3>3. QED
      BY <3>2 DEF AdminsOf, ActiveAdmins
  <2>5. QED
    BY <2>3, <2>4
<1>8. QED
  BY <1>1, <1>2, <1>4, <1>6, <1>7 DEF IInv

\* Of the company itself only whether it is open changes.
LEMMA CompanyStep ==
  ASSUME IInv, ConstantsFit, NEW r \in Requests,
         ReadCompany(r) \/ SaveCompany(r) \/ CloseCompany(r)
  PROVE  IInv'
<1>1. CASE ReadCompany(r)
  <2> DEFINE x == [request[r] EXCEPT !.pc = "read"]
  <2>1. /\ request[r].op = "edit" /\ request[r].pc = "entered"
        /\ UNCHANGED <<company, member, saves, overtaken>>
        /\ Step(r, "read") \/ Leave(r)
    BY <1>1 DEF ReadCompany
  <2>2. /\ x \in Request /\ Sound(x, member)
        /\ company # "none"
    BY <2>1 DEF IInv, Typed, Request, Sound
  <2>3. CASE Step(r, "read")
    <3>1. request' = [request EXCEPT ![r] = x]
      BY <2>3 DEF Step, IInv, Typed
    <3>2. QED
      BY <2>1, <2>2, <3>1, RequestStep
  <2>4. QED
    BY <2>1, <2>3, RefuseStep
<1>2. CASE SaveCompany(r) \/ CloseCompany(r)
  <2>1. /\ Saved(r, "edit", TRUE) /\ UNCHANGED member
        /\ company' \in {"open", "closed"} /\ request[r].pc # "idle"
        /\ overtaken' \in {overtaken, overtaken \cup {"company"}}
    BY <1>2 DEF SaveCompany, CloseCompany
  <2>2. /\ request' \in [Requests -> Request]
        /\ \A q \in Requests : Sound(request'[q], member')
        /\ saves' \in 0..MaxSaves
    BY <2>1, SavedSound DEF Ops
  <2>3. Typed'
    BY <2>1, <2>2 DEF IInv, Typed
  <2>4. AdministratorStays'
    BY <2>1 DEF IInv, AdministratorStays, ActiveAdmins
  <2>5. QED
    BY <2>1, <2>2, <2>3, <2>4 DEF IInv
<1>3. QED
  BY <1>1, <1>2

LEMMA NextStep ==
  ASSUME IInv, ConstantsFit, [Next]_vars
  PROVE  IInv'
<1>1. ASSUME NEW u \in Users, Create(u)
      PROVE  IInv'
  BY <1>1, CreateStep
<1>2. ASSUME NEW r \in Requests, NEW u \in Users,
             NEW op \in {"add", "change", "edit", "close"}, Enter(r, u, op)
      PROVE  IInv'
  BY <1>2, EnterStep
<1>3. ASSUME NEW r \in Requests, NEW t \in Users, NEW role \in Roles,
             AddMember(r, t, role) \/ RefuseAdd(r, t, role)
      PROVE  IInv'
  BY <1>3, AddMemberStep, RefuseStep DEF RefuseAdd, Refuse
<1>4. ASSUME NEW r \in Requests, NEW t \in Users, NEW to \in Changes,
             ReadMember(r, t, to) \/ RefuseChange(r, t, to)
      PROVE  IInv'
  BY <1>4, ReadMemberStep, RefuseStep DEF RefuseChange, Refuse
<1>5. ASSUME NEW r \in Requests, CountAdmins(r) \/ SaveMember(r)
      PROVE  IInv'
  BY <1>5, CountAdminsStep, SaveMemberStep
<1>6. ASSUME NEW r \in Requests,
             ReadCompany(r) \/ SaveCompany(r) \/ CloseCompany(r)
      PROVE  IInv'
  BY <1>6, CompanyStep
<1>7. CASE UNCHANGED vars
  BY <1>7 DEF vars, IInv, Typed, AdministratorStays, ActiveAdmins
<1>8. QED
  BY <1>1, <1>2, <1>3, <1>4, <1>5, <1>6, <1>7 DEF Next, Handle

LEMMA InitSound ==
  ASSUME Init, ConstantsFit
  PROVE  IInv
<1>1. Stranger \in Row /\ Idle \in Request /\ \A m : Sound(Idle, m)
  BY IdleSound DEF Stranger, Row
<1>2. Idle.pc = "idle"
  BY DEF Idle
<1>3. QED
  BY <1>1, <1>2 DEF Init, IInv, Typed, AdministratorStays, ConstantsFit

LEMMA Invariant == ASSUME ConstantsFit PROVE Spec => []IInv
<1>1. Init => IInv
  BY InitSound
<1>2. IInv /\ [Next]_vars => IInv'
  BY NextStep
<1>3. QED
  BY <1>1, <1>2, PTL DEF Spec

-----------------------------------------------------------------------------

\* Every variable keeps its type, and a request carries a role that its guard
\* admits (CompaniesController).
THEOREM TypeCorrect == ASSUME ConstantsFit PROVE Spec => []TypeOK
<1>1. IInv => TypeOK
  BY DEF IInv, Typed, TypeOK, Request, Sound
<1>2. QED
  BY <1>1, Invariant, PTL

\* Of any number of members, one active administrator is left, unless a save
\* was made over a change its request had not seen (updateMember).
THEOREM AnAdministratorStays ==
  ASSUME ConstantsFit PROVE Spec => []AdministratorStays
<1>1. IInv => AdministratorStays
  BY DEF IInv
<1>2. QED
  BY <1>1, Invariant, PTL

-----------------------------------------------------------------------------
(* Who may change what.                                                    *)

\* An edit that nothing has overtaken has read the company open.
EditsSeeOpen ==
  \A q \in Requests :
    request[q].op = "edit" /\ request[q].pc = "read" /\ ~request[q].stale
    => company = "open"

\* A save leaves no edit behind that has read the company before it.
LEMMA EditSaved ==
  ASSUME IInv, EditsSeeOpen, NEW r \in Requests, NEW op \in Ops,
         NEW changed \in BOOLEAN, Saved(r, op, changed),
         company' = company \/ (op = "edit" /\ changed)
  PROVE  EditsSeeOpen'
<1> SUFFICES ASSUME NEW q \in Requests,
                    request'[q].op = "edit", request'[q].pc = "read",
                    ~request'[q].stale
             PROVE  company' = "open"
  BY DEF EditsSeeOpen
<1>1. request'[q] = IF q = r THEN Idle
        ELSE IF changed /\ q \in Readers(op)
             THEN [request[q] EXCEPT !.stale = TRUE] ELSE request[q]
  BY DEF Saved
<1>2. request[q] \in Request
  BY DEF IInv, Typed
<1>3. q # r
  BY <1>1 DEF Idle
<1>4. ~(changed /\ q \in Readers(op))
  BY <1>1, <1>2, <1>3 DEF Request
<1>5. request'[q] = request[q]
  BY <1>1, <1>3, <1>4
<1>6. company' = company
  BY <1>4, <1>5 DEF Readers
<1>7. QED
  BY <1>5, <1>6 DEF EditsSeeOpen

LEMMA EditStep ==
  ASSUME IInv, EditsSeeOpen, [Next]_vars
  PROVE  EditsSeeOpen'
<1> USE DEF IInv, Typed
<1>1. ASSUME NEW u \in Users, Create(u)
      PROVE  EditsSeeOpen'
  BY <1>1 DEF Create, EditsSeeOpen
<1>2. ASSUME NEW r \in Requests, NEW x, x.op # "edit" \/ x.pc # "read",
             request' = [request EXCEPT ![r] = x], company' = company
      PROVE  EditsSeeOpen'
  <2>1. \A q \in Requests : request'[q] = IF q = r THEN x ELSE request[q]
    BY <1>2
  <2>2. QED
    BY <1>2, <2>1 DEF EditsSeeOpen
<1>3. ASSUME NEW r \in Requests, Leave(r), company' = company
      PROVE  EditsSeeOpen'
  <2>1. Idle.op # "edit"
    BY DEF Idle
  <2>2. QED
    BY <1>2, <1>3, <2>1 DEF Leave
<1>4. ASSUME NEW r \in Requests, NEW u \in Users,
             NEW op \in {"add", "change", "edit", "close"}, Enter(r, u, op)
      PROVE  EditsSeeOpen'
  <2> DEFINE x == [Idle EXCEPT !.op = op, !.pc = "entered", !.actor = u,
                               !.role = member[u].role]
  <2>1. x.pc # "read"
    BY DEF Idle
  <2>2. request' = [request EXCEPT ![r] = x] /\ company' = company
    BY <1>4 DEF Enter
  <2> HIDE DEF x
  <2>3. QED
    BY <1>2, <2>1, <2>2
<1>5. ASSUME NEW r \in Requests, NEW t \in Users, NEW role \in Roles,
             AddMember(r, t, role)
      PROVE  EditsSeeOpen'
  BY <1>5, EditSaved DEF AddMember, Ops
<1>6. ASSUME NEW r \in Requests, NEW t \in Users, NEW to \in Changes,
             ReadMember(r, t, to)
      PROVE  EditsSeeOpen'
  <2> DEFINE x == [request[r] EXCEPT !.pc = "read", !.target = t,
                     !.row = Assigned(member[t], to), !.actor = Nobody,
                     !.counts = TakesAnAdmin(member[t], to)]
  <2>1. request[r] \in Request /\ request[r].op = "change"
    BY <1>6 DEF ReadMember
  <2>2. x.op # "edit"
    BY <2>1 DEF Request
  <2>3. request' = [request EXCEPT ![r] = x] /\ company' = company
    BY ZenonT(30), <1>6, <2>1 DEF ReadMember, Request
  <2> HIDE DEF x
  <2>4. QED
    BY <1>2, <2>2, <2>3
<1>7. ASSUME NEW r \in Requests, CountAdmins(r)
      PROVE  EditsSeeOpen'
  <2>1. CASE Leave(r)
    BY <1>3, <1>7, <2>1 DEF CountAdmins
  <2>2. CASE request' = [request EXCEPT ![r].counts = FALSE]
    <3>1. /\ \A q \in Requests : /\ request'[q].op = request[q].op
                                 /\ request'[q].pc = request[q].pc
                                 /\ request'[q].stale = request[q].stale
      BY <2>2 DEF Request
    <3>2. QED
      BY <1>7, <3>1 DEF CountAdmins, EditsSeeOpen
  <2>3. QED
    BY <1>7, <2>1, <2>2 DEF CountAdmins
<1>8. ASSUME NEW r \in Requests, SaveMember(r)
      PROVE  EditsSeeOpen'
  <2> DEFINE c == member[request[r].target] # request[r].row
  <2>1. Saved(r, "change", c) /\ company' = company
    BY <1>8 DEF SaveMember
  <2>2. c \in BOOLEAN /\ "change" \in Ops
    BY DEF Ops
  <2> HIDE DEF c
  <2>3. QED
    BY <2>1, <2>2, EditSaved
<1>9. ASSUME NEW r \in Requests, ReadCompany(r)
      PROVE  EditsSeeOpen'
  <2>1. CASE Leave(r)
    BY <1>3, <1>9, <2>1 DEF ReadCompany
  <2>2. CASE Found
    BY <1>9, <2>2 DEF Found, ReadCompany, EditsSeeOpen
  <2>3. QED
    BY <1>9, <2>1, <2>2 DEF ReadCompany
<1>10. ASSUME NEW r \in Requests, SaveCompany(r) \/ CloseCompany(r)
       PROVE  EditsSeeOpen'
  BY <1>10, EditSaved DEF SaveCompany, CloseCompany, Ops
<1>11. CASE UNCHANGED vars
  BY <1>11 DEF vars, EditsSeeOpen
<1>12. QED
  BY <1>1, <1>3, <1>4, <1>5, <1>6, <1>7, <1>8, <1>9, <1>10, <1>11
  DEF Next, Handle, RefuseAdd, RefuseChange, Refuse

\* The steps that write a member or the company, and by whom.
LEMMA RolesStep ==
  ASSUME IInv, EditsSeeOpen, [Next]_vars
  PROVE  RoleSteps \/ UNCHANGED vars
<1> USE DEF IInv, Typed
<1>1. ASSUME UNCHANGED <<member, company>>
      PROVE  RoleSteps
  BY <1>1 DEF RoleSteps
<1>2. ASSUME NEW u \in Users, Create(u)
      PROVE  RoleSteps
  <2>1. company = "none" /\ company' = "open"
        /\ member' = [member EXCEPT ![u] = Joined("ADMIN")]
    BY <1>2 DEF Create
  <2>2. \A v \in Users : member[v].role # "ADMIN"
    BY <2>1 DEF Stranger
  <2>3. QED
    BY <2>1, <2>2 DEF RoleSteps
<1>3. ASSUME NEW r \in Requests, NEW t \in Users, NEW role \in Roles,
             AddMember(r, t, role)
      PROVE  RoleSteps
  <2>1. /\ request[r].op = "add" /\ request[r].pc = "entered"
        /\ ~ManagerOverAdmin(r, {role}) /\ member[t] = Stranger
        /\ member' = [member EXCEPT ![t] = Joined(role)]
        /\ UNCHANGED company /\ request'[r] = Idle
    BY <1>3 DEF AddMember, Saved
  <2>2. request[r].target = Nobody /\ request[r].role \in {"ADMIN", "MANAGER"}
    BY <2>1 DEF Sound, Allowed
  <2>3. role = "ADMIN" => request[r].role = "ADMIN"
    BY <2>1, <2>2 DEF ManagerOverAdmin
  <2>4. \A u \in Users : member'[u] # member[u]
           => u = t /\ member[u].role = "NONE" /\ member'[u].role = role
    BY <2>1 DEF Stranger, Joined
  <2>5. Idle.pc = "idle"
    BY DEF Idle
  <2>6. QED
    BY <2>1, <2>2, <2>3, <2>4, <2>5 DEF RoleSteps
<1>4. ASSUME NEW r \in Requests, SaveMember(r)
      PROVE  RoleSteps
  <2>1. /\ request[r].op = "change" /\ request[r].pc = "read"
        /\ member' = [member EXCEPT ![request[r].target] = request[r].row]
        /\ UNCHANGED company /\ request'[r] = Idle
    BY <1>4 DEF SaveMember, Saved
  <2>2. Sound(request[r], member)
    OBVIOUS
  <2>3. /\ request[r].row.role = "ADMIN" => request[r].role = "ADMIN"
        /\ member[request[r].target].role = "ADMIN"
             => request[r].role = "ADMIN" \/ request[r].stale
    BY <2>1, <2>2 DEF Sound
  <2>4. \A u \in Users : member'[u] # member[u]
           => u = request[r].target /\ member'[u] = request[r].row
    BY <2>1
  <2>5. Idle.pc = "idle"
    BY DEF Idle
  <2>6. QED
    BY <2>1, <2>3, <2>4, <2>5 DEF RoleSteps
<1>5. ASSUME NEW r \in Requests, SaveCompany(r) \/ CloseCompany(r)
      PROVE  RoleSteps
  <2>1. UNCHANGED member
    BY <1>5 DEF SaveCompany, CloseCompany
  <2>2. company' = "open" =>
          request[r].op = "edit" /\ request[r].pc = "read"
    BY <1>5 DEF SaveCompany, CloseCompany
  <2>3. request[r].stale \in BOOLEAN
    BY DEF Request
  <2>4. company = "closed" /\ company' = "open"
          => request[r].op = "edit" /\ request[r].stale
    BY <2>2, <2>3 DEF EditsSeeOpen
  <2>5. QED
    BY <2>1, <2>4 DEF RoleSteps
<1>6. ASSUME NEW r \in Requests, NEW u \in Users,
             NEW op \in {"add", "change", "edit", "close"}, Enter(r, u, op)
      PROVE  RoleSteps
  BY <1>1, <1>6 DEF Enter
<1>7. ASSUME NEW r \in Requests, NEW t \in Users, NEW role \in Roles,
             RefuseAdd(r, t, role)
      PROVE  RoleSteps
  BY <1>1, <1>7 DEF RefuseAdd, Refuse
<1>8. ASSUME NEW r \in Requests, NEW t \in Users, NEW to \in Changes,
             ReadMember(r, t, to) \/ RefuseChange(r, t, to)
      PROVE  RoleSteps
  BY <1>1, <1>8 DEF ReadMember, RefuseChange, Refuse
<1>9. ASSUME NEW r \in Requests, CountAdmins(r) \/ ReadCompany(r)
      PROVE  RoleSteps
  BY <1>1, <1>9 DEF CountAdmins, ReadCompany
<1>10. QED
  BY <1>2, <1>3, <1>4, <1>5, <1>6, <1>7, <1>8, <1>9 DEF Next, Handle

\* Only an administrator makes or unmakes an administrator, unless the row was
\* read before the promotion, and only a late edit opens a company again
\* (addMember, updateMember, update).
THEOREM RolesAreGiven ==
  ASSUME ConstantsFit PROVE Spec => RolesComeFromAdministrators
<1>1. Init => EditsSeeOpen
  BY DEF Init, EditsSeeOpen, Idle
<1>2. IInv /\ EditsSeeOpen /\ [Next]_vars => EditsSeeOpen'
  BY EditStep
<1>3. IInv /\ EditsSeeOpen /\ [Next]_vars => [RoleSteps]_vars
  BY RolesStep
<1>4. QED
  BY <1>1, <1>2, <1>3, Invariant, PTL DEF Spec, RolesComeFromAdministrators

=============================================================================
