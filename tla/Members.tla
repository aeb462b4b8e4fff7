------------------------------- MODULE Members ------------------------------
(***************************************************************************)
(* One company, its members and their roles: CompaniesService behind the   *)
(* guards of CompaniesController.                                          *)
(*                                                                         *)
(* No handler takes a lock.  A request carries the role its actor had when *)
(* the guard looked, reads the row to change, counts the administrators    *)
(* when the change takes one away, and saves the row as it was read with   *)
(* the new fields.  The roles below MANAGER differ in nothing here.        *)
(***************************************************************************)
EXTENDS Naturals, FiniteSets

CONSTANTS
  Users,
  Requests,     \* requests under way at a time
  MaxSaves,     \* bound: rows saved
  Nobody

ConstantsFit == IsFiniteSet(Users) /\ Nobody \notin Users /\ MaxSaves \in Nat

VARIABLES
  company,      \* "none", "open" or "closed" (isActive)
  member,       \* company_members, by user
  request,      \* requests under way
  saves,        \* rows saved so far, to bound the run
  overtaken     \* history: "member" and "company" once a row was saved over
                \* a change made since it was read or since the count

vars == <<company, member, request, saves, overtaken>>

Roles == {"VIEWER", "MANAGER", "ADMIN"}

Rank(role) == CASE role = "VIEWER" -> 1 [] role = "MANAGER" -> 2
                [] role = "ADMIN" -> 3

Stranger == [role |-> "NONE", active |-> FALSE]
Joined(role) == [role |-> role, active |-> TRUE]

Idle == [op |-> "none", pc |-> "idle", actor |-> Nobody, role |-> "NONE",
         target |-> Nobody, row |-> Stranger, counts |-> FALSE,
         stale |-> FALSE]

Init ==
  /\ company = "none"
  /\ member = [u \in Users |-> Stranger]
  /\ request = [r \in Requests |-> Idle]
  /\ saves = 0
  /\ overtaken = {}

ActiveAdmins == {u \in Users : member[u] = Joined("ADMIN")}

\* One transaction: the company and the membership of its creator.
Create(u) ==
  /\ company = "none"
  /\ company' = "open"
  /\ member' = [member EXCEPT ![u] = Joined("ADMIN")]
  /\ UNCHANGED <<request, saves, overtaken>>

-----------------------------------------------------------------------------
(* The guards, once, before the handler.                                   *)

Allowed(op) == IF op = "close" THEN {"ADMIN"} ELSE {"ADMIN", "MANAGER"}

\* activeMembership.
MayEnter(u, op) ==
  /\ company = "open"
  /\ member[u].active
  /\ member[u].role \in Allowed(op)

Enter(r, u, op) ==
  /\ request[r].pc = "idle"
  /\ MayEnter(u, op)
  /\ request' = [request EXCEPT ![r] =
       [Idle EXCEPT !.op = op, !.pc = "entered", !.actor = u,
                    !.role = member[u].role]]
  /\ UNCHANGED <<company, member, saves, overtaken>>

-----------------------------------------------------------------------------
(* The handlers.                                                           *)

Step(r, pc) == request' = [request EXCEPT ![r].pc = pc]
Leave(r) == request' = [request EXCEPT ![r] = Idle]

Refuse(r) == Leave(r) /\ UNCHANGED <<company, member, saves, overtaken>>

\* A save: the other requests that have read what it changes are now late.
Readers(op) == {q \in Requests : request[q].op = op /\ request[q].pc = "read"}

Saved(r, op, changed) ==
  /\ saves < MaxSaves
  /\ saves' = saves + 1
  /\ request' = [q \in Requests |->
       IF q = r THEN Idle
       ELSE IF changed /\ q \in Readers(op) THEN [request[q] EXCEPT !.stale = TRUE]
       ELSE request[q]]

\* New values of a member; a request names one field or both.  What a request
\* asks for is of no account before its handler looks at it.
Changes == [role : Roles] \cup [active : BOOLEAN]
             \cup [role : Roles, active : BOOLEAN]

\* The field f of a change, as a set: the change may not name it.
Named(to, f) == {to[g] : g \in DOMAIN to \cap {f}}

\* Object.assign.
Assigned(row, to) ==
  [f \in DOMAIN row |-> IF f \in DOMAIN to THEN to[f] ELSE row[f]]

ManagerOverAdmin(r, roles) == request[r].role = "MANAGER" /\ "ADMIN" \in roles

\* addMember: a user is a member once, an inactive one too.
AddMember(r, t, role) ==
  /\ request[r].op = "add" /\ request[r].pc = "entered"
  /\ ~ManagerOverAdmin(r, {role})
  /\ member[t] = Stranger
  /\ member' = [member EXCEPT ![t] = Joined(role)]
  /\ Saved(r, "change", TRUE)
  /\ UNCHANGED <<company, overtaken>>

RefuseAdd(r, t, role) ==
  /\ request[r].op = "add" /\ request[r].pc = "entered"
  /\ ManagerOverAdmin(r, {role}) \/ member[t] # Stranger
  /\ Refuse(r)

Forbidden(r, t, to) ==
  \/ member[t] = Stranger
  \/ ManagerOverAdmin(r, {member[t].role} \cup Named(to, "role"))
  \/ /\ request[r].actor = t
     /\ \E role \in Named(to, "role") : Rank(role) > Rank(request[r].role)

TakesAnAdmin(row, to) ==
  /\ row.role = "ADMIN"
  /\ \/ Named(to, "role") \cap (Roles \ {"ADMIN"}) # {}
     \/ FALSE \in Named(to, "active")

\* updateMember, up to the count: the row as it was read, with the new fields.
ReadMember(r, t, to) ==
  /\ request[r].op = "change" /\ request[r].pc = "entered"
  /\ ~Forbidden(r, t, to)
  /\ request' = [request EXCEPT
       ![r].pc = "read", ![r].target = t, ![r].row = Assigned(member[t], to),
       ![r].counts = TakesAnAdmin(member[t], to), ![r].actor = Nobody]
  /\ UNCHANGED <<company, member, saves, overtaken>>

RefuseChange(r, t, to) ==
  /\ request[r].op = "change" /\ request[r].pc = "entered"
  /\ Forbidden(r, t, to)
  /\ Refuse(r)

\* activeAdminCount.
Admins_OfAnyState == {u \in Users : member[u].role = "ADMIN"}

Admins == ActiveAdmins

CountAdmins(r) ==
  /\ request[r].pc = "read" /\ request[r].counts
  /\ \/ Cardinality(Admins) > 1
        /\ request' = [request EXCEPT ![r].counts = FALSE]
     \/ Cardinality(Admins) <= 1 /\ Leave(r)
  /\ UNCHANGED <<company, member, saves, overtaken>>

SaveMember(r) ==
  LET t == request[r].target IN
  /\ request[r].op = "change" /\ request[r].pc = "read" /\ ~request[r].counts
  /\ member' = [member EXCEPT ![t] = request[r].row]
  /\ overtaken' = IF request[r].stale THEN overtaken \cup {"member"}
                                      ELSE overtaken
  /\ Saved(r, "change", member[t] # request[r].row)
  /\ UNCHANGED company

\* update: get, then the whole row.
Found_AnyState == company # "none"

Found == company = "open"

ReadCompany(r) ==
  /\ request[r].op = "edit" /\ request[r].pc = "entered"
  /\ \/ Found /\ Step(r, "read")
     \/ ~Found /\ Leave(r)
  /\ UNCHANGED <<company, member, saves, overtaken>>

SaveCompany(r) ==
  /\ request[r].op = "edit" /\ request[r].pc = "read"
  /\ company' = "open"
  /\ overtaken' = IF request[r].stale THEN overtaken \cup {"company"}
                                      ELSE overtaken
  /\ Saved(r, "edit", TRUE)
  /\ UNCHANGED member

\* deactivate: one update, without a condition.
CloseCompany(r) ==
  /\ request[r].op = "close" /\ request[r].pc = "entered"
  /\ company' = "closed"
  /\ Saved(r, "edit", TRUE)
  /\ UNCHANGED <<member, overtaken>>

-----------------------------------------------------------------------------

Handle(r) ==
  \/ \E t \in Users :
       \/ \E role \in Roles : AddMember(r, t, role) \/ RefuseAdd(r, t, role)
       \/ \E to \in Changes : ReadMember(r, t, to) \/ RefuseChange(r, t, to)
  \/ CountAdmins(r) \/ SaveMember(r)
  \/ ReadCompany(r) \/ SaveCompany(r) \/ CloseCompany(r)

Next ==
  \/ \E u \in Users : Create(u)
  \/ \E r \in Requests :
       \/ Handle(r)
       \/ \E u \in Users, op \in {"add", "change", "edit", "close"} :
            Enter(r, u, op)

Spec == Init /\ [][Next]_vars

-----------------------------------------------------------------------------
(* Properties.                                                             *)

Row == [role : Roles \cup {"NONE"}, active : BOOLEAN]

TypeOK ==
  /\ company \in {"none", "open", "closed"}
  /\ member \in [Users -> Row]
  /\ \A u \in Users : member[u].role = "NONE" => member[u] = Stranger
  /\ \A r \in Requests :
       /\ request[r].pc \in {"idle", "entered", "read"}
       /\ request[r].pc # "idle" => request[r].role \in Allowed(request[r].op)
       /\ request[r].row \in Row
  /\ saves \in 0..MaxSaves
  /\ overtaken \subseteq {"member", "company"}

\* A company keeps an active administrator, whatever the administrators and
\* managers do to one another, as long as no membership is saved over a change
\* its request has not seen.  The administrators are counted outside any lock,
\* so that this is all the code ensures.
AdministratorStays ==
  company # "none" /\ "member" \notin overtaken => ActiveAdmins # {}

\* What README.md says without that condition: the last active administrator
\* cannot be demoted or deactivated.
LastAdministratorStays == company # "none" => ActiveAdmins # {}

\* Only somebody who came in as an administrator makes an administrator, and
\* only they take the role from one, unless the row was read before the
\* promotion; a company opens again only by an edit that had read it open.
RoleSteps ==
  /\ \A u \in Users :
       /\ member[u].role # "ADMIN" /\ member'[u].role = "ADMIN" =>
            \/ company = "none"
            \/ \E r \in Requests : /\ request[r].target \in {u, Nobody}
                                   /\ request[r].role = "ADMIN"
                                   /\ request'[r].pc = "idle"
       /\ member[u].role = "ADMIN" /\ member'[u] # member[u] =>
            \E r \in Requests : /\ request[r].target = u
                                /\ request[r].role = "ADMIN" \/ request[r].stale
                                /\ request'[r].pc = "idle"
  /\ company = "closed" /\ company' = "open" =>
       \E r \in Requests : request[r].op = "edit" /\ request[r].stale

RolesComeFromAdministrators == [][RoleSteps]_vars

=============================================================================
