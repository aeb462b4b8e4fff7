------------------------------- MODULE Fiscal -------------------------------
(***************************************************************************)
(* The fiscal settings of a company: its establishments and which of them  *)
(* is the default, the number sequences of their documents, the versions   *)
(* of the fiscal profile of a product, the tax rules of that product, the  *)
(* accountant's review of all of them, and the readiness that is computed  *)
(* from them.                                                              *)
(*                                                                         *)
(* Every write runs in one transaction that first locks the row of the     *)
(* company (fiscal.service.ts, transaction), so each is one action.  What  *)
(* is not under that lock is what a user saw before pressing a button: the *)
(* page keeps the row it listed, and a correction of a number is sent with *)
(* the version of that row.                                                *)
(*                                                                         *)
(* The profiles are those of one product, the rules those of one product,  *)
(* establishment, tax, operation and priority: only such rules can be in   *)
(* conflict.  A scope is the customer type and the two states of a rule.   *)
(* The exclusion constraint on profiles and the unique index on defaults   *)
(* are left out on purpose: the properties show that the code never lets   *)
(* them be the ones to refuse.                                             *)
(***************************************************************************)
EXTENDS Naturals, Sequences

CONSTANTS Users,           \* who may correct a number
          Establishments,  \* identifiers of establishments
          Settings,        \* identifiers of number sequences
          Scopes,          \* what a rule applies to
          ANY,             \* the generic scope, one of Scopes
          None,            \* no establishment, user or listed row
          MaxTime,         \* periods begin at 1..MaxTime
          MaxNumber,       \* document numbers are 1..MaxNumber
          MaxWrites        \* bound: writes of every kind

ASSUME FiscalAssumption ==
    /\ ANY \in Scopes
    /\ MaxTime \in Nat \ {0} /\ MaxNumber \in Nat \ {0}
    /\ MaxWrites \in Nat
    /\ None \notin Establishments \cup Users

VARIABLES est,        \* the establishments; version 0: not created
          submitted,  \* history: the version last sent for review
          setting,    \* the sequences; of = None: not created
          seen,       \* the row of a sequence that a user has on the page
          profile,    \* the profiles of the product, by version
          rule,       \* the tax rules, in the order they were saved
          now,        \* the date
          writes      \* how many writes there were (bound)

vars == <<est, submitted, setting, seen, profile, rule, now, writes>>

Reviews == {"NOT_REVIEWED", "PENDING_REVIEW", "APPROVED", "REJECTED"}
Decisions == {"APPROVED", "REJECTED"}

\* A period [from, until); the end MaxTime + 1 stands for "no end".
Periods == {p \in (1 .. MaxTime) \X (2 .. MaxTime + 1) : p[1] < p[2]}

Known(e) == est[e].version > 0

Row(scope, period) ==
    [scope |-> scope, from |-> period[1], until |-> period[2],
     active |-> TRUE, review |-> "NOT_REVIEWED", replaced |-> FALSE]

-----------------------------------------------------------------------------
Init ==
    /\ est = [e \in Establishments |->
                [version |-> 0, active |-> FALSE, default |-> FALSE,
                 review |-> "NOT_REVIEWED"]]
    /\ submitted = [e \in Establishments |-> 0]
    /\ setting = [s \in Settings |->
                    [of |-> None, active |-> FALSE, next |-> 1,
                     version |-> 1, by |-> None]]
    /\ seen = [u \in Users |-> [s \in Settings |-> None]]
    /\ profile = <<>> /\ rule = <<>>
    /\ now = 1
    /\ writes = 0

\* The bound on all writes together; one that saves a row counts as two.
Spend(n) ==
    /\ writes + n <= MaxWrites
    /\ writes' = writes + n

Write == Spend(1)

-----------------------------------------------------------------------------
(* Establishments.                                                         *)

\* (mutant: the review survives the change)
Resaved_Reviewed(row, active) ==
    [row EXCEPT !.version = @ + 1, !.active = active,
                !.default = @ /\ active]

\* What saving makes of a row: any change of it invalidates the review, and
\* an inactive establishment is no default.
Resaved(row, active) ==
    [version |-> row.version + 1, active |-> active,
     default |-> row.default /\ active, review |-> "NOT_REVIEWED"]

SaveEstablishment(e, active) ==
    /\ Write
    /\ est' = [est EXCEPT ![e] = Resaved(@, active)]
    /\ UNCHANGED <<submitted, setting, seen, profile, rule, now>>

\* The default moves in one step: the others lose it.
SetDefault(e) ==
    /\ Write
    /\ Known(e) /\ est[e].active
    /\ est' = [x \in Establishments |-> [est[x] EXCEPT !.default = (x = e)]]
    /\ UNCHANGED <<submitted, setting, seen, profile, rule, now>>

SubmitEstablishment(e) ==
    /\ Write
    /\ Known(e)
    /\ est' = [est EXCEPT ![e].review = "PENDING_REVIEW"]
    /\ submitted' = [submitted EXCEPT ![e] = est[e].version]
    /\ UNCHANGED <<setting, seen, profile, rule, now>>

\* A verdict is on what is pending, whatever the accountant has on the page.
DecideEstablishment(e, verdict) ==
    /\ Write
    /\ Known(e) /\ est[e].review = "PENDING_REVIEW"
    /\ est' = [est EXCEPT ![e].review = verdict]
    /\ UNCHANGED <<submitted, setting, seen, profile, rule, now>>

-----------------------------------------------------------------------------
(* Number sequences.                                                       *)

\* A sequence is born inactive, with the first version of its number.
SaveSetting(s, e, n) ==
    /\ Write
    /\ setting[s].of = None
    /\ Known(e)
    /\ setting' = [setting EXCEPT ![s].of = e, ![s].next = n]
    /\ UNCHANGED <<est, submitted, seen, profile, rule, now>>

SettingActive(s, active) ==
    /\ Write
    /\ setting[s].of # None
    /\ active => est[setting[s].of].active
    /\ setting' = [setting EXCEPT ![s].active = active]
    /\ UNCHANGED <<est, submitted, seen, profile, rule, now>>

\* The page lists the sequence; the row stays on it until it is loaded again.
ListSettings(u) ==
    /\ seen' = [seen EXCEPT ![u] =
                  [s \in Settings |->
                     IF setting[s].of = None THEN None
                     ELSE [next |-> setting[s].next,
                           version |-> setting[s].version]]]
    /\ UNCHANGED <<est, submitted, setting, profile, rule, now, writes>>

\* (mutant: the version of the listed row is not compared)
Expected_Any(u, s) == TRUE

\* Is the correction still about the number that was read?
Expected(u, s) == seen[u][s].version = setting[s].version

\* The page asks for leave to go down only from the number that it lists.
AllowDecrease(u, s, n) == n < seen[u][s].next

\* A user corrects the number of the listed row.
ChangeNumber(u, s, n) ==
    /\ Write
    /\ seen[u][s] # None
    /\ Expected(u, s)
    /\ n >= setting[s].next \/ AllowDecrease(u, s, n)
    /\ setting' = [setting EXCEPT ![s].next = n, ![s].version = @ + 1,
                                  ![s].by = u]
    /\ UNCHANGED <<est, submitted, seen, profile, rule, now>>

-----------------------------------------------------------------------------
(* Profiles and rules: versions with a period.                             *)

\* A new version closes the one before it at its own beginning, or makes it
\* inactive when both begin on the same date.
Superseded(row, from) ==
    IF row.from < from THEN [row EXCEPT !.until = from, !.replaced = TRUE]
    ELSE [row EXCEPT !.active = FALSE, !.replaced = TRUE]

\* The active profiles that are not over when the new one begins.
Standing(from) ==
    {i \in DOMAIN profile : profile[i].active /\ profile[i].until > from}

SaveProfile(period) ==
    LET from == period[1] IN
    /\ Spend(2)
    /\ \A i \in Standing(from) : profile[i].from <= from
    /\ profile' = Append([i \in DOMAIN profile |->
                            IF i \in Standing(from)
                            THEN Superseded(profile[i], from)
                            ELSE profile[i]],
                         Row(ANY, period))
    /\ UNCHANGED <<est, submitted, setting, seen, rule, now>>

Meet(a, b) == a.from < b.until /\ b.from < a.until
SameScope(a, b) == a.scope = b.scope \/ ANY \in {a.scope, b.scope}

\* (mutant: the generic scope collides only with itself)
RuleConflict_Equal(rows, i, r) ==
    \E j \in DOMAIN rows \ {i} :
        rows[j].active /\ rows[j].scope = r.scope /\ Meet(rows[j], r)

\* Does an active row of rows, other than the i-th, collide with r?
RuleConflict(rows, i, r) ==
    \E j \in DOMAIN rows \ {i} :
        rows[j].active /\ SameScope(rows[j], r) /\ Meet(rows[j], r)

SaveRule(scope, period) ==
    LET r == Row(scope, period) IN
    /\ Spend(2)
    /\ \E e \in Establishments : Known(e)
    /\ ~RuleConflict(rule, 0, r)
    /\ rule' = Append(rule, r)
    /\ UNCHANGED <<est, submitted, setting, seen, profile, now>>

\* An edit of a rule saves a new row and closes the edited one; only the new
\* row is checked against the others.
ReviseRule(i, scope, period) ==
    LET r == Row(scope, period)
        closed == [rule EXCEPT ![i] = Superseded(@, r.from)] IN
    /\ Spend(2)
    /\ r.from >= rule[i].from
    /\ ~RuleConflict(closed, 0, r)
    /\ rule' = Append(closed, r)
    /\ UNCHANGED <<est, submitted, setting, seen, profile, now>>

RuleActive(i, active) ==
    /\ Write
    /\ active => ~RuleConflict(rule, i, rule[i])
    /\ rule' = [rule EXCEPT ![i].active = active,
                            ![i].review = "NOT_REVIEWED"]
    /\ UNCHANGED <<est, submitted, setting, seen, profile, now>>

-----------------------------------------------------------------------------
(* Reviews of profiles and rules.                                          *)

\* The newest of the active profiles whose period holds the present date.
CurrentProfiles ==
    {i \in DOMAIN profile : profile[i].active /\ profile[i].from <= now
                                              /\ now < profile[i].until}
IsCurrent(i) == i \in CurrentProfiles /\ \A j \in CurrentProfiles : j <= i

\* How a review moves: sent from anywhere, decided only while pending.
ReviewStep(old, new) ==
    \/ new = "PENDING_REVIEW"
    \/ old = "PENDING_REVIEW" /\ new \in Decisions

\* The requests name the product only: what is current then is reviewed.
ReviewProfile(i, review) ==
    /\ Write
    /\ IsCurrent(i)
    /\ ReviewStep(profile[i].review, review)
    /\ profile' = [profile EXCEPT ![i].review = review]
    /\ UNCHANGED <<est, submitted, setting, seen, rule, now>>

ReviewRule(i, review) ==
    /\ Write
    /\ ReviewStep(rule[i].review, review)
    /\ rule' = [rule EXCEPT ![i].review = review]
    /\ UNCHANGED <<est, submitted, setting, seen, profile, now>>

Tick ==
    /\ now < MaxTime
    /\ now' = now + 1
    /\ UNCHANGED <<est, submitted, setting, seen, profile, rule, writes>>

Next ==
    \/ \E e \in Establishments :
          \/ \E active \in (IF Known(e) THEN BOOLEAN ELSE {TRUE}) :
                SaveEstablishment(e, active)
          \/ SetDefault(e)
          \/ SubmitEstablishment(e)
          \/ \E verdict \in Decisions : DecideEstablishment(e, verdict)
    \/ \E s \in Settings :
          \/ \E e \in Establishments, n \in 1 .. MaxNumber : SaveSetting(s, e, n)
          \/ \E active \in BOOLEAN : SettingActive(s, active)
          \/ \E u \in Users, n \in 1 .. MaxNumber : ChangeNumber(u, s, n)
    \/ \E u \in Users : ListSettings(u)
    \/ \E period \in Periods :
          \/ SaveProfile(period)
          \/ \E scope \in Scopes : SaveRule(scope, period)
          \/ \E i \in DOMAIN rule, scope \in Scopes : ReviseRule(i, scope, period)
    \/ \E i \in DOMAIN rule, active \in BOOLEAN : RuleActive(i, active)
    \/ \E i \in DOMAIN rule, review \in Reviews : ReviewRule(i, review)
    \/ \E i \in DOMAIN profile, review \in Reviews : ReviewProfile(i, review)
    \/ Tick

Spec == Init /\ [][Next]_vars

-----------------------------------------------------------------------------
(* Readiness, as the pages show it.                                        *)

CompanyReady(e) ==
    /\ est[e].active
    /\ \E s \in Settings : setting[s].of = e /\ setting[s].active
    /\ est[e].review = "APPROVED"

ProductReady ==
    \E i \in DOMAIN profile : IsCurrent(i) /\ profile[i].review = "APPROVED"

\* The orders of the product are examined against the default establishment.
OrderReady(e) == est[e].default /\ est[e].active /\ CompanyReady(e) /\ ProductReady

-----------------------------------------------------------------------------
RowType ==
    [scope : Scopes, from : 1 .. MaxTime, until : 2 .. MaxTime + 1,
     active : BOOLEAN, review : Reviews, replaced : BOOLEAN]

\* Every variable keeps its type, no period is empty, and a row on a page is
\* one that the sequence really had: its version is not ahead of the row's.
TypeOK ==
    /\ est \in [Establishments ->
                  [version : 0 .. MaxWrites, active : BOOLEAN,
                   default : BOOLEAN, review : Reviews]]
    /\ submitted \in [Establishments -> 0 .. MaxWrites]
    /\ setting \in [Settings -> [of : Establishments \cup {None},
                                 active : BOOLEAN, next : 1 .. MaxNumber,
                                 version : 1 .. MaxWrites + 1,
                                 by : Users \cup {None}]]
    /\ profile \in Seq(RowType) /\ rule \in Seq(RowType)
    /\ \A i \in DOMAIN profile : profile[i].from < profile[i].until
    /\ \A i \in DOMAIN rule : rule[i].from < rule[i].until
    /\ \A u \in Users, s \in Settings :
          seen[u][s] # None => seen[u][s].version <= setting[s].version
    /\ now \in 1 .. MaxTime
    /\ writes \in 0 .. MaxWrites

\* On every date at most one active profile of the product is in force,
\* however versions, bounded periods and equal beginnings follow each other
\* (saveProfile): the exclusion constraint never has to refuse a save, and
\* the current profile never depends on an ordering.
OneProfilePerDate ==
    \A i, j \in DOMAIN profile :
        i # j /\ profile[i].active /\ profile[j].active
            => ~Meet(profile[i], profile[j])

\* What is shown as ready was reviewed as it is: the establishment has not
\* been saved since it was sent to the accountant (saveEstablishment, review,
\* validateCompany), and orders are ready for one establishment at most, an
\* active one (setDefault, validateOrder).
ReadyAsReviewed ==
    /\ \A e \in Establishments : CompanyReady(e) => submitted[e] = est[e].version
    /\ \A e, f \in Establishments : OrderReady(e) /\ OrderReady(f) => e = f
    /\ \A e \in Establishments : est[e].default => est[e].active

\* A number is replaced only by a user who had that very number on the page:
\* of two corrections sent from the same row one fails, and nobody lowers a
\* number without having seen it (changeNumber, FiscalPage).
NumberKnown ==
    [][\A s \in Settings :
          setting'[s].next # setting[s].next /\ setting[s].of # None
              => seen[setting'[s].by][s].next = setting[s].next]_vars

\* Two active rules that nobody has revised never apply to the same sale on
\* the same date (ruleConflict in saveRule and ruleActive).
UnrevisedRulesDisjoint ==
    \A i, j \in DOMAIN rule :
        /\ i # j
        /\ rule[i].active /\ rule[j].active
        /\ ~rule[i].replaced /\ ~rule[j].replaced
        /\ SameScope(rule[i], rule[j])
        => ~Meet(rule[i], rule[j])

\* A sale on any date finds one profile of its product, and one rule among
\* those that nobody has revised.
PeriodsDisjoint == OneProfilePerDate /\ UnrevisedRulesDisjoint

\* The same for every pair of active rules, as docs/fiscal-module.md:25 has
\* it.  It does not hold: the revision of a rule that had already ended moves
\* its end to the beginning of the new version, over the rules in between.
NoAmbiguousRules ==
    \A i, j \in DOMAIN rule :
        i # j /\ rule[i].active /\ rule[j].active /\ SameScope(rule[i], rule[j])
            => ~Meet(rule[i], rule[j])
=============================================================================
