---------------------------- MODULE FiscalProofs ----------------------------
(***************************************************************************)
(* Theorems about Fiscal, for every set of users, establishments,          *)
(* sequences and scopes, and every bound on dates, numbers and writes.     *)
(*                                                                         *)
(* Each part of the state has an invariant of its own, and a lemma says    *)
(* that every step preserves it.                                           *)
(***************************************************************************)
EXTENDS Fiscal, TLAPS, SequenceTheorems

ClockInv == now \in 1 .. MaxTime /\ writes \in 0 .. MaxWrites

\* A reviewed establishment is at the version that was sent; the default is
\* one, and active.
EstInv ==
  /\ est \in [Establishments ->
                [version : Nat, active : BOOLEAN,
                 default : BOOLEAN, review : Reviews]]
  /\ submitted \in [Establishments -> Nat]
  /\ \A e \in Establishments :
        /\ submitted[e] <= est[e].version /\ est[e].version <= writes
        /\ est[e].review # "NOT_REVIEWED" => submitted[e] = est[e].version
        /\ est[e].default => est[e].active
  /\ \A e, f \in Establishments : est[e].default /\ est[f].default => e = f

\* A listed row is an earlier state of its sequence, or the present one.
SettingInv ==
  /\ setting \in [Settings -> [of : Establishments \cup {None},
                               active : BOOLEAN, next : 1 .. MaxNumber,
                               version : Nat, by : Users \cup {None}]]
  /\ seen \in [Users -> [Settings -> {None} \cup [next : Nat, version : Nat]]]
  /\ \A s \in Settings :
        setting[s].version >= 1 /\ setting[s].version <= writes + 1
  /\ \A u \in Users, s \in Settings : seen[u][s] # None =>
        /\ setting[s].of # None
        /\ seen[u][s].version <= setting[s].version
        /\ seen[u][s].version = setting[s].version
              => seen[u][s].next = setting[s].next

\* A row of a profile or of a rule whose period is not empty.
Rows == {r \in RowType : r.from < r.until}

ProfileInv == profile \in Seq(Rows) /\ OneProfilePerDate

RuleInv == rule \in Seq(Rows) /\ UnrevisedRulesDisjoint

IInv == ClockInv /\ EstInv /\ SettingInv /\ ProfileInv /\ RuleInv

-----------------------------------------------------------------------------
(* Rows, and sequences of them.                                            *)

\* A new row has a period.
LEMMA NewRow ==
  ASSUME NEW scope \in Scopes, NEW period \in Periods
  PROVE  /\ Row(scope, period) \in Rows
         /\ Row(scope, period).from = period[1]
         /\ Row(scope, period).until = period[2]
         /\ Row(scope, period).scope = scope
BY FiscalAssumption DEF Row, Rows, RowType, Periods, Reviews

\* Superseding a row keeps its beginning and its scope, leaves no empty
\* period, and what stays active ends where the new version begins.
LEMMA SupersededRow ==
  ASSUME NEW r \in Rows, NEW from \in 1 .. MaxTime
  PROVE  /\ Superseded(r, from) \in Rows
         /\ Superseded(r, from).from = r.from
         /\ Superseded(r, from).scope = r.scope
         /\ Superseded(r, from).replaced
         /\ Superseded(r, from).active
               => r.active /\ Superseded(r, from).until = from
<1>1. /\ r = [scope |-> r.scope, from |-> r.from, until |-> r.until,
              active |-> r.active, review |-> r.review,
              replaced |-> r.replaced]
      /\ r \in RowType /\ r.from < r.until
      /\ r.from \in Nat /\ from \in Nat
  BY FiscalAssumption DEF Rows, RowType
<1>2. CASE r.from < from
  <2>1. Superseded(r, from) =
           [scope |-> r.scope, from |-> r.from, until |-> from,
            active |-> r.active, review |-> r.review, replaced |-> TRUE]
    BY <1>1, <1>2 DEF Superseded
  <2>2. from \in 2 .. MaxTime + 1
    BY <1>1, <1>2, FiscalAssumption DEF RowType
  <2>3. QED
    BY <1>1, <1>2, <2>1, <2>2 DEF Rows, RowType
<1>3. CASE ~(r.from < from)
  <2>1. Superseded(r, from) =
           [scope |-> r.scope, from |-> r.from, until |-> r.until,
            active |-> FALSE, review |-> r.review, replaced |-> TRUE]
    BY <1>1, <1>3 DEF Superseded
  <2>2. QED
    BY <1>1, <2>1 DEF Rows, RowType
<1>4. QED
  BY <1>2, <1>3

\* A sequence rewritten row by row, and extended by one row.
LEMMA Extended ==
  ASSUME NEW s \in Seq(Rows), NEW t, NEW r \in Rows,
         t \in [DOMAIN s -> Rows]
  PROVE  /\ t \in Seq(Rows)
         /\ Append(t, r) \in Seq(Rows)
         /\ DOMAIN Append(t, r) = DOMAIN s \cup {Len(s) + 1}
         /\ Len(s) + 1 \notin DOMAIN s
         /\ \A i \in DOMAIN s : Append(t, r)[i] = t[i]
         /\ Append(t, r)[Len(s) + 1] = r
<1>1. Len(s) \in Nat /\ DOMAIN s = 1 .. Len(s)
  BY LenProperties
<1>2. t \in Seq(Rows)
  BY <1>1, SeqDef
<1>3. Len(t) = Len(s)
  BY <1>1, <1>2, LenProperties
<1>4. /\ Append(t, r) \in Seq(Rows)
      /\ Len(Append(t, r)) = Len(t) + 1
      /\ \A i \in 1 .. Len(t) : Append(t, r)[i] = t[i]
      /\ Append(t, r)[Len(t) + 1] = r
  BY <1>2, AppendProperties
<1>5. DOMAIN Append(t, r) = 1 .. Len(s) + 1
  BY <1>3, <1>4, LenProperties
<1>6. 1 .. Len(s) + 1 = 1 .. Len(s) \cup {Len(s) + 1}
  BY <1>1
<1>7. QED
  BY <1>1, <1>2, <1>3, <1>4, <1>5, <1>6

\* One row of a sequence replaced.
LEMMA Replaced ==
  ASSUME NEW s \in Seq(Rows), NEW k \in DOMAIN s, NEW r \in Rows
  PROVE  /\ [s EXCEPT ![k] = r] \in Seq(Rows)
         /\ DOMAIN [s EXCEPT ![k] = r] = DOMAIN s
         /\ \A i \in DOMAIN s :
               [s EXCEPT ![k] = r][i] = IF i = k THEN r ELSE s[i]
<1>1. Len(s) \in Nat /\ DOMAIN s = 1 .. Len(s) /\ s \in [1 .. Len(s) -> Rows]
  BY LenProperties
<1>2. [s EXCEPT ![k] = r] \in [1 .. Len(s) -> Rows]
  BY <1>1
<1>3. [s EXCEPT ![k] = r] \in Seq(Rows)
  BY <1>1, <1>2, SeqDef
<1>4. QED
  BY <1>1, <1>3

\* The rows of a sequence.
LEMMA ARow ==
  ASSUME NEW s \in Seq(Rows), NEW i \in DOMAIN s
  PROVE  s[i] \in Rows /\ s[i].from \in Nat /\ s[i].until \in Nat
<1>1. s[i] \in Rows
  BY LenProperties
<1>2. QED
  BY <1>1, FiscalAssumption DEF Rows, RowType

-----------------------------------------------------------------------------
(* What a step leaves alone.                                               *)

\* The steps that change each part of the state; all others leave it alone.
EstStep ==
  \E e \in Establishments :
     \/ \E active \in BOOLEAN : SaveEstablishment(e, active)
     \/ SetDefault(e)
     \/ SubmitEstablishment(e)
     \/ \E verdict \in Decisions : DecideEstablishment(e, verdict)

SettingStep ==
  \/ \E s \in Settings :
        \/ \E e \in Establishments, n \in 1 .. MaxNumber : SaveSetting(s, e, n)
        \/ \E active \in BOOLEAN : SettingActive(s, active)
        \/ \E u \in Users, n \in 1 .. MaxNumber : ChangeNumber(u, s, n)
  \/ \E u \in Users : ListSettings(u)

ProfileStep ==
  \/ \E period \in Periods : SaveProfile(period)
  \/ \E i \in DOMAIN profile, review \in Reviews : ReviewProfile(i, review)

RuleStep ==
  \/ \E period \in Periods, scope \in Scopes :
        \/ SaveRule(scope, period)
        \/ \E i \in DOMAIN rule : ReviseRule(i, scope, period)
  \/ \E i \in DOMAIN rule, active \in BOOLEAN : RuleActive(i, active)
  \/ \E i \in DOMAIN rule, review \in Reviews : ReviewRule(i, review)

\* Every step is of one part, or of the clock.
LEMMA Steps ==
  ASSUME Next
  PROVE  EstStep \/ SettingStep \/ ProfileStep \/ RuleStep \/ Tick
<1>1. CASE \E e \in Establishments :
             \/ \E active \in (IF Known(e) THEN BOOLEAN ELSE {TRUE}) :
                   SaveEstablishment(e, active)
             \/ SetDefault(e)
             \/ SubmitEstablishment(e)
             \/ \E verdict \in Decisions : DecideEstablishment(e, verdict)
  <2>1. \A e \in Establishments :
           (IF Known(e) THEN BOOLEAN ELSE {TRUE}) \subseteq BOOLEAN
    OBVIOUS
  <2>2. EstStep
    BY <1>1, <2>1 DEF EstStep
  <2>3. QED
    BY <2>2
<1>2. CASE ~ \E e \in Establishments :
             \/ \E active \in (IF Known(e) THEN BOOLEAN ELSE {TRUE}) :
                   SaveEstablishment(e, active)
             \/ SetDefault(e)
             \/ SubmitEstablishment(e)
             \/ \E verdict \in Decisions : DecideEstablishment(e, verdict)
  <2>1. SettingStep \/ ProfileStep \/ RuleStep \/ Tick
    BY <1>2 DEF Next, SettingStep, ProfileStep, RuleStep
  <2>2. QED
    BY <2>1
<1>3. QED
  BY <1>1, <1>2

\* Each part changes only in its own steps.
LEMMA Frames ==
  ASSUME [Next]_vars
  PROVE  /\ EstStep \/ UNCHANGED <<est, submitted>>
         /\ SettingStep \/ UNCHANGED <<setting, seen>>
         /\ ProfileStep \/ UNCHANGED profile
         /\ RuleStep \/ UNCHANGED rule
<1>1. CASE EstStep
  <2>1. UNCHANGED <<setting, seen, profile, rule>>
    BY <1>1 DEF EstStep, SaveEstablishment, SetDefault, SubmitEstablishment,
                DecideEstablishment
  <2>2. QED
    BY <1>1, <2>1
<1>2. CASE SettingStep
  <2>1. UNCHANGED <<est, submitted, profile, rule>>
    BY <1>2 DEF SettingStep, SaveSetting, SettingActive, ChangeNumber,
                ListSettings
  <2>2. QED
    BY <1>2, <2>1
<1>3. CASE ProfileStep
  <2>1. UNCHANGED <<est, submitted, setting, seen, rule>>
    BY <1>3 DEF ProfileStep, SaveProfile, ReviewProfile
  <2>2. QED
    BY <1>3, <2>1
<1>4. CASE RuleStep
  <2>1. UNCHANGED <<est, submitted, setting, seen, profile>>
    BY <1>4 DEF RuleStep, SaveRule, ReviseRule, RuleActive, ReviewRule
  <2>2. QED
    BY <1>4, <2>1
<1>5. CASE Tick
  BY <1>5 DEF Tick
<1>6. CASE UNCHANGED vars
  BY <1>6 DEF vars
<1>7. QED
  BY <1>1, <1>2, <1>3, <1>4, <1>5, <1>6, Steps

\* The clock stays within its bounds, and writes are only added.
LEMMA ClockStep ==
  ASSUME ClockInv, [Next]_vars
  PROVE  ClockInv' /\ writes <= writes'
<1> DEFINE Spent == /\ writes' = writes + 1 \/ writes' = writes + 2
                    /\ writes' <= MaxWrites
                    /\ now' = now
<1> USE DEF Write, Spend
<1>1. EstStep => Spent
  BY DEF EstStep, SaveEstablishment, SetDefault, SubmitEstablishment,
         DecideEstablishment
<1>2. SettingStep => Spent \/ UNCHANGED <<now, writes>>
  BY DEF SettingStep, SaveSetting, SettingActive, ChangeNumber, ListSettings
<1>3. ProfileStep => Spent
  BY DEF ProfileStep, SaveProfile, ReviewProfile
<1>4. RuleStep => Spent
  BY DEF RuleStep, SaveRule, ReviseRule, RuleActive, ReviewRule
<1>5. Tick => now < MaxTime /\ now' = now + 1 /\ writes' = writes
  BY DEF Tick
<1>6. UNCHANGED vars => UNCHANGED <<now, writes>>
  BY DEF vars
<1>7. \/ Spent \/ UNCHANGED <<now, writes>>
      \/ now < MaxTime /\ now' = now + 1 /\ writes' = writes
  BY <1>1, <1>2, <1>3, <1>4, <1>5, <1>6, Steps
<1>8. QED
  BY <1>7, FiscalAssumption DEF ClockInv

-----------------------------------------------------------------------------
(* Each part keeps its invariant.                                          *)

\* The establishments and their reviews.
LEMMA EstKept ==
  ASSUME IInv, [Next]_vars
  PROVE  EstInv'
<1>t. EstInv /\ writes \in Nat /\ writes' \in Nat /\ writes <= writes'
  BY ClockStep, FiscalAssumption DEF IInv, ClockInv
<1>1. CASE UNCHANGED <<est, submitted>>
  BY <1>t, <1>1 DEF EstInv
<1>2. ASSUME NEW e \in Establishments, NEW active \in BOOLEAN,
             SaveEstablishment(e, active)
      PROVE  EstInv'
  <2>1. /\ est' = [est EXCEPT ![e] = Resaved(est[e], active)]
        /\ submitted' = submitted /\ writes' = writes + 1
    BY <1>2 DEF SaveEstablishment, Write, Spend
  <2>2. est[e].version \in Nat /\ est[e].default \in BOOLEAN
    BY <1>t DEF EstInv
  <2>3. /\ Resaved(est[e], active) \in
              [version : Nat, active : BOOLEAN,
               default : BOOLEAN, review : Reviews]
        /\ Resaved(est[e], active).version = est[e].version + 1
        /\ Resaved(est[e], active).review = "NOT_REVIEWED"
    BY <2>2 DEF Resaved, Reviews
  <2>4. Resaved(est[e], active).default
           => est[e].default /\ Resaved(est[e], active).active
    BY DEF Resaved
  <2>5. QED
    BY <1>t, <2>1, <2>3, <2>4 DEF EstInv
<1>3. ASSUME NEW e \in Establishments, SetDefault(e)
      PROVE  EstInv'
  <2>1. /\ est' = [x \in Establishments |->
                     [est[x] EXCEPT !.default = (x = e)]]
        /\ submitted' = submitted /\ est[e].active
    BY <1>3 DEF SetDefault
  <2>2. QED
    BY <1>t, <2>1 DEF EstInv
<1>4. ASSUME NEW e \in Establishments, NEW review \in Reviews,
             est' = [est EXCEPT ![e].review = review],
             \/ submitted' = [submitted EXCEPT ![e] = est[e].version]
             \/ submitted' = submitted /\ est[e].review # "NOT_REVIEWED"
      PROVE  EstInv'
  BY <1>t, <1>4 DEF EstInv
<1>5. QED
  <2>1. CASE \E e \in Establishments : SubmitEstablishment(e)
    BY <2>1, <1>4 DEF SubmitEstablishment, Reviews
  <2>2. CASE \E e \in Establishments, verdict \in Decisions :
                DecideEstablishment(e, verdict)
    BY <2>2, <1>4 DEF DecideEstablishment, Decisions, Reviews
  <2>3. QED
    BY <1>1, <1>2, <1>3, <2>1, <2>2, Frames DEF EstStep

\* The sequences and the rows of them on the pages.
LEMMA SettingKept ==
  ASSUME IInv, [Next]_vars
  PROVE  SettingInv'
<1> DEFINE Fields == [of : Establishments \cup {None}, active : BOOLEAN,
                      next : 1 .. MaxNumber, version : Nat,
                      by : Users \cup {None}]
<1>t. SettingInv /\ writes \in Nat /\ writes' \in Nat /\ writes <= writes'
  BY ClockStep, FiscalAssumption DEF IInv, ClockInv
<1>1. CASE UNCHANGED <<setting, seen>>
  BY <1>t, <1>1 DEF SettingInv
\* A sequence gets a row that has the same number at the same version.
<1>2. ASSUME NEW s \in Settings, seen' = seen,
             setting' \in [Settings -> Fields],
             \A x \in Settings \ {s} : setting'[x] = setting[x],
             setting'[s].version <= writes' + 1, setting'[s].of # None,
             \/ setting[s].of = None
                /\ setting'[s].version = setting[s].version
             \/ /\ setting'[s].version = setting[s].version
                /\ setting'[s].next = setting[s].next
             \/ setting'[s].version = setting[s].version + 1
      PROVE  SettingInv'
  <2>1. /\ setting[s].version \in Nat /\ setting[s].version >= 1
        /\ setting'[s].version \in Nat
    BY <1>t, <1>2 DEF SettingInv
  <2>2. ASSUME NEW x \in Settings
        PROVE  setting'[x].version >= 1 /\ setting'[x].version <= writes' + 1
    <3>1. CASE x = s
      BY <1>2, <2>1, <3>1
    <3>2. CASE x # s
      BY <1>t, <1>2, <3>2 DEF SettingInv
    <3>3. QED
      BY <3>1, <3>2
  <2>3. ASSUME NEW u \in Users, NEW x \in Settings, seen'[u][x] # None
        PROVE  /\ setting'[x].of # None
               /\ seen'[u][x].version <= setting'[x].version
               /\ seen'[u][x].version = setting'[x].version
                     => seen'[u][x].next = setting'[x].next
    <3>1. seen'[u][x] = seen[u][x] /\ seen[u][x] # None
      BY <1>2, <2>3
    <3>2. seen[u][x] \in [next : Nat, version : Nat]
      BY <1>t, <3>1 DEF SettingInv
    <3>3. /\ setting[x].of # None
          /\ seen[u][x].version <= setting[x].version
          /\ seen[u][x].version = setting[x].version
                => seen[u][x].next = setting[x].next
          /\ seen[u][x].version \in Nat
      BY <1>t, <3>1, <3>2 DEF SettingInv
    <3>4. CASE x = s
      BY <1>2, <2>1, <3>1, <3>3, <3>4
    <3>5. CASE x # s
      BY <1>2, <3>1, <3>3, <3>5
    <3>6. QED
      BY <3>4, <3>5
  <2>4. seen' \in [Users -> [Settings ->
                     {None} \cup [next : Nat, version : Nat]]]
    BY <1>t, <1>2 DEF SettingInv
  <2>5. QED
    BY <1>2, <2>2, <2>3, <2>4 DEF SettingInv
<1>3. setting \in [Settings -> Fields]
  BY <1>t DEF SettingInv
<1>v. \A s \in Settings : /\ setting[s].version \in Nat
                         /\ setting[s].version <= writes + 1
  BY <1>t DEF SettingInv
<1>4. ASSUME NEW s \in Settings, NEW e \in Establishments,
             NEW n \in 1 .. MaxNumber, SaveSetting(s, e, n)
      PROVE  SettingInv'
  <2>1. /\ setting' = [setting EXCEPT ![s].of = e, ![s].next = n]
        /\ seen' = seen /\ setting[s].of = None
    BY <1>4 DEF SaveSetting
  <2>2. e # None
    BY FiscalAssumption
  <2>3. /\ setting' \in [Settings -> Fields]
        /\ \A x \in Settings \ {s} : setting'[x] = setting[x]
        /\ setting'[s].of = e
        /\ setting'[s].version = setting[s].version
    BY ZenonT(30), <1>3, <2>1
  <2>4. setting'[s].version <= writes' + 1
    BY <1>t, <1>v, <2>3
  <2>5. QED
    BY <1>2, <2>1, <2>2, <2>3, <2>4
<1>5. ASSUME NEW s \in Settings, NEW active \in BOOLEAN,
             SettingActive(s, active)
      PROVE  SettingInv'
  <2>1. /\ setting' = [setting EXCEPT ![s].active = active]
        /\ seen' = seen /\ setting[s].of # None
    BY <1>5 DEF SettingActive
  <2>2. /\ setting' \in [Settings -> Fields]
        /\ \A x \in Settings \ {s} : setting'[x] = setting[x]
        /\ setting'[s].of = setting[s].of
        /\ setting'[s].version = setting[s].version
        /\ setting'[s].next = setting[s].next
    BY <1>3, <2>1
  <2>3. setting'[s].version <= writes' + 1
    BY <1>t, <1>v, <2>2
  <2>4. QED
    BY <1>2, <2>1, <2>2, <2>3
<1>6. ASSUME NEW s \in Settings, NEW u \in Users, NEW n \in 1 .. MaxNumber,
             ChangeNumber(u, s, n)
      PROVE  SettingInv'
  <2>1. /\ setting' = [setting EXCEPT ![s].next = n, ![s].version = @ + 1,
                                      ![s].by = u]
        /\ seen' = seen /\ seen[u][s] # None /\ Write
    BY <1>6 DEF ChangeNumber
  <2>2. setting[s].of # None /\ writes' = writes + 1
    BY <1>t, <2>1 DEF SettingInv, Write, Spend
  <2>3. /\ setting' \in [Settings -> Fields]
        /\ \A x \in Settings \ {s} : setting'[x] = setting[x]
        /\ setting'[s].of = setting[s].of
        /\ setting'[s].version = setting[s].version + 1
    BY <1>3, <1>v, <2>1
  <2>4. setting'[s].version <= writes' + 1
    BY <1>t, <1>v, <2>2, <2>3
  <2>5. QED
    BY <1>2, <2>1, <2>2, <2>3, <2>4
<1>7. ASSUME NEW u \in Users, ListSettings(u)
      PROVE  SettingInv'
  <2> DEFINE page == [s \in Settings |->
                        IF setting[s].of = None THEN None
                        ELSE [next |-> setting[s].next,
                              version |-> setting[s].version]]
  <2>1. seen' = [seen EXCEPT ![u] = page] /\ setting' = setting
        /\ writes' = writes
    <3>1. seen' = [seen EXCEPT ![u] = page]
      BY <1>7 DEF ListSettings
    <3>2. UNCHANGED <<setting, writes>>
      BY <1>7 DEF ListSettings
    <3>3. QED
      BY <3>1, <3>2
  <2>2. page \in [Settings -> {None} \cup [next : Nat, version : Nat]]
    <3>1. \A s \in Settings : setting[s].next \in Nat
      BY <1>3
    <3>2. QED
      BY <1>v, <3>1
  <2>3. \A s \in Settings : page[s] # None =>
           /\ setting[s].of # None
           /\ page[s].version = setting[s].version
           /\ page[s].next = setting[s].next
    OBVIOUS
  <2>4. \A s \in Settings : setting[s].version \in Nat
    BY <1>v
  <2> HIDE DEF page
  <2>5. seen' \in [Users -> [Settings ->
                     {None} \cup [next : Nat, version : Nat]]]
    BY <1>t, <2>1, <2>2 DEF SettingInv
  <2>6. ASSUME NEW v \in Users, NEW s \in Settings, seen'[v][s] # None
        PROVE  /\ setting[s].of # None
               /\ seen'[v][s].version <= setting[s].version
               /\ seen'[v][s].version = setting[s].version
                     => seen'[v][s].next = setting[s].next
    <3>1. CASE v = u
      <4>1. seen'[v][s] = page[s]
        BY <1>t, <2>1, <3>1 DEF SettingInv
      <4>2. QED
        BY <2>3, <2>4, <2>6, <4>1
    <3>2. CASE v # u
      <4>1. seen'[v][s] = seen[v][s]
        BY <1>t, <2>1, <3>2 DEF SettingInv
      <4>2. QED
        BY <1>t, <2>6, <4>1 DEF SettingInv
    <3>3. QED
      BY <3>1, <3>2
  <2>7. QED
    BY <1>t, <2>1, <2>5, <2>6 DEF SettingInv
<1>8. QED
  BY <1>1, <1>4, <1>5, <1>6, <1>7, Frames DEF SettingStep

\* The profiles: the new one begins where those it supersedes end.
LEMMA ProfileKept ==
  ASSUME IInv, [Next]_vars
  PROVE  ProfileInv'
<1>t. profile \in Seq(Rows) /\ OneProfilePerDate
  BY DEF IInv, ProfileInv
<1>1. CASE UNCHANGED profile
  BY <1>t, <1>1 DEF ProfileInv, OneProfilePerDate
<1>2. ASSUME NEW period \in Periods, SaveProfile(period)
      PROVE  ProfileInv'
  <2> DEFINE from == period[1]
             S == Standing(from)
             r == Row(ANY, period)
             t == [i \in DOMAIN profile |->
                     IF i \in S THEN Superseded(profile[i], from)
                     ELSE profile[i]]
             n == Len(profile) + 1
  <2>1. profile' = Append(t, r)
    BY <1>2 DEF SaveProfile
  <2>2. /\ r \in Rows /\ r.from = from /\ from \in 1 .. MaxTime
        /\ from \in Nat
    BY NewRow, FiscalAssumption DEF Periods
  <2>3. \A i \in DOMAIN profile :
           /\ t[i] \in Rows /\ t[i].from = profile[i].from
           /\ t[i].active => /\ profile[i].active
                             /\ t[i].until <= profile[i].until
                             /\ t[i].until <= from
    <3>1. ASSUME NEW i \in DOMAIN profile
          PROVE  /\ t[i] \in Rows /\ t[i].from = profile[i].from
                 /\ t[i].active => /\ profile[i].active
                                   /\ t[i].until <= profile[i].until
                                   /\ t[i].until <= from
      <4>1. profile[i] \in Rows /\ profile[i].until \in Nat
        BY <1>t, ARow
      <4>2. CASE i \in S
        <5>1. profile[i].until > from
          BY <4>2 DEF Standing
        <5>2. t[i] = Superseded(profile[i], from)
          BY <4>2
        <5>3. QED
          BY <2>2, <4>1, <5>1, <5>2, SupersededRow
      <4>3. CASE i \notin S
        <5>1. t[i] = profile[i]
          BY <4>3
        <5>2. profile[i].active => ~(profile[i].until > from)
          BY <4>3 DEF Standing
        <5>3. QED
          BY <2>2, <4>1, <5>1, <5>2
      <4>4. QED
        BY <4>2, <4>3
    <3>2. QED
      BY <3>1
  <2>4. t \in [DOMAIN profile -> Rows]
    BY <2>3
  <2> HIDE DEF t, r, from, S
  <2>5. /\ profile' \in Seq(Rows)
        /\ DOMAIN profile' = DOMAIN profile \cup {n}
        /\ n \notin DOMAIN profile
        /\ \A i \in DOMAIN profile : profile'[i] = t[i]
        /\ profile'[n] = r
    BY <1>t, <2>1, <2>2, <2>4, Extended
  <2> HIDE DEF n
  <2>6. ASSUME NEW i \in DOMAIN profile', NEW j \in DOMAIN profile', i # j,
               profile'[i].active, profile'[j].active
        PROVE  ~Meet(profile'[i], profile'[j])
    <3>1. /\ profile'[i].from \in Nat /\ profile'[i].until \in Nat
          /\ profile'[j].from \in Nat /\ profile'[j].until \in Nat
      BY <2>5, ARow
    <3>2. CASE i = n
      <4>1. profile'[j].until <= from /\ profile'[i].from = from
        BY <2>2, <2>3, <2>5, <2>6, <3>2
      <4>2. QED
        BY <2>2, <3>1, <4>1 DEF Meet
    <3>3. CASE j = n
      <4>1. profile'[i].until <= from /\ profile'[j].from = from
        BY <2>2, <2>3, <2>5, <2>6, <3>3
      <4>2. QED
        BY <2>2, <3>1, <4>1 DEF Meet
    <3>4. CASE i # n /\ j # n
      <4>1. i \in DOMAIN profile /\ j \in DOMAIN profile
        BY <2>5, <3>4
      <4>2. /\ profile[i].active /\ profile'[i].from = profile[i].from
            /\ profile'[i].until <= profile[i].until
            /\ profile[j].active /\ profile'[j].from = profile[j].from
            /\ profile'[j].until <= profile[j].until
        BY <2>3, <2>5, <2>6, <4>1
      <4>3. ~Meet(profile[i], profile[j])
        BY <1>t, <2>6, <4>1, <4>2 DEF OneProfilePerDate
      <4>4. profile[i].until \in Nat /\ profile[j].until \in Nat
        BY <1>t, <4>1, ARow
      <4>5. QED
        BY <3>1, <4>2, <4>3, <4>4 DEF Meet
    <3>5. QED
      BY <3>2, <3>3, <3>4
  <2>7. QED
    BY <2>5, <2>6 DEF ProfileInv, OneProfilePerDate
<1>3. ASSUME NEW k \in DOMAIN profile, NEW review \in Reviews,
             ReviewProfile(k, review)
      PROVE  ProfileInv'
  <2> DEFINE r == [profile[k] EXCEPT !.review = review]
  <2>1. profile' = [profile EXCEPT ![k] = r]
    BY <1>3 DEF ReviewProfile
  <2>2. /\ r \in Rows /\ r.from = profile[k].from
        /\ r.until = profile[k].until /\ r.active = profile[k].active
    <3>1. profile[k] \in Rows
      BY <1>t, ARow
    <3>2. QED
      BY <3>1 DEF Rows, RowType
  <2> HIDE DEF r
  <2>3. /\ profile' \in Seq(Rows) /\ DOMAIN profile' = DOMAIN profile
        /\ \A i \in DOMAIN profile :
              profile'[i] = IF i = k THEN r ELSE profile[i]
    BY <1>t, <2>1, <2>2, Replaced
  <2>4. \A i \in DOMAIN profile :
           /\ profile'[i].from = profile[i].from
           /\ profile'[i].until = profile[i].until
           /\ profile'[i].active = profile[i].active
    BY <2>2, <2>3
  <2>5. QED
    BY <1>t, <2>3, <2>4 DEF ProfileInv, OneProfilePerDate, Meet
<1>4. QED
  BY <1>1, <1>2, <1>3, Frames DEF ProfileStep

-----------------------------------------------------------------------------
(* Rules.                                                                  *)

\* A rule that has no conflict may join the others.
LEMMA RuleJoins ==
  ASSUME UnrevisedRulesDisjoint, NEW t \in Seq(Rows), NEW r \in Rows,
         DOMAIN t = DOMAIN rule,
         \A i \in DOMAIN rule :
            t[i] = rule[i] \/ t[i].replaced,
         ~RuleConflict(t, 0, r), rule' = Append(t, r)
  PROVE  RuleInv'
<1> DEFINE n == Len(t) + 1
<1>1. t \in [DOMAIN t -> Rows]
  BY LenProperties
<1>2. /\ rule' \in Seq(Rows) /\ DOMAIN rule' = DOMAIN t \cup {n}
      /\ \A i \in DOMAIN t : rule'[i] = t[i]
      /\ rule'[n] = r
  BY <1>1, Extended
<1>3. 0 \notin DOMAIN t
  BY LenProperties
<1> HIDE DEF n
<1>4. \A j \in DOMAIN t :
         t[j].active /\ SameScope(t[j], r) => ~Meet(t[j], r) /\ ~Meet(r, t[j])
  BY <1>3 DEF RuleConflict, Meet
<1>5. ASSUME NEW i \in DOMAIN rule', NEW j \in DOMAIN rule', i # j,
             rule'[i].active, rule'[j].active,
             ~rule'[i].replaced, ~rule'[j].replaced,
             SameScope(rule'[i], rule'[j])
      PROVE  ~Meet(rule'[i], rule'[j])
  <2>1. CASE i = n
    <3>1. SameScope(rule'[j], r)
      BY <1>2, <1>5, <2>1 DEF SameScope
    <3>2. QED
      BY <1>2, <1>4, <1>5, <2>1, <3>1
  <2>2. CASE j = n
    BY <1>2, <1>4, <1>5, <2>2
  <2>3. CASE i # n /\ j # n
    <3>1. /\ i \in DOMAIN rule /\ rule'[i] = rule[i]
          /\ j \in DOMAIN rule /\ rule'[j] = rule[j]
      BY <1>2, <1>5, <2>3
    <3>2. QED
      BY <1>5, <3>1 DEF UnrevisedRulesDisjoint
  <2>4. QED
    BY <2>1, <2>2, <2>3
<1>6. QED
  BY <1>2, <1>5 DEF RuleInv, UnrevisedRulesDisjoint

\* The tax rules.
LEMMA RuleKept ==
  ASSUME IInv, [Next]_vars
  PROVE  RuleInv'
<1>t. rule \in Seq(Rows) /\ UnrevisedRulesDisjoint
  BY DEF IInv, RuleInv
<1>1. CASE UNCHANGED rule
  BY <1>t, <1>1 DEF RuleInv, UnrevisedRulesDisjoint
<1>2. ASSUME NEW scope \in Scopes, NEW period \in Periods,
             SaveRule(scope, period)
      PROVE  RuleInv'
  <2>1. Row(scope, period) \in Rows
    BY NewRow
  <2>2. /\ rule' = Append(rule, Row(scope, period))
        /\ ~RuleConflict(rule, 0, Row(scope, period))
    BY <1>2 DEF SaveRule
  <2>3. QED
    BY <1>t, <2>1, <2>2, RuleJoins
<1>3. ASSUME NEW k \in DOMAIN rule, NEW scope \in Scopes,
             NEW period \in Periods, ReviseRule(k, scope, period)
      PROVE  RuleInv'
  <2> DEFINE r == Row(scope, period)
             old == Superseded(rule[k], r.from)
             closed == [rule EXCEPT ![k] = old]
  <2>1. rule' = Append(closed, r) /\ ~RuleConflict(closed, 0, r)
    BY <1>3 DEF ReviseRule
  <2>2. r \in Rows /\ r.from \in 1 .. MaxTime
    BY NewRow DEF Periods
  <2>3. rule[k] \in Rows
    BY <1>t, ARow
  <2>4. old \in Rows /\ old.replaced
    BY <2>2, <2>3, SupersededRow
  <2> HIDE DEF old, r
  <2>5. /\ closed \in Seq(Rows) /\ DOMAIN closed = DOMAIN rule
        /\ \A i \in DOMAIN rule : closed[i] = IF i = k THEN old ELSE rule[i]
    BY <1>t, <2>4, Replaced
  <2> HIDE DEF closed
  <2>6. \A i \in DOMAIN rule : closed[i] = rule[i] \/ closed[i].replaced
    BY <2>4, <2>5
  <2>7. QED
    BY <1>t, <2>1, <2>2, <2>5, <2>6, RuleJoins
\* A row changes, not in what it applies to; if active, without a conflict.
<1>4. ASSUME NEW k \in DOMAIN rule, NEW r \in Rows,
             rule' = [rule EXCEPT ![k] = r],
             r.scope = rule[k].scope, r.from = rule[k].from,
             r.until = rule[k].until, r.replaced = rule[k].replaced,
             r.active => rule[k].active \/ ~RuleConflict(rule, k, rule[k])
      PROVE  RuleInv'
  <2>1. /\ rule' \in Seq(Rows) /\ DOMAIN rule' = DOMAIN rule
        /\ \A i \in DOMAIN rule : rule'[i] = IF i = k THEN r ELSE rule[i]
    BY <1>t, <1>4, Replaced
  <2>2. \A i \in DOMAIN rule :
           /\ rule'[i].scope = rule[i].scope /\ rule'[i].from = rule[i].from
           /\ rule'[i].until = rule[i].until
           /\ rule'[i].replaced = rule[i].replaced
           /\ i # k => rule'[i].active = rule[i].active
    BY <1>4, <2>1
  <2>3. ASSUME NEW i \in DOMAIN rule, NEW j \in DOMAIN rule, i # j,
               rule'[i].active, rule'[j].active,
               ~rule[i].replaced, ~rule[j].replaced,
               SameScope(rule[i], rule[j])
        PROVE  ~Meet(rule[i], rule[j])
    <3>1. CASE rule[i].active /\ rule[j].active
      BY <1>t, <2>3, <3>1 DEF UnrevisedRulesDisjoint
    <3>2. CASE ~rule[i].active
      <4>1. i = k /\ rule[j].active /\ ~RuleConflict(rule, k, rule[k])
        BY <1>4, <2>1, <2>2, <2>3, <3>2
      <4>2. SameScope(rule[j], rule[k])
        BY <2>3, <4>1 DEF SameScope
      <4>3. QED
        BY <2>3, <4>1, <4>2 DEF RuleConflict, Meet
    <3>3. CASE ~rule[j].active
      <4>1. j = k /\ rule[i].active /\ ~RuleConflict(rule, k, rule[k])
        BY <1>4, <2>1, <2>2, <2>3, <3>3
      <4>2. QED
        BY <2>3, <4>1 DEF RuleConflict
    <3>4. QED
      BY <3>1, <3>2, <3>3
  <2>4. \A i, j \in DOMAIN rule :
           /\ SameScope(rule'[i], rule'[j]) <=> SameScope(rule[i], rule[j])
           /\ Meet(rule'[i], rule'[j]) <=> Meet(rule[i], rule[j])
    BY <2>2 DEF SameScope, Meet
  <2>5. UnrevisedRulesDisjoint'
    BY <2>1, <2>2, <2>3, <2>4 DEF UnrevisedRulesDisjoint
  <2>6. QED
    BY <2>1, <2>5 DEF RuleInv
<1>5. ASSUME NEW k \in DOMAIN rule, NEW active \in BOOLEAN,
             RuleActive(k, active)
      PROVE  RuleInv'
  <2> DEFINE r == [rule[k] EXCEPT !.active = active,
                                  !.review = "NOT_REVIEWED"]
  <2>1. rule[k] \in Rows
    BY <1>t, ARow
  <2>2. /\ r \in Rows /\ r.scope = rule[k].scope /\ r.from = rule[k].from
        /\ r.until = rule[k].until /\ r.replaced = rule[k].replaced
        /\ r.active = active
    BY <2>1 DEF Rows, RowType, Reviews
  <2>3. active => ~RuleConflict(rule, k, rule[k])
    BY <1>5 DEF RuleActive
  <2>4. rule' = [rule EXCEPT ![k].active = active,
                             ![k].review = "NOT_REVIEWED"]
    BY <1>5 DEF RuleActive
  <2>5. rule' = [rule EXCEPT ![k] = r]
    BY <1>t, <2>4, LenProperties
  <2> HIDE DEF r
  <2>6. QED
    BY <1>4, <2>2, <2>3, <2>5
<1>6. ASSUME NEW k \in DOMAIN rule, NEW review \in Reviews,
             ReviewRule(k, review)
      PROVE  RuleInv'
  <2> DEFINE r == [rule[k] EXCEPT !.review = review]
  <2>1. rule[k] \in Rows
    BY <1>t, ARow
  <2>2. /\ r \in Rows /\ r.scope = rule[k].scope /\ r.from = rule[k].from
        /\ r.until = rule[k].until /\ r.replaced = rule[k].replaced
        /\ r.active = rule[k].active
    BY <2>1 DEF Rows, RowType
  <2>3. rule' = [rule EXCEPT ![k] = r]
    BY <1>6 DEF ReviewRule
  <2> HIDE DEF r
  <2>4. QED
    BY <1>4, <2>2, <2>3
<1>7. QED
  BY <1>1, <1>2, <1>3, <1>5, <1>6, Frames DEF RuleStep

-----------------------------------------------------------------------------
(* The theorems.                                                           *)

\* Every step keeps the invariant.
LEMMA Inductive == IInv /\ [Next]_vars => IInv'
<1> SUFFICES ASSUME IInv, [Next]_vars
             PROVE  IInv'
  OBVIOUS
<1>1. ClockInv'
  BY ClockStep DEF IInv
<1>2. QED
  BY <1>1, EstKept, SettingKept, ProfileKept, RuleKept DEF IInv

\* The company starts without fiscal settings.
LEMMA Initially == Init => IInv
<1> SUFFICES ASSUME Init
             PROVE  IInv
  OBVIOUS
<1> USE FiscalAssumption DEF Init
<1>1. ClockInv
  BY DEF ClockInv
<1>2. EstInv
  BY DEF EstInv, Reviews
<1>3. SettingInv
  BY DEF SettingInv
<1>4. <<>> \in Seq(Rows) /\ DOMAIN <<>> = {}
  BY EmptySeq
<1>5. ProfileInv /\ RuleInv
  BY <1>4 DEF ProfileInv, RuleInv, OneProfilePerDate, UnrevisedRulesDisjoint
<1>6. QED
  BY <1>1, <1>2, <1>3, <1>5 DEF IInv

LEMMA Invariant == Spec => []IInv
BY Initially, Inductive, PTL DEF Spec

\* Every variable keeps its type, no period is empty, and no page is ahead of
\* the sequence it lists (SaveProfile, ChangeNumber).
THEOREM TypeCorrect == Spec => []TypeOK
<1>1. ASSUME IInv
      PROVE  TypeOK
  <2>t. ClockInv /\ EstInv /\ SettingInv /\ writes <= MaxWrites
        /\ writes \in Nat
    BY <1>1, FiscalAssumption DEF IInv, ClockInv
  <2>1. /\ est \in [Establishments ->
                      [version : 0 .. MaxWrites, active : BOOLEAN,
                       default : BOOLEAN, review : Reviews]]
        /\ submitted \in [Establishments -> 0 .. MaxWrites]
    <3>1. ASSUME NEW e \in Establishments
          PROVE  est[e].version \in 0 .. MaxWrites
                 /\ submitted[e] \in 0 .. MaxWrites
      BY <2>t, FiscalAssumption DEF EstInv
    <3>2. QED
      BY <2>t, <3>1 DEF EstInv
  <2>2. setting \in [Settings -> [of : Establishments \cup {None},
                                 active : BOOLEAN, next : 1 .. MaxNumber,
                                 version : 1 .. MaxWrites + 1,
                                 by : Users \cup {None}]]
    <3>1. ASSUME NEW s \in Settings
          PROVE  setting[s].version \in 1 .. MaxWrites + 1
      BY <2>t, FiscalAssumption DEF SettingInv
    <3>2. QED
      BY <2>t, <3>1 DEF SettingInv
  <2>3. ASSUME NEW t \in Seq(Rows)
        PROVE  t \in Seq(RowType) /\ \A i \in DOMAIN t : t[i].from < t[i].until
    <3>1. Len(t) \in Nat /\ t \in [1 .. Len(t) -> Rows]
          /\ DOMAIN t = 1 .. Len(t)
      BY LenProperties
    <3>2. t \in [1 .. Len(t) -> RowType]
      BY <3>1 DEF Rows
    <3>3. t \in Seq(RowType)
      BY <3>1, <3>2, SeqDef
    <3>4. QED
      BY <3>1, <3>3 DEF Rows
  <2>4. \A u \in Users, s \in Settings :
           seen[u][s] # None => seen[u][s].version <= setting[s].version
    BY <2>t DEF SettingInv
  <2>5. now \in 1 .. MaxTime /\ writes \in 0 .. MaxWrites
    BY <2>t DEF ClockInv
  <2>6. profile \in Seq(Rows) /\ rule \in Seq(Rows)
    BY <1>1 DEF IInv, ProfileInv, RuleInv
  <2>7. QED
    BY <2>1, <2>2, <2>3, <2>4, <2>5, <2>6 DEF TypeOK
<1>2. QED
  BY <1>1, Invariant, PTL

\* No two active profiles of a product, and no two active rules that nobody
\* has revised, ever hold for the same sale (saveProfile, ruleConflict).
THEOREM PeriodsNeverOverlap == Spec => []PeriodsDisjoint
<1>1. IInv => PeriodsDisjoint
  BY DEF IInv, ProfileInv, RuleInv, PeriodsDisjoint
<1>2. QED
  BY <1>1, Invariant, PTL

\* What is shown as ready was reviewed as it is, for one default
\* establishment, an active one (saveEstablishment, setDefault, review).
THEOREM ReadyWasReviewed == Spec => []ReadyAsReviewed
<1>1. IInv => ReadyAsReviewed
  BY DEF IInv, EstInv, ReadyAsReviewed, CompanyReady, OrderReady
<1>2. QED
  BY <1>1, Invariant, PTL

\* A number is only replaced by a user who had it on the page (changeNumber):
\* the version of a listed row is the present one only if its number is.
THEOREM NumbersAreKnown == Spec => NumberKnown
<1> DEFINE Known1 == \A s \in Settings :
              setting'[s].next # setting[s].next /\ setting[s].of # None
                 => seen[setting'[s].by][s].next = setting[s].next
<1>1. ASSUME IInv, [Next]_vars
      PROVE  Known1
  <2>t. SettingInv
    BY <1>1 DEF IInv
  <2>1. CASE UNCHANGED setting
    BY <2>1
  <2>2. ASSUME NEW s \in Settings, NEW e \in Establishments,
               NEW n \in 1 .. MaxNumber, SaveSetting(s, e, n)
        PROVE  Known1
    <3>1. /\ setting' = [setting EXCEPT ![s].of = e, ![s].next = n]
          /\ setting[s].of = None
      BY <2>2 DEF SaveSetting
    <3>2. \A x \in Settings \ {s} : setting'[x] = setting[x]
      BY <2>t, <3>1 DEF SettingInv
    <3>3. QED
      BY <3>1, <3>2
  <2>3. ASSUME NEW s \in Settings, NEW active \in BOOLEAN,
               SettingActive(s, active)
        PROVE  Known1
    <3>1. setting' = [setting EXCEPT ![s].active = active]
      BY <2>3 DEF SettingActive
    <3>2. \A x \in Settings : setting'[x].next = setting[x].next
      BY <2>t, <3>1 DEF SettingInv
    <3>3. QED
      BY <3>2
  <2>4. ASSUME NEW s \in Settings, NEW u \in Users,
               NEW n \in 1 .. MaxNumber, ChangeNumber(u, s, n)
        PROVE  Known1
    <3>1. /\ setting' = [setting EXCEPT ![s].next = n, ![s].version = @ + 1,
                                        ![s].by = u]
          /\ seen[u][s] # None /\ seen[u][s].version = setting[s].version
      BY <2>4 DEF ChangeNumber, Expected
    <3>2. /\ \A x \in Settings \ {s} : setting'[x] = setting[x]
          /\ setting'[s].by = u
      BY <2>t, <3>1 DEF SettingInv
    <3>3. seen[u][s].next = setting[s].next
      BY <2>t, <3>1 DEF SettingInv
    <3>4. QED
      BY <3>2, <3>3
  <2>5. ASSUME NEW u \in Users, ListSettings(u)
        PROVE  Known1
    BY <2>1, <2>5 DEF ListSettings
  <2>6. QED
    BY <1>1, <2>1, <2>2, <2>3, <2>4, <2>5, Frames DEF SettingStep
<1>2. QED
  <2>1. IInv /\ [Next]_vars => [Known1]_vars
    BY <1>1
  <2>2. QED
    BY <2>1, Invariant, PTL DEF Spec, NumberKnown
=============================================================================
