------------------------------ MODULE Sessions ------------------------------
(***************************************************************************)
(* The account of one user and its sessions, from the row of the user to   *)
(* the pages of the browser: AuthService, UsersService, JwtStrategy, the   *)
(* HTTP client and the AuthContext of the frontend.                        *)
(*                                                                         *)
(* The row keeps the digest of one refresh token.  A session is a pair of  *)
(* tokens issued together: the refresh token, a number here, goes to a     *)
(* cookie, the access token to the memory of the page that asked.  Every   *)
(* handler reads the row, hashes or compares, and then writes on a         *)
(* condition.  A password is its version, and so is an access token, which *)
(* carries the time of the last change (passwordChangedAt).                *)
(***************************************************************************)
EXTENDS Naturals, FiniteSets

CONSTANTS
  Pages,        \* tabs of one browser
  Calls,        \* requests under way at a time
  MaxIssued,    \* bound: sessions issued, links mailed, passwords replaced
  None

ConstantsFit ==
  /\ None \notin Pages \cup Calls
  /\ MaxIssued \in Nat

VARIABLES
  user,    \* users: password, verified, the refresh digest, the two links
  issued,  \* sessions issued so far
  links,   \* links mailed so far
  cookie,  \* the refresh cookie of the browser, 0 without one
  page,    \* memory of the pages
  call,    \* the requests under way, from the page to the answer
  past     \* history: exchanges of each refresh token, effects of each link,
           \* and the access token issued with the refresh token in the row

vars == <<user, issued, links, cookie, page, call, past>>

Kinds == {"verify", "reset"}
Numbers == 1..MaxIssued

User == [password : Nat \ {0}, verified : BOOLEAN, refresh : Nat,
         link : [Kinds -> Nat]]

Idle == [op |-> "none", page |-> None, pc |-> "idle", stale |-> FALSE,
         again |-> FALSE, token |-> 0, password |-> 0, awaits |-> None]

Closed == [open |-> FALSE, access |-> 0, renewal |-> None, out |-> FALSE]

\* Just registered, with a mail that failed, or verified long ago.
Init ==
  /\ \E v \in BOOLEAN :
       user = [password |-> 1, verified |-> v, refresh |-> 0,
               link |-> [k \in Kinds |-> 0]]
  /\ issued = 0
  /\ links = 0
  /\ cookie = 0
  /\ page = [p \in Pages |-> Closed]
  /\ call = [c \in Calls |-> Idle]
  /\ past = [spent |-> [t \in Numbers |-> 0], used |-> [l \in Numbers |-> 0],
             access |-> 0]

Bounded == issued + links + user.password <= MaxIssued

Unchanged_row == UNCHANGED <<user, links, past>>
Unchanged_browser == UNCHANGED <<cookie, page>>
Unchanged_issue == UNCHANGED issued

-----------------------------------------------------------------------------
(* Requests of the pages.  The cookie and the access token are taken along *)
(* when the request leaves.                                                *)

Request(c, p, op, token) ==
  /\ call[c].pc = "idle"
  /\ call' = [call EXCEPT ![c] =
       [Idle EXCEPT !.op = op, !.page = p, !.pc = "sent", !.token = token,
                    !.password = IF op \in {"login", "change"}
                                   THEN user.password ELSE 0]]

\* The requests of a page that is loaded again have nobody to hear them; the
\* browser may still take the cookies of their answers.
Forgotten(p) ==
  [d \in Calls |->
     IF call[d].page # p THEN call[d]
     ELSE IF call[d].pc = "wait" THEN Idle
     ELSE [call[d] EXCEPT !.page = None, !.stale = TRUE]]

\* The effect of AuthProvider: a page starts by asking for a session.
Load(p, c) ==
  /\ call[c].pc = "idle"
  /\ page' = [page EXCEPT ![p] = [Closed EXCEPT !.open = TRUE]]
  /\ call' = [Forgotten(p) EXCEPT ![c] =
       [Idle EXCEPT !.op = "boot", !.page = p, !.pc = "sent", !.token = cookie]]
  /\ UNCHANGED cookie
  /\ Unchanged_row /\ Unchanged_issue

\* The user knows the password of the moment; it may change before it is read.
Login(p, c) ==
  /\ page[p].open /\ page[p].access = 0
  /\ page' = [page EXCEPT ![p].out = FALSE]
  /\ Request(c, p, "login", 0)
  /\ UNCHANGED cookie
  /\ Unchanged_row /\ Unchanged_issue

Work(p, c) ==
  /\ page[p].access # 0
  /\ \E op \in {"api", "change"} : Request(c, p, op, page[p].access)
  /\ Unchanged_browser
  /\ Unchanged_row /\ Unchanged_issue

\* clearSession: whatever the page is waiting for has become stale.
Cleared(cs, p) ==
  [d \in Calls |-> IF cs[d].page = p THEN [cs[d] EXCEPT !.stale = TRUE]
                                     ELSE cs[d]]
Empty(pg) == [pg EXCEPT !.access = 0, !.renewal = None]

Logout(p, c) ==
  /\ page[p].access # 0
  /\ call[c].pc = "idle"
  /\ page' = [page EXCEPT ![p] = [Empty(@) EXCEPT !.out = TRUE]]
  /\ call' = [Cleared(call, p) EXCEPT ![c] =
       [Idle EXCEPT !.op = "logout", !.pc = "sent", !.token = cookie]]
  /\ UNCHANGED cookie
  /\ Unchanged_row /\ Unchanged_issue

-----------------------------------------------------------------------------
(* The server: read, then write on a condition.                            *)

To(c, pc) == call' = [call EXCEPT ![c].pc = pc]

\* The handler has answered: only a change of password may be repeated.
Answered(c, pc, token) ==
  call' = [call EXCEPT ![c].pc = pc, ![c].token = token,
             ![c].password = IF call[c].op = "change" THEN @ ELSE 0]

Verdict(c, ok, pc) == IF ok THEN To(c, pc) ELSE Answered(c, "no", 0)

ReadForLogin(c) ==
  /\ call[c].op = "login" /\ call[c].pc = "sent"
  /\ Verdict(c, user.verified /\ call[c].password = user.password, "read")
  /\ Unchanged_row /\ Unchanged_issue /\ Unchanged_browser

Refreshes == {"boot", "renew"}

ReadForRefresh(c) ==
  /\ call[c].op \in Refreshes /\ call[c].pc = "sent"
  /\ \/ /\ call[c].token # 0 /\ call[c].token = user.refresh
        /\ call' = [call EXCEPT ![c].pc = "read",
                                ![c].password = user.password]
     \/ /\ call[c].token = 0 \/ call[c].token # user.refresh
        /\ Answered(c, "no", 0)
  /\ Unchanged_row /\ Unchanged_issue /\ Unchanged_browser

Issue(c) ==
  /\ Bounded
  /\ issued' = issued + 1
  /\ call' = [call EXCEPT ![c].pc = "ok", ![c].token = issued + 1]
  /\ user' = [user EXCEPT !.refresh = issued + 1]

Refuse(c) ==
  /\ Answered(c, "no", 0)
  /\ UNCHANGED <<user, issued, past>>

\* startRefreshSession: only if the password is still the one that was read.
Startable_Any(c) == user.verified

Startable(c) == user.verified /\ user.password = call[c].password

StartSession(c) ==
  /\ call[c].op = "login" /\ call[c].pc = "read"
  /\ \/ /\ Startable(c)
        /\ Issue(c)
        /\ past' = [past EXCEPT !.access = call[c].password]
     \/ ~Startable(c) /\ Refuse(c)
  /\ UNCHANGED links
  /\ Unchanged_browser

\* rotateRefreshToken: only if the digest is still the one presented.
Rotatable_Read(c) == TRUE

Rotatable(c) == user.refresh = call[c].token

Rotate(c) ==
  /\ call[c].op \in Refreshes /\ call[c].pc = "read"
  /\ \/ /\ Rotatable(c)
        /\ Issue(c)
        /\ past' = [past EXCEPT !.spent[call[c].token] = @ + 1,
                               !.access = call[c].password]
     \/ ~Rotatable(c) /\ Refuse(c)
  /\ UNCHANGED links
  /\ Unchanged_browser

EndSession(c) ==
  /\ call[c].op = "logout" /\ call[c].pc = "sent"
  /\ user' = [user EXCEPT !.refresh = IF @ = call[c].token THEN 0 ELSE @]
  /\ Answered(c, "ok", 0)
  /\ UNCHANGED <<links, past>>
  /\ Unchanged_issue /\ Unchanged_browser

Current(access) == access = user.password

\* An access token may be too old at any time.
Validate(c) ==
  /\ call[c].op \in {"api", "change"} /\ call[c].pc = "sent"
  /\ \/ /\ Current(call[c].token)
        /\ IF call[c].op = "api" THEN Answered(c, "ok", 0) ELSE To(c, "valid")
     \/ Answered(c, "no", 0)
  /\ Unchanged_row /\ Unchanged_issue /\ Unchanged_browser

\* Also a wrong current password is answered by 401.
ReadForChange(c) ==
  /\ call[c].op = "change" /\ call[c].pc = "valid"
  /\ Verdict(c, call[c].password = user.password, "read")
  /\ Unchanged_row /\ Unchanged_issue /\ Unchanged_browser

NewPassword(u) ==
  [u EXCEPT !.password = @ + 1, !.refresh = 0, !.link["reset"] = 0]

\* changePassword: without a condition.
ChangePassword(c) ==
  /\ call[c].op = "change" /\ call[c].pc = "read"
  /\ Bounded
  /\ user' = NewPassword(user)
  /\ Answered(c, "ok", 0)
  /\ UNCHANGED <<links, past>>
  /\ Unchanged_issue /\ Unchanged_browser

-----------------------------------------------------------------------------
(* Answers.                                                                *)

Heard(c) == call[c].pc \in {"ok", "no"}

SetCookie(c) ==
  cookie' = IF call[c].pc # "ok" THEN cookie
            ELSE IF call[c].op \in Refreshes \cup {"login"} THEN call[c].token
            ELSE IF call[c].op \in {"logout", "change"} THEN 0
            ELSE cookie

HearLogin(c) ==
  LET p == call[c].page IN
  /\ call[c].op = "login" /\ Heard(c)
  /\ page' = IF call[c].pc = "ok" /\ ~call[c].stale
               THEN [page EXCEPT ![p].access = call[c].password] ELSE page
  /\ call' = [call EXCEPT ![c] = Idle]
  /\ SetCookie(c)
  /\ Unchanged_row /\ Unchanged_issue

HearLogout(c) ==
  /\ call[c].op = "logout" /\ Heard(c)
  /\ call' = [call EXCEPT ![c] = Idle]
  /\ SetCookie(c)
  /\ UNCHANGED page
  /\ Unchanged_row /\ Unchanged_issue

\* The requests of a page that wait for the renewal c.
Waiting(c) == {d \in Calls : call[d].pc = "wait" /\ call[d].awaits = c}

Renewed(c, ok) == ok /\ ~call[c].stale

\* The end of a renewal takes the place of any other the page has begun.
ReleaseRenewal(c, pg) ==
  IF call[c].op = "renew" THEN [pg EXCEPT !.renewal = None] ELSE pg

\* refreshSession and those that wait for it: with a session they repeat their
\* request, without one the page forgets its session, whichever it is by now.
EndRefresh(c, ok) ==
  LET p == call[c].page
      rest == [d \in Calls |-> IF d = c \/ d \in Waiting(c) THEN Idle
                                                            ELSE call[d]]
  IN \/ /\ Renewed(c, ok)
        /\ page' = [page EXCEPT ![p] =
             ReleaseRenewal(c, [@ EXCEPT !.access = call[c].password])]
        /\ call' = [d \in Calls |->
             IF d \in Waiting(c)
               THEN [call[d] EXCEPT !.pc = "sent", !.again = TRUE,
                                    !.awaits = None, !.token = call[c].password]
               ELSE rest[d]]
     \/ /\ ~Renewed(c, ok)
        /\ ~call[c].stale \/ Waiting(c) # {}
        /\ page' = [page EXCEPT ![p] = Empty(@)]
        /\ call' = Cleared(rest, p)
     \/ /\ ~Renewed(c, ok)
        /\ call[c].stale /\ Waiting(c) = {}
        /\ page' = IF p = None THEN page
                    ELSE [page EXCEPT ![p] = ReleaseRenewal(c, @)]
        /\ call' = rest

HearRefresh(c) ==
  /\ call[c].op \in Refreshes /\ Heard(c)
  /\ EndRefresh(c, call[c].pc = "ok")
  /\ SetCookie(c)
  /\ Unchanged_row /\ Unchanged_issue

\* 401 to a page with a session: one renewal serves all that need it.
Renewable(c) ==
  /\ call[c].op \in {"api", "change"} /\ call[c].pc = "no"
  /\ ~call[c].stale /\ ~call[c].again
  /\ page[call[c].page].access # 0

Join(c) ==
  /\ Renewable(c)
  /\ page[call[c].page].renewal # None
  /\ call' = [call EXCEPT ![c].pc = "wait",
                          ![c].awaits = page[call[c].page].renewal]
  /\ Unchanged_browser
  /\ Unchanged_row /\ Unchanged_issue

Renew(c, d) ==
  LET p == call[c].page IN
  /\ Renewable(c)
  /\ page[p].renewal = None
  /\ call[d].pc = "idle"
  /\ page' = [page EXCEPT ![p].renewal = d]
  /\ call' = [call EXCEPT
       ![c].pc = "wait", ![c].awaits = d,
       ![d] = [Idle EXCEPT !.op = "renew", !.page = p, !.pc = "sent",
                           !.token = cookie]]
  /\ UNCHANGED cookie
  /\ Unchanged_row /\ Unchanged_issue

\* A page whose password was changed forgets its session.
HearWork(c) ==
  LET p == call[c].page IN
  /\ call[c].op \in {"api", "change"} /\ Heard(c) /\ ~Renewable(c)
  /\ \/ /\ call[c].op = "change" /\ call[c].pc = "ok" /\ ~call[c].stale
        /\ page' = [page EXCEPT ![p] = Empty(@)]
        /\ call' = Cleared([call EXCEPT ![c] = Idle], p)
     \/ /\ call[c].op = "api" \/ call[c].pc = "no" \/ call[c].stale
        /\ page' = page
        /\ call' = [call EXCEPT ![c] = Idle]
  /\ SetCookie(c)
  /\ Unchanged_row /\ Unchanged_issue

\* The answer is lost, with its cookie: for the page the request has failed.
LoseAnswer(c) ==
  /\ Heard(c)
  /\ IF call[c].op \in Refreshes
       THEN EndRefresh(c, FALSE)
       ELSE /\ call' = [call EXCEPT ![c] = Idle]
            /\ UNCHANGED page
  /\ UNCHANGED cookie
  /\ Unchanged_row /\ Unchanged_issue

-----------------------------------------------------------------------------
(* Links by mail: to verify the address and to reset the password.  The    *)
(* request comes from anywhere; its answer changes nothing.                *)

LinkCall(k) == [Idle EXCEPT !.op = k]

\* resendVerification and forgotPassword read the user.
AskLink(c, k) ==
  /\ call[c].pc = "idle"
  /\ k = "verify" => ~user.verified
  /\ call' = [call EXCEPT ![c] = [LinkCall(k) EXCEPT !.pc = "mail"]]
  /\ Unchanged_browser
  /\ Unchanged_row /\ Unchanged_issue

\* The digest replaces that of an earlier link; then it is mailed.
SaveLink(c) ==
  /\ call[c].pc = "mail"
  /\ Bounded
  /\ links' = links + 1
  /\ user' = [user EXCEPT !.link[call[c].op] = links + 1]
  /\ call' = [call EXCEPT ![c] = Idle]
  /\ UNCHANGED past
  /\ Unchanged_browser /\ Unchanged_issue

FollowLink(c, k, l) ==
  /\ call[c].pc = "idle"
  /\ l \in 1..links
  /\ user.link[k] = l
  /\ call' = [call EXCEPT ![c] =
       [LinkCall(k) EXCEPT !.pc = "found", !.token = l]]
  /\ Unchanged_browser
  /\ Unchanged_row /\ Unchanged_issue

\* consumeVerification, consumePasswordReset.  A link may be too old by then.
Consumable(c) == user.link[call[c].op] = call[c].token

ConsumeLink(c) ==
  /\ call[c].pc = "found"
  /\ \/ /\ Consumable(c)
        /\ call[c].op = "reset" => Bounded
        /\ user' = IF call[c].op = "reset" THEN NewPassword(user)
                    ELSE [user EXCEPT !.verified = TRUE, !.link["verify"] = 0]
        /\ past' = [past EXCEPT !.used[call[c].token] = @ + 1]
     \/ UNCHANGED <<user, past>>
  /\ call' = [call EXCEPT ![c] = Idle]
  /\ UNCHANGED links
  /\ Unchanged_browser /\ Unchanged_issue

-----------------------------------------------------------------------------

Handle(c) ==
  \/ ReadForLogin(c) \/ StartSession(c)
  \/ ReadForRefresh(c) \/ Rotate(c)
  \/ EndSession(c)
  \/ Validate(c) \/ ReadForChange(c) \/ ChangePassword(c)
  \/ SaveLink(c) \/ ConsumeLink(c)

Hear(c) ==
  \/ HearLogin(c) \/ HearLogout(c) \/ HearRefresh(c) \/ HearWork(c)
  \/ Join(c) \/ \E d \in Calls : Renew(c, d)
  \/ LoseAnswer(c)

Next ==
  \/ \E p \in Pages, c \in Calls :
       Load(p, c) \/ Login(p, c) \/ Work(p, c) \/ Logout(p, c)
  \/ \E c \in Calls : Handle(c) \/ Hear(c)
  \/ \E c \in Calls, k \in Kinds :
       AskLink(c, k) \/ \E l \in Numbers : FollowLink(c, k, l)

Spec == Init /\ [][Next]_vars

-----------------------------------------------------------------------------
(* Properties.                                                             *)

Steps == {"idle", "sent", "valid", "read", "ok", "no", "wait", "mail", "found"}
Ops == {"none", "login", "logout", "api", "change"} \cup Refreshes \cup Kinds

TypeOK ==
  /\ user \in User
  /\ user.refresh <= issued /\ \A k \in Kinds : user.link[k] <= links
  /\ issued \in Nat /\ issued + links + user.password <= MaxIssued + 1
  /\ links \in Nat
  /\ cookie \in 0..issued
  /\ page \in [Pages -> [open : BOOLEAN, access : 0..user.password,
                         renewal : Calls \cup {None}, out : BOOLEAN]]
  /\ call \in [Calls -> [op : Ops, page : Pages \cup {None}, pc : Steps,
                         stale : BOOLEAN, again : BOOLEAN, token : Nat,
                         password : 0..user.password,
                         awaits : Calls \cup {None}]]
  /\ \A c \in Calls : call[c].pc = "wait" =>
       /\ call[c].awaits # None
       /\ call[call[c].awaits].op = "renew"

\* A refresh token that would be accepted was issued under the password the
\* account has now, to a verified user: neither a login nor a renewal that was
\* under way when the password was changed or reset leaves a session behind.
SessionOfThisPassword ==
  user.refresh # 0 => user.verified /\ past.access = user.password

\* A refresh token is exchanged once and a mailed link has its effect once,
\* however many pages, tabs and repeated requests present them at a time.
NothingIsUsedTwice ==
  /\ \A t \in Numbers : past.spent[t] <= 1
  /\ \A l \in Numbers : past.used[l] <= 1

\* A page the user left does not come back to life: an answer that was under
\* way when they logged out does not log them in again.
LoggedOutStaysOut == \A p \in Pages : page[p].out => page[p].access = 0

\* What was spent or ended has no second life: neither a token nor a mailed
\* link, nor the session of a page that logged out.
EndedStaysEnded == NothingIsUsedTwice /\ LoggedOutStaysOut

=============================================================================
