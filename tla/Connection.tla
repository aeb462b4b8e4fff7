----------------------------- MODULE Connection -----------------------------
(***************************************************************************)
(* One connection of a company to Mercado Livre: its row, its encrypted    *)
(* tokens, the authorization by redirect, the renewal of expired tokens,   *)
(* and the imports a user asks for.                                        *)
(*                                                                         *)
(* MercadoLivreIntegrationService, MarketplaceCredentialProvider,          *)
(* SalesChannelsService, MercadoLivreSyncService, MercadoLivreProcessor.   *)
(*                                                                         *)
(* Everybody reads the row of the connection, waits for the network and    *)
(* then saves the entity it read: every column of it, the changed and the  *)
(* unchanged ones.  The renewal is serialised by a lock in the memory of   *)
(* the process; nothing else is.                                           *)
(*                                                                         *)
(* A pair of tokens is the number of its issue.  All are valid for the     *)
(* same time, so that the pairs up to some number have expired.            *)
(***************************************************************************)
EXTENDS Naturals, FiniteSets

CONSTANTS
  Runs,         \* imports that may be asked for, each with its job
  Callers,      \* requests and jobs that only need valid tokens
  Callbacks,    \* redirects of a browser back from the marketplace
  States,       \* authorization states
  MaxTokens,    \* bound: pairs the marketplace issues
  MaxTries,     \* attempts of a job
  Ops,          \* operations of users on the connection
  MaxEvents,    \* bound: those operations, ends of the process, lost answers
  None

ASSUME ConnectionAssumption ==
  /\ IsFiniteSet(Runs) /\ IsFiniteSet(Callers)
  /\ Runs \cap Callers = {}
  /\ None \notin Runs \cup Callers
  /\ MaxTokens \in Nat \ {0} /\ MaxTries \in Nat \ {0}
  /\ Ops \subseteq {"enable", "disable", "disconnect", "edit"}
  /\ MaxEvents \in Nat

VARIABLES
  conn,      \* sales_channel_connections: status and tokenExpiresAt
  cred,      \* sales_channel_credentials: the pair stored, 0 without a row
  lock,      \* MarketplaceCredentialProvider.locks: who renews
  run,       \* marketplace_sync_runs
  tries,     \* attempts the job of a run has started
  proc,      \* step, row and tokens of every job and request
  back,      \* the same of every callback
  state,     \* oauth_authorization_states
  user,      \* a user's operation on the connection
  shop,      \* the marketplace: pairs issued, refresh tokens it accepts
  expired,   \* the pairs 1..expired are too old to be used
  past,      \* history: tokens orphaned and presented again; exchanges
  faults     \* events so far, and the runs whose job was not added

vars == <<conn, cred, lock, run, tries, proc, back, state, user, shop,
          expired, past, faults>>

Procs == Runs \cup Callers

Status == {"PENDING", "CONNECTED", "REAUTH_REQUIRED", "DISABLED",
           "DISCONNECTED"}

Row == [status : Status, expiry : 0..MaxTokens]

\* What a process remembers when it has nothing to remember.
NoRow == [status |-> "PENDING", expiry |-> 0]
At(pc) == [pc |-> pc, row |-> NoRow, fresh |-> NoRow, tok |-> 0]

NoCallback == [pc |-> "idle", state |-> None, tok |-> 0]

Init ==
  /\ \E c \in BOOLEAN :
        /\ conn = [status |-> IF c THEN "CONNECTED" ELSE "PENDING",
                   expiry |-> IF c THEN 1 ELSE 0]
        /\ cred = IF c THEN 1 ELSE 0
        /\ shop = [issued |-> IF c THEN 1 ELSE 0,
                   live   |-> IF c THEN {1} ELSE {}]
  /\ lock = None
  /\ run = [r \in Runs |-> "NONE"]
  /\ tries = [r \in Runs |-> 0]
  /\ proc = [p \in Procs |-> At("idle")]
  /\ back = [c \in Callbacks |-> NoCallback]
  /\ state = [s \in States |-> "none"]
  /\ user = [pc |-> "idle", op |-> None, row |-> NoRow]
  /\ expired = 0
  /\ past = [orphaned |-> {}, again |-> {},
             exchanges |-> [s \in States |-> 0]]
  /\ faults = [count |-> 0, unqueued |-> {}]

To(p, pc) == proc' = [proc EXCEPT ![p].pc = pc]
End(p, pc) == proc' = [proc EXCEPT ![p] = At(pc)]

Unchanged_outside == UNCHANGED <<back, state, user>>
Unchanged_runs == UNCHANGED <<run, tries>>
Unchanged_shop == UNCHANGED <<shop, expired, past, faults>>

-----------------------------------------------------------------------------
(* Imports on request: the row of the run, then its job.                   *)

Request(r) ==
  /\ run[r] = "NONE"
  /\ run' = [run EXCEPT ![r] = "PENDING"]
  /\ To(r, "enqueue")
  /\ UNCHANGED <<conn, cred, lock, tries>>
  /\ Unchanged_outside /\ Unchanged_shop

AddJob(r) ==
  /\ proc[r].pc = "enqueue"
  /\ To(r, "queued")
  /\ UNCHANGED <<conn, cred, lock, run, tries>>
  /\ Unchanged_outside /\ Unchanged_shop

\* The queue does not answer: the request ends with an error, the row stays.
AddFails(r) ==
  /\ proc[r].pc = "enqueue"
  /\ End(r, "done")
  /\ faults' = [faults EXCEPT !.unqueued = @ \cup {r}]
  /\ UNCHANGED <<conn, cred, lock, run, tries, shop, expired, past>>
  /\ Unchanged_outside

\* Nobody else writes the run: marking it and reading the connection is one step.
Start(r) ==
  /\ proc[r].pc = "queued"
  /\ run' = [run EXCEPT ![r] = "RUNNING"]
  /\ tries' = [tries EXCEPT ![r] = @ + 1]
  /\ proc' = [proc EXCEPT ![r].pc = "check", ![r].row = conn]
  /\ UNCHANGED <<conn, cred, lock>>
  /\ Unchanged_outside /\ Unchanged_shop

\* Any other work that calls the marketplace: it uses the expiry of the row
\* and saves nothing of it.
Call(c) ==
  /\ proc[c].pc = "idle"
  /\ proc' = [proc EXCEPT ![c].pc = "check",
                          ![c].row = [NoRow EXCEPT !.expiry = conn.expiry]]
  /\ UNCHANGED <<conn, cred, lock>>
  /\ Unchanged_runs /\ Unchanged_outside /\ Unchanged_shop

-----------------------------------------------------------------------------
(* validTokens.                                                            *)

Fresh(row) == row.expiry > expired
NoExpiry(row) == row.expiry = 0

\* Where a process goes that cannot have its tokens or whose work failed.
Failed(p) == At(IF p \in Runs THEN "failing" ELSE "idle")

\* Only the import uses the row it loaded once its expiry is known.
Keep(p, pc) ==
  proc' = [proc EXCEPT ![p] =
             [At(pc) EXCEPT !.row = IF p \in Runs THEN proc[p].row ELSE NoRow]]

\* Without await between the test of the map and the entry into it.
Check_NoLock(p) ==
  /\ proc[p].pc = "check"
  /\ IF NoExpiry(proc[p].row) \/ Fresh(proc[p].row)
       THEN Keep(p, "creds") /\ lock' = lock
       ELSE Keep(p, "fresh") /\ lock' = p
  /\ UNCHANGED <<conn, cred>>
  /\ Unchanged_runs /\ Unchanged_outside /\ Unchanged_shop

Check(p) ==
  /\ proc[p].pc = "check"
  /\ \/ /\ NoExpiry(proc[p].row) \/ Fresh(proc[p].row)
        /\ Keep(p, "creds")
        /\ UNCHANGED lock
     \/ /\ ~NoExpiry(proc[p].row) /\ ~Fresh(proc[p].row)
        /\ IF lock = None THEN lock' = p /\ Keep(p, "fresh")
                          ELSE UNCHANGED lock /\ Keep(p, "wait")
  /\ UNCHANGED <<conn, cred>>
  /\ Unchanged_runs /\ Unchanged_outside /\ Unchanged_shop

ReadCreds(p) ==
  /\ proc[p].pc = "creds"
  /\ IF cred = 0 THEN proc' = [proc EXCEPT ![p] = Failed(p)]
                 ELSE Keep(p, "work")
  /\ UNCHANGED <<conn, cred, lock>>
  /\ Unchanged_runs /\ Unchanged_outside /\ Unchanged_shop

Wake(p) ==
  /\ proc[p].pc = "wait"
  /\ lock = None
  /\ lock' = p
  /\ To(p, "fresh")
  /\ UNCHANGED <<conn, cred>>
  /\ Unchanged_runs /\ Unchanged_outside /\ Unchanged_shop

\* The row again, with the lock held.
ReadFresh(p) ==
  /\ proc[p].pc = "fresh"
  /\ proc' = [proc EXCEPT ![p].pc = "current", ![p].fresh = conn]
  /\ UNCHANGED <<conn, cred, lock>>
  /\ Unchanged_runs /\ Unchanged_outside /\ Unchanged_shop

\* The holder's promise is rejected: so are those who wait for it.
Reject_Held(p) ==
  /\ proc' = [proc EXCEPT ![p] = Failed(p)]
  /\ UNCHANGED lock

Reject(p) ==
  /\ proc' = [q \in Procs |->
                IF q = p \/ proc[q].pc = "wait"
                  THEN Failed(q) ELSE proc[q]]
  /\ lock' = None

\* The stored tokens, and whether somebody renewed them meanwhile.
ReadCurrent(p) ==
  /\ proc[p].pc = "current"
  /\ \/ /\ cred = 0
        /\ Reject(p)
     \/ /\ cred # 0
        /\ Fresh(proc[p].fresh)
        /\ Keep(p, "work")
        /\ lock' = None
     \/ /\ cred # 0
        /\ ~Fresh(proc[p].fresh)
        /\ proc' = [proc EXCEPT ![p].pc = "renew", ![p].tok = cred]
        /\ UNCHANGED lock
  /\ UNCHANGED <<conn, cred>>
  /\ Unchanged_runs /\ Unchanged_outside /\ Unchanged_shop

-----------------------------------------------------------------------------
(* The marketplace exchanges a refresh token once.  The request is sent    *)
(* once: only reads are repeated by the HTTP client.                       *)

Issue == shop.issued + 1

Presented(t) ==
  [past EXCEPT !.again = IF t \in shop.live THEN @ ELSE @ \cup {t}]

Renew(p) ==
  LET t == proc[p].tok IN
  /\ proc[p].pc = "renew"
  /\ t \in shop.live
  /\ shop.issued < MaxTokens
  /\ shop' = [issued |-> Issue, live |-> (shop.live \ {t}) \cup {Issue}]
  /\ past' = Presented(t)
  /\ proc' = [proc EXCEPT ![p].pc = "saveCred", ![p].tok = Issue]
  /\ UNCHANGED <<conn, cred, lock, expired, faults>>
  /\ Unchanged_runs /\ Unchanged_outside

\* The marketplace renews, and the answer does not arrive in time.
RenewUnheard(p) ==
  LET t == proc[p].tok IN
  /\ proc[p].pc = "renew"
  /\ t \in shop.live
  /\ shop.issued < MaxTokens
  /\ faults.count < MaxEvents
  /\ faults' = [faults EXCEPT !.count = @ + 1]
  /\ shop' = [issued |-> Issue, live |-> (shop.live \ {t}) \cup {Issue}]
  /\ past' = [past EXCEPT !.orphaned = @ \cup {t}]
  /\ To(p, "refused")
  /\ UNCHANGED <<conn, cred, lock, expired>>
  /\ Unchanged_runs /\ Unchanged_outside

\* It does not know the token, or is not available.
RenewRefused(p) ==
  /\ proc[p].pc = "renew"
  /\ past' = Presented(proc[p].tok)
  /\ To(p, "refused")
  /\ UNCHANGED <<conn, cred, lock, shop, expired, faults>>
  /\ Unchanged_runs /\ Unchanged_outside

SaveRenewed(p) ==
  /\ proc[p].pc = "saveCred"
  /\ cred' = proc[p].tok
  /\ To(p, "saveRow")
  /\ UNCHANGED <<conn, lock>>
  /\ Unchanged_runs /\ Unchanged_outside /\ Unchanged_shop

SaveFresh_Held(p) ==
  /\ proc[p].pc = "saveRow"
  /\ conn' = [proc[p].fresh EXCEPT !.expiry = proc[p].tok]
  /\ Keep(p, "work")
  /\ UNCHANGED <<cred, lock>>
  /\ Unchanged_runs /\ Unchanged_outside /\ Unchanged_shop

SaveFresh(p) ==
  /\ proc[p].pc = "saveRow"
  /\ conn' = [proc[p].fresh EXCEPT !.expiry = proc[p].tok]
  /\ lock' = None
  /\ Keep(p, "work")
  /\ UNCHANGED cred
  /\ Unchanged_runs /\ Unchanged_outside /\ Unchanged_shop

SaveRefused(p) ==
  /\ proc[p].pc = "refused"
  /\ conn' = [proc[p].fresh EXCEPT !.status = "REAUTH_REQUIRED"]
  /\ Reject(p)
  /\ UNCHANGED cred
  /\ Unchanged_runs /\ Unchanged_outside /\ Unchanged_shop

-----------------------------------------------------------------------------
(* The work itself, page by page, and its end.                             *)

Done(c) ==
  /\ proc[c].pc = "work"
  /\ End(c, "idle")
  /\ UNCHANGED <<conn, cred, lock>>
  /\ Unchanged_runs /\ Unchanged_outside /\ Unchanged_shop

\* The row of the connection is the one read before the tokens were renewed.
Finish(r) ==
  /\ proc[r].pc = "work"
  /\ run' = [run EXCEPT ![r] = "SUCCEEDED"]
  /\ conn' = proc[r].row
  /\ End(r, "done")
  /\ UNCHANGED <<cred, lock, tries>>
  /\ Unchanged_outside /\ Unchanged_shop

WorkFails(p) ==
  /\ proc[p].pc = "work"
  /\ proc' = [proc EXCEPT ![p] = Failed(p)]
  /\ UNCHANGED <<conn, cred, lock>>
  /\ Unchanged_runs /\ Unchanged_outside /\ Unchanged_shop

\* The connection is read again before its error is saved.
ReadForError(r) ==
  /\ proc[r].pc = "failing"
  /\ proc' = [proc EXCEPT ![r].pc = "saveError", ![r].row = conn]
  /\ UNCHANGED <<conn, cred, lock>>
  /\ Unchanged_runs /\ Unchanged_outside /\ Unchanged_shop

\* The job throws: the queue runs it again until its attempts are used up.
SaveError(r) ==
  /\ proc[r].pc = "saveError"
  /\ run' = [run EXCEPT ![r] = "FAILED"]
  /\ conn' = proc[r].row
  /\ End(r, IF tries[r] < MaxTries THEN "queued" ELSE "done")
  /\ UNCHANGED <<cred, lock, tries>>
  /\ Unchanged_outside /\ Unchanged_shop

-----------------------------------------------------------------------------
(* Authorization.                                                          *)

Authorize(s) ==
  /\ state[s] = "none"
  /\ state' = [state EXCEPT ![s] = "open"]
  /\ UNCHANGED <<conn, cred, lock, proc, back, user>>
  /\ Unchanged_runs /\ Unchanged_shop

\* One transaction that locks the row of the state.  A state that is consumed
\* or older than ten minutes is answered with an error page; that it gets old
\* is the redirect that never comes.
ConsumeState(c, s) ==
  /\ back[c].pc = "idle"
  /\ state[s] = "open"
  /\ state' = [state EXCEPT ![s] = "consumed"]
  /\ back' = [back EXCEPT ![c].pc = "exchange", ![c].state = s]
  /\ UNCHANGED <<conn, cred, lock, proc, user>>
  /\ Unchanged_runs /\ Unchanged_shop

\* The code is exchanged and the account looked up.  Either may fail, which is
\* reported in columns of the row that are not modelled.
ExchangeCode(c) ==
  /\ back[c].pc = "exchange"
  /\ past' = [past EXCEPT !.exchanges[back[c].state] = @ + 1]
  /\ \/ /\ shop.issued < MaxTokens
        /\ shop' = [issued |-> Issue, live |-> shop.live \cup {Issue}]
        /\ \/ back' = [back EXCEPT ![c].pc = "saveCred", ![c].tok = Issue]
           \/ back' = [back EXCEPT ![c] = NoCallback]
     \/ /\ back' = [back EXCEPT ![c] = NoCallback]
        /\ UNCHANGED shop
  /\ UNCHANGED <<conn, cred, lock, proc, state, user, expired, faults>>
  /\ Unchanged_runs

SaveCredentials(c) ==
  /\ back[c].pc = "saveCred"
  /\ cred' = back[c].tok
  /\ back' = [back EXCEPT ![c].pc = "saveRow"]
  /\ UNCHANGED <<conn, lock, proc, state, user>>
  /\ Unchanged_runs /\ Unchanged_shop

SaveConnection(c) ==
  /\ back[c].pc = "saveRow"
  /\ conn' = [status |-> "CONNECTED", expiry |-> back[c].tok]
  /\ back' = [back EXCEPT ![c] = NoCallback]
  /\ UNCHANGED <<cred, lock, proc, state, user>>
  /\ Unchanged_runs /\ Unchanged_shop

-----------------------------------------------------------------------------
(* Users on the page of the connection: enable, disable, disconnect, and   *)
(* edits of other columns (name, result of a validation).                  *)

NewStatus(op, old) == CASE op = "enable" -> "PENDING"
                        [] op = "disable" -> "DISABLED"
                        [] op = "disconnect" -> "DISCONNECTED"
                        [] op = "edit" -> old

BeginOp(op) ==
  /\ user.pc = "idle"
  /\ faults.count < MaxEvents
  /\ faults' = [faults EXCEPT !.count = @ + 1]
  /\ user' = [pc |-> IF op = "disconnect" THEN "delete" ELSE "save",
              op |-> op, row |-> conn]
  /\ UNCHANGED <<conn, cred, lock, proc, back, state, shop, expired, past>>
  /\ Unchanged_runs

DeleteCredentials ==
  /\ user.pc = "delete"
  /\ cred' = 0
  /\ user' = [user EXCEPT !.pc = "save"]
  /\ UNCHANGED <<conn, lock, proc, back, state>>
  /\ Unchanged_runs /\ Unchanged_shop

SaveOp ==
  /\ user.pc = "save"
  /\ conn' = [user.row EXCEPT !.status = NewStatus(user.op, @)]
  /\ user' = [user EXCEPT !.pc = "idle", !.op = None, !.row = NoRow]
  /\ UNCHANGED <<cred, lock, proc, back, state>>
  /\ Unchanged_runs /\ Unchanged_shop

-----------------------------------------------------------------------------
(* Time and failures.                                                      *)

Expire ==
  /\ expired < shop.issued
  /\ expired' = shop.issued
  /\ UNCHANGED <<conn, cred, lock, proc, back, state, user, shop, past, faults>>
  /\ Unchanged_runs

\* The process ends.  Its requests are gone; BullMQ gives stalled jobs out
\* again.  A pair that was issued and not stored is lost with it.
Crash ==
  /\ faults.count < MaxEvents
  /\ faults' = [faults EXCEPT
       !.count = @ + 1,
       !.unqueued = @ \cup {r \in Runs : proc[r].pc = "enqueue"}]
  /\ past' = IF \E p \in Procs : proc[p].pc = "saveCred"
               THEN [past EXCEPT !.orphaned = @ \cup ({cred} \ shop.live)] ELSE past
  /\ lock' = None
  /\ proc' = [p \in Procs |->
                At(IF p \in Callers THEN "idle"
                   ELSE CASE proc[p].pc \in {"idle", "done"} -> proc[p].pc
                          [] proc[p].pc = "enqueue" -> "done"
                          [] OTHER -> "queued")]
  /\ back' = [c \in Callbacks |-> NoCallback]
  /\ user' = [user EXCEPT !.pc = "idle", !.op = None, !.row = NoRow]
  /\ UNCHANGED <<conn, cred, run, tries, state, shop, expired>>

-----------------------------------------------------------------------------

RunStep(r) ==
  \/ AddJob(r) \/ Start(r) \/ Finish(r) \/ ReadForError(r) \/ SaveError(r)

TokenStep(p) ==
  \/ Check(p) \/ ReadCreds(p) \/ Wake(p) \/ ReadFresh(p)
  \/ ReadCurrent(p) \/ Renew(p) \/ RenewRefused(p)
  \/ SaveRenewed(p) \/ SaveFresh(p) \/ SaveRefused(p)

Next ==
  \/ \E r \in Runs : Request(r) \/ AddFails(r) \/ RunStep(r)
  \/ \E c \in Callers : Call(c) \/ Done(c)
  \/ \E p \in Procs : TokenStep(p) \/ RenewUnheard(p) \/ WorkFails(p)
  \/ \E s \in States : Authorize(s)
  \/ \E c \in Callbacks, s \in States : ConsumeState(c, s)
  \/ \E c \in Callbacks :
        \/ ExchangeCode(c) \/ SaveCredentials(c) \/ SaveConnection(c)
  \/ \E op \in Ops : BeginOp(op)
  \/ DeleteCredentials
  \/ SaveOp
  \/ Expire
  \/ Crash

Spec == Init /\ [][Next]_vars

(* A started job and a started renewal go on; the queue gives out its jobs. *)
Fairness ==
  /\ \A r \in Runs : WF_vars(RunStep(r))
  /\ \A p \in Procs : WF_vars(TokenStep(p))
  /\ \A c \in Callers : WF_vars(Done(c))

FairSpec == Spec /\ Fairness

-----------------------------------------------------------------------------

ProcSteps == {"idle", "enqueue", "queued", "check", "creds", "wait",
              "fresh", "current", "renew", "refused", "saveCred", "saveRow",
              "work", "failing", "saveError", "done"}

Holding == {"fresh", "current", "renew", "refused", "saveCred", "saveRow"}

(* Types; the lock belongs to the one process that renews.                 *)
TypeOK ==
  /\ conn \in Row
  /\ cred \in 0..MaxTokens
  /\ shop \in [issued : 0..MaxTokens, live : SUBSET (1..MaxTokens)]
  /\ expired \in 0..MaxTokens
  /\ run \in [Runs -> {"NONE", "PENDING", "RUNNING", "SUCCEEDED", "FAILED"}]
  /\ tries \in [Runs -> 0..(MaxTries + MaxEvents)]
  /\ proc \in [Procs -> [pc : ProcSteps, row : Row, fresh : Row,
                         tok : 0..MaxTokens]]
  /\ lock \in Procs \cup {None}
  /\ \A p \in Procs : proc[p].pc \in Holding <=> lock = p
  /\ back \in [Callbacks ->
                [pc : {"idle", "exchange", "saveCred", "saveRow"},
                 state : States \cup {None}, tok : 0..MaxTokens]]
  /\ state \in [States -> {"none", "open", "consumed"}]

(* A refresh token is presented to the marketplace once, however many jobs *)
(* and requests find the tokens expired at the same time, unless the       *)
(* answer never reached the credentials (README.md:293).                   *)
TokenSpentOnce == past.again \subseteq past.orphaned

(* An authorization state is exchanged for tokens once, however often the  *)
(* browser repeats the redirect (consumeState, README.md:293).             *)
StateExchangedOnce == \A s \in States : past.exchanges[s] <= 1

\* What the marketplace takes only once is presented only once, by whichever
\* process and through whichever redirect.
SecretsSpentOnce == TokenSpentOnce /\ StateExchangedOnce

(* An import a user asked for ends, whatever the renewals, reconnections   *)
(* and disconnections around it, unless its job never reached the queue.   *)
RequestedRunEnds ==
  \A r \in Runs :
    (run[r] = "PENDING") ~>
      \/ run[r] \in {"SUCCEEDED", "FAILED"} /\ proc[r].pc = "done"
      \/ r \in faults.unqueued

=============================================================================
