-------------------------------- MODULE Calls -------------------------------
(***************************************************************************)
(* One operation of the Mercado Livre connector and the requests it makes: *)
(* MercadoLivreConnector over MercadoLivreApiClient, with or without the   *)
(* deadline of the notification worker (provider-request-budget).          *)
(*                                                                         *)
(* Every request goes through raw(): up to three attempts for a GET, one   *)
(* for anything else; a deadline leaves the repetition of a refusal for    *)
(* lack of capacity to the worker.  A timer ends an attempt until the      *)
(* status has come; nothing but the provider ends the reading of a body.   *)
(***************************************************************************)
EXTENDS Naturals, FiniteSets

CONSTANTS
  Items,        \* the listings of a page
  First         \* the request every operation begins with

VARIABLES
  operation,        \* the operation
  deadline,  \* "none", "ahead" or "past"
  sending,   \* the requests of the operation
  outcome    \* what the operation has returned: a result or an error

vars == <<operation, deadline, sending, outcome>>

Reads == {"products", "orders", "order", "user"}
Writes == {"stock", "price", "token"}

Slots == {First} \cup Items

\* The requests of an operation: a page of listings is read item by item.
Requested(o) == IF o = "products" THEN Slots ELSE {First}

Error(code, retryable) == [code |-> code, retryable |-> retryable]
NoError == Error("NONE", FALSE)
Result == Error("OK", FALSE)

\* sent counts the requests that left, refused that the provider lacked the
\* capacity for one; done tells what the provider did.
Fresh == [pc |-> "idle", attempt |-> 0, sent |-> 0, refused |-> FALSE,
          done |-> FALSE, error |-> NoError]

Init ==
  /\ operation \in Reads \cup Writes
  /\ deadline \in {"none", "ahead"}
  /\ sending = [s \in Slots |-> Fresh]
  /\ outcome = NoError

\* Between two steps of the program the deadline may pass.
Expire ==
  /\ deadline = "ahead"
  /\ deadline' = "past"
  /\ UNCHANGED <<operation, sending, outcome>>

-----------------------------------------------------------------------------
(* The connector.                                                          *)

\* What an operation finds wrong before it asks: no token, no account, a
\* quantity or a price that is none, a price of a variation, no settings.
Objections(o) ==
  CASE o = "stock" -> {"VALIDATION_ERROR", "INVALID_CREDENTIALS"}
    [] o = "price" -> {"OPERATION_NOT_SUPPORTED", "VALIDATION_ERROR",
                       "INVALID_CREDENTIALS"}
    [] o = "token" -> {"CONNECTOR_DISABLED"}
    [] o \in {"products", "orders"} -> {"INVALID_CREDENTIALS",
                                        "CONNECTION_NOT_READY"}
    [] OTHER -> {"INVALID_CREDENTIALS"}

Begun == \E s \in Slots : sending[s].pc # "idle"

Start ==
  /\ outcome = NoError /\ ~Begun
  /\ \/ /\ sending' = [sending EXCEPT ![First].pc = "ready"]
        /\ UNCHANGED outcome
     \/ /\ \E code \in Objections(operation) : outcome' = Error(code, FALSE)
        /\ UNCHANGED sending
  /\ UNCHANGED <<operation, deadline>>

\* importProducts: all the items of the page at once.
ReadItems ==
  /\ operation = "products" /\ outcome = NoError
  /\ sending[First].pc = "ok"
  /\ \A i \in Items : sending[i].pc = "idle"
  /\ sending' = [s \in Slots |-> IF s \in Items THEN [Fresh EXCEPT !.pc = "ready"]
                                                ELSE sending[s]]
  /\ UNCHANGED <<operation, deadline, outcome>>

\* Promise.all: the first failure is the failure of the page; the other items
\* are read on.
Complete(o) == \A s \in Requested(o) : sending[s].pc = "ok"

Finish ==
  /\ outcome = NoError
  /\ \/ Complete(operation) /\ outcome' = Result
     \/ /\ operation = "order" /\ Complete(operation)   \* of another account
        /\ outcome' = Error("RESOURCE_NOT_FOUND", FALSE)
     \/ \E s \in Slots : /\ sending[s].pc = "failed"
                         /\ outcome' = sending[s].error
  /\ UNCHANGED <<operation, deadline, sending>>

-----------------------------------------------------------------------------
(* raw().                                                                  *)

Fail(s, error) == [sending[s] EXCEPT !.pc = "failed", !.error = error]

Becomes(s, request) ==
  /\ sending' = [sending EXCEPT ![s] = request]
  /\ UNCHANGED <<operation, deadline, outcome>>

Expired == deadline = "past"

\* The remaining time is looked at before each attempt, the first one and those
\* that follow a pause.
Attempt(s) ==
  /\ sending[s].pc = "ready"
  /\ \/ /\ Expired
        /\ Becomes(s, Fail(s, Error("PROVIDER_TIMEOUT", TRUE)))
     \/ /\ ~Expired
        /\ Becomes(s, [sending[s] EXCEPT !.pc = "sent", !.sent = @ + 1])

Retryable_Always(o) == TRUE

Retryable(o) == o \in Reads

Again(s) == Retryable(operation) /\ sending[s].attempt < 2

Overloaded == {429, 502, 503, 504}
Statuses == Overloaded \cup {400, 401, 404, 500}

\* httpError; detailedHttpError only adds to the message.
Classified(status) ==
  CASE status = 429 -> Error("RATE_LIMITED", TRUE)
    [] status = 401 -> Error("REAUTH_REQUIRED", FALSE)
    [] status = 404 -> Error("RESOURCE_NOT_FOUND", FALSE)
    [] status >= 500 -> Error("PROVIDER_UNAVAILABLE", TRUE)
    [] OTHER -> Error("UNKNOWN_PROVIDER_ERROR", FALSE)

Accept(s) ==
  /\ sending[s].pc = "sent"
  /\ Becomes(s, [sending[s] EXCEPT !.pc = "body", !.done = TRUE])

\* Another status.  A gateway may give up on what the provider goes on to do.
Decline(s, status) ==
  /\ sending[s].pc = "sent"
  /\ \E done \in {sending[s].done, sending[s].done \/ status >= 500} :
       LET heard == [sending[s] EXCEPT
                       !.done = done,
                       !.refused = @ \/ status \in Overloaded]
       IN \/ /\ status \in Overloaded /\ deadline = "none" /\ Again(s)
             /\ Becomes(s, [heard EXCEPT !.pc = "ready", !.attempt = @ + 1])
          \/ /\ status \notin Overloaded \/ deadline # "none" \/ ~Again(s)
             /\ Becomes(s, [heard EXCEPT !.pc = "failed",
                                         !.error = Classified(status)])

\* The connection breaks or the timer ends the attempt, before or after the
\* provider has done what it was asked.
Break(s) ==
  /\ sending[s].pc = "sent"
  /\ \E done \in {sending[s].done, TRUE} :
       LET heard == [sending[s] EXCEPT !.done = done] IN
       \/ /\ Again(s)
          /\ Becomes(s, [heard EXCEPT !.pc = "ready", !.attempt = @ + 1])
       \/ /\ ~Again(s)
          /\ Becomes(s, [heard EXCEPT !.pc = "failed",
                           !.error = Error("PROVIDER_TIMEOUT", TRUE)])

\* parse.
ReadBody(s) ==
  /\ sending[s].pc = "body"
  /\ \/ Becomes(s, [sending[s] EXCEPT !.pc = "ok"])
     \/ Becomes(s, Fail(s, Error("INVALID_PROVIDER_RESPONSE", FALSE)))

-----------------------------------------------------------------------------

Send(s) ==
  \/ Attempt(s) \/ Accept(s) \/ Break(s) \/ ReadBody(s)
  \/ \E status \in Statuses : Decline(s, status)

Next ==
  \/ Expire
  \/ Start \/ ReadItems \/ Finish
  \/ \E s \in Slots : Send(s)

Spec == Init /\ [][Next]_vars

-----------------------------------------------------------------------------
(* Properties.                                                             *)

Steps == {"idle", "ready", "sent", "body", "ok", "failed"}

TypeOK ==
  /\ operation \in Reads \cup Writes
  /\ deadline \in {"none", "ahead", "past"}
  /\ \A s \in Slots :
       /\ sending[s].pc \in Steps /\ sending[s].attempt \in 0..2
       /\ sending[s].error # NoError <=> sending[s].pc = "failed"

\* What changes something at the provider, or spends a token, is asked once at
\* most; a GET at most three times.
AskedOnce ==
  \A s \in Slots : sending[s].sent <= IF operation \in Writes THEN 1 ELSE 3

\* Under a deadline the first refusal for lack of capacity goes back to the
\* worker at once, and no repetition of the request hides it.
DeadlineKept ==
  \A s \in Slots :
    deadline # "none" /\ sending[s].refused => sending[s].pc = "failed"

\* The caller can act on the outcome: success means that all of it was done
\* and heard, and a failure that will not be tried again means that a write
\* was not done, unless its answer could not be read.
OutcomeTold ==
  /\ outcome = Result => \A s \in Requested(operation) : sending[s].done
  /\ /\ outcome \notin {NoError, Result} /\ operation \in Writes
     /\ ~outcome.retryable /\ outcome.code # "INVALID_PROVIDER_RESPONSE"
     => ~sending[First].done

CallsKeepTheirLimits == AskedOnce /\ DeadlineKept /\ OutcomeTold

=============================================================================
