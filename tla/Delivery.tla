------------------------------ MODULE Delivery ------------------------------
(***************************************************************************)
(* What the handling of marketplace notifications promises about each      *)
(* event, without queue, locks, generations or workers: an event that is   *)
(* accepted is handled a bounded number of times and gets one outcome; one *)
(* that was handled with success is never touched again; others can be     *)
(* opened again by an administrator, with a new budget.                    *)
(***************************************************************************)
EXTENDS Naturals

CONSTANTS Events, MaxAttempts

VARIABLES outcome,  \* of each event
          starts    \* how often it was handled since it was opened

vars == <<outcome, starts>>

Ends(e, from, to) ==
  /\ outcome[e] \in from
  /\ outcome' = [outcome EXCEPT ![e] = to]

Accept(e) == Ends(e, {"unknown"}, "open") /\ UNCHANGED starts
Refuse(e) == Ends(e, {"unknown"}, "ignored") /\ UNCHANGED starts

Start(e) ==
  /\ outcome[e] = "open" /\ starts[e] < MaxAttempts
  /\ starts' = [starts EXCEPT ![e] = @ + 1]
  /\ UNCHANGED outcome

\* No outcome without an attempt.
Finish(e) == starts[e] > 0 /\ Ends(e, {"open"}, "done") /\ UNCHANGED starts
GiveUp(e) == starts[e] > 0 /\ Ends(e, {"open"}, "failed") /\ UNCHANGED starts

Reopen(e) == Ends(e, {"failed", "ignored"}, "open")
             /\ starts' = [starts EXCEPT ![e] = 0]

Dismiss(e) == Ends(e, {"failed"}, "ignored") /\ UNCHANGED starts

Init == outcome = [e \in Events |-> "unknown"] /\ starts = [e \in Events |-> 0]

Next ==
  \E e \in Events :
    \/ Accept(e) \/ Refuse(e) \/ Start(e) \/ Finish(e) \/ GiveUp(e)
    \/ Reopen(e) \/ Dismiss(e)

Spec == Init /\ [][Next]_vars
=============================================================================
