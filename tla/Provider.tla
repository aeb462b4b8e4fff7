------------------------------ MODULE Provider ------------------------------
(***************************************************************************)
(* What talks to Mercado Livre for one account, in four parts: the         *)
(* connection and its tokens (Connection), the requests of one operation   *)
(* (Calls), the scan of the orders (Scan), and a notification compared     *)
(* with the stock (Notices).                                               *)
(*                                                                         *)
(* Each part holds what it needs of the others as data or as a failure     *)
(* that may come at any step (no token, a call that breaks), and no two    *)
(* share a variable.  A behaviour is therefore one of a part, chosen at    *)
(* the start, while the others rest in one initial state: interleaving     *)
(* them would add none to any of them.                                     *)
(***************************************************************************)
EXTENDS Connection

CONSTANTS
  Items, First,                                                 \* Calls
  Scanners, NumOrders, PageSize, MaxPages, Overlap, LockTime, MaxTime, \* Scan
  Handlers, Quantities, MaxVersion, MaxTampers                  \* Notices

VARIABLES
  part,
  operation, deadline, sending, outcome,
  now, updated, due, row, scanner, given_up,
  stock, shown, sync, last, link, listed, open, handler, held, tampers, noted

connection == vars
calls == <<operation, deadline, sending, outcome>>
scan == <<now, updated, due, row, scanner, given_up>>
notices == <<stock, shown, sync, last, link, listed, open, handler, held,
             tampers, noted>>

C == INSTANCE Calls
S == INSTANCE Scan
N == INSTANCE Notices WITH Nobody <- None, lock <- held, past <- noted

ASSUME ProviderAssumption == S!ConstantsFit /\ N!ConstantsFit

\* The initial state in which a part rests while another is looked at.
Resting ==
  /\ part # "connection" => cred = 0
  /\ part # "calls" => operation = "order" /\ deadline = "none"
  /\ part # "notices" => stock.available = shown /\ shown = 0

ProviderInit ==
  /\ part \in {"connection", "calls", "scan", "notices"}
  /\ Init /\ C!Init /\ S!Init /\ N!Init
  /\ Resting

ProviderNext ==
  /\ UNCHANGED part
  /\ \/ part = "connection" /\ Next /\ UNCHANGED <<calls, scan, notices>>
     \/ part = "calls" /\ C!Next /\ UNCHANGED <<connection, scan, notices>>
     \/ part = "scan" /\ S!Next /\ UNCHANGED <<connection, calls, notices>>
     \/ part = "notices" /\ N!Next /\ UNCHANGED <<connection, calls, scan>>

provider == <<part, connection, calls, scan, notices>>

ProviderSpec == ProviderInit /\ [][ProviderNext]_provider /\ Fairness

-----------------------------------------------------------------------------

\* Every variable of every part keeps its type.
ProviderTypeOK == TypeOK /\ C!TypeOK /\ S!TypeOK /\ N!TypeOK

\* Requests are sent within their limits, and what a caller is told of the
\* outcome is true.
CallsKeepTheirLimits == C!CallsKeepTheirLimits

\* No update of an order is behind the date that later scans ask from, unless
\* a scan was cut or took longer than the overlap.
NoUpdateSlips == S!NoUpdateSlips

\* The same divergence is not open twice, however many notifications report it.
NoTwinDivergence == N!NoTwinDivergence

\* What is called a change by somebody else is one, unless a synchronisation
\* was under way.
AlarmsAreReal == N!AlarmsAreReal

=============================================================================
