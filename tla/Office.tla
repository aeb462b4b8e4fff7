------------------------------- MODULE Office -------------------------------
(***************************************************************************)
(* What the users of a company work with, in five parts: the fiscal        *)
(* configuration (Fiscal), products with their kits and links (Catalogue), *)
(* the members of the company (Members), logins (Sessions) and the pages   *)
(* of the frontend (Screens).                                              *)
(*                                                                         *)
(* No two parts share a variable: of a session, a role or a product that   *)
(* is read elsewhere a part holds its own data.  A behaviour is therefore  *)
(* one of a part, chosen at the start, while the others rest in one        *)
(* initial state: interleaving them would add none to any of them.         *)
(***************************************************************************)
EXTENDS Fiscal

CONSTANTS
  Products, Listings, Keys, Callers, Suggested, MaxUnits, MaxChanges, \* Catalogue
  Persons, Requests, MaxSaves,                                     \* Members
  Tabs, Asks, MaxIssued,                                           \* Sessions
  Loads, Companies, Filters, MaxClicks                             \* Screens

VARIABLES
  part,
  status, edits, edit, kit, comp, stock, moved, told,
  offered, connected, link, audit, call,
  company, member, request, saves, overtaken,
  user, issued, links, cookie, tab, work, spent,
  page, view, shown, loads, timer, action, revision, crossed

fiscal == vars
catalogue == <<status, edits, edit, kit, comp, stock, moved, told,
               offered, connected, link, audit, call>>
members == <<company, member, request, saves, overtaken>>
sessions == <<user, issued, links, cookie, tab, work, spent>>
screens == <<page, view, shown, loads, timer, action, revision, crossed>>

Cat == INSTANCE Catalogue
         WITH Calls <- Callers, MaxWrites <- MaxChanges, writes <- edits
Mem == INSTANCE Members WITH Users <- Persons, Nobody <- None
Ses == INSTANCE Sessions
         WITH Pages <- Tabs, Calls <- Asks, page <- tab, call <- work,
              past <- spent
Scr == INSTANCE Screens
         WITH Requests <- Loads, MaxChanges <- MaxClicks, past <- crossed

ASSUME OfficeAssumption == Cat!ConstantsFit /\ Mem!ConstantsFit /\ Ses!ConstantsFit

\* The initial state in which a part rests while another is looked at.
Resting ==
  /\ part # "sessions" => ~user.verified
  /\ part # "screens" => page = Scr!OrdersPage /\ view = CHOOSE v \in Scr!Views : TRUE

OfficeInit ==
  /\ part \in {"fiscal", "catalogue", "members", "sessions", "screens"}
  /\ Init /\ Cat!Init /\ Mem!Init /\ Ses!Init /\ Scr!Init
  /\ Resting

OfficeNext ==
  /\ UNCHANGED part
  /\ \/ /\ part = "fiscal" /\ Next
        /\ UNCHANGED <<catalogue, members, sessions, screens>>
     \/ /\ part = "catalogue" /\ Cat!Next
        /\ UNCHANGED <<fiscal, members, sessions, screens>>
     \/ /\ part = "members" /\ Mem!Next
        /\ UNCHANGED <<fiscal, catalogue, sessions, screens>>
     \/ /\ part = "sessions" /\ Ses!Next
        /\ UNCHANGED <<fiscal, catalogue, members, screens>>
     \/ /\ part = "screens" /\ Scr!Next
        /\ UNCHANGED <<fiscal, catalogue, members, sessions>>

office == <<part, fiscal, catalogue, members, sessions, screens>>

OfficeSpec == OfficeInit /\ [][OfficeNext]_office

-----------------------------------------------------------------------------

\* Every variable of every part keeps its type.
OfficeTypeOK ==
  TypeOK /\ Cat!TypeOK /\ Mem!TypeOK /\ Ses!TypeOK /\ Scr!TypeOK

\* No kit is a part of itself, and none has stock of its own.
CompositionSound == Cat!CompositionSound

\* What changes the availability of a kit sends an event about it, through all
\* levels, unless it is the status of a product.
ChangesAnnounced == Cat!ChangesAnnounced

\* A listing never has two active links, an idempotency key has one effect, and
\* the audit rows account for the links.
LinksSound == Cat!LinksSound

\* A company keeps an active administrator, unless two requests overtook each
\* other.
AdministratorStays == Mem!AdministratorStays

\* Nobody but an administrator makes or unmakes administrators.
RolesComeFromAdministrators == Mem!RolesComeFromAdministrators

\* The session in the row was issued for the password in the row.
SessionOfThisPassword == Ses!SessionOfThisPassword

\* No refresh token and no mailed link has its effect twice, and an answer that
\* was under way at the logout does not log a page in again.
EndedStaysEnded == Ses!EndedStaysEnded

\* A page that disowns its requests ends up with what its user has chosen, and
\* one that hides the data of another company never draws it.
ScreenShowsItsView == Scr!ScreenShowsItsView

=============================================================================
