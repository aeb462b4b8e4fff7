SPECIFICATION OfficeSpec
CONSTANTS
  a = a
  b = b
  Users = {a, b}
  Establishments = {a, b}
  Settings = {s1}
  Scopes = {any, sp}
  ANY = any
  None = none
  MaxTime = 3
  MaxNumber = 2
  MaxWrites = 6
  p1 = p1
  p2 = p2
  p3 = p3
  l1 = l1
  Products <- MCProducts
  Listings = {l1}
  Keys = {a, b}
  Callers = {a, b}
  Suggested <- MCSuggested
  MaxUnits = 2
  MaxChanges = 4
  Persons = {a, b}
  Requests = {a, b}
  MaxSaves = 3
  Tabs = {t1}
  Asks = {a, b}
  MaxIssued = 3
  Loads = {a, b}
  Companies = {"A", "B"}
  Filters = {"x", "y"}
  MaxClicks = 3
SYMMETRY Symmetric
INVARIANTS
  OfficeTypeOK
  CompositionSound
  LinksSound
  AdministratorStays
  SessionOfThisPassword
  EndedStaysEnded
  PeriodsDisjoint
  ReadyAsReviewed
  ScreenShowsItsView
PROPERTIES
  NumberKnown
  ChangesAnnounced
  RolesComeFromAdministrators
CHECK_DEADLOCK FALSE
