SPECIFICATION Spec
CONSTANTS
    Users = {u1}
    Establishments = {e1}
    Settings = {s1}
    Scopes = {any, sp}
    ANY = any
    None = none
    MaxTime = 3
    MaxNumber = 1
    MaxWrites = 7
INVARIANTS
    NoAmbiguousRules
