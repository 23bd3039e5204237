\* Sign-ins, /start, refreshes and calls of one account and another, with faults.
SPECIFICATION Spec
CONSTANTS
    r1 = r1
    r2 = r2
    r3 = r3
    r4 = r4
    i1 = i1
    i2 = i2
    i3 = i3
    alice = alice
    bob = bob
    None = None
    Instances = {i1, i2, i3}
    Scripts = {i3}
    Requests = {r1, r2, r3}
    Users = {alice, bob}
    MaxGenerating = 1
    MaxFaults = 1
    MaxExpired = 2
SYMMETRY Symmetry
\* Every request may have been served.
CHECK_DEADLOCK FALSE
INVARIANTS
    TypeOK
    CurrentTokenLives
    ReplacedTokensRunOut
    RefusedOnlyWhenExpired
    KeySurvivesRestart
    IdTokenAccepted
    HandlersHaveTheirUser
