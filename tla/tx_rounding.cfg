\* Number() rounds the amounts that the balance check compares.
SPECIFICATION Spec
CONSTANTS
    r1 = r1
    r2 = r2
    r3 = r3
    r4 = r4
    alice = alice
    bob = bob
    system = system
    event = event
    None = None
    Requests = {r1, r2, r3}
    Accounts = {alice, bob, system}
    UserAccounts = {alice, bob}
    Refs = {event}
    Inputs <- RoundedInputs
    Number <- RoundedNumber
SYMMETRY Symmetry
\* Every request may have been served.
CHECK_DEADLOCK FALSE
INVARIANT NoOverdraft
