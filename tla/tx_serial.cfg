\* Four requests, those on one account one after the other.
SPECIFICATION SerialSpec
CONSTANTS
    r1 = r1
    r2 = r2
    r3 = r3
    r4 = r4
    alice = alice
    bob = bob
    system = system
    event = event
    None = None
    Requests = {r1, r2, r3, r4}
    Accounts = {alice, bob, system}
    UserAccounts = {alice, bob}
    Refs = {event}
    Inputs <- SerialInputs
    Number <- ExactNumber
\* Every request may have been served.
SYMMETRY Symmetry
CHECK_DEADLOCK FALSE
INVARIANTS
    SolventWithdrawals
    OneWalletPerAccount
    RefIdUnique
PROPERTY
    LedgerSpec
