\* Three events over pages of two, with two sign-ups or updates of users, and one
\* call to the API or the database or one process that fails anywhere.
SPECIFICATION Spec
CONSTANTS
    t1 = t1
    t2 = t2
    Ticks = {t1, t2}
    LastEvent = 3
    ann = ann
    bob = bob
    home = home
    None = None
    Undefined = Undefined
    Users = {ann, bob}
    FirstUsers = {bob}
    Accounts = {home}
    Kind <- Mixed
    Sender <- FromHome
    Comment <- BobFirst
    PageSize = 2
    MaxChanges = 2
    MaxFaults = 1
INVARIANTS
    TypeOK
    CreditedAtMostOnce
    CursorAccounted
    CreditedToOwner
    SuccessWasCredited
PROPERTIES
    CursorMonotone
    DepositsDealtWith
