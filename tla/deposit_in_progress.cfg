\* Nothing fails, and a deposit is read while it is in progress.
SPECIFICATION Spec
CONSTANTS
    t1 = t1
    t2 = t2
    Ticks = {t1, t2}
    LastEvent = 2
    ann = ann
    bob = bob
    home = home
    None = None
    Undefined = Undefined
    Users = {ann, bob}
    FirstUsers = {bob}
    Accounts = {home}
    Kind <- OnlyUsdt
    Sender <- FromHome
    Comment <- AllBob
    PageSize = 2
    MaxChanges = 0
    MaxFaults = 0
PROPERTY SettledIsCredited
