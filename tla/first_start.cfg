\* A first start: no key file, and nothing fails.
SPECIFICATION Spec
CONSTANTS
    r1 = r1
    r2 = r2
    r3 = r3
    r4 = r4
    i1 = i1
    i2 = i2
    i3 = i3
    alice = alice
    bob = bob
    None = None
    Instances = {i1, i2}
    Scripts = {}
    Requests = {r1}
    Users = {alice}
    MaxGenerating = 2
    MaxFaults = 0
    MaxExpired = 1
SYMMETRY Symmetry
\* Every request may have been served.
CHECK_DEADLOCK FALSE
INVARIANT SignedTokensVerify
