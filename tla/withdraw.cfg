\* Two withdrawals, with one API error, two database errors and one crash
\* anywhere; the row of the verification may be reset by hand.
SPECIFICATION Spec
CONSTANTS
    s1 = s1
    s2 = s2
    v1 = v1
    v2 = v2
    Senders = {s1, s2}
    Verifiers = {v1}
    LastTxn = 2
    Amount <- OneAndFive
    Resettable = {"verifyWithdraw"}
    MaxApiFaults = 1
    MaxDbFaults = 2
    MaxCrashes = 1
INVARIANTS
    TypeOK
    PaidAtMostOnce
    SuccessWasDelivered
    ProcessingCanBeVerified
PROPERTIES
    PayoutSpec
    OutcomeIsFinal
    PendingIsTakenUp
    
