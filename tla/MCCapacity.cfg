\* Two admissions of a request, a cancellation and another operation, with failures.
SPECIFICATION FairCapacitySpec
CONSTANTS
    a1 = a1
    a2 = a2
    c1 = c1
    e1 = e1
    Admits = {a1, a2}
    Cancels = {c1}
    Exclusives = {e1}
    NoCall = NoCall
    Failures = {"panic", "storage"}
INVARIANTS
    CapacityTypeOK
    SlotHasOneHolder
    AnswersHold
    CancelledIsQuiet
    UnknownOnlyIfUnconfirmed
PROPERTIES
    ReplayIsFinal
    EveryCallReturns
\* Every call returns in the end.
CHECK_DEADLOCK FALSE
