\* A request, its retry with another credential, a cancellation and a revocation, with errors.
SPECIFICATION QueueSpec
CONSTANTS
    e1 = e1
    e2 = e2
    e3 = e3
    c1 = c1
    p1 = p1
    r1 = r1
    k1 = k1
    k2 = k2
    t1 = t1
    t2 = t2
    Worker = Worker
    NoRow = NoRow
    Enqueues = {e1, e2}
    Cancels = {c1}
    Polls = {}
    Revokes = {r1}
    KeyOf <- RetryKeys
    TokenOf <- RetryTokens
    RowOf <- CancelsFirst
    MaxDepth = 2
    Failures = {"crash", "storage", "spawn", "panic"}
INVARIANTS
    QueueTypeOK
    QueuedHasPayload
    OneRequestPerKey
    BusyNeverStarted
