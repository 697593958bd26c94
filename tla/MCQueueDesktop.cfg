\* A request and a desktop that is taken.
SPECIFICATION QueueSpec
CONSTANTS
    e1 = e1
    e2 = e2
    e3 = e3
    c1 = c1
    p1 = p1
    r1 = r1
    k1 = k1
    k2 = k2
    t1 = t1
    t2 = t2
    Worker = Worker
    NoRow = NoRow
    Enqueues = {e1}
    Cancels = {}
    Polls = {}
    Revokes = {}
    KeyOf <- RetryKeys
    TokenOf <- OneToken
    RowOf <- NoRows
    MaxDepth = 1
    Failures = {}
INVARIANTS
    WaitsForTheDesktop
\* Every call is answered and the worker ends with the queue empty.
CHECK_DEADLOCK FALSE
