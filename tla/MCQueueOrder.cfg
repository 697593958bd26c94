\* Three requests at once for a queue of two.
SPECIFICATION QueueSpec
CONSTANTS
    e1 = e1
    e2 = e2
    e3 = e3
    c1 = c1
    p1 = p1
    r1 = r1
    k1 = k1
    k2 = k2
    t1 = t1
    t2 = t2
    Worker = Worker
    NoRow = NoRow
    Enqueues = {e1, e2, e3}
    Cancels = {}
    Polls = {}
    Revokes = {}
    KeyOf <- DistinctKeys
    TokenOf <- OneToken
    RowOf <- NoRows
    MaxDepth = 2
    Failures = {}
SYMMETRY Symmetric
INVARIANTS
    DepthBounded
    Fifo
\* Every call is answered and the worker ends with the queue empty.
CHECK_DEADLOCK FALSE
