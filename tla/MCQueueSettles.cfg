\* A request, its retry and a poll: fair threads and a clock, shutdowns and restarts.
SPECIFICATION FairQueueSpec
CONSTANTS
    e1 = e1
    e2 = e2
    e3 = e3
    c1 = c1
    p1 = p1
    r1 = r1
    k1 = k1
    k2 = k2
    t1 = t1
    t2 = t2
    Worker = Worker
    NoRow = NoRow
    Enqueues = {e1, e2}
    Cancels = {}
    Polls = {p1}
    Revokes = {}
    KeyOf <- RetryKeys
    TokenOf <- OneToken
    RowOf <- PollsFirst
    MaxDepth = 2
    Failures = {"stop"}
INVARIANTS
    PayloadIsOwed
    WorkerOwed
PROPERTIES
    QueuedSettles
