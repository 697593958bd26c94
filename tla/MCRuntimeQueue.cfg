\* One Turn, two stops, no failure.
SPECIFICATION RuntimeSpec
CONSTANTS
    s1 = s1
    s2 = s2
    b1 = b1
    b2 = b2
    Sessions = {s1}
    MaxTurns = 1
    Bindings = {b1}
    NoTurn = NoTurn
    NoBinding = NoBinding
    BindingOf <- MCOneDesktop
    AdmissionKeys = {k1}
    StopKeys = {x1, x2}
    MaxRevision = 8
    ThreadRefs = {r1}
    TurnRefs = {u1}
    NoRef = NoRef
    Faults = {}
INVARIANT QueueNamesOpenTurns
