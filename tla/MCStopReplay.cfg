\* A stop key resumed after its Session has moved on to a second Turn.
SPECIFICATION Spec
CONSTANTS
    s1 = s1
    s2 = s2
    b1 = b1
    b2 = b2
    Sessions = {s1}
    MaxTurns = 2
    Bindings = {b1}
    NoTurn = NoTurn
    NoBinding = NoBinding
    BindingOf <- MCBindingOf
    AdmissionKeys = {k1, k2}
    StopKeys = {x1, x2}
    MaxRevision = 5
    ThreadRefs = {r1}
    TurnRefs = {}
    NoRef = NoRef
SYMMETRY Symmetric
INVARIANT StopReplayable
