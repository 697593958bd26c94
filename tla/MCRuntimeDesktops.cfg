\* Two Turns, of one Session or on two desktops, with every failure.
SPECIFICATION RuntimeSpec
CONSTANTS
    s1 = s1
    s2 = s2
    b1 = b1
    b2 = b2
    Sessions = {s1, s2}
    MaxTurns = 2
    Bindings = {b1, b2}
    NoTurn = NoTurn
    NoBinding = NoBinding
    BindingOf <- MCTwoDesktops
    AdmissionKeys = {k1, k2}
    StopKeys = {x1, x2}
    MaxRevision = 8
    ThreadRefs = {r1}
    TurnRefs = {u1, u2}
    NoRef = NoRef
    Faults = {"restart", "heartbeat", "spawn", "stop_io"}
SYMMETRY Symmetric
INVARIANTS
    RuntimeTypeOK
    UpstreamOwned
    StopClaimStaysValid
    NoOrphan
    InFlightHasOneHolder
