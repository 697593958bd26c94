\* Two Sessions that compete for one of two desktops, with upstream references, probes,
\* snapshots and maintenance.
SPECIFICATION Spec
CONSTANTS
    s1 = s1
    s2 = s2
    b1 = b1
    b2 = b2
    Sessions = {s1, s2}
    MaxTurns = 1
    Bindings = {b1, b2}
    NoTurn = NoTurn
    NoBinding = NoBinding
    BindingOf <- MCBindingOf
    AdmissionKeys = {k1, k2}
    StopKeys = {x1}
    MaxRevision = 3
    ThreadRefs = {r1, r2}
    TurnRefs = {u1}
    NoRef = NoRef
SYMMETRY Symmetric
INVARIANTS
    OneActiveTurnPerDesktop
    ReferencesIdentify
    LeaseMatchesTurn
    MaintenanceExclusive
PROPERTIES
    ReferencesAreStable
    ImplementsOwnership
\* A Session whose revision is exhausted accepts no further change.
CHECK_DEADLOCK FALSE
