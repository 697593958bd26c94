---------------------------- MODULE ControlLeases ----------------------------
(***************************************************************************)
(* The two lease tables of the Host store: control_leases, one row per     *)
(* desktop binding, held by a Turn, a readiness probe or a desktop         *)
(* snapshot; and maintenance_leases, one row for the whole Host.  Each     *)
(* action is one immediate SQLite transaction.  The Turn side of the       *)
(* tables is in HostStore, which takes its steps together with these.      *)
(*                                                                         *)
(* Heartbeats, owner process identities and acquisition times are left     *)
(* out: no decision about who owns a desktop depends on them.  The setup   *)
(* ledger that accompanies a maintenance lease is left out too, so the     *)
(* steps that depend on the state of a setup run may always happen.        *)
(***************************************************************************)
EXTENDS Integers, TurnLifecycle

CONSTANTS
    Sessions,   \* session ids, each used at most once
    MaxTurns,   \* bound: the Turns one Session may have
    Bindings,   \* desktop bindings of the Host
    NoTurn,     \* not a Turn
    NoBinding   \* not a desktop binding

ASSUME MaxTurnsAssumption == MaxTurns \in Nat \ {0}

ASSUME NoBindingAssumption == NoBinding \notin Bindings

\* A Turn is its Session and its ordinal within it.
Turns == Sessions \X (1..MaxTurns)

ASSUME NoTurnAssumption == NoTurn \notin Turns

ProbeKinds  == {"native_probe", "provider_probe"}
OwnerKinds  == ProbeKinds \cup {"turn", "desktop_snapshot"}
LeaseStates == {"active", "recovery_pending"}

VARIABLES
    ownerKind,    \* ownerKind[b]: what holds binding b, or "none"
    leaseTurn,    \* leaseTurn[b]: the Turn that holds b, or NoTurn
    leaseState,   \* leaseState[b]: the state of the row for b, or "none"
    maintenance,  \* the state of the maintenance lease, or "none"
    postcheck     \* the binding whose control lease carries the operation id
                  \* of the maintenance lease, or NoBinding

leaseVars == <<ownerKind, leaseTurn, leaseState, maintenance, postcheck>>

LeaseTypeOK ==
    /\ ownerKind \in [Bindings -> OwnerKinds \cup {"none"}]
    /\ leaseTurn \in [Bindings -> Turns \cup {NoTurn}]
    /\ leaseState \in [Bindings -> LeaseStates \cup {"none"}]
    /\ maintenance \in LeaseStates \cup {"none"}
    /\ postcheck \in Bindings \cup {NoBinding}

LeaseInit ==
    /\ ownerKind = [b \in Bindings |-> "none"]
    /\ leaseTurn = [b \in Bindings |-> NoTurn]
    /\ leaseState = [b \in Bindings |-> "none"]
    /\ maintenance = "none"
    /\ postcheck = NoBinding

-----------------------------------------------------------------------------
\* Mutant: a lease kept for recovery does not refuse a new owner.
ensure_no_active_control_lease(b) ==
    /\ maintenance = "none"
    /\ leaseState[b] # "active"

\* Mutant: maintenance is not looked at.
ensure_no_control_lease(b) == ownerKind[b] = "none"

\* A maintenance lease in any state, or a lease on this binding in any state,
\* refuses a new owner.  Freshness of the heartbeat never matters.
ensure_control_lease_available(b) ==
    /\ maintenance = "none"
    /\ ownerKind[b] = "none"

insert_control_lease(b, kind, turn) ==
    /\ ownerKind' = [ownerKind EXCEPT ![b] = kind]
    /\ leaseTurn' = [leaseTurn EXCEPT ![b] = turn]
    /\ leaseState' = [leaseState EXCEPT ![b] = "active"]

DeleteControlLease(b) ==
    /\ ownerKind' = [ownerKind EXCEPT ![b] = "none"]
    /\ leaseTurn' = [leaseTurn EXCEPT ![b] = NoTurn]
    /\ leaseState' = [leaseState EXCEPT ![b] = "none"]

\* A standalone readiness probe or a provider-secret provisioning takes b.
begin_readiness_probe(b, kind) ==
    /\ ensure_control_lease_available(b)
    /\ insert_control_lease(b, kind, NoTurn)
    /\ UNCHANGED <<maintenance, postcheck>>

\* A standalone probe is one whose operation id is not the maintenance one.
StandaloneProbe(b) == ownerKind[b] \in ProbeKinds /\ b # postcheck

\* A probe that passed, failed or timed out gives the desktop back.
release_probe(b) ==
    /\ StandaloneProbe(b)
    /\ leaseState[b] = "active"
    /\ DeleteControlLease(b)
    /\ UNCHANGED <<maintenance, postcheck>>

\* A probe whose outcome is unknown keeps it.
retain_probe_recovery(b) ==
    /\ StandaloneProbe(b)
    /\ leaseState[b] = "active"
    /\ leaseState' = [leaseState EXCEPT ![b] = "recovery_pending"]
    /\ UNCHANGED <<ownerKind, leaseTurn, maintenance, postcheck>>

release_reconciled_probe(b) ==
    /\ StandaloneProbe(b)
    /\ leaseState[b] = "recovery_pending"
    /\ DeleteControlLease(b)
    /\ UNCHANGED <<maintenance, postcheck>>

begin_desktop_snapshot(b) ==
    /\ ensure_control_lease_available(b)
    /\ insert_control_lease(b, "desktop_snapshot", NoTurn)
    /\ UNCHANGED <<maintenance, postcheck>>

release_snapshot_lease(b) ==
    /\ ownerKind[b] = "desktop_snapshot"
    /\ DeleteControlLease(b)
    /\ UNCHANGED <<maintenance, postcheck>>

-----------------------------------------------------------------------------
HeldBindings == {b \in Bindings : ownerKind[b] # "none"}

\* Mutant: owners kept for recovery do not refuse maintenance.
begin_setup_run_beside_recovery ==
    /\ maintenance = "none"
    /\ \A b \in Bindings : leaseState[b] # "active"
    /\ maintenance' = "active"
    /\ UNCHANGED <<ownerKind, leaseTurn, leaseState, postcheck>>

\* Maintenance starts only when no desktop of the Host is owned at all.
begin_setup_run ==
    /\ maintenance = "none"
    /\ HeldBindings = {}
    /\ maintenance' = "active"
    /\ UNCHANGED <<ownerKind, leaseTurn, leaseState, postcheck>>

\* The maintenance owner adds a native-readiness control lease that carries
\* its own operation id.
begin_maintenance_postcheck(b) ==
    /\ maintenance = "active"
    /\ HeldBindings = {}
    /\ insert_control_lease(b, "native_probe", NoTurn)
    /\ postcheck' = b
    /\ UNCHANGED maintenance

\* A known postcheck result ends the maintenance and both leases; an unknown
\* one keeps both for recovery.
finish_maintenance_postcheck(b, known) ==
    /\ maintenance = "active"
    /\ postcheck = b
    /\ ownerKind[b] = "native_probe"
    /\ leaseState[b] = "active"
    /\ IF known
       THEN /\ DeleteControlLease(b)
            /\ maintenance' = "none"
            /\ postcheck' = NoBinding
       ELSE /\ leaseState' = [leaseState EXCEPT ![b] = "recovery_pending"]
            /\ maintenance' = "recovery_pending"
            /\ UNCHANGED <<ownerKind, leaseTurn, postcheck>>

\* finish_setup_run_and_release_maintenance and complete_bootstrap_maintenance.
release_active_maintenance ==
    /\ maintenance = "active"
    /\ postcheck = NoBinding
    /\ maintenance' = "none"
    /\ UNCHANGED <<ownerKind, leaseTurn, leaseState, postcheck>>

\* The operation guard is dropped without a result.  Every control lease on the
\* Host has to be the active half of this maintenance, and moves with it.
retain_lease_recovery ==
    /\ maintenance = "active"
    /\ \A b \in HeldBindings : b = postcheck /\ leaseState[b] = "active"
    /\ leaseState' = [b \in Bindings |->
                        IF b = postcheck THEN "recovery_pending" ELSE leaseState[b]]
    /\ maintenance' = "recovery_pending"
    /\ UNCHANGED <<ownerKind, leaseTurn, postcheck>>

\* Restart-preserved maintenance is released once its postconditions have been
\* verified, never while a postcheck lease is attached to it.
reconcile_maintenance_after_restart ==
    /\ maintenance = "recovery_pending"
    /\ postcheck = NoBinding
    /\ maintenance' = "none"
    /\ UNCHANGED <<ownerKind, leaseTurn, leaseState, postcheck>>

\* A new owner takes an interrupted maintenance over; an attached postcheck
\* lease is left as it is.
adopt_recovery_maintenance ==
    /\ maintenance = "recovery_pending"
    /\ maintenance' = "active"
    /\ UNCHANGED <<ownerKind, leaseTurn, leaseState, postcheck>>

\* Mutant: the leases of interrupted Turns stay active.
RestartLeases_probes_only(turns) ==
    LET given == {b \in Bindings : ownerKind[b] = "desktop_snapshot"}
        kept  == {b \in Bindings : ownerKind[b] \in ProbeKinds}
    IN  /\ ownerKind' = [b \in Bindings |-> IF b \in given THEN "none" ELSE ownerKind[b]]
        /\ leaseTurn' = [b \in Bindings |-> IF b \in given THEN NoTurn ELSE leaseTurn[b]]
        /\ leaseState' = [b \in Bindings |-> CASE b \in given -> "none"
                                               [] b \in kept  -> "recovery_pending"
                                               [] OTHER       -> leaseState[b]]
        /\ maintenance' = IF maintenance = "none" THEN "none" ELSE "recovery_pending"
        /\ UNCHANGED postcheck

\* Opening the store: snapshots are given up; probes and maintenance are kept
\* for recovery, and so is the lease of every Turn in turns.  Three transactions of the start,
\* before anything is served: recover_desktop_snapshots, the maintenance part of
\* mark_interrupted_setup_actions_outcome_unknown, mark_restart_recovery_pending.
RestartLeases(turns) ==
    LET given == {b \in Bindings : ownerKind[b] = "desktop_snapshot"}
        kept  == {b \in Bindings : ownerKind[b] \in ProbeKinds \/ leaseTurn[b] \in turns}
    IN  /\ ownerKind' = [b \in Bindings |-> IF b \in given THEN "none" ELSE ownerKind[b]]
        /\ leaseTurn' = [b \in Bindings |-> IF b \in given THEN NoTurn ELSE leaseTurn[b]]
        /\ leaseState' = [b \in Bindings |-> CASE b \in given -> "none"
                                               [] b \in kept  -> "recovery_pending"
                                               [] OTHER       -> leaseState[b]]
        /\ maintenance' = IF maintenance = "none" THEN "none" ELSE "recovery_pending"
        /\ UNCHANGED postcheck

\* A step of a probe, a snapshot or the maintenance owner.
OperationalStep ==
    \/ \E b \in Bindings :
        \/ \E kind \in ProbeKinds : begin_readiness_probe(b, kind)
        \/ release_probe(b)
        \/ retain_probe_recovery(b)
        \/ release_reconciled_probe(b)
        \/ begin_desktop_snapshot(b)
        \/ release_snapshot_lease(b)
        \/ begin_maintenance_postcheck(b)
        \/ \E known \in BOOLEAN : finish_maintenance_postcheck(b, known)
    \/ begin_setup_run
    \/ release_active_maintenance
    \/ retain_lease_recovery
    \/ reconcile_maintenance_after_restart
    \/ adopt_recovery_maintenance
=============================================================================
