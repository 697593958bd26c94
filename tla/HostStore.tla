------------------------------ MODULE HostStore ------------------------------
(***************************************************************************)
(* The durable state of a Host Daemon: Sessions and their Turns, control   *)
(* leases, idempotency records of run, steer and stop requests, and        *)
(* admission cancellations.  Every action is one immediate SQLite          *)
(* transaction of crates/satelle/src/host/storage; a path of the code that *)
(* returns an error or replays a recorded result changes nothing and is a  *)
(* stuttering step.  Callers are arbitrary here: any transaction may run   *)
(* whenever its own checks let it.  HostRuntime adds the threads that call *)
(* them.                                                                   *)
(*                                                                         *)
(* An idempotency key stands for the principal, the operation, the key and *)
(* the request digest together.                                            *)
(***************************************************************************)
EXTENDS ControlLeases

CONSTANTS
    BindingOf,       \* the desktop binding of each Session
    AdmissionKeys,   \* idempotency keys of run and steer requests
    StopKeys,        \* idempotency keys of stop requests
    MaxRevision,     \* the largest revision (u64::MAX in the code)
    ThreadRefs,      \* upstream thread references
    TurnRefs,        \* upstream turn references
    NoRef            \* no reference observed

ASSUME BindingOfAssumption == BindingOf \in [Sessions -> Bindings]

ASSUME MaxRevisionAssumption == MaxRevision \in Nat \ {0}

ASSUME NoRefAssumption == NoRef \notin ThreadRefs \cup TurnRefs

VARIABLES
    turnState,          \* turns.state; "absent" before, "deleted" after its life
    turnRev,            \* turns.turn_state_revision
    sessionRev,         \* sessions.session_state_revision
    turnCount,          \* number of Turns of a Session
    threadRef,          \* session_private_refs.upstream_thread_ref
    turnRef,            \* turn_private_refs.upstream_turn_ref
    admissionTurn,      \* run and steer records: the Turn they admitted
    admissionOutcome,   \*   durable_outcome
    admissionRevision,  \*   result_session_state_revision (0: NULL)
    stopTurn,           \* stop records: the Turn they name
    stopOutcome,        \*   durable_outcome
    stopRevision,       \*   result_session_state_revision (0: NULL)
    cancellation        \* admission_cancellations.outcome

turnVars      == <<turnState, turnRev, sessionRev, turnCount>>
refVars       == <<threadRef, turnRef>>
admissionVars == <<admissionTurn, admissionOutcome, admissionRevision>>
stopVars      == <<stopTurn, stopOutcome, stopRevision>>
storeVars     == <<turnVars, refVars, admissionVars, stopVars, cancellation>>
vars          == <<leaseVars, storeVars>>

Revisions     == 0..MaxRevision
StopOutcomes  == {"pending", "stopped", "already_terminal", "not_confirmed"}
Cancellations == {"cancelled", "recovery_pending"}

TypeOK ==
    /\ LeaseTypeOK
    /\ turnState \in [Turns -> TurnStates \cup {"absent", "deleted"}]
    /\ turnRev \in [Turns -> Revisions]
    /\ sessionRev \in [Sessions -> Revisions]
    /\ turnCount \in [Sessions -> 0..MaxTurns]
    /\ threadRef \in [Sessions -> ThreadRefs \cup {NoRef}]
    /\ turnRef \in [Turns -> TurnRefs \cup {NoRef}]
    /\ admissionTurn \in [AdmissionKeys -> Turns \cup {NoTurn}]
    /\ admissionOutcome \in [AdmissionKeys -> TurnStates \cup {"none"}]
    /\ admissionRevision \in [AdmissionKeys -> Revisions]
    /\ stopTurn \in [StopKeys -> Turns \cup {NoTurn}]
    /\ stopOutcome \in [StopKeys -> StopOutcomes \cup {"none"}]
    /\ stopRevision \in [StopKeys -> Revisions]
    /\ cancellation \in [AdmissionKeys -> Cancellations \cup {"none"}]

Init ==
    /\ LeaseInit
    /\ turnState = [t \in Turns |-> "absent"]
    /\ turnRev = [t \in Turns |-> 0]
    /\ sessionRev = [s \in Sessions |-> 0]
    /\ turnCount = [s \in Sessions |-> 0]
    /\ threadRef = [s \in Sessions |-> NoRef]
    /\ turnRef = [t \in Turns |-> NoRef]
    /\ admissionTurn = [k \in AdmissionKeys |-> NoTurn]
    /\ admissionOutcome = [k \in AdmissionKeys |-> "none"]
    /\ admissionRevision = [k \in AdmissionKeys |-> 0]
    /\ stopTurn = [k \in StopKeys |-> NoTurn]
    /\ stopOutcome = [k \in StopKeys |-> "none"]
    /\ stopRevision = [k \in StopKeys |-> 0]
    /\ cancellation = [k \in AdmissionKeys |-> "none"]

-----------------------------------------------------------------------------
(* Building blocks.                                                        *)

Stored(t)      == turnState[t] \in TurnStates
Active(t)      == turnState[t] \in ActiveStates
Terminal(t)    == turnState[t] \in TerminalStates
LastTurn(s)    == <<s, turnCount[s]>>
TurnBinding(t) == BindingOf[t[1]]

\* The pair of revisions a caller holds when it has just read the Session.
CurrentRevisions(t) == <<sessionRev[t[1]], turnRev[t]>>

\* Mutant: a pending stop keeps nothing out.
ensure_no_pending_stop_ignored(t) == t \in Turns

ensure_no_pending_stop(t) ==
    \A k \in StopKeys : ~(stopTurn[k] = t /\ stopOutcome[k] = "pending")

\* Mutant: the revision is incremented without checked_add.
commit_turn_state_unchecked(t, state) ==
    /\ turnState' = [turnState EXCEPT ![t] = state]
    /\ turnRev' = [turnRev EXCEPT ![t] = @ + 1]
    /\ sessionRev' = [sessionRev EXCEPT ![t[1]] = @ + 1]
    /\ UNCHANGED turnCount

\* Mutant: only the Turn revision advances.
commit_turn_state_turn_only(t, state) ==
    /\ turnRev[t] < MaxRevision
    /\ turnState' = [turnState EXCEPT ![t] = state]
    /\ turnRev' = [turnRev EXCEPT ![t] = @ + 1]
    /\ UNCHANGED <<sessionRev, turnCount>>

\* Both revisions advance by one with every committed change of a Turn.
commit_turn_state(t, state) ==
    /\ sessionRev[t[1]] < MaxRevision
    /\ turnRev[t] < MaxRevision
    /\ turnState' = [turnState EXCEPT ![t] = state]
    /\ turnRev' = [turnRev EXCEPT ![t] = @ + 1]
    /\ sessionRev' = [sessionRev EXCEPT ![t[1]] = @ + 1]
    /\ UNCHANGED turnCount

\* Mutant: a retained lease is always refreshed as active.
synchronize_control_lease_active(t, state) ==
    LET b == TurnBinding(t) IN
    /\ leaseTurn[b] = t
    /\ IF state \in TerminalStates
       THEN DeleteControlLease(b)
       ELSE /\ leaseState' = [leaseState EXCEPT ![b] = "active"]
            /\ UNCHANGED <<ownerKind, leaseTurn>>
    /\ UNCHANGED <<maintenance, postcheck>>

\* The row of the Turn has to be there; it goes when the Turn is terminal.
synchronize_control_lease(t, state) ==
    LET b == TurnBinding(t) IN
    /\ leaseTurn[b] = t
    /\ IF state \in TerminalStates
       THEN DeleteControlLease(b)
       ELSE /\ leaseState' = [leaseState EXCEPT ![b] =
                    IF state = "recovery_pending" THEN "recovery_pending" ELSE "active"]
            /\ UNCHANGED <<ownerKind, leaseTurn>>
    /\ UNCHANGED <<maintenance, postcheck>>

ensure_control_lease_absent(t) == \A b \in Bindings : leaseTurn[b] # t

ensure_control_lease_present(t) == \E b \in Bindings : leaseTurn[b] = t

RecordsOf(t) == {k \in AdmissionKeys : admissionTurn[k] = t}

\* Mutant: the result revision is the one read before the change.
update_turn_idempotency_stale(t, state) ==
    \E k \in AdmissionKeys :
        /\ RecordsOf(t) = {k}
        /\ admissionOutcome' = [admissionOutcome EXCEPT ![k] = state]
        /\ admissionRevision' = [admissionRevision EXCEPT ![k] =
                IF state \in TerminalStates THEN sessionRev[t[1]] ELSE 0]
        /\ UNCHANGED admissionTurn

\* Exactly one run or steer record names the Turn and follows its state.
update_turn_idempotency(t, state) ==
    \E k \in AdmissionKeys :
        /\ RecordsOf(t) = {k}
        /\ admissionOutcome' = [admissionOutcome EXCEPT ![k] = state]
        /\ admissionRevision' = [admissionRevision EXCEPT ![k] =
                IF state \in TerminalStates THEN sessionRev'[t[1]] ELSE 0]
        /\ UNCHANGED admissionTurn

\* Mutant: a completed record may be completed again.
complete_stop_idempotency_twice(k, outcome, revision) ==
    /\ stopOutcome' = [stopOutcome EXCEPT ![k] = outcome]
    /\ stopRevision' = [stopRevision EXCEPT ![k] = revision]
    /\ UNCHANGED stopTurn

complete_stop_idempotency(k, outcome, revision) ==
    /\ stopOutcome[k] = "pending"
    /\ stopOutcome' = [stopOutcome EXCEPT ![k] = outcome]
    /\ stopRevision' = [stopRevision EXCEPT ![k] = revision]
    /\ UNCHANGED stopTurn

-----------------------------------------------------------------------------
(* Admission.                                                              *)

\* The Turn takes the desktop and its record in the transaction that stores it.
AdmitTurn(k, t) ==
    /\ ensure_control_lease_available(TurnBinding(t))
    /\ insert_control_lease(TurnBinding(t), "turn", t)
    /\ turnState' = [turnState EXCEPT ![t] = "starting"]
    /\ turnRev' = [turnRev EXCEPT ![t] = 1]
    /\ turnCount' = [turnCount EXCEPT ![t[1]] = t[2]]
    /\ admissionTurn' = [admissionTurn EXCEPT ![k] = t]
    /\ admissionOutcome' = [admissionOutcome EXCEPT ![k] = "starting"]
    /\ admissionRevision' = [admissionRevision EXCEPT ![k] = 0]
    /\ UNCHANGED <<maintenance, postcheck, refVars, stopVars, cancellation>>

\* Mutant: the cancellation of the key is not looked up.
begin_session_uncancelled(k, s) ==
    /\ admissionTurn[k] = NoTurn
    /\ turnState[<<s, 1>>] = "absent"
    /\ AdmitTurn(k, <<s, 1>>)
    /\ sessionRev' = [sessionRev EXCEPT ![s] = 1]

\* A recorded key is replayed, a cancelled key is refused; session ids are fresh.
begin_session(k, s) ==
    /\ admissionTurn[k] = NoTurn
    /\ cancellation[k] = "none"
    /\ turnState[<<s, 1>>] = "absent"
    /\ AdmitTurn(k, <<s, 1>>)
    /\ sessionRev' = [sessionRev EXCEPT ![s] = 1]

begin_follow_up(k, s, expected) ==
    /\ admissionTurn[k] = NoTurn
    /\ cancellation[k] = "none"
    /\ turnCount[s] \in 1..(MaxTurns - 1)
    /\ Terminal(LastTurn(s))
    /\ threadRef[s] # NoRef
    /\ sessionRev[s] = expected
    /\ sessionRev[s] < MaxRevision
    /\ AdmitTurn(k, <<s, turnCount[s] + 1>>)
    /\ sessionRev' = [sessionRev EXCEPT ![s] = @ + 1]

\* Mutant: the reference may belong to another Session.
record_thread_ref_shared(s, r) ==
    /\ turnCount[s] > 0
    /\ threadRef[s] \in {NoRef, r}
    /\ threadRef' = [threadRef EXCEPT ![s] = r]
    /\ UNCHANGED <<leaseVars, turnVars, turnRef, admissionVars, stopVars, cancellation>>

\* Mutant: a later observation replaces the stored reference.
record_thread_ref_latest(s, r) ==
    /\ turnCount[s] > 0
    /\ \A other \in Sessions \ {s} : threadRef[other] # r
    /\ threadRef' = [threadRef EXCEPT ![s] = r]
    /\ UNCHANGED <<leaseVars, turnVars, turnRef, admissionVars, stopVars, cancellation>>

\* One observed reference per Session, and never one another Session has.
record_thread_ref(s, r) ==
    /\ turnCount[s] > 0
    /\ threadRef[s] \in {NoRef, r}
    /\ \A other \in Sessions \ {s} : threadRef[other] # r
    /\ threadRef' = [threadRef EXCEPT ![s] = r]
    /\ UNCHANGED <<leaseVars, turnVars, turnRef, admissionVars, stopVars, cancellation>>

record_turn_ref(t, r) ==
    /\ Stored(t)
    /\ turnRef[t] \in {NoRef, r}
    /\ \A other \in Turns \ {t} : turnRef[other] # r
    /\ turnRef' = [turnRef EXCEPT ![t] = r]
    /\ UNCHANGED <<leaseVars, turnVars, threadRef, admissionVars, stopVars, cancellation>>

-----------------------------------------------------------------------------
(* Lifecycle and stop.                                                     *)

\* A pending stop owns the next nonterminal change; a terminal result may
\* still win through the revision comparison.
commit_lifecycle(t, expected, to) ==
    /\ to \in {"running", "recovery_pending"} => ensure_no_pending_stop(t)
    /\ Stored(t)
    /\ expected = CurrentRevisions(t)
    /\ transition_allowed(turnState[t], to)
    /\ commit_turn_state(t, to)
    /\ synchronize_control_lease(t, to)
    /\ update_turn_idempotency(t, to)
    /\ UNCHANGED <<refVars, stopVars, cancellation>>

\* A new key names the last Turn.  If that has ended the record is complete at
\* once, otherwise it stays pending until the observation is confirmed.
begin_stop_new(k, t) ==
    /\ stopTurn[k] = NoTurn
    /\ Stored(t) /\ t = LastTurn(t[1])
    /\ Active(t) => ensure_control_lease_present(t)
    /\ stopTurn' = [stopTurn EXCEPT ![k] = t]
    /\ stopOutcome' = [stopOutcome EXCEPT ![k] =
            IF Terminal(t) THEN "already_terminal" ELSE "pending"]
    /\ stopRevision' = [stopRevision EXCEPT ![k] =
            IF Terminal(t) THEN sessionRev[t[1]] ELSE 0]
    /\ UNCHANGED <<leaseVars, turnVars, refVars, admissionVars, cancellation>>

\* Mutant: a late retry claims the stop.
begin_stop_resume_stopped(k, t) ==
    /\ stopTurn[k] = t
    /\ Stored(t) /\ Terminal(t)
    /\ ensure_control_lease_absent(t)
    /\ complete_stop_idempotency(k, "stopped", sessionRev[t[1]])
    /\ UNCHANGED <<leaseVars, turnVars, refVars, admissionVars, cancellation>>

\* A pending key whose Turn ended meanwhile is completed from the Session as it
\* is now.  (While the Turn is active the retry only takes a fresh claim.)
begin_stop_resume(k, t) ==
    /\ stopTurn[k] = t
    /\ Stored(t) /\ Terminal(t)
    /\ ensure_control_lease_absent(t)
    /\ complete_stop_idempotency(k, "already_terminal", sessionRev[t[1]])
    /\ UNCHANGED <<leaseVars, turnVars, refVars, admissionVars, cancellation>>

\* The Turn ended while the stop was being observed.
confirm_stop_terminal(k, t) == begin_stop_resume(k, t)

\* Mutant: the run record does not follow the Turn.
confirm_stop_change_unrecorded(k, t, expected, observation) ==
    LET to == StopTarget(observation) IN
    /\ stopTurn[k] = t
    /\ Active(t) /\ turnState[t] # to
    /\ expected = CurrentRevisions(t)
    /\ commit_turn_state(t, to)
    /\ synchronize_control_lease(t, to)
    /\ complete_stop_idempotency(k, IF to = "stopped" THEN "stopped" ELSE "not_confirmed",
                                 sessionRev'[t[1]])
    /\ UNCHANGED <<admissionVars, refVars, cancellation>>

\* The evidence ends the Turn, or moves it to the state that keeps ownership.
confirm_stop_change(k, t, expected, observation) ==
    LET to == StopTarget(observation) IN
    /\ stopTurn[k] = t
    /\ Active(t) /\ turnState[t] # to
    /\ expected = CurrentRevisions(t)
    /\ commit_turn_state(t, to)
    /\ update_turn_idempotency(t, to)
    /\ synchronize_control_lease(t, to)
    /\ complete_stop_idempotency(k, IF to = "stopped" THEN "stopped" ELSE "not_confirmed",
                                 sessionRev'[t[1]])
    /\ UNCHANGED <<refVars, cancellation>>

\* The evidence asks for the ownership the Turn already has.
confirm_stop_retain(k, t, expected, observation) ==
    /\ stopTurn[k] = t
    /\ Active(t) /\ turnState[t] = StopTarget(observation)
    /\ expected = CurrentRevisions(t)
    /\ synchronize_control_lease(t, turnState[t])
    /\ complete_stop_idempotency(k, "not_confirmed", sessionRev[t[1]])
    /\ UNCHANGED <<turnVars, refVars, admissionVars, cancellation>>

confirm_stop(k, t, expected, observation) ==
    \/ confirm_stop_terminal(k, t)
    \/ confirm_stop_change(k, t, expected, observation)
    \/ confirm_stop_retain(k, t, expected, observation)

-----------------------------------------------------------------------------
(* Restart, retention and cancellations.                                   *)

\* Opening the store after the process that owned it ended: one transaction
\* marks every active Turn, and fails as a whole if any part of it does.
mark_restart_recovery_pending ==
    LET active == {t \in Turns : Active(t)}
        moved  == {t \in active : turnState[t] # "recovery_pending"}
    IN  /\ \A t \in active : leaseTurn[TurnBinding(t)] = t
        /\ \A t \in moved : /\ sessionRev[t[1]] < MaxRevision
                            /\ turnRev[t] < MaxRevision
                            /\ \E k \in AdmissionKeys : RecordsOf(t) = {k}
        /\ turnState' = [t \in Turns |-> IF t \in moved THEN "recovery_pending" ELSE turnState[t]]
        /\ turnRev' = [t \in Turns |-> IF t \in moved THEN turnRev[t] + 1 ELSE turnRev[t]]
        /\ sessionRev' = [s \in Sessions |->
                IF \E t \in moved : t[1] = s THEN sessionRev[s] + 1 ELSE sessionRev[s]]
        /\ admissionOutcome' = [k \in AdmissionKeys |->
                IF admissionTurn[k] \in moved THEN "recovery_pending" ELSE admissionOutcome[k]]
        /\ RestartLeases(active)
        /\ UNCHANGED <<turnCount, refVars, admissionTurn, admissionRevision, stopVars, cancellation>>

\* Retention removes an expired Session with every record that names it.  The
\* expiry times are left out: an ended Session may expire at any moment.
delete_session_metadata(s) ==
    /\ turnCount[s] > 0
    /\ \A i \in 1..turnCount[s] : Terminal(<<s, i>>)
    /\ \A b \in Bindings, i \in 1..turnCount[s] : leaseTurn[b] # <<s, i>>
    /\ turnState' = [t \in Turns |-> IF t[1] = s /\ Stored(t) THEN "deleted" ELSE turnState[t]]
    /\ turnRev' = [t \in Turns |-> IF t[1] = s THEN 0 ELSE turnRev[t]]
    /\ sessionRev' = [sessionRev EXCEPT ![s] = 0]
    /\ turnCount' = [turnCount EXCEPT ![s] = 0]
    /\ threadRef' = [threadRef EXCEPT ![s] = NoRef]
    /\ turnRef' = [t \in Turns |-> IF t[1] = s THEN NoRef ELSE turnRef[t]]
    /\ LET gone == {k \in AdmissionKeys : admissionTurn[k] \in Turns /\ admissionTurn[k][1] = s}
       IN  /\ admissionTurn' = [k \in AdmissionKeys |-> IF k \in gone THEN NoTurn ELSE admissionTurn[k]]
           /\ admissionOutcome' = [k \in AdmissionKeys |-> IF k \in gone THEN "none" ELSE admissionOutcome[k]]
           /\ admissionRevision' = [k \in AdmissionKeys |-> IF k \in gone THEN 0 ELSE admissionRevision[k]]
    /\ LET gone == {k \in StopKeys : stopTurn[k] \in Turns /\ stopTurn[k][1] = s}
       IN  /\ stopTurn' = [k \in StopKeys |-> IF k \in gone THEN NoTurn ELSE stopTurn[k]]
           /\ stopOutcome' = [k \in StopKeys |-> IF k \in gone THEN "none" ELSE stopOutcome[k]]
           /\ stopRevision' = [k \in StopKeys |-> IF k \in gone THEN 0 ELSE stopRevision[k]]
    /\ UNCHANGED <<leaseVars, cancellation>>

\* An admitted key is reported as admitted.  Unknown ownership replaces a
\* cancellation, and only a reconciled caller may take it back.
record_admission_cancellation_inner(k, outcome, reconciled) ==
    /\ admissionTurn[k] = NoTurn
    /\ \/ cancellation[k] = "none"
       \/ cancellation[k] = "cancelled" /\ outcome = "recovery_pending"
       \/ cancellation[k] = "recovery_pending" /\ outcome = "cancelled" /\ reconciled
    /\ cancellation' = [cancellation EXCEPT ![k] = outcome]
    /\ UNCHANGED <<leaseVars, turnVars, refVars, admissionVars, stopVars>>

\* Only a completed cancellation expires.
prune_expired_admission_cancellation(k) ==
    /\ cancellation[k] = "cancelled"
    /\ cancellation' = [cancellation EXCEPT ![k] = "none"]
    /\ UNCHANGED <<leaseVars, turnVars, refVars, admissionVars, stopVars>>

-----------------------------------------------------------------------------
TurnStep ==
    \/ \E k \in AdmissionKeys, s \in Sessions :
        \/ begin_session(k, s)
        \/ begin_follow_up(k, s, sessionRev[s])
    \/ \E s \in Sessions, r \in ThreadRefs : record_thread_ref(s, r)
    \/ \E t \in Turns, r \in TurnRefs : record_turn_ref(t, r)
    \/ \E t \in Turns, to \in TurnTransitions : commit_lifecycle(t, CurrentRevisions(t), to)
    \/ \E k \in StopKeys, t \in Turns :
        \/ begin_stop_new(k, t)
        \/ begin_stop_resume(k, t)
        \/ \E observation \in StopObservations :
            \/ confirm_stop_change(k, t, CurrentRevisions(t), observation)
            \/ confirm_stop_retain(k, t, CurrentRevisions(t), observation)

Next ==
    \/ TurnStep
    \/ OperationalStep /\ UNCHANGED storeVars
    \/ mark_restart_recovery_pending
    \/ \E s \in Sessions : delete_session_metadata(s)
    \/ \E k \in AdmissionKeys, outcome \in Cancellations, reconciled \in BOOLEAN :
            record_admission_cancellation_inner(k, outcome, reconciled)
    \/ \E k \in AdmissionKeys : prune_expired_admission_cancellation(k)

Spec == Init /\ [][Next]_vars

-----------------------------------------------------------------------------
(* Properties.                                                             *)

\* A Turn that has not ended holds the control lease of its binding, and a lease
\* held by a Turn belongs to one that has not ended; the lease waits for recovery
\* exactly when the Turn does.  (Then synchronize_control_lease, the lease checks
\* of stop and the restart transaction never find InvalidStoredState.)
LeaseMatchesTurn ==
    /\ \A t \in Turns : Active(t) => leaseTurn[TurnBinding(t)] = t
    /\ \A b \in Bindings :
        IF leaseTurn[b] = NoTurn
        THEN ownerKind[b] # "turn"
        ELSE /\ ownerKind[b] = "turn"
             /\ Active(leaseTurn[b])
             /\ TurnBinding(leaseTurn[b]) = b
             /\ leaseState[b] = "recovery_pending" <=> turnState[leaseTurn[b]] = "recovery_pending"

\* No two Turns that have not ended share a desktop binding, whatever mixture of
\* runs, follow-ups, stops, recoveries and restarts led there.
OneActiveTurnPerDesktop ==
    \A t, u \in Turns : Active(t) /\ Active(u) /\ TurnBinding(t) = TurnBinding(u) => t = u

\* Maintenance, running or kept for recovery, excludes every other use of every
\* desktop of the Host; the only control lease beside it is its own postcheck.
MaintenanceExclusive ==
    /\ maintenance # "none" => \A b \in Bindings : ownerKind[b] # "none" => b = postcheck
    /\ postcheck # NoBinding => maintenance # "none" /\ ownerKind[postcheck] = "native_probe"

\* The Turns of a Session are numbered without gaps, only the last may be active,
\* and "starting" is the state of revision 1 and of no other.
SessionShape ==
    \A s \in Sessions :
        /\ \A i \in 1..MaxTurns : LET t == <<s, i>> IN
            /\ Stored(t) <=> i <= turnCount[s]
            /\ Stored(t) => turnRev[t] >= 1 /\ (turnState[t] = "starting" <=> turnRev[t] = 1)
            /\ i < turnCount[s] => Terminal(t)
            /\ turnCount[s] > 0 /\ i > turnCount[s] => turnState[t] = "absent"
        /\ turnState[<<s, 1>>] = "absent" =>
            \A i \in 1..MaxTurns : turnState[<<s, i>>] = "absent"

\* The revisions of the Turns of t's Session up to and including t, added up.
RevisionsUpTo(t) ==
    LET sum[i \in 0..MaxTurns] == IF i = 0 THEN 0 ELSE sum[i - 1] + turnRev[<<t[1], i>>]
    IN  sum[t[2]]

\* Every stored Session is one that SessionSnapshot::validate accepts, so no
\* transaction fails to load it: it has the shape above, and the Session revision
\* is the sum of the Turn revisions.
SessionCoherent ==
    /\ SessionShape
    /\ \A s \in Sessions : turnCount[s] > 0 => sessionRev[s] = RevisionsUpTo(LastTurn(s))

\* The run and steer records: every stored Turn is named by exactly one of them,
\* whose outcome is the state of the Turn, and a free key has no outcome.
AdmissionsFollowTurns ==
    /\ \A t \in Turns : Stored(t) =>
        \E k \in AdmissionKeys : RecordsOf(t) = {k} /\ admissionOutcome[k] = turnState[t]
    /\ \A k \in AdmissionKeys :
        IF admissionTurn[k] = NoTurn THEN admissionOutcome[k] = "none" ELSE Stored(admissionTurn[k])

\* The stop records name stored Turns.
StopsFollowTurns ==
    \A k \in StopKeys :
        IF stopTurn[k] = NoTurn THEN stopOutcome[k] = "none" ELSE Stored(stopTurn[k])

\* Every stored Turn is named by exactly one run or steer record, whose outcome
\* is the state of the Turn; no record of any kind outlives its Turn.
RecordsFollowTurns == AdmissionsFollowTurns /\ StopsFollowTurns

\* The Session as it was when an operation on t ended can be loaded again: the
\* recorded revision is the one its Turns up to t add up to.
LoadableAtOutcome(t, revision) == revision = RevisionsUpTo(t)

\* A repeated run or steer request finds a result it can replay, however much
\* has happened to the Session since (load_session_at_operation_outcome succeeds).
AdmissionReplayable ==
    \A k \in AdmissionKeys : admissionOutcome[k] \in TerminalStates =>
        LoadableAtOutcome(admissionTurn[k], admissionRevision[k])

\* A repeated stop request finds a result it can replay.
StopReplayable ==
    \A k \in StopKeys : stopOutcome[k] \in {"stopped", "already_terminal"} =>
        LoadableAtOutcome(stopTurn[k], stopRevision[k])

\* A Turn is "stopped" exactly when one stop request recorded that it stopped it,
\* and a stop is recorded as too late only for a Turn that has ended.
StoppedByOneRequest ==
    /\ \A t \in Turns : turnState[t] = "stopped" <=>
        \E k \in StopKeys : stopTurn[k] = t /\ stopOutcome[k] = "stopped"
    /\ \A j, k \in StopKeys :
        stopOutcome[j] = "stopped" /\ stopOutcome[k] = "stopped" /\ stopTurn[j] = stopTurn[k] => j = k
    /\ \A k \in StopKeys : stopOutcome[k] = "already_terminal" => Terminal(stopTurn[k])

\* No key is both cancelled before admission and admitted.
CancelledNeverAdmitted ==
    \A k \in AdmissionKeys : cancellation[k] # "none" => admissionTurn[k] = NoTurn

\* Upstream references identify one Session and one Turn.
ReferencesIdentify ==
    /\ \A s, u \in Sessions : threadRef[s] # NoRef /\ threadRef[s] = threadRef[u] => s = u
    /\ \A t, u \in Turns : turnRef[t] # NoRef /\ turnRef[t] = turnRef[u] => t = u

\* What a step may do to an ended Turn and to the result of a finished request.
FinalStep ==
    /\ \A t \in Turns : Terminal(t) =>
        turnState'[t] = "deleted" \/ (turnState'[t] = turnState[t] /\ turnRev'[t] = turnRev[t])
    /\ \A k \in AdmissionKeys : admissionOutcome[k] \in TerminalStates =>
        \/ admissionTurn'[k] = NoTurn
        \/ admissionOutcome'[k] = admissionOutcome[k] /\ admissionRevision'[k] = admissionRevision[k]
    /\ \A k \in StopKeys : stopOutcome[k] \notin {"none", "pending"} =>
        \/ stopTurn'[k] = NoTurn
        \/ stopOutcome'[k] = stopOutcome[k] /\ stopRevision'[k] = stopRevision[k]

\* An ended Turn never changes again, and neither does the recorded result of a
\* finished request, until retention deletes them.
EndedIsFinal == [][FinalStep]_vars

\* What a step may do to an observed reference.
ReferenceStep ==
    /\ \A s \in Sessions : threadRef[s] # NoRef =>
        threadRef'[s] = threadRef[s] \/ turnCount'[s] = 0
    /\ \A t \in Turns : turnRef[t] # NoRef =>
        turnRef'[t] = turnRef[t] \/ turnState'[t] = "deleted"

\* Once observed, an upstream reference is never replaced by another one.
ReferencesAreStable == [][ReferenceStep]_vars

-----------------------------------------------------------------------------
(* The store implements DesktopOwnership.                                  *)

Owners   == {t \in Turns : Active(t)}
Ended    == {t \in Turns : turnState[t] \in TerminalStates \cup {"deleted"}}
Borrowed == {b \in Bindings : maintenance # "none" \/ ownerKind[b] \notin {"none", "turn"}}

Ownership == INSTANCE DesktopOwnership WITH
    Desktops <- Bindings, DesktopOf <- [t \in Turns |-> TurnBinding(t)],
    owners <- Owners, ended <- Ended, borrowed <- Borrowed

\* Every behaviour of the store is one of DesktopOwnership: restarts, recovery
\* and retention never give a desktop away or hand it to a second Turn.
ImplementsOwnership == Ownership!Spec
=============================================================================
