----------------------------- MODULE HostRuntime -----------------------------
(***************************************************************************)
(* The threads of a Host Daemon that share the store: the operation that   *)
(* holds the Host-wide capacity slot (an admission or a stop) and one      *)
(* worker per admitted Turn.  The recovery queue is reconciled while the   *)
(* daemon starts, before its listener opens, and by every admission.       *)
(* An action is what one thread does under one lock, the storage mutex,    *)
(* the recovery mutex or the registry of executions; everything between    *)
(* two locks may be interleaved with every other thread.                   *)
(*                                                                         *)
(* The adapter is the Codex one.  Its control channel is one step here,    *)
(* and the upstream turn is external: it starts when a worker dispatches   *)
(* it and may end at any time after that.                                  *)
(* Probes, snapshots and maintenance are left to HostStore.                *)
(***************************************************************************)
EXTENDS HostStore, Sequences, SequencesExt

CONSTANT Faults     \* the failures that may happen

ASSUME FaultsAssumption ==
    Faults \subseteq {"restart", "heartbeat", "spawn", "stop_io"}

VARIABLES
    admission,    \* the start of the daemon, or the admission in the slot: [pc, turn]
    stop,         \* the stop in the slot: [pc, key, turn, claim, starting, refs, observation]
    worker,       \* worker[t]: where the worker thread of Turn t is
    claim,        \* claim[t]: the revisions the worker compares with
    result,       \* result[t]: the transition the adapter returned to the worker
    registry,     \* registry[b]: the Turn whose execution is registered for b
    control,      \* control[t]: "open", "confirmed" (a stop was told that nothing
                  \*   runs upstream) or "committed" (and it is durable)
    upstream,     \* upstream[t]: "idle", "active" or "ended"
    pending,      \* RecoveryQueue.pending
    inFlight,     \* RecoveryQueue.in_flight, or NoTurn
    reconciler    \* the reconciliation of the queue: [pc, turn, claim, refs]

queueVars   == <<pending, inFlight>>
workerVars  == <<worker, claim, result, registry, control, upstream>>
runtimeVars == <<admission, stop, workerVars, queueVars, reconciler>>
rvars       == <<vars, runtimeVars>>

NoClaim == <<0, 0>>
IdleAdmission  == [pc |-> "idle", turn |-> NoTurn]
IdleStop       == [pc |-> "idle", key |-> NoTurn, turn |-> NoTurn, claim |-> NoClaim,
                   starting |-> FALSE, refs |-> FALSE, observation |-> "none"]
IdleReconciler == [pc |-> "idle", turn |-> NoTurn, claim |-> NoClaim, refs |-> FALSE]

Claims    == (0..MaxRevision) \X (0..MaxRevision)
WorkerPcs == {"none", "start", "register", "registered", "thread", "dispatched", "turn",
              "commit", "stopped", "preserve", "enqueue", "done"}

\* The types of the threads and of what they share; the recovery queue names a Turn
\* at most once.
RuntimeTypeOK ==
    /\ TypeOK
    /\ admission \in [pc : {"idle", "startup", "reconcile", "begin", "dispatch", "enqueue"},
                      turn : Turns \cup {NoTurn}]
    /\ stop \in [pc : {"idle", "observe", "confirm", "sync"}, key : StopKeys \cup {NoTurn},
                 turn : Turns \cup {NoTurn}, claim : Claims, starting : BOOLEAN, refs : BOOLEAN,
                 observation : StopObservations \cup {"none"}]
    /\ worker \in [Turns -> WorkerPcs]
    /\ claim \in [Turns -> Claims]
    /\ result \in [Turns -> TerminalStates \cup {"none"}]
    /\ registry \in [Bindings -> Turns \cup {NoTurn}]
    /\ control \in [Turns -> {"open", "confirmed", "committed"}]
    /\ upstream \in [Turns -> {"idle", "active", "ended"}]
    /\ pending \in Seq(Turns) /\ IsInjective(pending) /\ inFlight \notin Range(pending)
    /\ inFlight \in Turns \cup {NoTurn}
    /\ reconciler \in [pc : {"idle", "claim", "observe", "apply", "finish", "unknown", "failed"},
                       turn : Turns \cup {NoTurn}, claim : Claims, refs : BOOLEAN]

RuntimeInit ==
    /\ Init
    /\ admission = IdleAdmission
    /\ stop = IdleStop
    /\ worker = [t \in Turns |-> "none"]
    /\ claim = [t \in Turns |-> NoClaim]
    /\ result = [t \in Turns |-> "none"]
    /\ registry = [b \in Bindings |-> NoTurn]
    /\ control = [t \in Turns |-> "open"]
    /\ upstream = [t \in Turns |-> "idle"]
    /\ pending = <<>>
    /\ inFlight = NoTurn
    /\ reconciler = IdleReconciler

\* Admissions and stops share one slot; an occupied slot refuses the request, and
\* a daemon that is starting has no listener yet.
SlotFree == admission.pc = "idle" /\ stop.pc = "idle"

\* A lifecycle commit that is refused reports a state conflict.
CommitAccepted(t, expected, to) ==
    /\ to \in {"running", "recovery_pending"} => ensure_no_pending_stop(t)
    /\ expected = CurrentRevisions(t)
    /\ transition_allowed(turnState[t], to)

-----------------------------------------------------------------------------
(* The recovery queue.                                                     *)

Queued(t) == inFlight = t \/ t \in Range(pending)

\* Mutant: the queue is not searched first.
enqueue_recovery_subject_again(t) ==
    /\ pending' = Append(pending, t)
    /\ UNCHANGED inFlight

enqueue_recovery_subject(t) ==
    /\ pending' = IF Queued(t) THEN pending ELSE Append(pending, t)
    /\ UNCHANGED inFlight

remove_recovery_subject(t) ==
    /\ pending' = SelectSeq(pending, LAMBDA u : u # t)
    /\ inFlight' = IF inFlight = t THEN NoTurn ELSE inFlight

\* The reconciliation is over: an admission goes on only if the queue is clear, and
\* the daemon opens its listener either way.
EndReconcile(clear) ==
    /\ reconciler' = IdleReconciler
    /\ admission' = IF admission.pc = "reconcile" /\ clear
                    THEN [admission EXCEPT !.pc = "begin"] ELSE IdleAdmission

\* Both references of the Turn are stored.
HasBothRefs(t) == threadRef[t[1]] # NoRef /\ turnRef[t] # NoRef

\* A subject somebody else is observing makes the Host busy; an empty queue is
\* clear; otherwise the first subject is taken and loaded.
claim_recovery_subject ==
    /\ reconciler.pc = "claim"
    /\ IF inFlight # NoTurn THEN EndReconcile(FALSE) /\ UNCHANGED queueVars
       ELSE IF pending = <<>> THEN EndReconcile(TRUE) /\ UNCHANGED queueVars
       ELSE /\ inFlight' = Head(pending)
            /\ pending' = Tail(pending)
            /\ reconciler' = [pc |-> "observe", turn |-> Head(pending),
                              claim |-> CurrentRevisions(Head(pending)),
                              refs |-> HasBothRefs(Head(pending))]
            /\ UNCHANGED admission
    /\ UNCHANGED <<vars, stop, workerVars>>

\* The thread of a Turn that was loaded with both references is read as inactive.
\* Every failed read, and an active thread, is no evidence.
read_persisted_turn(t, refs) == refs /\ upstream[t] # "active"

\* The subject is observed under no lock.
observe_recovery ==
    /\ reconciler.pc = "observe"
    /\ \/ /\ read_persisted_turn(reconciler.turn, reconciler.refs)
          /\ reconciler' = [reconciler EXCEPT !.pc = "apply"]
       \/ reconciler' = [reconciler EXCEPT !.pc = "unknown"]
    /\ UNCHANGED <<vars, admission, stop, workerVars, queueVars>>

\* Proven inactivity fails the Turn, if it is still what was loaded.
reconcile_commit ==
    LET t == reconciler.turn IN
    /\ reconciler.pc = "apply"
    /\ IF CommitAccepted(t, reconciler.claim, "failed")
       THEN /\ commit_lifecycle(t, reconciler.claim, "failed")
            /\ reconciler' = [reconciler EXCEPT !.pc = "finish"]
       ELSE /\ reconciler' = [reconciler EXCEPT !.pc = "failed"]
            /\ UNCHANGED vars
    /\ UNCHANGED <<admission, stop, workerVars, queueVars>>

\* The queue is not as this reconciliation left it, nor as a stop leaves it.
QueueChanged(t) == inFlight # t /\ (inFlight # NoTurn \/ t \in Range(pending))

NextSubject ==
    /\ reconciler' = [IdleReconciler EXCEPT !.pc = "claim"]
    /\ UNCHANGED admission

\* Mutant: the subject goes back without leaving in_flight.
restore_recovery_key_in_flight ==
    /\ reconciler.pc \in {"unknown", "failed"}
    /\ EndReconcile(FALSE)
    /\ UNCHANGED <<vars, stop, workerVars, queueVars>>

\* Mutant: the loop goes on to the subject it has just put back.
restore_recovery_key_loop ==
    /\ reconciler.pc \in {"unknown", "failed"}
    /\ inFlight' = NoTurn
    /\ pending' = <<reconciler.turn>> \o pending
    /\ NextSubject
    /\ UNCHANGED <<vars, stop, workerVars>>

\* An unresolved subject goes back to the front, and the reconciliation ends;
\* one that a stop has removed is skipped.
restore_recovery_key ==
    LET t == reconciler.turn IN
    /\ reconciler.pc \in {"unknown", "failed"}
    /\ IF inFlight = t
       THEN /\ inFlight' = NoTurn
            /\ pending' = <<t>> \o pending
            /\ EndReconcile(FALSE)
       ELSE /\ IF QueueChanged(t) THEN EndReconcile(FALSE) ELSE NextSubject
            /\ UNCHANGED queueVars
    /\ UNCHANGED <<vars, stop, workerVars>>

finish_recovery_subject ==
    LET t == reconciler.turn IN
    /\ reconciler.pc = "finish"
    /\ inFlight' = IF inFlight = t THEN NoTurn ELSE inFlight
    /\ IF QueueChanged(t) THEN EndReconcile(FALSE) ELSE NextSubject
    /\ UNCHANGED <<vars, stop, workerVars, pending>>

-----------------------------------------------------------------------------
(* Admission.                                                              *)

run_or_steer ==
    /\ SlotFree
    /\ admission' = [admission EXCEPT !.pc = "reconcile"]
    /\ reconciler' = [IdleReconciler EXCEPT !.pc = "claim"]
    /\ UNCHANGED <<vars, stop, workerVars, queueVars>>

\* The transaction that admits the Turn, after the maintenance check and the
\* preflight; any of them may refuse the request.
admit_turn ==
    /\ admission.pc = "begin"
    /\ \/ \E k \in AdmissionKeys, s \in Sessions :
            /\ maintenance = "none"
            /\ begin_session(k, s) \/ begin_follow_up(k, s, sessionRev[s])
            /\ LET t == <<s, turnCount'[s]>> IN
               /\ admission' = [pc |-> "dispatch", turn |-> t]
               /\ claim' = [claim EXCEPT ![t] = <<sessionRev'[s], turnRev'[t]>>]
       \/ admission' = IdleAdmission /\ UNCHANGED <<vars, claim>>
    /\ UNCHANGED <<stop, worker, result, registry, control, upstream, queueVars, reconciler>>

\* The worker thread is started.  Failing to start the heartbeat leaves the Turn
\* to recovery, and failing to start the thread fails it.
finish_admission ==
    LET t == admission.turn IN
    /\ admission.pc = "dispatch"
    /\ \/ worker' = [worker EXCEPT ![t] = "start"] /\ UNCHANGED vars
       \/ /\ "heartbeat" \in Faults
          /\ commit_lifecycle(t, CurrentRevisions(t), "recovery_pending")
          /\ UNCHANGED worker
       \/ /\ "spawn" \in Faults
          /\ commit_lifecycle(t, CurrentRevisions(t), "failed")
          /\ UNCHANGED worker
    /\ admission' = IF turnState'[t] = "recovery_pending"
                    THEN [admission EXCEPT !.pc = "enqueue"] ELSE IdleAdmission
    /\ UNCHANGED <<stop, claim, result, registry, control, upstream, queueVars, reconciler>>

\* The Turn whose heartbeat did not start is queued after the storage lock.
finish_admission_enqueue ==
    /\ admission.pc = "enqueue"
    /\ enqueue_recovery_subject(admission.turn)
    /\ admission' = IdleAdmission
    /\ UNCHANGED <<vars, stop, workerVars, reconciler>>

-----------------------------------------------------------------------------
(* A worker.                                                               *)

WorkerGoes(t, pc) == worker' = [worker EXCEPT ![t] = pc]

\* The guard of a registered execution removes its own entry only.
Deregister(t) == registry' = [b \in Bindings |-> IF registry[b] = t THEN NoTurn ELSE registry[b]]

\* Starting becomes Running before the adapter is called.
execute_once(t) ==
    /\ worker[t] = "start"
    /\ IF CommitAccepted(t, claim[t], "running")
       THEN /\ commit_lifecycle(t, claim[t], "running")
            /\ claim' = [claim EXCEPT ![t] = <<sessionRev'[t[1]], turnRev'[t]>>]
            /\ WorkerGoes(t, "register")
       ELSE /\ WorkerGoes(t, IF Terminal(t) THEN "done" ELSE "preserve")
            /\ UNCHANGED <<vars, claim>>
    /\ UNCHANGED <<admission, stop, result, registry, control, upstream, queueVars, reconciler>>

\* The control is registered, unless the binding has one; a check before that
\* may fail too.
register_execution(t) ==
    /\ worker[t] = "register"
    /\ \/ /\ registry[TurnBinding(t)] = NoTurn
          /\ registry' = [registry EXCEPT ![TurnBinding(t)] = t]
          /\ WorkerGoes(t, "registered")
       \/ WorkerGoes(t, "preserve") /\ UNCHANGED registry
    /\ UNCHANGED <<vars, admission, stop, claim, result, control, upstream, queueVars, reconciler>>

\* The thread is started or resumed and its reference stored.
persist_thread_ref(t) ==
    /\ worker[t] = "registered" /\ control[t] = "open"
    /\ \E r \in ThreadRefs : record_thread_ref(t[1], r)
    /\ WorkerGoes(t, "thread")
    /\ UNCHANGED <<admission, stop, claim, result, registry, control, upstream, queueVars, reconciler>>

\* Mutant: a stop confirmed before dispatch does not keep the Turn from starting.
write_turn_request_stopped(t) ==
    /\ worker[t] = "thread"
    /\ upstream' = [upstream EXCEPT ![t] = "active"]
    /\ WorkerGoes(t, "dispatched")
    /\ UNCHANGED <<vars, admission, stop, claim, result, registry, control, queueVars, reconciler>>

\* turn/start is written only while no stop has been confirmed.
write_turn_request(t) ==
    /\ worker[t] = "thread" /\ control[t] = "open"
    /\ upstream' = [upstream EXCEPT ![t] = "active"]
    /\ WorkerGoes(t, "dispatched")
    /\ UNCHANGED <<vars, admission, stop, claim, result, registry, control, queueVars, reconciler>>

persist_turn_ref(t) ==
    /\ worker[t] = "dispatched"
    /\ \E r \in TurnRefs : record_turn_ref(t, r)
    /\ WorkerGoes(t, "turn")
    /\ UNCHANGED <<admission, stop, claim, result, registry, control, upstream, queueVars, reconciler>>

\* The upstream turn ends by itself (external).
upstream_ends(t) ==
    /\ upstream[t] = "active"
    /\ upstream' = [upstream EXCEPT ![t] = "ended"]
    /\ UNCHANGED <<vars, admission, stop, worker, claim, result, registry, control, queueVars, reconciler>>

InSession(t) == worker[t] \in {"registered", "thread", "dispatched", "turn"}

\* The session returns.  Uncontrolled, it reports the end of the upstream turn,
\* or the timeout's confirmed cancellation as a failure (which a stop confirmed
\* before the channel was claimed does not prevent).  A confirmed stop is reported
\* once it is durable.  An error, and a timeout whose cancellation is not
\* confirmed, returns an error; the upstream turn may go on.
execute_returns(t) ==
    /\ InSession(t)
    /\ \/ /\ control[t] = "open" /\ worker[t] = "turn" /\ upstream[t] = "ended"
          /\ \E to \in {"completed", "blocked", "failed"} : result' = [result EXCEPT ![t] = to]
          /\ WorkerGoes(t, "commit")
          /\ UNCHANGED upstream
       \/ /\ control[t] = "open" \/ (control[t] = "confirmed" /\ worker[t] = "registered")
          /\ upstream' = [upstream EXCEPT ![t] = IF @ = "active" THEN "ended" ELSE @]
          /\ result' = [result EXCEPT ![t] = "failed"]
          /\ WorkerGoes(t, "commit")
       \/ /\ control[t] = "committed"
          /\ WorkerGoes(t, "stopped")
          /\ UNCHANGED <<result, upstream>>
       \/ WorkerGoes(t, "preserve") /\ UNCHANGED <<result, upstream>>
    /\ Deregister(t)
    /\ UNCHANGED <<vars, admission, stop, claim, control, queueVars, reconciler>>

\* The terminal result competes with stop and recovery through the revisions.
commit_or_terminal_winner(t) ==
    /\ worker[t] = "commit"
    /\ IF CommitAccepted(t, claim[t], result[t])
       THEN commit_lifecycle(t, claim[t], result[t]) /\ WorkerGoes(t, "done")
       ELSE WorkerGoes(t, IF Terminal(t) THEN "done" ELSE "preserve") /\ UNCHANGED vars
    /\ UNCHANGED <<admission, stop, claim, result, registry, control, upstream, queueVars, reconciler>>

\* A controlled stop has to be durable by now.
controlled_stop_is_durable(t) ==
    /\ worker[t] = "stopped"
    /\ WorkerGoes(t, IF turnState[t] = "stopped" THEN "done" ELSE "preserve")
    /\ UNCHANGED <<vars, admission, stop, claim, result, registry, control, upstream, queueVars, reconciler>>

\* Mutant: the worker of an execution with an unknown outcome just ends.
preserve_unknown_execution_nothing(t) ==
    /\ worker[t] = "preserve"
    /\ WorkerGoes(t, "done")
    /\ UNCHANGED <<vars, admission, stop, claim, result, registry, control, upstream, queueVars, reconciler>>

\* An execution with an unknown outcome is kept for recovery.  A pending stop is
\* left to do that, and an ended Turn is left alone.
preserve_unknown_execution(t) ==
    /\ worker[t] = "preserve"
    /\ CASE Terminal(t) -> WorkerGoes(t, "done") /\ UNCHANGED vars
         [] turnState[t] = "recovery_pending" -> WorkerGoes(t, "enqueue") /\ UNCHANGED vars
         [] OTHER ->
            IF ensure_no_pending_stop(t)
            THEN /\ commit_lifecycle(t, CurrentRevisions(t), "recovery_pending")
                 /\ WorkerGoes(t, "enqueue")
            ELSE WorkerGoes(t, "done") /\ UNCHANGED vars
    /\ UNCHANGED <<admission, stop, claim, result, registry, control, upstream, queueVars, reconciler>>

\* The storage lock has been released before the queue is locked.
preserve_enqueue(t) ==
    /\ worker[t] = "enqueue"
    /\ enqueue_recovery_subject(t)
    /\ WorkerGoes(t, "done")
    /\ UNCHANGED <<vars, admission, stop, claim, result, registry, control, upstream, reconciler>>

-----------------------------------------------------------------------------
(* A stop.                                                                 *)

SyncStop(k, t) == [IdleStop EXCEPT !.pc = "sync", !.key = k, !.turn = t]

\* A new key, or a pending one that is tried again, takes a claim on the Turn it
\* names; the stop of an ended Turn is complete at once.
stop_begin(k, t) ==
    /\ SlotFree
    /\ \/ begin_stop_new(k, t)
       \/ begin_stop_resume(k, t)
       \/ stopTurn[k] = t /\ stopOutcome[k] = "pending" /\ Active(t) /\ UNCHANGED vars
    /\ stop' = IF Terminal(t) THEN SyncStop(k, t)
               ELSE [pc |-> "observe", key |-> k, turn |-> t, claim |-> CurrentRevisions(t),
                     starting |-> turnState[t] = "starting",
                     refs |-> HasBothRefs(t),
                     observation |-> "none"]
    /\ UNCHANGED <<admission, workerVars, queueVars, reconciler>>

\* Mutant: a Running Turn without references is taken for one never dispatched.
stop_observation_running(t) ==
    IF turnRef[t] = NoRef \/ read_persisted_turn(t, stop.refs)
    THEN {"upstream_inactive_confirmed", "outcome_unknown"}
    ELSE {"outcome_unknown"}

\* What the stored references and the claimed state show, without a control.
\* (A Starting Turn of a resumed Session has a thread reference already.)
stop_observation(t) ==
    IF stop.starting /\ threadRef[t[1]] = NoRef
    THEN {"upstream_inactive_confirmed"}
    ELSE IF read_persisted_turn(t, stop.refs)
    THEN {"upstream_inactive_confirmed", "outcome_unknown"}
    ELSE {"outcome_unknown"}

\* The channel of a registered execution is asked to interrupt.  It confirms that
\* nothing was dispatched, or that the upstream turn has ended, and from then on
\* the session dispatches nothing, even if the answer comes just too late; or
\* there is no answer.
interrupt(t) ==
    \/ /\ \/ control[t] = "open"
          \/ control[t] = "confirmed" /\ worker[t] = "registered"
       /\ control' = [control EXCEPT ![t] = "confirmed"]
       /\ upstream' = [upstream EXCEPT ![t] = IF @ = "active" THEN "ended" ELSE @]
       /\ \E observation \in {"upstream_inactive_confirmed", "outcome_unknown"} :
            stop' = [stop EXCEPT !.pc = "confirm", !.observation = observation]
    \/ /\ stop' = [stop EXCEPT !.pc = "confirm", !.observation = "outcome_unknown"]
       /\ UNCHANGED <<control, upstream>>

\* Observation is external I/O under no lock; when it fails the request returns
\* the error and its record stays pending.
observe_stop ==
    LET t == stop.turn IN
    /\ stop.pc = "observe"
    /\ \/ registry[TurnBinding(t)] = t /\ interrupt(t)
       \/ /\ registry[TurnBinding(t)] # t
          /\ \E observation \in stop_observation(t) :
                stop' = [stop EXCEPT !.pc = "confirm", !.observation = observation]
          /\ UNCHANGED <<control, upstream>>
       \/ "stop_io" \in Faults /\ stop' = IdleStop /\ UNCHANGED <<control, upstream>>
    /\ UNCHANGED <<vars, admission, worker, claim, result, registry, queueVars, reconciler>>

\* The observation is committed, or the request fails on a state conflict or on
\* the write itself.
stop_confirm ==
    /\ stop.pc = "confirm"
    /\ \/ /\ confirm_stop(stop.key, stop.turn, stop.claim, stop.observation)
          /\ stop' = SyncStop(stop.key, stop.turn)
       \/ /\ \/ Active(stop.turn) /\ stop.claim # CurrentRevisions(stop.turn)
             \/ "stop_io" \in Faults
          /\ stop' = IdleStop
          /\ UNCHANGED vars
    /\ UNCHANGED <<admission, workerVars, queueVars, reconciler>>

\* Mutant: every completed stop removes its Turn from the queue.
stop_sync_removes ==
    /\ stop.pc = "sync"
    /\ remove_recovery_subject(stop.turn)
    /\ stop' = IdleStop
    /\ UNCHANGED <<vars, admission, workerVars, reconciler>>

\* After the storage lock: the execution learns of a durable stop, and the queue
\* follows what was committed.
stop_sync ==
    LET t == stop.turn
        stopped == stopOutcome[stop.key] = "stopped"
    IN  /\ stop.pc = "sync"
        /\ IF stopped /\ registry[TurnBinding(t)] = t
           THEN /\ control' = [control EXCEPT ![t] = "committed"]
                /\ Deregister(t)
           ELSE UNCHANGED <<control, registry>>
        /\ IF stopOutcome[stop.key] = "not_confirmed"
           THEN enqueue_recovery_subject(t)
           ELSE remove_recovery_subject(t)
        /\ stop' = IdleStop
        /\ UNCHANGED <<vars, admission, worker, claim, result, upstream, reconciler>>

-----------------------------------------------------------------------------
\* The daemon ends at any point and starts again: the store is recovered, the queue
\* rebuilt, and its reconciliation started.  Upstream turns are not bound to the
\* daemon's life.
restart ==
    /\ "restart" \in Faults
    /\ mark_restart_recovery_pending
    /\ admission' = [IdleAdmission EXCEPT !.pc = "startup"]
    /\ stop' = IdleStop
    /\ worker' = [t \in Turns |-> "none"]
    /\ claim' = [t \in Turns |-> NoClaim]
    /\ result' = [t \in Turns |-> "none"]
    /\ registry' = [b \in Bindings |-> NoTurn]
    /\ control' = [t \in Turns |-> "open"]
    /\ pending' = SetToSeq({t \in Turns : Active(t)})
    /\ inFlight' = NoTurn
    /\ reconciler' = [IdleReconciler EXCEPT !.pc = "claim"]
    /\ UNCHANGED upstream

ReconcileStep ==
    \/ claim_recovery_subject
    \/ observe_recovery
    \/ reconcile_commit
    \/ restore_recovery_key
    \/ finish_recovery_subject

WorkerStep(t) ==
    \/ execute_once(t)
    \/ register_execution(t)
    \/ persist_thread_ref(t)
    \/ write_turn_request(t)
    \/ persist_turn_ref(t)
    \/ execute_returns(t)
    \/ commit_or_terminal_winner(t)
    \/ controlled_stop_is_durable(t)
    \/ preserve_unknown_execution(t)
    \/ preserve_enqueue(t)

AdmissionStep == admit_turn \/ finish_admission \/ finish_admission_enqueue

StopStep == observe_stop \/ stop_confirm \/ stop_sync

RuntimeNext ==
    \/ run_or_steer
    \/ AdmissionStep
    \/ \E k \in StopKeys, t \in Turns : stop_begin(k, t)
    \/ StopStep
    \/ \E t \in Turns : WorkerStep(t) \/ upstream_ends(t)
    \/ ReconcileStep
    \/ restart

RuntimeSpec == RuntimeInit /\ [][RuntimeNext]_rvars

\* Every started request and every worker goes on: their waits are bounded by
\* deadlines, and no lock is held across one.
FairRuntimeSpec ==
    /\ RuntimeSpec
    /\ WF_rvars(AdmissionStep)
    /\ WF_rvars(StopStep)
    /\ \A t \in Turns : WF_rvars(WorkerStep(t))
    /\ WF_rvars(ReconcileStep)

-----------------------------------------------------------------------------
(* Properties.                                                             *)

\* While something runs upstream for a Turn, that Turn has not ended and holds
\* its desktop: no stop, recovery, timeout or restart ends a Turn, and so frees
\* its desktop for the next, under a running execution.
UpstreamOwned ==
    \A t \in Turns : upstream[t] = "active" => Active(t) /\ leaseTurn[TurnBinding(t)] = t

\* The revisions a stop claims stay the ones of the Turn until the observation is
\* committed, unless the Turn ends: begin_stop's pending record keeps every other
\* nonterminal change out, so a stop never fails on a state conflict.
StopClaimStaysValid ==
    stop.pc \in {"observe", "confirm"} =>
        Terminal(stop.turn) \/ stop.claim = CurrentRevisions(stop.turn)

\* The subject in flight is the one the reconciliation is working on, and nothing
\* else takes it, drops it or leaves it behind: a subject left in flight by nobody
\* would make every later admission find the Host busy, and a changed queue is
\* reported as an integrity failure.
InFlightHasOneHolder == inFlight = reconciler.turn

\* Somebody will still act on a Turn that has not ended: its admission, its worker,
\* the stop in the slot, the recovery queue, or the retry of a stop that failed
\* before its observation was committed and whose record is pending.
Attended(t) ==
    \/ admission.turn = t
    \/ worker[t] \notin {"none", "done"}
    \/ stop.turn = t
    \/ Queued(t)
    \/ ~ensure_no_pending_stop(t)

\* No Turn that has not ended, and with it no desktop, is forgotten by every thread
\* of the daemon.
NoOrphan == \A t \in Turns : Active(t) => Attended(t)

\* The recovery queue holds no Turn that has ended, except while the stop or the
\* reconciliation that ended it is about to remove it.
QueueNamesOpenTurns ==
    \A t \in Turns : Terminal(t) /\ Queued(t) =>
        \/ stop.pc = "sync" /\ stop.turn = t
        \/ reconciler.turn = t

\* A Turn does not stay Starting or Running for ever: it ends, or its ownership is
\* handed to recovery.
TurnSettles ==
    \A t \in Turns : turnState[t] \in {"starting", "running"} ~>
        turnState[t] \notin {"starting", "running"}

\* Unless the daemon restarts for ever, its slot is always freed again and its start
\* completes; no admission waits for a recovery that waits for the slot.
SlotIsFreed == <>[][~restart]_rvars => []<>SlotFree
=============================================================================
