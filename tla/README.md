# Satelle: a verification project for the Host Daemon

This directory models the Host Daemon of Satelle in TLA+, model-checks the model with TLC and proves the
central properties of its store with TLAPS. Paths below are relative to `src/crates/satelle/src/`.

## The system

Satelle lets a client run an agent on the desktop of another machine. The machine runs one **Host Daemon**. A
client asks it to `run` a prompt (a new **Session** with a first **Turn**), to `steer` a Session (a follow-up
Turn), to `stop` a Turn, or to cancel an admission that has not become a Turn yet. A Turn is executed by an
external program, Codex, through its app server; the daemon knows that execution by two **references**, the
upstream thread and the upstream turn.

What makes the daemon hard to get right:

* **One desktop, one operator.** A Turn, a readiness probe, a desktop snapshot or a set-up run must have the
  desktop for itself. Ownership is a row in SQLite, so it survives the process; the work it stands for does not.
* **Nothing upstream is atomic with anything stored.** The Turn is stored before it is dispatched, dispatched
  before its reference is stored, and interrupted before the stop is recorded. The daemon may end in between.
* **Clients retry.** Every `run`, `steer` and `stop` carries an idempotency key; a repeated request must find
  the result of the first, however far the Session has moved on.
* **Threads share the store only through short locks.** What a worker, a stop or a reconciliation read under the
  storage lock is used after it has been released.

### Parts, state and operations

| Part | State | Operations that change it | Interacts with |
|---|---|---|---|
| Turn lifecycle, `core/session.rs` | Turn state, Turn and Session revision | transitions, stop observations | the store, which is its only caller |
| Leases, `host/storage/{sql,operational,setup_ledger,desktop-snapshot}.rs` | control lease per desktop, maintenance lease | acquire, release, retain for recovery, adopt, restart | Turns, probes, snapshots, set-up |
| Session store, `host/storage.rs`, `host/storage/{stop,retention}.rs` | Sessions, Turns, references, request records, admission cancellations | begin, follow up, reference, transition, begin/confirm stop, restart, delete, cancel, expire | runtime, capacity |
| Host runtime, `host/runtime*.rs` | recovery queue, worker threads, claims | admission, dispatch, worker, stop, reconciliation, start | store, adapter |
| Codex adapter, `host/runtime-codex-adapter.rs`, `host/codex-session.rs` | registry of executions, control channel | register, dispatch, interrupt, observe | runtime, Codex |
| Operation capacity, `host/operation-capacity.rs`, `host/runtime-request.rs` | the slot, the entry in it, its cancellation token, a generation counter | lead, follow, cancel, run exclusively | daemon service, store |
| Turn queue, `host/turn_queue.rs`, `host/storage/queue.rs` | queued requests and their payload files | enqueue, cancel, expire, drain | capacity, store |
| Set-up ledger, `host/storage/setup_ledger.rs` | runs and their actions | begin, start, finish, interrupt, resume | maintenance lease |
| API tokens, `host/storage/auth.rs` | token generations and revisions | create, rotate, revoke | HTTP server |
| Provider secrets, `host/storage/provider-secret-journal.rs` | secret files, journal phases | stage, publish, clean, recover | set-up |
| Live events, `host/live-events.rs`, `transport_api/*/events.rs` | subscriptions, sequence numbers | publish, subscribe, drop, reconnect | runtime, client |
| Storage migration, `host/storage/{open,path-migration}.rs` | schema version, backups, marker files | back up, migrate, restore | start-up |
| Recording and raw diagnostics | capture rows and files | start, append, finish, expire | runtime |
| Bootstrap lock, updates | lock file, staged executables | acquire, steal, stage, swap | CLI |
| HTTP, CLI, MCP, configuration, telemetry | none that another part depends on | | |

`PROJECT.json` lists every part with its status and, under `hazards`, the places where this code could go wrong
in a way a unit test would hardly reach, with the property that would notice.

## The modules

| Module | Models | Checked by |
|---|---|---|
| `TurnLifecycle` | Turn states, `transition_allowed`, what a stop observation makes of a Turn | through `HostStore` |
| `ControlLeases` | the leases and the operations of probes, snapshots and set-up on them | through `HostStore` |
| `HostStore` | every transaction on Sessions, Turns and request records; extends `ControlLeases` | `store_*`, `stop_replay` |
| `DesktopOwnership` | abstract: what the leases promise | refined by `HostStore` (`store_shared`, proof) |
| `HostRuntime` | the daemon's threads over the store; extends `HostStore` | `runtime_*` |
| `OperationCapacity` | the one slot and admission cancellation | `capacity` |
| `TurnQueue` | the durable queue of one desktop, its payload files and its drain thread | `queue_*` |
| `HostStoreProofs`, `HostStoreRefinement` | theorems | `tlapm` |
| `MC*` | constants and symmetry for TLC | |

### HostStore: one action per transaction

Every write of the store is one immediate SQLite transaction under one mutex (`TransactionBehavior::Immediate`),
so a transaction is an action, named after the function. A path that returns an error or replays a recorded
result writes nothing and is a stuttering step. In `HostStore` callers are arbitrary: any transaction may run
whenever its own checks let it, which is why what holds here holds for every caller.

Variables are columns: `turnState`/`turnRev` of `turns`, `sessionRev` of `sessions`, `threadRef`/`turnRef` of the
private-reference tables, `admission*` and `stop*` of the idempotency tables, `cancellation` of
`admission_cancellations`, `ownerKind`/`leaseTurn`/`leaseState` of `control_leases`, `maintenance`/`postcheck` of
the maintenance lease and its one probe. An idempotency key stands for principal, operation, key and digest
together; a Turn is a pair of its Session and its number. Expected revisions are explicit parameters
(`commit_lifecycle(t, expected, to)`), so that `HostRuntime` can call with the ones a thread remembered.

* `begin_session`, `begin_follow_up`: the record, the Turn and its lease in one step, refused when a cancellation
  of the key is recorded or the desktop is not free.
* `commit_lifecycle`: compare both revisions, check the transition and that no stop is pending, change the Turn,
  `synchronize_control_lease`, `update_turn_idempotency`.
* `begin_stop_new`, `begin_stop_resume`, `confirm_stop_*`: the stop protocol. `begin_stop` writes a pending
  record (or records at once that the Turn has ended), the observation of the upstream follows under no lock, and
  `confirm_stop` commits what was observed.
* `mark_restart_recovery_pending`: one transaction at start turns every open Turn and every lease into one that
  waits for recovery.
* `delete_session_metadata`, `prune_expired_admission_cancellation`: retention.
* `record_admission_cancellation_inner`: the tombstone of a cancelled admission.

### HostRuntime: one action per critical section

The threads are the operation in the capacity slot (start-up, admission, or stop), one worker per Turn, and the
reconciliation the admission or start-up performs. Each has a program counter and the values it carries from one
lock to the next (`claim`, `result`, `stop.claim`, `reconciler.claim`). An action is what one thread does under
one lock (storage, recovery queue, or registry of executions); everything between two locks interleaves. Calls
into the store are the `HostStore` actions themselves, with the remembered revisions.

`upstream[t]` is the execution at Codex, which the model treats as external: it becomes active when the worker
writes `turn/start` and may end at any time; an interrupt ends it or is not confirmed. `control[t]` is what the
control channel has decided: after a stop was told that nothing was dispatched, the session does not dispatch.
`Faults` selects the failures: `restart` (the process ends and starts between any two steps), `heartbeat` and
`spawn` (the Turn is stored and its worker cannot be started), `stop_io` (a stop fails while it observes or
commits).

### OperationCapacity: leaders, followers, cancellations

The calls in `Admits` and `Cancels` carry the same request identity, as a client's retries and its cancellations
do; `Exclusives` are other users of the slot. An action is what a call does under the capacity lock, under the
entry's result lock, under the commit gate, or in one transaction. What the store knows of the request is one
value (`durable`), because the calls only ask that. The generation counter is abstracted to what each call can
tell from it: whether it has advanced since the call looked (`fresh`). `Failures` selects `panic` (the operation
in the slot unwinds, so `Drop` runs) and `storage` (a transaction fails).

`CancelledIsQuiet` is stated for a request that is sent once. When it is sent again while it is cancelled, a
cancellation that joined an entry which has failed in the meantime records its tombstone through
`completed_cancellation_outcome`, which neither advances the generation nor looks for a newer entry; a retry that
read "missing" just before is installed and probes on, never asked to end. Its Turn is still refused by the store
(`AnswersHold`, which is checked for retries too).

### TurnQueue: rows, files, calls, one worker

A row of `turn_admission_queue` and its payload file are named after the enqueue call that wrote them. An action
is one transaction, one file step, or one round's look at the Host; the calls have program counters, and so has
the drain thread. The order of rows is the order in which the calls read the clock (`order`), which need not be
the order of the inserts; `elapsed` counts how many of them have passed their expiry, and moves at any time. What
else happens on the Host is an input of `drain_idle` and `admit`: free, an operation in the slot, a Turn or
set-up at work, or a desktop held by something that waits for recovery. `running`, `rechecking` and `restarting`
are the flag and the two steps with which `start_queue_worker` closes the race between an enqueue and a worker
that ends. `Failures` selects `crash`, `stop` (a shutdown is requested, later the daemon starts again), `storage`
(a transaction, or the event after it, fails), `spawn` and `panic`. `earlier` is a history variable for `Fifo`.
An admission recognises the Turn its key already has only after bindings, attachments and the configuration have
been checked and the store has been read; `admit` lets each of these fail, for a key with a Turn too, and with
`storage` lets the admission end in an error although its Turn is stored (`admission_unknown`).

What a failed request says of its Turn is therefore limited. `BusyNeverStarted` holds: "host busy" means that there
is no Turn, because the Turn of an earlier admission is found before the desktop is asked for (its record is kept
for 24 hours after the Turn ends, and no request waits longer than that). The other failures do not say so. The Turn is stored in one transaction and the row marked admitted in another; after a crash between
the two the row is still queued and the next daemon reads, validates and admits it again, and a payload that cannot
be read, a policy, credential, binding or configuration that has changed, or an error of the store makes the loop
record `validation_failed`, "queued Turn failed pre-start validation" (`host/runtime.rs:4935`), for a Turn that was
admitted. Adding `\A e \in Enqueues : status[e] = "validation_failed" => KeyOf[e] \notin turns` as an invariant of
one request with `Failures = {"crash"}` gives that trace in twenty states. Without a crash the same comes of a store
error after the Turn was stored (`host/runtime.rs:4213`), and of a revocation while the request is being admitted.

A panic during an admission (`admission_panics`) ends the drain thread before `finish_queue_worker`: the flag stays
set, no call starts another worker, and the requests wait until a call expires them or the daemon is started again.
The code has nothing to prevent this, so `WorkerOwed` and `QueuedSettles` are checked without `panic` and do not
hold with it; the safety properties of `queue_errors` are checked with it.
`PayloadIsOwed` and `WorkerOwed` are checked without `storage`: an error in the middle of an expiry leaves the
other expired files to the next start, and one after an insert returns before the worker is started; the next
call starts it.

## The runs

| Run | Instance | What it shows |
|---|---|---|
| `store_session` | 1 Session, 2 Turns, 2 admission keys, 2 stop keys, `MaxRevision` 5 | leases, revisions and request records stay coherent under every order of transactions, retries, restarts, deletions and expiries; an ended Turn stays as it ended |
| `store_shared` | 2 Sessions on 1 of 2 desktops, references, probes, snapshots, maintenance | one open Turn per desktop; maintenance excludes everything else; references identify their owners and never change; the store implements `DesktopOwnership` |
| `stop_replay` | 1 Session, 2 Turns | **violated**: a resumed stop can record a result its replay cannot load |
| `runtime_desktops` | 2 Turns, in one Session or on 2 desktops, 2 stops, all failures | no Turn ends under a running execution; a stop's claim stays valid; no open Turn is forgotten; the recovery queue's subject in flight has one holder |
| `runtime_progress` | 1 Turn, 2 stops, restarts, start failures; fair threads | every Turn ends or is handed to recovery; the slot is freed again |
| `runtime_queue` | 1 Turn, 2 stops, no failure | **violated**: an ended Turn can stay in the recovery queue |
| `capacity` | 2 admissions, a cancellation, another operation, all failures; fair threads | the slot is never leaked, answers stay true, replays are final, a cancelled request is quiet, provisional unknown ownership is taken back, every call returns |
| `queue_order` | 3 requests, depth 2 | depth and first-come order hold under overlapping enqueues |
| `queue_settles` | a request, its retry, a poll; shutdowns and restarts; fair threads and clock | no payload file outlives its request; no lost wake-up of the worker; every waiting request is settled |
| `queue_errors` | a request, its retry with another credential, a cancellation, a revocation; crashes, panics, storage and spawn errors | a waiting request has its file; one row per key; a request refused because the desktop is taken has no Turn |
| `queue_cancelled` | 1 request, 1 cancellation, no failure | **violated**: a request answered "cancelled" can still start |
| `queue_desktop` | 1 request, no failure | **violated**: a request is failed because the desktop is taken |

**Bounds.** Turns, keys, references and calls are finite sets given in the `.cfg` files. Two Turns per Session are
the least with a Turn that is not the last; two Sessions the least that compete; two keys the least that
disagree. `MaxRevision` stands for `u64::MAX`: it is 3 to 5 in the store runs so that the refusal at the end is
reached, and 8 in the runtime runs so that no thread meets it. Deadlock is not checked where the system may stop: revisions run out, keys are used up, every
call returns; the queue runs with crashes check it. Symmetry is over interchangeable keys, Sessions, desktops and calls, never in a run
with a liveness property.

**Fairness.** `FairRuntimeSpec` assumes weak fairness of the admission and the stop in the slot, of the
reconciliation, and of each worker. The code justifies it: each is a thread that has begun, every wait for Codex
has a deadline, and no lock is held across such a wait. Nothing is assumed of clients (no request has to arrive),
of Codex (`upstream_ends` is not fair) or of restarts. `SlotIsFreed` excludes only daemons that restart for
ever. `TurnSettles` is checked without `stop_io`: a stop that fails half-way leaves its record pending by design,
and the Turn then waits for the client to repeat the stop (`NoOrphan` counts that as attended).
`FairCapacitySpec` assumes weak fairness of every call that has begun, for the same reason. `FairQueueSpec` adds
the clock (every request expires in the end) and that a daemon told to stop is started again; nothing is assumed
of the Host, which may be busy for ever.

### What the violated runs show

* `stop_replay`. A stop whose observation did not finish leaves a pending record. When the Turn then ends by
  itself, a follow-up is admitted and the client repeats the stop, `begin_stop` completes the record with the
  Session's present revision. From then on a replay, which loads the Session only up to the stopped Turn and
  compares revisions, fails with invalid stored state. `.facts:1578` promises that stop is idempotent.
* `runtime_queue`. `preserve_unknown_execution` commits `recovery_pending` under the storage lock and queues the
  Turn after releasing it. A stop between the two ends the Turn and finds nothing to remove; the worker then
  queues an ended Turn, and later admissions fail on it until the Turn is stopped again or the daemon restarts.
* `queue_cancelled`. The drain thread chooses a row, reads its payload, looks at its principal and admits the Turn
  without looking at the row again. A cancellation in between is answered "cancelled" and the row stays
  cancelled, but the Turn starts (`.facts:1625`).
* `queue_desktop`. "Idle" in the drain loop means that nothing is at work, not that the desktop is free. When a
  Turn that waits for recovery holds it, or another client takes it first, the admission is refused as host busy,
  which the loop records as a failure of the request instead of waiting (comment at `turn_queue.rs:568`,
  `.facts:1618`).

## The proofs

`HostStoreProofs` and `HostStoreRefinement` prove, for every number of Sessions, Turns, desktops, keys and
references and every `MaxRevision`:

| Theorem | Statement |
|---|---|
| `TypeCorrect` | `Spec => []TypeOK` |
| `LeaseOwnership` | `Spec => []LeaseMatchesTurn` |
| `DesktopExclusion` | `Spec => []OneActiveTurnPerDesktop` |
| `MaintenanceExclusion` | `Spec => []MaintenanceExclusive` |
| `RecordOwnership` | `Spec => []RecordsFollowTurns` |
| `StopAttribution` | `Spec => []StoppedByOneRequest` |
| `CancellationRespected` | `Spec => []CancelledNeverAdmitted` |
| `Finality` | `Spec => EndedIsFinal` |
| `Refinement` | `Spec => ImplementsOwnership` |

The assumptions are those of the constants: `MaxTurns` and `MaxRevision` are positive, `BindingOf` maps Sessions
to desktops, and the "none" values are not members of the sets they stand beside.

No single property is inductive. That a desktop has one open Turn follows from the lease
(`LeaseMatchesTurn`), but that a follow-up finds the lease free needs that only the last Turn of a Session is
open (`SessionShape`); that a Turn is stopped by one request needs that every stop record names a stored Turn; and
that an ended Turn's record keeps its result needs that the record's outcome is the Turn's state. The inductive
invariant is therefore their conjunction,

    StoreInv == TypeOK /\ LeaseMatchesTurn /\ MaintenanceExclusive /\ SessionShape /\ AdmissionsFollowTurns
                /\ StopsFollowTurns /\ StoppedByOneRequest /\ CancelledNeverAdmitted

Admissions (`begin_session` and `begin_follow_up`) and changes of a Turn (`commit_lifecycle` and
`confirm_stop_change`) share their effect, so one lemma for each effect (`AdmissionInv`, `ChangeTurnInv`) serves
several actions; `OperationalInv`, `RestartInv`, `DeleteInv`, `BeginStopInv`, `RetainStopInv` treat the rest, and
`StoreStep` combines them. `Finality` is an action property that follows from `StoreInv` step by step.
`Refinement` maps an open Turn to an owner, an ended or deleted one to `ended`, and a desktop with a lease of
another kind, or any desktop during maintenance, to `borrowed`; an admission is `Acquire`, an ending `Release`,
and everything else `Borrow` or a stutter.

**Only model-checked:** that the Session revision is the sum of its Turns' revisions (`SessionCoherent`) and,
with it, `AdmissionReplayable`: both sum over a recursive function, and the induction they need is out of the
provers' reach. Liveness (`TurnSettles`, `SlotIsFreed`, `EveryCallReturns`) is out of reach too. The reference
properties and everything about `HostRuntime`, `OperationCapacity` and `TurnQueue` are model-checked and not proved yet.

## What is not modelled

The modules stand for about 5,400 lines of a Rust workspace of some 200,000 (files named as tests left out): the
daemon's admission, ownership, stop, recovery, capacity and queue code. Nothing here speaks for the rest.

* Row encodings, HMACs, digests, timestamps and clocks: a record is found by its key, an expiry may happen at any
  time its guard allows. A key reused with another digest is refused by the code and changes nothing.
* The identity gate of the capacity slot (a read-write lock around key rotation).
* The inside of the control channel between a stop and a Codex session (poll, claim, deadline): one step here.
* Attached (in-process) dispatch, which runs the same worker on the caller's thread, and recordings, which the
  commands of an in-process Host start when a Turn is dispatched, attached or detached.
* In `TurnQueue`: several desktops (the thread takes the oldest request of all and waits for the whole Host),
  positions, revisions, events and logs of the rows, a clock that is set back.
* In `HostRuntime`: probes, snapshots, maintenance and retention; `HostStore` has them with arbitrary callers.
* Every part the table of `PROJECT.json` calls `not_modelled`, with its reason there.

## Plan

Modules in the order of what they protect; each gets its type invariant, its hazards' properties and mutants.

1. `CodexControl`: the control channel of one Codex session, refining the single step `HostRuntime` makes of it.
2. `LiveEvents`: publication order against commit order (a stop publishes after it released the storage lock,
   `host/runtime-stop.rs:93`), bounded subscriptions, the client's reconnect.
3. `SetupLedger`: actions interrupted between start and outcome, resumption, the lease they run under.
4. `ProviderSecrets`: files and journal phases with a crash between any two.
5. `StorageMigration`: backup, migration, restore with crashes; the path-migration marker.
6. `ApiTokens`: rotation and revocation against authenticated requests.
7. `Recording`, `BootstrapLock`, `SelfUpdate`, the log cursor.

Proofs next: `ReferencesIdentify` and `ReferencesAreStable`; `SlotHasOneHolder` and `AnswersHold` of
`OperationCapacity`; `QueuedHasPayload`, `OneRequestPerKey` and `WorkerOwed` of `TurnQueue`; `UpstreamOwned`, `StopClaimStaysValid` and `NoOrphan` of `HostRuntime`, each with the inductive strengthening TLC confirms first.
