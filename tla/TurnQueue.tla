------------------------------ MODULE TurnQueue ------------------------------
(***************************************************************************)
(* The durable queue of Turn requests of one desktop: the rows of          *)
(* turn_admission_queue, the private payload files beside them, the calls  *)
(* that enqueue, poll and cancel requests or revoke their credential, and  *)
(* the thread that drains the queue (crates/satelle/src/host/turn_queue.rs *)
(* and host/storage/queue.rs).                                             *)
(*                                                                         *)
(* A row and its file are named after the call that wrote them: every      *)
(* enqueue makes a new queue_request_id, a retry too.  An action is one    *)
(* transaction or one file operation.  What holds the desktop otherwise    *)
(* (HostRuntime, ControlLeases) is the environment here: the thread finds  *)
(* the Host in one of HostStates each time it looks.  Revision numbers,    *)
(* positions, events and logs of the rows are left out.                    *)
(***************************************************************************)
EXTENDS Integers, Sequences, FiniteSets

CONSTANTS
    Enqueues,     \* calls of enqueue_turn
    Cancels,      \* calls of cancel_queued_turn
    Polls,        \* calls of queued_turn_status
    Revokes,      \* calls of mutate_api_token that revoke or rotate a credential
    Worker,       \* the drain thread
    NoRow,        \* no row
    KeyOf,        \* the idempotency key of each enqueue
    TokenOf,      \* the credential of each enqueue, and the one each revocation ends
    RowOf,        \* the row each cancellation and each poll names
    MaxDepth,     \* queue.max_depth
    Failures      \* the failures that may happen

Calls   == Enqueues \cup Cancels \cup Polls \cup Revokes
Threads == Calls \cup {Worker}
Keys    == {KeyOf[e] : e \in Enqueues}
Tokens  == {TokenOf[x] : x \in Enqueues \cup Revokes}

ASSUME QueueCallsAssumption ==
    /\ Enqueues \cap Cancels = {} /\ Enqueues \cap Polls = {} /\ Enqueues \cap Revokes = {}
    /\ Cancels \cap Polls = {} /\ Cancels \cap Revokes = {} /\ Polls \cap Revokes = {}
    /\ Worker \notin Calls /\ NoRow \notin Enqueues
    /\ RowOf \in [Cancels \cup Polls -> Enqueues]

ASSUME MaxDepthAssumption == MaxDepth \in Nat \ {0}

ASSUME QueueFailuresAssumption == Failures \subseteq {"crash", "stop", "storage", "spawn", "panic"}

VARIABLES
    status,       \* status[e]: the row e wrote; "none" if it wrote none
    failure,      \* failure[e]: why the row failed
    files,        \* the payload files
    turns,        \* the keys whose Turn has been admitted
    revoked,      \* the credentials that are no longer active
    order,        \* the enqueue calls in the order of their timestamps
    elapsed,      \* how many of them have passed their expiry time
    earlier,      \* earlier[e]: the enqueues answered when e began (history)
    pc,           \* pc[x]: where call x is
    doomed,       \* doomed[x]: the files thread x is about to delete
    found,        \* found[c]: the status a cancellation saw first
    answer,       \* answer[x]: what call x returned
    stopping,     \* queue_worker_shutdown
    running,      \* queue_worker_running
    worker,       \* the drain loop: [pc, row, verdict]
    rechecking,   \* threads that have cleared running and will look once more
    restarting    \* threads that have looked and will start another worker

rowVars    == <<status, failure, files, turns, revoked>>
clockVars  == <<order, elapsed, earlier>>
callVars   == <<pc, found, answer>>
workerVars == <<stopping, running, worker, rechecking, restarting>>
queueVars  == <<rowVars, clockVars, callVars, doomed, workerVars>>

Statuses == {"queued", "admitted", "cancelled", "expired", "validation_failed"}
Verdicts == {"none", "admitted", "busy", "refused", "rejected"}

\* Nothing going on; an operation in its slot; a Turn or a set-up run at work; the desktop
\* held by a Turn or a set-up run that waits for recovery, with nothing at work.
HostStates == {"free", "operation", "working", "held"}

\* daemon_activity_snapshot sees work, not leases.
IdleStates == {"free", "held"}

IdleWorker == [pc |-> "off", row |-> NoRow, verdict |-> "none"]

QueueTypeOK ==
    /\ status \in [Enqueues -> Statuses \cup {"none"}]
    /\ failure \in [Enqueues -> Verdicts]
    /\ files \subseteq Enqueues /\ turns \subseteq Keys /\ revoked \subseteq Tokens
    /\ order \in Seq(Enqueues) /\ elapsed \in 0..Len(order)
    /\ earlier \in [Enqueues -> SUBSET Enqueues]
    /\ pc \in [Calls -> {"start", "delete", "write", "insert", "unlink", "status", "cancel",
                         "kick", "done"}]
    /\ doomed \in [Threads -> SUBSET Enqueues]
    /\ found \in [Cancels -> Statuses \cup {"none"}]
    /\ answer \in [Calls -> {"none", "queued", "full", "err", "lost", "cancelled",
                             "already_terminal", "already_admitted", "ok"}]
    /\ stopping \in BOOLEAN /\ running \in BOOLEAN
    /\ worker \in [pc: {"off", "expire", "delete", "idle", "next", "read", "check", "admit",
                        "record", "unlink", "exit"},
                   row: Enqueues \cup {NoRow}, verdict: Verdicts]
    /\ rechecking \in Nat /\ restarting \in Nat

QueueInit ==
    /\ status = [e \in Enqueues |-> "none"]
    /\ failure = [e \in Enqueues |-> "none"]
    /\ files = {} /\ turns = {} /\ revoked = {}
    /\ order = <<>> /\ elapsed = 0
    /\ earlier = [e \in Enqueues |-> {}]
    /\ pc = [x \in Calls |-> "start"]
    /\ doomed = [x \in Threads |-> {}]
    /\ found = [c \in Cancels |-> "none"]
    /\ answer = [x \in Calls |-> "none"]
    /\ stopping = FALSE /\ running = TRUE
    /\ worker = [IdleWorker EXCEPT !.pc = "expire"]
    /\ rechecking = 0 /\ restarting = 0

-----------------------------------------------------------------------------
(* Building blocks.                                                        *)

Queued == {e \in Enqueues : status[e] = "queued"}

Before(e, f) ==
    \E i, j \in 1..Len(order) : i < j /\ order[i] = e /\ order[j] = f

Due == {order[i] : i \in 1..elapsed}

Goes(x, label) == pc' = [pc EXCEPT ![x] = label]

Returns(x, value) == Goes(x, "done") /\ answer' = [answer EXCEPT ![x] = value]

Dooms(x, rows) == doomed' = [doomed EXCEPT ![x] = rows]

\* A row that is still queued gets another status; others are left alone.
Settle(rows, value) ==
    status' = [e \in Enqueues |-> IF e \in rows /\ status[e] = "queued" THEN value ELSE status[e]]

\* One transaction; the thread deletes the files after it.  The clock is read just
\* before it.
expire_queue_requests(x) ==
    /\ Settle(Due, "expired")
    /\ Dooms(x, Due \cap Queued)
\* expire_turn_queue after the transaction.  Each deletion is followed by an event whose
\* failure ends the loop: the files not reached stay.
DeletesDoomed(x, next, failed) ==
    /\ Dooms(x, {})
    /\ \/ files' = files \ doomed[x] /\ next
       \/ /\ "storage" \in Failures
          /\ \E reached \in SUBSET doomed[x] : files' = files \ reached
          /\ failed

\* start_queue_worker: the compare-and-exchange, then the thread.
start_queue_worker ==
    \/ /\ ~stopping /\ ~running
       /\ running' = TRUE
       /\ worker' = [IdleWorker EXCEPT !.pc = "expire"]
    \/ /\ stopping \/ running \/ "spawn" \in Failures
       /\ UNCHANGED <<running, worker>>

-----------------------------------------------------------------------------
(* enqueue_turn, queued_turn_status, cancel_queued_turn, mutate_api_token. *)

enqueue_turn(e) ==
    /\ pc[e] = "start"
    /\ TokenOf[e] \notin revoked
    /\ order' = Append(order, e)
    /\ earlier' = [earlier EXCEPT ![e] = {f \in Enqueues : pc[f] = "done" /\ answer[f] = "queued"}]
    /\ expire_queue_requests(e)
    /\ Goes(e, "delete")
    /\ UNCHANGED <<failure, files, turns, revoked, elapsed, found, answer, workerVars>>

\* A client knows the identifier of a row from the answer to an enqueue.
Known(row) ==
    /\ status[row] # "none"
    /\ \E e \in Enqueues : pc[e] = "done" /\ answer[e] = "queued" /\ KeyOf[e] = KeyOf[row]

\* queued_turn_status and cancel_queued_turn begin alike.
status_or_cancel(x) ==
    /\ pc[x] = "start"
    /\ Known(RowOf[x])
    /\ expire_queue_requests(x)
    /\ Goes(x, "delete")
    /\ UNCHANGED <<failure, files, turns, revoked, clockVars, found, answer, workerVars>>

AfterExpiry(x) ==
    IF x \in Enqueues THEN "write" ELSE IF x \in Cancels THEN "status" ELSE "kick"

delete_expired(x) ==
    /\ pc[x] = "delete" /\ x \notin Revokes
    /\ DeletesDoomed(x, Goes(x, AfterExpiry(x)) /\ UNCHANGED answer, Returns(x, "err"))
    /\ UNCHANGED <<status, failure, turns, revoked, clockVars, found, workerVars>>

\* enqueue_turn_queue: the file is on disk before the row names it.
write_payload(e) ==
    /\ pc[e] = "write"
    /\ files' = files \cup {e}
    /\ Goes(e, "insert")
    /\ UNCHANGED <<status, failure, turns, revoked, clockVars, found, answer, doomed,
                   workerVars>>

\* Mutant: only requests that still wait are found by their key.
SameKey_waiting(e) == {f \in Queued : KeyOf[f] = KeyOf[e]}

SameKey(e) == {f \in Enqueues : status[f] # "none" /\ KeyOf[f] = KeyOf[e]}

\* Mutant: off by one.
HasRoom_one_more == Cardinality(Queued) <= MaxDepth

HasRoom == Cardinality(Queued) < MaxDepth

\* Mutant: on a replay the file of the stored record goes.
Superfluous_stored(e) == IF SameKey(e) = {} THEN {e} ELSE SameKey(e)

\* The file that a call that inserted nothing deletes: its own.
Superfluous(e) == {e}

\* The row is written, unless the key has one (the same request is answered with it, another
\* one is a conflict) or the queue is full; then the new file goes.
enqueue_queue_request(e) ==
    /\ pc[e] = "insert"
    /\ \/ /\ SameKey(e) = {} /\ HasRoom
          /\ status' = [status EXCEPT ![e] = "queued"]
          /\ answer' = [answer EXCEPT ![e] = "queued"]
          /\ Goes(e, "kick")
          /\ UNCHANGED doomed
       \/ /\ \/ /\ SameKey(e) # {}
                /\ answer' = [answer EXCEPT ![e] =
                                IF \E f \in SameKey(e) : TokenOf[f] = TokenOf[e]
                                THEN "queued" ELSE "err"]
             \/ /\ SameKey(e) = {} /\ ~HasRoom
                /\ answer' = [answer EXCEPT ![e] = "full"]
             \/ /\ "storage" \in Failures
                /\ answer' = [answer EXCEPT ![e] = "err"]
          /\ Dooms(e, Superfluous(e))
          /\ Goes(e, "unlink")
          /\ UNCHANGED status
    /\ UNCHANGED <<failure, files, turns, revoked, clockVars, found, workerVars>>

delete_payload(x) ==
    /\ pc[x] = "unlink"
    /\ files' = files \ doomed[x]
    /\ Dooms(x, {})
    /\ Goes(x, IF answer[x] \in {"full", "err"} THEN "done" ELSE "kick")
    /\ UNCHANGED <<status, failure, turns, revoked, clockVars, found, answer, workerVars>>

read_before_cancel(c) ==
    /\ pc[c] = "status" /\ c \in Cancels
    /\ found' = [found EXCEPT ![c] = status[RowOf[c]]]
    /\ IF status[RowOf[c]] = "admitted"
       THEN Returns(c, "already_admitted")
       ELSE Goes(c, "cancel") /\ UNCHANGED answer
    /\ UNCHANGED <<rowVars, clockVars, doomed, workerVars>>

cancel_queue_request(c) ==
    /\ pc[c] = "cancel"
    /\ Settle({RowOf[c]}, "cancelled")
    /\ Dooms(c, {RowOf[c]} \cap Queued)
    /\ answer' = [answer EXCEPT ![c] =
                    IF found[c] = "queued" /\ status'[RowOf[c]] = "cancelled"
                    THEN "cancelled" ELSE "already_terminal"]
    /\ Goes(c, "unlink")
    /\ UNCHANGED <<failure, files, turns, revoked, clockVars, found, workerVars>>

\* The last thing these calls do.
kick(x) ==
    /\ pc[x] = "kick"
    /\ start_queue_worker
    /\ Goes(x, "done")
    /\ answer' = [answer EXCEPT ![x] = IF x \in Polls THEN "ok" ELSE answer[x]]
    /\ UNCHANGED <<rowVars, clockVars, found, doomed, stopping, rechecking, restarting>>

\* One storage lock, two transactions: the second may fail after the first.
mutate_api_token(k) ==
    /\ pc[k] = "start" /\ k \in Revokes
    /\ TokenOf[k] \notin revoked
    /\ revoked' = revoked \cup {TokenOf[k]}
    /\ LET rows == {e \in Queued : TokenOf[e] = TokenOf[k]}
       IN \/ /\ Settle(rows, "validation_failed")
             /\ failure' = [e \in Enqueues |-> IF e \in rows THEN "rejected" ELSE failure[e]]
             /\ Dooms(k, rows)
             /\ Goes(k, "delete") /\ UNCHANGED answer
          \/ /\ "storage" \in Failures
             /\ Returns(k, "err")
             /\ UNCHANGED <<status, failure, doomed>>
    /\ UNCHANGED <<files, turns, clockVars, found, workerVars>>

delete_revoked(k) ==
    /\ pc[k] = "delete" /\ k \in Revokes
    /\ DeletesDoomed(k, Returns(k, "ok"), Returns(k, "err"))
    /\ UNCHANGED <<status, failure, turns, revoked, clockVars, found, workerVars>>

\* A transaction of call x fails, or the event after it, and with it the call.
CallFails(x) ==
    /\ "storage" \in Failures
    /\ pc[x] \in {"write", "status", "cancel", "kick"}
    /\ Returns(x, "err")
    /\ UNCHANGED <<rowVars, clockVars, found, doomed, workerVars>>
-----------------------------------------------------------------------------
(* drain_turn_queue.                                                       *)

WorkerGoes(label) == worker' = [worker EXCEPT !.pc = label]

NewRound == worker' = [IdleWorker EXCEPT !.pc = "expire"]

Judges(verdict) == worker' = [worker EXCEPT !.pc = "record", !.verdict = verdict]

\* Mutant: the loop leaves expiry to the calls.
drain_expire_not ==
    /\ worker.pc = "expire"
    /\ WorkerGoes(IF stopping THEN "exit" ELSE "delete")
    /\ UNCHANGED <<rowVars, clockVars, callVars, doomed, stopping, running, rechecking,
                   restarting>>

drain_expire ==
    /\ worker.pc = "expire"
    /\ \/ /\ ~stopping
          /\ expire_queue_requests(Worker)
          /\ WorkerGoes("delete")
       \/ /\ stopping \/ "storage" \in Failures
          /\ WorkerGoes("exit")
          /\ UNCHANGED <<status, doomed>>
    /\ UNCHANGED <<failure, files, turns, revoked, clockVars, callVars, stopping, running,
                   rechecking, restarting>>

drain_delete ==
    /\ worker.pc = "delete"
    /\ DeletesDoomed(Worker, WorkerGoes("idle"), WorkerGoes("exit"))
    /\ UNCHANGED <<status, failure, turns, revoked, clockVars, callVars, stopping, running,
                   rechecking, restarting>>

\* The Host is looked at once per round; it may change before the admission.
drain_idle(host) ==
    /\ worker.pc = "idle"
    /\ WorkerGoes(IF host \in IdleStates THEN "next" ELSE "expire")
    /\ UNCHANGED <<rowVars, clockVars, callVars, doomed, stopping, running, rechecking,
                   restarting>>

\* Mutant: rows come in no order.
IsFirst_any(e) == e \in Queued

IsFirst(e) == e \in Queued /\ \A f \in Queued : ~Before(f, e)

next_queued_turn ==
    /\ worker.pc = "next"
    /\ \/ \E e \in Enqueues : IsFirst(e) /\ worker' = [worker EXCEPT !.pc = "read", !.row = e]
       \/ /\ Queued = {} \/ "storage" \in Failures
          /\ WorkerGoes("exit")
    /\ UNCHANGED <<rowVars, clockVars, callVars, doomed, stopping, running, rechecking,
                   restarting>>

read_queued_turn ==
    /\ worker.pc = "read"
    /\ IF worker.row \in files THEN WorkerGoes("check") ELSE Judges("rejected")
    /\ UNCHANGED <<rowVars, clockVars, callVars, doomed, stopping, running, rechecking,
                   restarting>>

\* The queue policy, the credential and the request are looked at again.
revalidate ==
    /\ worker.pc = "check"
    /\ \/ TokenOf[worker.row] \notin revoked /\ WorkerGoes("admit")
       \/ Judges("rejected")
    /\ UNCHANGED <<rowVars, clockVars, callVars, doomed, stopping, running, rechecking,
                   restarting>>

\* Mutant: the Turn of an earlier admission is not recognised.
Resolved_not == FALSE

\* The store has a Turn for the key: resolve finds it, if it can be read.
Resolved == KeyOf[worker.row] \in turns

AdmitsTurn == turns' = turns \cup {KeyOf[worker.row]}

\* admit_run and admit_steer.  Bindings, attachments and the present configuration are checked,
\* and the store is read, before a stored Turn is recognised: each of these may fail, also for a
\* key that has its Turn.  So may, after the Turn is stored, the read that finds out whether it
\* is (classify_failed_admission).  Of all these errors only a taken operation slot
\* (CapacityExceeded) is retried.
admit(host) ==
    /\ worker.pc = "admit"
    /\ \/ stopping /\ WorkerGoes("exit") /\ UNCHANGED turns
       \/ ~stopping /\ Judges("refused") /\ UNCHANGED turns
       \/ ~stopping /\ Resolved /\ Judges("admitted") /\ UNCHANGED turns
       \/ /\ ~stopping /\ ~Resolved /\ host = "free"
          /\ AdmitsTurn
          /\ Judges("admitted") \/ ("storage" \in Failures /\ Judges("refused"))
       \/ /\ ~stopping /\ ~Resolved /\ host \in {"working", "held"}
          /\ Judges("busy") /\ UNCHANGED turns
       \/ /\ ~stopping /\ ~Resolved /\ host = "operation"
          /\ NewRound /\ UNCHANGED turns
    /\ UNCHANGED <<status, failure, files, revoked, clockVars, callVars, doomed, stopping, running,
                   rechecking, restarting>>

\* An admission that panics takes the thread with it: nobody clears running, so no call starts
\* another worker until the daemon does.
admission_panics ==
    /\ "panic" \in Failures
    /\ worker.pc = "admit" /\ ~stopping
    /\ UNCHANGED turns \/ AdmitsTurn
    /\ worker' = IdleWorker
    /\ UNCHANGED <<status, failure, files, revoked, clockVars, callVars, doomed, stopping, running,
                   rechecking, restarting>>

\* The loop goes on after a failure before the admission, whatever becomes of the record,
\* and ends when the outcome of an admission cannot be recorded.
OnRecordError == IF worker.verdict = "rejected" THEN NewRound ELSE WorkerGoes("exit")

\* Mutant: the outcome of the admission is written as the status.
TerminalStatus_verdict == worker.verdict

TerminalStatus == IF worker.verdict = "admitted" THEN "admitted" ELSE "validation_failed"

\* Mutant: only an admitted request loses its payload.
FinishedFile_admitted == IF worker.verdict = "admitted" THEN {worker.row} ELSE {}

FinishedFile == {worker.row}

\* finish_queued_turn_admitted and finish_queued_turn_failed: a row that is no longer queued
\* keeps its status, and its file goes all the same.
finish_queued_turn ==
    /\ worker.pc = "record"
    /\ \/ /\ Settle({worker.row}, TerminalStatus)
          /\ failure' = [failure EXCEPT ![worker.row] =
                            IF status[worker.row] = "queued" /\ worker.verdict # "admitted"
                            THEN worker.verdict ELSE @]
          /\ Dooms(Worker, FinishedFile)
          /\ WorkerGoes("unlink")
       \/ /\ "storage" \in Failures
          /\ OnRecordError
          /\ UNCHANGED <<status, failure, doomed>>
    /\ UNCHANGED <<files, turns, revoked, clockVars, callVars, stopping, running, rechecking,
                   restarting>>

finish_delete ==
    /\ worker.pc = "unlink"
    /\ files' = files \ doomed[Worker]
    /\ Dooms(Worker, {})
    /\ \/ NewRound
       \/ "storage" \in Failures /\ OnRecordError
    /\ UNCHANGED <<status, failure, turns, revoked, clockVars, callVars, stopping, running,
                   rechecking, restarting>>

\* Mutant: the thread does not look again.
finish_queue_worker_only ==
    /\ worker.pc = "exit"
    /\ running' = FALSE
    /\ worker' = IdleWorker
    /\ UNCHANGED <<rowVars, clockVars, callVars, doomed, stopping, rechecking, restarting>>

\* The thread clears running, looks at the queue once more, and starts a worker if it must.
finish_queue_worker ==
    /\ worker.pc = "exit"
    /\ running' = FALSE
    /\ worker' = IdleWorker
    /\ rechecking' = rechecking + 1
    /\ UNCHANGED <<rowVars, clockVars, callVars, doomed, stopping, restarting>>

recheck ==
    /\ rechecking > 0
    /\ rechecking' = rechecking - 1
    /\ \/ ~stopping /\ Queued # {} /\ restarting' = restarting + 1
       \/ /\ stopping \/ Queued = {} \/ "storage" \in Failures
          /\ UNCHANGED restarting
    /\ UNCHANGED <<rowVars, clockVars, callVars, doomed, stopping, running, worker>>

restart_worker ==
    /\ restarting > 0
    /\ restarting' = restarting - 1
    /\ start_queue_worker
    /\ UNCHANGED <<rowVars, clockVars, callVars, doomed, stopping, rechecking>>

-----------------------------------------------------------------------------
(* The Host around the queue.                                              *)

\* Time passes: the requests expire in the order of their timestamps.
Tick ==
    /\ elapsed < Len(order)
    /\ elapsed' = elapsed + 1
    /\ UNCHANGED <<rowVars, order, earlier, callVars, doomed, workerVars>>

\* request_queue_worker_shutdown.
Stop ==
    /\ "stop" \in Failures /\ ~stopping
    /\ stopping' = TRUE
    /\ UNCHANGED <<rowVars, clockVars, callVars, doomed, running, worker, rechecking,
                   restarting>>

\* The process ends, and its successor opens the store, prunes the files and serves: calls
\* that had begun are not answered.
Restart ==
    /\ stopping \/ "crash" \in Failures
    /\ Settle(Due, "expired")
    /\ files' = files \cap {e \in Enqueues : status'[e] = "queued"}
    /\ pc' = [x \in Calls |-> IF pc[x] = "start" THEN "start" ELSE "done"]
    /\ answer' = [x \in Calls |-> IF pc[x] \in {"start", "done"} THEN answer[x] ELSE "lost"]
    /\ doomed' = [x \in Threads |-> {}]
    /\ stopping' = FALSE /\ running' = TRUE
    /\ worker' = [IdleWorker EXCEPT !.pc = "expire"]
    /\ rechecking' = 0 /\ restarting' = 0
    /\ UNCHANGED <<failure, turns, revoked, clockVars, found>>

CallStep(x) ==
    \/ delete_expired(x)
    \/ delete_payload(x)
    \/ kick(x)
    \/ delete_revoked(x)
    \/ CallFails(x)

WorkerStep ==
    \/ drain_expire \/ drain_delete \/ next_queued_turn \/ read_queued_turn \/ revalidate
    \/ \E host \in HostStates : drain_idle(host) \/ admit(host)
    \/ finish_queued_turn \/ finish_delete \/ finish_queue_worker

QueueNext ==
    \/ \E e \in Enqueues : enqueue_turn(e) \/ write_payload(e) \/ enqueue_queue_request(e)
    \/ \E x \in Cancels \cup Polls : status_or_cancel(x)
    \/ \E c \in Cancels : read_before_cancel(c) \/ cancel_queue_request(c)
    \/ \E k \in Revokes : mutate_api_token(k)
    \/ \E x \in Calls : CallStep(x)
    \/ WorkerStep \/ admission_panics \/ recheck \/ restart_worker
    \/ Tick \/ Stop \/ Restart

QueueSpec == QueueInit /\ [][QueueNext]_queueVars

\* Threads run, time passes, and a Host that was told to stop is started again.
QueueFairness ==
    /\ WF_queueVars(WorkerStep) /\ WF_queueVars(recheck) /\ WF_queueVars(restart_worker)
    /\ \A e \in Enqueues : WF_queueVars(write_payload(e) \/ enqueue_queue_request(e))
    /\ \A c \in Cancels : WF_queueVars(read_before_cancel(c) \/ cancel_queue_request(c))
    /\ \A x \in Calls : WF_queueVars(CallStep(x))
    /\ WF_queueVars(Tick)
    /\ WF_queueVars(stopping /\ Restart)

FairQueueSpec == QueueSpec /\ QueueFairness

-----------------------------------------------------------------------------
(* Properties.                                                             *)

\* A request that waits has its payload: nobody deletes the file of a row that is still
\* queued, whatever expiries, cancellations, retries and restarts run beside it.
QueuedHasPayload == Queued \subseteq files

\* Prompts do not outlive their request: a payload file belongs to a waiting row, to a call
\* about to insert one, or to a thread about to delete it.
PayloadIsOwed ==
    \A e \in files : \/ status[e] = "queued"
                     \/ pc[e] = "insert"
                     \/ \E x \in Threads : e \in doomed[x]

\* An idempotency key has one row, however often and however late its call is retried.
OneRequestPerKey ==
    \A e, f \in Enqueues :
        status[e] # "none" /\ status[f] # "none" /\ KeyOf[e] = KeyOf[f] => e = f

\* max_depth bounds the waiting requests even when several enqueues run at once.
DepthBounded == Cardinality(Queued) <= MaxDepth

\* No wake-up is lost: while a request waits a worker runs, or some thread is about to look
\* at the queue and start one.
WorkerOwed ==
    Queued # {} => \/ worker.pc # "off" \/ stopping
                   \/ rechecking > 0 \/ restarting > 0
                   \/ \E x \in Calls : pc[x] = "kick"

\* First come, first served: the worker is never past its choice of a waiting row while a
\* request that was accepted before that row's call began still waits.
Fifo ==
    worker.pc \in {"read", "check", "admit"} /\ status[worker.row] = "queued" =>
        earlier[worker.row] \cap Queued = {}

\* A request that is refused because the desktop is taken can be sent again: it has no Turn.
\* In particular it is not its own Turn that holds the desktop, when the process ended or the
\* store failed between the admission and its record and the row was taken up again.
BusyNeverStarted ==
    \A e \in Enqueues : failure[e] = "busy" => KeyOf[e] \notin turns

\* Every waiting request is settled: admitted, failed, cancelled or expired.
QueuedSettles == \A e \in Enqueues : status[e] = "queued" ~> status[e] # "queued"

\* "queued run and steer requests support explicit cancellation before they start": a
\* cancellation that was answered with "cancelled" leaves no Turn behind.
CancelledNeverStarts ==
    \A c \in Cancels : answer[c] = "cancelled" /\ pc[c] = "done" => KeyOf[RowOf[c]] \notin turns

\* "Queue admission must wait for both live Turn/control work and runtime-owned
\* maintenance": a request is not failed because the desktop is taken.
WaitsForTheDesktop == \A e \in Enqueues : failure[e] # "busy"
=============================================================================
