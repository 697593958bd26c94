-------------------------- MODULE OperationCapacity --------------------------
(***************************************************************************)
(* The Host-wide operation slot of crates/satelle/src/host/                *)
(* operation-capacity.rs, and the cancellation token the admission in the  *)
(* slot shares with the requests that cancel it.  The calls Admits and     *)
(* Cancels carry one and the same request identity, as a client's retries  *)
(* and its cancellations do; Exclusives are the other users of the slot.   *)
(*                                                                         *)
(* An action is what a call does under one lock or in one transaction.     *)
(* What the store knows of the request is one value here; HostStore has    *)
(* its records.  Of the generation counter only this matters to a call:    *)
(* has it advanced since the call looked at it.  The identity gate, which *)
(* keeps key rotation away, and a request that reuses the key with another *)
(* digest change nothing here.                                             *)
(***************************************************************************)
EXTENDS Integers

CONSTANTS
    Admits,       \* calls of execute_interruptible_durable
    Cancels,      \* calls of cancel_durable
    Exclusives,   \* calls of execute_exclusive
    NoCall,       \* not a call
    Failures      \* the failures that may happen

Calls == Admits \cup Cancels \cup Exclusives

ASSUME CallsAssumption ==
    /\ Admits \cap Cancels = {} /\ Admits \cap Exclusives = {} /\ Cancels \cap Exclusives = {}
    /\ NoCall \notin Calls

ASSUME FailuresAssumption == Failures \subseteq {"panic", "storage"}

VARIABLES
    active,       \* the call whose operation holds the slot, or NoCall
    durable,      \* what the store knows of the request
    token,        \* token[a]: the state of the cancellation token of admission a
    result,       \* result[a]: the result of the entry a leads: "none", "ok" or "err"
    outcome,      \* outcome[a]: the result its leader is going to publish
    pc,           \* pc[x]: where call x is
    fresh,        \* fresh[x]: the generation is still the one x observed
    found,        \* found[x]: what the store last told x
    joined,       \* joined[x]: the entry x waits for, or NoCall
    answer        \* answer[x]: what x returned, or "none"

callVars == <<pc, fresh, found, joined, answer>>
capacityVars == <<active, durable, token, result, outcome, callVars>>

DurableOutcomes == {"missing", "admitted", "cancelled", "recovery_pending"}
Tokens == {"open", "requested", "cancelled", "recovery_pending", "admitted"}
LeaderPcs == {"preflight", "gate", "dispatch", "settle", "persist", "clear"}
CancelPcs == {"register", "persist_pending", "persist_cancelled", "advance", "await",
              "resolve_admitted", "persist_final", "completed_resolve", "completed_persist"}
Answers == {"ok", "err", "busy", "admitted", "cancelled", "recovery_pending", "integrity"}

CapacityTypeOK ==
    /\ active \in Admits \cup Exclusives \cup {NoCall}
    /\ durable \in DurableOutcomes
    /\ token \in [Admits -> Tokens]
    /\ result \in [Admits -> {"none", "ok", "err"}]
    /\ outcome \in [Admits -> {"none", "ok", "err"}]
    /\ pc \in [Calls -> {"look", "resolve", "decide", "install", "wait", "run", "done"}
                            \cup LeaderPcs \cup CancelPcs]
    /\ fresh \in [Calls -> BOOLEAN]
    /\ found \in [Calls -> DurableOutcomes]
    /\ joined \in [Calls -> Admits \cup {NoCall}]
    /\ answer \in [Calls -> Answers \cup {"none"}]

CapacityInit ==
    /\ active = NoCall
    /\ durable = "missing"
    /\ token = [a \in Admits |-> "open"]
    /\ result = [a \in Admits |-> "none"]
    /\ outcome = [a \in Admits |-> "none"]
    /\ pc = [x \in Calls |-> "look"]
    /\ fresh = [x \in Calls |-> FALSE]
    /\ found = [x \in Calls |-> "missing"]
    /\ joined = [x \in Calls |-> NoCall]
    /\ answer = [x \in Calls |-> "none"]

-----------------------------------------------------------------------------
(* Building blocks.                                                        *)

Goes(x, label) == pc' = [pc EXCEPT ![x] = label]

Returns(x, value) == Goes(x, "done") /\ answer' = [answer EXCEPT ![x] = value]

\* Every install, every clear and every recorded cancellation advances the generation.
AdvanceGeneration == fresh' = [x \in Calls |-> FALSE]

\* The entry of the request is the active one.
matching_entry == active \in Admits

\* The leader of the entry holds its result lock while it settles the entry.
ResultLocked(a) == pc[a] \in {"persist", "clear"}

\* A recorded admission stays.  Unknown ownership replaces a cancellation, and only
\* a reconciled caller may take it back.
record_admission_cancellation(value, reconciled) ==
    durable' = CASE durable = "missing" -> value
                 [] durable = "cancelled" /\ value = "recovery_pending" -> value
                 [] durable = "recovery_pending" /\ value = "cancelled" /\ reconciled -> value
                 [] OTHER -> durable

\* A transaction of call x fails, and with it the call.
StorageFails(x) ==
    /\ "storage" \in Failures
    /\ Returns(x, "err")
    /\ UNCHANGED <<active, durable, token, result, outcome, fresh, found, joined>>

-----------------------------------------------------------------------------
(* execute_interruptible_durable.                                          *)

\* An entry of the same request is joined before anything is replayed.
Look(x) ==
    /\ x \in Admits \cup Cancels
    /\ pc[x] = "look"
    /\ fresh' = [fresh EXCEPT ![x] = TRUE]
    /\ IF matching_entry
       THEN /\ joined' = [joined EXCEPT ![x] = active]
            /\ Goes(x, IF x \in Admits THEN "wait" ELSE "register")
       ELSE Goes(x, "resolve") /\ UNCHANGED joined
    /\ UNCHANGED <<active, durable, token, result, outcome, found, answer>>

resolve_admission(a) ==
    /\ pc[a] = "resolve"
    /\ \/ /\ found' = [found EXCEPT ![a] = durable]
          /\ Goes(a, "decide")
          /\ UNCHANGED <<active, durable, token, result, outcome, fresh, joined, answer>>
       \/ StorageFails(a)

\* Mutant: what was read is used whatever has happened since.
decide_stale(a) ==
    /\ pc[a] = "decide"
    /\ CASE found[a] = "missing"  -> Goes(a, "install") /\ UNCHANGED answer
         [] found[a] = "admitted" -> Returns(a, "ok")
         [] OTHER                 -> Returns(a, "err")
    /\ UNCHANGED <<active, durable, token, result, outcome, fresh, found, joined>>

\* What the store said counts only if the generation is still the one observed.
decide(a) ==
    /\ pc[a] = "decide"
    /\ IF ~fresh[a] THEN Goes(a, "look") /\ UNCHANGED answer
       ELSE CASE found[a] = "missing"  -> Goes(a, "install") /\ UNCHANGED answer
              [] found[a] = "admitted" -> Returns(a, "ok")
              [] OTHER                 -> Returns(a, "err")
    /\ UNCHANGED <<active, durable, token, result, outcome, fresh, found, joined>>

\* Under the capacity lock: start again, join, take the free slot, or be refused.
install(a) ==
    /\ pc[a] = "install"
    /\ CASE ~fresh[a] -> Goes(a, "look") /\ UNCHANGED <<active, fresh, joined, answer>>
         [] fresh[a] /\ matching_entry ->
                /\ joined' = [joined EXCEPT ![a] = active]
                /\ Goes(a, "wait")
                /\ UNCHANGED <<active, fresh, answer>>
         [] fresh[a] /\ active = NoCall ->
                /\ active' = a
                /\ AdvanceGeneration
                /\ Goes(a, "preflight")
                /\ UNCHANGED <<joined, answer>>
         [] OTHER -> Returns(a, "busy") /\ UNCHANGED <<active, fresh, joined>>
    /\ UNCHANGED <<durable, token, result, outcome, found>>

follower_wait(a) ==
    /\ pc[a] = "wait"
    /\ result[joined[a]] # "none" /\ ~ResultLocked(joined[a])
    /\ Returns(a, result[joined[a]])
    /\ UNCHANGED <<active, durable, token, result, outcome, fresh, found, joined>>

-----------------------------------------------------------------------------
(* The leader.                                                             *)

Ends(a, value) == outcome' = [outcome EXCEPT ![a] = value] /\ Goes(a, "settle")

Finish(a, state) == token' = [token EXCEPT ![a] = state]

\* The readiness checks before the Turn is stored.  A requested cancellation ends
\* them, confirmed or not; so does a failure, after which the probe's end may not be
\* confirmed either, or which may be reported before the token is looked at.
preflight(a) ==
    /\ pc[a] = "preflight"
    /\ \/ Goes(a, "gate") /\ UNCHANGED <<token, outcome>>
       \/ Ends(a, "err") /\ Finish(a, "recovery_pending")
       \/ Ends(a, "err") /\ token[a] = "requested" /\ Finish(a, "cancelled")
       \/ Ends(a, "err") /\ UNCHANGED token
    /\ UNCHANGED <<active, durable, result, fresh, found, joined, answer>>

\* Mutant: the token is looked at before the commit lock is taken, and is not
\* looked at again.
with_commit_gate_unchecked(a) ==
    /\ pc[a] = "gate"
    /\ durable' = "admitted"
    /\ Finish(a, "admitted")
    /\ Goes(a, "dispatch")
    /\ UNCHANGED <<active, result, outcome, fresh, found, joined, answer>>

\* Under the commit lock, which request_state takes too, a requested cancellation
\* wins; otherwise the transaction stores the Turn, unless a cancellation is
\* recorded, and the token says so.
with_commit_gate(a) ==
    /\ pc[a] = "gate"
    /\ \/ /\ token[a] # "open"
          /\ Finish(a, "cancelled") /\ Ends(a, "err")
          /\ UNCHANGED durable
       \/ /\ token[a] = "open" /\ durable = "missing"
          /\ durable' = "admitted"
          /\ Finish(a, "admitted") /\ Goes(a, "dispatch")
          /\ UNCHANGED outcome
       \/ /\ token[a] = "open"
          /\ Ends(a, "err")
          /\ UNCHANGED <<durable, token>>
    /\ UNCHANGED <<active, result, fresh, found, joined, answer>>

\* The admitted Turn is dispatched, or that fails.
dispatch(a) ==
    /\ pc[a] = "dispatch"
    /\ \E value \in {"ok", "err"} : Ends(a, value)
    /\ UNCHANGED <<active, durable, token, result, fresh, found, joined, answer>>

\* The result lock is taken, and a cancellation that was only requested is complete.
leader_settle(a) ==
    /\ pc[a] = "settle"
    /\ token' = [token EXCEPT ![a] = IF @ = "requested" THEN "cancelled" ELSE @]
    /\ Goes(a, "persist")
    /\ UNCHANGED <<active, durable, result, outcome, fresh, found, joined, answer>>

\* Mutant: the state of the token is recorded whatever it is.
leader_persist_any(a) ==
    /\ pc[a] = "persist"
    /\ record_admission_cancellation(token[a], TRUE)
    /\ Goes(a, "clear")
    /\ UNCHANGED <<active, token, result, outcome, fresh, found, joined, answer>>

\* How the cancellation ended is recorded before anybody is told.
leader_persist(a) ==
    /\ pc[a] = "persist"
    /\ \/ /\ IF token[a] \in {"cancelled", "recovery_pending"}
             THEN record_admission_cancellation(token[a], TRUE) ELSE UNCHANGED durable
          /\ UNCHANGED outcome
       \/ /\ "storage" \in Failures /\ token[a] \in {"cancelled", "recovery_pending"}
          /\ outcome' = [outcome EXCEPT ![a] = "err"]
          /\ UNCHANGED durable
    /\ Goes(a, "clear")
    /\ UNCHANGED <<active, token, result, fresh, found, joined, answer>>

finalize_and_clear(a) ==
    /\ active' = IF active = a THEN NoCall ELSE active
    /\ IF active = a THEN AdvanceGeneration ELSE UNCHANGED fresh

\* Mutant: the slot is not cleared when the leader panics.
leader_drop_keeps(a) ==
    /\ "panic" \in Failures
    /\ pc[a] \in {"preflight", "gate", "dispatch"}
    /\ result' = [result EXCEPT ![a] = "err"]
    /\ Returns(a, "err")
    /\ UNCHANGED <<active, durable, token, outcome, fresh, found, joined>>

\* Mutant: the slot is cleared and the waiting calls are not told.
leader_clear_unpublished(a) ==
    /\ pc[a] = "clear"
    /\ finalize_and_clear(a)
    /\ Returns(a, outcome[a])
    /\ UNCHANGED <<durable, token, result, outcome, found, joined>>

\* The result is published and the slot cleared under the result lock.
leader_clear(a) ==
    /\ pc[a] = "clear"
    /\ result' = [result EXCEPT ![a] = outcome[a]]
    /\ finalize_and_clear(a)
    /\ Returns(a, outcome[a])
    /\ UNCHANGED <<durable, token, outcome, found, joined>>

\* A panic in the operation publishes an error and clears the slot.
leader_drop(a) ==
    /\ "panic" \in Failures
    /\ pc[a] \in {"preflight", "gate", "dispatch"}
    /\ result' = [result EXCEPT ![a] = "err"]
    /\ finalize_and_clear(a)
    /\ Returns(a, "err")
    /\ UNCHANGED <<durable, token, outcome, found, joined>>

-----------------------------------------------------------------------------
(* cancel_durable.                                                         *)

\* The answer that follows from what the store says.
DurableAnswer(value) == IF value = "missing" THEN "cancelled" ELSE value

\* Without an entry the store may know the answer already.
cancel_resolve(c) ==
    /\ pc[c] = "resolve"
    /\ \/ /\ IF durable = "missing" THEN Goes(c, "decide") /\ UNCHANGED answer
             ELSE Returns(c, durable)
          /\ UNCHANGED <<active, durable, token, result, outcome, fresh, found, joined>>
       \/ StorageFails(c)

cancel_decide(c) ==
    /\ pc[c] = "decide"
    /\ Goes(c, IF fresh[c] THEN "persist_cancelled" ELSE "look")
    /\ UNCHANGED <<active, durable, token, result, outcome, fresh, found, joined, answer>>

\* A transaction that records the cancellation and reports what is recorded then.
Records(c, value, reconciled) ==
    /\ record_admission_cancellation(value, reconciled)
    /\ found' = [found EXCEPT ![c] = durable']
    /\ UNCHANGED <<active, token, result, outcome, fresh, joined>>

cancel_persist(c) ==
    /\ pc[c] = "persist_cancelled"
    /\ \/ Records(c, "cancelled", FALSE) /\ Goes(c, "advance") /\ UNCHANGED answer
       \/ StorageFails(c)

\* Mutant: the generation is left alone.
cancel_advance_silent(c) ==
    /\ pc[c] = "advance"
    /\ IF matching_entry
       THEN /\ joined' = [joined EXCEPT ![c] = active]
            /\ Goes(c, "register")
            /\ UNCHANGED answer
       ELSE Returns(c, DurableAnswer(found[c])) /\ UNCHANGED joined
    /\ UNCHANGED <<active, durable, token, result, outcome, fresh, found>>

\* The generation is advanced so that an admission that has read "missing" and is
\* not installed yet reads again; one that is installed by now is asked to end.
cancel_advance(c) ==
    /\ pc[c] = "advance"
    /\ AdvanceGeneration
    /\ IF matching_entry
       THEN /\ joined' = [joined EXCEPT ![c] = active]
            /\ Goes(c, "register")
            /\ UNCHANGED answer
       ELSE Returns(c, DurableAnswer(found[c])) /\ UNCHANGED joined
    /\ UNCHANGED <<active, durable, token, result, outcome, found>>

\* The entry is asked to end, unless it has a result or its Turn is stored.
request_cancellation(c) ==
    LET a == joined[c] IN
    /\ pc[c] = "register" /\ ~ResultLocked(a)
    /\ CASE result[a] = "ok"  -> Returns(c, "admitted") /\ UNCHANGED token
         [] result[a] = "err" -> Goes(c, "completed_resolve") /\ UNCHANGED <<token, answer>>
         [] OTHER ->
            /\ token' = [token EXCEPT ![a] = IF @ = "open" THEN "requested" ELSE @]
            /\ Goes(c, IF token[a] = "admitted" THEN "await" ELSE "persist_pending")
            /\ UNCHANGED answer
    /\ UNCHANGED <<active, durable, result, outcome, fresh, found, joined>>

\* While the entry ends, its ownership is recorded as unknown.
cancel_persist_pending(c) ==
    /\ pc[c] = "persist_pending"
    /\ \/ /\ Records(c, "recovery_pending", FALSE)
          /\ IF durable' = "admitted" THEN Returns(c, "admitted")
             ELSE Goes(c, "await") /\ UNCHANGED answer
       \/ StorageFails(c)

cancel_await(c) ==
    LET a == joined[c] IN
    /\ pc[c] = "await"
    /\ result[a] # "none" /\ ~ResultLocked(a)
    /\ CASE result[a] = "ok" -> Returns(c, "admitted")
         [] result[a] = "err" /\ token[a] = "admitted" -> Goes(c, "resolve_admitted") /\ UNCHANGED answer
         [] OTHER -> Goes(c, "persist_final") /\ UNCHANGED answer
    /\ UNCHANGED <<active, durable, token, result, outcome, fresh, found, joined>>

\* A Turn that was stored and whose dispatch failed.
cancel_resolve_admitted(c) ==
    /\ pc[c] = "resolve_admitted"
    /\ \/ /\ Returns(c, IF durable = "admitted" THEN "admitted" ELSE "integrity")
          /\ UNCHANGED <<active, durable, token, result, outcome, fresh, found, joined>>
       \/ StorageFails(c)

\* Mutant: the end of the entry is not recorded as reconciled.
cancel_persist_final_unreconciled(c) ==
    /\ pc[c] = "persist_final"
    /\ Records(c, IF token[joined[c]] = "cancelled" THEN "cancelled" ELSE "recovery_pending", FALSE)
    /\ Returns(c, durable')

\* The confirmed end of the entry takes the unknown ownership back.
cancel_persist_final(c) ==
    /\ pc[c] = "persist_final"
    /\ \/ /\ IF token[joined[c]] = "cancelled"
             THEN Records(c, "cancelled", TRUE) ELSE Records(c, "recovery_pending", FALSE)
          /\ Returns(c, durable')
       \/ StorageFails(c)

\* The entry had failed before the cancellation could reach it.
completed_resolve(c) ==
    /\ pc[c] = "completed_resolve"
    /\ \/ /\ IF durable = "missing" THEN Goes(c, "completed_persist") /\ UNCHANGED answer
             ELSE Returns(c, durable)
          /\ UNCHANGED <<active, durable, token, result, outcome, fresh, found, joined>>
       \/ StorageFails(c)

completed_persist(c) ==
    /\ pc[c] = "completed_persist"
    /\ \/ Records(c, "cancelled", FALSE) /\ Returns(c, durable')
       \/ StorageFails(c)

-----------------------------------------------------------------------------
(* execute_exclusive.                                                      *)

execute_exclusive(x) ==
    /\ pc[x] = "look"
    /\ IF active # NoCall THEN Returns(x, "busy") /\ UNCHANGED <<active, fresh>>
       ELSE /\ active' = x
            /\ AdvanceGeneration
            /\ Goes(x, "run") /\ UNCHANGED answer
    /\ UNCHANGED <<durable, token, result, outcome, found, joined>>

\* The operation returns or panics; the slot is cleared either way.
clear_exclusive(x) ==
    /\ pc[x] = "run"
    /\ active' = IF active \in Exclusives THEN NoCall ELSE active
    /\ AdvanceGeneration
    /\ Returns(x, "ok")
    /\ UNCHANGED <<durable, token, result, outcome, found, joined>>

-----------------------------------------------------------------------------
LeaderStep(a) ==
    \/ preflight(a) \/ with_commit_gate(a) \/ dispatch(a)
    \/ leader_settle(a) \/ leader_persist(a) \/ leader_clear(a) \/ leader_drop(a)

AdmitStep(a) ==
    \/ Look(a) \/ resolve_admission(a) \/ decide(a) \/ install(a) \/ follower_wait(a)
    \/ LeaderStep(a)

CancelStep(c) ==
    \/ Look(c) \/ cancel_resolve(c) \/ cancel_decide(c) \/ cancel_persist(c) \/ cancel_advance(c)
    \/ request_cancellation(c) \/ cancel_persist_pending(c) \/ cancel_await(c)
    \/ cancel_resolve_admitted(c) \/ cancel_persist_final(c)
    \/ completed_resolve(c) \/ completed_persist(c)

CapacityNext ==
    \/ \E a \in Admits : AdmitStep(a)
    \/ \E c \in Cancels : CancelStep(c)
    \/ \E x \in Exclusives : execute_exclusive(x) \/ clear_exclusive(x)

CapacitySpec == CapacityInit /\ [][CapacityNext]_capacityVars

\* Every call that has begun goes on: what it waits for under a lock is bounded, and
\* the operation of a leader ends by its deadlines.
FairCapacitySpec ==
    /\ CapacitySpec
    /\ \A a \in Admits : WF_capacityVars(AdmitStep(a))
    /\ \A c \in Cancels : WF_capacityVars(CancelStep(c))
    /\ \A x \in Exclusives : WF_capacityVars(execute_exclusive(x) \/ clear_exclusive(x))

-----------------------------------------------------------------------------
(* Properties.                                                             *)

\* One operation runs at a time, it is the one in the slot, and a slot that is taken
\* belongs to an operation that still runs: no return, failure or panic leaks it.
SlotHasOneHolder ==
    \A x \in Admits \cup Exclusives : active = x <=> pc[x] \in LeaderPcs \cup {"run"}

\* What a call was told stays true: "cancelled" is never followed by an admission,
\* a reported admission is recorded, and a cancelled entry that was admitted has a
\* record to replay.
AnswersHold ==
    /\ \A c \in Cancels : /\ answer[c] = "cancelled" => durable # "admitted"
                          /\ answer[c] = "admitted" => durable = "admitted"
                          /\ answer[c] # "integrity"
    /\ \A a \in Admits : answer[a] = "ok" => durable = "admitted"

\* A recorded admission is replayed only when the operation that made it has ended:
\* until then a failing dispatch may still replace what the store says.
ReplayIsFinal ==
    [][\A a \in Admits : pc[a] = "decide" /\ answer'[a] = "ok" => ~matching_entry]_capacityVars

\* When every call has returned, ownership is recorded as unknown only if an admission did
\* not confirm its end (it panicked, or a probe could not be ended) or a cancellation reported
\* that it failed: the provisional mark of a cancellation is taken back.
UnknownOnlyIfUnconfirmed ==
    (\A x \in Calls : pc[x] = "done") /\ durable = "recovery_pending" =>
        \/ \E a \in Admits : token[a] \in {"requested", "recovery_pending"}
        \/ \E c \in Cancels : answer[c] = "err"

\* Once every cancellation of a request that was sent once has been answered, and one of
\* them with "cancelled", the admission is not at work without having been asked to end.
\* (When the request is sent again in between, request_cancellation can miss the new entry:
\* completed_cancellation_outcome neither advances the generation nor looks again.)
CancelledIsQuiet ==
    /\ \A c \in Cancels : pc[c] = "done"
    /\ \E c \in Cancels : answer[c] = "cancelled"
    /\ \A a, b \in Admits : pc[a] # "look" /\ pc[b] # "look" => a = b
    => ~\E a \in Admits : pc[a] \in {"preflight", "gate"} /\ token[a] = "open"

\* Every call returns: no follower or cancellation waits for an entry nobody
\* completes, and the optimistic retries end.
EveryCallReturns == \A x \in Calls : <>(pc[x] = "done")
=============================================================================
