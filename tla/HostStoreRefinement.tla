------------------------- MODULE HostStoreRefinement -------------------------
(* The store implements DesktopOwnership, and what its steps may never do. *)
EXTENDS HostStoreProofs

\* Most leaves are about sets and functions alone; the others name their prover.
USE ZenonT(30)

-----------------------------------------------------------------------------

\* A finished request keeps its result.  The record of a Turn that can still
\* change is not finished, because it has the state of its Turn.
LEMMA FinalRecords ==
    ASSUME StoreInv, NEW k \in AdmissionKeys, admissionOutcome[k] \in TerminalStates
    PROVE  admissionTurn[k] \in Turns /\ Terminal(admissionTurn[k])
<1>i. /\ TypeOK /\ LeaseMatchesTurn /\ MaintenanceExclusive /\ SessionShape /\ AdmissionsFollowTurns
      /\ StopsFollowTurns /\ StoppedByOneRequest /\ CancelledNeverAdmitted
  BY DEF StoreInv
<1> USE StateKinds, TurnParts
<1>1. admissionTurn[k] \in Turns /\ Stored(admissionTurn[k])
  BY <1>i DEF AdmissionsFollowTurns, TypeOK, TerminalStates
<1>2. PICK j \in AdmissionKeys : /\ RecordsOf(admissionTurn[k]) = {j}
                                 /\ admissionOutcome[j] = turnState[admissionTurn[k]]
  BY <1>i, <1>1 DEF AdmissionsFollowTurns
<1>3. j = k
  BY <1>2 DEF RecordsOf
<1> QED
  BY <1>1, <1>2, <1>3 DEF Terminal

\* A committed change of an active Turn leaves every ended Turn and every
\* finished admission alone.
LEMMA ChangeTurnFinal ==
    ASSUME StoreInv, NEW t \in Turns, NEW to, Active(t), ChangeTurn(t, to)
    PROVE  /\ \A u \in Turns : Terminal(u) => turnState'[u] = turnState[u] /\ turnRev'[u] = turnRev[u]
           /\ \A k \in AdmissionKeys : admissionOutcome[k] \in TerminalStates =>
                /\ admissionOutcome'[k] = admissionOutcome[k]
                /\ admissionRevision'[k] = admissionRevision[k]
<1>i. /\ TypeOK /\ LeaseMatchesTurn /\ MaintenanceExclusive /\ SessionShape /\ AdmissionsFollowTurns
      /\ StopsFollowTurns /\ StoppedByOneRequest /\ CancelledNeverAdmitted
  BY DEF StoreInv
<1> USE StateKinds, TurnParts
<1>1. ~Terminal(t)
  BY DEF Active, Terminal
<1>2. \A u \in Turns : u # t => turnState'[u] = turnState[u] /\ turnRev'[u] = turnRev[u]
  BY <1>i DEF ChangeTurn, commit_turn_state, TypeOK
<1>3. ASSUME NEW k \in AdmissionKeys, admissionOutcome[k] \in TerminalStates
      PROVE  admissionOutcome'[k] = admissionOutcome[k] /\ admissionRevision'[k] = admissionRevision[k]
  <2>1. admissionTurn[k] # t
    BY <1>1, <1>3, FinalRecords
  <2>2. PICK j \in AdmissionKeys :
            /\ RecordsOf(t) = {j}
            /\ admissionOutcome' = [admissionOutcome EXCEPT ![j] = to]
            /\ \E r : admissionRevision' = [admissionRevision EXCEPT ![j] = r]
    BY DEF ChangeTurn, update_turn_idempotency
  <2>3. j # k
    BY <2>1, <2>2 DEF RecordsOf
  <2> QED
    BY <1>i, <2>2, <2>3 DEF TypeOK
<1> QED
  BY <1>1, <1>2, <1>3

\* No step of the store undoes what has ended.
LEMMA FinalStepHolds ==
    ASSUME StoreInv, [Next]_vars
    PROVE  FinalStep
<1>i. /\ TypeOK /\ LeaseMatchesTurn /\ MaintenanceExclusive /\ SessionShape /\ AdmissionsFollowTurns
      /\ StopsFollowTurns /\ StoppedByOneRequest /\ CancelledNeverAdmitted
  BY DEF StoreInv
<1> USE StateKinds, TurnParts
<1>t. TypeOK
  BY <1>i
<1>1. ASSUME NEW k \in AdmissionKeys, NEW t \in Turns, Admission(k, t)
      PROVE  FinalStep
  <2>1. ~Terminal(t) /\ admissionTurn[k] = NoTurn /\ admissionOutcome[k] = "none"
    BY <1>i, <1>1 DEF Admission, Terminal, AdmissionsFollowTurns
  <2>2. "none" \notin TerminalStates
    BY DEF TerminalStates
  <2> QED
    BY SMTT(30), <1>t, <1>1, <2>1, <2>2 DEF FinalStep, Admission, AdmitTurn, TypeOK, stopVars
<1>2. ASSUME NEW t \in Turns, NEW to, Active(t), ChangeTurn(t, to), UNCHANGED stopVars
      PROVE  FinalStep
  BY <1>2, ChangeTurnFinal DEF FinalStep, stopVars
<1>3. ASSUME NEW k \in StopKeys, NEW t \in Turns, NEW observation \in StopObservations,
             confirm_stop_change(k, t, CurrentRevisions(t), observation)
      PROVE  FinalStep
  <2>1. Active(t) /\ ChangeTurn(t, StopTarget(observation))
    BY <1>3 DEF confirm_stop_change, ChangeTurn
  <2>2. /\ stopOutcome[k] = "pending"
        /\ \A j \in StopKeys : j # k => stopOutcome'[j] = stopOutcome[j] /\ stopRevision'[j] = stopRevision[j]
    BY <1>t, <1>3 DEF confirm_stop_change, complete_stop_idempotency, TypeOK
  <2> QED
    BY <2>1, <2>2, ChangeTurnFinal DEF FinalStep
<1>4. ASSUME NEW k \in StopKeys, NEW t \in Turns,
             \/ begin_stop_new(k, t)
             \/ begin_stop_resume(k, t)
             \/ \E observation \in StopObservations :
                    confirm_stop_retain(k, t, CurrentRevisions(t), observation)
      PROVE  FinalStep
  <2>1. UNCHANGED <<turnVars, admissionVars>>
    BY <1>4 DEF begin_stop_new, begin_stop_resume, confirm_stop_retain
  <2>2. /\ stopOutcome[k] \in {"none", "pending"}
        /\ \A j \in StopKeys : j # k => stopOutcome'[j] = stopOutcome[j] /\ stopRevision'[j] = stopRevision[j]
    <3>1. CASE begin_stop_new(k, t)
      BY <1>i, <1>t, <3>1 DEF begin_stop_new, StopsFollowTurns, TypeOK
    <3>2. CASE begin_stop_resume(k, t)
      BY <1>t, <3>2 DEF begin_stop_resume, complete_stop_idempotency, TypeOK
    <3>3. CASE \E observation \in StopObservations :
                    confirm_stop_retain(k, t, CurrentRevisions(t), observation)
      BY <1>t, <3>3 DEF confirm_stop_retain, complete_stop_idempotency, TypeOK
    <3> QED
      BY <1>4, <3>1, <3>2, <3>3
  <2> QED
    BY <2>1, <2>2 DEF FinalStep, turnVars, admissionVars
<1>5. CASE mark_restart_recovery_pending
  <2>1. \A t \in Turns : Terminal(t) => turnState'[t] = turnState[t] /\ turnRev'[t] = turnRev[t]
    BY <1>5 DEF mark_restart_recovery_pending, Active, Terminal
  <2>2. ASSUME NEW k \in AdmissionKeys, admissionOutcome[k] \in TerminalStates
        PROVE  admissionOutcome'[k] = admissionOutcome[k] /\ admissionRevision'[k] = admissionRevision[k]
    <3>1. ~Active(admissionTurn[k])
      BY <2>2, FinalRecords DEF Active, Terminal
    <3> QED
      BY <1>5, <3>1 DEF mark_restart_recovery_pending
  <2> QED
    BY <1>5, <2>1, <2>2 DEF FinalStep, mark_restart_recovery_pending, stopVars
<1>6. ASSUME NEW s \in Sessions, delete_session_metadata(s)
      PROVE  FinalStep
  BY <1>6 DEF FinalStep, delete_session_metadata, Stored, Terminal
<1>7. ASSUME UNCHANGED <<turnVars, admissionVars, stopVars>>
      PROVE  FinalStep
  BY <1>7 DEF FinalStep, turnVars, admissionVars, stopVars
<1>8. CASE TurnStep
  <2>1. ASSUME NEW t \in Turns, NEW to \in TurnTransitions, commit_lifecycle(t, CurrentRevisions(t), to)
        PROVE  FinalStep
    <3>1. Active(t) /\ ChangeTurn(t, to) /\ UNCHANGED stopVars
      BY <2>1 DEF commit_lifecycle, transition_allowed, Active, ActiveStates, ChangeTurn
    <3> QED
      BY <1>2, <3>1
  <2>2. ASSUME NEW s \in Sessions, NEW r \in ThreadRefs, record_thread_ref(s, r)
        PROVE  FinalStep
    BY <1>7, <2>2 DEF record_thread_ref
  <2>3. ASSUME NEW t \in Turns, NEW r \in TurnRefs, record_turn_ref(t, r)
        PROVE  FinalStep
    BY <1>7, <2>3 DEF record_turn_ref
  <2> QED
    BY <1>1, <1>3, <1>4, <1>8, <2>1, <2>2, <2>3, AdmissionFacts DEF TurnStep
<1>9. CASE OperationalStep /\ UNCHANGED storeVars
  BY <1>7, <1>9 DEF storeVars
<1>10. ASSUME NEW k \in AdmissionKeys,
             \/ \E outcome \in Cancellations, reconciled \in BOOLEAN :
                    record_admission_cancellation_inner(k, outcome, reconciled)
             \/ prune_expired_admission_cancellation(k)
       PROVE  FinalStep
  BY <1>7, <1>10 DEF record_admission_cancellation_inner, prune_expired_admission_cancellation
<1>11. CASE UNCHANGED vars
  BY <1>7, <1>11 DEF vars, storeVars
<1> QED
  BY <1>5, <1>6, <1>8, <1>9, <1>10, <1>11 DEF Next

\* Ended Turns and finished results never change, until retention deletes them.
THEOREM Finality == Spec => EndedIsFinal
<1>1. StoreInv /\ [Next]_vars => [FinalStep]_vars
  BY FinalStepHolds
<1> QED
  BY <1>1, StoreInvariant, PTL DEF Spec, EndedIsFinal

-----------------------------------------------------------------------------
(* The refinement mapping.  A desktop is never both owned and borrowed,    *)
(* because its control lease names what holds it.                          *)

\* The desktop of a Turn that has not ended is not borrowed.
LEMMA BorrowedFree ==
    ASSUME StoreInv
    PROVE  \A t \in Owners : TurnBinding(t) \in Bindings \ Borrowed
<1>i. /\ TypeOK /\ LeaseMatchesTurn /\ MaintenanceExclusive /\ SessionShape /\ AdmissionsFollowTurns
      /\ StopsFollowTurns /\ StoppedByOneRequest /\ CancelledNeverAdmitted
  BY DEF StoreInv
<1> SUFFICES ASSUME NEW t \in Turns, Active(t)
             PROVE  TurnBinding(t) \in Bindings \ Borrowed
  BY DEF Owners
<1>1. TurnBinding(t) \in Bindings /\ leaseTurn[TurnBinding(t)] = t /\ t # NoTurn
  BY <1>i, TurnParts DEF LeaseMatchesTurn
<1>2. ownerKind[TurnBinding(t)] = "turn"
  BY <1>i, <1>1 DEF LeaseMatchesTurn
<1>3. maintenance = "none"
  BY <1>i, <1>1, <1>2, NoBindingAssumption DEF MaintenanceExclusive
<1> QED
  BY <1>1, <1>2, <1>3 DEF Borrowed

\* The desktops owned in the abstract specification.
LEMMA OwnedDesktops == Ownership!Owned = {TurnBinding(t) : t \in Owners}
  BY DEF Ownership!Owned, Owners

\* A step that keeps the owners and the ended Turns is a Borrow step.
LEMMA BorrowStep ==
    ASSUME StoreInv, StoreInv', Owners' = Owners, Ended' = Ended
    PROVE  Ownership!Borrow
<1>1. \A t \in Owners : TurnBinding(t) \notin Borrowed'
  <2>1. \A t \in Owners' : TurnBinding(t) \in Bindings \ Borrowed'
    <3>1. (\A t \in Owners : TurnBinding(t) \in Bindings \ Borrowed)'
      BY BorrowedFree, PTL
    <3> QED
      BY <3>1 DEF TurnBinding
  <2> QED
    BY <2>1
<1>2. Borrowed' \subseteq Bindings
  BY DEF Borrowed
<1> QED
  BY <1>1, <1>2, OwnedDesktops DEF Ownership!Borrow

\* Admission acquires the desktop of the new Turn.
LEMMA AcquireStep ==
    ASSUME StoreInv, NEW k \in AdmissionKeys, NEW t \in Turns, Admission(k, t)
    PROVE  Ownership!Acquire(t)
<1>i. /\ TypeOK /\ LeaseMatchesTurn /\ MaintenanceExclusive /\ SessionShape /\ AdmissionsFollowTurns
      /\ StopsFollowTurns /\ StoppedByOneRequest /\ CancelledNeverAdmitted
  BY DEF StoreInv
<1> USE StateKinds, TurnParts
<1> DEFINE b == TurnBinding(t)
<1>1. /\ turnState[t] = "absent"
      /\ turnState' = [turnState EXCEPT ![t] = "starting"]
      /\ maintenance = "none" /\ ownerKind[b] = "none"
      /\ maintenance' = "none" /\ ownerKind' = [ownerKind EXCEPT ![b] = "turn"]
  BY DEF Admission, AdmitTurn, ensure_control_lease_available, insert_control_lease
<1>2. TypeOK
  BY <1>i
<1>3. t \notin Owners \cup Ended
  BY <1>1 DEF Owners, Ended, Active
<1>4. b \notin Borrowed /\ \A u \in Owners : TurnBinding(u) # b
  BY SMTT(30), <1>i, <1>1 DEF LeaseMatchesTurn, Owners, Borrowed
<1>5. Owners' = Owners \cup {t} /\ Ended' = Ended
  <2>1. /\ turnState'[t] = "starting"
        /\ \A u \in Turns : u # t => turnState'[u] = turnState[u]
    BY <1>1, <1>2 DEF TypeOK
  <2> QED
    BY SMTT(30), <1>3, <2>1 DEF Owners, Ended, Active
<1>6. Borrowed' = Borrowed
  BY <1>1, <1>2 DEF Borrowed, TypeOK, LeaseTypeOK
<1> QED
  BY <1>3, <1>4, <1>5, <1>6, OwnedDesktops DEF Ownership!Acquire

\* A committed change of an active Turn releases its desktop or keeps it.
LEMMA ReleaseStep ==
    ASSUME StoreInv, NEW t \in Turns, NEW to \in TurnStates, Active(t), ChangeTurn(t, to)
    PROVE  Ownership!Release(t) \/ UNCHANGED <<Owners, Ended, Borrowed>>
<1>i. /\ TypeOK /\ LeaseMatchesTurn /\ MaintenanceExclusive /\ SessionShape /\ AdmissionsFollowTurns
      /\ StopsFollowTurns /\ StoppedByOneRequest /\ CancelledNeverAdmitted
  BY DEF StoreInv
<1> USE StateKinds, TurnParts
<1> DEFINE b == TurnBinding(t)
<1>1. TypeOK
  BY <1>i
<1>2. /\ turnState'[t] = to
      /\ \A u \in Turns : u # t => turnState'[u] = turnState[u]
  BY <1>1 DEF ChangeTurn, commit_turn_state, TypeOK
<1>3. ownerKind[b] = "turn"
  BY SMTT(30), <1>i DEF LeaseMatchesTurn
<1>4. Borrowed' = Borrowed
  <2>1. /\ maintenance' = maintenance
        /\ ownerKind'[b] \in {"turn", "none"}
        /\ \A c \in Bindings : c # b => ownerKind'[c] = ownerKind[c]
    BY <1>1, <1>3 DEF ChangeTurn, synchronize_control_lease, DeleteControlLease, TypeOK, LeaseTypeOK
  <2> QED
    BY <1>3, <2>1 DEF Borrowed
<1>5. t \in Owners
  BY DEF Owners
<1>6. CASE to \in TerminalStates
  <2>1. Owners' = Owners \ {t} /\ Ended' = Ended \cup {t}
    BY <1>2, <1>6 DEF Owners, Ended, Active
  <2> QED
    BY <1>4, <1>5, <2>1 DEF Ownership!Release
<1>7. CASE to \notin TerminalStates
  <2>1. to \in ActiveStates /\ t \notin Ended
    BY <1>7 DEF TurnStates, Ended, Active
  <2>2. Owners' = Owners /\ Ended' = Ended
    BY SMTT(30), <1>2, <1>5, <1>7, <2>1 DEF Owners, Ended, Active
  <2> QED
    BY <1>4, <2>2
<1> QED
  BY <1>6, <1>7

\* Every step of the store is a step of DesktopOwnership or a stutter.
LEMMA OwnershipStep ==
    ASSUME StoreInv, StoreInv', [Next]_vars
    PROVE  [Ownership!Next]_<<Owners, Ended, Borrowed>>
<1>i. /\ TypeOK /\ LeaseMatchesTurn /\ MaintenanceExclusive /\ SessionShape /\ AdmissionsFollowTurns
      /\ StopsFollowTurns /\ StoppedByOneRequest /\ CancelledNeverAdmitted
  BY DEF StoreInv
<1> USE StateKinds, TurnParts
<1>1. ASSUME Owners' = Owners, Ended' = Ended
      PROVE  Ownership!Next
  BY <1>1, BorrowStep DEF Ownership!Next
<1>2. ASSUME UNCHANGED turnState
      PROVE  Ownership!Next
  BY <1>1, <1>2 DEF Owners, Ended, Active
<1>3. ASSUME NEW k \in AdmissionKeys, NEW t \in Turns, Admission(k, t)
      PROVE  Ownership!Next
  BY <1>3, AcquireStep DEF Ownership!Next
<1>4. ASSUME NEW t \in Turns, NEW to \in TurnStates, Active(t), ChangeTurn(t, to)
      PROVE  [Ownership!Next]_<<Owners, Ended, Borrowed>>
  BY <1>4, ReleaseStep DEF Ownership!Next
<1>5. ASSUME NEW t \in Turns, NEW to \in TurnTransitions, commit_lifecycle(t, CurrentRevisions(t), to)
      PROVE  [Ownership!Next]_<<Owners, Ended, Borrowed>>
  <2>1. Active(t) /\ ChangeTurn(t, to) /\ to \in TurnStates
    BY <1>5 DEF commit_lifecycle, transition_allowed, Active, ActiveStates, TerminalStates, TurnStates, ChangeTurn
  <2> QED
    BY <1>4, <2>1
<1>6. ASSUME NEW k \in StopKeys, NEW t \in Turns, NEW observation \in StopObservations,
             confirm_stop_change(k, t, CurrentRevisions(t), observation)
      PROVE  [Ownership!Next]_<<Owners, Ended, Borrowed>>
  <2>1. Active(t) /\ ChangeTurn(t, StopTarget(observation)) /\ StopTarget(observation) \in TurnStates
    BY <1>6 DEF confirm_stop_change, ChangeTurn, StopTarget, StopObservations
  <2> QED
    BY <1>4, <2>1
<1>7. ASSUME NEW k \in StopKeys, NEW t \in Turns,
             \/ begin_stop_new(k, t)
             \/ begin_stop_resume(k, t)
             \/ \E observation \in StopObservations :
                    confirm_stop_retain(k, t, CurrentRevisions(t), observation)
      PROVE  Ownership!Next
  BY <1>2, <1>7 DEF begin_stop_new, begin_stop_resume, confirm_stop_retain, turnVars
<1>8. CASE mark_restart_recovery_pending
  <2>1. \A t \in Turns : /\ Active(t) => turnState'[t] = "recovery_pending"
                         /\ ~Active(t) => turnState'[t] = turnState[t]
    BY <1>8 DEF mark_restart_recovery_pending, Active
  <2> QED
    BY <1>1, <2>1 DEF Owners, Ended, Active
<1>9. ASSUME NEW s \in Sessions, delete_session_metadata(s)
      PROVE  Ownership!Next
  <2>1. ASSUME NEW t \in Turns, t[1] = s
        PROVE  ~Active(t)
    <3>1. t = <<s, t[2]>> /\ t[2] \in 1..MaxTurns /\ turnCount[s] \in 0..MaxTurns
      BY <1>i, <2>1 DEF TypeOK
    <3>2. \A i \in 1..MaxTurns : Stored(<<s, i>>) <=> i <= turnCount[s]
      BY <1>i DEF SessionShape
    <3>3. Stored(t) => t[2] \in 1..turnCount[s]
      BY SMTT(30), <3>1, <3>2
    <3> QED
      BY <1>9, <3>1, <3>3 DEF delete_session_metadata, Stored, Active, Terminal
  <2>2. \A t \in Turns : /\ t[1] = s /\ Stored(t) => turnState'[t] = "deleted"
                         /\ ~(t[1] = s /\ Stored(t)) => turnState'[t] = turnState[t]
    BY <1>9 DEF delete_session_metadata
  <2>3. Owners' = Owners
    BY <2>1, <2>2 DEF Owners, Active
  <2>4. Ended' = Ended
    BY <2>1, <2>2 DEF Ended, Active, Stored, TurnStates
  <2> QED
    BY <1>1, <2>3, <2>4
<1>10. ASSUME NEW s \in Sessions, NEW r, record_thread_ref(s, r)
       PROVE  Ownership!Next
  BY <1>2, <1>10 DEF record_thread_ref, turnVars
<1>11. ASSUME NEW t \in Turns, NEW r, record_turn_ref(t, r)
       PROVE  Ownership!Next
  BY <1>2, <1>11 DEF record_turn_ref, turnVars
<1>12. CASE TurnStep
  BY <1>3, <1>5, <1>6, <1>7, <1>10, <1>11, <1>12, AdmissionFacts DEF TurnStep
<1>13. ASSUME \/ OperationalStep /\ UNCHANGED storeVars
              \/ UNCHANGED vars
              \/ \E k \in AdmissionKeys, outcome \in Cancellations, reconciled \in BOOLEAN :
                    record_admission_cancellation_inner(k, outcome, reconciled)
              \/ \E k \in AdmissionKeys : prune_expired_admission_cancellation(k)
       PROVE  Ownership!Next
  BY <1>2, <1>13 DEF storeVars, vars, turnVars, record_admission_cancellation_inner,
                     prune_expired_admission_cancellation
<1> QED
  BY <1>8, <1>9, <1>12, <1>13 DEF Next

\* The store implements DesktopOwnership: every desktop is owned by at most one
\* Turn from its admission to its end, and lent to nothing else meanwhile.
THEOREM Refinement == Spec => ImplementsOwnership
<1>1. Init => Ownership!Init
  BY SMTT(30), StateKinds DEF Init, LeaseInit, Ownership!Init, Owners, Ended, Borrowed, Active
<1>2. StoreInv /\ StoreInv' /\ [Next]_vars => [Ownership!Next]_<<Owners, Ended, Borrowed>>
  BY OwnershipStep
<1> QED
  BY <1>1, <1>2, StoreInvariant, PTL DEF Spec, ImplementsOwnership, Ownership!Spec
=============================================================================
