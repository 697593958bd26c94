--------------------------- MODULE HostStoreProofs ---------------------------
(* Theorems about HostStore, for every value of its constants.             *)
EXTENDS HostStore, TLAPS

\* Most leaves are about sets and functions alone; the others name their prover.
USE ZenonT(30)

\* A Turn is determined by its Session and its ordinal.
LEMMA TurnParts ==
    /\ \A t \in Turns : t[1] \in Sessions /\ t[2] \in 1..MaxTurns /\ t = <<t[1], t[2]>>
    /\ \A s \in Sessions, i \in 1..MaxTurns : <<s, i>> \in Turns
    /\ \A t \in Turns : TurnBinding(t) \in Bindings
    /\ NoTurn \notin Turns
BY SMTT(30), BindingOfAssumption, NoTurnAssumption DEF Turns, TurnBinding

\* The steps of probes, snapshots and maintenance keep the lease tables typed.
LEMMA OperationalType ==
    ASSUME LeaseTypeOK, OperationalStep
    PROVE  LeaseTypeOK'
<1> USE DEF LeaseTypeOK, OwnerKinds, ProbeKinds, LeaseStates
<1>1. ASSUME NEW b \in Bindings, NEW kind \in ProbeKinds, begin_readiness_probe(b, kind)
      PROVE  LeaseTypeOK'
  BY <1>1 DEF begin_readiness_probe, insert_control_lease
<1>2. ASSUME NEW b \in Bindings,
             \/ release_probe(b) \/ release_reconciled_probe(b) \/ release_snapshot_lease(b)
      PROVE  LeaseTypeOK'
  BY <1>2 DEF release_probe, release_reconciled_probe, release_snapshot_lease, DeleteControlLease
<1>3. ASSUME NEW b \in Bindings, retain_probe_recovery(b)
      PROVE  LeaseTypeOK'
  BY <1>3 DEF retain_probe_recovery
<1>4. ASSUME NEW b \in Bindings, begin_desktop_snapshot(b) \/ begin_maintenance_postcheck(b)
      PROVE  LeaseTypeOK'
  BY <1>4 DEF begin_desktop_snapshot, begin_maintenance_postcheck, insert_control_lease
<1>5. ASSUME NEW b \in Bindings, NEW known \in BOOLEAN, finish_maintenance_postcheck(b, known)
      PROVE  LeaseTypeOK'
  BY <1>5 DEF finish_maintenance_postcheck, DeleteControlLease
<1>6. CASE retain_lease_recovery
  BY <1>6 DEF retain_lease_recovery
<1>7. CASE \/ begin_setup_run \/ release_active_maintenance
           \/ reconcile_maintenance_after_restart \/ adopt_recovery_maintenance
  BY <1>7 DEF begin_setup_run, release_active_maintenance,
              reconcile_maintenance_after_restart, adopt_recovery_maintenance
<1> QED
  BY <1>1, <1>2, <1>3, <1>4, <1>5, <1>6, <1>7 DEF OperationalStep

\* Synchronising the lease of a Turn keeps the lease tables within their types.
LEMMA SynchronizeType ==
    ASSUME LeaseTypeOK, NEW t, NEW state, synchronize_control_lease(t, state)
    PROVE  LeaseTypeOK'
<1> DEFINE b == TurnBinding(t)
<1>1. CASE state \in TerminalStates
  BY <1>1 DEF synchronize_control_lease, DeleteControlLease, LeaseTypeOK
<1>2. CASE state \notin TerminalStates
  <2>1. PICK next \in LeaseStates : leaseState' = [leaseState EXCEPT ![b] = next]
    BY <1>2 DEF synchronize_control_lease, LeaseStates
  <2> QED
    BY <1>2, <2>1 DEF synchronize_control_lease, LeaseTypeOK
<1> QED
  BY <1>1, <1>2

\* A committed change of one Turn, with its lease and its record.
ChangeTurn(t, to) ==
    /\ commit_turn_state(t, to)
    /\ synchronize_control_lease(t, to)
    /\ update_turn_idempotency(t, to)

\* The change of a Turn, of its lease and of its record keeps the types.
LEMMA ChangeTurnType ==
    ASSUME TypeOK, NEW t \in Turns, NEW to \in TurnStates, ChangeTurn(t, to)
    PROVE  /\ LeaseTypeOK'
           /\ turnState' \in [Turns -> TurnStates \cup {"absent", "deleted"}]
           /\ turnRev' \in [Turns -> Revisions]
           /\ sessionRev' \in [Sessions -> Revisions]
           /\ turnCount' = turnCount
           /\ admissionTurn' = admissionTurn
           /\ admissionOutcome' \in [AdmissionKeys -> TurnStates \cup {"none"}]
           /\ admissionRevision' \in [AdmissionKeys -> Revisions]
<1> USE TurnParts, MaxRevisionAssumption DEF TypeOK, Revisions, ChangeTurn
<1>1. LeaseTypeOK'
  BY SynchronizeType
<1>2. /\ turnState' \in [Turns -> TurnStates \cup {"absent", "deleted"}]
      /\ turnRev' \in [Turns -> Revisions]
      /\ sessionRev' \in [Sessions -> Revisions]
      /\ turnCount' = turnCount
  BY SMTT(30) DEF commit_turn_state
<1>3. /\ admissionTurn' = admissionTurn
      /\ admissionOutcome' \in [AdmissionKeys -> TurnStates \cup {"none"}]
      /\ admissionRevision' \in [AdmissionKeys -> Revisions]
  BY SMTT(30), <1>2 DEF update_turn_idempotency
<1> QED
  BY <1>1, <1>2, <1>3

\* Every transaction keeps every table within its type.
LEMMA TypeStep ==
    ASSUME TypeOK, [Next]_vars
    PROVE  TypeOK'
<1> USE TurnParts, MaxRevisionAssumption, MaxTurnsAssumption
<1> USE DEF TypeOK, Revisions, StopOutcomes, Cancellations
<1>1. ASSUME NEW k \in AdmissionKeys, NEW t \in Turns, AdmitTurn(k, t),
             sessionRev' \in [Sessions -> Revisions]
      PROVE  TypeOK'
  BY SMTT(30), <1>1 DEF AdmitTurn, insert_control_lease, LeaseTypeOK, OwnerKinds, LeaseStates,
              TurnStates, ActiveStates, refVars, stopVars
<1>2. ASSUME NEW k \in AdmissionKeys, NEW s \in Sessions, begin_session(k, s)
      PROVE  TypeOK'
  BY SMTT(30), <1>1, <1>2 DEF begin_session
<1>3. ASSUME NEW k \in AdmissionKeys, NEW s \in Sessions, begin_follow_up(k, s, sessionRev[s])
      PROVE  TypeOK'
  <2>1. <<s, turnCount[s] + 1>> \in Turns
    BY SMTT(30), <1>3 DEF begin_follow_up
  <2>2. sessionRev' \in [Sessions -> Revisions]
    BY SMTT(30), <1>3 DEF begin_follow_up
  <2> QED
    BY <1>1, <1>3, <2>1, <2>2 DEF begin_follow_up
<1>4. ASSUME NEW s \in Sessions, NEW r \in ThreadRefs, record_thread_ref(s, r)
      PROVE  TypeOK'
  BY <1>4 DEF record_thread_ref, leaseVars, turnVars, admissionVars, stopVars, LeaseTypeOK
<1>5. ASSUME NEW t \in Turns, NEW r \in TurnRefs, record_turn_ref(t, r)
      PROVE  TypeOK'
  BY <1>5 DEF record_turn_ref, leaseVars, turnVars, admissionVars, stopVars, LeaseTypeOK
<1>6. ASSUME NEW t \in Turns, NEW to \in TurnTransitions,
             commit_lifecycle(t, CurrentRevisions(t), to)
      PROVE  TypeOK'
  <2>1. to \in TurnStates
    BY DEF TurnTransitions, TurnStates, ActiveStates, TerminalStates
  <2>2. ChangeTurn(t, to) /\ UNCHANGED <<refVars, stopVars, cancellation>>
    BY <1>6 DEF commit_lifecycle, ChangeTurn
  <2> QED
    BY <2>1, <2>2, ChangeTurnType DEF refVars, stopVars
<1>7. ASSUME NEW k \in StopKeys, NEW t \in Turns, begin_stop_new(k, t) \/ begin_stop_resume(k, t)
      PROVE  TypeOK'
  <2>1. CASE begin_stop_new(k, t)
    <3>1. stopOutcome' \in [StopKeys -> StopOutcomes \cup {"none"}]
      BY <2>1 DEF begin_stop_new
    <3>2. stopRevision' \in [StopKeys -> Revisions]
      <4>1. (IF Terminal(t) THEN sessionRev[t[1]] ELSE 0) \in Revisions
        BY SMTT(30)
      <4> QED
        BY <2>1, <4>1 DEF begin_stop_new
    <3> QED
      BY <2>1, <3>1, <3>2
         DEF begin_stop_new, leaseVars, turnVars, refVars, admissionVars, LeaseTypeOK
  <2>2. CASE begin_stop_resume(k, t)
    BY <2>2 DEF begin_stop_resume, complete_stop_idempotency,
                leaseVars, turnVars, refVars, admissionVars, LeaseTypeOK
  <2> QED
    BY <1>7, <2>1, <2>2
<1>8. ASSUME NEW k \in StopKeys, NEW t \in Turns, NEW observation \in StopObservations,
             confirm_stop_change(k, t, CurrentRevisions(t), observation)
      PROVE  TypeOK'
  <2>1. StopTarget(observation) \in TurnStates
    BY DEF StopTarget, StopObservations, TurnStates, ActiveStates, TerminalStates
  <2>2. ChangeTurn(t, StopTarget(observation))
    BY <1>8 DEF confirm_stop_change, ChangeTurn
  <2>3. sessionRev'[t[1]] \in Revisions
    BY <2>1, <2>2, ChangeTurnType
  <2>4. /\ stopTurn' = stopTurn
        /\ stopOutcome' \in [StopKeys -> StopOutcomes \cup {"none"}]
        /\ stopRevision' \in [StopKeys -> Revisions]
        /\ UNCHANGED <<refVars, cancellation>>
    BY <1>8, <2>3 DEF confirm_stop_change, complete_stop_idempotency
  <2> QED
    BY <2>1, <2>2, <2>4, ChangeTurnType DEF refVars
<1>9. ASSUME NEW k \in StopKeys, NEW t \in Turns, NEW observation \in StopObservations,
             confirm_stop_retain(k, t, CurrentRevisions(t), observation)
      PROVE  TypeOK'
  BY <1>9, SynchronizeType DEF confirm_stop_retain, complete_stop_idempotency,
              turnVars, refVars, admissionVars
<1>10. CASE OperationalStep /\ UNCHANGED storeVars
  BY <1>10, OperationalType DEF storeVars, turnVars, refVars, admissionVars, stopVars
<1>11. CASE mark_restart_recovery_pending
  BY SMTT(30), <1>11 DEF mark_restart_recovery_pending, RestartLeases, LeaseTypeOK, LeaseStates, OwnerKinds,
               TurnStates, ActiveStates, refVars, stopVars
<1>12. ASSUME NEW s \in Sessions, delete_session_metadata(s)
       PROVE  TypeOK'
  BY SMTT(30), <1>12 DEF delete_session_metadata, leaseVars, LeaseTypeOK
<1>13. ASSUME NEW k \in AdmissionKeys, NEW outcome \in Cancellations, NEW reconciled \in BOOLEAN,
              \/ record_admission_cancellation_inner(k, outcome, reconciled)
              \/ prune_expired_admission_cancellation(k)
       PROVE  TypeOK'
  BY ZenonT(30), <1>13 DEF record_admission_cancellation_inner, prune_expired_admission_cancellation,
               leaseVars, turnVars, refVars, admissionVars, stopVars, LeaseTypeOK
<1>14. CASE UNCHANGED vars
  BY <1>14 DEF vars, storeVars, leaseVars, turnVars, refVars, admissionVars, stopVars, LeaseTypeOK
<1> QED
  BY ZenonT(30), <1>2, <1>3, <1>4, <1>5, <1>6, <1>7, <1>8, <1>9, <1>10, <1>11, <1>12, <1>13, <1>14
     DEF Next, TurnStep

\* Every table of the store stays within its type, for every set of Sessions,
\* desktops and keys and every bound on Turns and revisions.
THEOREM TypeCorrect == Spec => []TypeOK
<1>1. Init => TypeOK
  BY SMTT(30), MaxRevisionAssumption, MaxTurnsAssumption
     DEF Init, LeaseInit, TypeOK, LeaseTypeOK, Revisions
<1>2. TypeOK /\ [Next]_vars => TypeOK'
  BY TypeStep
<1> QED
  BY <1>1, <1>2, PTL DEF Spec

-----------------------------------------------------------------------------
(* The inductive invariant.  A lease and its Turn are tied to each other in *)
(* both directions, which takes the shape of Sessions (only the last Turn  *)
(* may be active), and the records are tied to the Turns they name.        *)

StoreInv ==
    /\ TypeOK
    /\ LeaseMatchesTurn
    /\ MaintenanceExclusive
    /\ SessionShape
    /\ AdmissionsFollowTurns
    /\ StopsFollowTurns
    /\ StoppedByOneRequest
    /\ CancelledNeverAdmitted

\* How the states of a Turn divide.
LEMMA StateKinds ==
    /\ ActiveStates \subseteq TurnStates
    /\ TerminalStates \subseteq TurnStates
    /\ ActiveStates \cap TerminalStates = {}
    /\ "starting" \in ActiveStates
    /\ "running" \in ActiveStates
    /\ "recovery_pending" \in ActiveStates
    /\ "stopped" \in TerminalStates
    /\ "absent" \notin TurnStates
    /\ "deleted" \notin TurnStates
  BY DEF TurnStates, ActiveStates, TerminalStates

\* What both ways of admitting a Turn establish before they store it.
Admission(k, t) ==
    /\ AdmitTurn(k, t)
    /\ admissionTurn[k] = NoTurn
    /\ cancellation[k] = "none"
    /\ turnState[t] = "absent"
    /\ t[2] = turnCount[t[1]] + 1
    /\ turnCount[t[1]] = 0 => \A i \in 1..MaxTurns : turnState[<<t[1], i>>] = "absent"
    /\ turnCount[t[1]] > 0 => Terminal(LastTurn(t[1]))

\* begin_session and begin_follow_up both admit a Turn after those the Session has.
LEMMA AdmissionFacts ==
    ASSUME StoreInv, NEW k \in AdmissionKeys, NEW s \in Sessions,
           begin_session(k, s) \/ begin_follow_up(k, s, sessionRev[s])
    PROVE  \E t \in Turns : Admission(k, t)
<1>i. /\ TypeOK /\ LeaseMatchesTurn /\ MaintenanceExclusive /\ SessionShape /\ AdmissionsFollowTurns
      /\ StopsFollowTurns /\ StoppedByOneRequest /\ CancelledNeverAdmitted
  BY DEF StoreInv
<1> USE MaxTurnsAssumption, StateKinds, TurnParts
<1>0. turnCount[s] \in 0..MaxTurns
  BY <1>i DEF TypeOK
<1>1. CASE begin_session(k, s)
  <2>1. turnState[<<s, 1>>] = "absent" /\ <<s, 1>> \in Turns
    BY SMTT(30), <1>1 DEF begin_session
  <2>2. turnCount[s] = 0
    BY SMTT(30), <1>i, <1>0, <2>1 DEF SessionShape, Stored
  <2>3. \A i \in 1..MaxTurns : turnState[<<s, i>>] = "absent"
    BY <1>i, <2>1 DEF SessionShape
  <2>4. Admission(k, <<s, 1>>)
    BY SMTT(30), <1>1, <2>1, <2>2, <2>3 DEF Admission, begin_session
  <2> QED
    BY <2>1, <2>4
<1>2. CASE begin_follow_up(k, s, sessionRev[s])
  <2> DEFINE t == <<s, turnCount[s] + 1>>
  <2>1. turnCount[s] \in 1..(MaxTurns - 1) /\ turnCount[s] + 1 \in 1..MaxTurns
    BY SMTT(30), <1>0, <1>2 DEF begin_follow_up
  <2>2. t \in Turns /\ turnState[t] = "absent"
    <3>1. \A i \in 1..MaxTurns : turnCount[s] > 0 /\ i > turnCount[s] => turnState[<<s, i>>] = "absent"
      BY <1>i DEF SessionShape
    <3>2. turnCount[s] > 0 /\ turnCount[s] + 1 > turnCount[s]
      BY SMTT(30), <1>0, <2>1
    <3> QED
      BY <2>1, <3>1, <3>2
  <2>3. t[1] = s /\ t[2] = turnCount[s] + 1 /\ ~(turnCount[s] = 0)
    BY SMTT(30), <2>1
  <2>4. AdmitTurn(k, t) /\ admissionTurn[k] = NoTurn /\ cancellation[k] = "none"
        /\ Terminal(LastTurn(s))
    BY <1>2 DEF begin_follow_up
  <2>5. Admission(k, t)
    BY <2>2, <2>3, <2>4 DEF Admission
  <2> QED
    BY <2>2, <2>5
<1> QED
  BY <1>1, <1>2

\* Admission takes a free desktop for a Turn that is not stored yet.
LEMMA AdmissionInv ==
    ASSUME StoreInv, TypeOK', NEW k \in AdmissionKeys, NEW t \in Turns, Admission(k, t)
    PROVE  StoreInv'
<1>i. /\ TypeOK /\ LeaseMatchesTurn /\ MaintenanceExclusive /\ SessionShape /\ AdmissionsFollowTurns
      /\ StopsFollowTurns /\ StoppedByOneRequest /\ CancelledNeverAdmitted
  BY DEF StoreInv
<1> USE MaxTurnsAssumption, StateKinds, TurnParts
<1> DEFINE b == TurnBinding(t)
<1>t. TypeOK
  BY <1>i
<1>1. /\ maintenance = "none" /\ ownerKind[b] = "none"
      /\ ownerKind' = [ownerKind EXCEPT ![b] = "turn"]
      /\ leaseTurn' = [leaseTurn EXCEPT ![b] = t]
      /\ leaseState' = [leaseState EXCEPT ![b] = "active"]
      /\ UNCHANGED <<maintenance, postcheck>>
  BY DEF Admission, AdmitTurn, ensure_control_lease_available, insert_control_lease
<1>2. /\ turnState[t] = "absent"
      /\ turnState' = [turnState EXCEPT ![t] = "starting"]
      /\ turnRev' = [turnRev EXCEPT ![t] = 1]
      /\ turnCount' = [turnCount EXCEPT ![t[1]] = t[2]]
  BY DEF Admission, AdmitTurn
<1>3. /\ admissionTurn[k] = NoTurn
      /\ admissionTurn' = [admissionTurn EXCEPT ![k] = t]
      /\ admissionOutcome' = [admissionOutcome EXCEPT ![k] = "starting"]
      /\ UNCHANGED <<stopTurn, stopOutcome, cancellation>>
  BY DEF Admission, AdmitTurn, stopVars
<1>4. leaseTurn[b] = NoTurn /\ \A c \in Bindings : leaseTurn[c] # t
  BY SMTT(30), <1>i, <1>1, <1>2 DEF LeaseMatchesTurn, Active
<1>5. LeaseMatchesTurn'
  <2>1. ASSUME NEW u \in Turns, Active(u)'
        PROVE  leaseTurn'[TurnBinding(u)] = u
    BY SMTT(30), <1>i, <1>t, <1>1, <1>2, <1>4, <2>1 DEF LeaseMatchesTurn, Active, TypeOK, LeaseTypeOK
  <2>2. ASSUME NEW c \in Bindings
        PROVE  IF leaseTurn'[c] = NoTurn
               THEN ownerKind'[c] # "turn"
               ELSE /\ ownerKind'[c] = "turn"
                    /\ Active(leaseTurn[c])'
                    /\ TurnBinding(leaseTurn'[c]) = c
                    /\ leaseState'[c] = "recovery_pending" <=> turnState'[leaseTurn'[c]] = "recovery_pending"
    <3>1. CASE c = b
      BY <1>t, <1>1, <1>2, <3>1 DEF Active, TypeOK, LeaseTypeOK
    <3>2. CASE c # b
      <4>1. /\ ownerKind'[c] = ownerKind[c] /\ leaseTurn'[c] = leaseTurn[c]
            /\ leaseState'[c] = leaseState[c]
        BY SMTT(30), <1>t, <1>1, <3>2 DEF TypeOK, LeaseTypeOK
      <4>2. leaseTurn[c] # NoTurn => turnState'[leaseTurn[c]] = turnState[leaseTurn[c]]
        BY SMTT(30), <1>t, <1>2, <1>4 DEF TypeOK, LeaseTypeOK
      <4> QED
        BY SMTT(30), <1>i, <4>1, <4>2 DEF LeaseMatchesTurn, Active
    <3> QED
      BY <3>1, <3>2
  <2> QED
    BY <2>1, <2>2 DEF LeaseMatchesTurn, Active, TurnBinding
<1>6. MaintenanceExclusive'
  BY <1>i, <1>1 DEF MaintenanceExclusive
<1>7. SessionShape'
  <2> DEFINE s == t[1]
  <2>0. /\ turnCount[s] \in 0..MaxTurns /\ t[2] = turnCount[s] + 1 /\ t = <<s, t[2]>>
        /\ s \in Sessions /\ t[2] \in 1..MaxTurns
        /\ turnCount[s] = 0 => \A i \in 1..MaxTurns : turnState[<<s, i>>] = "absent"
        /\ turnCount[s] > 0 => Terminal(<<s, turnCount[s]>>)
    BY <1>t DEF Admission, TypeOK, LastTurn
  <2>1. ASSUME NEW x \in Sessions, x # s
        PROVE  /\ turnCount'[x] = turnCount[x]
               /\ \A i \in 1..MaxTurns : /\ turnState'[<<x, i>>] = turnState[<<x, i>>]
                                         /\ turnRev'[<<x, i>>] = turnRev[<<x, i>>]
    BY SMTT(30), <1>t, <1>2, <2>0, <2>1 DEF TypeOK
  <2>2. /\ turnCount'[s] = turnCount[s] + 1
        /\ turnState'[t] = "starting" /\ turnRev'[t] = 1
        /\ \A i \in 1..MaxTurns : i # t[2] => /\ turnState'[<<s, i>>] = turnState[<<s, i>>]
                                              /\ turnRev'[<<s, i>>] = turnRev[<<s, i>>]
    BY SMTT(30), <1>t, <1>2, <2>0 DEF TypeOK
  <2>3. ASSUME NEW x \in Sessions, NEW i \in 1..MaxTurns
        PROVE  /\ Stored(<<x, i>>)' <=> i <= turnCount'[x]
               /\ Stored(<<x, i>>)' => turnRev'[<<x, i>>] >= 1
                        /\ (turnState'[<<x, i>>] = "starting" <=> turnRev'[<<x, i>>] = 1)
               /\ i < turnCount'[x] => Terminal(<<x, i>>)'
               /\ turnCount'[x] > 0 /\ i > turnCount'[x] => turnState'[<<x, i>>] = "absent"
    <3>0. /\ Stored(<<x, i>>) <=> i <= turnCount[x]
          /\ Stored(<<x, i>>) => turnRev[<<x, i>>] >= 1
                        /\ (turnState[<<x, i>>] = "starting" <=> turnRev[<<x, i>>] = 1)
          /\ i < turnCount[x] => Terminal(<<x, i>>)
          /\ turnCount[x] > 0 /\ i > turnCount[x] => turnState[<<x, i>>] = "absent"
      BY <1>i DEF SessionShape
    <3>1. CASE x # s
      BY <2>1, <3>0, <3>1 DEF Stored, Terminal
    <3>2. CASE x = s /\ i = t[2]
      BY SMTT(30), <2>0, <2>2, <3>2 DEF Stored, Terminal
    <3>3. CASE x = s /\ i # t[2]
      <4>1. /\ turnState'[<<s, i>>] = turnState[<<s, i>>]
            /\ turnRev'[<<s, i>>] = turnRev[<<s, i>>]
        BY <2>2, <3>3
      <4>2. CASE i < t[2]
        <5>1. i <= turnCount[s] /\ turnCount[s] > 0
          BY SMTT(30), <2>0, <4>2
        <5>2. Terminal(<<s, i>>)
          BY SMTT(30), <2>0, <3>0, <3>3, <5>1
        <5> QED
          BY SMTT(30), <2>0, <2>2, <3>0, <3>3, <4>1, <5>1, <5>2 DEF Stored, Terminal
      <4>3. CASE i > t[2]
        <5>1. turnState[<<s, i>>] = "absent"
          BY SMTT(30), <2>0, <3>0, <3>3, <4>3
        <5> QED
          BY SMTT(30), <2>0, <2>2, <3>3, <4>1, <4>3, <5>1 DEF Stored, Terminal
      <4> QED
        BY SMTT(30), <2>0, <3>3, <4>2, <4>3
    <3> QED
      BY <3>1, <3>2, <3>3
  <2>4. ASSUME NEW x \in Sessions, turnState'[<<x, 1>>] = "absent"
        PROVE  \A i \in 1..MaxTurns : turnState'[<<x, i>>] = "absent"
    <3>1. x # s
      <4>1. 1 \in 1..MaxTurns /\ 1 <= turnCount'[s] /\ (1 = t[2] => <<s, 1>> = t)
        BY SMTT(30), <2>0, <2>2
      <4> QED
        BY <2>3, <2>4, <4>1 DEF Stored
    <3> QED
      BY SMTT(30), <1>i, <2>1, <2>4, <3>1 DEF SessionShape
  <2> QED
    BY <2>3, <2>4 DEF SessionShape, Stored, Terminal
<1>8. AdmissionsFollowTurns'
  <2>1. \A j \in AdmissionKeys : admissionTurn[j] # t
    BY SMTT(30), <1>i, <1>2 DEF AdmissionsFollowTurns, Stored
  <2>2. ASSUME NEW u \in Turns, Stored(u)'
        PROVE  \E j \in AdmissionKeys : RecordsOf(u)' = {j} /\ admissionOutcome'[j] = turnState'[u]
    <3>1. CASE u = t
      BY SMTT(40), <1>t, <1>2, <1>3, <2>1, <3>1 DEF RecordsOf, TypeOK
    <3>2. CASE u # t
      <4>1. turnState'[u] = turnState[u]
        BY SMTT(30), <1>t, <1>2, <3>2 DEF TypeOK
      <4>2. PICK j \in AdmissionKeys : RecordsOf(u) = {j} /\ admissionOutcome[j] = turnState[u]
        BY <1>i, <2>2, <4>1 DEF AdmissionsFollowTurns, Stored
      <4>3. j # k
        BY <1>3, <4>2 DEF RecordsOf
      <4>4. RecordsOf(u)' = {j}
        BY <1>t, <1>3, <3>2, <4>2, <4>3 DEF RecordsOf, TypeOK
      <4> QED
        BY <1>t, <1>3, <4>1, <4>2, <4>3, <4>4 DEF TypeOK
    <3> QED
      BY <3>1, <3>2
  <2>3. ASSUME NEW j \in AdmissionKeys
        PROVE  IF admissionTurn'[j] = NoTurn THEN admissionOutcome'[j] = "none"
               ELSE Stored(admissionTurn[j])'
    <3>1. CASE j = k
      BY SMTT(30), <1>t, <1>2, <1>3, <3>1 DEF TypeOK, Stored
    <3>2. CASE j # k
      BY SMTT(30), <1>i, <1>t, <1>2, <1>3, <3>2 DEF TypeOK, Stored, AdmissionsFollowTurns
    <3> QED
      BY <3>1, <3>2
  <2> QED
    BY <2>2, <2>3 DEF AdmissionsFollowTurns, Stored
<1>9. StopsFollowTurns'
  BY SMTT(30), <1>i, <1>t, <1>2, <1>3 DEF StopsFollowTurns, Stored, TypeOK
<1>10. StoppedByOneRequest'
  <2>1. \A j \in StopKeys : stopTurn[j] # t
    BY SMTT(30), <1>i, <1>2 DEF StopsFollowTurns, Stored
  <2>2. \A u \in Turns : u # t => turnState'[u] = turnState[u]
    BY SMTT(30), <1>t, <1>2 DEF TypeOK
  <2>3. turnState'[t] = "starting"
    BY SMTT(30), <1>t, <1>2 DEF TypeOK
  <2>4. \A j \in StopKeys : stopTurn[j] = NoTurn => stopOutcome[j] = "none"
    BY <1>i DEF StopsFollowTurns
  <2>5. \A j \in StopKeys : stopTurn[j] \in Turns \cup {NoTurn}
    BY <1>t DEF TypeOK
  <2> QED
    BY SMTT(30), <1>i, <1>3, <2>1, <2>2, <2>3, <2>4, <2>5 DEF StoppedByOneRequest, Terminal
<1>11. CancelledNeverAdmitted'
  BY <1>i, <1>t, <1>3 DEF CancelledNeverAdmitted, Admission, TypeOK
<1> QED
  BY <1>5, <1>6, <1>7, <1>8, <1>9, <1>10, <1>11 DEF StoreInv

\* A committed change of an active Turn moves its lease and its record with it.
LEMMA ChangeTurnInv ==
    ASSUME StoreInv, TypeOK', NEW t \in Turns, NEW to \in TurnStates,
           Active(t), to # "starting", ChangeTurn(t, to)
    PROVE  /\ LeaseMatchesTurn'
           /\ MaintenanceExclusive'
           /\ SessionShape'
           /\ AdmissionsFollowTurns'
<1>i. /\ TypeOK /\ LeaseMatchesTurn /\ MaintenanceExclusive /\ SessionShape /\ AdmissionsFollowTurns
      /\ StopsFollowTurns /\ StoppedByOneRequest /\ CancelledNeverAdmitted
  BY DEF StoreInv
<1> USE MaxTurnsAssumption, StateKinds, TurnParts
<1> DEFINE b == TurnBinding(t)
<1>t. TypeOK
  BY <1>i
<1>1. /\ turnState' = [turnState EXCEPT ![t] = to]
      /\ turnRev' = [turnRev EXCEPT ![t] = turnRev[t] + 1]
      /\ turnCount' = turnCount
  BY DEF ChangeTurn, commit_turn_state
<1>2. /\ turnState'[t] = to
      /\ \A u \in Turns : u # t => turnState'[u] = turnState[u]
  BY SMTT(30), <1>t, <1>1 DEF TypeOK
<1>3. ownerKind[b] = "turn" /\ leaseTurn[b] = t
  BY SMTT(30), <1>i DEF LeaseMatchesTurn
<1>4. \A c \in Bindings : c # b => leaseTurn[c] # t
  BY <1>i DEF LeaseMatchesTurn
<1>5. /\ \A c \in Bindings : c # b => /\ ownerKind'[c] = ownerKind[c]
                                      /\ leaseTurn'[c] = leaseTurn[c]
                                      /\ leaseState'[c] = leaseState[c]
      /\ maintenance' = maintenance /\ postcheck' = postcheck
  BY SMTT(30), <1>t DEF ChangeTurn, synchronize_control_lease, DeleteControlLease, TypeOK, LeaseTypeOK
<1>6. to \in TerminalStates => ownerKind'[b] = "none" /\ leaseTurn'[b] = NoTurn
  BY SMTT(30), <1>t DEF ChangeTurn, synchronize_control_lease, DeleteControlLease, TypeOK, LeaseTypeOK
<1>7. to \notin TerminalStates =>
        /\ to \in ActiveStates
        /\ ownerKind'[b] = "turn" /\ leaseTurn'[b] = t
        /\ leaseState'[b] = "recovery_pending" <=> to = "recovery_pending"
  BY SMTT(30), <1>t, <1>3 DEF ChangeTurn, synchronize_control_lease, TypeOK, LeaseTypeOK, TurnStates
<1>8. LeaseMatchesTurn'
  <2>1. ASSUME NEW u \in Turns, Active(u)'
        PROVE  leaseTurn'[TurnBinding(u)] = u
    <3>1. CASE u = t
      BY <1>2, <1>7, <2>1, <3>1 DEF Active
    <3>2. CASE u # t
      BY SMTT(30), <1>i, <1>2, <1>3, <1>5, <2>1, <3>2 DEF Active, LeaseMatchesTurn
    <3> QED
      BY <3>1, <3>2
  <2>2. ASSUME NEW c \in Bindings
        PROVE  IF leaseTurn'[c] = NoTurn
               THEN ownerKind'[c] # "turn"
               ELSE /\ ownerKind'[c] = "turn"
                    /\ Active(leaseTurn[c])'
                    /\ TurnBinding(leaseTurn'[c]) = c
                    /\ leaseState'[c] = "recovery_pending" <=> turnState'[leaseTurn'[c]] = "recovery_pending"
    <3>1. CASE c = b
      BY <1>2, <1>6, <1>7, <3>1 DEF Active
    <3>2. CASE c # b
      <4>1. leaseTurn[c] # NoTurn => turnState'[leaseTurn[c]] = turnState[leaseTurn[c]]
        BY SMTT(30), <1>t, <1>2, <1>4, <3>2 DEF TypeOK, LeaseTypeOK
      <4> QED
        BY SMTT(30), <1>i, <1>5, <3>2, <4>1 DEF LeaseMatchesTurn, Active
    <3> QED
      BY <3>1, <3>2
  <2> QED
    BY <2>1, <2>2 DEF LeaseMatchesTurn, Active, TurnBinding
<1>9. MaintenanceExclusive'
  <2>1. b # postcheck
    BY SMTT(30), <1>i, <1>3, NoBindingAssumption DEF MaintenanceExclusive
  <2>2. maintenance = "none"
    BY <1>i, <1>3, <2>1 DEF MaintenanceExclusive
  <2>3. postcheck = NoBinding
    BY <1>i, <2>2 DEF MaintenanceExclusive
  <2> QED
    BY <1>5, <2>2, <2>3 DEF MaintenanceExclusive
<1>10. SessionShape'
  <2>1. ASSUME NEW x \in Sessions, NEW i \in 1..MaxTurns
        PROVE  /\ Stored(<<x, i>>)' <=> i <= turnCount'[x]
               /\ Stored(<<x, i>>)' => turnRev'[<<x, i>>] >= 1
                        /\ (turnState'[<<x, i>>] = "starting" <=> turnRev'[<<x, i>>] = 1)
               /\ i < turnCount'[x] => Terminal(<<x, i>>)'
               /\ turnCount'[x] > 0 /\ i > turnCount'[x] => turnState'[<<x, i>>] = "absent"
    <3>0. /\ Stored(<<x, i>>) <=> i <= turnCount[x]
          /\ Stored(<<x, i>>) => turnRev[<<x, i>>] >= 1
                        /\ (turnState[<<x, i>>] = "starting" <=> turnRev[<<x, i>>] = 1)
          /\ i < turnCount[x] => Terminal(<<x, i>>)
          /\ turnCount[x] > 0 /\ i > turnCount[x] => turnState[<<x, i>>] = "absent"
      BY <1>i DEF SessionShape
    <3>1. CASE <<x, i>> = t
      <4>1. turnRev[t] >= 1 /\ turnRev[t] \in Nat /\ turnRev'[t] = turnRev[t] + 1
        <5>1. turnRev[t] >= 1
          BY <3>0, <3>1 DEF Stored, Active
        <5>2. turnRev[t] \in Nat /\ turnRev'[t] = turnRev[t] + 1
          BY SMTT(30), <1>t, <1>1, MaxRevisionAssumption DEF TypeOK, Revisions
        <5> QED
          BY <5>1, <5>2
      <4>2. ~(i < turnCount[x]) /\ ~(turnCount[x] > 0 /\ i > turnCount[x])
        BY <3>0, <3>1 DEF Active, Terminal
      <4> QED
        <5>1. Stored(<<x, i>>)' /\ i <= turnCount'[x]
          BY <1>1, <1>2, <3>0, <3>1 DEF Stored, Active
        <5>2. turnRev'[t] >= 1 /\ turnRev'[t] # 1 /\ turnState'[t] # "starting"
          BY SMTT(30), <1>2, <4>1
        <5> QED
          BY <1>1, <3>1, <4>2, <5>1, <5>2
    <3>2. CASE <<x, i>> # t
      <4>1. <<x, i>> \in Turns /\ turnRev'[<<x, i>>] = turnRev[<<x, i>>]
        BY <1>t, <1>1, <3>2 DEF TypeOK
      <4> QED
        BY <1>1, <1>2, <3>0, <3>2, <4>1 DEF Stored, Terminal
    <3> QED
      BY <3>1, <3>2
  <2>2. ASSUME NEW x \in Sessions, turnState'[<<x, 1>>] = "absent"
        PROVE  \A i \in 1..MaxTurns : turnState'[<<x, i>>] = "absent"
    <3>1. 1 \in 1..MaxTurns /\ <<x, 1>> \in Turns
      BY SMTT(30)
    <3>2. <<x, 1>> # t
      BY <1>2, <2>2
    <3>3. turnState[<<x, 1>>] = "absent"
      BY <1>2, <2>2, <3>1, <3>2
    <3>4. \A i \in 1..MaxTurns : turnState[<<x, i>>] = "absent"
      BY <1>i, <3>3 DEF SessionShape
    <3>5. \A i \in 1..MaxTurns : <<x, i>> # t
      BY <3>4 DEF Active
    <3> QED
      BY <1>2, <3>4, <3>5
  <2> QED
    BY <2>1, <2>2 DEF SessionShape, Stored, Terminal
<1>11. AdmissionsFollowTurns'
  <2>1. PICK k \in AdmissionKeys :
          /\ RecordsOf(t) = {k}
          /\ admissionOutcome' = [admissionOutcome EXCEPT ![k] = to]
          /\ admissionTurn' = admissionTurn
    BY DEF ChangeTurn, update_turn_idempotency
  <2>2. \A u \in Turns : RecordsOf(u)' = RecordsOf(u)
    BY <2>1 DEF RecordsOf
  <2>3. ASSUME NEW u \in Turns, Stored(u)'
        PROVE  \E j \in AdmissionKeys : RecordsOf(u)' = {j} /\ admissionOutcome'[j] = turnState'[u]
    <3>1. CASE u = t
      BY <1>t, <1>2, <2>1, <2>2, <3>1 DEF TypeOK
    <3>2. CASE u # t
      <4>1. PICK j \in AdmissionKeys : RecordsOf(u) = {j} /\ admissionOutcome[j] = turnState[u]
        BY <1>i, <1>2, <2>3, <3>2 DEF AdmissionsFollowTurns, Stored
      <4>2. j # k
        BY SMTT(30), <2>1, <3>2, <4>1 DEF RecordsOf
      <4> QED
        BY <1>t, <1>2, <2>1, <2>2, <3>2, <4>1, <4>2 DEF TypeOK
    <3> QED
      BY <3>1, <3>2
  <2>4. ASSUME NEW j \in AdmissionKeys
        PROVE  IF admissionTurn'[j] = NoTurn THEN admissionOutcome'[j] = "none"
               ELSE Stored(admissionTurn[j])'
    <3>1. admissionTurn[j] = NoTurn => j # k
      BY <2>1 DEF RecordsOf
    <3>2. admissionTurn[j] # NoTurn => Stored(admissionTurn[j])'
      BY SMTT(30), <1>i, <1>t, <1>2, <2>1 DEF AdmissionsFollowTurns, Stored, TypeOK
    <3>3. admissionTurn[j] = NoTurn => admissionOutcome'[j] = "none"
      BY SMTT(30), <1>i, <1>t, <2>1, <3>1 DEF AdmissionsFollowTurns, TypeOK
    <3> QED
      BY <2>1, <3>2, <3>3 DEF Stored
  <2> QED
    BY <2>3, <2>4 DEF AdmissionsFollowTurns, Stored
<1> QED
  BY <1>8, <1>9, <1>10, <1>11

\* Probes, snapshots and maintenance never touch the lease of a Turn, and
\* maintenance and its postcheck come and go together.
LEMMA OperationalInv ==
    ASSUME TypeOK, LeaseMatchesTurn, MaintenanceExclusive,
           OperationalStep, UNCHANGED turnState
    PROVE  LeaseMatchesTurn' /\ MaintenanceExclusive'
<1> USE NoBindingAssumption
<1> USE DEF LeaseMatchesTurn, MaintenanceExclusive, Active, TypeOK, LeaseTypeOK, ProbeKinds
<1>1. ASSUME NEW b \in Bindings, NEW kind \in ProbeKinds, begin_readiness_probe(b, kind)
      PROVE  LeaseMatchesTurn' /\ MaintenanceExclusive'
  BY SMTT(30), <1>1, TurnParts DEF begin_readiness_probe, ensure_control_lease_available, insert_control_lease
<1>2. ASSUME NEW b \in Bindings, release_probe(b) \/ release_reconciled_probe(b)
      PROVE  LeaseMatchesTurn' /\ MaintenanceExclusive'
  BY SMTT(30), <1>2, TurnParts DEF release_probe, release_reconciled_probe, StandaloneProbe, DeleteControlLease
<1>3. ASSUME NEW b \in Bindings, retain_probe_recovery(b)
      PROVE  LeaseMatchesTurn' /\ MaintenanceExclusive'
  BY SMTT(30), <1>3, TurnParts DEF retain_probe_recovery, StandaloneProbe
<1>4. ASSUME NEW b \in Bindings, begin_desktop_snapshot(b)
      PROVE  LeaseMatchesTurn' /\ MaintenanceExclusive'
  BY SMTT(30), <1>4, TurnParts DEF begin_desktop_snapshot, ensure_control_lease_available, insert_control_lease
<1>5. ASSUME NEW b \in Bindings, release_snapshot_lease(b)
      PROVE  LeaseMatchesTurn' /\ MaintenanceExclusive'
  BY SMTT(30), <1>5, TurnParts DEF release_snapshot_lease, DeleteControlLease
<1>6. ASSUME NEW b \in Bindings, begin_maintenance_postcheck(b)
      PROVE  LeaseMatchesTurn' /\ MaintenanceExclusive'
  BY SMTT(30), <1>6, TurnParts DEF begin_maintenance_postcheck, HeldBindings, insert_control_lease
<1>7. ASSUME NEW b \in Bindings, NEW known \in BOOLEAN, finish_maintenance_postcheck(b, known)
      PROVE  LeaseMatchesTurn' /\ MaintenanceExclusive'
  BY SMTT(30), <1>7, TurnParts DEF finish_maintenance_postcheck, DeleteControlLease
<1>8. CASE begin_setup_run
  BY <1>8 DEF begin_setup_run, HeldBindings
<1>9. CASE release_active_maintenance \/ reconcile_maintenance_after_restart \/ adopt_recovery_maintenance
  BY SMTT(30), <1>9 DEF release_active_maintenance, reconcile_maintenance_after_restart, adopt_recovery_maintenance
<1>10. CASE retain_lease_recovery
  BY SMTT(30), <1>10, TurnParts DEF retain_lease_recovery, HeldBindings
<1> HIDE DEF LeaseMatchesTurn, MaintenanceExclusive, Active, TypeOK, LeaseTypeOK, ProbeKinds
<1> QED
  BY <1>1, <1>2, <1>3, <1>4, <1>5, <1>6, <1>7, <1>8, <1>9, <1>10 DEF OperationalStep

\* The restart transaction moves every active Turn and its lease together.
LEMMA RestartInv ==
    ASSUME StoreInv, TypeOK', mark_restart_recovery_pending
    PROVE  StoreInv'
<1>i. /\ TypeOK /\ LeaseMatchesTurn /\ MaintenanceExclusive /\ SessionShape /\ AdmissionsFollowTurns
      /\ StopsFollowTurns /\ StoppedByOneRequest /\ CancelledNeverAdmitted
  BY DEF StoreInv
<1> USE MaxTurnsAssumption, StateKinds, TurnParts, NoBindingAssumption
<1> DEFINE active == {t \in Turns : Active(t)}
           moved  == {t \in active : turnState[t] # "recovery_pending"}
<1>t. TypeOK
  BY <1>i
<1>1. \A t \in Turns : /\ turnState'[t] = IF t \in moved THEN "recovery_pending" ELSE turnState[t]
                       /\ turnRev'[t] = IF t \in moved THEN turnRev[t] + 1 ELSE turnRev[t]
  BY DEF mark_restart_recovery_pending
<1>2. \A t \in Turns : /\ Active(t) => turnState'[t] = "recovery_pending"
                       /\ ~Active(t) => turnState'[t] = turnState[t]
  BY <1>1 DEF Active
<1>3. UNCHANGED <<turnCount, admissionTurn, stopTurn, stopOutcome, cancellation>>
  BY DEF mark_restart_recovery_pending, stopVars
<1>4. RestartLeases(active)
  BY DEF mark_restart_recovery_pending
<1>5. \A b \in Bindings :
        /\ ownerKind[b] = "desktop_snapshot" => ownerKind'[b] = "none" /\ leaseTurn'[b] = NoTurn
        /\ ownerKind[b] # "desktop_snapshot" => ownerKind'[b] = ownerKind[b] /\ leaseTurn'[b] = leaseTurn[b]
        /\ leaseTurn[b] \in active /\ ownerKind[b] # "desktop_snapshot" => leaseState'[b] = "recovery_pending"
  BY <1>4 DEF RestartLeases
<1>6. LeaseMatchesTurn'
  <2>1. ASSUME NEW t \in Turns, Active(t)'
        PROVE  leaseTurn'[TurnBinding(t)] = t
    BY SMTT(30), <1>i, <1>2, <1>5, <2>1 DEF LeaseMatchesTurn, Active
  <2>2. ASSUME NEW b \in Bindings, leaseTurn'[b] = NoTurn
        PROVE  ownerKind'[b] # "turn"
    BY <1>i, <1>5, <2>2 DEF LeaseMatchesTurn
  <2>3. ASSUME NEW b \in Bindings, leaseTurn'[b] # NoTurn
        PROVE  /\ ownerKind'[b] = "turn"
               /\ Active(leaseTurn[b])'
               /\ TurnBinding(leaseTurn'[b]) = b
               /\ leaseState'[b] = "recovery_pending" <=> turnState'[leaseTurn'[b]] = "recovery_pending"
    <3>1. ownerKind[b] # "desktop_snapshot" /\ leaseTurn'[b] = leaseTurn[b] /\ ownerKind'[b] = ownerKind[b]
      BY <1>5, <2>3
    <3>2. ownerKind[b] = "turn" /\ TurnBinding(leaseTurn[b]) = b /\ Active(leaseTurn[b])
      BY <1>i, <2>3, <3>1 DEF LeaseMatchesTurn
    <3>3. leaseTurn[b] \in active
      BY SMTT(30), <1>t, <2>3, <3>1, <3>2 DEF TypeOK, LeaseTypeOK
    <3> QED
      BY <1>2, <1>5, <3>1, <3>2, <3>3 DEF Active
  <2> QED
    BY <2>1, <2>2, <2>3 DEF LeaseMatchesTurn, Active, TurnBinding
<1>7. MaintenanceExclusive'
  BY <1>i, <1>t, <1>4, <1>5 DEF MaintenanceExclusive, RestartLeases, TypeOK, LeaseTypeOK
<1>8. SessionShape'
  <2>1. ASSUME NEW x \in Sessions, NEW i \in 1..MaxTurns
        PROVE  /\ Stored(<<x, i>>)' <=> i <= turnCount'[x]
               /\ Stored(<<x, i>>)' => turnRev'[<<x, i>>] >= 1
                        /\ (turnState'[<<x, i>>] = "starting" <=> turnRev'[<<x, i>>] = 1)
               /\ i < turnCount'[x] => Terminal(<<x, i>>)'
               /\ turnCount'[x] > 0 /\ i > turnCount'[x] => turnState'[<<x, i>>] = "absent"
    <3>0. /\ Stored(<<x, i>>) <=> i <= turnCount[x]
          /\ Stored(<<x, i>>) => turnRev[<<x, i>>] >= 1
                        /\ (turnState[<<x, i>>] = "starting" <=> turnRev[<<x, i>>] = 1)
          /\ i < turnCount[x] => Terminal(<<x, i>>)
          /\ turnCount[x] > 0 /\ i > turnCount[x] => turnState[<<x, i>>] = "absent"
      BY <1>i DEF SessionShape
    <3> DEFINE t == <<x, i>>
    <3>1. t \in Turns
      OBVIOUS
    <3>2. CASE t \in moved
      <4>1. turnState'[t] = "recovery_pending" /\ Active(t) /\ Stored(t)
        BY <1>1, <3>1, <3>2 DEF Active, Stored
      <4>2. turnRev'[t] >= 1 /\ turnRev'[t] # 1
        <5>1. turnRev[t] >= 1 /\ turnRev[t] \in Nat
          BY SMTT(30), <1>t, <3>0, <3>1, <4>1, MaxRevisionAssumption DEF TypeOK, Revisions
        <5> QED
          BY SMTT(30), <1>1, <3>1, <3>2, <5>1
      <4> QED
        BY <1>3, <3>0, <4>1, <4>2 DEF Stored, Active, Terminal
    <3>3. CASE t \notin moved
      BY <1>1, <1>3, <3>0, <3>1, <3>3 DEF Stored, Terminal
    <3> QED
      BY <3>2, <3>3
  <2>2. ASSUME NEW x \in Sessions, turnState'[<<x, 1>>] = "absent"
        PROVE  \A i \in 1..MaxTurns : turnState'[<<x, i>>] = "absent"
    <3>1. <<x, 1>> \in Turns
      BY SMTT(30)
    <3>2. turnState[<<x, 1>>] = "absent"
      BY <1>1, <2>2, <3>1
    <3>3. \A i \in 1..MaxTurns : turnState[<<x, i>>] = "absent" /\ <<x, i>> \in Turns
      BY <1>i, <3>2 DEF SessionShape
    <3> QED
      BY <1>2, <3>3 DEF Active
  <2> QED
    BY <2>1, <2>2 DEF SessionShape, Stored, Terminal
<1>9. AdmissionsFollowTurns'
  <2>1. \A k \in AdmissionKeys : admissionOutcome'[k] =
            IF admissionTurn[k] \in moved THEN "recovery_pending" ELSE admissionOutcome[k]
    BY DEF mark_restart_recovery_pending
  <2>2. ASSUME NEW u \in Turns, Stored(u)'
        PROVE  \E j \in AdmissionKeys : RecordsOf(u)' = {j} /\ admissionOutcome'[j] = turnState'[u]
    <3>1. Stored(u)
      BY <1>2, <2>2 DEF Stored, Active
    <3>2. PICK j \in AdmissionKeys : RecordsOf(u) = {j} /\ admissionOutcome[j] = turnState[u]
      BY <1>i, <3>1 DEF AdmissionsFollowTurns
    <3>3. RecordsOf(u)' = {j} /\ admissionTurn[j] = u
      BY <1>3, <3>2 DEF RecordsOf
    <3> QED
      BY <1>1, <2>1, <3>2, <3>3
  <2>3. ASSUME NEW j \in AdmissionKeys
        PROVE  IF admissionTurn'[j] = NoTurn THEN admissionOutcome'[j] = "none"
               ELSE Stored(admissionTurn[j])'
    <3>1. CASE admissionTurn[j] = NoTurn
      BY <1>i, <1>3, <2>1, <3>1 DEF AdmissionsFollowTurns
    <3>2. CASE admissionTurn[j] # NoTurn
      <4>1. admissionTurn[j] \in Turns /\ Stored(admissionTurn[j])
        BY SMTT(30), <1>i, <1>t, <3>2 DEF AdmissionsFollowTurns, TypeOK
      <4> QED
        BY <1>1, <1>3, <3>2, <4>1 DEF Stored
    <3> QED
      BY <3>1, <3>2
  <2> QED
    BY <2>2, <2>3 DEF AdmissionsFollowTurns, Stored
<1>10. StopsFollowTurns'
  <2>1. ASSUME NEW k \in StopKeys, stopTurn[k] # NoTurn
        PROVE  Stored(stopTurn[k])'
    <3>1. stopTurn[k] \in Turns /\ Stored(stopTurn[k])
      BY SMTT(30), <1>i, <1>t, <2>1 DEF StopsFollowTurns, TypeOK
    <3> QED
      BY <1>1, <1>3, <3>1 DEF Stored
  <2> QED
    BY <1>i, <1>3, <2>1 DEF StopsFollowTurns, Stored
<1>11. StoppedByOneRequest'
  <2>1. \A t \in Turns : turnState'[t] = "stopped" <=> turnState[t] = "stopped"
    BY <1>2 DEF Active
  <2>2. ASSUME NEW k \in StopKeys, stopOutcome[k] = "already_terminal"
        PROVE  Terminal(stopTurn[k])'
    <3>1. stopTurn[k] \in Turns /\ Terminal(stopTurn[k])
      BY SMTT(30), <1>i, <1>t, <2>2 DEF StopsFollowTurns, StoppedByOneRequest, TypeOK
    <3> QED
      BY <1>2, <1>3, <3>1 DEF Active, Terminal
  <2> QED
    BY <1>i, <1>3, <2>1, <2>2 DEF StoppedByOneRequest, Terminal
<1>12. CancelledNeverAdmitted'
  BY <1>i, <1>3 DEF CancelledNeverAdmitted
<1> QED
  BY <1>6, <1>7, <1>8, <1>9, <1>10, <1>11, <1>12 DEF StoreInv

\* Retention removes ended Turns together with every record that names them.
LEMMA DeleteInv ==
    ASSUME StoreInv, TypeOK', NEW s \in Sessions, delete_session_metadata(s)
    PROVE  StoreInv'
<1>i. /\ TypeOK /\ LeaseMatchesTurn /\ MaintenanceExclusive /\ SessionShape /\ AdmissionsFollowTurns
      /\ StopsFollowTurns /\ StoppedByOneRequest /\ CancelledNeverAdmitted
  BY DEF StoreInv
<1> USE MaxTurnsAssumption, StateKinds, TurnParts
<1>t. TypeOK
  BY <1>i
<1>1. turnCount[s] > 0 /\ \A i \in 1..turnCount[s] : Terminal(<<s, i>>)
  BY DEF delete_session_metadata
<1>2. \A t \in Turns : /\ t[1] = s /\ Stored(t) => turnState'[t] = "deleted"
                       /\ ~(t[1] = s /\ Stored(t)) => turnState'[t] = turnState[t]
                       /\ t[1] # s => turnRev'[t] = turnRev[t]
  BY DEF delete_session_metadata
<1>3. /\ turnCount' = [turnCount EXCEPT ![s] = 0]
      /\ UNCHANGED <<ownerKind, leaseTurn, leaseState, maintenance, postcheck, cancellation>>
  BY DEF delete_session_metadata, leaseVars
<1>4. \A t \in Turns : t[1] = s => ~Active(t)
  <2> SUFFICES ASSUME NEW t \in Turns, t[1] = s, Active(t)
               PROVE  FALSE
    OBVIOUS
  <2>1. t = <<s, t[2]>> /\ t[2] \in 1..MaxTurns /\ turnCount[s] \in 0..MaxTurns
    BY <1>t DEF TypeOK
  <2>2. Stored(t)
    BY DEF Stored, Active
  <2>3. t[2] <= turnCount[s]
    <3>1. \A i \in 1..MaxTurns : Stored(<<s, i>>) <=> i <= turnCount[s]
      BY <1>i DEF SessionShape
    <3> QED
      BY <2>1, <2>2, <3>1
  <2>4. t[2] \in 1..turnCount[s]
    BY SMTT(30), <2>1, <2>3
  <2> QED
    BY <1>1, <2>1, <2>4 DEF Active, Terminal
<1>5. LeaseMatchesTurn'
  <2>1. \A t \in Turns : Active(t)' => Active(t)
    BY <1>2 DEF Active
  <2>2. \A t \in Turns : Active(t) => turnState'[t] = turnState[t]
    BY <1>2, <1>4
  <2>3. \A b \in Bindings : leaseTurn[b] \in Turns \cup {NoTurn}
    BY SMTT(30), <1>t DEF TypeOK, LeaseTypeOK
  <2> QED
    BY SMTT(30), <1>i, <1>3, <2>1, <2>2, <2>3 DEF LeaseMatchesTurn, Active, TurnBinding
<1>6. MaintenanceExclusive'
  BY <1>i, <1>3 DEF MaintenanceExclusive
<1>7. SessionShape'
  <2>0. turnCount'[s] = 0 /\ \A x \in Sessions : x # s => turnCount'[x] = turnCount[x]
    BY SMTT(30), <1>t, <1>3 DEF TypeOK
  <2>1. ASSUME NEW i \in 1..MaxTurns
        PROVE  ~Stored(<<s, i>>)'
    <3>1. <<s, i>> \in Turns /\ <<s, i>>[1] = s
      OBVIOUS
    <3> QED
      BY <1>2, <3>1 DEF Stored
  <2>2. turnState'[<<s, 1>>] # "absent"
    <3>0. turnCount[s] \in 0..MaxTurns /\ turnCount[s] > 0
      BY <1>t, <1>1 DEF TypeOK
    <3>1. 1 \in 1..turnCount[s] /\ <<s, 1>> \in Turns /\ <<s, 1>>[1] = s
      BY SMTT(30), <3>0
    <3>2. Stored(<<s, 1>>)
      BY <1>1, <3>1 DEF Stored, Terminal
    <3> QED
      BY <1>2, <3>1, <3>2
  <2>3. ASSUME NEW x \in Sessions, x # s, NEW i \in 1..MaxTurns
        PROVE  turnState'[<<x, i>>] = turnState[<<x, i>>] /\ turnRev'[<<x, i>>] = turnRev[<<x, i>>]
    <3>1. <<x, i>> \in Turns /\ <<x, i>>[1] # s
      BY <2>3
    <3> QED
      BY <1>2, <3>1
  <2>4. ASSUME NEW x \in Sessions
        PROVE  /\ \A i \in 1..MaxTurns :
                    /\ Stored(<<x, i>>)' <=> i <= turnCount'[x]
                    /\ Stored(<<x, i>>)' => turnRev'[<<x, i>>] >= 1
                            /\ (turnState'[<<x, i>>] = "starting" <=> turnRev'[<<x, i>>] = 1)
                    /\ i < turnCount'[x] => Terminal(<<x, i>>)'
                    /\ turnCount'[x] > 0 /\ i > turnCount'[x] => turnState'[<<x, i>>] = "absent"
               /\ turnState'[<<x, 1>>] = "absent" =>
                    \A i \in 1..MaxTurns : turnState'[<<x, i>>] = "absent"
    <3>1. CASE x = s
      BY SMTT(30), <2>0, <2>1, <2>2, <3>1
    <3>2. CASE x # s
      <4>1. 1 \in 1..MaxTurns
        BY SMTT(30)
      <4> QED
        BY SMTT(30), <1>i, <2>0, <2>3, <3>2, <4>1 DEF SessionShape, Stored, Terminal
    <3> QED
      BY <3>1, <3>2
  <2> QED
    BY <2>4 DEF SessionShape, Stored, Terminal
<1>8. AdmissionsFollowTurns'
  <2>1. \A k \in AdmissionKeys :
            IF admissionTurn[k] \in Turns /\ admissionTurn[k][1] = s
            THEN admissionTurn'[k] = NoTurn /\ admissionOutcome'[k] = "none"
            ELSE admissionTurn'[k] = admissionTurn[k] /\ admissionOutcome'[k] = admissionOutcome[k]
    BY DEF delete_session_metadata
  <2>2. ASSUME NEW u \in Turns, Stored(u)'
        PROVE  \E j \in AdmissionKeys : RecordsOf(u)' = {j} /\ admissionOutcome'[j] = turnState'[u]
    <3>1. u[1] # s /\ Stored(u) /\ turnState'[u] = turnState[u]
      BY <1>2, <2>2 DEF Stored
    <3>2. PICK j \in AdmissionKeys : RecordsOf(u) = {j} /\ admissionOutcome[j] = turnState[u]
      BY <1>i, <3>1 DEF AdmissionsFollowTurns
    <3>3. RecordsOf(u)' = {j} /\ admissionOutcome'[j] = admissionOutcome[j]
      BY SMTT(30), <2>1, <3>1, <3>2 DEF RecordsOf
    <3> QED
      BY <3>1, <3>2, <3>3
  <2>3. ASSUME NEW j \in AdmissionKeys
        PROVE  IF admissionTurn'[j] = NoTurn THEN admissionOutcome'[j] = "none"
               ELSE Stored(admissionTurn[j])'
    <3>1. CASE admissionTurn[j] \in Turns /\ admissionTurn[j][1] = s
      BY <2>1, <3>1
    <3>2. CASE admissionTurn[j] \in Turns /\ admissionTurn[j][1] # s
      <4>1. Stored(admissionTurn[j]) /\ turnState'[admissionTurn[j]] = turnState[admissionTurn[j]]
        BY <1>i, <1>2, <3>2 DEF AdmissionsFollowTurns
      <4> QED
        BY <2>1, <3>2, <4>1 DEF Stored
    <3>3. CASE admissionTurn[j] = NoTurn
      BY <1>i, <2>1, <3>3 DEF AdmissionsFollowTurns
    <3> QED
      BY SMTT(30), <1>t, <3>1, <3>2, <3>3 DEF TypeOK
  <2> QED
    BY <2>2, <2>3 DEF AdmissionsFollowTurns, Stored
<1>9. \A k \in StopKeys :
            IF stopTurn[k] \in Turns /\ stopTurn[k][1] = s
            THEN stopTurn'[k] = NoTurn /\ stopOutcome'[k] = "none"
            ELSE stopTurn'[k] = stopTurn[k] /\ stopOutcome'[k] = stopOutcome[k]
  BY DEF delete_session_metadata
<1>10. StopsFollowTurns'
  BY SMTT(30), <1>i, <1>t, <1>2, <1>9 DEF StopsFollowTurns, Stored, TypeOK
<1>11. StoppedByOneRequest'
  <2>1. ASSUME NEW t \in Turns
        PROVE  turnState'[t] = "stopped" <=>
                 \E k \in StopKeys : stopTurn'[k] = t /\ stopOutcome'[k] = "stopped"
    <3>1. CASE t[1] = s
      BY SMTT(30), <1>2, <1>9, <3>1 DEF Stored
    <3>2. CASE t[1] # s
      BY SMTT(30), <1>i, <1>2, <1>9, <3>2 DEF StoppedByOneRequest
    <3> QED
      BY <3>1, <3>2
  <2>2. \A j, k \in StopKeys :
          stopOutcome'[j] = "stopped" /\ stopOutcome'[k] = "stopped" /\ stopTurn'[j] = stopTurn'[k] => j = k
    BY SMTT(30), <1>i, <1>9 DEF StoppedByOneRequest
  <2>3. ASSUME NEW k \in StopKeys, stopOutcome'[k] = "already_terminal"
        PROVE  Terminal(stopTurn[k])'
    <3>1. ~(stopTurn[k] \in Turns /\ stopTurn[k][1] = s) /\ stopOutcome[k] = "already_terminal"
          /\ stopTurn'[k] = stopTurn[k]
      BY <1>9, <2>3
    <3>2. stopTurn[k] \in Turns /\ Terminal(stopTurn[k])
      BY SMTT(30), <1>i, <1>t, <3>1 DEF StopsFollowTurns, StoppedByOneRequest, TypeOK
    <3>3. turnState'[stopTurn[k]] = turnState[stopTurn[k]]
      BY <1>2, <3>1, <3>2
    <3> QED
      BY <3>1, <3>2, <3>3 DEF Terminal
  <2> QED
    BY <2>1, <2>2, <2>3 DEF StoppedByOneRequest, Terminal
<1>12. CancelledNeverAdmitted'
  <2>1. \A k \in AdmissionKeys : admissionTurn'[k] \in {NoTurn, admissionTurn[k]}
    BY DEF delete_session_metadata
  <2> QED
    BY <1>i, <1>3, <2>1 DEF CancelledNeverAdmitted
<1> QED
  BY <1>5, <1>6, <1>7, <1>8, <1>10, <1>11, <1>12 DEF StoreInv

\* A lifecycle commit ends or moves an active Turn, and never stops one.
LEMMA LifecycleInv ==
    ASSUME StoreInv, TypeOK', NEW t \in Turns, NEW to \in TurnTransitions,
           commit_lifecycle(t, CurrentRevisions(t), to)
    PROVE  StoreInv'
<1>i. /\ TypeOK /\ LeaseMatchesTurn /\ MaintenanceExclusive /\ SessionShape /\ AdmissionsFollowTurns
      /\ StopsFollowTurns /\ StoppedByOneRequest /\ CancelledNeverAdmitted
  BY DEF StoreInv
<1>t. TypeOK
  BY <1>i
<1>1. to \in TurnStates /\ to # "starting" /\ to # "stopped" /\ Active(t)
  BY DEF commit_lifecycle, transition_allowed, TurnTransitions, TurnStates, ActiveStates,
         TerminalStates, Active
<1>2. ChangeTurn(t, to) /\ UNCHANGED <<refVars, stopVars, cancellation>>
  BY DEF commit_lifecycle, ChangeTurn
<1>3. turnState' = [turnState EXCEPT ![t] = to]
  BY <1>2 DEF ChangeTurn, commit_turn_state
<1>4. UNCHANGED <<stopTurn, stopOutcome>>
  BY <1>2 DEF stopVars
<1>5. StopsFollowTurns'
  BY SMTT(40), <1>i, <1>t, <1>1, <1>3, <1>4 DEF StopsFollowTurns, Stored, TypeOK
<1>6. StoppedByOneRequest'
  <2>1. turnState[t] # "stopped" /\ ~Terminal(t)
    BY <1>1 DEF Active, Terminal, ActiveStates, TerminalStates
  <2>2. \A k \in StopKeys : stopOutcome[k] = "already_terminal" =>
            stopTurn[k] # t /\ stopTurn[k] \in Turns
    BY SMTT(30), <1>i, <1>t, <2>1 DEF StopsFollowTurns, StoppedByOneRequest, TypeOK
  <2>3. turnState'[t] # "stopped" /\ \A u \in Turns : u # t => turnState'[u] = turnState[u]
    BY <1>t, <1>1, <1>3 DEF TypeOK
  <2> QED
    BY SMTT(30), <1>i, <1>4, <2>1, <2>2, <2>3 DEF StoppedByOneRequest, Terminal
<1>7. CancelledNeverAdmitted'
  BY <1>i, <1>2 DEF CancelledNeverAdmitted, ChangeTurn, update_turn_idempotency
<1> QED
  BY <1>1, <1>2, <1>5, <1>6, <1>7, ChangeTurnInv DEF StoreInv

\* Recording a stop request, or completing one whose Turn has ended, changes
\* nothing but the record.
LEMMA BeginStopInv ==
    ASSUME StoreInv, TypeOK', NEW k \in StopKeys, NEW t \in Turns,
           begin_stop_new(k, t) \/ begin_stop_resume(k, t)
    PROVE  StoreInv'
<1>i. /\ TypeOK /\ LeaseMatchesTurn /\ MaintenanceExclusive /\ SessionShape /\ AdmissionsFollowTurns
      /\ StopsFollowTurns /\ StoppedByOneRequest /\ CancelledNeverAdmitted
  BY DEF StoreInv
<1> USE TurnParts
<1>t. TypeOK
  BY <1>i
<1>1. UNCHANGED <<leaseVars, turnVars, refVars, admissionVars, cancellation>>
  BY DEF begin_stop_new, begin_stop_resume
<1>2. /\ stopOutcome[k] # "stopped" /\ stopOutcome[k] # "already_terminal"
      /\ stopTurn'[k] = t /\ Stored(t)
      /\ stopOutcome'[k] \in {"pending", "already_terminal"}
      /\ stopOutcome'[k] = "already_terminal" => Terminal(t)
  <2>1. CASE begin_stop_new(k, t)
    BY <1>i, <1>t, <2>1 DEF begin_stop_new, StopsFollowTurns, TypeOK
  <2>2. CASE begin_stop_resume(k, t)
    BY <1>t, <2>2 DEF begin_stop_resume, complete_stop_idempotency, TypeOK
  <2> QED
    BY <2>1, <2>2
<1>3. \A j \in StopKeys : j # k => stopTurn'[j] = stopTurn[j] /\ stopOutcome'[j] = stopOutcome[j]
  BY SMTT(30), <1>t DEF begin_stop_new, begin_stop_resume, complete_stop_idempotency, TypeOK
<1>4. StopsFollowTurns'
  BY <1>i, <1>1, <1>2, <1>3 DEF StopsFollowTurns, Stored, turnVars
<1>5. StoppedByOneRequest'
  BY SMTT(30), <1>i, <1>1, <1>2, <1>3 DEF StoppedByOneRequest, Terminal, turnVars
<1>6. /\ LeaseMatchesTurn' /\ MaintenanceExclusive' /\ SessionShape'
      /\ AdmissionsFollowTurns' /\ CancelledNeverAdmitted'
  BY SMTT(30), <1>i, <1>1 DEF LeaseMatchesTurn, MaintenanceExclusive, SessionShape, AdmissionsFollowTurns,
              CancelledNeverAdmitted, RecordsOf, Active, Stored, Terminal, TurnBinding,
              leaseVars, turnVars, admissionVars
<1> QED
  BY <1>4, <1>5, <1>6 DEF StoreInv

\* Confirming a stop: one request is recorded as having stopped a Turn, in the
\* step that ends the Turn.
LEMMA ConfirmStopInv ==
    ASSUME StoreInv, TypeOK', NEW k \in StopKeys, NEW t \in Turns, NEW observation \in StopObservations,
           confirm_stop_change(k, t, CurrentRevisions(t), observation)
    PROVE  StoreInv'
<1>i. /\ TypeOK /\ LeaseMatchesTurn /\ MaintenanceExclusive /\ SessionShape /\ AdmissionsFollowTurns
      /\ StopsFollowTurns /\ StoppedByOneRequest /\ CancelledNeverAdmitted
  BY DEF StoreInv
<1> USE TurnParts, StateKinds
<1> DEFINE to == StopTarget(observation)
<1>t. TypeOK
  BY <1>i
<1>1. to \in {"stopped", "running", "recovery_pending"}
  BY DEF StopTarget, StopObservations
<1>2. /\ Active(t) /\ stopTurn[k] = t /\ stopOutcome[k] = "pending"
      /\ ChangeTurn(t, to)
      /\ stopTurn' = stopTurn
      /\ stopOutcome' = [stopOutcome EXCEPT ![k] = IF to = "stopped" THEN "stopped" ELSE "not_confirmed"]
      /\ cancellation' = cancellation
  BY DEF confirm_stop_change, complete_stop_idempotency, ChangeTurn
<1>3. /\ LeaseMatchesTurn' /\ MaintenanceExclusive' /\ SessionShape' /\ AdmissionsFollowTurns'
  BY <1>1, <1>2, ChangeTurnInv
<1>4. turnState'[t] = to /\ \A u \in Turns : u # t => turnState'[u] = turnState[u]
  BY SMTT(30), <1>t, <1>2 DEF ChangeTurn, commit_turn_state, TypeOK
<1>5. /\ stopOutcome'[k] = IF to = "stopped" THEN "stopped" ELSE "not_confirmed"
      /\ \A j \in StopKeys : j # k => stopOutcome'[j] = stopOutcome[j]
  BY SMTT(30), <1>t, <1>2 DEF TypeOK
<1>6. StopsFollowTurns'
  <2>1. \A j \in StopKeys : stopTurn[j] \in Turns \cup {NoTurn}
    BY <1>t DEF TypeOK
  <2> QED
    BY SMTT(30), <1>i, <1>1, <1>2, <1>4, <1>5, <2>1 DEF StopsFollowTurns, Stored
<1>7. StoppedByOneRequest'
  <2>1. turnState[t] # "stopped" /\ ~Terminal(t)
    BY <1>2 DEF Active, Terminal
  <2>2. \A j \in StopKeys : stopTurn[j] = t => stopOutcome[j] # "stopped" /\ stopOutcome[j] # "already_terminal"
    BY SMTT(40), <1>i, <2>1 DEF StoppedByOneRequest
  <2>3. \A j \in StopKeys : stopOutcome[j] = "already_terminal" => stopTurn[j] \in Turns
    BY SMTT(30), <1>i, <1>t DEF StopsFollowTurns, TypeOK
  <2>4. ASSUME NEW u \in Turns
        PROVE  turnState'[u] = "stopped" <=>
                 \E j \in StopKeys : stopTurn'[j] = u /\ stopOutcome'[j] = "stopped"
    <3>1. CASE u = t
      BY SMTT(30), <1>1, <1>2, <1>4, <1>5, <2>2, <3>1
    <3>2. CASE u # t
      BY SMTT(30), <1>i, <1>2, <1>4, <1>5, <3>2 DEF StoppedByOneRequest
    <3> QED
      BY <3>1, <3>2
  <2>5. \A i, j \in StopKeys :
          stopOutcome'[i] = "stopped" /\ stopOutcome'[j] = "stopped" /\ stopTurn'[i] = stopTurn'[j] => i = j
    BY SMTT(30), <1>i, <1>2, <1>5, <2>2 DEF StoppedByOneRequest
  <2>6. \A j \in StopKeys : stopOutcome'[j] = "already_terminal" => Terminal(stopTurn[j])'
    BY SMTT(30), <1>i, <1>2, <1>4, <1>5, <2>2, <2>3 DEF StoppedByOneRequest, Terminal
  <2> QED
    BY <2>4, <2>5, <2>6 DEF StoppedByOneRequest, Terminal
<1>8. CancelledNeverAdmitted'
  BY <1>i, <1>2 DEF CancelledNeverAdmitted, ChangeTurn, update_turn_idempotency
<1> QED
  BY <1>3, <1>6, <1>7, <1>8 DEF StoreInv

\* A stop that leaves the Turn as it is only completes its record.
LEMMA RetainStopInv ==
    ASSUME StoreInv, TypeOK', NEW k \in StopKeys, NEW t \in Turns, NEW observation \in StopObservations,
           confirm_stop_retain(k, t, CurrentRevisions(t), observation)
    PROVE  StoreInv'
<1>i. /\ TypeOK /\ LeaseMatchesTurn /\ MaintenanceExclusive /\ SessionShape /\ AdmissionsFollowTurns
      /\ StopsFollowTurns /\ StoppedByOneRequest /\ CancelledNeverAdmitted
  BY DEF StoreInv
<1> USE TurnParts, StateKinds
<1> DEFINE b == TurnBinding(t)
<1>t. TypeOK
  BY <1>i
<1>1. /\ Active(t) /\ stopTurn[k] = t
      /\ UNCHANGED <<turnVars, refVars, admissionVars, cancellation>>
      /\ stopOutcome[k] = "pending" /\ stopTurn' = stopTurn
      /\ stopOutcome' = [stopOutcome EXCEPT ![k] = "not_confirmed"]
  BY DEF confirm_stop_retain, complete_stop_idempotency
<1>2. turnState[t] \notin TerminalStates
  BY <1>1 DEF Active
<1>3. /\ leaseState' = [leaseState EXCEPT ![b] =
                IF turnState[t] = "recovery_pending" THEN "recovery_pending" ELSE "active"]
      /\ UNCHANGED <<ownerKind, leaseTurn, maintenance, postcheck>>
  BY <1>2 DEF confirm_stop_retain, synchronize_control_lease
<1>4. leaseTurn[b] = t
  BY <1>i, <1>1 DEF LeaseMatchesTurn
<1>5. \A c \in Bindings : leaseTurn[c] # NoTurn =>
        (leaseState'[c] = "recovery_pending" <=> turnState[leaseTurn[c]] = "recovery_pending")
  BY SMTT(30), <1>i, <1>t, <1>3, <1>4 DEF LeaseMatchesTurn, TypeOK, LeaseTypeOK
<1>6. LeaseMatchesTurn' /\ MaintenanceExclusive'
  BY SMTT(40), <1>i, <1>1, <1>3, <1>5 DEF LeaseMatchesTurn, MaintenanceExclusive, Active, TurnBinding, turnVars
<1>7. StopsFollowTurns'
  BY <1>i, <1>t, <1>1 DEF StopsFollowTurns, Stored, turnVars, TypeOK
<1>8. StoppedByOneRequest'
  BY SMTT(30), <1>i, <1>t, <1>1 DEF StoppedByOneRequest, Terminal, turnVars, TypeOK
<1>9. SessionShape' /\ AdmissionsFollowTurns' /\ CancelledNeverAdmitted'
  BY SMTT(30), <1>i, <1>1 DEF SessionShape, AdmissionsFollowTurns, CancelledNeverAdmitted, RecordsOf,
              Stored, Terminal, turnVars, admissionVars
<1> QED
  BY <1>6, <1>7, <1>8, <1>9 DEF StoreInv

\* Every transaction preserves the invariant.
LEMMA StoreStep ==
    ASSUME StoreInv, [Next]_vars
    PROVE  StoreInv'
<1>i. /\ TypeOK /\ LeaseMatchesTurn /\ MaintenanceExclusive /\ SessionShape /\ AdmissionsFollowTurns
      /\ StopsFollowTurns /\ StoppedByOneRequest /\ CancelledNeverAdmitted
  BY DEF StoreInv
<1>t. TypeOK'
  BY <1>i, TypeStep
<1>1. ASSUME NEW k \in AdmissionKeys, NEW s \in Sessions,
             begin_session(k, s) \/ begin_follow_up(k, s, sessionRev[s])
      PROVE  StoreInv'
  BY <1>t, <1>1, AdmissionFacts, AdmissionInv
<1>l. ASSUME UNCHANGED <<leaseVars, turnVars>>
      PROVE  LeaseMatchesTurn' /\ MaintenanceExclusive'
  BY <1>i, <1>l DEF LeaseMatchesTurn, MaintenanceExclusive, Active, TurnBinding, leaseVars, turnVars
<1>r. ASSUME UNCHANGED <<turnVars, admissionVars, stopVars>>
      PROVE  SessionShape' /\ AdmissionsFollowTurns' /\ StopsFollowTurns' /\ StoppedByOneRequest'
  <2>u. UNCHANGED turnState /\ UNCHANGED turnRev /\ UNCHANGED turnCount
    BY <1>r DEF turnVars
  <2>1. SessionShape'
    BY ZenonT(30), <1>i, <2>u DEF SessionShape, Stored, Terminal
  <2>2. AdmissionsFollowTurns'
    BY <1>i, <1>r DEF AdmissionsFollowTurns, RecordsOf, Stored, turnVars, admissionVars
  <2>3. StopsFollowTurns' /\ StoppedByOneRequest'
    BY <1>i, <1>r DEF StopsFollowTurns, StoppedByOneRequest, Stored, Terminal, turnVars, stopVars
  <2> QED BY <2>1, <2>2, <2>3
<1>2. ASSUME UNCHANGED <<leaseVars, turnVars, admissionVars, stopVars, cancellation>>
      PROVE  StoreInv'
  <2>1. CancelledNeverAdmitted'
    BY <1>i, <1>2 DEF CancelledNeverAdmitted, admissionVars
  <2> QED BY <1>t, <1>2, <1>l, <1>r, <2>1 DEF StoreInv
<1>3. ASSUME NEW s \in Sessions, NEW r \in ThreadRefs, record_thread_ref(s, r)
      PROVE  StoreInv'
  BY <1>2, <1>3 DEF record_thread_ref
<1>4. ASSUME NEW t \in Turns, NEW r \in TurnRefs, record_turn_ref(t, r)
      PROVE  StoreInv'
  BY <1>2, <1>4 DEF record_turn_ref
<1>5. CASE OperationalStep /\ UNCHANGED storeVars
  <2>0. UNCHANGED <<turnVars, admissionVars, stopVars, cancellation>>
    BY <1>5 DEF storeVars
  <2>1. LeaseMatchesTurn' /\ MaintenanceExclusive'
    BY <1>i, <1>5, <2>0, OperationalInv DEF turnVars
  <2>2. CancelledNeverAdmitted'
    BY <1>i, <2>0 DEF CancelledNeverAdmitted, admissionVars
  <2> QED BY <1>t, <1>r, <2>0, <2>1, <2>2 DEF StoreInv
<1>6. ASSUME NEW k \in AdmissionKeys,
             \/ \E outcome \in Cancellations, reconciled \in BOOLEAN :
                    record_admission_cancellation_inner(k, outcome, reconciled)
             \/ prune_expired_admission_cancellation(k)
      PROVE  StoreInv'
  <2>1. UNCHANGED <<leaseVars, turnVars, admissionVars, stopVars>>
    BY <1>6 DEF record_admission_cancellation_inner, prune_expired_admission_cancellation
  <2>2. CancelledNeverAdmitted'
    BY <1>i, <1>6 DEF CancelledNeverAdmitted, TypeOK, admissionVars,
                record_admission_cancellation_inner, prune_expired_admission_cancellation
  <2> QED
    BY <1>t, <1>l, <1>r, <2>1, <2>2 DEF StoreInv
<1>7. CASE UNCHANGED vars
  BY <1>2, <1>7 DEF vars, storeVars
<1>8. CASE TurnStep
  BY <1>t, <1>1, <1>3, <1>4, <1>8, LifecycleInv, BeginStopInv, ConfirmStopInv, RetainStopInv DEF TurnStep
<1>9. CASE mark_restart_recovery_pending
  BY <1>t, <1>9, RestartInv
<1>10. ASSUME NEW s \in Sessions, delete_session_metadata(s)
       PROVE  StoreInv'
  BY <1>t, <1>10, DeleteInv
<1> QED
  BY <1>5, <1>6, <1>7, <1>8, <1>9, <1>10 DEF Next

\* The empty store satisfies it.
LEMMA StoreStart == Init => StoreInv
<1> SUFFICES ASSUME Init PROVE StoreInv
  OBVIOUS
<1> USE DEF Init, LeaseInit
<1>1. TypeOK
  BY SMTT(30), MaxRevisionAssumption, MaxTurnsAssumption DEF TypeOK, LeaseTypeOK, Revisions
<1>2. LeaseMatchesTurn /\ MaintenanceExclusive
  BY TurnParts, StateKinds DEF LeaseMatchesTurn, MaintenanceExclusive, Active
<1>3. SessionShape
  BY SMTT(30), TurnParts, StateKinds, MaxTurnsAssumption DEF SessionShape, Stored, Terminal
<1>4. AdmissionsFollowTurns /\ StopsFollowTurns /\ StoppedByOneRequest /\ CancelledNeverAdmitted
  BY TurnParts, StateKinds
     DEF AdmissionsFollowTurns, StopsFollowTurns, StoppedByOneRequest, CancelledNeverAdmitted, Stored
<1> QED
  BY <1>1, <1>2, <1>3, <1>4 DEF StoreInv

\* It holds after every sequence of transactions.
LEMMA StoreInvariant == Spec => []StoreInv
<1>1. StoreInv /\ [Next]_vars => StoreInv'
  BY StoreStep
<1> QED
  BY <1>1, StoreStart, PTL DEF Spec

\* Turns that have not ended and control leases held by Turns correspond, and
\* agree on waiting for recovery, after every sequence of transactions.
THEOREM LeaseOwnership == Spec => []LeaseMatchesTurn
  BY StoreInvariant, PTL DEF StoreInv

\* Two Turns that have not ended never share a desktop binding.
THEOREM DesktopExclusion == Spec => []OneActiveTurnPerDesktop
<1>1. StoreInv => OneActiveTurnPerDesktop
  BY SMTT(30) DEF StoreInv, LeaseMatchesTurn, OneActiveTurnPerDesktop
<1> QED
  BY <1>1, StoreInvariant, PTL

\* Maintenance excludes every other use of every desktop.
THEOREM MaintenanceExclusion == Spec => []MaintenanceExclusive
  BY StoreInvariant, PTL DEF StoreInv

\* Every Turn has exactly one admission record with its state, and no record
\* outlives its Turn.
THEOREM RecordOwnership == Spec => []RecordsFollowTurns
<1>1. StoreInv => RecordsFollowTurns
  BY DEF StoreInv, RecordsFollowTurns
<1> QED
  BY <1>1, StoreInvariant, PTL

\* A Turn is stopped exactly when exactly one stop request says so.
THEOREM StopAttribution == Spec => []StoppedByOneRequest
  BY StoreInvariant, PTL DEF StoreInv

\* A key cancelled before admission is never admitted.
THEOREM CancellationRespected == Spec => []CancelledNeverAdmitted
  BY StoreInvariant, PTL DEF StoreInv
=============================================================================
