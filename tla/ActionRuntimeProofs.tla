------------------------- MODULE ActionRuntimeProofs -------------------------
(***************************************************************************)
(* Proofs about ActionRuntime that hold for any number of ticks of every   *)
(* kind: its type, and that no handler runs for an action nobody let       *)
(* through.                                                                *)
(***************************************************************************)
EXTENDS ActionRuntimeInv, SequenceTheorems, TLAPS

-----------------------------------------------------------------------------
(* Attempt histories.                                                       *)

(* Closing an attempt, whatever its number, leaves a history of the same    *)
(* length: terminalizeActionAttempt updates by attempt_id.                  *)
LEMMA ReplaceAttempt ==
  ASSUME NEW S, NEW s \in Seq(S), NEW x \in S, NEW k
  PROVE  /\ [s EXCEPT ![k] = x] \in Seq(S)
         /\ Len([s EXCEPT ![k] = x]) = Len(s)
         /\ \A n \in 1 .. Len(s) :
              [s EXCEPT ![k] = x][n] = IF n = k THEN x ELSE s[n]
<1>1. CASE k \in 1 .. Len(s)
  BY <1>1, ExceptSeq
<1>2. CASE k \notin 1 .. Len(s)
  <2>1. DOMAIN s = 1 .. Len(s) /\ s \in [1 .. Len(s) -> S]
    BY LenProperties
  <2>2. [s EXCEPT ![k] = x] = s
    BY <1>2, <2>1
  <2>3. QED
    BY <1>2, <2>2
<1>3. QED
  BY <1>1, <1>2

-----------------------------------------------------------------------------
(* Type correctness.                                                        *)

LEMMA TransitionType ==
  ASSUME NEW from, NEW to, CanTransition(from, to)
  PROVE  from \in ActionStatuses /\ to \in ActionStatuses
<1>1. from \in ActiveStatuses /\ to \in LegalTransitions[from]
  BY DEF CanTransition
<1>2. from \in {"PROPOSED", "APPROVED", "SCHEDULED", "RUNNING"}
  BY <1>1 DEF ActiveStatuses
<1>3. \A s \in {"PROPOSED", "APPROVED", "SCHEDULED", "RUNNING"} :
        LegalTransitions[s] \subseteq ActionStatuses
  BY DEF LegalTransitions, ActionStatuses, ActiveStatuses, TerminalStatuses
<1>4. QED
  BY <1>1, <1>2, <1>3 DEF ActionStatuses, ActiveStatuses

LEMMA InitTypeOK == Init => TypeOK
<1> SUFFICES ASSUME Init PROVE TypeOK
  OBVIOUS
<1>1. attempts \in [Actions -> Seq(AttemptOutcomes)]
  BY EmptySeq DEF Init
<1>2. QED
  BY <1>1, RuntimeAssumption DEF Init, TypeOK, NoOrigin, IdleReq, RequestStates, RequestOps,
                                 ReconcilerStates

(* A request's state changes field by field.                                *)
LEMMA RequestStateUpdate ==
  ASSUME NEW q \in RequestStates, NEW o \in RequestOps, NEW b \in BOOLEAN
  PROVE  /\ [q EXCEPT !.op = o] \in RequestStates
         /\ [q EXCEPT !.op = o, !.promotes = b] \in RequestStates
         /\ IdleReq \in RequestStates
         /\ \A e \in Entities, a \in Actions :
              [IdleReq EXCEPT !.op = o, !.who = e, !.act = a] \in RequestStates
BY DEF RequestStates, IdleReq, RequestOps

(* The status a row is created with is one of the ten.                      *)
LEMMA CreatedStatusType ==
  ASSUME NEW d \in Decisions, NEW t
  PROVE  CreatedStatus(d, t) \in {"APPROVED", "REJECTED", "PROPOSED"}
<1>1. CASE d = "AUTO_APPROVE"
  BY <1>1 DEF CreatedStatus
<1>2. CASE d = "FORBIDDEN"
  BY <1>2 DEF CreatedStatus
<1>3. CASE d = "REQUIRE_BREAK_GLASS"
  BY <1>3 DEF CreatedStatus
<1>4. CASE d = "REQUIRE_DUAL_CONTROL"
  BY <1>4 DEF CreatedStatus
<1>5. QED
  BY <1>1, <1>2, <1>3, <1>4 DEF Decisions

(* Every step of every process keeps every variable in its type; that a     *)
(* tick driving something drives an action is needed for it.                *)
LEMMA NextTypeOK == TypeOK /\ WorkerShape /\ [Next]_vars => TypeOK'
<1> SUFFICES ASSUME TypeOK, WorkerShape, [Next]_vars PROVE TypeOK'
  OBVIOUS
<1> USE DEF TypeOK, ReconcilerStates
<1>1. ASSUME NEW e \in Entities, NEW a \in Actions, NEW d \in Decisions,
             NEW t \in Entities \cup {NoEntity}, Create(e, a, d, t)
      PROVE  TypeOK'
  <2>1. CreatedStatus(d, t) \in ActionStatuses
    BY CreatedStatusType DEF ActionStatuses, ActiveStatuses, TerminalStatuses
  <2>2. QED
    BY <1>1, <2>1 DEF Create, reqVars, workerVars, reconVars
<1>2. ASSUME NEW r \in Requests, NEW e \in Entities, NEW a \in Actions,
             NEW v \in Verdicts, ResolveRead(r, e, a, v)
      PROVE  TypeOK'
  BY <1>2 DEF ResolveRead, escVars, workerVars, reconVars, RequestStates, RequestOps
<1>3. ASSUME NEW r \in Requests, NEW e \in Entities, NEW a \in Actions,
             CancelRead(r, e, a)
      PROVE  TypeOK'
  BY <1>3, RequestStateUpdate
  DEF CancelRead, escVars, workerVars, reconVars, RequestOps
<1>4. ASSUME NEW r \in Requests, NEW e \in Entities, NEW a \in Actions,
             RunningCancelCheck(r, e, a)
      PROVE  TypeOK'
  BY <1>4, RequestStateUpdate
  DEF RunningCancelCheck, escVars, workerVars, reconVars, RequestOps
<1>5. ASSUME NEW r \in Requests, ResolveLock(r)
      PROVE  TypeOK'
  <2>1. [req[r] EXCEPT !.op = "locked",
                       !.promotes = (status[req[r].act] = "PROPOSED")]
          \in RequestStates
    BY RequestStateUpdate DEF RequestOps
  <2>2. QED
    BY <1>5, <2>1 DEF ResolveLock, escVars, workerVars, reconVars
<1>6. ASSUME NEW r \in Requests, ResolveCommit(r)
      PROVE  TypeOK'
  <2>1. /\ IdleReq \in RequestStates
        /\ req[r].who \in Entities \cup {NoEntity}
    BY DEF RequestStates, RequestOps, IdleReq
  <2>2. /\ status' \in [Actions -> ActionStatuses \cup {"NONE"}]
        /\ approvedBy' \in [Actions -> Entities \cup {NoEntity}]
    <3>1. CASE req[r].promotes
      <4>1. Transition(req[r].act, "PROPOSED", req[r].verdict)
        BY <1>6, <3>1 DEF ResolveCommit
      <4>2. req[r].verdict \in ActionStatuses
        BY <4>1, TransitionType DEF Transition
      <4>3. QED
        <5>1. status' \in [Actions -> ActionStatuses \cup {"NONE"}]
          BY <4>1, <4>2 DEF Transition
        <5>2. CASE req[r].verdict = "APPROVED"
          BY <1>6, <2>1, <3>1, <5>1, <5>2 DEF ResolveCommit
        <5>3. CASE req[r].verdict # "APPROVED"
          BY <1>6, <3>1, <5>1, <5>3 DEF ResolveCommit
        <5>4. QED
          BY <5>2, <5>3
    <3>2. CASE ~ req[r].promotes
      BY <1>6, <3>2 DEF ResolveCommit
    <3>3. QED
      BY <3>1, <3>2
  <2>3. escalation' \in [Actions -> {"NONE", "PENDING"} \cup Verdicts]
    BY <1>6 DEF ResolveCommit, RequestStates
  <2>4. QED
    BY <1>6, <2>1, <2>2, <2>3 DEF ResolveCommit, workerVars, reconVars
<1>7. ASSUME NEW r \in Requests, CancelCommit(r)
      PROVE  TypeOK'
  BY <1>7, RequestStateUpdate
  DEF CancelCommit, escVars, workerVars, reconVars, RequestOps, ActionStatuses,
      TerminalStatuses
<1>8. ASSUME NEW r \in Requests, MarkUsedRead(r)
      PROVE  TypeOK'
  <2>1. req' \in [Requests -> RequestStates]
    BY <1>8, RequestStateUpdate DEF MarkUsedRead, RequestOps
  <2>2. QED
    BY <1>8, <2>1 DEF MarkUsedRead, escVars, workerVars, reconVars
<1>9. ASSUME NEW r \in Requests, MarkUsedCommit(r)
      PROVE  TypeOK'
  BY <1>9, RequestStateUpdate
  DEF MarkUsedCommit, escVars, workerVars, reconVars, RequestOps
<1>10. ASSUME NEW r \in Requests, RunningCancelRead(r)
      PROVE  TypeOK'
  <2>1. req' \in [Requests -> RequestStates]
    BY <1>10, RequestStateUpdate DEF RunningCancelRead, RequestOps
  <2>2. QED
    BY <1>10, <2>1 DEF RunningCancelRead, escVars, workerVars, reconVars
<1>11. ASSUME NEW s \in Schedulers, AdmitRead(s)
      PROVE  TypeOK'
  BY <1>11 DEF AdmitRead, escVars, reqVars, workerVars, reconVars
<1>12. ASSUME NEW s \in Schedulers, AdmitCommit(s)
      PROVE  TypeOK'
  BY <1>12 DEF AdmitCommit, escVars, reqVars, workerVars, reconVars,
               ActionStatuses, ActiveStatuses
<1>13. ASSUME NEW w \in Workers, NEW S \in SUBSET Actions, Claim(w, S)
      PROVE  TypeOK'
  BY <1>13 DEF Claim, Claimable, escVars, reqVars, reconVars, ActionStatuses, ActiveStatuses
<1>14. ASSUME NEW w \in Workers, NEW a \in Actions, OpenAttempt(w, a)
      PROVE  /\ attempts' \in [Actions -> Seq(AttemptOutcomes)]
             /\ slot' \in [Workers -> Nat]
  <2>1. /\ Append(attempts[a], "OPEN") \in Seq(AttemptOutcomes)
        /\ Len(attempts[a]) + 1 \in Nat
    BY AppendProperties, LenProperties DEF AttemptOutcomes
  <2>2. QED
    BY <1>14, <2>1 DEF OpenAttempt
<1>15. ASSUME NEW w \in Workers, NEW a \in Actions, StartAction(w, a)
      PROVE  TypeOK'
  BY <1>14, <1>15 DEF StartAction, OpenAttempt, escVars, reqVars, reconVars
<1>16. ASSUME NEW w \in Workers, RetryAttempt(w)
      PROVE  TypeOK'
  <2>1. cur[w] \in Actions
    BY <1>16 DEF RetryAttempt, WorkerShape, Driving
  <2>2. OpenAttempt(w, cur[w])
    BY <1>16 DEF RetryAttempt
  <2>3. /\ attempts' \in [Actions -> Seq(AttemptOutcomes)]
        /\ slot' \in [Workers -> Nat]
    BY <1>14, <2>1, <2>2
  <2>4. tries' \in [Workers -> Nat]
    BY <1>16 DEF RetryAttempt
  <2>5. QED
    BY <1>16, <2>3, <2>4
    DEF RetryAttempt, OpenAttempt, escVars, reqVars, reconVars
<1>17. ASSUME NEW w \in Workers, NEW o \in ClosedOutcomes, Settle(w, o)
      PROVE  TypeOK'
  <2>1. /\ cur[w] \in Actions
        /\ o \in AttemptOutcomes
    BY <1>17 DEF Settle, AfterAttempt, WorkerShape, Driving, AttemptOutcomes
  <2>2. [attempts[cur[w]] EXCEPT ![slot[w]] = o] \in Seq(AttemptOutcomes)
    BY <2>1, ReplaceAttempt
  <2>3. attempts' \in [Actions -> Seq(AttemptOutcomes)]
    BY <1>17, <2>1, <2>2 DEF Settle, AfterAttempt
  <2>4. QED
    BY <1>17, <2>3 DEF Settle, AfterAttempt, escVars, reqVars, reconVars
<1>18. ASSUME NEW w \in Workers, FinishRead(w)
      PROVE  TypeOK'
  <2>1. CASE status[cur[w]] = "RUNNING"
    BY <1>18, <2>1 DEF FinishRead, escVars, reqVars, reconVars
  <2>2. CASE status[cur[w]] # "RUNNING"
    <3>1. LeaveAction(w)
      BY <1>18, <2>2 DEF FinishRead
    <3>2. /\ wpc' \in [Workers -> {"idle", "claimed", "handling", "retry",
                                   "finish", "write", "next"}]
          /\ queue' \in [Workers -> SUBSET Actions]
          /\ cur' \in [Workers -> Actions \cup {NoAction}]
          /\ tries' \in [Workers -> Nat]
          /\ slot' \in [Workers -> Nat]
      BY <3>1 DEF LeaveAction
    <3>3. QED
      BY <1>18, <3>2 DEF FinishRead, escVars, reqVars, reconVars
  <2>3. QED
    BY <2>1, <2>2
<1>19. ASSUME NEW w \in Workers, FinishCommit(w)
      PROVE  TypeOK'
  <2>1. LastResult(w) \in ActionStatuses
    BY <1>19, TransitionType DEF FinishCommit, Transition
  <2>2. QED
    BY <1>19, <2>1
    DEF FinishCommit, Transition, LeaveAction, escVars, reqVars, reconVars
<1>20. ASSUME NEW w \in Workers, WorkerDies(w)
      PROVE  TypeOK'
  BY <1>20 DEF WorkerDies, escVars, reqVars, reconVars
<1>21. ASSUME NEW r \in Reconcilers, NEW a \in Actions,
             NEW n \in DOMAIN attempts[a], ListStale(r, a, n)
      PROVE  TypeOK'
  <2>1. n \in Nat
    BY LenProperties
  <2>2. QED
    BY <1>21, <2>1 DEF ListStale, escVars, reqVars, workerVars
<1>22. ASSUME NEW r \in Reconcilers, CloseStale(r)
      PROVE  TypeOK'
  <2>1. attempts' \in [Actions -> Seq(AttemptOutcomes)]
    <3>1. CASE ract[r] \in Actions
      <4>1. [attempts[ract[r]] EXCEPT ![rslot[r]] = "TIMED_OUT"]
              \in Seq(AttemptOutcomes)
        BY <3>1, ReplaceAttempt DEF AttemptOutcomes, ClosedOutcomes
      <4>2. QED
        BY <1>22, <3>1, <4>1 DEF CloseStale, StaleOutcome
    <3>2. CASE ract[r] \notin Actions
      BY <1>22, <3>2 DEF CloseStale, StaleOutcome
    <3>3. QED
      BY <3>1, <3>2
  <2>2. QED
    BY <1>22, <2>1 DEF CloseStale, StaleOutcome, escVars, reqVars, workerVars
<1>23. ASSUME NEW r \in Reconcilers, ReconcileRead(r)
      PROVE  TypeOK'
  <2>1. CASE status[ract[r]] = "RUNNING"
    BY <1>23, <2>1 DEF ReconcileRead, AfterStale, ReconcileReread, escVars, reqVars, workerVars
  <2>2. CASE status[ract[r]] # "RUNNING"
    <3>1. RestReconciler(r)
      BY <1>23, <2>2 DEF ReconcileRead, AfterStale
    <3>2. /\ rpc' \in [Reconcilers -> ReconcilerStates]
          /\ ract' \in [Reconcilers -> Actions \cup {NoAction}]
          /\ rslot' \in [Reconcilers -> Nat]
      BY <3>1 DEF RestReconciler
    <3>3. QED
      BY <1>23, <3>2 DEF ReconcileRead, AfterStale, ReconcileReread, escVars, reqVars, workerVars
  <2>3. QED
    BY <2>1, <2>2
<1>33. ASSUME NEW r \in Reconcilers, ReconcileReread(r)
      PROVE  TypeOK'
  <2>1. CASE status[ract[r]] = "RUNNING"
    BY <1>33, <2>1 DEF ReconcileReread, escVars, reqVars, workerVars
  <2>2. CASE status[ract[r]] # "RUNNING"
    <3>1. RestReconciler(r)
      BY <1>33, <2>2 DEF ReconcileReread
    <3>2. /\ rpc' \in [Reconcilers -> ReconcilerStates]
          /\ ract' \in [Reconcilers -> Actions \cup {NoAction}]
          /\ rslot' \in [Reconcilers -> Nat]
      BY <3>1 DEF RestReconciler
    <3>3. QED
      BY <1>33, <3>2 DEF ReconcileReread, escVars, reqVars, workerVars
  <2>3. QED
    BY <2>1, <2>2
<1>24. ASSUME NEW r \in Reconcilers, RequeueCommit(r)
      PROVE  TypeOK'
  BY <1>24 DEF RequeueCommit, RestReconciler, Transition, escVars, reqVars,
               workerVars, ActionStatuses, ActiveStatuses
<1>25. ASSUME NEW r \in Reconcilers, NEW a \in Actions, PromoteOrphanRead(r, a)
      PROVE  TypeOK'
  BY <1>25 DEF PromoteOrphanRead, escVars, reqVars, workerVars
<1>26. ASSUME NEW r \in Reconcilers, TimeOutCommit(r)
      PROVE  TypeOK'
  BY <1>26 DEF TimeOutCommit, RestReconciler, Transition, escVars, reqVars,
               workerVars, ActionStatuses, TerminalStatuses
<1>27. ASSUME NEW r \in Reconcilers, ReconcilerDies(r)
      PROVE  TypeOK'
  BY <1>27 DEF ReconcilerDies, RestReconciler, escVars, reqVars, workerVars
<1>28. ASSUME UNCHANGED vars
      PROVE  TypeOK'
  BY <1>28 DEF vars
<1>29. ASSUME NEW r \in Requests, RequestStep(r)
      PROVE  TypeOK'
  BY <1>5, <1>6, <1>7, <1>8, <1>9, <1>10, <1>29 DEF RequestStep
<1>30. ASSUME NEW w \in Workers, WorkerStep(w)
      PROVE  TypeOK'
  BY <1>15, <1>16, <1>17, <1>18, <1>19, <1>30 DEF WorkerStep
<1>31. ASSUME NEW r \in Reconcilers, ReconcilerStep(r)
      PROVE  TypeOK'
  BY <1>21, <1>22, <1>23, <1>24, <1>25, <1>26, <1>31, <1>33 DEF ReconcilerStep
<1> HIDE DEF TypeOK, ReconcilerStates
<1>32. QED
  BY <1>1, <1>2, <1>3, <1>4, <1>11, <1>12, <1>13, <1>20, <1>27, <1>28, <1>29,
     <1>30, <1>31
  DEF Next

(* Only a tick that drives an action is in the middle of one, and it no     *)
(* longer queues it.                                                        *)
LEMMA NextWorkerShape == TypeOK /\ WorkerShape /\ [Next]_vars => WorkerShape'
<1> SUFFICES ASSUME TypeOK, WorkerShape, [Next]_vars PROVE WorkerShape'
  OBVIOUS
<1>1. ASSUME NEW w \in Workers, NEW S \in SUBSET Actions, Claim(w, S)
      PROVE  WorkerShape'
  BY <1>1 DEF Claim, Claimable, TypeOK, WorkerShape, Driving
<1>2. ASSUME NEW w \in Workers, NEW a \in Actions, StartAction(w, a)
      PROVE  WorkerShape'
  BY <1>2 DEF StartAction, OpenAttempt, TypeOK, WorkerShape, Driving
<1>3. ASSUME NEW w \in Workers, RetryAttempt(w)
      PROVE  WorkerShape'
  BY <1>3 DEF RetryAttempt, OpenAttempt, TypeOK, WorkerShape, Driving
<1>4. ASSUME NEW w \in Workers, NEW o \in ClosedOutcomes, Settle(w, o)
      PROVE  WorkerShape'
  BY <1>4 DEF Settle, AfterAttempt, TypeOK, WorkerShape, Driving
<1>5. ASSUME NEW w \in Workers, LeaveAction(w)
      PROVE  WorkerShape'
  BY <1>5 DEF LeaveAction, TypeOK, WorkerShape, Driving
<1>6. ASSUME NEW w \in Workers, FinishRead(w)
      PROVE  WorkerShape'
  <2>1. CASE status[cur[w]] = "RUNNING"
    BY <1>6, <2>1 DEF FinishRead, TypeOK, WorkerShape, Driving
  <2>2. CASE status[cur[w]] # "RUNNING"
    BY <1>5, <1>6, <2>2 DEF FinishRead
  <2>3. QED
    BY <2>1, <2>2
<1>7. ASSUME NEW w \in Workers, FinishCommit(w)
      PROVE  WorkerShape'
  BY <1>5, <1>7 DEF FinishCommit
<1>8. ASSUME NEW w \in Workers, WorkerDies(w)
      PROVE  WorkerShape'
  BY <1>8 DEF WorkerDies, TypeOK, WorkerShape, Driving
<1>9. ASSUME UNCHANGED workerVars
      PROVE  WorkerShape'
  BY <1>9 DEF workerVars, WorkerShape
<1>10. ASSUME NEW w \in Workers, WorkerStep(w)
      PROVE  WorkerShape'
  BY <1>2, <1>3, <1>4, <1>6, <1>7, <1>10 DEF WorkerStep
<1>11. ASSUME NEW r \in Requests, RequestStep(r)
      PROVE  UNCHANGED workerVars
  BY <1>11 DEF RequestStep, ResolveLock, ResolveCommit, CancelCommit,
               MarkUsedRead, MarkUsedCommit, RunningCancelRead
<1>12. ASSUME NEW r \in Reconcilers, ReconcilerStep(r) \/ ReconcilerDies(r)
      PROVE  UNCHANGED workerVars
  BY <1>12 DEF ReconcilerStep, ListStale, CloseStale, StaleOutcome, ReconcileRead, AfterStale, ReconcileReread,
               RequeueCommit, PromoteOrphanRead, TimeOutCommit, ReconcilerDies
<1>13. ASSUME \/ \E e \in Entities, a \in Actions, d \in Decisions,
                     t \in Entities \cup {NoEntity} : Create(e, a, d, t)
              \/ \E r \in Requests, e \in Entities, a \in Actions :
                    \/ \E v \in Verdicts : ResolveRead(r, e, a, v)
                    \/ CancelRead(r, e, a)
                    \/ RunningCancelCheck(r, e, a)
              \/ \E s \in Schedulers : AdmitRead(s) \/ AdmitCommit(s)
              \/ UNCHANGED vars
      PROVE  UNCHANGED workerVars
  BY <1>13 DEF Create, ResolveRead, CancelRead, RunningCancelCheck, AdmitRead,
               AdmitCommit, vars, workerVars
<1>14. QED
  BY <1>1, <1>8, <1>9, <1>10, <1>11, <1>12, <1>13 DEF Next

(* Every variable always has its type, for every number of actions,         *)
(* entities, requests and ticks, and every budget.                          *)
THEOREM TypeCorrect == Spec => []TypeOK
<1>1. Init => TypeOK /\ WorkerShape
  BY InitTypeOK DEF Init, WorkerShape, Driving
<1>2. TypeOK /\ WorkerShape /\ [Next]_vars => (TypeOK /\ WorkerShape)'
  BY NextTypeOK, NextWorkerShape
<1>3. QED
  BY <1>1, <1>2, PTL DEF Spec

-----------------------------------------------------------------------------
(* Approval.  The argument follows the approval (approvedBy) from the       *)
(* transaction that records it to the attempts opened under it.             *)

(* Creation: the evaluator's approval, or none yet.                         *)
LEMMA CreateApproval ==
  ASSUME TypeOK, WorkerShape, ApprovalInv,
         NEW e \in Entities, NEW a \in Actions, NEW d \in Decisions,
         NEW t \in Entities \cup {NoEntity}, Create(e, a, d, t)
  PROVE  ApprovalInv'
<1> USE DEF TypeOK, ApprovalInv
<1>1. /\ origin[a] = NoOrigin /\ escalation[a] = "NONE"
      /\ approvedBy[a] = NoEntity /\ attempts[a] = <<>>
  BY DEF Create, RowShape, ApprovalRecorded
<1>2. CreatedStatus(d, t) \in {"APPROVED", "REJECTED", "PROPOSED"}
  BY CreatedStatusType
<1>3. CreatedStatus(d, t) = "APPROVED" => d = "AUTO_APPROVE"
  BY DEF CreatedStatus, Decisions
<1>4. /\ \A b \in Actions \ {a} : /\ status'[b] = status[b]
                                  /\ origin'[b] = origin[b]
                                  /\ escalation'[b] = escalation[b]
                                  /\ approvedBy'[b] = approvedBy[b]
      /\ status'[a] = CreatedStatus(d, t)
      /\ origin'[a] = [source |-> e, decision |-> d, target |-> t]
      /\ escalation'[a] = IF t = NoEntity THEN "NONE" ELSE "PENDING"
      /\ approvedBy'[a] = IF d = "AUTO_APPROVE" THEN e ELSE NoEntity
  BY DEF Create
<1>5. UNCHANGED <<attempts, req, batch, queue, cur, rpc, ract>>
  BY DEF Create, reqVars, workerVars, reconVars
<1>6. RowShape'
  BY <1>2, <1>4 DEF Create, RowShape
<1>7. ResolveShape'
  <2>1. ASSUME NEW q \in Requests, req[q].op \in {"resolve", "locked"}
        PROVE  req[q].act \in Actions \ {a}
    BY <1>1, <2>1 DEF ResolveShape, NoOrigin
  <2>2. QED
    BY <1>4, <1>5, <2>1 DEF ResolveShape
<1>8. ApprovalValid'
  <2>1. ASSUME NEW b \in Actions \ {a}, approvedBy'[b] # NoEntity
        PROVE  \/ origin'[b].decision = "AUTO_APPROVE"
               \/ /\ origin'[b].decision = "REQUIRE_DUAL_CONTROL"
                  /\ approvedBy'[b] # origin'[b].source
    BY <1>4, <2>1 DEF ApprovalValid
  <2>2. approvedBy'[a] # NoEntity => origin'[a].decision = "AUTO_APPROVE"
    BY <1>4
  <2>3. QED
    BY <2>1, <2>2 DEF ApprovalValid
<1>9. ApprovalRecorded'
  <2>1. \A b \in Actions \ {a} :
          /\ status'[b] \in {"APPROVED", "SCHEDULED", "RUNNING"} =>
               approvedBy'[b] # NoEntity
          /\ approvedBy'[b] = NoEntity => attempts'[b] = <<>>
    BY <1>4, <1>5 DEF ApprovalRecorded
  <2>2. status'[a] \in {"APPROVED", "SCHEDULED", "RUNNING"} =>
          approvedBy'[a] # NoEntity
    BY <1>2, <1>3, <1>4, RuntimeAssumption
  <2>3. attempts'[a] = <<>>
    BY <1>1, <1>5
  <2>4. QED
    BY <2>1, <2>2, <2>3 DEF ApprovalRecorded
<1>10. CarriedApproved'
  BY <1>1, <1>4, <1>5 DEF CarriedApproved
<1>11. QED
  BY <1>6, <1>7, <1>8, <1>9, <1>10

(* Resolution: the approval is the target's, who is not the source; the     *)
(* status follows the verdict.                                              *)
LEMMA ResolveApproval ==
  ASSUME TypeOK, WorkerShape, ApprovalInv,
         NEW r \in Requests, ResolveCommit(r)
  PROVE  ApprovalInv'
<1> USE DEF TypeOK, ApprovalInv
<1> DEFINE a == req[r].act
<1>1. /\ a \in Actions
      /\ req[r].who \in Entities
      /\ req[r].who # origin[a].source
      /\ origin[a].decision = "REQUIRE_DUAL_CONTROL"
      /\ req[r].verdict \in Verdicts
  BY DEF ResolveCommit, ResolveShape
<1>2. /\ \A b \in Actions \ {a} : /\ status'[b] = status[b]
                                  /\ escalation'[b] = escalation[b]
                                  /\ approvedBy'[b] = approvedBy[b]
      /\ approvedBy'[a] \in {approvedBy[a], req[r].who}
      /\ \/ status'[a] = status[a]
         \/ status'[a] = "REJECTED"
         \/ status'[a] = "APPROVED" /\ approvedBy'[a] = req[r].who
  <2>1. CASE req[r].promotes /\ req[r].verdict = "APPROVED"
    BY <1>1, <2>1 DEF ResolveCommit, Transition
  <2>2. CASE req[r].promotes /\ req[r].verdict = "REJECTED"
    BY <1>1, <2>2 DEF ResolveCommit, Transition
  <2>3. CASE ~ req[r].promotes
    BY <1>1, <2>3 DEF ResolveCommit
  <2>4. QED
    BY <1>1, <2>1, <2>2, <2>3 DEF Verdicts
<1>3. /\ req' = [req EXCEPT ![r] = IdleReq]
      /\ UNCHANGED <<origin, attempts, batch, queue, cur, rpc, ract>>
  BY DEF ResolveCommit, workerVars, reconVars
<1>4. req[r].who # NoEntity
  BY <1>1, RuntimeAssumption
<1>5. RowShape'
  BY <1>1, <1>2, <1>3 DEF RowShape, NoOrigin
<1>6. ResolveShape'
  BY <1>3 DEF ResolveShape, IdleReq
<1>7. ApprovalValid'
  BY <1>1, <1>2, <1>3 DEF ApprovalValid
<1>8. ApprovalRecorded'
  BY <1>2, <1>3, <1>4 DEF ApprovalRecorded
<1>9. CarriedApproved'
  BY <1>2, <1>3, <1>4 DEF CarriedApproved
<1>10. QED
  BY <1>5, <1>6, <1>7, <1>8, <1>9

(* What a step that records no approval may do: rows keep their origin and  *)
(* approval and do not disappear, and only an approved action is admitted,  *)
(* claimed, requeued or attempted.                                          *)
ApprovalFrame ==
  /\ UNCHANGED <<origin, approvedBy, escalation>>
  /\ \A a \in Actions :
       /\ \/ status'[a] = status[a]
          \/ /\ status'[a] # "NONE"
             /\ status'[a] \in {"APPROVED", "SCHEDULED", "RUNNING"} =>
                  approvedBy[a] # NoEntity
       /\ attempts'[a] = <<>> \/ approvedBy[a] # NoEntity

LEMMA FrameApproval ==
  ASSUME TypeOK, ApprovalInv, ApprovalFrame
  PROVE  RowShape' /\ ApprovalValid' /\ ApprovalRecorded'
BY DEF TypeOK, ApprovalInv, ApprovalFrame, RowShape, ApprovalValid, ApprovalRecorded

(* The other steps of an API request.                                       *)
LEMMA RequestApproval ==
  ASSUME TypeOK, ApprovalInv, NEW r \in Requests,
         \/ \E e \in Entities, a \in Actions :
              \/ \E v \in Verdicts : ResolveRead(r, e, a, v)
              \/ CancelRead(r, e, a)
              \/ RunningCancelCheck(r, e, a)
         \/ ResolveLock(r) \/ CancelCommit(r)
         \/ MarkUsedRead(r) \/ MarkUsedCommit(r) \/ RunningCancelRead(r)
  PROVE  ApprovalInv'
<1> USE DEF TypeOK, ApprovalInv
<1>1. UNCHANGED <<origin, approvedBy, escalation, attempts, batch, queue, cur,
                  rpc, ract>>
  BY DEF ResolveRead, CancelRead, RunningCancelCheck, ResolveLock, CancelCommit,
         MarkUsedRead, MarkUsedCommit, RunningCancelRead, escVars, workerVars,
         reconVars
<1>2. \A a \in Actions : status'[a] \in {status[a], "CANCELLED"}
  BY DEF ResolveRead, CancelRead, RunningCancelCheck, ResolveLock, CancelCommit,
         MarkUsedRead, MarkUsedCommit, RunningCancelRead
<1>3. ApprovalFrame
  BY <1>1, <1>2 DEF ApprovalFrame, ApprovalRecorded
<1>4. ResolveShape'
  <2>1. CASE \E e \in Entities, a \in Actions, v \in Verdicts :
               ResolveRead(r, e, a, v)
    BY <1>1, <2>1 DEF ResolveRead, ResolveShape, RowShape
  <2>2. CASE ResolveLock(r)
    BY <1>1, <2>2 DEF ResolveLock, ResolveShape, RequestStates
  <2>3. ASSUME NEW x, x.op \notin {"resolve", "locked"},
               req' = [req EXCEPT ![r] = x]
        PROVE  ResolveShape'
    BY <1>1, <2>3 DEF ResolveShape
  <2>4. \A o \in RequestOps : [req[r] EXCEPT !.op = o].op = o
    BY DEF RequestStates
  <2>5. CASE \E e \in Entities, a \in Actions : CancelRead(r, e, a)
    BY <2>3, <2>5 DEF CancelRead, IdleReq
  <2>6. CASE \E e \in Entities, a \in Actions : RunningCancelCheck(r, e, a)
    BY <2>3, <2>6 DEF RunningCancelCheck, IdleReq
  <2>7. CASE CancelCommit(r)
    BY <2>3, <2>7 DEF CancelCommit, IdleReq
  <2>8. CASE MarkUsedRead(r)
    BY <2>3, <2>4, <2>8 DEF MarkUsedRead, IdleReq, RequestOps
  <2>9. CASE MarkUsedCommit(r)
    BY <2>3, <2>4, <2>9 DEF MarkUsedCommit, RequestOps
  <2>10. CASE RunningCancelRead(r)
    BY <2>3, <2>4, <2>10 DEF RunningCancelRead, IdleReq, RequestOps
  <2>11. QED
    BY <2>1, <2>2, <2>5, <2>6, <2>7, <2>8, <2>9, <2>10
<1>5. CarriedApproved'
  BY <1>1 DEF CarriedApproved
<1>6. QED
  BY <1>3, <1>4, <1>5, FrameApproval

(* Admission and claim pass the approval on.                                *)
LEMMA ClaimApproval ==
  ASSUME TypeOK, WorkerShape, ApprovalInv,
         \/ \E s \in Schedulers : AdmitRead(s) \/ AdmitCommit(s)
         \/ \E w \in Workers, S \in SUBSET Actions : Claim(w, S)
  PROVE  ApprovalInv'
<1> USE DEF TypeOK, ApprovalInv
<1>1. UNCHANGED <<origin, approvedBy, escalation, attempts, req, cur, rpc, ract>>
  BY DEF AdmitRead, AdmitCommit, Claim, Claimable, escVars, reqVars, workerVars, reconVars
<1>2. ApprovalFrame
  BY <1>1 DEF AdmitRead, AdmitCommit, Claim, Claimable, ApprovalFrame, ApprovalRecorded,
              CarriedApproved
<1>3. ResolveShape'
  BY <1>1 DEF ResolveShape
<1>4. CarriedApproved'
  <2>1. ASSUME NEW s \in Schedulers, AdmitRead(s)
        PROVE  CarriedApproved'
    <3>1. batch' = [batch EXCEPT ![s] = {a \in Actions : status[a] = "APPROVED"}]
      BY <2>1 DEF AdmitRead
    <3>2. queue' = queue
      BY <2>1 DEF AdmitRead, workerVars
    <3>3. ASSUME NEW t \in Schedulers, NEW a \in batch'[t]
          PROVE  approvedBy[a] # NoEntity
      <4>1. CASE t = s
        BY <3>1, <3>3, <4>1 DEF ApprovalRecorded
      <4>2. CASE t # s
        BY <3>1, <3>3, <4>2 DEF CarriedApproved
      <4>3. QED
        BY <4>1, <4>2
    <3>4. \A t \in Schedulers : \A a \in batch'[t] : approvedBy'[a] # NoEntity
      BY <1>1, <3>3
    <3>5. QED
      BY <1>1, <3>2, <3>4 DEF CarriedApproved
  <2>3. ASSUME NEW s \in Schedulers, AdmitCommit(s)
        PROVE  CarriedApproved'
    <3>1. /\ batch' = [batch EXCEPT ![s] = {}]
          /\ queue' = queue
      BY <2>3 DEF AdmitCommit, workerVars
    <3>2. QED
      BY <1>1, <3>1 DEF CarriedApproved
  <2>2. CASE \E w \in Workers, S \in SUBSET Actions : Claim(w, S)
    BY <1>1, <2>2 DEF Claim, Claimable, ApprovalRecorded, CarriedApproved
  <2>4. QED
    BY <2>1, <2>2, <2>3
<1>5. QED
  BY <1>2, <1>3, <1>4, FrameApproval

(* An executor tick drives what it claimed.                                 *)
LEMMA WorkerApproval ==
  ASSUME TypeOK, WorkerShape, ApprovalInv,
         NEW w \in Workers, WorkerStep(w) \/ WorkerDies(w)
  PROVE  ApprovalInv'
<1> USE DEF TypeOK, ApprovalInv
<1>1. UNCHANGED <<origin, approvedBy, escalation, req, batch, rpc, ract>>
  BY DEF WorkerStep, WorkerDies, StartAction, RetryAttempt, OpenAttempt, Settle, AfterAttempt,
         FinishRead, FinishCommit, LastResult, escVars, reqVars, reconVars
<1>2. /\ \A v \in Workers : queue'[v] \subseteq queue[v]
      /\ \A v \in Workers : cur'[v] \in {cur[v], NoAction} \cup queue[v]
  <2>1. CASE \E a \in Actions : StartAction(w, a)
    BY <2>1 DEF StartAction, OpenAttempt
  <2>2. CASE LeaveAction(w)
    BY <2>2 DEF LeaveAction
  <2>3. CASE WorkerDies(w)
    BY <2>3 DEF WorkerDies
  <2>4. CASE UNCHANGED <<queue, cur>>
    BY <2>4
  <2>5. QED
    BY <2>1, <2>2, <2>3, <2>4
    DEF WorkerStep, RetryAttempt, Settle, FinishRead, FinishCommit
<1>3. \A a \in Actions : attempts'[a] # attempts[a] =>
        a = cur[w] \/ a \in queue[w]
  BY DEF WorkerStep, WorkerDies, StartAction, RetryAttempt, OpenAttempt, Settle, AfterAttempt,
         FinishRead, FinishCommit, LastResult
<1>4. \A a \in Actions : status'[a] # status[a] =>
        /\ status'[a] \in ActionStatuses
        /\ a = cur[w]
  <2>1. CASE FinishCommit(w)
    BY <2>1, TransitionType DEF FinishCommit, Transition
  <2>2. CASE ~ FinishCommit(w)
    BY <2>2 DEF WorkerStep, WorkerDies, StartAction, RetryAttempt, OpenAttempt,
                Settle, AfterAttempt, FinishRead
  <2>3. QED
    BY <2>1, <2>2
<1>5. ApprovalFrame
  BY <1>1, <1>3, <1>4 DEF ApprovalFrame, ApprovalRecorded, CarriedApproved,
                          ActionStatuses, ActiveStatuses, TerminalStatuses
<1>6. ResolveShape'
  BY <1>1 DEF ResolveShape
<1>7. CarriedApproved'
  BY <1>1, <1>2, RuntimeAssumption DEF CarriedApproved
<1>8. QED
  BY <1>5, <1>6, <1>7, FrameApproval

(* The reconciler closes attempts and requeues what was RUNNING.            *)
LEMMA ReconcilerApproval ==
  ASSUME TypeOK, ApprovalInv,
         NEW r \in Reconcilers, ReconcilerStep(r) \/ ReconcilerDies(r)
  PROVE  ApprovalInv'
<1> USE DEF TypeOK, ApprovalInv
<1>1. UNCHANGED <<origin, approvedBy, escalation, req, batch, queue, cur>>
  BY DEF ReconcilerStep, ReconcilerDies, ListStale, CloseStale, StaleOutcome, ReconcileRead, AfterStale, ReconcileReread,
         RequeueCommit, PromoteOrphanRead, TimeOutCommit, escVars, reqVars,
         workerVars
<1>2. \A a \in Actions : attempts[a] = <<>> => attempts'[a] = <<>>
  <2>1. CASE CloseStale(r)
    <3>1. ASSUME attempts[ract[r]] = <<>>
          PROVE  [attempts[ract[r]] EXCEPT ![rslot[r]] = "TIMED_OUT"] = <<>>
      BY <3>1
    <3>2. QED
      BY <2>1, <3>1 DEF CloseStale, StaleOutcome
  <2>2. CASE ~ CloseStale(r)
    BY <2>2 DEF ReconcilerStep, ReconcilerDies, ListStale, ReconcileRead, AfterStale, ReconcileReread,
         RequeueCommit, PromoteOrphanRead, TimeOutCommit
  <2>3. QED
    BY <2>1, <2>2
<1>3. \A a \in Actions : status'[a] # status[a] =>
        \/ status'[a] = "TIMED_OUT"
        \/ status'[a] = "SCHEDULED" /\ approvedBy[a] # NoEntity
  BY DEF ReconcilerStep, ReconcilerDies, ListStale, CloseStale, StaleOutcome, ReconcileRead, AfterStale, ReconcileReread,
         RequeueCommit, PromoteOrphanRead, TimeOutCommit, Transition,
         CarriedApproved
<1>4. ApprovalFrame
  BY <1>1, <1>2, <1>3 DEF ApprovalFrame, ApprovalRecorded
<1>5. ResolveShape'
  BY <1>1 DEF ResolveShape
<1>6. CarriedApproved'
  <2>1. \A q \in Reconcilers \ {r} : rpc'[q] = rpc[q] /\ ract'[q] = ract[q]
    BY DEF ReconcilerStep, ReconcilerDies, ListStale, CloseStale, StaleOutcome, ReconcileRead, AfterStale, ReconcileReread,
           RequeueCommit, PromoteOrphanRead, TimeOutCommit, RestReconciler
  <2>2. CASE rpc'[r] # "idle" /\ ract'[r] = ract[r] /\ rpc[r] # "idle"
    BY <1>1, <2>1, <2>2 DEF CarriedApproved
  <2>3. ASSUME NEW a \in Actions, NEW n \in DOMAIN attempts[a], ListStale(r, a, n)
        PROVE  ract'[r] = a /\ approvedBy[a] # NoEntity
    <3>1. attempts[a] # <<>>
      BY EmptySeq
    <3>2. QED
      BY <2>3, <3>1 DEF ListStale, ApprovalRecorded
  <2>4. ASSUME NEW a \in Actions, PromoteOrphanRead(r, a)
        PROVE  ract'[r] = a /\ approvedBy[a] # NoEntity
    BY <2>4 DEF PromoteOrphanRead, ApprovalRecorded
  <2>5. CASE (\E a \in Actions : \E n \in DOMAIN attempts[a] : ListStale(r, a, n))
             \/ \E a \in Actions : PromoteOrphanRead(r, a)
    BY <1>1, <2>1, <2>3, <2>4, <2>5 DEF CarriedApproved
  <2>6. CASE rpc'[r] = "idle"
    BY <1>1, <2>1, <2>6 DEF CarriedApproved
  <2>7. CASE CloseStale(r)
    BY <2>2, <2>7 DEF CloseStale
  <2>8. CASE ReconcileRead(r) \/ ReconcileReread(r)
    <3>1. RestReconciler(r) => rpc'[r] = "idle"
      BY DEF RestReconciler
    <3>2. AfterStale(ract[r]) # "idle"
      BY DEF AfterStale
    <3>3. QED
      BY <2>2, <2>6, <2>8, <3>1, <3>2 DEF ReconcileRead, ReconcileReread
  <2>9. CASE RequeueCommit(r) \/ TimeOutCommit(r) \/ ReconcilerDies(r)
    BY <2>6, <2>9 DEF RequeueCommit, TimeOutCommit, ReconcilerDies, RestReconciler
  <2>10. QED
    BY <2>5, <2>7, <2>8, <2>9 DEF ReconcilerStep
<1>7. QED
  BY <1>4, <1>5, <1>6, FrameApproval

(* The inductive step.                                                      *)
LEMMA NextApproval ==
  TypeOK /\ WorkerShape /\ ApprovalInv /\ [Next]_vars => ApprovalInv'
<1> SUFFICES ASSUME TypeOK, WorkerShape, ApprovalInv, [Next]_vars
             PROVE  ApprovalInv'
  OBVIOUS
<1>1. ASSUME NEW r \in Requests, RequestStep(r)
      PROVE  ApprovalInv'
  BY <1>1, ResolveApproval, RequestApproval DEF RequestStep
<1>2. ASSUME NEW r \in Requests, NEW e \in Entities, NEW a \in Actions,
             \/ \E v \in Verdicts : ResolveRead(r, e, a, v)
             \/ CancelRead(r, e, a)
             \/ RunningCancelCheck(r, e, a)
      PROVE  ApprovalInv'
  BY <1>2, RequestApproval
<1>3. ASSUME UNCHANGED vars
      PROVE  ApprovalInv'
  BY <1>3 DEF vars, ApprovalInv, RowShape, ResolveShape, ApprovalValid,
              ApprovalRecorded, CarriedApproved
<1>4. QED
  BY <1>1, <1>2, <1>3, CreateApproval, ClaimApproval, WorkerApproval,
     ReconcilerApproval
  DEF Next

(* An attempt exists only under an approval of the evaluator or of a person *)
(* other than the source, whatever the number of processes.                 *)
THEOREM OnlyAuthorisedExecution == Spec => []AuthorisedExecution
<1>1. Init => TypeOK /\ WorkerShape /\ ApprovalInv
  <2> SUFFICES ASSUME Init PROVE TypeOK /\ WorkerShape /\ ApprovalInv
    OBVIOUS
  <2>1. TypeOK /\ WorkerShape
    BY InitTypeOK DEF Init, WorkerShape, Driving
  <2>2. RowShape /\ ResolveShape
    BY DEF Init, NoOrigin, IdleReq, RowShape, ResolveShape
  <2>3. ApprovalValid /\ ApprovalRecorded
    BY DEF Init, ApprovalValid, ApprovalRecorded
  <2>4. CarriedApproved
    BY RuntimeAssumption DEF Init, CarriedApproved
  <2>5. QED
    BY <2>1, <2>2, <2>3, <2>4 DEF ApprovalInv
<1>2. TypeOK /\ WorkerShape /\ ApprovalInv /\ [Next]_vars
        => (TypeOK /\ WorkerShape /\ ApprovalInv)'
  BY NextTypeOK, NextWorkerShape, NextApproval
<1>3. ApprovalInv => AuthorisedExecution
  BY DEF ApprovalInv, ApprovalValid, ApprovalRecorded, AuthorisedExecution
<1>4. QED
  BY <1>1, <1>2, <1>3, PTL DEF Spec
=============================================================================
