------------------------ MODULE ActionExecutionProofs ------------------------
(***************************************************************************)
(* Execution is serial, bounded and ends in the outcome of its last        *)
(* attempt, except on the actions two ticks of one kind overlapped on, and *)
(* the attempt history implements GovernedExecution: for any number of     *)
(* requests, admission, executor and reconciler ticks at a time.           *)
(***************************************************************************)
EXTENDS ActionRuntimeProofs

-----------------------------------------------------------------------------
(* Attempt histories.                                                       *)

Opened(a) == attempts'[a] = Append(attempts[a], "OPEN")

Ended(a, n, o) ==
  /\ n \in DOMAIN attempts[a]
  /\ attempts[a][n] = "OPEN"
  /\ attempts'[a] = [attempts[a] EXCEPT ![n] = o]

LEMMA HistoryShape ==
  ASSUME TypeOK, NEW a \in Actions
  PROVE  /\ attempts[a] \in Seq(AttemptOutcomes)
         /\ Len(attempts[a]) \in Nat /\ DOMAIN attempts[a] = 1 .. Len(attempts[a])
         /\ attempts[a] = <<>> <=> Len(attempts[a]) = 0
         /\ \A n \in 1 .. Len(attempts[a]) : attempts[a][n] \in AttemptOutcomes
<1>1. attempts[a] \in Seq(AttemptOutcomes)
  BY DEF TypeOK
<1>2. QED
  BY <1>1, LenProperties, EmptySeq, ElementOfSeq

LEMMA OpenedShape ==
  ASSUME TypeOK, NEW a \in Actions, Opened(a)
  PROVE  /\ Len(attempts'[a]) = Len(attempts[a]) + 1
         /\ DOMAIN attempts'[a] = 1 .. (Len(attempts[a]) + 1)
         /\ attempts'[a] # <<>>
         /\ \A n \in 1 .. Len(attempts[a]) : attempts'[a][n] = attempts[a][n]
         /\ attempts'[a][Len(attempts[a]) + 1] = "OPEN"
<1>1. attempts[a] \in Seq(AttemptOutcomes) /\ "OPEN" \in AttemptOutcomes
  BY HistoryShape DEF AttemptOutcomes
<1>2. /\ attempts'[a] \in Seq(AttemptOutcomes)
      /\ Len(attempts'[a]) = Len(attempts[a]) + 1
      /\ \A n \in 1 .. Len(attempts[a]) : attempts'[a][n] = attempts[a][n]
      /\ attempts'[a][Len(attempts[a]) + 1] = "OPEN"
  BY <1>1, AppendProperties DEF Opened
<1>3. DOMAIN attempts'[a] = 1 .. (Len(attempts[a]) + 1) /\ Len(attempts[a]) \in Nat
  BY <1>1, <1>2, LenProperties
<1>4. attempts'[a] # <<>>
  BY <1>2, <1>3, EmptySeq
<1>5. QED
  BY <1>2, <1>3, <1>4

LEMMA EndedShape ==
  ASSUME TypeOK, NEW a \in Actions, NEW n, NEW o \in ClosedOutcomes, Ended(a, n, o)
  PROVE  /\ Len(attempts'[a]) = Len(attempts[a])
         /\ DOMAIN attempts'[a] = 1 .. Len(attempts[a])
         /\ attempts'[a] # <<>> /\ Len(attempts[a]) \in Nat \ {0}
         /\ n \in 1 .. Len(attempts[a])
         /\ \A k \in 1 .. Len(attempts[a]) :
              attempts'[a][k] = IF k = n THEN o ELSE attempts[a][k]
<1>1. attempts[a] \in Seq(AttemptOutcomes) /\ o \in AttemptOutcomes
  BY HistoryShape DEF AttemptOutcomes
<1>2. /\ attempts'[a] \in Seq(AttemptOutcomes)
      /\ Len(attempts'[a]) = Len(attempts[a])
      /\ \A k \in 1 .. Len(attempts[a]) :
           attempts'[a][k] = IF k = n THEN o ELSE attempts[a][k]
  BY <1>1, ReplaceAttempt DEF Ended
<1>3. n \in 1 .. Len(attempts[a]) /\ Len(attempts[a]) \in Nat \ {0}
  BY HistoryShape DEF Ended
<1>4. DOMAIN attempts'[a] = 1 .. Len(attempts[a])
  BY <1>2, LenProperties
<1>5. attempts'[a] # <<>>
  BY <1>2, <1>3, EmptySeq
<1>6. QED
  BY <1>2, <1>3, <1>4, <1>5

LEMMA CleanShape ==
  ASSUME NEW a
  PROVE  Clean(a) <=> \A n \in DOMAIN attempts[a] : attempts[a][n] \in {"FAILED", "TIMED_OUT"}
BY DEF Clean, Governed!Attemptable

-----------------------------------------------------------------------------
(* What holds whatever overlaps.                                            *)

(* A step that opens and closes no attempt and starts no handler.           *)
LEMMA HandlerFrame ==
  ASSUME HandlerAlone, attempts' = attempts,
         \A w \in Workers : wpc'[w] = "handling" =>
           wpc[w] = "handling" /\ cur'[w] = cur[w] /\ slot'[w] = slot[w],
         \A r \in Reconcilers : rpc'[r] = "close" =>
           rpc[r] = "close" /\ ract'[r] = ract[r] /\ rslot'[r] = rslot[r]
  PROVE  HandlerAlone'
BY DEF HandlerAlone, Handled

(* A tick that takes nothing new into its hands keeps it apart.             *)
LEMMA TicksFrame ==
  ASSUME TicksApart, raced \subseteq raced',
         \A s \in Schedulers : batch'[s] \subseteq batch[s],
         \A r \in Reconcilers : rpc'[r] # "idle" =>
           rpc[r] # "idle" /\ ract'[r] = ract[r]
  PROVE  TicksApart'
<1>1. \A s, t \in Schedulers : s # t => batch'[s] \cap batch'[t] \subseteq raced'
  BY DEF TicksApart
<1>2. \A r, q \in Reconcilers :
        r # q /\ rpc'[r] # "idle" /\ rpc'[q] # "idle" /\ ract'[r] = ract'[q] =>
          ract'[r] \in raced'
  BY DEF TicksApart
<1>3. QED
  BY <1>1, <1>2 DEF TicksApart

-----------------------------------------------------------------------------
(* Resolution: what creates, cancels and resolves leaves execution alone.   *)

(* Only the status of an action without approval changes other than to      *)
(* CANCELLED.                                                               *)
OutsideExecution ==
  /\ UNCHANGED <<attempts, batch, workerVars, reconVars, raced>>
  /\ \A a \in Actions :
       /\ approvedBy[a] # NoEntity => approvedBy'[a] # NoEntity
       /\ \/ status'[a] \in {status[a], "CANCELLED"}
          \/ /\ approvedBy[a] = NoEntity
             /\ status'[a] \in {"PROPOSED", "APPROVED", "REJECTED"}

LEMMA OutsideInvariant ==
  ASSUME TypeOK, ApprovalInv, ExecutionInv, OutsideExecution
  PROVE  ExecutionInv'
<1> USE DEF ExecutionInv, ApprovalInv, Unraced
<1>1. /\ attempts' = attempts /\ batch' = batch /\ wpc' = wpc /\ queue' = queue /\ cur' = cur
      /\ tries' = tries /\ slot' = slot /\ rpc' = rpc /\ ract' = ract /\ rslot' = rslot
      /\ raced' = raced
  BY DEF OutsideExecution, workerVars, reconVars
<1>2. /\ \A w \in Workers : Driven(w)' = Driven(w)
      /\ \A a \in Actions : /\ Undriven(a)' <=> Undriven(a)
                            /\ Unread(a)' <=> Unread(a)
                            /\ Clean(a)' <=> Clean(a)
                            /\ Startable(a)' <=> Startable(a)
  BY <1>1 DEF Driven, Undriven, Unread, Clean, Governed!Attemptable, Startable
<1>3. ASSUME NEW a \in Actions, approvedBy[a] # NoEntity
      PROVE  status'[a] \in {status[a], "CANCELLED"} /\ approvedBy'[a] # NoEntity
  BY <1>3 DEF OutsideExecution
<1>4. \A a \in Actions : attempts[a] # <<>> => approvedBy[a] # NoEntity
  BY DEF ApprovalRecorded
<1>5. \A w \in Workers : \A a \in Driven(w) : a \in Actions /\ approvedBy[a] # NoEntity
  BY DEF Driven, CarriedApproved, TypeOK
<1>6. BatchFresh'
  BY <1>1, <1>3 DEF BatchFresh, CarriedApproved, TypeOK
<1>7. DrivenClaimed'
  BY <1>1, <1>2, <1>3, <1>5 DEF DrivenClaimed, Settled, TerminalStatuses
<1>8. SingleDriver'
  BY <1>1, <1>2 DEF SingleDriver
<1>9. OpenIsLast'
  <2>1. ASSUME NEW a \in Unraced, NEW n \in DOMAIN attempts[a], attempts[a][n] = "OPEN"
        PROVE  status'[a] \in Settled
    <3>1. attempts[a] # <<>>
      BY <2>1, HistoryShape
    <3>2. QED
      BY <2>1, <3>1, <1>3, <1>4 DEF OpenIsLast, Settled, TerminalStatuses
  <2>2. QED
    BY <1>1, <1>2, <2>1 DEF OpenIsLast
<1>10. OwnAttempt' /\ SerialAttempts' /\ BudgetSpent' /\ AttemptBound'
  BY <1>1 DEF OwnAttempt, SerialAttempts, BudgetSpent, AttemptBound
<1>11. ReconcilerAlone'
  <2>1. ASSUME NEW r \in Reconcilers, rpc[r] # "idle"
        PROVE  status[ract[r]] \in Settled => status'[ract[r]] \in Settled
    BY <1>3, <2>1 DEF CarriedApproved, Settled, TerminalStatuses
  <2>2. QED
    BY <1>1, <1>2, <2>1 DEF ReconcilerAlone
<1>12. StartableWhereClaimable'
  <2>1. ASSUME NEW a \in Unraced,
               status'[a] \in {"NONE", "PROPOSED", "APPROVED", "SCHEDULED"}
        PROVE  Startable(a)
    <3>1. CASE status'[a] = status[a]
      BY <2>1, <3>1 DEF StartableWhereClaimable
    <3>2. CASE status'[a] # status[a]
      <4>1. attempts[a] = <<>>
        BY <2>1, <3>2 DEF OutsideExecution, ApprovalRecorded
      <4>2. Len(attempts[a]) = 0 /\ DOMAIN attempts[a] = 1 .. 0
        BY <4>1, HistoryShape
      <4>3. QED
        BY <4>2, RuntimeAssumption, CleanShape DEF Startable
    <3>3. QED
      BY <3>1, <3>2
  <2>2. QED
    BY <1>1, <1>2, <2>1 DEF StartableWhereClaimable, TypeOK
<1>13. OutcomeFinal'
  <2>1. ASSUME NEW a \in Actions, status'[a] \in {"SUCCEEDED", "FAILED"}
        PROVE  status'[a] = status[a]
    BY <2>1 DEF OutsideExecution
  <2>2. QED
    BY <1>1, <1>2, <2>1 DEF OutcomeFinal
<1>14. TicksApart' /\ HandlerAlone'
  BY <1>1, TicksFrame, HandlerFrame
<1>15. QED
  BY <1>6, <1>7, <1>8, <1>9, <1>10, <1>11, <1>12, <1>13, <1>14

LEMMA CreateOutside ==
  ASSUME TypeOK, ApprovalInv, ResolutionInv,
         NEW e \in Entities, NEW a \in Actions, NEW d \in Decisions,
         NEW t \in Entities \cup {NoEntity}, Create(e, a, d, t)
  PROVE  OutsideExecution /\ ResolutionInv'
<1> USE DEF ApprovalInv, ResolutionInv, TypeOK
<1>1. status[a] = "NONE" /\ approvedBy[a] = NoEntity
  BY DEF Create, RowShape
<1>2. /\ \A b \in Actions \ {a} : status'[b] = status[b] /\ approvedBy'[b] = approvedBy[b]
      /\ status'[a] = CreatedStatus(d, t)
      /\ approvedBy'[a] = IF d = "AUTO_APPROVE" THEN e ELSE NoEntity
      /\ req' = req
  BY DEF Create, reqVars
<1>3. /\ status'[a] \in {"APPROVED", "REJECTED", "PROPOSED"}
      /\ status'[a] = "PROPOSED" => approvedBy'[a] = NoEntity
  <2>1. d = "AUTO_APPROVE" => CreatedStatus(d, t) = "APPROVED"
    BY DEF CreatedStatus
  <2>2. CreatedStatus(d, t) \in {"APPROVED", "REJECTED", "PROPOSED"}
    BY CreatedStatusType
  <2>3. QED
    BY <1>2, <2>1, <2>2
<1>4. OutsideExecution
  BY <1>1, <1>2, <1>3 DEF OutsideExecution, Create
<1>5. ProposedUnapproved'
  BY <1>2, <1>3 DEF ProposedUnapproved
<1>6. LockExclusive' /\ PromotesFresh'
  <2>1. LockExclusive'
    BY <1>2 DEF LockExclusive
  <2>2. \A r \in Requests : req[r].op = "locked" /\ req[r].promotes =>
          req[r].act \in Actions \ {a}
    BY <1>1 DEF PromotesFresh, ResolveShape
  <2>3. PromotesFresh'
    BY <1>2, <2>2 DEF PromotesFresh
  <2>4. QED
    BY <2>1, <2>3
<1>7. QED
  BY <1>4, <1>5, <1>6

(* A resolution that promotes finds the action unapproved, since no other   *)
(* one has locked the escalation.                                           *)
LEMMA ResolveOutside ==
  ASSUME TypeOK, ApprovalInv, ResolutionInv, NEW r \in Requests, ResolveCommit(r)
  PROVE  OutsideExecution /\ ResolutionInv'
<1> USE DEF ApprovalInv, ResolutionInv, TypeOK
<1> DEFINE a == req[r].act
<1>1. /\ a \in Actions /\ req[r].who \in Entities /\ req[r].verdict \in Verdicts
      /\ req[r].op = "locked"
      /\ req[r].promotes => approvedBy[a] = NoEntity
  BY DEF ResolveCommit, ResolveShape, PromotesFresh
<1>2. /\ \A b \in Actions \ {a} : status'[b] = status[b] /\ approvedBy'[b] = approvedBy[b]
      /\ \/ status'[a] = status[a] /\ approvedBy'[a] = approvedBy[a]
         \/ /\ approvedBy[a] = NoEntity /\ status'[a] \in {"APPROVED", "REJECTED"}
      /\ approvedBy[a] # NoEntity => approvedBy'[a] # NoEntity
  <2>1. CASE req[r].promotes
    BY <1>1, <2>1 DEF ResolveCommit, Transition, Verdicts
  <2>2. CASE ~ req[r].promotes
    BY <1>1, <2>2 DEF ResolveCommit
  <2>3. QED
    BY <2>1, <2>2
<1>3. OutsideExecution
  <2>1. UNCHANGED <<attempts, batch, workerVars, reconVars, raced>>
    BY DEF ResolveCommit
  <2>2. QED
    BY <1>1, <1>2, <2>1 DEF OutsideExecution
<1>4. req' = [req EXCEPT ![r] = IdleReq] /\ IdleReq.op = "idle"
  BY DEF ResolveCommit, IdleReq
<1>5. ProposedUnapproved' /\ LockExclusive'
  <2>1. ProposedUnapproved'
    BY <1>1, <1>2 DEF ProposedUnapproved
  <2>2. \A q \in Requests : req'[q].op = "locked" => req'[q] = req[q]
    BY <1>4
  <2>3. LockExclusive'
    BY <2>2 DEF LockExclusive
  <2>4. QED
    BY <2>1, <2>3
<1>6. PromotesFresh'
  <2>1. ASSUME NEW q \in Requests, req'[q].op = "locked", req'[q].promotes
        PROVE  /\ status'[req'[q].act] \in {"PROPOSED", "CANCELLED"}
               /\ approvedBy'[req'[q].act] = NoEntity
    <3>1. q # r /\ req'[q] = req[q]
      BY <1>4, <2>1
    <3>2. req[q].act # a /\ req[q].act \in Actions
      BY <1>1, <2>1, <3>1 DEF LockExclusive, ResolveShape
    <3>3. QED
      BY <1>2, <2>1, <3>1, <3>2 DEF PromotesFresh
  <2>2. QED
    BY <2>1 DEF PromotesFresh
<1>7. QED
  BY <1>3, <1>5, <1>6

(* Where a request is: whether it holds an escalation's lock.               *)
LEMMA RequestOutside ==
  ASSUME TypeOK, ApprovalInv, ResolutionInv, NEW r \in Requests,
         \/ \E e \in Entities, a \in Actions :
              \/ \E v \in Verdicts : ResolveRead(r, e, a, v)
              \/ CancelRead(r, e, a)
              \/ RunningCancelCheck(r, e, a)
         \/ ResolveLock(r) \/ CancelCommit(r) \/ MarkUsedRead(r)
         \/ MarkUsedCommit(r) \/ RunningCancelRead(r)
  PROVE  OutsideExecution /\ ResolutionInv'
<1> USE DEF ApprovalInv, ResolutionInv, TypeOK
<1>1. /\ UNCHANGED <<approvedBy, attempts, batch, workerVars, reconVars, raced>>
      /\ \A a \in Actions : status'[a] \in {status[a], "CANCELLED"}
  BY DEF ResolveRead, CancelRead, RunningCancelCheck, ResolveLock, CancelCommit,
         MarkUsedRead, MarkUsedCommit, RunningCancelRead, escVars
<1>2. OutsideExecution
  BY <1>1 DEF OutsideExecution
<1>3. ProposedUnapproved'
  BY <1>1 DEF ProposedUnapproved
<1>4. /\ \A q \in Requests \ {r} : req'[q] = req[q]
      /\ \/ req'[r].op # "locked"
         \/ /\ req[r].op = "resolve"
            /\ req'[r].act = req[r].act
            /\ req'[r].promotes => status[req[r].act] = "PROPOSED"
            /\ \A q \in Requests : req[q].op = "locked" => req[q].act # req[r].act
  <2>1. CASE ResolveLock(r)
    <3>1. /\ \A q \in Requests \ {r} : req'[q] = req[q]
          /\ req[r] \in RequestStates
          /\ req'[r] = [req[r] EXCEPT !.op = "locked",
                                     !.promotes = (status[req[r].act] = "PROPOSED")]
      BY <2>1 DEF ResolveLock
    <3>2. /\ req'[r].act = req[r].act
          /\ req'[r].promotes = (status[req[r].act] = "PROPOSED")
      BY <3>1 DEF RequestStates
    <3>3. /\ req[r].op = "resolve"
          /\ \A q \in Requests : req[q].op = "locked" => req[q].act # req[r].act
      BY <2>1 DEF ResolveLock
    <3>4. QED
      BY <3>1, <3>2, <3>3, Zenon
  <2>2. CASE MarkUsedRead(r)
    BY <2>2 DEF MarkUsedRead, RequestStates, IdleReq
  <2>3. CASE RunningCancelRead(r)
    BY <2>3 DEF RunningCancelRead, RequestStates, IdleReq
  <2>4. CASE CancelCommit(r) \/ MarkUsedCommit(r)
    BY <2>4 DEF CancelCommit, MarkUsedCommit, RequestStates, IdleReq
  <2>5. ASSUME NEW e \in Entities, NEW a \in Actions, NEW v \in Verdicts,
               ResolveRead(r, e, a, v)
        PROVE  /\ \A q \in Requests \ {r} : req'[q] = req[q]
               /\ req'[r].op # "locked"
    BY <2>5 DEF ResolveRead
  <2>6. ASSUME NEW e \in Entities, NEW a \in Actions,
               CancelRead(r, e, a) \/ RunningCancelCheck(r, e, a)
        PROVE  /\ \A q \in Requests \ {r} : req'[q] = req[q]
               /\ req'[r].op # "locked"
    BY <2>6 DEF CancelRead, RunningCancelCheck, IdleReq
  <2>7. CASE \E e \in Entities, a \in Actions :
               \/ \E v \in Verdicts : ResolveRead(r, e, a, v)
               \/ CancelRead(r, e, a)
               \/ RunningCancelCheck(r, e, a)
    BY <2>5, <2>6, <2>7
  <2> HIDE DEF TypeOK, ApprovalInv, ResolutionInv
  <2>8. QED
    BY <2>1, <2>2, <2>3, <2>4, <2>7
<1>5. LockExclusive'
  <2>1. ASSUME NEW p \in Requests, NEW q \in Requests, p # q,
               req'[p].op = "locked", req'[q].op = "locked"
        PROVE  req'[p].act # req'[q].act
    <3>1. CASE p = r \/ q = r
      BY <1>4, <2>1, <3>1
    <3>2. CASE p # r /\ q # r
      BY <1>4, <2>1, <3>2 DEF LockExclusive
    <3>3. QED
      BY <3>1, <3>2
  <2>2. QED
    BY <2>1 DEF LockExclusive
<1>6. PromotesFresh'
  <2>1. ASSUME NEW q \in Requests, req'[q].op = "locked", req'[q].promotes
        PROVE  /\ status'[req'[q].act] \in {"PROPOSED", "CANCELLED"}
               /\ approvedBy'[req'[q].act] = NoEntity
    <3>1. CASE q = r
      <4>1. /\ req'[r].act = req[r].act /\ req[r].act \in Actions
            /\ status[req[r].act] = "PROPOSED"
        BY <1>4, <2>1, <3>1 DEF ResolveShape
      <4>2. QED
        BY <1>1, <3>1, <4>1 DEF ProposedUnapproved
    <3>2. CASE q # r
      BY <1>1, <1>4, <2>1, <3>2 DEF ResolveShape, PromotesFresh
    <3>3. QED
      BY <3>1, <3>2
  <2>2. QED
    BY <2>1 DEF PromotesFresh
<1>7. QED
  BY <1>2, <1>3, <1>5, <1>6

-----------------------------------------------------------------------------
(* Execution, in turn, leaves resolution alone: it touches approved actions *)
(* only.                                                                    *)
LEMMA ExecutionKeepsResolution ==
  ASSUME TypeOK, ApprovalInv, ResolutionInv, UNCHANGED <<approvedBy, req>>,
         \A a \in Actions : \/ status'[a] = status[a]
                            \/ approvedBy[a] # NoEntity /\ status'[a] # "PROPOSED"
  PROVE  ResolutionInv'
<1> USE DEF ResolutionInv
<1>1. ProposedUnapproved' /\ LockExclusive'
  BY DEF ProposedUnapproved, LockExclusive
<1>2. PromotesFresh'
  BY DEF ApprovalInv, PromotesFresh, ResolveShape
<1>3. QED
  BY <1>1, <1>2

-----------------------------------------------------------------------------
(* Admission and claim.                                                     *)

(* What can be claimed or admitted is driven by no tick, worked on by no    *)
(* reconciler and has no open attempt.                                      *)
LEMMA ClaimableFree ==
  ASSUME TypeOK, WorkerShape, ExecutionInv, NEW a \in Unraced,
         status[a] \in {"APPROVED", "SCHEDULED"} \/ ~ Unread(a)
  PROVE  /\ status[a] \in {"APPROVED", "SCHEDULED", "CANCELLED"}
         /\ Startable(a)
         /\ Undriven(a)
         /\ \A n \in DOMAIN attempts[a] : attempts[a][n] # "OPEN"
         /\ \A r \in Reconcilers : rpc[r] # "idle" => ract[r] # a
<1> USE DEF ExecutionInv, Unraced
<1>1. status[a] \in {"APPROVED", "SCHEDULED"} => status[a] \notin Settled
  BY DEF Settled, TerminalStatuses
<1>2. status[a] \in {"APPROVED", "SCHEDULED", "CANCELLED"} /\ Startable(a)
  BY DEF BatchFresh, Unread, StartableWhereClaimable
<1>3. Undriven(a)
  BY <1>1 DEF Undriven, DrivenClaimed
<1>4. \A n \in DOMAIN attempts[a] : attempts[a][n] # "OPEN"
  BY <1>2, CleanShape DEF Startable
<1>5. \A r \in Reconcilers : rpc[r] # "idle" => ract[r] # a
  BY <1>1 DEF ReconcilerAlone
<1>6. QED
  BY <1>2, <1>3, <1>4, <1>5

(* The candidates another tick holds become raced.                          *)
LEMMA AdmitReadExecution ==
  ASSUME TypeOK, WorkerShape, ExecutionInv, NEW s \in Schedulers, AdmitRead(s)
  PROVE  ExecutionInv' /\ raced \subseteq raced' /\ raced' \subseteq Actions
<1> USE DEF ExecutionInv, Unraced
<1>1. /\ UNCHANGED <<status, approvedBy, attempts, workerVars, reconVars>>
      /\ \A t \in Schedulers \ {s} : batch'[t] = batch[t]
      /\ \A a \in batch'[s] : a \in Actions /\ status[a] = "APPROVED"
      /\ raced \subseteq raced' /\ raced' \subseteq Actions
      /\ \A t \in Schedulers : batch'[s] \cap batch[t] \subseteq raced'
  BY DEF AdmitRead, escVars, TypeOK
<1>2. /\ wpc' = wpc /\ queue' = queue /\ cur' = cur
      /\ tries' = tries /\ slot' = slot /\ rpc' = rpc /\ ract' = ract /\ rslot' = rslot
      /\ status' = status /\ attempts' = attempts
  BY <1>1 DEF workerVars, reconVars
<1>3. \A a \in Actions : Unread(a) /\ status[a] # "APPROVED" => Unread(a)'
  BY <1>1 DEF Unread
<1>4. \A a \in Actions : status[a] \in Settled => status[a] # "APPROVED"
  BY DEF Settled, TerminalStatuses
<1>5. /\ \A w \in Workers : Driven(w)' = Driven(w)
      /\ \A w \in Workers : Driven(w) \subseteq Actions
      /\ \A a \in Actions : /\ Undriven(a)' <=> Undriven(a)
                            /\ Clean(a)' <=> Clean(a)
                            /\ Startable(a)' <=> Startable(a)
  BY <1>2 DEF Driven, Undriven, Clean, Governed!Attemptable, Startable, TypeOK
<1>6. BatchFresh' /\ StartableWhereClaimable'
  BY <1>1, <1>2, <1>5 DEF BatchFresh, StartableWhereClaimable, TypeOK
<1>7. DrivenClaimed' /\ SingleDriver'
  BY <1>1, <1>2, <1>3, <1>4, <1>5 DEF DrivenClaimed, SingleDriver
<1>8. OpenIsLast'
  BY <1>1, <1>2, <1>3, <1>4, <1>5 DEF OpenIsLast
<1>9. OwnAttempt' /\ SerialAttempts' /\ BudgetSpent' /\ AttemptBound'
  BY <1>1, <1>2 DEF OwnAttempt, SerialAttempts, BudgetSpent, AttemptBound
<1>10. ReconcilerAlone'
  BY <1>1, <1>2, <1>3, <1>4, <1>5 DEF ReconcilerAlone
<1>11. OutcomeFinal'
  BY <1>1, <1>2, <1>5 DEF OutcomeFinal
<1>12. HandlerAlone'
  BY <1>2, HandlerFrame
<1>13. TicksApart'
  <2>1. ASSUME NEW t \in Schedulers, NEW u \in Schedulers, t # u
        PROVE  batch'[t] \cap batch'[u] \subseteq raced'
    <3>1. CASE t = s
      BY <1>1, <2>1, <3>1
    <3>2. CASE u = s
      BY <1>1, <2>1, <3>2
    <3>3. CASE t # s /\ u # s
      BY <1>1, <2>1, <3>3 DEF TicksApart
    <3>4. QED
      BY <3>1, <3>2, <3>3
  <2>2. QED
    BY <1>1, <1>2, <2>1 DEF TicksApart
<1>14. QED
  BY <1>1, <1>6, <1>7, <1>8, <1>9, <1>10, <1>11, <1>12, <1>13

(* Writing the batch moves nothing but what the tick read, and an action    *)
(* another admission tick holds as well is raced.                           *)
LEMMA AdmitCommitExecution ==
  ASSUME TypeOK, WorkerShape, ApprovalInv, ExecutionInv,
         NEW s \in Schedulers, AdmitCommit(s)
  PROVE  ExecutionInv'
<1> USE DEF ExecutionInv, Unraced
<1>1. /\ UNCHANGED <<approvedBy, attempts, workerVars, reconVars, raced>>
      /\ \A a \in Actions :
           status'[a] = IF a \in batch[s] THEN "SCHEDULED" ELSE status[a]
      /\ batch'[s] = {} /\ \A t \in Schedulers \ {s} : batch'[t] = batch[t]
  BY DEF AdmitCommit, escVars, TypeOK
<1>2. /\ wpc' = wpc /\ queue' = queue /\ cur' = cur
      /\ tries' = tries /\ slot' = slot /\ rpc' = rpc /\ ract' = ract /\ rslot' = rslot
      /\ attempts' = attempts /\ approvedBy' = approvedBy /\ raced' = raced
  BY <1>1 DEF workerVars, reconVars
<1>3. ASSUME NEW a \in Unraced, status'[a] # status[a]
      PROVE  /\ status'[a] = "SCHEDULED" /\ Startable(a) /\ Undriven(a)
             /\ \A n \in DOMAIN attempts[a] : attempts[a][n] # "OPEN"
             /\ \A r \in Reconcilers : rpc[r] # "idle" => ract[r] # a
             /\ \A t \in Schedulers \ {s} : a \notin batch[t]
  <2>1. a \in batch[s] /\ status'[a] = "SCHEDULED" /\ ~ Unread(a)
    BY <1>1, <1>3 DEF Unread
  <2>2. \A t \in Schedulers \ {s} : a \notin batch[t]
    BY <2>1 DEF TicksApart
  <2>3. QED
    BY <2>1, <2>2, ClaimableFree
<1>4. /\ \A w \in Workers : Driven(w)' = Driven(w)
      /\ \A w \in Workers : Driven(w) \subseteq Actions
      /\ \A a \in Actions : /\ Undriven(a)' <=> Undriven(a)
                            /\ Unread(a) => Unread(a)'
                            /\ Clean(a)' <=> Clean(a)
                            /\ Startable(a)' <=> Startable(a)
  BY <1>1, <1>2 DEF Driven, Undriven, Unread, Clean, Governed!Attemptable, Startable, TypeOK
<1>5. BatchFresh'
  <2>1. ASSUME NEW t \in Schedulers, NEW a \in batch'[t] \ raced
        PROVE  status'[a] \in {"APPROVED", "CANCELLED"}
    <3>1. t # s /\ a \in batch[t] /\ a \in Unraced
      BY <1>1, <2>1 DEF TypeOK
    <3>2. QED
      BY <1>3, <3>1 DEF BatchFresh
  <2>2. QED
    BY <1>2, <2>1 DEF BatchFresh
<1>6. StartableWhereClaimable'
  BY <1>1, <1>2, <1>3, <1>4 DEF StartableWhereClaimable, TypeOK
<1>7. DrivenClaimed' /\ SingleDriver'
  BY <1>2, <1>3, <1>4 DEF DrivenClaimed, SingleDriver, Undriven
<1>8. OpenIsLast'
  BY <1>2, <1>3, <1>4 DEF OpenIsLast
<1>9. OwnAttempt' /\ SerialAttempts' /\ BudgetSpent' /\ AttemptBound'
  BY <1>2 DEF OwnAttempt, SerialAttempts, BudgetSpent, AttemptBound
<1>10. ReconcilerAlone'
  BY <1>2, <1>3, <1>4 DEF ReconcilerAlone
<1>11. OutcomeFinal'
  BY <1>2, <1>3, <1>4 DEF OutcomeFinal
<1>12. TicksApart' /\ HandlerAlone'
  <2>1. \A t \in Schedulers : batch'[t] \subseteq batch[t]
    BY <1>1
  <2>2. QED
    BY <1>2, <2>1, TicksFrame, HandlerFrame
<1>13. QED
  BY <1>5, <1>6, <1>7, <1>8, <1>9, <1>10, <1>11, <1>12

LEMMA ClaimExecution ==
  ASSUME TypeOK, WorkerShape, ExecutionInv,
         NEW w \in Workers, NEW S \in SUBSET Actions, Claim(w, S)
  PROVE  ExecutionInv'
<1> USE DEF ExecutionInv, Unraced
<1>1. /\ UNCHANGED <<approvedBy, attempts, batch, cur, tries, slot, reconVars, raced>>
      /\ wpc[w] = "idle" /\ queue[w] = {} /\ cur[w] = NoAction
      /\ \A a \in Actions : status'[a] = IF a \in S THEN "RUNNING" ELSE status[a]
      /\ \A a \in S : status[a] = "SCHEDULED"
      /\ \A v \in Workers : /\ wpc'[v] = IF v = w THEN "claimed" ELSE wpc[v]
                            /\ queue'[v] = IF v = w THEN S ELSE queue[v]
  BY DEF Claim, Claimable, escVars, TypeOK, WorkerShape, Driving
<1>2. /\ cur' = cur /\ tries' = tries /\ slot' = slot
      /\ rpc' = rpc /\ ract' = ract /\ rslot' = rslot
      /\ attempts' = attempts /\ approvedBy' = approvedBy /\ batch' = batch
      /\ raced' = raced
  BY <1>1 DEF reconVars
<1>3. ASSUME NEW a \in S \ raced
      PROVE  /\ a \in Unraced /\ Startable(a) /\ Undriven(a) /\ Unread(a)
             /\ \A n \in DOMAIN attempts[a] : attempts[a][n] # "OPEN"
             /\ \A r \in Reconcilers : rpc[r] # "idle" => ract[r] # a
  <2>1. a \in Unraced /\ status[a] = "SCHEDULED"
    BY <1>1
  <2>2. Unread(a)
    BY <2>1 DEF Unread, BatchFresh
  <2>3. QED
    BY <2>1, <2>2, ClaimableFree
<1>4. /\ \A v \in Workers : Driven(v)' = IF v = w THEN S ELSE Driven(v)
      /\ Driven(w) = {}
      /\ \A v \in Workers : Driven(v) \subseteq Actions
  BY <1>1, <1>2 DEF Driven, TypeOK
<1>5. \A a \in Actions : /\ Undriven(a)' <=> Undriven(a) /\ a \notin S
                         /\ Unread(a)' <=> Unread(a)
                         /\ Clean(a)' <=> Clean(a)
                         /\ Startable(a)' <=> Startable(a)
  BY <1>2, <1>4 DEF Undriven, Unread, Clean, Governed!Attemptable, Startable
<1>6. \A v \in Workers : wpc'[v] \in Driving => v # w /\ wpc'[v] = wpc[v]
  BY <1>1 DEF Driving
<1>7. BatchFresh' /\ StartableWhereClaimable'
  BY <1>1, <1>2, <1>3, <1>5 DEF BatchFresh, StartableWhereClaimable, TypeOK, Unread
<1>8. DrivenClaimed'
  BY <1>1, <1>2, <1>3, <1>4, <1>5 DEF DrivenClaimed, Settled
<1>9. SingleDriver'
  BY <1>2, <1>3, <1>4 DEF SingleDriver, Undriven
<1>10. OpenIsLast'
  <2>1. ASSUME NEW a \in Unraced, NEW n \in DOMAIN attempts[a], attempts[a][n] = "OPEN"
        PROVE  /\ n = Len(attempts[a]) /\ status'[a] \in Settled /\ Unread(a)'
               /\ \A v \in Workers : a \in Driven(v)' =>
                    wpc'[v] = "handling" /\ cur'[v] = a
    <3>1. a \notin S
      BY <1>3, <2>1
    <3>2. QED
      BY <1>1, <1>2, <1>4, <1>5, <2>1, <3>1 DEF OpenIsLast
  <2>2. QED
    BY <1>2, <2>1 DEF OpenIsLast
<1>11. OwnAttempt' /\ SerialAttempts' /\ BudgetSpent' /\ AttemptBound'
  BY <1>2, <1>6 DEF OwnAttempt, SerialAttempts, BudgetSpent, AttemptBound
<1>12. ReconcilerAlone'
  <2>1. \A r \in Reconcilers : rpc[r] # "idle" /\ ract[r] \in Unraced => ract[r] \notin S
    BY <1>3
  <2>2. QED
    BY <1>1, <1>2, <1>5, <2>1 DEF ReconcilerAlone
<1>13. OutcomeFinal'
  BY <1>1, <1>2, <1>5 DEF OutcomeFinal
<1>14. TicksApart' /\ HandlerAlone'
  <2>1. HandlerAlone'
    BY <1>2, <1>6, HandlerFrame DEF Driving
  <2>2. QED
    BY <1>2, <2>1, TicksFrame
<1>15. QED
  BY <1>7, <1>8, <1>9, <1>10, <1>11, <1>12, <1>13, <1>14

-----------------------------------------------------------------------------
(* An executor tick.  Whatever it touches it drives, so nobody else does.   *)

LEMMA DrivenShape ==
  ASSUME TypeOK, WorkerShape, NEW w \in Workers
  PROVE  /\ Driven(w) \subseteq Actions
         /\ queue[w] \subseteq Driven(w)
         /\ wpc[w] \in Driving =>
              /\ cur[w] \in Actions /\ cur[w] \in Driven(w) /\ cur[w] \notin queue[w]
         /\ wpc[w] \notin Driving => cur[w] = NoAction /\ Driven(w) = queue[w]
BY RuntimeAssumption DEF TypeOK, WorkerShape, Driven

(* Opening an attempt, the first of an action or a retry.                   *)
LEMMA OpenExecution ==
  ASSUME TypeOK, WorkerShape, ApprovalInv, ExecutionInv, NEW w \in Workers,
         (\E a \in Actions : StartAction(w, a)) \/ RetryAttempt(w)
  PROVE  /\ ExecutionInv'
         /\ UNCHANGED <<status, approvedBy, req, raced>>
         /\ \E c \in Actions :
              /\ c \in Driven(w)
              /\ Opened(c)
              /\ c \notin raced => Clean(c) /\ Len(attempts[c]) < 2 * RetryBudget - 1
              /\ \A a \in Actions \ {c} : attempts'[a] = attempts[a]
<1> USE DEF ExecutionInv, Unraced
<1>1. UNCHANGED <<status, approvedBy, req, batch, reconVars, raced>>
  BY DEF StartAction, RetryAttempt, OpenAttempt, escVars, reqVars
<1>2. PICK c \in Actions :
        /\ c \in Driven(w) /\ wpc[w] \in {"claimed", "next", "retry"}
        /\ OpenAttempt(w, c)
        /\ queue' = [queue EXCEPT ![w] = @ \ {c}]
        /\ cur' = [cur EXCEPT ![w] = c]
        /\ tries'[w] \in 1 .. RetryBudget
        /\ c \in Unraced =>
             Clean(c) /\ Len(attempts[c]) + 1 < RetryBudget + tries'[w]
        /\ \A v \in Workers \ {w} : tries'[v] = tries[v]
  <2>1. ASSUME NEW a \in Actions, StartAction(w, a)
        PROVE  /\ a \in Driven(w) /\ wpc[w] \in {"claimed", "next", "retry"}
               /\ OpenAttempt(w, a)
               /\ queue' = [queue EXCEPT ![w] = @ \ {a}]
               /\ cur' = [cur EXCEPT ![w] = a]
               /\ tries'[w] \in 1 .. RetryBudget
               /\ a \in Unraced =>
                    Clean(a) /\ Len(attempts[a]) + 1 < RetryBudget + tries'[w]
               /\ \A v \in Workers \ {w} : tries'[v] = tries[v]
    <3>1. /\ a \in queue[w] /\ wpc[w] \in {"claimed", "next"} /\ OpenAttempt(w, a)
          /\ queue' = [queue EXCEPT ![w] = @ \ {a}]
          /\ cur' = [cur EXCEPT ![w] = a]
          /\ tries' = [tries EXCEPT ![w] = 1]
      BY <2>1 DEF StartAction
    <3>2. a \in Unraced => Clean(a) /\ Len(attempts[a]) < RetryBudget
      BY <3>1 DEF StartableWhereClaimable, Startable
    <3>3. /\ tries'[w] = 1
          /\ \A v \in Workers \ {w} : tries'[v] = tries[v]
      BY <3>1 DEF TypeOK
    <3>4. /\ a \in Unraced => Len(attempts[a]) + 1 < RetryBudget + tries'[w]
          /\ tries'[w] \in 1 .. RetryBudget
      BY <3>2, <3>3, HistoryShape, RuntimeAssumption
    <3>5. QED
      BY <3>1, <3>2, <3>3, <3>4, DrivenShape
  <2>2. ASSUME RetryAttempt(w)
        PROVE  /\ cur[w] \in Actions
               /\ cur[w] \in Driven(w) /\ wpc[w] \in {"claimed", "next", "retry"}
               /\ OpenAttempt(w, cur[w])
               /\ queue' = [queue EXCEPT ![w] = @ \ {cur[w]}]
               /\ cur' = [cur EXCEPT ![w] = cur[w]]
               /\ tries'[w] \in 1 .. RetryBudget
               /\ cur[w] \in Unraced =>
                    Clean(cur[w]) /\ Len(attempts[cur[w]]) + 1 < RetryBudget + tries'[w]
               /\ \A v \in Workers \ {w} : tries'[v] = tries[v]
    <3>1. /\ wpc[w] = "retry" /\ OpenAttempt(w, cur[w])
          /\ queue' = queue /\ cur' = cur
          /\ tries' = [tries EXCEPT ![w] = @ + 1]
      BY <2>2 DEF RetryAttempt
    <3>2. cur[w] \in Actions /\ cur[w] \in Driven(w) /\ cur[w] \notin queue[w]
      BY <3>1, DrivenShape DEF Driving
    <3>3. ASSUME cur[w] \in Unraced PROVE Clean(cur[w])
      <4>1. attempts[cur[w]][Len(attempts[cur[w]])] \in {"FAILED", "TIMED_OUT"}
        BY <3>1, <3>3 DEF OwnAttempt, Driving
      <4>2. \A n \in DOMAIN attempts[cur[w]] :
              n = Len(attempts[cur[w]]) \/ n < Len(attempts[cur[w]])
        BY <3>2, HistoryShape
      <4>3. QED
        BY <3>2, <3>3, <4>1, <4>2, CleanShape DEF SerialAttempts
    <3>4. /\ tries'[w] = tries[w] + 1
          /\ \A v \in Workers \ {w} : tries'[v] = tries[v]
      BY <3>1 DEF TypeOK
    <3>5. /\ tries[w] \in 1 .. RetryBudget /\ tries[w] < RetryBudget
          /\ cur[w] \in Unraced => Len(attempts[cur[w]]) < RetryBudget + tries[w]
      BY <3>1 DEF BudgetSpent, Driving
    <3>6. /\ cur[w] \in Unraced => Len(attempts[cur[w]]) + 1 < RetryBudget + tries'[w]
          /\ tries'[w] \in 1 .. RetryBudget
      BY <3>2, <3>4, <3>5, HistoryShape, RuntimeAssumption
    <3>7. queue' = [queue EXCEPT ![w] = @ \ {cur[w]}] /\ cur' = [cur EXCEPT ![w] = cur[w]]
      BY <3>1, <3>2 DEF TypeOK
    <3>8. QED
      BY <3>1, <3>2, <3>3, <3>4, <3>6, <3>7
  <2>3. QED
    BY <2>1, <2>2
<1>3. /\ \A a \in Actions \ {c} : attempts'[a] = attempts[a]
      /\ Opened(c)
      /\ \A v \in Workers :
           /\ wpc'[v] = IF v = w THEN "handling" ELSE wpc[v]
           /\ queue'[v] = IF v = w THEN queue[w] \ {c} ELSE queue[v]
           /\ cur'[v] = IF v = w THEN c ELSE cur[v]
           /\ slot'[v] = IF v = w THEN Len(attempts[c]) + 1 ELSE slot[v]
  BY <1>2 DEF OpenAttempt, Opened, TypeOK
<1>4. /\ status' = status /\ approvedBy' = approvedBy /\ batch' = batch
      /\ rpc' = rpc /\ ract' = ract /\ rslot' = rslot /\ raced' = raced
  BY <1>1 DEF reconVars
<1>5. /\ Len(attempts[c]) \in Nat
      /\ c \in Unraced => Len(attempts[c]) + 1 <= 2 * RetryBudget - 1
  BY <1>2, HistoryShape, RuntimeAssumption
<1>6. /\ ~ Undriven(c) /\ wpc[w] # "handling"
      /\ c \in Unraced => /\ status[c] \in Settled /\ Unread(c)
                          /\ \A v \in Workers \ {w} : c \notin Driven(v)
  BY <1>2 DEF DrivenClaimed, SingleDriver, Undriven
<1>7. /\ \A v \in Workers : Driven(v)' = Driven(v)
      /\ \A v \in Workers : Driven(v) \subseteq Actions /\ queue[v] \subseteq Driven(v)
      /\ \A v \in Workers : wpc[v] \in Driving => cur[v] \in Actions /\ cur[v] \in Driven(v)
  <2>1. \A v \in Workers \ {w} : Driven(v)' = Driven(v)
    BY <1>3 DEF Driven
  <2>2. Driven(w) = queue[w] \cup {c}
    <3>1. CASE wpc[w] = "retry"
      BY <1>2, <1>3, <3>1 DEF Driven, RetryAttempt, StartAction, TypeOK, WorkerShape, Driving
    <3>2. CASE wpc[w] # "retry"
      BY <1>2, <3>2, DrivenShape DEF Driving
    <3>3. QED
      BY <3>1, <3>2
  <2>3. Driven(w)' = queue[w] \cup {c}
    BY <1>3, RuntimeAssumption DEF Driven
  <2>4. QED
    BY <2>1, <2>2, <2>3, DrivenShape
<1>8. \A a \in Actions : /\ Undriven(a)' <=> Undriven(a)
                         /\ Unread(a)' <=> Unread(a)
                         /\ a # c => /\ Clean(a)' <=> Clean(a)
                                     /\ Startable(a)' <=> Startable(a)
  BY <1>3, <1>4, <1>7 DEF Undriven, Unread, Clean, Governed!Attemptable, Startable
<1>9. /\ Len(attempts'[c]) = Len(attempts[c]) + 1
      /\ DOMAIN attempts'[c] = 1 .. (Len(attempts[c]) + 1)
      /\ attempts'[c] # <<>>
      /\ \A n \in 1 .. Len(attempts[c]) : attempts'[c][n] = attempts[c][n]
      /\ c \in Unraced =>
           \A n \in 1 .. Len(attempts[c]) : attempts'[c][n] \in {"FAILED", "TIMED_OUT"}
      /\ attempts'[c][Len(attempts[c]) + 1] = "OPEN"
  <2>1. DOMAIN attempts[c] = 1 .. Len(attempts[c])
    BY HistoryShape
  <2>2. QED
    BY <1>2, <1>3, <2>1, OpenedShape, CleanShape
<1>10. BatchFresh' /\ DrivenClaimed' /\ SingleDriver'
  BY <1>4, <1>7, <1>8 DEF BatchFresh, DrivenClaimed, SingleDriver
<1>11. OpenIsLast'
  <2>1. ASSUME NEW a \in Unraced, NEW n \in DOMAIN attempts'[a], attempts'[a][n] = "OPEN"
        PROVE  /\ n = Len(attempts'[a]) /\ status[a] \in Settled /\ Unread(a)
               /\ \A v \in Workers : a \in Driven(v) =>
                    wpc'[v] = "handling" /\ cur'[v] = a
    <3>1. CASE a = c
      <4>1. n = Len(attempts[c]) + 1
        BY <1>5, <1>9, <2>1, <3>1
      <4>2. QED
        BY <1>3, <1>6, <1>9, <2>1, <3>1, <4>1
    <3>2. CASE a # c
      BY <1>3, <1>6, <2>1, <3>2 DEF OpenIsLast
    <3>3. QED
      BY <3>1, <3>2
  <2>2. QED
    BY <1>4, <1>7, <1>8, <2>1 DEF OpenIsLast
<1>12. OwnAttempt' /\ BudgetSpent'
  <2>1. ASSUME NEW v \in Workers, v # w, wpc'[v] \in Driving
        PROVE  /\ wpc[v] \in Driving /\ cur'[v] = cur[v] /\ cur[v] \in Actions
               /\ slot'[v] = slot[v] /\ wpc'[v] = wpc[v] /\ tries'[v] = tries[v]
               /\ cur[v] \in Unraced => attempts'[cur[v]] = attempts[cur[v]]
    BY <1>2, <1>3, <1>6, <1>7, <2>1
  <2>2. /\ attempts'[cur'[w]] # <<>> /\ slot'[w] = Len(attempts'[cur'[w]])
        /\ attempts'[cur'[w]][slot'[w]] = "OPEN" /\ wpc'[w] = "handling"
    BY <1>3, <1>9
  <2>3. cur'[w] \in Unraced => Len(attempts'[cur'[w]]) < RetryBudget + tries'[w]
    BY <1>2, <1>3, <1>9
  <2>4. OwnAttempt'
    BY <1>4, <2>1, <2>2 DEF OwnAttempt
  <2>5. BudgetSpent'
    BY <1>2, <1>4, <2>1, <2>2, <2>3 DEF BudgetSpent
  <2>6. QED
    BY <2>4, <2>5
<1>13. ReconcilerAlone'
  <2>1. ASSUME NEW r \in Reconcilers, rpc[r] # "idle", rpc[r] # "promote", ract[r] \in Unraced
        PROVE  attempts'[ract[r]] = attempts[ract[r]] /\ (Clean(ract[r])' <=> Clean(ract[r]))
    <3>1. ract[r] # c /\ ract[r] \in Actions
      BY <1>6, <2>1 DEF ReconcilerAlone
    <3>2. QED
      BY <1>3, <1>4, <1>8, <3>1
  <2>2. QED
    BY <1>4, <1>8, <2>1 DEF ReconcilerAlone
<1>14. SerialAttempts' /\ AttemptBound'
  BY <1>3, <1>4, <1>5, <1>9 DEF SerialAttempts, AttemptBound
<1>15. StartableWhereClaimable'
  <2>1. ASSUME NEW a \in Unraced, status[a] \in {"NONE", "PROPOSED", "APPROVED", "SCHEDULED"}
        PROVE  a # c
    BY <1>6, <2>1 DEF Settled, TerminalStatuses
  <2>2. \A v \in Workers : c \notin queue'[v] \ raced /\ queue'[v] \subseteq queue[v]
    BY <1>2, <1>3, <1>6, <1>7
  <2>3. \A s \in Schedulers : c \notin batch[s] \ raced
    BY <1>6 DEF Unread
  <2>4. QED
    BY <1>4, <1>7, <1>8, <2>1, <2>2, <2>3 DEF StartableWhereClaimable, TypeOK
<1>16. OutcomeFinal'
  BY <1>3, <1>4, <1>6, <1>8 DEF OutcomeFinal
<1>17. TicksApart' /\ HandlerAlone'
  <2>1. TicksApart'
    BY <1>4, TicksFrame
  <2>2. ASSUME NEW a \in Actions, NEW n \in DOMAIN attempts[a]
        PROVE  /\ n \in DOMAIN attempts'[a] /\ attempts'[a][n] = attempts[a][n]
               /\ a = c => n # Len(attempts[c]) + 1
    <3>1. CASE a = c
      <4>1. n \in 1 .. Len(attempts[c])
        BY <2>2, <3>1, HistoryShape
      <4>2. QED
        BY <1>5, <1>9, <3>1, <4>1
    <3>2. CASE a # c
      BY <1>3, <3>2
    <3>3. QED
      BY <3>1, <3>2
  <2>3. ASSUME NEW v \in Workers, v # w, wpc'[v] = "handling"
        PROVE  /\ wpc[v] = "handling" /\ cur'[v] = cur[v] /\ slot'[v] = slot[v]
               /\ cur[v] \in Actions /\ slot[v] \in DOMAIN attempts[cur[v]]
               /\ attempts[cur[v]][slot[v]] = "OPEN"
               /\ cur[v] # c \/ slot[v] # Len(attempts[c]) + 1
    BY <1>3, <1>5, <1>7, <2>3, HistoryShape DEF HandlerAlone, Driving
  <2>4. /\ wpc'[w] = "handling" /\ cur'[w] = c /\ slot'[w] = Len(attempts[c]) + 1
        /\ slot'[w] \in DOMAIN attempts'[c] /\ attempts'[c][slot'[w]] = "OPEN"
    BY <1>3, <1>5, <1>9
  <2>5. ASSUME NEW v \in Workers, wpc'[v] = "handling"
        PROVE  /\ slot'[v] \in DOMAIN attempts'[cur'[v]]
               /\ attempts'[cur'[v]][slot'[v]] = "OPEN"
               /\ \A u \in Workers : u # v /\ wpc'[u] = "handling" =>
                    cur'[u] # cur'[v] \/ slot'[u] # slot'[v]
    <3>1. CASE v = w
      BY <2>3, <2>4, <3>1
    <3>2. CASE v # w
      BY <2>2, <2>3, <2>4, <2>5, <3>2 DEF HandlerAlone
    <3>3. QED
      BY <3>1, <3>2
  <2>6. ASSUME NEW r \in Reconcilers, rpc[r] = "close", ract[r] \in Actions
        PROVE  /\ rslot[r] \in DOMAIN attempts'[ract[r]]
               /\ \A v \in Workers : wpc'[v] = "handling" =>
                    ~ (cur'[v] = ract[r] /\ slot'[v] = rslot[r])
    <3>1. rslot[r] \in DOMAIN attempts[ract[r]] /\ ~ Handled(ract[r], rslot[r])
      BY <2>6 DEF HandlerAlone
    <3>2. /\ rslot[r] \in DOMAIN attempts'[ract[r]]
          /\ ~ (ract[r] = c /\ rslot[r] = Len(attempts[c]) + 1)
      BY <1>5, <1>9, <2>2, <2>6, <3>1, HistoryShape
    <3>3. QED
      BY <2>3, <2>4, <3>1, <3>2 DEF Handled
  <2>7. \A r \in Reconcilers : rpc[r] = "close" => ract[r] \in Actions
    BY DEF ApprovalInv, CarriedApproved
  <2>8. QED
    BY <1>4, <2>1, <2>5, <2>6, <2>7 DEF HandlerAlone, Handled
<1>18. ExecutionInv'
  BY <1>10, <1>11, <1>12, <1>13, <1>14, <1>15, <1>16, <1>17
<1>19. c \notin raced => Len(attempts[c]) < 2 * RetryBudget - 1
  BY <1>5, RuntimeAssumption
<1> HIDE DEF ExecutionInv
<1>20. QED
  BY <1>1, <1>2, <1>3, <1>18, <1>19

(* Closing the attempt the tick handles.                                    *)
LEMMA SettleExecution ==
  ASSUME TypeOK, WorkerShape, ExecutionInv, NEW w \in Workers,
         NEW o \in ClosedOutcomes, Settle(w, o)
  PROVE  /\ ExecutionInv'
         /\ UNCHANGED <<status, approvedBy, req, raced>>
         /\ Ended(cur[w], slot[w], o) /\ cur[w] \in Actions
         /\ \A a \in Actions \ {cur[w]} : attempts'[a] = attempts[a]
<1> USE DEF ExecutionInv, Unraced
<1> DEFINE c == cur[w]
           L == Len(attempts[c])
<1>1. /\ UNCHANGED <<status, approvedBy, req, batch, reconVars, raced>>
      /\ wpc[w] = "handling"
      /\ attempts' = [attempts EXCEPT ![c][slot[w]] = o]
      /\ wpc' = [wpc EXCEPT ![w] = AfterAttempt(w, o)]
      /\ queue' = queue /\ cur' = cur /\ tries' = tries /\ slot' = slot
  BY DEF Settle, escVars, reqVars
<1>2. /\ status' = status /\ approvedBy' = approvedBy /\ batch' = batch
      /\ rpc' = rpc /\ ract' = ract /\ rslot' = rslot /\ raced' = raced
  BY <1>1 DEF reconVars
<1>3. c \in Actions /\ c \in Driven(w)
  BY <1>1, DrivenShape DEF Driving
<1>4. /\ slot[w] \in DOMAIN attempts[c] /\ attempts[c][slot[w]] = "OPEN"
      /\ c \in Unraced => slot[w] = L
  BY <1>1 DEF HandlerAlone, OwnAttempt, Driving
<1>5. /\ \A a \in Actions \ {c} : attempts'[a] = attempts[a]
      /\ Ended(c, slot[w], o)
  BY <1>1, <1>3, <1>4 DEF Ended, TypeOK
<1>6. /\ Len(attempts'[c]) = L /\ L \in Nat \ {0}
      /\ DOMAIN attempts'[c] = 1 .. L /\ DOMAIN attempts[c] = 1 .. L
      /\ attempts'[c] # <<>> /\ slot[w] \in 1 .. L
      /\ \A n \in 1 .. L : attempts'[c][n] = IF n = slot[w] THEN o ELSE attempts[c][n]
      /\ c \in Unraced =>
           /\ attempts'[c][L] = o
           /\ \A n \in 1 .. L : n < L => attempts'[c][n] \in {"FAILED", "TIMED_OUT"}
  <2>1. /\ Len(attempts'[c]) = L /\ L \in Nat \ {0}
        /\ DOMAIN attempts'[c] = 1 .. L /\ attempts'[c] # <<>> /\ slot[w] \in 1 .. L
        /\ \A n \in 1 .. L : attempts'[c][n] = IF n = slot[w] THEN o ELSE attempts[c][n]
    BY <1>3, <1>5, EndedShape
  <2>2. DOMAIN attempts[c] = 1 .. L
    BY <1>3, HistoryShape
  <2>3. c \in Unraced => \A n \in 1 .. L : n < L => attempts[c][n] \in {"FAILED", "TIMED_OUT"}
    BY <1>3, <2>2 DEF SerialAttempts
  <2>4. QED
    BY <1>4, <2>1, <2>2, <2>3
<1>7. /\ wpc'[w] \in {"retry", "finish"}
      /\ wpc'[w] = "retry" => o \in {"FAILED", "TIMED_OUT"} /\ tries[w] < RetryBudget
      /\ \A v \in Workers \ {w} : wpc'[v] = wpc[v]
  BY <1>1 DEF AfterAttempt, ClosedOutcomes, TypeOK
<1>8. /\ ~ Undriven(c)
      /\ c \in Unraced => /\ status[c] \in Settled /\ Unread(c)
                          /\ \A v \in Workers \ {w} : c \notin Driven(v)
  BY <1>3 DEF DrivenClaimed, SingleDriver, Undriven
<1>9. /\ \A v \in Workers : Driven(v)' = Driven(v)
      /\ \A v \in Workers : Driven(v) \subseteq Actions /\ queue[v] \subseteq Driven(v)
      /\ \A v \in Workers : wpc[v] \in Driving => cur[v] \in Actions /\ cur[v] \in Driven(v)
      /\ c \notin queue[w]
  <2>1. \A v \in Workers : Driven(v)' = Driven(v)
    BY <1>1 DEF Driven
  <2>2. QED
    BY <1>1, <2>1, DrivenShape DEF Driving
<1>10. \A a \in Actions : /\ Undriven(a)' <=> Undriven(a)
                          /\ Unread(a)' <=> Unread(a)
                          /\ a # c => /\ Clean(a)' <=> Clean(a)
                                      /\ Startable(a)' <=> Startable(a)
  BY <1>2, <1>5, <1>9 DEF Undriven, Unread, Clean, Governed!Attemptable, Startable
<1>11. BatchFresh' /\ DrivenClaimed' /\ SingleDriver'
  BY <1>2, <1>9, <1>10 DEF BatchFresh, DrivenClaimed, SingleDriver
<1> HIDE DEF c, L
<1>12. OpenIsLast'
  <2>1. ASSUME NEW a \in Unraced, NEW n \in DOMAIN attempts'[a], attempts'[a][n] = "OPEN"
        PROVE  /\ n = Len(attempts'[a]) /\ status[a] \in Settled /\ Unread(a)
               /\ \A v \in Workers : a \in Driven(v) =>
                    wpc'[v] = "handling" /\ cur[v] = a
    <3>1. a # c
      <4>1. SUFFICES ASSUME a = c PROVE FALSE
        OBVIOUS
      <4>2. n \in 1 .. L /\ (n = L \/ n < L)
        BY <1>6, <2>1, <4>1
      <4>3. QED
        BY <1>6, <2>1, <4>1, <4>2 DEF ClosedOutcomes
    <3>2. /\ n = Len(attempts[a]) /\ status[a] \in Settled /\ Unread(a)
          /\ \A v \in Workers : a \in Driven(v) => wpc[v] = "handling" /\ cur[v] = a
      BY <1>5, <2>1, <3>1 DEF OpenIsLast
    <3>3. a \notin Driven(w)
      BY <3>1, <3>2 DEF c
    <3>4. QED
      BY <1>5, <1>7, <2>1, <3>1, <3>2, <3>3
  <2>2. QED
    BY <1>1, <1>2, <1>9, <1>10, <2>1 DEF OpenIsLast
<1>13. OwnAttempt' /\ BudgetSpent'
  <2>1. ASSUME NEW v \in Workers, v # w, wpc'[v] \in Driving
        PROVE  /\ wpc[v] \in Driving /\ wpc'[v] = wpc[v]
               /\ cur[v] \in Unraced => attempts'[cur[v]] = attempts[cur[v]]
    BY <1>5, <1>7, <1>8, <1>9, <2>1
  <2>2. /\ attempts'[cur[w]] # <<>>
        /\ attempts'[cur[w]][slot[w]] = o
        /\ Len(attempts'[cur[w]]) = Len(attempts[cur[w]])
        /\ cur[w] \in Unraced => slot[w] = Len(attempts'[cur[w]])
        /\ wpc[w] \in Driving
    BY <1>1, <1>4, <1>6 DEF c, L, Driving
  <2>3. OwnAttempt'
    BY <1>1, <1>2, <1>7, <2>1, <2>2 DEF OwnAttempt, ClosedOutcomes
  <2>4. BudgetSpent'
    BY <1>1, <1>2, <1>7, <2>1, <2>2 DEF BudgetSpent
  <2>5. QED
    BY <2>3, <2>4
<1>14. ReconcilerAlone'
  <2>1. ASSUME NEW r \in Reconcilers, rpc[r] # "idle", rpc[r] # "promote", ract[r] \in Unraced
        PROVE  attempts'[ract[r]] = attempts[ract[r]] /\ (Clean(ract[r])' <=> Clean(ract[r]))
    <3>1. ract[r] # c /\ ract[r] \in Actions
      BY <1>8, <2>1 DEF ReconcilerAlone
    <3>2. QED
      BY <1>2, <1>5, <1>10, <3>1
  <2>2. QED
    BY <1>2, <1>10, <2>1 DEF ReconcilerAlone
<1>15. SerialAttempts' /\ AttemptBound'
  BY <1>2, <1>5, <1>6 DEF SerialAttempts, AttemptBound, L
<1>16. StartableWhereClaimable'
  <2>1. ASSUME NEW a \in Unraced, status[a] \in {"NONE", "PROPOSED", "APPROVED", "SCHEDULED"}
        PROVE  a # c
    BY <1>8, <2>1 DEF Settled, TerminalStatuses
  <2>2. \A v \in Workers : c \notin queue[v] \ raced
    BY <1>3, <1>8, <1>9
  <2>3. \A s \in Schedulers : c \notin batch[s] \ raced
    BY <1>3, <1>8 DEF Unread
  <2>4. QED
    BY <1>1, <1>2, <1>9, <1>10, <2>1, <2>2, <2>3 DEF StartableWhereClaimable, TypeOK
<1>17. OutcomeFinal'
  BY <1>2, <1>5, <1>8, <1>10 DEF OutcomeFinal
<1>18. TicksApart' /\ HandlerAlone'
  <2>1. TicksApart'
    BY <1>2, TicksFrame
  <2>2. /\ \A a \in Actions : DOMAIN attempts'[a] = DOMAIN attempts[a]
        /\ \A a \in Actions : \A n \in DOMAIN attempts[a] :
             a # c \/ n # slot[w] => attempts'[a][n] = attempts[a][n]
    BY <1>5, <1>6
  <2>3. \A a : a \notin Actions => attempts'[a] = attempts[a]
    BY <1>1, <1>3
  <2>4. ASSUME NEW v \in Workers, wpc'[v] = "handling"
        PROVE  /\ wpc[v] = "handling" /\ cur[v] \in Actions
               /\ cur[v] # c \/ slot[v] # slot[w]
    BY <1>1, <1>7, <1>9, <2>4 DEF HandlerAlone, Driving, c
  <2>5. \A v \in Workers : wpc'[v] = "handling" =>
          /\ slot[v] \in DOMAIN attempts'[cur[v]]
          /\ attempts'[cur[v]][slot[v]] = "OPEN"
          /\ \A u \in Workers : u # v /\ wpc'[u] = "handling" =>
               cur[u] # cur[v] \/ slot[u] # slot[v]
    BY <2>2, <2>4 DEF HandlerAlone
  <2>6. \A r \in Reconcilers : rpc[r] = "close" =>
          /\ rslot[r] \in DOMAIN attempts'[ract[r]]
          /\ \A v \in Workers : ~ (wpc'[v] = "handling" /\ cur[v] = ract[r] /\ slot[v] = rslot[r])
    BY <2>2, <2>3, <2>4 DEF HandlerAlone, Handled
  <2>7. QED
    BY <1>1, <1>2, <2>1, <2>5, <2>6 DEF HandlerAlone, Handled
<1>19. ExecutionInv'
  BY <1>11, <1>12, <1>13, <1>14, <1>15, <1>16, <1>17, <1>18
<1> HIDE DEF ExecutionInv
<1>20. QED
  BY <1>1, <1>3, <1>5, <1>19 DEF c

(* Between attempts and after the last: the tick terminalizes its action,   *)
(* goes on to the next one, ends or dies.                                   *)
LEMMA LeaveExecution ==
  ASSUME TypeOK, WorkerShape, ApprovalInv, ExecutionInv, NEW w \in Workers,
         FinishRead(w) \/ FinishCommit(w) \/ WorkerDies(w)
  PROVE  /\ ExecutionInv'
         /\ UNCHANGED <<attempts, approvedBy, req, raced>>
         /\ \A a \in Actions : \/ status'[a] = status[a]
                               \/ approvedBy[a] # NoEntity /\ status'[a] # "PROPOSED"
<1> USE DEF ExecutionInv, Unraced
<1>1. UNCHANGED <<approvedBy, attempts, req, batch, reconVars, raced>>
  BY DEF FinishRead, FinishCommit, WorkerDies, escVars, reqVars
<1>2. /\ approvedBy' = approvedBy /\ attempts' = attempts /\ batch' = batch
      /\ rpc' = rpc /\ ract' = ract /\ rslot' = rslot /\ raced' = raced
  BY <1>1 DEF reconVars
<1>3. /\ \A v \in Workers \ {w} : wpc'[v] = wpc[v] /\ queue'[v] = queue[v] /\ cur'[v] = cur[v]
                                 /\ tries'[v] = tries[v] /\ slot'[v] = slot[v]
      /\ \/ /\ wpc[w] = "finish" /\ wpc'[w] = "write"
            /\ queue'[w] = queue[w] /\ cur'[w] = cur[w]
            /\ tries'[w] = tries[w] /\ slot'[w] = slot[w]
         \/ /\ wpc'[w] \in {"idle", "next"} /\ cur'[w] = NoAction
            /\ queue'[w] \subseteq queue[w]
  <2>1. CASE FinishRead(w) /\ status[cur[w]] = "RUNNING"
    BY <2>1 DEF FinishRead, TypeOK
  <2>2. CASE LeaveAction(w)
    BY <2>2 DEF LeaveAction, TypeOK
  <2>3. CASE WorkerDies(w)
    BY <2>3 DEF WorkerDies, TypeOK
  <2>4. QED
    BY <2>1, <2>2, <2>3 DEF FinishRead, FinishCommit
<1>4. /\ \A v \in Workers : /\ Driven(v)' \subseteq Driven(v)
                            /\ queue'[v] \subseteq queue[v]
                            /\ wpc'[v] \in {"handling", "retry"} => wpc'[v] = wpc[v]
                            /\ wpc[v] = "handling" /\ v # w => wpc'[v] = wpc[v]
                            /\ wpc'[v] \in Driving =>
                                 /\ wpc[v] \in Driving /\ cur'[v] = cur[v]
                                 /\ slot'[v] = slot[v] /\ tries'[v] = tries[v]
                                 /\ \/ wpc'[v] = wpc[v]
                                    \/ wpc[v] = "finish" /\ wpc'[v] = "write"
      /\ \A v \in Workers : Driven(v) \subseteq Actions
  <2>1. \A v \in Workers : Driven(v)' \subseteq Driven(v) /\ queue'[v] \subseteq queue[v]
    BY <1>3 DEF Driven
  <2>2. QED
    BY <1>3, <2>1, DrivenShape DEF Driving
<1>5. ASSUME NEW a \in Actions, status'[a] # status[a]
      PROVE  /\ a = cur[w] /\ wpc[w] = "write"
             /\ status'[a] # "PROPOSED"
             /\ approvedBy[a] # NoEntity
             /\ a \in Unraced =>
                  /\ status'[a] \in {"SUCCEEDED", "FAILED", "TIMED_OUT"}
                  /\ status[a] \in Settled
                  /\ status'[a] = attempts[a][Len(attempts[a])]
                  /\ attempts[a] # <<>>
                  /\ Undriven(a)'
  <2>1. FinishCommit(w)
    BY <1>5 DEF FinishRead, WorkerDies
  <2>2. /\ wpc[w] = "write" /\ CanTransition("RUNNING", LastResult(w))
        /\ status' = [status EXCEPT ![cur[w]] = LastResult(w)]
        /\ cur'[w] = NoAction
    BY <2>1 DEF FinishCommit, Transition, LeaveAction, TypeOK
  <2>3. a = cur[w] /\ status'[a] = LastResult(w) /\ approvedBy[a] # NoEntity
    BY <1>5, <2>2 DEF TypeOK, ApprovalInv, CarriedApproved
  <2>4. ASSUME a \in Unraced
        PROVE  /\ attempts[a] # <<>> /\ slot[w] = Len(attempts[a])
               /\ attempts[a][slot[w]] # "OPEN"
    BY <2>2, <2>3, <2>4 DEF OwnAttempt, Driving
  <2>5. /\ LastResult(w) # "PROPOSED"
        /\ a \in Unraced => LastResult(w) \in {"SUCCEEDED", "FAILED", "TIMED_OUT"}
    <3>1. LastResult(w) # "PROPOSED"
      BY <2>2 DEF CanTransition, LegalTransitions
    <3>2. ASSUME a \in Unraced PROVE LastResult(w) \in AttemptOutcomes
      BY <2>3, <2>4, <3>2, HistoryShape DEF LastResult
    <3>3. QED
      BY <2>3, <2>4, <3>1, <3>2 DEF LastResult, AttemptOutcomes, ClosedOutcomes
  <2>6. ASSUME a \in Unraced
        PROVE  status[a] \in Settled /\ \A v \in Workers \ {w} : a \notin Driven(v)
    BY <2>2, <2>3, <2>6, DrivenShape DEF DrivenClaimed, SingleDriver, Driving
  <2>7. a \in Unraced => Undriven(a)'
    BY <1>3, <1>4, <2>2, <2>3, <2>6, RuntimeAssumption, DrivenShape
    DEF Undriven, Driven, Driving
  <2>8. QED
    BY <2>2, <2>3, <2>4, <2>5, <2>6, <2>7 DEF LastResult
<1>6. /\ \A v \in Workers : Driven(v)' \subseteq Actions
      /\ \A a \in Actions : /\ Undriven(a) => Undriven(a)'
                            /\ Unread(a)' <=> Unread(a)
                            /\ Clean(a)' <=> Clean(a)
                            /\ Startable(a)' <=> Startable(a)
      /\ \A a \in Unraced : /\ status[a] \in Settled => status'[a] \in Settled
                            /\ status'[a] \notin Settled => status'[a] = status[a]
  <2>1. \A a \in Unraced : /\ status[a] \in Settled => status'[a] \in Settled
                           /\ status'[a] \notin Settled => status'[a] = status[a]
    BY <1>5 DEF Settled, TerminalStatuses
  <2>2. \A a \in Actions : /\ Undriven(a) => Undriven(a)'
                           /\ Unread(a)' <=> Unread(a)
    BY <1>2, <1>4 DEF Undriven, Unread
  <2>3. \A a \in Actions : /\ Clean(a)' <=> Clean(a)
                           /\ Startable(a)' <=> Startable(a)
    BY <1>2 DEF Clean, Governed!Attemptable, Startable
  <2>4. QED
    BY <1>4, <2>1, <2>2, <2>3
<1>7. BatchFresh'
  <2>1. ASSUME NEW s \in Schedulers, NEW a \in batch[s] \ raced
        PROVE  status'[a] = status[a]
    <3>1. a \in Unraced /\ ~ Unread(a)
      BY DEF Unread, TypeOK
    <3>2. wpc[w] = "write" => a # cur[w]
      BY <3>1, DrivenShape DEF DrivenClaimed, Driving
    <3>3. QED
      BY <1>5, <3>1, <3>2
  <2>2. QED
    BY <1>2, <2>1 DEF BatchFresh
<1>8. DrivenClaimed' /\ SingleDriver'
  <2>1. DrivenClaimed'
    BY <1>2, <1>4, <1>6 DEF DrivenClaimed
  <2>2. SingleDriver'
    BY <1>2, <1>4 DEF SingleDriver
  <2>3. QED
    BY <2>1, <2>2
<1>9. OpenIsLast'
  <2>1. ASSUME NEW a \in Unraced, NEW n \in DOMAIN attempts[a], attempts[a][n] = "OPEN",
               NEW v \in Workers, a \in Driven(v)'
        PROVE  wpc'[v] = "handling" /\ cur'[v] = a
    <3>1. wpc[v] = "handling" /\ cur[v] = a
      BY <1>4, <2>1 DEF OpenIsLast
    <3>2. v # w
      <4>1. SUFFICES ASSUME v = w PROVE FALSE
        OBVIOUS
      <4>2. wpc'[w] \in {"idle", "next"} /\ cur'[w] = NoAction /\ queue'[w] \subseteq queue[w]
        BY <1>3, <3>1, <4>1
      <4>3. a \notin queue[w]
        BY <3>1, <4>1, DrivenShape DEF Driving
      <4>4. QED
        BY <2>1, <4>1, <4>2, <4>3 DEF Driven
    <3>3. QED
      BY <1>3, <3>1, <3>2
  <2>2. QED
    BY <1>2, <1>6, <2>1 DEF OpenIsLast
<1>10. OwnAttempt'
  <2>1. ASSUME NEW v \in Workers, wpc'[v] \in Driving, wpc'[v] = wpc[v]
        PROVE  cur'[v] = cur[v] /\ slot'[v] = slot[v]
    BY <1>4, <2>1
  <2>2. ASSUME NEW v \in Workers, wpc'[v] \in Driving, wpc'[v] # wpc[v]
        PROVE  /\ cur'[v] = cur[v] /\ slot'[v] = slot[v]
               /\ wpc[v] = "finish" /\ wpc'[v] = "write"
    BY <1>4, <2>2
  <2>3. QED
    BY <1>2, <2>1, <2>2 DEF OwnAttempt, Driving
<1>11. BudgetSpent' /\ SerialAttempts' /\ AttemptBound'
  BY <1>2, <1>4 DEF BudgetSpent, SerialAttempts, AttemptBound
<1>12. ReconcilerAlone'
  BY <1>2, <1>6 DEF ReconcilerAlone
<1>13. StartableWhereClaimable'
  <2>1. \A a \in Unraced :
          status'[a] \in {"NONE", "PROPOSED", "APPROVED", "SCHEDULED"} => status'[a] = status[a]
    BY <1>5
  <2>2. QED
    BY <1>2, <1>4, <1>6, <2>1, DrivenShape DEF StartableWhereClaimable, TypeOK
<1>14. OutcomeFinal'
  BY <1>2, <1>5, <1>6 DEF OutcomeFinal
<1>15. TicksApart' /\ HandlerAlone'
  <2>1. \A v \in Workers : wpc'[v] = "handling" =>
          wpc[v] = "handling" /\ cur'[v] = cur[v] /\ slot'[v] = slot[v]
    BY <1>4 DEF Driving
  <2>2. QED
    BY <1>2, <2>1, TicksFrame, HandlerFrame
<1>16. ExecutionInv'
  BY <1>7, <1>8, <1>9, <1>10, <1>11, <1>12, <1>13, <1>14, <1>15
<1>17. \A a \in Actions : \/ status'[a] = status[a]
                          \/ approvedBy[a] # NoEntity /\ status'[a] # "PROPOSED"
  BY <1>5
<1> HIDE DEF ExecutionInv
<1>18. QED
  BY <1>1, <1>16, <1>17

-----------------------------------------------------------------------------
(* The reconciler.  It works on an action no tick drives any more; only an  *)
(* action that waits in a batch for more than two minutes can be timed out  *)
(* while it is driven, and its attempts are not touched.                    *)

(* Listing, deciding, requeueing, timing out: the attempts stay.            *)
LEMMA ReconcilerExecution ==
  ASSUME TypeOK, WorkerShape, ApprovalInv, ExecutionInv,
         NEW r \in Reconcilers,
         \/ \E a \in Actions : \E n \in DOMAIN attempts[a] : ListStale(r, a, n)
         \/ \E a \in Actions : PromoteOrphanRead(r, a)
         \/ ReconcileRead(r) \/ ReconcileReread(r)
         \/ RequeueCommit(r) \/ TimeOutCommit(r) \/ ReconcilerDies(r)
  PROVE  /\ ExecutionInv'
         /\ UNCHANGED <<attempts, approvedBy, req>>
         /\ raced \subseteq raced' /\ raced' \subseteq Actions
         /\ \A a \in Actions : \/ status'[a] = status[a]
                               \/ approvedBy[a] # NoEntity /\ status'[a] # "PROPOSED"
<1> USE DEF ExecutionInv, Unraced
<1>1. /\ UNCHANGED <<approvedBy, attempts, req, batch, workerVars>>
      /\ raced \subseteq raced' /\ raced' \subseteq Actions
      /\ \A q \in Reconcilers \ {r} :
           rpc'[q] = rpc[q] /\ ract'[q] = ract[q] /\ rslot'[q] = rslot[q]
  BY DEF ListStale, PromoteOrphanRead, ReconcileRead, ReconcileReread, RequeueCommit,
         TimeOutCommit, ReconcilerDies, RestReconciler, escVars, reqVars, TypeOK
<1>2. /\ approvedBy' = approvedBy /\ attempts' = attempts /\ batch' = batch
      /\ wpc' = wpc /\ queue' = queue /\ cur' = cur /\ tries' = tries /\ slot' = slot
  BY <1>1 DEF workerVars
<1>3. ASSUME NEW a \in Actions, status'[a] # status[a]
      PROVE  /\ a = ract[r] /\ rpc[r] # "idle" /\ approvedBy[a] # NoEntity
             /\ status'[a] \in {"TIMED_OUT", "SCHEDULED"}
             /\ a \in Unraced =>
                  /\ \A q \in Reconcilers \ {r} : rpc[q] # "idle" => ract[q] # a
                  /\ Unread(a)
                  /\ status'[a] = "SCHEDULED" => Undriven(a) /\ Startable(a)
  <2>1. /\ a = ract[r] /\ rpc[r] # "idle"
        /\ \/ status'[a] = "TIMED_OUT"
           \/ status'[a] = "SCHEDULED" /\ rpc[r] = "requeueing"
    <3>1. CASE RequeueCommit(r)
      BY <1>3, <3>1 DEF RequeueCommit, Transition, TypeOK
    <3>2. CASE TimeOutCommit(r)
      BY <1>3, <3>2 DEF TimeOutCommit, Transition, TypeOK
    <3>3. CASE status' = status
      BY <1>3, <3>3
    <3>4. QED
      BY <3>1, <3>2, <3>3
      DEF ListStale, PromoteOrphanRead, ReconcileRead, ReconcileReread, ReconcilerDies
  <2>2. approvedBy[a] # NoEntity
    BY <2>1 DEF ApprovalInv, CarriedApproved
  <2>3. a \in Unraced =>
          /\ \A q \in Reconcilers \ {r} : rpc[q] # "idle" => ract[q] # a
          /\ Unread(a)
    BY <2>1 DEF TicksApart, ReconcilerAlone
  <2>4. a \in Unraced /\ status'[a] = "SCHEDULED" => Undriven(a) /\ Startable(a)
    BY <2>1 DEF ReconcilerAlone, Startable
  <2>5. QED
    BY <2>1, <2>2, <2>3, <2>4
<1>4. /\ \A w \in Workers : Driven(w)' = Driven(w) /\ Driven(w) \subseteq Actions
      /\ \A a \in Actions : /\ Undriven(a)' <=> Undriven(a)
                            /\ Unread(a)' <=> Unread(a)
                            /\ Clean(a)' <=> Clean(a)
                            /\ Startable(a)' <=> Startable(a)
  BY <1>2, DrivenShape DEF Driven, Undriven, Unread, Clean, Governed!Attemptable, Startable
(* The actions two reconcilers now overlap on leave the invariant. *)
<1>5. ASSUME NEW a \in Actions, NEW n \in DOMAIN attempts[a], ListStale(r, a, n)
      PROVE  /\ rpc'[r] = "close" /\ ract'[r] = a /\ rslot'[r] = n /\ status' = status
             /\ attempts[a] # <<>> /\ ~ Handled(a, n)
             /\ \A q \in Reconcilers : rpc[q] # "idle" /\ ract[q] = a => a \in raced'
             /\ a \in Unraced =>
                  /\ n = Len(attempts[a]) /\ attempts[a][n] = "OPEN"
                  /\ status[a] \in Settled /\ Unread(a) /\ Undriven(a)
  <2>1. /\ rpc'[r] = "close" /\ ract'[r] = a /\ rslot'[r] = n /\ status' = status
        /\ attempts[a][n] = "OPEN" /\ ~ Handled(a, n)
        /\ \A q \in Reconcilers : rpc[q] # "idle" /\ ract[q] = a => a \in raced'
    BY <1>5 DEF ListStale, Stale, WorkedOn, TypeOK
  <2>2. attempts[a] # <<>>
    BY HistoryShape
  <2>3. ASSUME a \in Unraced
        PROVE  /\ n = Len(attempts[a])
               /\ status[a] \in Settled /\ Unread(a) /\ Undriven(a)
    <3>1. /\ n = Len(attempts[a]) /\ status[a] \in Settled /\ Unread(a)
          /\ \A w \in Workers : a \in Driven(w) => wpc[w] = "handling" /\ cur[w] = a
      BY <2>1, <2>3 DEF OpenIsLast
    <3>2. Undriven(a)
      BY <2>1, <2>3, <3>1 DEF Undriven, Handled, OwnAttempt, Driving
    <3>3. QED
      BY <3>1, <3>2
  <2>4. QED
    BY <2>1, <2>2, <2>3
<1>6. ASSUME NEW a \in Actions, PromoteOrphanRead(r, a)
      PROVE  /\ rpc'[r] = "promote" /\ ract'[r] = a /\ status' = status
             /\ \A q \in Reconcilers : rpc[q] # "idle" /\ ract[q] = a => a \in raced'
             /\ a \in Unraced => status[a] \in Settled /\ Unread(a)
  <2>1. /\ rpc'[r] = "promote" /\ ract'[r] = a /\ status' = status
        /\ status[a] = "RUNNING"
        /\ \A q \in Reconcilers : rpc[q] # "idle" /\ ract[q] = a => a \in raced'
    BY <1>6 DEF PromoteOrphanRead, WorkedOn, TypeOK
  <2>2. a \in Unraced => status[a] \in Settled /\ Unread(a)
    BY <2>1 DEF Settled, BatchFresh, Unread
  <2>3. QED
    BY <2>1, <2>2
<1>7. \/ \E a \in Actions : \E n \in DOMAIN attempts[a] : ListStale(r, a, n)
      \/ \E a \in Actions : PromoteOrphanRead(r, a)
      \/ /\ status' = status /\ ract'[r] = ract[r] /\ rslot'[r] = rslot[r]
         /\ \/ rpc[r] = "decide" /\ rpc'[r] = AfterStale(ract[r])
            \/ rpc[r] = "requeue" /\ rpc'[r] = "requeueing"
            \/ rpc[r] = "exhaust" /\ rpc'[r] = "exhausting"
      \/ rpc'[r] = "idle"
  <2>1. CASE ReconcileRead(r)
    BY <2>1 DEF ReconcileRead, RestReconciler, TypeOK
  <2>2. CASE ReconcileReread(r)
    BY <2>2 DEF ReconcileReread, RestReconciler, TypeOK
  <2>3. CASE RequeueCommit(r) \/ TimeOutCommit(r) \/ ReconcilerDies(r)
    BY <2>3 DEF RequeueCommit, TimeOutCommit, ReconcilerDies, RestReconciler, TypeOK
  <2>4. QED
    BY <2>1, <2>2, <2>3
<1>8. AfterStale(ract[r]) \in {"requeue", "exhaust"}
      /\ (AfterStale(ract[r]) = "requeue" => Len(attempts[ract[r]]) < RetryBudget)
  BY DEF AfterStale
<1>9. ReconcilerAlone'
  <2>1. ASSUME NEW q \in Reconcilers, q # r, rpc[q] # "idle", ract[q] \in Unraced
        PROVE  status'[ract[q]] = status[ract[q]]
    BY <1>3, <2>1
  <2>2. ASSUME rpc'[r] # "idle", ract'[r] \in Unraced
        PROVE  /\ status'[ract'[r]] \in Settled
               /\ Unread(ract'[r])
               /\ rpc'[r] # "promote" => Undriven(ract'[r])
               /\ rpc'[r] = "close" =>
                    /\ attempts[ract'[r]] # <<>>
                    /\ rslot'[r] = Len(attempts[ract'[r]])
                    /\ attempts[ract'[r]][rslot'[r]] = "OPEN"
               /\ rpc'[r] \notin {"close", "promote"} => Clean(ract'[r])
               /\ rpc'[r] \in {"requeue", "requeueing"} =>
                    Len(attempts[ract'[r]]) < RetryBudget
    <3>1. ASSUME NEW a \in Actions, NEW n \in DOMAIN attempts[a], ListStale(r, a, n)
          PROVE  /\ rpc'[r] = "close" /\ status'[ract'[r]] \in Settled /\ Unread(ract'[r])
                 /\ Undriven(ract'[r]) /\ attempts[ract'[r]] # <<>>
                 /\ rslot'[r] = Len(attempts[ract'[r]])
                 /\ attempts[ract'[r]][rslot'[r]] = "OPEN"
      BY <1>5, <2>2, <3>1
    <3>2. ASSUME NEW a \in Actions, PromoteOrphanRead(r, a)
          PROVE  /\ rpc'[r] = "promote" /\ status'[ract'[r]] \in Settled /\ Unread(ract'[r])
      BY <1>6, <2>2, <3>2
    <3>3. CASE /\ status' = status /\ ract'[r] = ract[r] /\ rslot'[r] = rslot[r]
               /\ \/ rpc[r] = "decide" /\ rpc'[r] = AfterStale(ract[r])
                  \/ rpc[r] = "requeue" /\ rpc'[r] = "requeueing"
                  \/ rpc[r] = "exhaust" /\ rpc'[r] = "exhausting"
      BY <1>8, <2>2, <3>3 DEF ReconcilerAlone
    <3>4. QED
      BY <1>7, <2>2, <3>1, <3>2, <3>3
  <2>3. ASSUME NEW q \in Reconcilers, rpc'[q] # "idle", ract'[q] \in Unraced'
        PROVE  /\ status'[ract'[q]] \in Settled
               /\ Unread(ract'[q])
               /\ rpc'[q] # "promote" => Undriven(ract'[q])
               /\ rpc'[q] = "close" =>
                    /\ attempts[ract'[q]] # <<>>
                    /\ rslot'[q] = Len(attempts[ract'[q]])
                    /\ attempts[ract'[q]][rslot'[q]] = "OPEN"
               /\ rpc'[q] \notin {"close", "promote"} => Clean(ract'[q])
               /\ rpc'[q] \in {"requeue", "requeueing"} =>
                    Len(attempts[ract'[q]]) < RetryBudget
    <3>1. ract'[q] \in Unraced
      BY <1>1, <2>3
    <3>2. CASE q = r
      BY <2>2, <2>3, <3>1, <3>2
    <3>3. CASE q # r
      BY <1>1, <2>1, <2>3, <3>1, <3>3 DEF ReconcilerAlone
    <3>4. QED
      BY <3>2, <3>3
  <2>4. \A a \in Actions : (Undriven(a)' <=> Undriven(a)) /\ (Unread(a)' <=> Unread(a))
                           /\ (Clean(a)' <=> Clean(a))
    BY <1>4
  <2>5. QED
    BY <1>2, <2>3, <2>4 DEF ReconcilerAlone
<1>10. BatchFresh'
  <2>1. ASSUME NEW s \in Schedulers, NEW a \in batch[s] \ raced
        PROVE  status'[a] = status[a]
    <3>1. a \in Unraced /\ ~ Unread(a)
      BY DEF Unread, TypeOK
    <3>2. QED
      BY <1>3, <3>1
  <2>2. QED
    BY <1>1, <1>2, <2>1 DEF BatchFresh
<1>11. DrivenClaimed' /\ SingleDriver'
  <2>1. DrivenClaimed'
    BY <1>1, <1>3, <1>4 DEF DrivenClaimed, Undriven, Settled, TerminalStatuses
  <2>2. SingleDriver'
    BY <1>1, <1>4 DEF SingleDriver
  <2>3. QED
    BY <2>1, <2>2
<1>12. OpenIsLast'
  <2>1. ASSUME NEW a \in Unraced, NEW n \in DOMAIN attempts[a], attempts[a][n] = "OPEN"
        PROVE  status'[a] \in Settled
    <3>1. ~ Startable(a)
      BY <2>1, CleanShape DEF Startable
    <3>2. QED
      BY <1>3, <2>1, <3>1 DEF OpenIsLast, Settled, TerminalStatuses
  <2>2. QED
    BY <1>1, <1>2, <1>4, <2>1 DEF OpenIsLast
<1>13. OwnAttempt' /\ SerialAttempts' /\ BudgetSpent' /\ AttemptBound'
  BY <1>1, <1>2 DEF OwnAttempt, SerialAttempts, BudgetSpent, AttemptBound
<1>14. StartableWhereClaimable'
  BY <1>1, <1>2, <1>3, <1>4 DEF StartableWhereClaimable, TypeOK
<1>15. OutcomeFinal'
  BY <1>1, <1>2, <1>3, <1>4 DEF OutcomeFinal
<1>16. TicksApart'
  <2>1. \A s, t \in Schedulers : s # t => batch'[s] \cap batch'[t] \subseteq raced'
    BY <1>1, <1>2 DEF TicksApart
  <2>2. ASSUME NEW q \in Reconcilers, q # r, rpc[q] # "idle", rpc'[r] # "idle",
               ract'[r] = ract[q]
        PROVE  ract[q] \in raced'
    <3>1. ASSUME rpc[r] # "idle", ract'[r] = ract[r]
          PROVE  ract[q] \in raced'
      BY <1>1, <2>2, <3>1 DEF TicksApart
    <3>2. QED
      BY <1>5, <1>6, <1>7, <2>2, <3>1
  <2>3. \A p, q \in Reconcilers :
          p # q /\ rpc'[p] # "idle" /\ rpc'[q] # "idle" /\ ract'[p] = ract'[q] =>
            ract'[p] \in raced'
    <3>1. ASSUME NEW p \in Reconcilers \ {r}, NEW q \in Reconcilers \ {r}, p # q,
                 rpc'[p] # "idle", rpc'[q] # "idle", ract'[p] = ract'[q]
          PROVE  ract'[p] \in raced'
      BY <1>1, <3>1 DEF TicksApart
    <3>2. QED
      BY <1>1, <2>2, <3>1
  <2>4. QED
    BY <2>1, <2>3 DEF TicksApart
<1>17. HandlerAlone'
  <2>1. ASSUME NEW q \in Reconcilers, rpc'[q] = "close"
        PROVE  rslot'[q] \in DOMAIN attempts[ract'[q]] /\ ~ Handled(ract'[q], rslot'[q])
    <3>1. CASE q = r
      BY <1>5, <1>6, <1>7, <1>8, <2>1, <3>1
    <3>2. CASE q # r
      BY <1>1, <2>1, <3>2 DEF HandlerAlone
    <3>3. QED
      BY <3>1, <3>2
  <2>2. QED
    BY <1>2, <2>1 DEF HandlerAlone, Handled
<1>18. ExecutionInv'
  BY <1>9, <1>10, <1>11, <1>12, <1>13, <1>14, <1>15, <1>16, <1>17
<1>19. \A a \in Actions : \/ status'[a] = status[a]
                          \/ approvedBy[a] # NoEntity /\ status'[a] # "PROPOSED"
  BY <1>3
<1> HIDE DEF ExecutionInv
<1>20. QED
  BY <1>1, <1>18, <1>19

(* Closing a stale attempt.  No handler holds it; if a second reconciler    *)
(* has closed it already, the action is raced and the attempt stays.        *)
LEMMA CloseStaleExecution ==
  ASSUME TypeOK, WorkerShape, ApprovalInv, ExecutionInv,
         NEW r \in Reconcilers, CloseStale(r)
  PROVE  /\ ExecutionInv'
         /\ UNCHANGED <<status, approvedBy, req, raced>>
         /\ ract[r] \in Actions
         /\ attempts' = attempts \/ Ended(ract[r], rslot[r], "TIMED_OUT")
         /\ \A a \in Actions \ {ract[r]} : attempts'[a] = attempts[a]
<1> USE DEF ExecutionInv, Unraced
<1> DEFINE c == ract[r]
           L == Len(attempts[c])
<1>1. /\ UNCHANGED <<status, approvedBy, req, batch, workerVars, ract, rslot, raced>>
      /\ rpc[r] = "close"
  BY DEF CloseStale, escVars, reqVars
<1>2. /\ status' = status /\ approvedBy' = approvedBy /\ batch' = batch
      /\ ract' = ract /\ rslot' = rslot /\ raced' = raced
      /\ wpc' = wpc /\ queue' = queue /\ cur' = cur /\ tries' = tries /\ slot' = slot
  BY <1>1 DEF workerVars
<1>3. /\ c \in Actions /\ rslot[r] \in DOMAIN attempts[c] /\ ~ Handled(c, rslot[r])
      /\ c \in Unraced =>
           /\ status[c] \in Settled /\ Unread(c) /\ Undriven(c)
           /\ attempts[c] # <<>> /\ rslot[r] = L /\ attempts[c][L] = "OPEN"
           /\ \A q \in Reconcilers \ {r} : rpc[q] # "idle" => ract[q] # c
  BY <1>1 DEF ReconcilerAlone, HandlerAlone, TicksApart, ApprovalInv, CarriedApproved
<1>4. /\ \A a \in Actions \ {c} : attempts'[a] = attempts[a]
      /\ attempts' = attempts \/ Ended(c, rslot[r], "TIMED_OUT")
      /\ c \in Unraced => Ended(c, rslot[r], "TIMED_OUT")
      /\ rpc'[r] = "decide" /\ \A q \in Reconcilers \ {r} : rpc'[q] = rpc[q]
  BY <1>3 DEF CloseStale, StaleOutcome, Ended, TypeOK
<1>5. c \in Unraced =>
        /\ Len(attempts'[c]) = L /\ DOMAIN attempts'[c] = 1 .. L
        /\ \A n \in 1 .. L : attempts'[c][n] \in {"FAILED", "TIMED_OUT"}
  <2> SUFFICES ASSUME c \in Unraced
               PROVE  /\ Len(attempts'[c]) = L /\ DOMAIN attempts'[c] = 1 .. L
                      /\ \A n \in 1 .. L : attempts'[c][n] \in {"FAILED", "TIMED_OUT"}
    OBVIOUS
  <2>1. /\ Len(attempts'[c]) = L /\ L \in Nat
        /\ DOMAIN attempts'[c] = 1 .. L
        /\ \A n \in 1 .. L :
             attempts'[c][n] = IF n = L THEN "TIMED_OUT" ELSE attempts[c][n]
    BY <1>3, <1>4, EndedShape DEF ClosedOutcomes
  <2>2. DOMAIN attempts[c] = 1 .. L
    BY <1>3, HistoryShape
  <2>3. \A n \in 1 .. L : n # L => attempts[c][n] \in {"FAILED", "TIMED_OUT"}
    BY <1>3, <2>1, <2>2 DEF SerialAttempts
  <2>4. QED
    BY <2>1, <2>3
<1>6. c \in Unraced => Clean(c)'
  BY <1>2, <1>5 DEF Clean, Governed!Attemptable
<1>7. /\ \A w \in Workers : Driven(w)' = Driven(w)
      /\ \A w \in Workers : queue[w] \subseteq Driven(w)
      /\ \A w \in Workers : wpc[w] \in Driving => cur[w] \in Actions /\ cur[w] \in Driven(w)
  <2>1. \A w \in Workers : Driven(w)' = Driven(w)
    BY <1>2 DEF Driven
  <2>2. QED
    BY <2>1, DrivenShape
<1>8. \A a \in Actions : /\ Undriven(a)' <=> Undriven(a)
                         /\ Unread(a)' <=> Unread(a)
                         /\ a # c => /\ Clean(a)' <=> Clean(a)
                                     /\ Startable(a)' <=> Startable(a)
  BY <1>2, <1>4, <1>7 DEF Undriven, Unread, Clean, Governed!Attemptable, Startable
<1> HIDE DEF c, L
<1>9. BatchFresh' /\ DrivenClaimed' /\ SingleDriver'
  BY <1>2, <1>7, <1>8, DrivenShape DEF BatchFresh, DrivenClaimed, SingleDriver
<1>10. OpenIsLast'
  <2>1. ASSUME NEW a \in Unraced, NEW n \in DOMAIN attempts'[a], attempts'[a][n] = "OPEN"
        PROVE  a # c
    BY <1>5, <2>1
  <2>2. QED
    BY <1>2, <1>4, <1>7, <1>8, <2>1 DEF OpenIsLast
<1>11. OwnAttempt' /\ BudgetSpent'
  <2>1. ASSUME NEW w \in Workers, wpc[w] \in Driving, cur[w] \in Unraced
        PROVE  attempts'[cur[w]] = attempts[cur[w]]
    BY <1>3, <1>4, <1>7, <2>1 DEF Undriven
  <2>2. QED
    BY <1>2, <2>1 DEF OwnAttempt, BudgetSpent
<1>12. ReconcilerAlone'
  <2>1. ASSUME NEW q \in Reconcilers, q # r, rpc[q] # "idle", ract[q] \in Unraced
        PROVE  /\ ract[q] # c /\ ract[q] \in Actions
               /\ attempts'[ract[q]] = attempts[ract[q]]
               /\ Clean(ract[q])' <=> Clean(ract[q])
    BY <1>2, <1>3, <1>4, <1>8, <2>1
  <2>2. QED
    BY <1>2, <1>3, <1>4, <1>6, <1>8, <2>1 DEF ReconcilerAlone, c
<1>13. SerialAttempts' /\ AttemptBound'
  BY <1>2, <1>3, <1>4, <1>5 DEF SerialAttempts, AttemptBound, L
<1>14. StartableWhereClaimable'
  <2>1. ASSUME NEW a \in Unraced, status[a] \in {"NONE", "PROPOSED", "APPROVED", "SCHEDULED"}
        PROVE  a # c
    BY <1>3, <2>1 DEF Settled, TerminalStatuses
  <2>2. QED
    BY <1>2, <1>3, <1>7, <1>8, <2>1 DEF StartableWhereClaimable, Unread, Undriven, TypeOK
<1>15. OutcomeFinal'
  <2>1. c \in Unraced => status[c] \notin {"SUCCEEDED", "FAILED"}
    BY <1>3 DEF OutcomeFinal, L
  <2>2. QED
    BY <1>2, <1>4, <1>8, <2>1 DEF OutcomeFinal
<1>16. TicksApart' /\ HandlerAlone'
  <2>1. TicksApart'
    BY <1>1, <1>2, <1>4, TicksFrame
  <2>2. \A a \in Actions : \A n \in DOMAIN attempts[a] :
          /\ n \in DOMAIN attempts'[a]
          /\ a # c \/ n # rslot[r] => attempts'[a][n] = attempts[a][n]
    <3>1. CASE attempts' = attempts
      BY <3>1
    <3>2. CASE Ended(c, rslot[r], "TIMED_OUT")
      BY <1>4, <3>2 DEF Ended
    <3>3. QED
      BY <1>4, <3>1, <3>2 DEF c
  <2>3. \A w \in Workers : wpc[w] = "handling" =>
          cur[w] \in Actions /\ (cur[w] # c \/ slot[w] # rslot[r])
    BY <1>3, <1>7 DEF Handled, Driving
  <2>4. \A q \in Reconcilers : rpc'[q] = "close" => rpc[q] = "close" /\ ract[q] \in Actions
    BY <1>4 DEF ApprovalInv, CarriedApproved
  <2>5. \A w \in Workers : wpc[w] = "handling" =>
          /\ slot[w] \in DOMAIN attempts'[cur[w]]
          /\ attempts'[cur[w]][slot[w]] = "OPEN"
    BY <2>2, <2>3 DEF HandlerAlone
  <2>6. \A q \in Reconcilers : rpc'[q] = "close" =>
          rslot[q] \in DOMAIN attempts'[ract[q]] /\ ~ Handled(ract[q], rslot[q])
    BY <2>2, <2>4 DEF HandlerAlone
  <2>7. QED
    BY <1>2, <2>1, <2>5, <2>6 DEF HandlerAlone, Handled
<1>17. ExecutionInv'
  BY <1>9, <1>10, <1>11, <1>12, <1>13, <1>14, <1>15, <1>16
<1> HIDE DEF ExecutionInv
<1>18. QED
  BY <1>1, <1>3, <1>4, <1>17 DEF c

-----------------------------------------------------------------------------
(* All steps together.                                                      *)

(* What a step does to the approvals on record, the overlaps and the        *)
(* attempt histories: it records one approval, notes overlaps, opens one    *)
(* attempt of an approved action - all of whose attempts failed unless it   *)
(* is raced - or closes one that is open.                                   *)
HistoryStep ==
  \/ /\ approvedBy' = approvedBy /\ attempts' = attempts
     /\ raced \subseteq raced' /\ raced' \subseteq Actions
  \/ /\ attempts' = attempts /\ raced' = raced
     /\ \E a \in Actions :
          /\ approvedBy[a] # NoEntity => approvedBy'[a] # NoEntity
          /\ \A b \in Actions \ {a} : approvedBy'[b] = approvedBy[b]
  \/ /\ approvedBy' = approvedBy /\ raced' = raced
     /\ \E a \in Actions :
          /\ approvedBy[a] # NoEntity
          /\ Opened(a)
          /\ a \notin raced => Clean(a) /\ Len(attempts[a]) < 2 * RetryBudget - 1
          /\ \A b \in Actions \ {a} : attempts'[b] = attempts[b]
  \/ /\ approvedBy' = approvedBy /\ raced' = raced
     /\ \E a \in Actions, n \in Nat, o \in ClosedOutcomes :
          /\ Ended(a, n, o)
          /\ \A b \in Actions \ {a} : attempts'[b] = attempts[b]

LEMMA ResolutionSteps ==
  ASSUME TypeOK, WorkerShape, ApprovalInv, ResolutionInv, ExecutionInv,
         \/ \E e \in Entities, a \in Actions, d \in Decisions,
               t \in Entities \cup {NoEntity} : Create(e, a, d, t)
         \/ \E r \in Requests, e \in Entities, a \in Actions :
              \/ \E v \in Verdicts : ResolveRead(r, e, a, v)
              \/ CancelRead(r, e, a)
              \/ RunningCancelCheck(r, e, a)
         \/ \E r \in Requests : RequestStep(r)
  PROVE  ExecutionInv' /\ ResolutionInv' /\ HistoryStep
<1>1. OutsideExecution /\ ResolutionInv'
  <2>1. ASSUME NEW r \in Requests, NEW e \in Entities, NEW a \in Actions,
               \/ \E v \in Verdicts : ResolveRead(r, e, a, v)
               \/ CancelRead(r, e, a)
               \/ RunningCancelCheck(r, e, a)
        PROVE  OutsideExecution /\ ResolutionInv'
    BY <2>1, RequestOutside
  <2>2. ASSUME NEW r \in Requests, RequestStep(r)
        PROVE  OutsideExecution /\ ResolutionInv'
    BY <2>2, RequestOutside, ResolveOutside DEF RequestStep
  <2>3. QED
    BY <2>1, <2>2, CreateOutside
<1>2. ExecutionInv'
  BY <1>1, OutsideInvariant
<1>3. /\ attempts' = attempts /\ raced' = raced
      /\ \A a \in Actions : approvedBy[a] # NoEntity => approvedBy'[a] # NoEntity
  BY <1>1 DEF OutsideExecution
<1>4. \/ approvedBy' = approvedBy
      \/ \E a \in Actions : \A b \in Actions \ {a} : approvedBy'[b] = approvedBy[b]
  <2>1. ASSUME NEW e \in Entities, NEW a \in Actions, NEW d \in Decisions,
               NEW t \in Entities \cup {NoEntity}, Create(e, a, d, t)
        PROVE  \A b \in Actions \ {a} : approvedBy'[b] = approvedBy[b]
    BY <2>1 DEF Create, TypeOK
  <2>2. ASSUME NEW r \in Requests, ResolveCommit(r)
        PROVE  /\ req[r].act \in Actions
               /\ \A b \in Actions \ {req[r].act} : approvedBy'[b] = approvedBy[b]
    BY <2>2 DEF ResolveCommit, ApprovalInv, ResolveShape, TypeOK
  <2>3. ASSUME NEW r \in Requests, RequestStep(r), ~ ResolveCommit(r)
        PROVE  approvedBy' = approvedBy
    BY <2>3 DEF RequestStep, ResolveLock, CancelCommit, MarkUsedRead, MarkUsedCommit,
                RunningCancelRead, escVars
  <2>4. ASSUME NEW r \in Requests, NEW e \in Entities, NEW a \in Actions,
               \/ \E v \in Verdicts : ResolveRead(r, e, a, v)
               \/ CancelRead(r, e, a)
               \/ RunningCancelCheck(r, e, a)
        PROVE  approvedBy' = approvedBy
    BY <2>4 DEF ResolveRead, CancelRead, RunningCancelCheck, escVars
  <2>5. QED
    BY <2>1, <2>2, <2>3, <2>4
<1>5. HistoryStep
  BY <1>3, <1>4 DEF HistoryStep, TypeOK
<1>6. QED
  BY <1>1, <1>2, <1>5

LEMMA ExecutionSteps ==
  ASSUME TypeOK, WorkerShape, ApprovalInv, ResolutionInv, ExecutionInv,
         \/ \E s \in Schedulers : AdmitRead(s) \/ AdmitCommit(s)
         \/ \E w \in Workers :
              \/ \E S \in SUBSET Actions : Claim(w, S)
              \/ WorkerStep(w)
              \/ WorkerDies(w)
         \/ \E r \in Reconcilers : ReconcilerStep(r) \/ ReconcilerDies(r)
  PROVE  ExecutionInv' /\ ResolutionInv' /\ HistoryStep
<1>1. ASSUME NEW s \in Schedulers, AdmitRead(s) \/ AdmitCommit(s)
      PROVE  ExecutionInv' /\ ResolutionInv' /\ HistoryStep
  <2>1. ExecutionInv'
    BY <1>1, AdmitReadExecution, AdmitCommitExecution
  <2>2. /\ UNCHANGED <<approvedBy, attempts, req>>
        /\ raced \subseteq raced' /\ raced' \subseteq Actions
    BY <1>1 DEF AdmitRead, AdmitCommit, escVars, reqVars, TypeOK
  <2>3. \A a \in Actions : \/ status'[a] = status[a]
                           \/ approvedBy[a] # NoEntity /\ status'[a] # "PROPOSED"
    BY <1>1 DEF AdmitRead, AdmitCommit, ApprovalInv, CarriedApproved, TypeOK
  <2>4. ResolutionInv'
    BY <2>2, <2>3, ExecutionKeepsResolution
  <2>5. QED
    BY <2>1, <2>2, <2>4 DEF HistoryStep
<1>2. ASSUME NEW w \in Workers, NEW S \in SUBSET Actions, Claim(w, S)
      PROVE  ExecutionInv' /\ ResolutionInv' /\ HistoryStep
  <2>1. ExecutionInv'
    BY <1>2, ClaimExecution
  <2>2. UNCHANGED <<approvedBy, attempts, req, raced>>
    BY <1>2 DEF Claim, escVars, reqVars
  <2>3. \A a \in Actions : \/ status'[a] = status[a]
                           \/ approvedBy[a] # NoEntity /\ status'[a] # "PROPOSED"
    BY <1>2 DEF Claim, Claimable, ApprovalInv, ApprovalRecorded, TypeOK
  <2>4. ResolutionInv'
    BY <2>2, <2>3, ExecutionKeepsResolution
  <2>5. QED
    BY <2>1, <2>2, <2>4 DEF HistoryStep, TypeOK
<1>3. ASSUME NEW w \in Workers, (\E a \in Actions : StartAction(w, a)) \/ RetryAttempt(w)
      PROVE  ExecutionInv' /\ ResolutionInv' /\ HistoryStep
  <2>1. /\ ExecutionInv'
        /\ UNCHANGED <<status, approvedBy, req, raced>>
    BY <1>3, OpenExecution
  <2>2. PICK c \in Actions :
          /\ c \in Driven(w)
          /\ Opened(c)
          /\ c \notin raced => Clean(c) /\ Len(attempts[c]) < 2 * RetryBudget - 1
          /\ \A a \in Actions \ {c} : attempts'[a] = attempts[a]
    BY <1>3, OpenExecution
  <2>3. approvedBy[c] # NoEntity
    BY <2>2 DEF Driven, ApprovalInv, CarriedApproved
  <2>4. ResolutionInv'
    BY <2>1, ExecutionKeepsResolution
  <2>5. HistoryStep
    BY <2>1, <2>2, <2>3 DEF HistoryStep
  <2>6. QED
    BY <2>1, <2>4, <2>5
<1>4. ASSUME NEW w \in Workers, NEW o \in ClosedOutcomes, Settle(w, o)
      PROVE  ExecutionInv' /\ ResolutionInv' /\ HistoryStep
  <2>1. /\ ExecutionInv'
        /\ UNCHANGED <<status, approvedBy, req, raced>>
        /\ Ended(cur[w], slot[w], o) /\ cur[w] \in Actions
        /\ \A a \in Actions \ {cur[w]} : attempts'[a] = attempts[a]
    BY <1>4, SettleExecution
  <2>2. ResolutionInv'
    BY <2>1, ExecutionKeepsResolution
  <2>3. HistoryStep
    BY <2>1 DEF HistoryStep, TypeOK
  <2>4. QED
    BY <2>1, <2>2, <2>3
<1>5. ASSUME NEW w \in Workers, FinishRead(w) \/ FinishCommit(w) \/ WorkerDies(w)
      PROVE  ExecutionInv' /\ ResolutionInv' /\ HistoryStep
  <2>1. /\ ExecutionInv'
        /\ UNCHANGED <<attempts, approvedBy, req, raced>>
        /\ \A a \in Actions : \/ status'[a] = status[a]
                              \/ approvedBy[a] # NoEntity /\ status'[a] # "PROPOSED"
    BY <1>5, LeaveExecution
  <2>2. QED
    BY <2>1, ExecutionKeepsResolution DEF HistoryStep, TypeOK
<1>6. ASSUME NEW r \in Reconcilers, ReconcilerStep(r) \/ ReconcilerDies(r), ~ CloseStale(r)
      PROVE  ExecutionInv' /\ ResolutionInv' /\ HistoryStep
  <2>1. /\ ExecutionInv'
        /\ UNCHANGED <<attempts, approvedBy, req>>
        /\ raced \subseteq raced' /\ raced' \subseteq Actions
        /\ \A a \in Actions : \/ status'[a] = status[a]
                              \/ approvedBy[a] # NoEntity /\ status'[a] # "PROPOSED"
    BY <1>6, ReconcilerExecution DEF ReconcilerStep
  <2>2. QED
    BY <2>1, ExecutionKeepsResolution DEF HistoryStep
<1>7. ASSUME NEW r \in Reconcilers, CloseStale(r)
      PROVE  ExecutionInv' /\ ResolutionInv' /\ HistoryStep
  <2>1. /\ ExecutionInv'
        /\ UNCHANGED <<status, approvedBy, req, raced>>
        /\ ract[r] \in Actions
        /\ attempts' = attempts \/ Ended(ract[r], rslot[r], "TIMED_OUT")
        /\ \A a \in Actions \ {ract[r]} : attempts'[a] = attempts[a]
    BY <1>7, CloseStaleExecution
  <2>2. ResolutionInv'
    BY <2>1, ExecutionKeepsResolution
  <2>3. HistoryStep
    BY <2>1 DEF HistoryStep, ClosedOutcomes, TypeOK
  <2>4. QED
    BY <2>1, <2>2, <2>3
<1>8. QED
  BY <1>1, <1>2, <1>3, <1>4, <1>5, <1>6, <1>7 DEF WorkerStep

LEMMA NextExecution ==
  ASSUME TypeOK, WorkerShape, ApprovalInv, ResolutionInv, ExecutionInv,
         [Next]_vars
  PROVE  ExecutionInv' /\ ResolutionInv' /\ HistoryStep
<1>1. CASE UNCHANGED vars
  <2>1. ResolutionInv'
    BY <1>1, ExecutionKeepsResolution DEF vars
  <2>2. OutsideExecution
    BY <1>1 DEF vars, OutsideExecution, workerVars, reconVars
  <2>3. QED
    BY <1>1, <2>1, <2>2, OutsideInvariant DEF HistoryStep, vars, TypeOK
<1>2. CASE Next
  BY <1>2, ResolutionSteps, ExecutionSteps DEF Next
<1>3. QED
  BY <1>1, <1>2

LEMMA InitExecution == Init => ResolutionInv /\ ExecutionInv
<1> SUFFICES ASSUME Init PROVE ResolutionInv /\ ExecutionInv
  OBVIOUS
<1>1. \A a \in Actions : /\ attempts[a] = <<>> /\ Len(attempts[a]) = 0
                         /\ DOMAIN attempts[a] = {} /\ Startable(a)
  <2>1. \A a \in Actions : attempts[a] = <<>>
    BY DEF Init
  <2>2. Len(<<>>) = 0 /\ DOMAIN <<>> = {}
    BY EmptySeq
  <2>3. QED
    BY <2>1, <2>2, RuntimeAssumption, CleanShape DEF Startable
<1>2. \A w \in Workers : Driven(w) = {} /\ wpc[w] \notin Driving
  BY DEF Init, Driven, Driving
<1>3. ResolutionInv
  BY DEF Init, ResolutionInv, ProposedUnapproved, LockExclusive, PromotesFresh, IdleReq
<1>4. BatchFresh /\ DrivenClaimed /\ SingleDriver /\ OpenIsLast
  BY <1>1, <1>2 DEF Init, BatchFresh, DrivenClaimed, SingleDriver, OpenIsLast, Unraced
<1>5. OwnAttempt /\ BudgetSpent /\ ReconcilerAlone
  BY <1>2 DEF Init, OwnAttempt, BudgetSpent, ReconcilerAlone
<1>6. SerialAttempts /\ AttemptBound
  BY <1>1, RuntimeAssumption DEF SerialAttempts, AttemptBound
<1>7. StartableWhereClaimable /\ OutcomeFinal
  BY <1>1 DEF Init, StartableWhereClaimable, OutcomeFinal, Unraced
<1>8. TicksApart /\ HandlerAlone
  BY <1>2 DEF Init, TicksApart, HandlerAlone, Driving
<1>9. QED
  BY <1>3, <1>4, <1>5, <1>6, <1>7, <1>8 DEF ExecutionInv

-----------------------------------------------------------------------------
(* Refinement: each step of the tables and ticks is a step of the promise   *)
(* or a stutter.                                                            *)

LetThroughNow == {a \in Actions : approvedBy[a] # NoEntity}

LEMMA HistoryRefines ==
  ASSUME TypeOK, TypeOK', HistoryStep
  PROVE  [Governed!Next]_(Governed!vars)
<1> USE DEF LetThroughNow
<1>1. /\ attempts \in [Actions -> Seq(AttemptOutcomes)]
      /\ attempts' \in [Actions -> Seq(AttemptOutcomes)]
  BY DEF TypeOK
<1>2. ASSUME approvedBy' = approvedBy, attempts' = attempts,
             raced \subseteq raced', raced' \subseteq Actions
      PROVE  Governed!Next
  <2>1. LetThroughNow' = LetThroughNow /\ raced' = raced \cup (raced' \ raced)
    BY <1>2
  <2>2. Governed!Overlap(raced' \ raced)
    BY <1>2, <2>1 DEF Governed!Overlap
  <2>3. QED
    BY <1>2, <2>2 DEF Governed!Next
<1>3. ASSUME attempts' = attempts, raced' = raced, NEW a \in Actions,
             approvedBy[a] # NoEntity => approvedBy'[a] # NoEntity,
             \A b \in Actions \ {a} : approvedBy'[b] = approvedBy[b]
      PROVE  [Governed!Next]_(Governed!vars)
  <2>1. CASE approvedBy[a] = NoEntity /\ approvedBy'[a] # NoEntity
    <3>1. a \notin LetThroughNow /\ LetThroughNow' = LetThroughNow \cup {a}
      BY <1>3, <2>1
    <3>2. Governed!LetThrough(a)
      BY <1>3, <3>1 DEF Governed!LetThrough
    <3>3. QED
      BY <3>2 DEF Governed!Next
  <2>2. CASE ~ (approvedBy[a] = NoEntity /\ approvedBy'[a] # NoEntity)
    <3>1. LetThroughNow' = LetThroughNow
      BY <1>3, <2>2
    <3>2. QED
      BY <1>3, <3>1 DEF Governed!vars
  <2>3. QED
    BY <2>1, <2>2
<1>4. ASSUME approvedBy' = approvedBy, raced' = raced, NEW a \in Actions,
             approvedBy[a] # NoEntity, Opened(a),
             a \notin raced => Clean(a) /\ Len(attempts[a]) < 2 * RetryBudget - 1,
             \A b \in Actions \ {a} : attempts'[b] = attempts[b]
      PROVE  Governed!Next
  <2>1. attempts' = [attempts EXCEPT ![a] = Append(attempts[a], "OPEN")]
    BY <1>1, <1>4 DEF Opened
  <2>2. Governed!Start(a)
    BY <1>4, <2>1 DEF Governed!Start, Clean
  <2>3. QED
    BY <2>2 DEF Governed!Next
<1>5. ASSUME approvedBy' = approvedBy, raced' = raced,
             NEW a \in Actions, NEW n \in Nat, NEW o \in ClosedOutcomes,
             Ended(a, n, o),
             \A b \in Actions \ {a} : attempts'[b] = attempts[b]
      PROVE  Governed!Next
  <2>1. attempts' = [attempts EXCEPT ![a] = [attempts[a] EXCEPT ![n] = o]]
    BY <1>1, <1>5 DEF Ended
  <2>2. Governed!Close(a, n, o) /\ n \in DOMAIN attempts[a]
    BY <1>5, <2>1 DEF Governed!Close, Ended
  <2>3. QED
    BY <2>2 DEF Governed!Next, Governed!Outcomes, ClosedOutcomes
<1>6. QED
  BY <1>2, <1>3, <1>4, <1>5 DEF HistoryStep

LEMMA InitRefines == Init => Governed!Init
BY DEF Init, Governed!Init

-----------------------------------------------------------------------------
(* The inductive invariant, and what follows from it.                       *)

RuntimeInv ==
  TypeOK /\ WorkerShape /\ ApprovalInv /\ ResolutionInv /\ ExecutionInv

LEMMA InitRuntimeInv == Init => RuntimeInv
<1> SUFFICES ASSUME Init PROVE RuntimeInv
  OBVIOUS
<1>1. TypeOK /\ WorkerShape
  BY InitTypeOK DEF Init, WorkerShape, Driving
<1>2. RowShape /\ ResolveShape
  BY DEF Init, NoOrigin, IdleReq, RowShape, ResolveShape
<1>3. ApprovalValid /\ ApprovalRecorded
  BY DEF Init, ApprovalValid, ApprovalRecorded
<1>4. CarriedApproved
  BY RuntimeAssumption DEF Init, CarriedApproved
<1>5. QED
  BY <1>1, <1>2, <1>3, <1>4, InitExecution DEF ApprovalInv, RuntimeInv

LEMMA NextRuntimeInv ==
  ASSUME RuntimeInv, [Next]_vars
  PROVE  RuntimeInv' /\ [Governed!Next]_(Governed!vars)
<1>1. TypeOK' /\ WorkerShape' /\ ApprovalInv'
  BY NextTypeOK, NextWorkerShape, NextApproval DEF RuntimeInv
<1>2. ExecutionInv' /\ ResolutionInv' /\ HistoryStep
  BY NextExecution DEF RuntimeInv
<1>3. QED
  BY <1>1, <1>2, HistoryRefines DEF RuntimeInv

(* Whatever number of ticks of each kind runs: on every action no two       *)
(* admission ticks and no two reconcilers overlapped on, the ticks keep who *)
(* drives it, its attempts and its status in agreement, through crashes and *)
(* cancels: the invariant the properties below follow from.                 *)
THEOREM ExecutionInvariant == Spec => []RuntimeInv
<1>1. RuntimeInv /\ [Next]_vars => RuntimeInv'
  BY NextRuntimeInv
<1>2. QED
  BY <1>1, InitRuntimeInv, PTL DEF Spec

(* At most one live executor tick is responsible for an action that is not  *)
(* raced: the claim takes a SCHEDULED row, and nothing makes a driven one   *)
(* SCHEDULED again - not the admission tick, which can only overwrite a     *)
(* cancel, and not the reconciler, which requeues what nobody drives.  A    *)
(* second driver thus needs two admission ticks, or two reconcilers, that   *)
(* held the action at once.                                                 *)
THEOREM OneDriver == Spec => []SingleDriver
<1>1. RuntimeInv => SingleDriver
  BY DEF RuntimeInv, ExecutionInv
<1>2. QED
  BY <1>1, ExecutionInvariant, PTL

(* Attempts of an action that is not raced never overlap, and one that      *)
(* succeeded is the last.                                                   *)
THEOREM AttemptsSerial == Spec => []SerialAttempts
<1>1. RuntimeInv => SerialAttempts
  BY DEF RuntimeInv, ExecutionInv
<1>2. QED
  BY <1>1, ExecutionInvariant, PTL

(* However often an action that is not raced is requeued, it is attempted   *)
(* at most 2 * RetryBudget - 1 times.                                       *)
THEOREM AttemptsBounded == Spec => []AttemptBound
<1>1. RuntimeInv => AttemptBound
  BY DEF RuntimeInv, ExecutionInv
<1>2. QED
  BY <1>1, ExecutionInvariant, PTL

(* SUCCEEDED or FAILED on the row of an action that is not raced is what    *)
(* its last attempt reported.                                               *)
THEOREM OutcomeIsLast == Spec => []OutcomeOfLastAttempt
<1>1. RuntimeInv => OutcomeOfLastAttempt
  BY DEF RuntimeInv, ExecutionInv, OutcomeFinal, OutcomeOfLastAttempt, Unraced
<1>2. QED
  BY <1>1, ExecutionInvariant, PTL

(* The attempt history, of raced actions too, implements GovernedExecution: *)
(* every step of the tables, requests and ticks is one of its steps or a    *)
(* stutter.                                                                 *)
THEOREM ImplementsGoverned == Spec => GovernedAttempts
<1>1. RuntimeInv /\ [Next]_vars => [Governed!Next]_(Governed!vars)
  BY NextRuntimeInv
<1>2. QED
  BY <1>1, InitRefines, ExecutionInvariant, PTL
  DEF Spec, GovernedAttempts, Governed!Spec
=============================================================================
