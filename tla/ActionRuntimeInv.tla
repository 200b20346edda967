--------------------------- MODULE ActionRuntimeInv ---------------------------
(***************************************************************************)
(* The inductive invariants behind the theorems about ActionRuntime, for   *)
(* any number of ticks of every kind.  ExecutionInv speaks of the actions  *)
(* on which no two admission ticks and no two reconcilers overlapped (the  *)
(* others are in the history variable raced) and of the rows the ticks     *)
(* write, which it describes for every action.                             *)
(***************************************************************************)
EXTENDS ActionRuntime

Driving == {"handling", "retry", "finish", "write"}
Settled == TerminalStatuses \cup {"RUNNING"}

(* Program counters agree with the other variables of a tick. *)
WorkerShape ==
  \A w \in Workers :
    /\ wpc[w] \in Driving => cur[w] \in Actions /\ cur[w] \notin queue[w]
    /\ wpc[w] \notin Driving => cur[w] = NoAction
    /\ wpc[w] = "idle" => queue[w] = {}

(* A row that does not exist yet has no columns; an escalation belongs to a *)
(* dual-control action.                                                     *)
RowShape ==
  \A a \in Actions :
    /\ status[a] = "NONE" => /\ origin[a] = NoOrigin
                             /\ escalation[a] = "NONE"
                             /\ approvedBy[a] = NoEntity
    /\ escalation[a] # "NONE" => origin[a].decision = "REQUIRE_DUAL_CONTROL"

(* A request that resolves an escalation was let in by it. *)
ResolveShape ==
  \A r \in Requests : req[r].op \in {"resolve", "locked"} =>
    /\ req[r].act \in Actions
    /\ req[r].who \in Entities
    /\ req[r].who # origin[req[r].act].source
    /\ origin[req[r].act].decision = "REQUIRE_DUAL_CONTROL"
    /\ req[r].verdict \in Verdicts

(* An approval on record is the evaluator's own or another person's. *)
ApprovalValid ==
  \A a \in Actions : approvedBy[a] # NoEntity =>
    \/ origin[a].decision = "AUTO_APPROVE"
    \/ /\ origin[a].decision = "REQUIRE_DUAL_CONTROL"
       /\ approvedBy[a] # origin[a].source

(* Beyond PROPOSED there is an approval on record; without one nothing      *)
(* has run.                                                                 *)
ApprovalRecorded ==
  \A a \in Actions :
    /\ status[a] \in {"APPROVED", "SCHEDULED", "RUNNING"} =>
         approvedBy[a] # NoEntity
    /\ approvedBy[a] = NoEntity => attempts[a] = <<>>

(* Whatever carries an action from one status to the next - a candidate an  *)
(* admission tick read, a claimed action, a stale one - carries an approved *)
(* one.                                                                     *)
CarriedApproved ==
  /\ \A s \in Schedulers : \A a \in batch[s] : approvedBy[a] # NoEntity
  /\ \A w \in Workers : \A a \in queue[w] : approvedBy[a] # NoEntity
  /\ \A w \in Workers : cur[w] \in Actions => approvedBy[cur[w]] # NoEntity
  /\ \A r \in Reconcilers : rpc[r] # "idle" =>
       ract[r] \in Actions /\ approvedBy[ract[r]] # NoEntity

ApprovalInv ==
  /\ RowShape /\ ResolveShape /\ ApprovalValid /\ ApprovalRecorded
  /\ CarriedApproved

-----------------------------------------------------------------------------
(* A row still PROPOSED has no approval on record.                          *)
ProposedUnapproved ==
  \A a \in Actions : status[a] = "PROPOSED" => approvedBy[a] = NoEntity

(* The escalation's row lock: one resolution at a time decides whether the  *)
(* action follows, and until it commits nobody else approves the action.    *)
LockExclusive ==
  \A r, q \in Requests :
    req[r].op = "locked" /\ req[q].op = "locked" /\ r # q =>
      req[r].act # req[q].act

PromotesFresh ==
  \A r \in Requests : req[r].op = "locked" /\ req[r].promotes =>
    /\ status[req[r].act] \in {"PROPOSED", "CANCELLED"}
    /\ approvedBy[req[r].act] = NoEntity

Unraced == Actions \ raced

(* An action in two hands of one kind is raced. *)
TicksApart ==
  /\ \A s, t \in Schedulers : s # t => batch[s] \cap batch[t] \subseteq raced
  /\ \A r, q \in Reconcilers :
       r # q /\ rpc[r] # "idle" /\ rpc[q] # "idle" /\ ract[r] = ract[q] =>
         ract[r] \in raced

(* A handler has an open attempt of its own, which no other handler and no  *)
(* reconciler closes, whatever overlaps.                                    *)
HandlerAlone ==
  /\ \A w \in Workers : wpc[w] = "handling" =>
       /\ slot[w] \in DOMAIN attempts[cur[w]]
       /\ attempts[cur[w]][slot[w]] = "OPEN"
       /\ \A v \in Workers : v # w /\ wpc[v] = "handling" =>
            cur[v] # cur[w] \/ slot[v] # slot[w]
  /\ \A r \in Reconcilers : rpc[r] = "close" =>
       /\ rslot[r] \in DOMAIN attempts[ract[r]]
       /\ ~ Handled(ract[r], rslot[r])

(* What an admission tick has read can only have been cancelled since. *)
BatchFresh ==
  \A s \in Schedulers : \A a \in batch[s] \ raced :
    status[a] \in {"APPROVED", "CANCELLED"}

Undriven(a) == \A w \in Workers : a \notin Driven(w)
Unread(a) == \A s \in Schedulers : a \notin batch[s]

(* What a tick drives has been claimed and cannot be claimed again. *)
DrivenClaimed ==
  \A w \in Workers : \A a \in Driven(w) \ raced :
    /\ status[a] \in Settled
    /\ Unread(a)

(* An open attempt is the last one; its action is driven by the tick that   *)
(* handles it or by nobody.                                                 *)
OpenIsLast ==
  \A a \in Unraced : \A n \in DOMAIN attempts[a] :
    attempts[a][n] = "OPEN" =>
      /\ n = Len(attempts[a])
      /\ status[a] \in Settled
      /\ Unread(a)
      /\ \A w \in Workers : a \in Driven(w) =>
           wpc[w] = "handling" /\ cur[w] = a

(* The attempt a tick works on is the last one, open while it handles it    *)
(* and closed with the outcome it goes by afterwards.                       *)
OwnAttempt ==
  \A w \in Workers : wpc[w] \in Driving /\ cur[w] \in Unraced =>
    LET s == attempts[cur[w]] IN
    /\ s # <<>>
    /\ slot[w] = Len(s)
    /\ wpc[w] = "handling" => s[slot[w]] = "OPEN"
    /\ wpc[w] = "retry" => s[slot[w]] \in {"FAILED", "TIMED_OUT"}
    /\ wpc[w] \in {"finish", "write"} => s[slot[w]] # "OPEN"

(* Every attempt so far failed, so another may be made. *)
Clean(a) == Governed!Attemptable(a)

(* The reconciler works on an action that was claimed and, unless it has    *)
(* waited too long in a batch, no tick drives any more.                     *)
ReconcilerAlone ==
  \A r \in Reconcilers : rpc[r] # "idle" /\ ract[r] \in Unraced =>
    /\ status[ract[r]] \in Settled
    /\ Unread(ract[r])
    /\ rpc[r] # "promote" => Undriven(ract[r])
    /\ rpc[r] = "close" =>
         /\ attempts[ract[r]] # <<>>
         /\ rslot[r] = Len(attempts[ract[r]])
         /\ attempts[ract[r]][rslot[r]] = "OPEN"
    /\ rpc[r] \notin {"close", "promote"} => Clean(ract[r])
    /\ rpc[r] \in {"requeue", "requeueing"} => Len(attempts[ract[r]]) < RetryBudget

(* Wherever an action can still be started from, all attempts failed and    *)
(* the next claim's full budget fits under the bound.                       *)
Startable(a) == Clean(a) /\ Len(attempts[a]) < RetryBudget

StartableWhereClaimable ==
  /\ \A a \in Unraced :
       status[a] \in {"NONE", "PROPOSED", "APPROVED", "SCHEDULED"} => Startable(a)
  /\ \A s \in Schedulers : \A a \in batch[s] \ raced : Startable(a)
  /\ \A w \in Workers : \A a \in queue[w] \ raced : Startable(a)

(* A tick adds at most its budget to what it found. *)
BudgetSpent ==
  \A w \in Workers : wpc[w] \in Driving =>
    /\ tries[w] \in 1 .. RetryBudget
    /\ cur[w] \in Unraced => Len(attempts[cur[w]]) < RetryBudget + tries[w]
    /\ wpc[w] = "retry" => tries[w] < RetryBudget

(* Once its outcome is on the row the action is nobody's. *)
OutcomeFinal ==
  \A a \in Unraced : status[a] \in {"SUCCEEDED", "FAILED"} =>
    /\ attempts[a] # <<>>
    /\ attempts[a][Len(attempts[a])] = status[a]
    /\ Undriven(a)

ResolutionInv == ProposedUnapproved /\ LockExclusive /\ PromotesFresh

ExecutionInv ==
  /\ TicksApart /\ HandlerAlone
  /\ BatchFresh /\ DrivenClaimed /\ SingleDriver
  /\ OpenIsLast /\ OwnAttempt /\ ReconcilerAlone
  /\ SerialAttempts /\ StartableWhereClaimable /\ BudgetSpent
  /\ AttemptBound /\ OutcomeFinal
=============================================================================
