---------------------------- MODULE ActionRuntime ----------------------------
(***************************************************************************)
(* The Action runtime of apps/api (ADR-0057): the actions and              *)
(* action_attempts tables, the escalation paired with a dual-control       *)
(* action, and the processes that write them - API requests that create,   *)
(* cancel or resolve, the admission tick, overlapping executor ticks and   *)
(* the stale-RUNNING reconciler.                                           *)
(*                                                                         *)
(* Every database transaction runs at READ COMMITTED, the isolation level  *)
(* the repository never overrides.  A transaction whose write is not       *)
(* conditional on what it read is therefore two steps, a Read and a        *)
(* Commit, and other transactions commit in between.  Only the executor's  *)
(* claim (SELECT ... FOR UPDATE SKIP LOCKED and UPDATE in one transaction) *)
(* is one step.  A row lock is held from the UPDATE to the commit, so a    *)
(* write is seen, and ordered against other writes, at its Commit.         *)
(***************************************************************************)
EXTENDS ActionStatus, Integers, Sequences, FiniteSets

CONSTANTS
  Actions,       \* idempotency keys: the UNIQUE column that names an action
  Entities,      \* people and agents that call the API
  Requests,      \* API requests being served at the same time
  Schedulers,    \* admission ticks that can be running at the same time
  Workers,       \* executor ticks that can be running at the same time
  Reconcilers,   \* rows that reconciler ticks, one or several, can have in
                 \* hand at the same time
  GrantHolders,  \* entities holding an ACTIVE grant for ACTION_RUNNING_CANCEL
  RetryBudget,   \* resolveRetryBudget: total attempts before terminalizing
  MaxBatch,      \* actions one executor tick claims
  MaxFailures,   \* bound on the ticks that die midway
  NoEntity, NoAction

ASSUME RuntimeAssumption ==
  /\ RetryBudget \in Nat \ {0}
  /\ MaxBatch \in Nat \ {0}
  /\ MaxFailures \in Nat
  /\ GrantHolders \subseteq Entities
  /\ NoEntity \notin Entities
  /\ NoAction \notin Actions

Decisions ==
  {"FORBIDDEN", "AUTO_APPROVE", "REQUIRE_BREAK_GLASS", "REQUIRE_DUAL_CONTROL"}
Verdicts == {"APPROVED", "REJECTED"}
ClosedOutcomes == {"SUCCEEDED", "FAILED", "TIMED_OUT"}
AttemptOutcomes == ClosedOutcomes \cup {"OPEN"}    \* OPEN: ended_at is null

VARIABLES
  (* the database *)
  status,        \* Action.status; "NONE" before the row exists
  origin,        \* the columns and decision an action is created with
  approvedBy,    \* who is the actor of its ACTION_APPROVED audit row
  escalation,    \* status of the paired EscalationRequest
  attempts,      \* ActionAttempt outcomes by attempt_number
  grants,        \* entities whose ACTION_RUNNING_CANCEL grant is ACTIVE
  (* processes *)
  req,           \* the transaction an API request has in flight
  batch,         \* candidates an admission tick has read
  wpc, queue, cur, tries, slot,  \* an executor tick: where it is, what it
                 \* claimed and has not started, what it drives, how many
                 \* attempts it made of it, the number of the open one
  rpc, ract, rslot,              \* a row a reconciler tick has in hand
  (* bound *)
  failures,
  (* history, read by the properties only *)
  raced          \* actions on which two admission ticks, or two reconcilers,
                 \* have overlapped: the second read it, or listed it, before
                 \* the first was done with it

escVars == <<origin, approvedBy, escalation>>
reqVars == <<grants, req>>
workerVars == <<wpc, queue, cur, tries, slot>>
reconVars == <<rpc, ract, rslot>>
vars == <<status, origin, approvedBy, escalation, attempts, grants, req, batch,
          wpc, queue, cur, tries, slot, rpc, ract, rslot, failures, raced>>

NoOrigin == [source |-> NoEntity, decision |-> "NONE", target |-> NoEntity]
IdleReq == [op |-> "idle", who |-> NoEntity, act |-> NoAction,
            verdict |-> "NONE", promotes |-> FALSE]

Init ==
  /\ status = [a \in Actions |-> "NONE"]
  /\ origin = [a \in Actions |-> NoOrigin]
  /\ approvedBy = [a \in Actions |-> NoEntity]
  /\ escalation = [a \in Actions |-> "NONE"]
  /\ attempts = [a \in Actions |-> <<>>]
  /\ grants = GrantHolders
  /\ req = [r \in Requests |-> IdleReq]
  /\ batch = [s \in Schedulers |-> {}]
  /\ wpc = [w \in Workers |-> "idle"]
  /\ queue = [w \in Workers |-> {}]
  /\ cur = [w \in Workers |-> NoAction]
  /\ tries = [w \in Workers |-> 0]
  /\ slot = [w \in Workers |-> 0]
  /\ rpc = [r \in Reconcilers |-> "idle"]
  /\ ract = [r \in Reconcilers |-> NoAction]
  /\ rslot = [r \in Reconcilers |-> 0]
  /\ failures = 0
  /\ raced = {}

(* transitionActionStatus: the guard looks at the status the caller read    *)
(* (seen), the UPDATE is by action_id alone.                                *)
Transition(a, seen, next) ==
  /\ CanTransition(seen, next)
  /\ status' = [status EXCEPT ![a] = next]

-----------------------------------------------------------------------------
(* createActionForCaller.  One transaction creates the row in the status    *)
(* its decision calls for and, for dual control, the escalation.            *)
CreatedStatusFailOpen(decision, target) ==      \* no target: let it through
  CASE decision = "AUTO_APPROVE"        -> "APPROVED"
    [] decision = "FORBIDDEN"           -> "REJECTED"
    [] decision = "REQUIRE_BREAK_GLASS" -> "PROPOSED"
    [] decision = "REQUIRE_DUAL_CONTROL" ->
         IF target = NoEntity THEN "APPROVED" ELSE "PROPOSED"

CreatedStatus(decision, target) ==
  CASE decision = "AUTO_APPROVE"        -> "APPROVED"
    [] decision = "FORBIDDEN"           -> "REJECTED"
    [] decision = "REQUIRE_BREAK_GLASS" -> "PROPOSED"
    [] decision = "REQUIRE_DUAL_CONTROL" ->
         IF target = NoEntity THEN "REJECTED" ELSE "PROPOSED"

Create(e, a, decision, target) ==
  /\ status[a] = "NONE"
  /\ target # e
  /\ decision # "REQUIRE_DUAL_CONTROL" => target = NoEntity
  /\ status' = [status EXCEPT ![a] = CreatedStatus(decision, target)]
  /\ origin' = [origin EXCEPT
       ![a] = [source |-> e, decision |-> decision, target |-> target]]
  /\ approvedBy' = [approvedBy EXCEPT
       ![a] = IF decision = "AUTO_APPROVE" THEN e ELSE NoEntity]
  /\ escalation' = [escalation EXCEPT
       ![a] = IF target = NoEntity THEN "NONE" ELSE "PENDING"]
  /\ UNCHANGED <<attempts, reqVars, batch, workerVars, reconVars, failures, raced>>

-----------------------------------------------------------------------------
(* transitionPendingForCaller: the target of a PENDING escalation approves  *)
(* or rejects it.  The escalation is read, updated whatever it has become,  *)
(* and only then, under the escalation's row lock, the paired action is     *)
(* looked up: it follows the verdict if it is still PROPOSED.               *)
ResolveRead(r, e, a, verdict) ==
  /\ req[r].op = "idle"
  /\ escalation[a] = "PENDING"
  /\ origin[a].target = e
  /\ origin[a].source # e
  /\ req' = [req EXCEPT ![r] = [op |-> "resolve", who |-> e, act |-> a,
                                verdict |-> verdict, promotes |-> FALSE]]
  /\ UNCHANGED <<status, escVars, attempts, grants, batch, workerVars,
                 reconVars, failures, raced>>

ResolveLock(r) ==
  /\ req[r].op = "resolve"
  /\ \A q \in Requests : req[q].op = "locked" => req[q].act # req[r].act
  /\ req' = [req EXCEPT ![r] =
       [@ EXCEPT !.op = "locked",
                 !.promotes = (status[req[r].act] = "PROPOSED")]]
  /\ UNCHANGED <<status, escVars, attempts, grants, batch, workerVars,
                 reconVars, failures, raced>>

ResolveCommit(r) ==
  LET a == req[r].act
      verdict == req[r].verdict
  IN
  /\ req[r].op = "locked"
  /\ escalation' = [escalation EXCEPT ![a] = verdict]
  /\ IF req[r].promotes
       THEN /\ Transition(a, "PROPOSED", verdict)
            /\ approvedBy' = IF verdict = "APPROVED"
                               THEN [approvedBy EXCEPT ![a] = req[r].who]
                               ELSE approvedBy
       ELSE UNCHANGED <<status, approvedBy>>
  /\ req' = [req EXCEPT ![r] = IdleReq]
  /\ UNCHANGED <<origin, attempts, grants, batch, workerVars, reconVars,
                 failures, raced>>

-----------------------------------------------------------------------------
(* cancelActionForCaller, by the source entity.  The status is re-read in   *)
(* the transaction, but the UPDATE does not depend on it.                   *)
CancelRead(r, e, a) ==
  /\ req[r].op = "idle"
  /\ origin[a].source = e
  /\ status[a] \in {"PROPOSED", "APPROVED", "SCHEDULED"}
  /\ req' = [req EXCEPT ![r] = [IdleReq EXCEPT !.op = "cancel", !.who = e,
                                               !.act = a]]
  /\ UNCHANGED <<status, escVars, attempts, grants, batch, workerVars,
                 reconVars, failures, raced>>

CancelCommit(r) ==
  /\ req[r].op = "cancel"
  /\ status' = [status EXCEPT ![req[r].act] = "CANCELLED"]
  /\ req' = [req EXCEPT ![r] = IdleReq]
  /\ UNCHANGED <<escVars, attempts, grants, batch, workerVars, reconVars,
                 failures, raced>>

(* A RUNNING action is cancelled with a break-glass grant: validate it,     *)
(* mark it USED in a transaction of its own (read ACTIVE, then update by    *)
(* grant_id), then re-read and cancel in another.                           *)
RunningCancelCheck(r, e, a) ==
  /\ req[r].op = "idle"
  /\ origin[a].source = e
  /\ status[a] = "RUNNING"
  /\ e \in grants
  /\ req' = [req EXCEPT ![r] = [IdleReq EXCEPT !.op = "useGrant", !.who = e,
                                               !.act = a]]
  /\ UNCHANGED <<status, escVars, attempts, grants, batch, workerVars,
                 reconVars, failures, raced>>

MarkUsedRead(r) ==
  /\ req[r].op = "useGrant"
  /\ req' = [req EXCEPT ![r] = IF req[r].who \in grants
                                 THEN [@ EXCEPT !.op = "markUsed"]
                                 ELSE IdleReq]
  /\ UNCHANGED <<status, escVars, attempts, grants, batch, workerVars,
                 reconVars, failures, raced>>

MarkUsedCommit(r) ==
  /\ req[r].op = "markUsed"
  /\ grants' = grants \ {req[r].who}
  /\ req' = [req EXCEPT ![r] = [@ EXCEPT !.op = "cancelRunning"]]
  /\ UNCHANGED <<status, escVars, attempts, batch, workerVars, reconVars,
                 failures, raced>>

RunningCancelRead(r) ==
  /\ req[r].op = "cancelRunning"
  /\ req' = [req EXCEPT ![r] = IF status[req[r].act] = "RUNNING"
                                 THEN [@ EXCEPT !.op = "cancel"]
                                 ELSE IdleReq]
  /\ UNCHANGED <<status, escVars, attempts, grants, batch, workerVars,
                 reconVars, failures, raced>>

-----------------------------------------------------------------------------
(* tickActionScheduler: a plain read of the APPROVED rows, then one commit  *)
(* that puts every candidate in SCHEDULED.  Nothing keeps two ticks apart:   *)
(* cron fires by the clock, and two processes run through a deploy.         *)
AdmitRead(s) ==
  LET candidates == {a \in Actions : status[a] = "APPROVED"} IN
  /\ batch[s] = {}
  /\ candidates # {}
  /\ batch' = [batch EXCEPT ![s] = candidates]
  /\ raced' = raced \cup {a \in candidates : \E t \in Schedulers : a \in batch[t]}
  /\ UNCHANGED <<status, escVars, attempts, reqVars, workerVars, reconVars,
                 failures>>

AdmitCommit(s) ==
  /\ batch[s] # {}
  /\ status' = [a \in Actions |->
                  IF a \in batch[s] THEN "SCHEDULED" ELSE status[a]]
  /\ batch' = [batch EXCEPT ![s] = {}]
  /\ UNCHANGED <<escVars, attempts, reqVars, workerVars, reconVars, failures, raced>>

-----------------------------------------------------------------------------
(* tickActionExecutor.  wpc: "idle" (no tick), "claimed" (nothing of the    *)
(* batch started), "handling" (a handler runs), "retry" (an attempt failed  *)
(* with budget left), "finish" and "write" (terminalizing the parent),      *)
(* "next" (between two actions of the batch).                               *)
ClaimableRunning(a) == status[a] \in {"SCHEDULED", "RUNNING"}
Claimable(a) == status[a] = "SCHEDULED"

Claim(w, S) ==
  /\ wpc[w] = "idle"
  /\ S # {}
  /\ \A a \in S : Claimable(a)
  /\ Cardinality(S) <= MaxBatch
  /\ status' = [a \in Actions |-> IF a \in S THEN "RUNNING" ELSE status[a]]
  /\ wpc' = [wpc EXCEPT ![w] = "claimed"]
  /\ queue' = [queue EXCEPT ![w] = S]
  /\ UNCHANGED <<escVars, attempts, reqVars, batch, cur, tries, slot,
                 reconVars, failures, raced>>

(* createActionAttempt: attempt_number = max + 1, ended_at null.            *)
OpenAttempt(w, a) ==
  /\ attempts' = [attempts EXCEPT ![a] = Append(@, "OPEN")]
  /\ slot' = [slot EXCEPT ![w] = Len(attempts[a]) + 1]
  /\ wpc' = [wpc EXCEPT ![w] = "handling"]
  /\ UNCHANGED <<status, escVars, reqVars, batch, reconVars, failures, raced>>

StartAction(w, a) ==
  /\ wpc[w] \in {"claimed", "next"}
  /\ a \in queue[w]
  /\ OpenAttempt(w, a)
  /\ queue' = [queue EXCEPT ![w] = @ \ {a}]
  /\ cur' = [cur EXCEPT ![w] = a]
  /\ tries' = [tries EXCEPT ![w] = 1]

RetryAttempt(w) ==
  /\ wpc[w] = "retry"
  /\ OpenAttempt(w, cur[w])
  /\ tries' = [tries EXCEPT ![w] = @ + 1]
  /\ UNCHANGED <<queue, cur>>

(* The handler settles or the per-attempt timer wins, and the attempt is    *)
(* closed; SUCCESS leaves the loop, anything else uses up the budget.       *)
AfterAttemptAnyOutcome(w, outcome) ==
  IF tries[w] < RetryBudget THEN "retry" ELSE "finish"

AfterAttempt(w, outcome) ==
  IF outcome # "SUCCEEDED" /\ tries[w] < RetryBudget THEN "retry" ELSE "finish"

Settle(w, outcome) ==
  /\ wpc[w] = "handling"
  /\ attempts' = [attempts EXCEPT ![cur[w]][slot[w]] = outcome]
  /\ wpc' = [wpc EXCEPT ![w] = AfterAttempt(w, outcome)]
  /\ UNCHANGED <<status, escVars, reqVars, batch, queue, cur, tries, slot,
                 reconVars, failures, raced>>

LeaveAction(w) ==
  /\ wpc' = [wpc EXCEPT ![w] = IF queue[w] = {} THEN "idle" ELSE "next"]
  /\ cur' = [cur EXCEPT ![w] = NoAction]
  /\ tries' = [tries EXCEPT ![w] = 0]
  /\ slot' = [slot EXCEPT ![w] = 0]
  /\ UNCHANGED queue

(* Step 2b: terminalize the parent if it is still RUNNING.                  *)
FinishReadOnSuccess(w) ==      \* a failed action is left as it is
  /\ wpc[w] = "finish"
  /\ IF status[cur[w]] = "RUNNING" /\ attempts[cur[w]][slot[w]] = "SUCCEEDED"
       THEN /\ wpc' = [wpc EXCEPT ![w] = "write"]
            /\ UNCHANGED <<queue, cur, tries, slot>>
       ELSE LeaveAction(w)
  /\ UNCHANGED <<status, escVars, attempts, reqVars, batch, reconVars,
                 failures, raced>>

FinishRead(w) ==
  /\ wpc[w] = "finish"
  /\ IF status[cur[w]] = "RUNNING"
       THEN /\ wpc' = [wpc EXCEPT ![w] = "write"]
            /\ UNCHANGED <<queue, cur, tries, slot>>
       ELSE LeaveAction(w)
  /\ UNCHANGED <<status, escVars, attempts, reqVars, batch, reconVars,
                 failures, raced>>

FirstResult(w) == attempts[cur[w]][1]
LastResult(w) == attempts[cur[w]][slot[w]]

FinishCommit(w) ==
  /\ wpc[w] = "write"
  /\ Transition(cur[w], "RUNNING", LastResult(w))
  /\ LeaveAction(w)
  /\ UNCHANGED <<escVars, attempts, reqVars, batch, reconVars, failures, raced>>

(* The tick ends early: the process crashed or was redeployed, or an await  *)
(* threw and the cron boundary swallowed it.                                *)
WorkerDies(w) ==
  /\ wpc[w] # "idle"
  /\ failures < MaxFailures
  /\ failures' = failures + 1
  /\ wpc' = [wpc EXCEPT ![w] = "idle"]
  /\ queue' = [queue EXCEPT ![w] = {}]
  /\ cur' = [cur EXCEPT ![w] = NoAction]
  /\ tries' = [tries EXCEPT ![w] = 0]
  /\ slot' = [slot EXCEPT ![w] = 0]
  /\ UNCHANGED <<status, escVars, attempts, reqVars, batch, reconVars, raced>>

-----------------------------------------------------------------------------
(* tickStaleRunningReconcile.  An attempt is stale when it is open past     *)
(* its timeout and the grace; a live tick closes its attempt by then, so    *)
(* the stale ones are those nobody handles any more.  A tick lists its rows *)
(* first and works them off one by one: each is in hand from then on, and   *)
(* waits in "close" until its turn.  Nothing keeps two ticks apart.         *)
Handled(a, n) ==
  \E w \in Workers : wpc[w] = "handling" /\ cur[w] = a /\ slot[w] = n

StaleWhenOpen(a, n) == attempts[a][n] = "OPEN"
StaleOfRunning(a, n) ==
  attempts[a][n] = "OPEN" /\ ~ Handled(a, n) /\ status[a] = "RUNNING"
Stale(a, n) == attempts[a][n] = "OPEN" /\ ~ Handled(a, n)

(* A reconciler has the action in hand. *)
WorkedOn(a) == \E q \in Reconcilers : rpc[q] # "idle" /\ ract[q] = a

ListStale(r, a, n) ==
  /\ rpc[r] = "idle"
  /\ n \in DOMAIN attempts[a]
  /\ Stale(a, n)
  /\ rpc' = [rpc EXCEPT ![r] = "close"]
  /\ ract' = [ract EXCEPT ![r] = a]
  /\ rslot' = [rslot EXCEPT ![r] = n]
  /\ raced' = IF WorkedOn(a) THEN raced \cup {a} ELSE raced
  /\ UNCHANGED <<status, escVars, attempts, reqVars, batch, workerVars,
                 failures>>

(* The attempt is closed if it is still open; either way the pass goes on   *)
(* to its action.                                                           *)
StaleOutcomeExpired == "EXPIRED"
StaleOutcome == "TIMED_OUT"

CloseStale(r) ==
  LET a == ract[r]
      n == rslot[r]
  IN
  /\ rpc[r] = "close"
  /\ attempts' = IF attempts[a][n] = "OPEN"
                   THEN [attempts EXCEPT ![a][n] = StaleOutcome]
                   ELSE attempts
  /\ rpc' = [rpc EXCEPT ![r] = "decide"]
  /\ UNCHANGED <<status, escVars, reqVars, batch, workerVars, ract, rslot,
                 failures, raced>>

RestReconciler(r) ==
  /\ rpc' = [rpc EXCEPT ![r] = "idle"]
  /\ ract' = [ract EXCEPT ![r] = NoAction]
  /\ rslot' = [rslot EXCEPT ![r] = 0]

(* Still RUNNING: requeue with budget left, time out without.  The attempts *)
(* are counted before the transaction that re-reads the status, whose       *)
(* UPDATE depends on neither.                                               *)
AfterStaleInclusive(a) ==
  IF Len(attempts[a]) <= RetryBudget THEN "requeue" ELSE "exhaust"
AfterStale(a) ==
  IF Len(attempts[a]) < RetryBudget THEN "requeue" ELSE "exhaust"

ReconcileRead(r) ==
  LET a == ract[r] IN
  /\ rpc[r] = "decide"
  /\ IF status[a] = "RUNNING"
       THEN /\ rpc' = [rpc EXCEPT ![r] = AfterStale(a)]
            /\ UNCHANGED <<ract, rslot>>
       ELSE RestReconciler(r)
  /\ UNCHANGED <<status, escVars, attempts, reqVars, batch, workerVars,
                 failures, raced>>

ReconcileReread(r) ==
  /\ rpc[r] \in {"requeue", "exhaust"}
  /\ IF status[ract[r]] = "RUNNING"
       THEN /\ rpc' = [rpc EXCEPT ![r] =
                         IF @ = "requeue" THEN "requeueing" ELSE "exhausting"]
            /\ UNCHANGED <<ract, rslot>>
       ELSE RestReconciler(r)
  /\ UNCHANGED <<status, escVars, attempts, reqVars, batch, workerVars,
                 failures, raced>>

RequeueCommit(r) ==
  /\ rpc[r] = "requeueing"
  /\ Transition(ract[r], "RUNNING", "SCHEDULED")
  /\ RestReconciler(r)
  /\ UNCHANGED <<escVars, attempts, reqVars, batch, workerVars, failures, raced>>

(* Second loop: RUNNING, no attempt, not touched for STALE_PROMOTE_GRACE_MS *)
(* (120 s).  A live tick starts the first action of its batch at once, but  *)
(* a later one waits for all the attempts of those before it.               *)
Aged(a) == \A w \in Workers : a \in queue[w] => wpc[w] # "claimed"

PromoteOrphanRead(r, a) ==
  /\ rpc[r] = "idle"
  /\ status[a] = "RUNNING"
  /\ attempts[a] = <<>>
  /\ Aged(a)
  /\ rpc' = [rpc EXCEPT ![r] = "promote"]
  /\ ract' = [ract EXCEPT ![r] = a]
  /\ raced' = IF WorkedOn(a) THEN raced \cup {a} ELSE raced
  /\ UNCHANGED <<status, escVars, attempts, reqVars, batch, workerVars, rslot,
                 failures>>

TimeOutCommit(r) ==
  /\ rpc[r] \in {"exhausting", "promote"}
  /\ Transition(ract[r], "RUNNING", "TIMED_OUT")
  /\ RestReconciler(r)
  /\ UNCHANGED <<escVars, attempts, reqVars, batch, workerVars, failures, raced>>

ReconcilerDies(r) ==
  /\ rpc[r] # "idle"
  /\ failures < MaxFailures
  /\ failures' = failures + 1
  /\ RestReconciler(r)
  /\ UNCHANGED <<status, escVars, attempts, reqVars, batch, workerVars, raced>>

-----------------------------------------------------------------------------
RequestStep(r) ==
  \/ ResolveLock(r) \/ ResolveCommit(r) \/ CancelCommit(r)
  \/ MarkUsedRead(r) \/ MarkUsedCommit(r) \/ RunningCancelRead(r)

WorkerStep(w) ==
  \/ \E a \in Actions : StartAction(w, a)
  \/ RetryAttempt(w)
  \/ \E o \in ClosedOutcomes : Settle(w, o)
  \/ FinishRead(w) \/ FinishCommit(w)

ReconcilerStep(r) ==
  \/ \E a \in Actions : \E n \in DOMAIN attempts[a] : ListStale(r, a, n)
  \/ CloseStale(r) \/ ReconcileRead(r) \/ ReconcileReread(r) \/ RequeueCommit(r)
  \/ \E a \in Actions : PromoteOrphanRead(r, a)
  \/ TimeOutCommit(r)

Next ==
  \/ \E e \in Entities, a \in Actions, d \in Decisions,
        t \in Entities \cup {NoEntity} : Create(e, a, d, t)
  \/ \E r \in Requests, e \in Entities, a \in Actions :
       \/ \E v \in Verdicts : ResolveRead(r, e, a, v)
       \/ CancelRead(r, e, a)
       \/ RunningCancelCheck(r, e, a)
  \/ \E r \in Requests : RequestStep(r)
  \/ \E s \in Schedulers : AdmitRead(s) \/ AdmitCommit(s)
  \/ \E w \in Workers :
       \/ \E S \in SUBSET Actions : Claim(w, S)
       \/ WorkerStep(w)
       \/ WorkerDies(w)
  \/ \E r \in Reconcilers : ReconcilerStep(r) \/ ReconcilerDies(r)

Spec == Init /\ [][Next]_vars

(* Fairness.  Every tick that has started runs on, and cron starts the next *)
(* one; a request in flight ends.  A claim takes the oldest rows first, so  *)
(* a SCHEDULED action is not passed over for ever: strong fairness per      *)
(* action.  Nothing is assumed of the entities: they need not call.         *)
ClaimOf(a) == \E w \in Workers, S \in SUBSET Actions : a \in S /\ Claim(w, S)

Fairness ==
  /\ \A r \in Requests : WF_vars(RequestStep(r))
  /\ \A s \in Schedulers : WF_vars(AdmitRead(s)) /\ WF_vars(AdmitCommit(s))
  /\ \A w \in Workers : WF_vars(WorkerStep(w))
  /\ \A a \in Actions : SF_vars(ClaimOf(a))
  /\ \A r \in Reconcilers : WF_vars(ReconcilerStep(r))

FairSpec == Spec /\ Fairness

-----------------------------------------------------------------------------
RequestOps == {"idle", "resolve", "locked", "cancel", "useGrant", "markUsed",
               "cancelRunning"}

RequestStates ==
  [op : RequestOps, who : Entities \cup {NoEntity},
   act : Actions \cup {NoAction}, verdict : Verdicts \cup {"NONE"},
   promotes : BOOLEAN]

ReconcilerStates == {"idle", "close", "decide", "requeue", "requeueing",
                     "exhaust", "exhausting", "promote"}

TypeOK ==
  /\ status \in [Actions -> ActionStatuses \cup {"NONE"}]
  /\ origin \in [Actions -> [source : Entities \cup {NoEntity},
                             decision : Decisions \cup {"NONE"},
                             target : Entities \cup {NoEntity}]]
  /\ approvedBy \in [Actions -> Entities \cup {NoEntity}]
  /\ escalation \in [Actions -> {"NONE", "PENDING"} \cup Verdicts]
  /\ attempts \in [Actions -> Seq(AttemptOutcomes)]
  /\ grants \subseteq Entities
  /\ req \in [Requests -> RequestStates]
  /\ batch \in [Schedulers -> SUBSET Actions]
  /\ wpc \in [Workers -> {"idle", "claimed", "handling", "retry", "finish",
                          "write", "next"}]
  /\ queue \in [Workers -> SUBSET Actions]
  /\ cur \in [Workers -> Actions \cup {NoAction}]
  /\ tries \in [Workers -> Nat]
  /\ slot \in [Workers -> Nat]
  /\ rpc \in [Reconcilers -> ReconcilerStates]
  /\ ract \in [Reconcilers -> Actions \cup {NoAction}]
  /\ rslot \in [Reconcilers -> Nat]
  /\ failures \in Nat
  /\ raced \subseteq Actions

(* No handler runs for an action that was not let through: an attempt       *)
(* exists only if the evaluator approved the action outright or a person    *)
(* other than its source approved its escalation (createActionForCaller,    *)
(* transitionPendingForCaller, tickActionScheduler, tickActionExecutor).    *)
AuthorisedExecution ==
  \A a \in Actions : attempts[a] # <<>> =>
    \/ origin[a].decision = "AUTO_APPROVE"
    \/ /\ origin[a].decision = "REQUIRE_DUAL_CONTROL"
       /\ approvedBy[a] \notin {NoEntity, origin[a].source}

(* The actions a live executor tick is responsible for. *)
Driven(w) == queue[w] \cup ({cur[w]} \ {NoAction})

(* At most one live executor tick is responsible for an action, as the      *)
(* process-local abort registry and step 2 of tickActionExecutor assume,    *)
(* through claims, requeues, crashes and stale cancels - unless two         *)
(* admission ticks or two reconcilers overlapped on that action.            *)
SingleDriver ==
  \A v, w \in Workers : v # w => Driven(v) \cap Driven(w) \subseteq raced

(* Every attempt but the last is closed and failed, so attempts never       *)
(* overlap and an action that succeeded is never run again, unless ticks of *)
(* one kind overlapped on it.                                               *)
SerialAttempts ==
  \A a \in Actions \ raced : \A n \in DOMAIN attempts[a] :
    n < Len(attempts[a]) => attempts[a][n] \in {"FAILED", "TIMED_OUT"}

(* A requeue happens only below the budget and the next claim has a full    *)
(* budget again, so this is what tickStaleRunningReconcile bounds, unless   *)
(* ticks of one kind overlapped on the action.                              *)
AttemptBound ==
  \A a \in Actions \ raced : Len(attempts[a]) <= 2 * RetryBudget - 1

(* SUCCEEDED and FAILED are written from what the last attempt reported,    *)
(* whoever closed it and whatever happened to the action in between, unless *)
(* ticks of one kind overlapped on it.                                      *)
OutcomeOfLastAttempt ==
  \A a \in Actions \ raced : status[a] \in {"SUCCEEDED", "FAILED"} =>
    /\ attempts[a] # <<>>
    /\ attempts[a][Len(attempts[a])] = status[a]

(* The attempt history is a behaviour of GovernedExecution: an action is    *)
(* let through when its approval is recorded, and overlapped once ticks of  *)
(* one kind overlapped on it.                                               *)
Governed == INSTANCE GovernedExecution WITH
  letThrough <- {a \in Actions : approvedBy[a] # NoEntity},
  overlapped <- raced,
  MaxAttempts <- 2 * RetryBudget - 1

GovernedAttempts == Governed!Spec

(* As long as no tick dies, every approved action is carried to a terminal  *)
(* status, whatever cancels and reconciler passes come in between.          *)
ApprovedSettles ==
  [](failures = 0) =>
    \A a \in Actions :
      status[a] = "APPROVED" ~> status[a] \in TerminalStatuses

(* An attempt left open by a tick that died is closed in the end, also when *)
(* its action was cancelled or timed out meanwhile.                         *)
OpenAttemptCloses ==
  \A a \in Actions :
    (\E n \in DOMAIN attempts[a] : attempts[a][n] = "OPEN")
      ~> (\A n \in DOMAIN attempts[a] : attempts[a][n] # "OPEN")
=============================================================================
