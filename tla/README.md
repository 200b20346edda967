# Verification of NIOV Foundation

TLA+ models, TLC runs and TLAPS proofs about the parts of this repository whose
correctness depends on the order in which concurrent things happen: the
autonomous-execution runtime ("Actions", ADR-0057), the hash-chained audit log
(ADR-0002, ADR-0033), the operations of the COSMP router (ADR-0031, ADR-0033),
dual control of privileged routes with its break-glass grants and operator
floor, the COSMP services of the API (write and read of a capsule, permissions
and access declarations), and accounts with their sessions. Paths below are
relative to the repository root.

    tlc -workers 2 -config ActionRuntime_safety.cfg MCActionRuntime.tla
    tlapm ActionRuntimeProofs.tla

`PROJECT.json` lists the components, runs, mutants, theorems, findings and
hazards, and maps every definition that models code to the lines it models.

## 1. The system

NIOV Foundation is a TypeScript API (`apps/api`, Fastify and Prisma over one
PostgreSQL database) with three Elixir/OTP applications next to it. All state
that matters is in the database; processes interact through its tables, at
READ COMMITTED (the isolation level is never overridden), and through cron
ticks inside the API process. There is no message queue.

| Component | State it keeps | Operations | What is hard |
|---|---|---|---|
| Action state machine (`action/state-machine.ts`) | none; ten statuses and their legal edges | `canTransitionAction`, `assertActionTransition` | callers look up an edge for the status they *read* |
| Action runtime (`action/{action.service,scheduler,executor,lifecycle.service,cancel.service}.ts`) | `actions`, `action_attempts`; in memory, what each tick has claimed | create, admit, claim, attempt and retry, terminalize, reconcile stale work, cancel, privileged cancel | updates by id that do not depend on what was read; ticks that overlap; crashes between transactions; retry budgets across requeues |
| Escalations (`governance/escalation.service.ts`) | `escalation_requests` | create or reuse, approve, reject, find approved, consume | two resolvers; the paired action changes meanwhile; reuse of an approval |
| Break-glass grants (`governance/break-glass.service.ts`) | `break_glass_grants` | create, validate, mark used, expire, review | single use under races |
| Policy evaluator (`action/policy-evaluator.ts`) | none | risk tier and policy to a decision | order of the rules, fail-closed defaults |
| Audit chain (`packages/database/src/queries/audit.ts`, `apps/cosmp_router/.../audit.ex`) | `audit_events`, append-only by a trigger; advisory locks | append (alone or in the caller's transaction), verify whole or by window | concurrent appends, rollbacks, two writers in two languages |
| Dual-control middleware, platform authority | the escalations above, operator flags | guard a privileged route; grant and revoke operators | check-then-act across transactions, floor of operators |
| COSMP services and persistence queries (`cosmp/*.service.ts`, `packages/database/src/queries/*.ts`) | capsule rows and content objects, permissions, access declarations, lawful basis | write, read, revoke of a capsule; negotiate, share, revoke of permissions | row and content written by separate calls; reads in two steps; permissions revoked in the middle |
| Accounts (`auth.service.ts`, `auth-setup-token.service.ts`, `lockout-recovery.service.ts`) | accounts, failure counters, sessions, nonces, one-time links | login, lockout, recovery, suspension, change of password, links | every operation is a row of separate calls on one account |
| COSMP router (`apps/cosmp_router`) | ETS hot copies, `idempotency_keys`, capsules | write, share, revoke, read | replay keys that outlive their meaning, crash between commit, key and hot copy; grants that only the hot copy keeps |
| DBGI and collaboration supervisors | process groups, one GenServer per collaboration | registration, presence, polling | library semantics of `pg` and Presence |
| Product services (Otzar, Work OS, connectors, playground, billing), other routes, web clients | rows of their own | requests | no protocol of their own; they create actions through the modelled entry point |

How they interact. A request creates an action; the policy evaluator decides
whether it is rejected, approved outright, or needs a second person, in which
case an escalation is created with it. Approving the escalation approves the
action. An admission tick moves APPROVED actions to SCHEDULED, executor ticks
claim them in batches, run handlers in attempts and write the outcome; a
reconciler tick cleans up after ticks that died. Requests cancel actions at any
point, a RUNNING one only with a break-glass grant. Every one of these steps
appends to the audit chain of its actor, inside its own transaction.

What makes each correct:

* *runtime*: nothing runs without an approval on record; one live tick drives
  an action; attempts do not overlap and none follows a success; the number of
  attempts is bounded; the recorded outcome is that of the last attempt; a
  terminal status stays; approved work settles; an open attempt is closed even
  when its tick died.
* *audit chain*: an actor's chain is a list (no forks, no links to rolled back
  rows), it grows at its end only, an untouched chain verifies, and a writer
  that waits for a chain gets its turn.
* *escalations, grants, authority*: an approval or a grant is spent once, for
  what was approved, by another person than the requester; the number of
  operators never falls below its floor.
* *capsules*: the stored content is the one the row describes; a read serves
  what its metadata described; an update with an expected version acts on the
  row it decided from; content follows the owner's grants, a revoked bridge is
  empty, and a declaration serves once.
* *accounts*: a session that is accepted was opened with the password of now on
  an account that is not suspended; a lockout can be cleared; a link sets one
  password.
* *router*: a reply that says a grant was made or taken back is true; a retried
  operation takes effect a bounded number of times; the hot copy and the keys
  speak of committed transactions only.

## 2. Modules

| Module | Role |
|---|---|
| `ActionStatus` | statuses and legal edges of `state-machine.ts` |
| `ActionRuntime` | the runtime: database rows, requests, ticks; properties |
| `GovernedExecution` | abstract specification: what a reader of an attempt history may rely on |
| `ActionRuntimeInv` | the invariants the proofs use (approval, execution) |
| `ActionRuntimeProofs` | types, and that nothing runs without an approval |
| `ActionExecutionProofs` | exclusive, serial, bounded execution; the refinement of `GovernedExecution` |
| `MCActionRuntime` | symmetry, for the runs |
| `AuditChain` | appending to the audit log, by both writers; properties |
| `AuditVerify` | `verifyAuditChain` over the rows of `AuditChain` |
| `AuditChainInv`, `AuditChainProofs` | the chain invariant; theorems about the chain and its walk |
| `MCAuditChain` | what the audit runs extend |
| `CapsuleRouter` | read, write, share and revoke in the Elixir router; properties |
| `CapsuleRouterInv`, `CapsuleRouterProofs` | its invariants and theorems |
| `MCCapsuleRouter` | symmetry, for the router's run |
| `DualControl` | privileged routes, escalations, break-glass grants, operators; properties |
| `CapsuleStore` | one capsule's row and content: WRITE, READ, revocation; properties |
| `CapsuleAccess` | SHARE, REVOKE, NEGOTIATE and the access checks; properties |
| `Accounts` | one account, its sessions, links and suspensions; properties |
| `DualControlInv`, `CapsuleStoreInv`, `CapsuleAccessInv`, `AccountsInv` | the inductive invariants of these four |
| `DualControlProofs`, `CapsuleStoreProofs`, `CapsuleAccessProofs`, `AccountsProofs` | the theorems about them |
| `MCDualControl`, `MCCapsuleStore`, `MCCapsuleAccess`, `MCAccounts` | instances and symmetry |

### 2.1 ActionRuntime

State and code. `status`, `attempts` are the two tables; an attempt is its
outcome, `"OPEN"` while `ended_at` is null.
`origin` holds the columns and decision of creation, `escalation` the status of
the paired `EscalationRequest`, `approvedBy` the actor of the `ACTION_APPROVED`
audit row, `grants` the ACTIVE grants for cancelling a running action. `req` is
an API request between two of its transactions; `batch` what an admission tick
has read; `wpc, queue, cur, tries, slot` an executor tick; `rpc, ract, rslot` a
row that a reconciler tick has in hand. `Next` has one action per transaction:

* A transaction whose write does not depend on its read *in the database* is a
  `...Read` and a `...Commit`: `cancelActionForCaller`, `tickActionScheduler`,
  `transitionPendingForCaller` (three steps: read, row lock and look at the
  action, commit), `markBreakGlassUsed`, step 2b of the executor, and the
  reconciler, which reads before its transaction (`ReconcileRead`), again in it
  (`ReconcileReread`) and then updates (`RequeueCommit`, `TimeOutCommit`).
  `transitionActionStatus` checks the edge from the status the caller read and
  updates by `action_id`; so does `Transition`.
* The claim (`SELECT ... FOR UPDATE SKIP LOCKED` and `UPDATE`) is one step.
* Cron fires a tick of each kind every 30 s whether or not the last has ended,
  and two processes tick at once through a deploy. So any number of ticks of each
  kind may be alive. A reconciler lists its rows at once and works them off one
  by one; `Reconcilers` are the rows in hand, of one tick or of several, each
  from the moment it was listed.
* `WorkerDies` and `ReconcilerDies` end a tick anywhere: a crash, a redeploy, or
  a throw that the cron boundary logs and drops.

Assumptions built into the model, each visible in a guard: a live tick closes
its attempt within timeout and grace, so an attempt is stale only when nobody
handles it (`Stale`); the first action of a claimed batch is started within the
promote grace (`Aged`), the later ones need not be; the candidate `take` limits
of admission and reconciler are left out. The reads of the second loop of the
reconciler are one step (`PromoteOrphanRead`): its transaction looks at status and
attempts again, so the ones before it decide nothing. The
position of an attempt stands for its `attempt_id`: `schema.prisma` has no UNIQUE
on the number, so two ticks that insert for one action at once may give the same
one, and nothing here goes by it.

`raced` is history: the actions on which two admission ticks overlapped, or two
reconcilers, the second having read (or listed) the action before the first was
done with it. The code keeps no two ticks of one kind apart, and what it promises
does not survive such an overlap (section 4). `SingleDriver`,
`SerialAttempts`, `AttemptBound` and `OutcomeOfLastAttempt` therefore speak of all
other actions, as the `...UnlessRaced` properties of dual control do, and
`GovernedExecution` says what is left of an action that was overlapped on: it was
let through, its history only grows, and each attempt is closed once.

### 2.2 AuditChain and AuditVerify

`rows` is the table, `pending` what open transactions have inserted, `locks`
the advisory locks, `previous` what a call has read as the latest event. A
transaction calls `writeAuditEvent` any number of times (a call without a
transaction of its own is a transaction of one call), for any actor or system
principal: `CallWrite`, `AcquireLock`, `ReadLatest`, `InsertRow`, then `Commit`,
`Rollback` at any moment, or `DeadlockVictim`. Reads see committed rows and the
transaction's own. The actor's chain is what is *read*; the chain key, which
falls back to the principal and then to a fixed key, is what is *locked*.

A hash is modelled by the identity of the row it was taken of: collisions and
tampering are outside. The one column that can differ from what was hashed is
the time, so a row keeps the time `stored` and the time `hashed`; the API's
times are milliseconds and equal, the router's are rounded by the
`timestamp(3)` column and truncated by the hash. `AuditVerify` is the walk of
`verifyAuditChain` as a state function: order by time (the event of rank `i` has
`i - 1` events before it), take the first `maxEvents`, anchor the first link when a window is given, compare each link
and hash.

Two events of one actor in the same millisecond have no order in the database
(`ORDER BY timestamp` has no tie-breaker), so `SingleSuccessor` and
`IntactVerifies` are stated for actors whose events have distinct times
(`Separated`). What ties do is a listed hazard. All writers share one clock.

### 2.3 CapsuleRouter

`stored` is the `memory_capsules` table, `hot` the ETS table in front of it,
`keys` the `idempotency_keys` table, where an expired row is still a row. The
same four operations run in the router's GenServer and in one worker process
per hot entity (`dmw_worker.ex`), so a process `p` serves one request at a time
and several may serve one capsule. `pc[p]` is the next access to shared state:

    get -> cold -> warm   Storage.get: hot copy; else the row, then a new hot copy
    check                 Idempotency.check
    begin -> commit       the transaction: Repo.get; insert or update, and the audit event
    record -> put         Idempotency.record, then ETS.put, after the commit

A transaction may fail (`RollBack`), a process may die anywhere (`Dies`), the
owner of the ETS table may be restarted (`LoseHot`), 24 hours may pass
(`Expire`). Replays and misses answer without touching anything else.

A capsule is the content it shows, the content it packs to, and its grants.
This is what it takes to be faithful to `capsule/translator.ex`: `pack/1` has no
column for `granted_to`, and reads from the metadata the columns that `unpack/1`
puts under payload; a capsule read from the table therefore has no grants and
packs to defaults. An update writes only what differs from the row as it was
read, as an Ecto changeset does. `committed` and `effects` are history: the
copies some transaction committed and how often a key's operation committed
while the key had not expired.

Several processes because requests of an entity without a hot worker go to the
router and move to a worker of its own when it becomes active (`grpc/server.ex`),
and requests of different entities may name one capsule. All run on one node,
with one ETS table.

Left out: validation (a rejected request changes nothing), soft deletion and
later updates of a row by the TypeScript API, the audit rows themselves
(`AuditChain`), and the version in the key of a write, which is always 1
because a request's metadata are strings and `capsule_version/1` wants an
integer.

### 2.4 DualControl

A request of an operator passes the preHandlers of a privileged route and then
its handler: `lookup` (an approved escalation), else `glass` and `mark` (a
break-glass grant), else `resolve` and `create` (a pending escalation), and from
the first two `handler` and `commit`. `req` is where each request is, `esc` and
`grants` the two tables, `call` the second person's decision or the end of a
grant, `operators` the holders of `can_admin_niov`. The endpoints are one of
each kind: grant and revoke, whose payload is bound and whose approval is spent
in the transaction that writes the TAR (`ApplyAuthorityChange`), and one whose
approval is neither bound nor spent.

Four places in this code read in one step and update by id, or create, in
another: decisions of an escalation, the use and the end of a grant, the find
and the create of a pending escalation, the census and the revocation. What the
comments promise of them holds only while two such windows on one object do not
overlap. `raced` collects the objects on which they did, and the properties
named `...UnlessRaced` hold of all others. `ApprovalBudget` has no such proviso:
it is what single use comes to under any interleaving, and so is
`TwoPersonRule`.

`expires_at` is null for these escalations; the window of a grant is a free
choice at each validation. `expireEscalation` and `expireBreakGlassGrant` have no
caller in `apps/api`: the first is left out, the second is one of the two ways in
which `CloseRead` and `CloseWrite` end a grant. Which approval is used when there
are several, and the limit of 25 candidates, make no difference to what is
stated. An operator's suspension is left out.

### 2.5 CapsuleStore

`row` is the row in `memory_capsules`, `blob` the object at its location,
`write` the calls of `createCapsule` and `updateCapsule` between their database
and store accesses, `read` a client's `readMetadata` and `readContent`. An
update stores its content in place (`UpdateStore`) and commits its row later
(`UpdateCommit`), unless the version has moved (`UpdateConflict`) or it dies
(`Fail`). A ciphertext is its text and the call that encrypted it, since every
encryption takes a fresh IV; `content_hash` is compared as that ciphertext. Every
update moves `last_updated_at`, which decides the fingerprint; that two updates
in one millisecond leave the fingerprint equal is not modelled. `torn` and
`crossed` say when an update was cut off or crossed between its two writes, and
when a read fell between them; the properties `Intact` and `ReadMatchesMetadata`
hold of everything else.

### 2.6 CapsuleAccess

`perms` are the permission rows in the order of their creation, `share` the
calls of share (one transaction per capsule) and of revoke by bridge, `decl` the
negotiations with the declaration store, `access` the reads and attributed
writes, `session` who has a live session: share and revoke invalidate the
grantee's. Compliance, jurisdiction, clearance, lawful basis and the AI gates are
free refusals, which is how they act on this state; a gate escalation that
negotiate creates when it refuses is left out, as is `valid_from` in the future.
`ReadsFollowGrant` speaks of the grant a declaration was negotiated from;
`NewAccessStopsAtRevoke` of what begins after a revocation.

### 2.7 Accounts

`login` is a call of `login` or `issueInternalSession` between its accesses and
then the token its client holds, `session` the row, `link` and `redeem` the
one-time links, `change` a change of password, `admin` and `clear` the PATCH of
an admin and `clearLockoutSuspension`, each between its calls; any may stop
half-way. A session is accepted (`Valid`) when its row is ACTIVE, the token's
TAR hash is the account's and the nonce has been set. Three histories carry the
provisos: `excused` sessions are those whose login was past its checks when the
account was suspended or got a new password, those a call failed to invalidate
because it died, and those policy spares; `wiped` says that the failure counter
was reset under a lockout; `crossed` that two mints overlapped. Token expiry,
device binding and the narrowing of operations are left out: an expired session
or link is one that is not used again.

## 3. Runs

Passing runs; each property has a mutant of the mapped code that TLC rejects.

| Run | Question | Instance |
|---|---|---|
| `runtime_safety` | authorised, serial, bounded execution; the outcome is the last attempt's | 2 actions, 2 entities with grants, 2 executor ticks, 1 admission tick, 1 reconciler, 1 request, budget 2, batch 2, 1 crash |
| `runtime_overlap` | with overlapping ticks of every kind and racing requests: one live tick drives an action, and the attempt history implements `GovernedExecution` | 1 action, 2 entities without grants, 2 requests in flight, 2 admission ticks, 2 rows in reconcilers' hands, 2 executor ticks, 1 crash |
| `runtime_liveness` | `ApprovedSettles`, `OpenAttemptCloses` | 2 actions, 1 tick of each kind, 1 entity, 1 crash |
| `audit_entities` | linear, tail-growing, verifiable entity chains; no call waits for ever | 2 transactions of up to 2 events, 1 entity, 1 principal, the legacy chain, clock to 4 |
| `router_safety` | the hot copy and the keys speak of committed transactions; a retried operation takes effect a bounded number of times | 1 capsule, 1 grantee, 1 content, 2 processes, 1 crash or loss of the hot copy; the row is there at the start or not |
| `dual_approvals` | a second person's word for every effect, also where the payload is not bound; what an approval buys; one open escalation | 2 operators, one of whom wants three things (revoke either, change the configuration), 2 requests, 2 decisions at once, 2 escalations, floor 1 |
| `dual_glass` | a grant is used once, its review stands, the floor holds | 3 operators, 2 requests, 1 call, 1 escalation, 1 grant, all endpoints, floor 2 |
| `capsule_store` | row and content agree; reads match their metadata; guarded updates | 3 writers, 1 reader, 2 texts, 2 metadata values, one revocation |
| `capsule_access` | content follows grants; a revoked bridge is empty and opens nothing; declarations serve once | 2 capsules, an agent and a person, 2 bridges of up to 2 rows together, 1 negotiation, 2 accesses |
| `accounts` | sessions end with suspensions and passwords; lockouts can be cleared; links work once | 2 logins, lockout after 2 failures, 2 TAR policies, 2 reset links, 2 calls that redeem |

Runs that refute what the repository says of itself, one property each (section
4): `audit_system_chain`, `store_conflict`.

Why these bounds. Two actions are the least for a batch with something waiting
in it, two executor ticks for overlap, a budget of 2 for a retry, a requeue and
the exhausted case; with a crash every recovery path runs. Overlaps are of one
action, so one is enough for them: an action's row, attempts and `raced` are its
own, and a batch adds only that an action waits. The grants of `runtime_safety`
cancel a RUNNING action; without them, as in `runtime_overlap`, a cancel that read
SCHEDULED does the same. In the audit run two
transactions with two events each reach lock queues, a rollback behind a waiting
call, a lock-order deadlock, and chains of up to four; the clock gives four
events distinct times. In the router's run two processes are the least that can
check a key before either records it, one failure reaches both crash windows
after the commit and a cold read after a loss, and the two contents (written and
default) are all that packing tells apart; the key expires at any moment. For
dual control, two requests and two calls are what a race takes, two escalations
a duplicate, and the floor is one below the number of operators, so that one
revocation is legal and two are not; a denied request may come back any number
of times. Three writers are one that creates and two that race (a third update
races with one of them or follows it), and two texts and metadata values tell
changed from unchanged. Two bridges with two rows between them are a block
beside a grant, two grants of different width, or one share of two capsules; two
accesses are what a second use of a declaration takes. For accounts, one login
fails while another holds a session, and two links with two redeemers are the
least for a double claim and for overlapping mints. Every action of the modules
fires in the passing runs.

`MaxFailures`, `MaxWrites`, `MaxTime`, `MaxRows` and `MaxAttempts` are the only
bounds in guards; the number of calls, links and rows is that of the constants.

Symmetry is used where there is no liveness property: in `runtime_safety`,
`runtime_overlap`, `router_safety` and the runs of the four modules of 2.4 to 2.7,
whose temporal properties speak of single steps.
`CHECK_DEADLOCK FALSE`: a model stops where the system rests, when all the
actions are terminal or rejected, all transactions done, or all the calls of the
instance made.

Fairness. Cron starts each tick again every 30 s and a started tick runs on
(weak fairness of worker, admission and reconciler steps, and of requests in
flight). `claimScheduledActions` orders by `created_at`, so an action is not
passed over for ever while others are claimed (strong fairness of a claim of
each action). Nothing is assumed of entities: they need not create, approve or
cancel. `ApprovedSettles` supposes that no tick dies; with crashes it is false
(section 4). In the audit log, a statement is answered, a transaction that has
written commits unless it is rolled back, and the database detects deadlocks;
`WaiterServed` needs all three. The request-driven modules of 2.4 to 2.7 promise
nothing that must happen: no retry, queue or timer acts there by itself.

## 4. Findings

1. `audit_system_chain`: principals lock different keys and read the same
   actor-less chain, so it forks.
2. `store_conflict`: `updateCapsule` stores the new content in place before the
   transaction that compares versions. The loser of a conflict is told so, but
   its content is what the live capsule holds, beside the winner's
   `content_hash`. ADR-0042 says the detection eliminates silent overwrites.

Divergences the model reproduces, without a run of their own.

Runtime:

* Two reconcilers that have one stale attempt in hand both requeue its action, the
  second after a tick has claimed it again, because each sees RUNNING and updates
  by `action_id` (`executor.ts:562`); two live ticks drive the action. An admission
  tick that overlaps another does the same, writing SCHEDULED over an action
  claimed since it read. The comments of the claim speak of no double execution
  and of single-worker safety (`executor.ts:143`, `:208`).
* A cancel that commits between the admission tick's read and its update is
  overwritten: CANCELLED becomes SCHEDULED and the action runs
  (`scheduler.ts:110`). ADR-0057 calls terminal states immutable.
* A tick that dies after closing the last attempt and before writing the outcome
  leaves RUNNING for ever (`executor.ts:383`); neither loop of the reconciler, "the
  durable terminal-state guarantee" (`:480`), selects such a row.
* An action that waits in the batch of a live tick for more than 120 s is taken for
  one whose process died and timed out (`executor.ts:610`); the tick runs it all
  the same.
* A requeue starts with a full budget, so up to `2 * budget - 1` attempts are
  made where `lifecycle.service.ts:311` says TOTAL attempts. `AttemptBound` is the
  bound the code does keep.
* Nothing in `apps/api` registers a privileged endpoint for
  `ACTION_RUNNING_CANCEL`, so a grant for it exists only when inserted directly,
  as the integration test does (`GrantHolders` is therefore a parameter);
  `expires_at` of an action is never assigned, so the expiry sweep selects
  nothing.

Audit and router:

* A time the column rounds up no longer matches the router's hash, which is over
  the truncated one (`audit.ex:306`; `schemas/audit_event.ex:22` says either
  language verifies any row). The model keeps both times.
* The key of a revoke names the capsule and the grantee only: revoke, share,
  revoke within 24 hours is answered with success from the first key and the
  grant stays (`operations.ex:231`).
* A cold read that overlaps a write puts the old row over the writer's hot copy
  (`storage.ex:84`), and no read looks at the table again until the next write.
* The table cannot give back a capsule's grants after a restart, although
  `storage/ets.ex` refers to reconciliation at the next read.

Dual control (each is why a property has its proviso):

* `markBreakGlassUsed` is called atomic, but its update is by `grant_id` alone:
  two requests may use one grant, and a use may overwrite the review.
* Two decisions that overlap revive an approval the first one's request has
  spent: EXPIRED is not "forever" out of the approved filter
  (`escalation.service.ts:661`). A decision that brings metadata of its own also
  writes back the metadata without the mark of consumption.
* The operator floor is judged before the transaction that lowers the number.

Capsules:

* The comment at `write.service.ts:451` has a NOOP followed by the version check
  in the transaction; the NOOP branch makes none.
* A revocation that overtakes the share of its bridge misses the permissions
  created after it (`share.service.ts:479`; `:551` says immediate).
* A declaration issued before a revocation goes on reading for the rest of its
  TTL once the grantee has logged in again (`share.service.ts:547`); an attributed
  write asks for the newest ACTIVE permission and ignores its expiry and blocks
  (`write.service.ts:1198`).

Accounts:

* A login past its checks opens a session on an account that was suspended, or had
  its password changed, in between (`auth.service.ts:323`); `validateSession` does
  not look at the account.
* `clearLockoutSuspension` is said to undo exactly what the auth layer wrote
  (`lockout-recovery.service.ts:77`). A login that resets the counter under a
  lockout makes it impossible to clear.
* The PATCH of an admin writes an ADMIN_ACTION row and no ENTITY_SUSPENDED one, and
  neither it nor a reactivation resets the counter, so an admin's suspension after
  a lockout is lifted, although it is said to stay (`:15`).

## 5. Proofs

Every invariant and every action property that a passing run checks is proved,
and so is the refinement of `GovernedExecution`.

| Theorem | Establishes | Module |
|---|---|---|
| `TypeCorrect` | `Spec => []TypeOK` of the runtime | `ActionRuntimeProofs` |
| `OnlyAuthorisedExecution` | `Spec => []AuthorisedExecution` | `ActionRuntimeProofs` |
| `OneDriver` | `Spec => []SingleDriver` | `ActionExecutionProofs` |
| `AttemptsSerial` | `Spec => []SerialAttempts` | `ActionExecutionProofs` |
| `AttemptsBounded` | `Spec => []AttemptBound` | `ActionExecutionProofs` |
| `OutcomeIsLast` | `Spec => []OutcomeOfLastAttempt` | `ActionExecutionProofs` |
| `ImplementsGoverned` | `Spec => GovernedAttempts` | `ActionExecutionProofs` |
| `TypeCorrect` | `Spec => []TypeOK` of the audit log | `AuditChainProofs` |
| `LinksCommitted` | `Spec => []CommittedPredecessor` | `AuditChainProofs` |
| `OneSuccessor` | `Spec => []SingleSuccessor` | `AuditChainProofs` |
| `TailOnly` | `Spec => AppendsAtTail` | `AuditChainProofs` |
| `UntouchedVerifies` | `Spec => []IntactVerifies` | `AuditChainProofs` |
| `RouterTypeCorrect` | `Spec => []TypeOK` of the router | `CapsuleRouterProofs` |
| `RouterHotCommitted` | `Spec => []HotCommitted` | `CapsuleRouterProofs` |
| `RouterReplayOfDone` | `Spec => []ReplayOfDone` | `CapsuleRouterProofs` |
| `RouterEffectsBounded` | `Spec => []EffectsBounded` | `CapsuleRouterProofs` |
| `DualTypeCorrect` | `Spec => []TypeOK` of dual control | `DualControlProofs` |
| `SecondPerson` | `Spec => []TwoPersonRule` | `DualControlProofs` |
| `Budgeted` | `Spec => []ApprovalBudget` | `DualControlProofs` |
| `SingleUse` | `Spec => []SingleUseUnlessRaced` | `DualControlProofs` |
| `GrantOnce` | `Spec => []GrantOnceUnlessRaced` | `DualControlProofs` |
| `ReviewFinal` | `Spec => ReviewFinalUnlessRaced` | `DualControlProofs` |
| `OnePending` | `Spec => []OnePendingUnlessRaced` | `DualControlProofs` |
| `FloorHolds` | `Spec => []FloorUnlessRaced` | `DualControlProofs` |
| `StoreTypeCorrect` | `Spec => []TypeOK` of the capsule store | `CapsuleStoreProofs` |
| `StoreIntact` | `Spec => []Intact` | `CapsuleStoreProofs` |
| `ReadsMatch` | `Spec => []ReadMatchesMetadata` | `CapsuleStoreProofs` |
| `CommitGuarded` | `Spec => GuardedCommit` | `CapsuleStoreProofs` |
| `AccessTypeCorrect` | `Spec => []TypeOK` of permissions and access | `CapsuleAccessProofs` |
| `ServedOnce` | `Spec => []ServeOnceUnlessRaced` | `CapsuleAccessProofs` |
| `ReadsGranted` | `Spec => []ReadsFollowGrant` | `CapsuleAccessProofs` |
| `RevocationEmpties` | `Spec => []RevokedBridgeEmpty` | `CapsuleAccessProofs` |
| `RevocationStopsAccess` | `Spec => NewAccessStopsAtRevoke` | `CapsuleAccessProofs` |
| `AccountsTypeCorrect` | `Spec => []TypeOK` of accounts | `AccountsProofs` |
| `SessionsCurrent` | `Spec => []LiveSessionsCurrent` | `AccountsProofs` |
| `LockoutsClear` | `Spec => []LockoutClearable` | `AccountsProofs` |
| `LinksOnce` | `Spec => []LinkOnce` | `AccountsProofs` |

They hold for every value of the constants, under the assumptions that the
modules name and TLC evaluates on every run:

* `RuntimeAssumption`, `ChainAssumption`, `RouterAssumption`, `PersonAssumption`,
  `IdAssumption`, `WantedAssumption`, `CallAssumption`, `KeepAssumption`,
  `EntityAssumption`, `MaxRowsAssumption`, `OffersAssumption`,
  `LockoutAssumption`, `SubsetAssumption`, `NoneAssumption`: constants have the
  intended types, kinds of identifiers do not overlap, null values are not
  members, and the calls, requests or processes that are counted are finitely
  many. A budget, a batch and the number of failures to a lockout are at least
  one.
* `FloorAssumption`: the platform starts with finitely many operators, and not
  with fewer than its floor.

*Authorised execution.* An attempt is opened by a tick for what it claimed, so
the invariant has to follow an approval on its whole way. `ApprovalInv` says: a
non-existing row is blank; a request resolving an escalation is another person
than the source; a recorded approver is valid; every status from APPROVED to
RUNNING has an approver on record, and so has everything that carries an action
between statuses, i.e. candidates read by an admission tick, claimed actions,
and a pending requeue. The last part is why stale writes do no harm here: they
revive only what had been approved. No bound on the number of ticks of any kind
is assumed. Typing needs `WorkerShape`, that program counters agree with what a
tick holds.

*Execution.* Nothing is assumed about the number of ticks of any kind; the
invariant speaks of actions outside `raced`, and that no two admission ticks and
no two reconcilers have such an action in hand (`TicksApart`) is itself proved,
from where `raced` grows. What a tick drives has been claimed: its row is RUNNING
or terminal and no admission tick has it in hand (`DrivenClaimed`), so nothing makes
it claimable while it is driven. That takes three facts about those who write a
status without looking. A batch of the admission tick can only have been
cancelled since it was read (`BatchFresh`). A resolution that will approve still
finds the action unapproved, since the escalation's row lock lets one resolution
in at a time (`ResolutionInv`). And the reconciler works on what nobody drives,
except for a row that waited too long in a batch, which it may time out but
never requeues (`ReconcilerAlone`). An open attempt is the last one and only the
tick that handles it drives its action (`OpenIsLast`, `OwnAttempt`); with that,
attempts are serial. For the bound, whatever can still be claimed has fewer
attempts than one budget, all failed (`StartableWhereClaimable`), and a tick adds
at most its budget to what it found (`BudgetSpent`), which makes
`2 * RetryBudget - 1`. `OutcomeFinal` is why the outcome stays that of the last
attempt. The refinement is shown step by step: a step of the runtime records an
approval, overlaps on some actions, opens an attempt, closes an open one, or
leaves the history alone (`HistoryStep`, `HistoryRefines`). Actions in `raced` are
in it: that an attempt is closed by its handler or a reconciler and by nobody
after them (`HandlerAlone`) holds whatever overlaps.

*Linear chains.* `SingleSuccessor` is not inductive: that a link is unique
follows from each row linking to the latest one *before it in time*
(`Linked`), which must hold of committed rows alone and together with those
pending, since either may be what remains. What is read stays the latest until
the insert (`LatestStable`) because the lock of the entity's chain is held from
before the read to the end of the transaction (`LocksHeld`), all events of an
entity are under its own key (`EntityRow`), and what is pending comes after
what is committed (`PendingAfter`, also the reason for `AppendsAtTail`). Row
identities tell their writers (`RowOfWriter`), so a rolled back row's identity
does not come back. `CommittedPredecessor` needs no lock: a transaction sees
only committed rows and its own, which commit with it (`PredecessorSeen`).

*Verification.* A chain of events with distinct times is finite and each event
keeps the time it was hashed with (`Walkable`). Ranking its events by the number
of those before them is then a bijection (`RankShape`, by counting), so the walk
is over all of them in order (`InOrderShape`), the event after another in the
walk links to it (`StretchLinked`), and the first one links to the anchor or to
nothing (`FirstLinked`); by `Linked` from above, every window of every length
verifies. The bound of `Windows` on `maxEvents` leaves none out: an actor has at
most `MaxTime + 1` events of distinct times.

*The router.* What goes into the hot copy was in some process's hand before, so
`CommitInv` says that a copy that is about to be put there has been committed
(`InHandCommitted`), as has every row (`RowCommitted`), and that an operation
whose key is about to be recorded has taken effect. `EffectsBounded` needs a
count (`EffectsCounted`): while there is no key, whoever took effect is still
about to record it or has crashed, which the failures count; once there is one,
only those that checked before it was there can still take effect. The two
groups are disjoint sets of processes, which is why the bound is the number of
processes plus that of failures.

*Dual control.* A request past the gate goes by an authority that was given to
its caller for what it asks, and an escalation was APPROVED on another person's
word (`Authorised`): source and ask of an escalation are never rewritten, so this
needs no absence of races. Nor does `ApprovalBudget`, which counts: an effect
spends the approval that made the row APPROVED. The other properties have the
proviso that no two windows on the object overlapped. Under it, whoever has read
the row finds it as it was: PENDING for a decision, and EXPIRED once spent
(`SpentStaysSpent`); ACTIVE for the use of a grant, which has one user
(`UsedOnce`); nothing open for the creator of an escalation (`OpenedOnce`); more
operators than the floor for the one revocation that passed the census
(`FloorKept`).

*Capsule store.* One call creates the capsule before any other does anything
with it (`CreatedOnce`). The snapshot of an update is the row, but for its
access count, for as long as the version is the snapshot's (`Snapshots`): every
commit raises the version, so a version that matches means nobody came between,
which is `GuardedCommit`. Until an update is cut off or crossed, the object
belongs to the one update between its two writes, or else to the row (`Whole`);
the fingerprint of a read tells rows apart (`Fingerprints`).

*Capsule access.* A declaration remembers the permission it was negotiated from,
and offers are never rewritten (`Negotiated`), so what is served follows the
grant it was issued under. A declaration that one read uses is gone once served
(`Consumed`). From the transaction of a revocation on, nothing of its bridge is
in force and nothing is added to it (`Emptied`), unless its share was still
running.

*Accounts.* Each login that is not excused and is past its checks was made with
the password of now (`PasswordOfNow`), and on a suspended account there is none
whose session would survive the suspension (`SuspensionReaches`). A lockout that
was decided and not overtaken by a reset keeps its counter (`LockoutCounted`).
Only a used link has set a password (`RedeemedOnce`), and mints of one purpose
that do not overlap leave one open link, since each supersedes those it found
(`OneLinkOfPurpose`).

TLC checked each of these invariants on the instances of the runs before it was
proved; `runtime_overlap` is the instance on which ticks of every kind overlap.

Only model-checked: liveness under fairness (`ApprovedSettles`,
`OpenAttemptCloses`, `WaiterServed`), which is out of this prover's reach.
`SystemSingleSuccessor` and `ConflictKeepsContent` are refuted (section 4).
`AuditVerify` ranks events by counting and uses no sort of the community
modules, which are recursive and cannot be expanded in a proof.

## 6. Not modelled

* `tickActionExpirySweep` (selects nothing), the abort signal (no handler
  consumes it), the effects of handlers: a handler settles in any outcome, and
  one that goes on after its timeout is outside.
* Soft deletion, retention, browsing and projection queries: reads.
* `verifyAuditChainForScope` and the export views, which fold results of the
  modelled verification.
* The router's operations without state (authenticate, negotiate, audit), its
  wallet cache, device shard, activity counter and telemetry.
* Of the COSMP services: search, export, ranking and the other read paths;
  embeddings; the compliance, jurisdiction and lawful-basis rules, which are free
  refusals.
* Of authentication: signing and expiry of tokens, device binding, narrowing of
  operations, the public forgot-password route beyond the link it mints.
* A lost update of the TAR (`tar.ts:392` reads the row it hashes in the
  transaction that writes it, without a lock) and two metadata updates without an
  expected version, where the last one wins by design.
* The policy evaluator, a pure function whose decision `ActionRuntime` leaves
  free; handlers and connectors, which are I/O; the DBGI and collaboration
  supervisors, whose state is that of OTP and Phoenix libraries; product
  services, the other routes and web clients, which have no protocol of their own.

## 7. Plan

Order of work, the most important behaviour first. Items 1 to 8 are done.

1. `ActionStatus`, `ActionRuntime`, `GovernedExecution`: runtime and its
   abstract promise. Type and authorisation proved.
2. `AuditChain`, `AuditVerify`: the log every other component writes. Proved.
3. `CapsuleRouter`: read, write, share and revoke of the Elixir router. Proved.
4. `DualControl`: privileged routes, escalations, break-glass grants, operators.
5. `CapsuleStore` and `CapsuleAccess`: a capsule's content, and who reaches it.
6. `Accounts`: sessions, lockout, links.
7. Proofs of 4 to 6: all their invariants and action properties.
8. Proofs of the runtime: `ExecutionInv`, for any number of ticks of every kind,
   then the refinement `Spec => Governed!Spec` step by step.
9. With room: an abstract specification of a capsule's store and of an approval's
   life, and their refinement; two grantees over one capsule in `CapsuleRouter`
   and `PolicyEvaluator` as an operator against a reference table; properties for
   the hazards that have none.
