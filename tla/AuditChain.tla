----------------------------- MODULE AuditChain -----------------------------
(***************************************************************************)
(* The audit log of packages/database/src/queries/audit.ts and of its port *)
(* apps/cosmp_router/lib/cosmp_router/audit.ex, which write one table.     *)
(* Writing an event takes an advisory lock on the event's chain, reads the *)
(* latest event of the chain, and inserts a row linked to it; the lock is  *)
(* the transaction's and goes when it ends.  A transaction may write       *)
(* several events, of several chains, and may roll back.  The table is     *)
(* append-only by a trigger, so no action changes or removes a row.        *)
(*                                                                         *)
(* Time is a clock in milliseconds, the same for all writers.  A hash is   *)
(* its row: the model keeps the identity of the previous row for           *)
(* previous_event_hash, and for event_hash the one field of a row that can *)
(* be read back as something else than was hashed, its time.               *)
(***************************************************************************)
EXTENDS Naturals

CONSTANTS
  Entities,        \* authenticated actors, a chain each
  Principals,      \* SYSTEM_PRINCIPALS
  LegacyKey,       \* SYSTEM_CHAIN_KEY
  Txs,             \* database transactions
  ElixirTxs,       \* those of the Elixir router
  None,            \* null
  MaxWrites,       \* bound: events per transaction
  MaxTime          \* bound: the clock

ASSUME ChainAssumption ==
  /\ None \notin Entities \cup Principals \cup {LegacyKey} \cup Txs
  /\ None \notin Txs \X Nat
  /\ Entities \cap (Principals \cup {LegacyKey}) = {}
  /\ ElixirTxs \subseteq Txs
  /\ MaxWrites \in Nat
  /\ MaxTime \in Nat

VARIABLES
  rows,      \* audit_events, committed
  writes,    \* how many events each transaction has inserted
  pending,   \* the rows each transaction has inserted and not committed
  locks,     \* who holds the advisory lock of a chain key
  pc,        \* where each transaction is
  call,      \* its call of writeAuditEvent: actor and system principal
  previous,  \* what that call read as the latest event
  now

vars == <<rows, writes, pending, locks, pc, call, previous, now>>

Keys == Entities \cup Principals \cup {LegacyKey}
Actors == Entities \cup {None}
NoCall == [actor |-> None, principal |-> None]
Calls == [actor : Actors, principal : Principals \cup {None}]
RowIds == Txs \X (1 .. MaxWrites)
Rows == [id : RowIds, key : Keys, actor : Actors, prev : RowIds \cup {None},
         stored : Nat, hashed : Nat]

ChainKeyPrincipalFirst(c) ==
  IF c.principal # None THEN c.principal
  ELSE IF c.actor # None THEN c.actor ELSE LegacyKey

\* The chain an event's lock is taken on.
ChainKey(c) ==
  IF c.actor # None THEN c.actor
  ELSE IF c.principal # None THEN c.principal ELSE LegacyKey

Init ==
  /\ rows = {}
  /\ writes = [t \in Txs |-> 0]
  /\ pending = [t \in Txs |-> {}]
  /\ locks = [k \in Keys |-> None]
  /\ pc = [t \in Txs |-> "open"]
  /\ call = [t \in Txs |-> NoCall]
  /\ previous = [t \in Txs |-> None]
  /\ now = 0

\* Every operation of the router writes its events as the system's.
CallsOf(t) ==
  IF t \in ElixirTxs THEN {c \in Calls : c.actor = None /\ c.principal # None}
  ELSE Calls

CallWrite(t, c) ==
  /\ c \in CallsOf(t)
  /\ pc[t] = "open"
  /\ writes[t] < MaxWrites
  /\ pc' = [pc EXCEPT ![t] = "waiting"]
  /\ call' = [call EXCEPT ![t] = c]
  /\ UNCHANGED <<rows, writes, pending, locks, previous, now>>

LockIgnored(t) == TRUE

LockFree(t) == locks[ChainKey(call[t])] \in {None, t}

AcquireLock(t) ==
  /\ pc[t] = "waiting"
  /\ LockFree(t)
  /\ locks' = [locks EXCEPT ![ChainKey(call[t])] = t]
  /\ pc' = [pc EXCEPT ![t] = "locked"]
  /\ UNCHANGED <<rows, writes, pending, call, previous, now>>

VisibleAnyActor(t, a) == rows \cup pending[t]

\* What the transaction sees of an actor's events: the committed ones and its
\* own.  All the events without an actor are read as one.
Visible(t, a) == {r \in rows \cup pending[t] : r.actor = a}

\* The order of events with equal times is the database's choice.
Latest(S) == {r \in S : \A q \in S : q.stored <= r.stored}

LatestIdsUndefined(S) ==
  IF S = {} THEN {"undefined"} ELSE {r.id : r \in Latest(S)}
LatestIds(S) == IF S = {} THEN {None} ELSE {r.id : r \in Latest(S)}

ReadLatest(t) ==
  /\ pc[t] = "locked"
  /\ \E p \in LatestIds(Visible(t, call[t].actor)) :
       previous' = [previous EXCEPT ![t] = p]
  /\ pc' = [pc EXCEPT ![t] = "read"]
  /\ UNCHANGED <<rows, writes, pending, locks, call, now>>

\* The time column keeps milliseconds.  A Date has no more than that; a
\* DateTime with microseconds is rounded to the nearest by the database,
\* while the record that is hashed truncates it.
StoredTimes(t) == IF t \in ElixirTxs THEN {now, now + 1} ELSE {now}

NewRow(t, s) ==
  [id |-> <<t, writes[t] + 1>>, key |-> ChainKey(call[t]),
   actor |-> call[t].actor, prev |-> previous[t], stored |-> s, hashed |-> now]

InsertRow(t) ==
  /\ pc[t] = "read"
  /\ \E s \in StoredTimes(t) :
       pending' = [pending EXCEPT ![t] = @ \cup {NewRow(t, s)}]
  /\ writes' = [writes EXCEPT ![t] = @ + 1]
  /\ pc' = [pc EXCEPT ![t] = "open"]
  /\ call' = [call EXCEPT ![t] = NoCall]
  /\ previous' = [previous EXCEPT ![t] = None]
  /\ UNCHANGED <<rows, locks, now>>

KeepLocks(t) == locks

\* pg_advisory_xact_lock: the end of the transaction gives the locks back.
ReleaseLocks(t) == [k \in Keys |-> IF locks[k] = t THEN None ELSE locks[k]]

EndTx(t) ==
  /\ locks' = ReleaseLocks(t)
  /\ pc' = [pc EXCEPT ![t] = "done"]
  /\ pending' = [pending EXCEPT ![t] = {}]
  /\ call' = [call EXCEPT ![t] = NoCall]
  /\ previous' = [previous EXCEPT ![t] = None]
  /\ UNCHANGED <<writes, now>>

Commit(t) ==
  /\ pc[t] = "open"
  /\ pending[t] # {}
  /\ rows' = rows \cup pending[t]
  /\ EndTx(t)

\* The caller throws, the client's transaction timeout passes, or the process
\* dies.
Rollback(t) ==
  /\ pc[t] # "done"
  /\ EndTx(t)
  /\ UNCHANGED rows

\* The database breaks a cycle of waiting transactions by aborting one.
InDeadlock(t) ==
  \E S \in SUBSET Txs :
    /\ t \in S
    /\ \A s \in S : /\ pc[s] = "waiting"
                    /\ locks[ChainKey(call[s])] \in S \ {s}

DeadlockVictim(t) ==
  /\ InDeadlock(t)
  /\ Rollback(t)

Tick ==
  /\ now < MaxTime
  /\ now' = now + 1
  /\ UNCHANGED <<rows, writes, pending, locks, pc, call, previous>>

Next ==
  \/ \E t \in Txs :
       \/ \E c \in Calls : CallWrite(t, c)
       \/ AcquireLock(t)
       \/ ReadLatest(t)
       \/ InsertRow(t)
       \/ Commit(t)
       \/ Rollback(t)
       \/ DeadlockVictim(t)
  \/ Tick

Spec == Init /\ [][Next]_vars

\* A statement sent to the database is answered, a transaction that has
\* written ends, and a deadlock is detected.  Nothing makes a caller roll back.
Fairness ==
  \A t \in Txs :
    /\ WF_vars(AcquireLock(t))
    /\ WF_vars(ReadLatest(t))
    /\ WF_vars(InsertRow(t))
    /\ WF_vars(Commit(t))
    /\ WF_vars(DeadlockVictim(t))

FairSpec == Spec /\ Fairness

-----------------------------------------------------------------------------
(* Properties *)

\* Every variable keeps its type.
TypeOK ==
  /\ rows \subseteq Rows
  /\ writes \in [Txs -> 0 .. MaxWrites]
  /\ pending \in [Txs -> SUBSET Rows]
  /\ locks \in [Keys -> Txs \cup {None}]
  /\ pc \in [Txs -> {"open", "waiting", "locked", "read", "done"}]
  /\ call \in [Txs -> Calls]
  /\ previous \in [Txs -> RowIds \cup {None}]
  /\ now \in 0 .. MaxTime

\* No two events of the actor fell into one millisecond, so that time orders
\* them.
Separated(a) ==
  \A q, r \in rows : q.actor = a /\ r.actor = a /\ q.stored = r.stored => q = r

\* Two events of one entity never link to the same previous event, whatever
\* transactions wrote them: the lock is held from the read of the latest event
\* to the commit (audit.ts writeAuditEventInTx, "two concurrent writers cannot
\* link to the same previous event").
SingleSuccessor ==
  \A e \in Entities : Separated(e) =>
    \A q, r \in rows :
      q.actor = e /\ r.actor = e /\ q.prev = r.prev => q = r

\* A committed event links to a committed event of the same actor: no link to
\* what a transaction rolled back, or to another chain.
CommittedPredecessor ==
  \A r \in rows : r.prev # None =>
    \E q \in rows : q.id = r.prev /\ q.actor = r.actor

\* A transaction commits its events of an entity after all that are there: an
\* event never turns up in the middle of a chain somebody may have verified.
AppendsAtTail ==
  [][\A r \in rows' \ rows, q \in rows :
       r.actor \in Entities /\ q.actor = r.actor => q.stored <= r.stored]_vars

\* A call that waits for a chain's lock gets it or is told of a deadlock.
WaiterServed == \A t \in Txs : pc[t] = "waiting" ~> pc[t] # "waiting"

\* audit.ts:1532-1533 "Serialize per-chain writes so two concurrent writers
\* cannot link to the same previous event", of the events without an actor.
SystemSingleSuccessor ==
  Separated(None) =>
    \A q, r \in rows :
      q.actor = None /\ r.actor = None /\ q.prev = r.prev => q = r
=============================================================================
