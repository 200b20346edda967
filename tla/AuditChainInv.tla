--------------------------- MODULE AuditChainInv ---------------------------
(***************************************************************************)
(* Why the chains of AuditChain stay linear: the strengthening from which  *)
(* AuditChainProofs proves its properties.                                 *)
(***************************************************************************)
EXTENDS AuditChain, FiniteSets

AllRows == rows \cup UNION {pending[t] : t \in Txs}

\* A call under way has room for its event.
Room == \A t \in Txs :
  pc[t] \in {"waiting", "locked", "read"} => writes[t] < MaxWrites

InFlight(t) == pc[t] \in {"locked", "read"}

\* A transaction holds the lock of every chain it is writing or has written.
LocksHeld ==
  \A t \in Txs :
    /\ InFlight(t) => locks[ChainKey(call[t])] = t
    /\ \A r \in pending[t] : locks[r.key] = t

\* A row's identity tells its writer, and no two rows have the same.
RowOfWriter ==
  /\ \A r \in rows : pc[r.id[1]] = "done"
  /\ \A t \in Txs : \A r \in pending[t] :
       r.id[1] = t /\ r.id[2] <= writes[t] /\ pc[t] # "done"
  /\ \A q, r \in AllRows : q.id = r.id => q = r

\* An entity's events are under its own lock, timed by the application.
EntityRow ==
  /\ \A r \in AllRows : r.actor \in Entities => r.key = r.actor /\ r.stored <= now
  /\ \A t \in ElixirTxs : call[t].actor = None

\* What is not committed yet comes after what is.
PendingAfter ==
  \A t \in Txs : \A r \in pending[t], q \in rows :
    r.actor \in Entities /\ q.actor = r.actor => q.stored <= r.stored

Committed(e) == {r \in rows : r.actor = e}
Chain(e) == {r \in AllRows : r.actor = e}

Distinct(S) == \A q, r \in S : q.stored = r.stored => q = r

Before(S, r) == {q \in S : q.stored < r.stored}

\* Each event links to the one before it in time, the first to none.
Linked(S) == \A r \in S : r.prev \in LatestIds(Before(S, r))

ChainsLinked ==
  \A e \in Entities :
    /\ Distinct(Committed(e)) => Linked(Committed(e))
    /\ Distinct(Chain(e)) => Linked(Chain(e))

\* What a call has read as the latest event is the latest until it inserts.
LatestStable ==
  \A t \in Txs, e \in Entities : pc[t] = "read" /\ call[t].actor = e =>
    previous[t] \in LatestIds(Chain(e))

\* Before it is committed, too, an event links to one that is committed or
\* will be with it.
PredecessorSeen ==
  \A t \in Txs :
    /\ \A r \in pending[t] : r.prev # None =>
         \E q \in rows \cup pending[t] : q.id = r.prev /\ q.actor = r.actor
    /\ pc[t] = "read" /\ previous[t] # None =>
         \E q \in rows \cup pending[t] :
           q.id = previous[t] /\ q.actor = call[t].actor

\* What a walk over an entity's events relies on besides their links: there
\* are finitely many, and each has the time it was hashed with.
Walkable ==
  /\ IsFiniteSet(rows)
  /\ \A t \in Txs : IsFiniteSet(pending[t])
  /\ \A r \in AllRows : r.actor \in Entities => r.hashed = r.stored

ChainInv ==
  /\ LocksHeld
  /\ RowOfWriter
  /\ EntityRow
  /\ PendingAfter
  /\ ChainsLinked
  /\ LatestStable
=============================================================================
