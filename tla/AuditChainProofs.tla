-------------------------- MODULE AuditChainProofs --------------------------
(***************************************************************************)
(* Proofs about AuditChain, for any number of entities, principals and     *)
(* transactions, of either language, and any number of events in each.     *)
(***************************************************************************)
EXTENDS AuditChainInv, AuditVerify, FiniteSetTheorems, SequenceTheorems, TLAPS

-----------------------------------------------------------------------------
(* Types *)

\* A lock key is found for every call, and an entity's is its own.
LEMMA ChainKeyType ==
  ASSUME NEW c \in Calls
  PROVE  /\ ChainKey(c) \in Keys
         /\ c.actor \in Entities => ChainKey(c) = c.actor
BY ChainAssumption DEF ChainKey, Calls, Keys, Actors

LEMMA NoCallType == NoCall \in Calls /\ NoCall.actor = None
BY DEF NoCall, Calls, Actors

\* A transaction's call is one of the calls.
LEMMA CallsOfType == \A t \in Txs : CallsOf(t) \subseteq Calls
BY DEF CallsOf

\* What is read as the latest event is an event's identity or none.
LEMMA LatestIdsType ==
  ASSUME NEW S, S \subseteq Rows
  PROVE  LatestIds(S) \subseteq RowIds \cup {None}
<1>1. CASE S = {}
  BY <1>1 DEF LatestIds
<1>2. CASE S # {}
  <2>1. \A r \in S : r.id \in RowIds
    BY DEF Rows
  <2> QED
    BY <1>2, <2>1 DEF LatestIds, Latest
<1> QED
  BY <1>1, <1>2

\* The row a call inserts is a row, of the call's chain.
LEMMA NewRowType ==
  ASSUME TypeOK, Room, NEW t \in Txs, pc[t] = "read", NEW s \in StoredTimes(t)
  PROVE  NewRow(t, s) \in Rows
<1>1. call[t] \in Calls /\ previous[t] \in RowIds \cup {None} /\ now \in Nat
  BY ChainAssumption DEF TypeOK
<1>2. ChainKey(call[t]) \in Keys /\ call[t].actor \in Actors
  BY <1>1, ChainKeyType DEF Calls
<1>3. <<t, writes[t] + 1>> \in RowIds
  <2>1. writes[t] \in Nat /\ writes[t] < MaxWrites
    BY DEF TypeOK, Room
  <2> QED
    BY <2>1, ChainAssumption DEF RowIds
<1>4. s \in Nat
  BY <1>1 DEF StoredTimes
<1> QED
  BY <1>1, <1>2, <1>3, <1>4 DEF NewRow, Rows

\* Giving back locks leaves each with its holder or free.
LEMMA ReleaseType ==
  ASSUME TypeOK, NEW t \in Txs
  PROVE  ReleaseLocks(t) \in [Keys -> Txs \cup {None}]
BY DEF ReleaseLocks, TypeOK

LEMMA EndTxType ==
  ASSUME TypeOK, Room, NEW t \in Txs, EndTx(t), rows' \subseteq Rows
  PROVE  TypeOK' /\ Room'
<1>1. locks' \in [Keys -> Txs \cup {None}]
  BY ReleaseType DEF EndTx
<1>2. pc' \in [Txs -> {"open", "waiting", "locked", "read", "done"}]
  BY DEF EndTx, TypeOK
<1>3. pending' \in [Txs -> SUBSET Rows]
  BY DEF EndTx, TypeOK
<1>4. call' \in [Txs -> Calls]
  BY NoCallType DEF EndTx, TypeOK
<1>5. previous' \in [Txs -> RowIds \cup {None}]
  BY DEF EndTx, TypeOK
<1>6. writes' = writes /\ now' = now
  BY DEF EndTx
<1>7. TypeOK'
  BY <1>1, <1>2, <1>3, <1>4, <1>5, <1>6 DEF TypeOK
<1>8. Room'
  BY <1>6 DEF Room, EndTx, TypeOK
<1> QED
  BY <1>7, <1>8

LEMMA InitTypeOK == Init => TypeOK /\ Room
<1> SUFFICES ASSUME Init PROVE TypeOK /\ Room
  OBVIOUS
<1>1. TypeOK
  BY ChainAssumption, NoCallType DEF Init, TypeOK
<1>2. Room
  BY DEF Init, Room
<1> QED
  BY <1>1, <1>2

\* Every step keeps the types.
LEMMA NextTypeOK ==
  ASSUME TypeOK, Room, [Next]_vars
  PROVE  TypeOK' /\ Room'
<1>1. ASSUME NEW t \in Txs, NEW c \in Calls, CallWrite(t, c)
      PROVE  TypeOK' /\ Room'
  <2>1. pc' \in [Txs -> {"open", "waiting", "locked", "read", "done"}]
    BY <1>1 DEF CallWrite, TypeOK
  <2>2. call' \in [Txs -> Calls]
    BY <1>1 DEF CallWrite, TypeOK
  <2>3. TypeOK'
    BY <1>1, <2>1, <2>2 DEF CallWrite, TypeOK
  <2>4. Room'
    BY <1>1 DEF CallWrite, TypeOK, Room
  <2> QED
    BY <2>3, <2>4
<1>2. ASSUME NEW t \in Txs, AcquireLock(t)
      PROVE  TypeOK' /\ Room'
  <2>1. locks' \in [Keys -> Txs \cup {None}]
    BY <1>2 DEF AcquireLock, TypeOK
  <2>2. pc' \in [Txs -> {"open", "waiting", "locked", "read", "done"}]
    BY <1>2 DEF AcquireLock, TypeOK
  <2>3. TypeOK'
    BY <1>2, <2>1, <2>2 DEF AcquireLock, TypeOK
  <2>4. Room'
    BY <1>2 DEF AcquireLock, TypeOK, Room
  <2> QED
    BY <2>3, <2>4
<1>3. ASSUME NEW t \in Txs, ReadLatest(t)
      PROVE  TypeOK' /\ Room'
  <2>1. Visible(t, call[t].actor) \subseteq Rows
    BY DEF Visible, TypeOK
  <2>2. previous' \in [Txs -> RowIds \cup {None}]
    BY <1>3, <2>1, LatestIdsType DEF ReadLatest, TypeOK
  <2>3. pc' \in [Txs -> {"open", "waiting", "locked", "read", "done"}]
    BY <1>3 DEF ReadLatest, TypeOK
  <2>4. TypeOK'
    BY <1>3, <2>2, <2>3 DEF ReadLatest, TypeOK
  <2>5. Room'
    BY <1>3 DEF ReadLatest, TypeOK, Room
  <2> QED
    BY <2>4, <2>5
<1>4. ASSUME NEW t \in Txs, InsertRow(t)
      PROVE  TypeOK' /\ Room'
  <2>1. PICK s \in StoredTimes(t) :
          pending' = [pending EXCEPT ![t] = @ \cup {NewRow(t, s)}]
    BY <1>4 DEF InsertRow
  <2>2. pending' \in [Txs -> SUBSET Rows]
    BY <1>4, <2>1, NewRowType DEF InsertRow, TypeOK
  <2>3. writes' \in [Txs -> 0 .. MaxWrites]
    <3>1. writes[t] + 1 \in 0 .. MaxWrites
      BY <1>4, ChainAssumption DEF InsertRow, TypeOK, Room
    <3> QED
      BY <1>4, <3>1 DEF InsertRow, TypeOK
  <2>4. pc' \in [Txs -> {"open", "waiting", "locked", "read", "done"}]
    BY <1>4 DEF InsertRow, TypeOK
  <2>5. call' \in [Txs -> Calls] /\ previous' \in [Txs -> RowIds \cup {None}]
    BY <1>4, NoCallType DEF InsertRow, TypeOK
  <2>6. TypeOK'
    BY <1>4, <2>2, <2>3, <2>4, <2>5 DEF InsertRow, TypeOK
  <2>7. Room'
    BY <1>4 DEF InsertRow, TypeOK, Room
  <2> QED
    BY <2>6, <2>7
<1>5. ASSUME NEW t \in Txs, Commit(t)
      PROVE  TypeOK' /\ Room'
  <2>1. rows' \subseteq Rows
    BY <1>5 DEF Commit, TypeOK
  <2> QED
    BY <1>5, <2>1, EndTxType DEF Commit
<1>6. ASSUME NEW t \in Txs, Rollback(t)
      PROVE  TypeOK' /\ Room'
  <2>1. rows' \subseteq Rows
    BY <1>6 DEF Rollback, TypeOK
  <2> QED
    BY <1>6, <2>1, EndTxType DEF Rollback
<1>7. CASE Tick
  BY <1>7, ChainAssumption DEF Tick, TypeOK, Room
<1>8. CASE UNCHANGED vars
  BY <1>8 DEF vars, TypeOK, Room
<1> QED
  BY <1>1, <1>2, <1>3, <1>4, <1>5, <1>6, <1>7, <1>8
  DEF Next, DeadlockVictim

\* Every variable of the audit log keeps its type.
THEOREM TypeCorrect == Spec => []TypeOK
<1>1. Init => TypeOK /\ Room
  BY InitTypeOK
<1>2. (TypeOK /\ Room) /\ [Next]_vars => (TypeOK /\ Room)'
  BY NextTypeOK
<1> QED
  BY <1>1, <1>2, PTL DEF Spec

-----------------------------------------------------------------------------
(* Events link to committed events *)

LEMMA NextPredecessor ==
  ASSUME TypeOK, Room, CommittedPredecessor, PredecessorSeen, [Next]_vars
  PROVE  CommittedPredecessor' /\ PredecessorSeen'
<1>1. ASSUME NEW t \in Txs, NEW c \in Calls, CallWrite(t, c)
      PROVE  CommittedPredecessor' /\ PredecessorSeen'
  BY <1>1 DEF CallWrite, TypeOK, CommittedPredecessor, PredecessorSeen
<1>2. ASSUME NEW t \in Txs, AcquireLock(t)
      PROVE  CommittedPredecessor' /\ PredecessorSeen'
  BY <1>2 DEF AcquireLock, TypeOK, CommittedPredecessor, PredecessorSeen
<1>3. ASSUME NEW t \in Txs, ReadLatest(t)
      PROVE  CommittedPredecessor' /\ PredecessorSeen'
  <2>1. CommittedPredecessor'
    BY <1>3 DEF ReadLatest, CommittedPredecessor
  <2>2. PICK p \in LatestIds(Visible(t, call[t].actor)) :
          previous' = [previous EXCEPT ![t] = p]
    BY <1>3 DEF ReadLatest
  <2>3. p # None =>
          \E q \in rows \cup pending[t] : q.id = p /\ q.actor = call[t].actor
    BY <2>2 DEF LatestIds, Latest, Visible
  <2>4. PredecessorSeen'
    BY <1>3, <2>2, <2>3 DEF ReadLatest, TypeOK, PredecessorSeen
  <2> QED
    BY <2>1, <2>4
<1>4. ASSUME NEW t \in Txs, InsertRow(t)
      PROVE  CommittedPredecessor' /\ PredecessorSeen'
  <2>1. CommittedPredecessor'
    BY <1>4 DEF InsertRow, CommittedPredecessor
  <2>2. PICK s \in StoredTimes(t) :
          pending' = [pending EXCEPT ![t] = @ \cup {NewRow(t, s)}]
    BY <1>4 DEF InsertRow
  <2>3. NewRow(t, s).prev = previous[t] /\ NewRow(t, s).actor = call[t].actor
    BY DEF NewRow
  <2>4. NewRow(t, s).prev # None =>
          \E q \in rows \cup pending[t] :
            q.id = NewRow(t, s).prev /\ q.actor = NewRow(t, s).actor
    BY <1>4, <2>3 DEF InsertRow, PredecessorSeen
  <2>5. PredecessorSeen'
    <3>1. ASSUME NEW u \in Txs, NEW r \in pending'[u], r.prev # None
          PROVE  \E q \in rows' \cup pending'[u] :
                   q.id = r.prev /\ q.actor = r.actor
      <4>1. CASE u = t
        <5>1. pending'[u] = pending[u] \cup {NewRow(t, s)}
          BY <2>2, <4>1 DEF TypeOK
        <5>2. rows' = rows
          BY <1>4 DEF InsertRow
        <5> QED
          BY <2>4, <3>1, <4>1, <5>1, <5>2 DEF PredecessorSeen
      <4>2. CASE u # t
        BY <1>4, <2>2, <3>1, <4>2 DEF InsertRow, TypeOK, PredecessorSeen
      <4> QED
        BY <4>1, <4>2
    <3>2. ASSUME NEW u \in Txs, pc'[u] = "read", previous'[u] # None
          PROVE  \E q \in rows' \cup pending'[u] :
                   q.id = previous'[u] /\ q.actor = call'[u].actor
      <4>1. u # t
        BY <1>4, <3>2 DEF InsertRow, TypeOK
      <4> QED
        BY <1>4, <2>2, <3>2, <4>1 DEF InsertRow, TypeOK, PredecessorSeen
    <3> QED
      BY <3>1, <3>2 DEF PredecessorSeen
  <2> QED
    BY <2>1, <2>5
<1>5. ASSUME NEW t \in Txs, Commit(t)
      PROVE  CommittedPredecessor' /\ PredecessorSeen'
  <2>1. CommittedPredecessor'
    BY <1>5 DEF Commit, CommittedPredecessor, PredecessorSeen
  <2>2. PredecessorSeen'
    BY <1>5 DEF Commit, EndTx, TypeOK, PredecessorSeen
  <2> QED
    BY <2>1, <2>2
<1>6. ASSUME NEW t \in Txs, Rollback(t)
      PROVE  CommittedPredecessor' /\ PredecessorSeen'
  BY <1>6 DEF Rollback, EndTx, TypeOK, CommittedPredecessor, PredecessorSeen
<1>7. CASE Tick
  BY <1>7 DEF Tick, CommittedPredecessor, PredecessorSeen
<1>8. CASE UNCHANGED vars
  BY <1>8 DEF vars, CommittedPredecessor, PredecessorSeen
<1> QED
  BY <1>1, <1>2, <1>3, <1>4, <1>5, <1>6, <1>7, <1>8
  DEF Next, DeadlockVictim

\* A committed event links to a committed event of its actor: nothing that was
\* rolled back and nothing of another chain is ever linked to.
THEOREM LinksCommitted == Spec => []CommittedPredecessor
<1> DEFINE I == TypeOK /\ Room /\ CommittedPredecessor /\ PredecessorSeen
<1>1. Init => I
  <2>1. Init => CommittedPredecessor /\ PredecessorSeen
    BY DEF Init, CommittedPredecessor, PredecessorSeen
  <2> QED
    BY <2>1, InitTypeOK
<1>2. I /\ [Next]_vars => I'
  BY NextTypeOK, NextPredecessor
<1>3. I => CommittedPredecessor
  OBVIOUS
<1> QED
  BY <1>1, <1>2, <1>3, PTL DEF Spec

-----------------------------------------------------------------------------
(* Linked sets of events *)

\* An event after all of a linked set, linked to its latest, extends it.
LEMMA LinkAppend ==
  ASSUME NEW S, S \subseteq Rows, NEW n \in Rows, n \notin S,
         Distinct(S) => Linked(S),
         Distinct(S \cup {n}),
         \A q \in S : q.stored <= n.stored,
         n.prev \in LatestIds(S)
  PROVE  Linked(S \cup {n})
<1>1. Distinct(S) /\ Linked(S)
  BY DEF Distinct
<1>2. n.stored \in Nat /\ \A q \in S : q.stored \in Nat
  BY DEF Rows
<1>3. \A q \in S : q.stored < n.stored
  <2> SUFFICES ASSUME NEW q \in S PROVE q.stored # n.stored
    BY <1>2
  <2> QED
    BY DEF Distinct
<1>4. Before(S \cup {n}, n) = S
  BY <1>2, <1>3 DEF Before
<1>5. ASSUME NEW x \in S
      PROVE  Before(S \cup {n}, x) = Before(S, x)
  BY <1>2, <1>3 DEF Before
<1> QED
  BY <1>1, <1>4, <1>5 DEF Linked

\* In a linked set no two events link to the same one.
LEMMA LinkedSuccessor ==
  ASSUME NEW S, S \subseteq Rows, Distinct(S), Linked(S),
         \A x, y \in S : x.id = y.id => x = y,
         NEW q \in S, NEW r \in S, q.prev = r.prev
  PROVE  q = r
<1>1. \A x \in S : x.stored \in Nat /\ x.id # None
  BY ChainAssumption DEF Rows, RowIds
<1>2. ASSUME NEW x \in S, NEW y \in S, x.prev = y.prev
      PROVE  ~(x.stored < y.stored)
  <2> SUFFICES ASSUME x.stored < y.stored PROVE FALSE
    OBVIOUS
  <2>1. x \in Before(S, y)
    BY DEF Before
  <2>2. PICK b \in Latest(Before(S, y)) : y.prev = b.id
    BY <2>1 DEF Linked, LatestIds
  <2>3. b \in S /\ x.stored <= b.stored
    BY <2>1, <2>2 DEF Latest, Before
  <2>4. x.prev = b.id /\ x.prev # None
    BY <1>1, <1>2, <2>2, <2>3
  <2>5. PICK a \in Latest(Before(S, x)) : x.prev = a.id
    BY <2>4 DEF Linked, LatestIds
  <2>6. a \in S /\ a.stored < x.stored
    BY <2>5 DEF Latest, Before
  <2>7. a = b
    BY <2>3, <2>4, <2>5, <2>6
  <2> QED
    BY <1>1, <2>3, <2>6, <2>7
<1>3. q.stored = r.stored
  BY <1>1, <1>2
<1> QED
  BY <1>3 DEF Distinct

-----------------------------------------------------------------------------
(* Chains stay linked *)

\* The uncommitted events of an entity are those of the holder of its lock.
LEMMA HolderWrites ==
  ASSUME TypeOK, LocksHeld, EntityRow, NEW t \in Txs, NEW e \in Entities,
         NEW r \in pending[t], r.actor = e
  PROVE  locks[e] = t
<1>1. r \in AllRows
  BY DEF AllRows
<1>2. r.key = e
  BY <1>1 DEF EntityRow
<1> QED
  BY <1>2 DEF LocksHeld

\* The holder of an entity's lock sees all of its events.
LEMMA HolderSees ==
  ASSUME TypeOK, LocksHeld, EntityRow, NEW t \in Txs, NEW e \in Entities,
         locks[e] = t
  PROVE  Visible(t, e) = Chain(e)
BY HolderWrites DEF Visible, Chain, AllRows

\* While a call is under way it holds its chain's lock.
LEMMA CallHolds ==
  ASSUME TypeOK, LocksHeld, NEW t \in Txs, InFlight(t)
  PROVE  /\ locks[ChainKey(call[t])] = t
         /\ call[t].actor \in Entities => locks[call[t].actor] = t
<1>1. call[t] \in Calls
  BY DEF TypeOK
<1> QED
  BY <1>1, ChainKeyType DEF LocksHeld

LEMMA RowsTyped == TypeOK => rows \subseteq Rows /\ AllRows \subseteq Rows
BY DEF TypeOK, AllRows

\* A step that leaves the table alone leaves the chains alone.
LEMMA SameChains ==
  ASSUME rows' = rows, pending' = pending
  PROVE  /\ AllRows' = AllRows
         /\ \A a : Committed(a)' = Committed(a) /\ Chain(a)' = Chain(a)
BY DEF AllRows, Committed, Chain

LEMMA SameChainsLinked ==
  ASSUME ChainsLinked, rows' = rows, pending' = pending
  PROVE  ChainsLinked'
BY SameChains DEF ChainsLinked

\* What was latest in a chain that did not change is.
LEMMA StillLatest ==
  ASSUME NEW u \in Txs, NEW e \in Entities, previous'[u] = previous[u],
         Chain(e)' = Chain(e), previous[u] \in LatestIds(Chain(e))
  PROVE  (previous[u] \in LatestIds(Chain(e)))'
BY DEF LatestIds, Latest

LEMMA InitChain == Init => ChainInv
<1> SUFFICES ASSUME Init PROVE ChainInv
  OBVIOUS
<1>1. rows = {} /\ \A t \in Txs : pending[t] = {}
  BY DEF Init
<1>2. AllRows = {}
  BY <1>1 DEF AllRows
<1>3. LocksHeld /\ RowOfWriter /\ PendingAfter
  BY <1>1, <1>2 DEF Init, LocksHeld, InFlight, RowOfWriter, PendingAfter
<1>4. EntityRow
  BY <1>2, NoCallType, ChainAssumption DEF Init, EntityRow
<1>5. ChainsLinked
  BY <1>1, <1>2 DEF ChainsLinked, Committed, Chain, Linked
<1>6. LatestStable
  BY DEF Init, LatestStable
<1> QED
  BY <1>3, <1>4, <1>5, <1>6 DEF ChainInv

LEMMA CallWriteChain ==
  ASSUME TypeOK, ChainInv, NEW t \in Txs, NEW c \in Calls, CallWrite(t, c)
  PROVE  ChainInv'
<1> USE DEF ChainInv
<1>1. rows' = rows /\ pending' = pending /\ AllRows' = AllRows
  BY SameChains DEF CallWrite
<1>2. pc' = [pc EXCEPT ![t] = "waiting"] /\ pc[t] = "open"
  BY DEF CallWrite
<1>3. call' = [call EXCEPT ![t] = c]
  BY DEF CallWrite
<1>4. LocksHeld'
  BY <1>1, <1>2, <1>3 DEF LocksHeld, InFlight, CallWrite, TypeOK
<1>5. RowOfWriter'
  <2>1. \A r \in rows : r.id[1] \in Txs
    BY DEF TypeOK, Rows, RowIds
  <2> QED
    BY <1>1, <1>2, <2>1 DEF RowOfWriter, CallWrite, TypeOK
<1>6. EntityRow'
  <2>1. t \in ElixirTxs => c.actor = None
    BY DEF CallWrite, CallsOf
  <2>2. now' = now
    BY DEF CallWrite
  <2>3. \A u \in ElixirTxs : call'[u].actor = None
    BY <1>3, <2>1, ChainAssumption DEF EntityRow, TypeOK
  <2> QED
    BY <1>1, <2>2, <2>3 DEF EntityRow
<1>7. PendingAfter'
  BY <1>1 DEF PendingAfter
<1>8. ChainsLinked'
  BY <1>1, SameChainsLinked
<1>9. LatestStable'
  <2> SUFFICES ASSUME NEW u \in Txs, NEW e \in Entities,
                      pc'[u] = "read", call'[u].actor = e
               PROVE  (previous[u] \in LatestIds(Chain(e)))'
    BY DEF LatestStable
  <2>1. u # t /\ pc[u] = "read" /\ call'[u] = call[u]
    BY <1>2, <1>3 DEF TypeOK
  <2>2. previous'[u] = previous[u] /\ Chain(e)' = Chain(e)
    BY <1>1, SameChains DEF CallWrite
  <2>3. previous[u] \in LatestIds(Chain(e))
    BY <2>1 DEF LatestStable
  <2> QED
    BY <2>2, <2>3, StillLatest
<1> QED
  BY <1>4, <1>5, <1>6, <1>7, <1>8, <1>9

LEMMA AcquireChain ==
  ASSUME TypeOK, ChainInv, NEW t \in Txs, AcquireLock(t)
  PROVE  ChainInv'
<1> USE DEF ChainInv
<1> DEFINE k == ChainKey(call[t])
<1>1. rows' = rows /\ pending' = pending /\ AllRows' = AllRows
  BY SameChains DEF AcquireLock
<1>2. pc' = [pc EXCEPT ![t] = "locked"] /\ pc[t] = "waiting"
  BY DEF AcquireLock
<1>3. locks' = [locks EXCEPT ![k] = t] /\ locks[k] \in {None, t}
  BY DEF AcquireLock, LockFree
<1>4. call' = call /\ previous' = previous /\ writes' = writes /\ now' = now
  BY DEF AcquireLock
<1>5. k \in Keys /\ k' = k
  BY <1>4, ChainKeyType DEF TypeOK, ChainKey
<1>6. LocksHeld'
  <2>1. \A u \in Txs, j \in Keys : locks[j] = u => locks'[j] = u
    BY <1>3, <1>5, ChainAssumption DEF TypeOK
  <2>2. ASSUME NEW u \in Txs, InFlight(u)'
        PROVE  (locks[ChainKey(call[u])] = u)'
    <3>1. CASE u = t
      BY <1>3, <1>4, <1>5, <3>1 DEF TypeOK, ChainKey
    <3>2. CASE u # t
      <4>1. InFlight(u)
        BY <1>2, <2>2, <3>2 DEF InFlight, TypeOK
      <4>2. locks[ChainKey(call[u])] = u /\ ChainKey(call[u]) \in Keys
        BY <4>1, ChainKeyType DEF LocksHeld, TypeOK
      <4> QED
        BY <1>4, <2>1, <4>2 DEF ChainKey
    <3> QED
      BY <3>1, <3>2
  <2>3. ASSUME NEW u \in Txs, NEW r \in pending[u]
        PROVE  locks'[r.key] = u
    <3>1. r.key \in Keys /\ locks[r.key] = u
      BY DEF LocksHeld, TypeOK, Rows
    <3> QED
      BY <2>1, <3>1
  <2> QED
    BY <1>1, <2>2, <2>3 DEF LocksHeld
<1>7. RowOfWriter'
  <2>1. \A r \in rows : r.id[1] \in Txs
    BY DEF TypeOK, Rows, RowIds
  <2> QED
    BY <1>1, <1>2, <1>4, <2>1 DEF RowOfWriter, TypeOK
<1>8. EntityRow'
  BY <1>1, <1>4 DEF EntityRow
<1>9. PendingAfter'
  BY <1>1 DEF PendingAfter
<1>10. ChainsLinked'
  BY <1>1, SameChainsLinked
<1>11. LatestStable'
  <2> SUFFICES ASSUME NEW u \in Txs, NEW e \in Entities,
                      pc'[u] = "read", call'[u].actor = e
               PROVE  (previous[u] \in LatestIds(Chain(e)))'
    BY DEF LatestStable
  <2>1. pc[u] = "read"
    BY <1>2 DEF TypeOK
  <2>2. Chain(e)' = Chain(e)
    BY <1>1, SameChains
  <2>3. previous[u] \in LatestIds(Chain(e))
    BY <1>4, <2>1 DEF LatestStable
  <2> QED
    BY <1>4, <2>2, <2>3, StillLatest
<1> QED
  BY <1>6, <1>7, <1>8, <1>9, <1>10, <1>11

LEMMA ReadChain ==
  ASSUME TypeOK, ChainInv, NEW t \in Txs, ReadLatest(t)
  PROVE  ChainInv'
<1> USE DEF ChainInv
<1>1. rows' = rows /\ pending' = pending /\ AllRows' = AllRows
  BY SameChains DEF ReadLatest
<1>2. pc' = [pc EXCEPT ![t] = "read"] /\ pc[t] = "locked"
  BY DEF ReadLatest
<1>3. PICK p \in LatestIds(Visible(t, call[t].actor)) :
        previous' = [previous EXCEPT ![t] = p]
  BY DEF ReadLatest
<1>4. call' = call /\ locks' = locks /\ writes' = writes /\ now' = now
  BY DEF ReadLatest
<1>5. LocksHeld'
  BY <1>1, <1>2, <1>4 DEF LocksHeld, InFlight, ChainKey, TypeOK
<1>6. RowOfWriter'
  <2>1. \A r \in rows : r.id[1] \in Txs
    BY DEF TypeOK, Rows, RowIds
  <2> QED
    BY <1>1, <1>2, <1>4, <2>1 DEF RowOfWriter, TypeOK
<1>7. EntityRow'
  BY <1>1, <1>4 DEF EntityRow
<1>8. PendingAfter'
  BY <1>1 DEF PendingAfter
<1>9. ChainsLinked'
  BY <1>1, SameChainsLinked
<1>10. LatestStable'
  <2> SUFFICES ASSUME NEW u \in Txs, NEW e \in Entities,
                      pc'[u] = "read", call'[u].actor = e
               PROVE  (previous[u] \in LatestIds(Chain(e)))'
    BY DEF LatestStable
  <2>1. Chain(e)' = Chain(e)
    BY <1>1, SameChains
  <2>2. CASE u = t
    <3>1. locks[e] = t
      BY <1>2, <1>4, <2>2, CallHolds DEF InFlight
    <3>2. Visible(t, call[t].actor) = Chain(e)
      BY <1>4, <2>2, <3>1, HolderSees
    <3>3. previous'[t] \in LatestIds(Chain(e))
      BY <1>3, <3>2 DEF TypeOK
    <3> QED
      BY <2>1, <2>2, <3>3 DEF LatestIds, Latest
  <2>3. CASE u # t
    <3>1. pc[u] = "read" /\ previous'[u] = previous[u]
      BY <1>2, <1>3, <2>3 DEF TypeOK
    <3>2. previous[u] \in LatestIds(Chain(e))
      BY <1>4, <3>1 DEF LatestStable
    <3> QED
      BY <2>1, <3>1, <3>2, StillLatest
  <2> QED
    BY <2>2, <2>3
<1> QED
  BY <1>5, <1>6, <1>7, <1>8, <1>9, <1>10

LEMMA InsertChain ==
  ASSUME TypeOK, Room, ChainInv, NEW t \in Txs, InsertRow(t)
  PROVE  ChainInv'
<1> USE DEF ChainInv
<1>1. PICK s \in StoredTimes(t) :
        pending' = [pending EXCEPT ![t] = @ \cup {NewRow(t, s)}]
  BY DEF InsertRow
<1> DEFINE n == NewRow(t, s)
<1>2. /\ n.id = <<t, writes[t] + 1>> /\ n.key = ChainKey(call[t])
      /\ n.actor = call[t].actor /\ n.prev = previous[t]
      /\ n.stored = s /\ n \in Rows
  BY NewRowType DEF NewRow, InsertRow
<1>3. /\ pc[t] = "read" /\ pc' = [pc EXCEPT ![t] = "open"]
      /\ call' = [call EXCEPT ![t] = NoCall]
      /\ previous' = [previous EXCEPT ![t] = None]
      /\ writes' = [writes EXCEPT ![t] = @ + 1]
      /\ rows' = rows /\ locks' = locks /\ now' = now
  BY DEF InsertRow
<1>4. /\ pending'[t] = pending[t] \cup {n}
      /\ \A u \in Txs : u # t => pending'[u] = pending[u]
  BY <1>1 DEF TypeOK
<1> HIDE DEF n
<1>5. AllRows' = AllRows \cup {n}
  BY <1>3, <1>4 DEF AllRows
<1>6. InFlight(t)
  BY <1>3 DEF InFlight
<1>7. /\ locks[n.key] = t
      /\ n.actor \in Entities => n.key = n.actor /\ locks[n.actor] = t
  BY <1>2, <1>6, CallHolds, ChainKeyType DEF TypeOK
<1>8. n.actor \in Entities => n.stored = now
  <2> SUFFICES ASSUME n.actor \in Entities PROVE s = now
    BY <1>2
  <2>1. t \notin ElixirTxs
    BY <1>2, ChainAssumption DEF EntityRow
  <2> QED
    BY <2>1 DEF StoredTimes
<1>9. LocksHeld'
  <2>1. ASSUME NEW u \in Txs, InFlight(u)'
        PROVE  (locks[ChainKey(call[u])] = u)'
    <3>1. u # t /\ InFlight(u) /\ call'[u] = call[u]
      BY <1>3, <2>1 DEF InFlight, TypeOK
    <3>2. locks[ChainKey(call[u])] = u
      BY <3>1 DEF LocksHeld
    <3> QED
      BY <1>3, <3>1, <3>2 DEF ChainKey
  <2>2. ASSUME NEW u \in Txs, NEW r \in pending'[u]
        PROVE  locks'[r.key] = u
    <3>1. CASE r \in pending[u]
      BY <1>3, <3>1 DEF LocksHeld
    <3>2. CASE r = n /\ u = t
      BY <1>3, <1>7, <3>2
    <3> QED
      BY <1>4, <3>1, <3>2
  <2> QED
    BY <2>1, <2>2 DEF LocksHeld
<1>10. \A r \in AllRows : r.id # n.id
  <2>1. ASSUME NEW r \in rows PROVE r.id # n.id
    BY <1>2, <1>3 DEF RowOfWriter
  <2>2. ASSUME NEW u \in Txs, NEW r \in pending[u] PROVE r.id # n.id
    <3>1. r.id[1] = u /\ r.id[2] <= writes[u] /\ writes[u] \in Nat
      BY DEF RowOfWriter, TypeOK
    <3>2. r.id \in RowIds
      BY DEF TypeOK, Rows
    <3>3. r.id[2] \in Nat
      BY <3>2, ChainAssumption DEF RowIds
    <3>4. SUFFICES ASSUME r.id = n.id PROVE FALSE
      OBVIOUS
    <3>5. r.id[1] = t /\ r.id[2] = writes[t] + 1
      BY <1>2, <3>4
    <3> QED
      BY <3>1, <3>3, <3>5
  <2> QED
    BY <2>1, <2>2 DEF AllRows
<1>11. RowOfWriter'
  <2>1. \A r \in rows : r.id[1] \in Txs
    BY DEF TypeOK, Rows, RowIds
  <2>2. \A r \in rows' : pc'[r.id[1]] = "done"
    BY <1>3, <2>1 DEF RowOfWriter, TypeOK
  <2>3. ASSUME NEW u \in Txs, NEW r \in pending'[u]
        PROVE  r.id[1] = u /\ r.id[2] <= writes'[u] /\ pc'[u] # "done"
    <3>1. CASE r = n /\ u = t
      <4>1. writes'[t] = writes[t] + 1 /\ writes[t] \in Nat
        BY <1>3 DEF TypeOK
      <4> QED
        BY <1>2, <1>3, <3>1, <4>1 DEF TypeOK
    <3>2. CASE r \in pending[u]
      <4>1. r.id[1] = u /\ r.id[2] <= writes[u] /\ pc[u] # "done"
        BY <3>2 DEF RowOfWriter
      <4>2. writes[u] \in Nat /\ r.id[2] \in Nat
        BY <3>2, ChainAssumption DEF TypeOK, Rows, RowIds
      <4>3. writes'[u] \in {writes[u], writes[u] + 1}
        BY <1>3 DEF TypeOK
      <4>4. pc'[u] # "done"
        BY <1>3, <4>1 DEF TypeOK
      <4> QED
        BY <4>1, <4>2, <4>3, <4>4
    <3> QED
      BY <1>4, <3>1, <3>2
  <2>4. \A q, r \in AllRows' : q.id = r.id => q = r
    BY <1>5, <1>10 DEF RowOfWriter
  <2> QED
    BY <2>2, <2>3, <2>4 DEF RowOfWriter
<1>12. EntityRow'
  <2>1. \A r \in AllRows' : r.actor \in Entities => r.key = r.actor /\ r.stored <= now
    <3>1. now \in Nat /\ now <= now
      BY ChainAssumption DEF TypeOK
    <3> QED
      BY <1>5, <1>7, <1>8, <3>1 DEF EntityRow
  <2>2. \A u \in ElixirTxs : call'[u].actor = None
    BY <1>3, NoCallType, ChainAssumption DEF EntityRow, TypeOK
  <2> QED
    BY <1>3, <2>1, <2>2 DEF EntityRow
<1>13. PendingAfter'
  <2> SUFFICES ASSUME NEW u \in Txs, NEW r \in pending'[u], NEW q \in rows,
                      r.actor \in Entities, q.actor = r.actor
               PROVE  q.stored <= r.stored
    BY <1>3 DEF PendingAfter
  <2>1. CASE r \in pending[u]
    BY <2>1 DEF PendingAfter
  <2>2. CASE r = n /\ u = t
    BY <1>8, <2>2 DEF EntityRow, AllRows
  <2> QED
    BY <1>4, <2>1, <2>2
<1>14. ChainsLinked'
  <2> SUFFICES ASSUME NEW e \in Entities
               PROVE  /\ Distinct(Committed(e)') => Linked(Committed(e)')
                      /\ Distinct(Chain(e)') => Linked(Chain(e)')
    BY DEF ChainsLinked
  <2>1. Committed(e)' = Committed(e)
    BY <1>3 DEF Committed
  <2>2. CASE n.actor # e
    <3>1. Chain(e)' = Chain(e)
      BY <1>5, <2>2 DEF Chain
    <3> QED
      BY <2>1, <3>1 DEF ChainsLinked
  <2>3. CASE n.actor = e
    <3>1. Chain(e)' = Chain(e) \cup {n}
      BY <1>5, <2>3 DEF Chain
    <3>2. Chain(e) \subseteq Rows /\ n \notin Chain(e)
      BY <1>10, RowsTyped DEF Chain
    <3>3. \A q \in Chain(e) : q.stored <= n.stored
      BY <1>8, <2>3 DEF EntityRow, Chain
    <3>4. n.prev \in LatestIds(Chain(e))
      BY <1>2, <1>3, <2>3 DEF LatestStable
    <3>5. Distinct(Chain(e)) => Linked(Chain(e))
      BY DEF ChainsLinked
    <3>6. Distinct(Chain(e) \cup {n}) => Linked(Chain(e) \cup {n})
      BY <1>2, <3>2, <3>3, <3>4, <3>5, LinkAppend
    <3> QED
      BY <2>1, <3>1, <3>6 DEF ChainsLinked
  <2> QED
    BY <2>2, <2>3
<1>15. LatestStable'
  <2> SUFFICES ASSUME NEW u \in Txs, NEW e \in Entities,
                      pc'[u] = "read", call'[u].actor = e
               PROVE  (previous[u] \in LatestIds(Chain(e)))'
    BY DEF LatestStable
  <2>1. u # t /\ pc[u] = "read" /\ call[u].actor = e /\ previous'[u] = previous[u]
    BY <1>3 DEF TypeOK
  <2>2. locks[e] = u
    BY <2>1, CallHolds DEF InFlight
  <2>3. n.actor # e
    BY <1>7, <2>1, <2>2
  <2>4. Chain(e)' = Chain(e)
    BY <1>5, <2>3 DEF Chain
  <2>5. previous[u] \in LatestIds(Chain(e))
    BY <2>1 DEF LatestStable
  <2> QED
    BY <2>1, <2>4, <2>5, StillLatest
<1> QED
  BY <1>9, <1>11, <1>12, <1>13, <1>14, <1>15

\* The end of a transaction, for what does not depend on its outcome.
LEMMA EndChain ==
  ASSUME TypeOK, ChainInv, NEW t \in Txs, EndTx(t), pc[t] # "done",
         rows' = rows \/ rows' = rows \cup pending[t]
  PROVE  LocksHeld' /\ RowOfWriter' /\ EntityRow' /\ PendingAfter'
<1> USE DEF ChainInv
<1>1. /\ pc' = [pc EXCEPT ![t] = "done"]
      /\ pending' = [pending EXCEPT ![t] = {}]
      /\ call' = [call EXCEPT ![t] = NoCall]
      /\ previous' = [previous EXCEPT ![t] = None]
      /\ writes' = writes /\ now' = now /\ locks' = ReleaseLocks(t)
  BY DEF EndTx
<1>2. /\ pending'[t] = {}
      /\ \A u \in Txs : u # t => pending'[u] = pending[u]
  BY <1>1 DEF TypeOK
<1>3. \A u \in Txs, k \in Keys : u # t /\ locks[k] = u => locks'[k] = u
  BY <1>1 DEF ReleaseLocks
<1>4. rows' \subseteq AllRows /\ AllRows' \subseteq AllRows
  BY <1>2 DEF AllRows
<1>5. LocksHeld'
  <2>1. ASSUME NEW u \in Txs, InFlight(u)'
        PROVE  (locks[ChainKey(call[u])] = u)'
    <3>1. u # t /\ InFlight(u) /\ call'[u] = call[u]
      BY <1>1, <2>1 DEF InFlight, TypeOK
    <3>2. locks[ChainKey(call[u])] = u /\ ChainKey(call[u]) \in Keys
      BY <3>1, ChainKeyType DEF LocksHeld, TypeOK
    <3> QED
      BY <1>3, <3>1, <3>2 DEF ChainKey
  <2>2. ASSUME NEW u \in Txs, NEW r \in pending'[u]
        PROVE  locks'[r.key] = u
    <3>1. u # t /\ r \in pending[u]
      BY <1>2
    <3>2. r.key \in Keys /\ locks[r.key] = u
      BY <3>1 DEF LocksHeld, TypeOK, Rows
    <3> QED
      BY <1>3, <3>1, <3>2
  <2> QED
    BY <2>1, <2>2 DEF LocksHeld
<1>6. RowOfWriter'
  <2>1. \A r \in rows : r.id[1] \in Txs
    BY DEF TypeOK, Rows, RowIds
  <2>2. \A r \in rows' : pc'[r.id[1]] = "done"
    BY <1>1, <2>1 DEF RowOfWriter, TypeOK
  <2>3. \A u \in Txs : \A r \in pending'[u] :
          r.id[1] = u /\ r.id[2] <= writes'[u] /\ pc'[u] # "done"
    BY <1>1, <1>2 DEF RowOfWriter, TypeOK
  <2>4. \A q, r \in AllRows' : q.id = r.id => q = r
    BY <1>4 DEF RowOfWriter
  <2> QED
    BY <2>2, <2>3, <2>4 DEF RowOfWriter
<1>7. EntityRow'
  <2>1. \A u \in ElixirTxs : call'[u].actor = None
    BY <1>1, NoCallType, ChainAssumption DEF EntityRow, TypeOK
  <2> QED
    BY <1>1, <1>4, <2>1 DEF EntityRow
<1>8. PendingAfter'
  <2> SUFFICES ASSUME NEW u \in Txs, NEW r \in pending'[u], NEW q \in rows',
                      r.actor \in Entities, q.actor = r.actor
               PROVE  q.stored <= r.stored
    BY DEF PendingAfter
  <2>1. u # t /\ r \in pending[u]
    BY <1>2
  <2>2. q \notin pending[t]
    BY <2>1, HolderWrites
  <2> QED
    BY <2>1, <2>2 DEF PendingAfter
<1> QED
  BY <1>5, <1>6, <1>7, <1>8

LEMMA CommitChain ==
  ASSUME TypeOK, ChainInv, NEW t \in Txs, Commit(t)
  PROVE  ChainInv'
<1> USE DEF ChainInv
<1>1. rows' = rows \cup pending[t] /\ EndTx(t) /\ pc[t] = "open"
  BY DEF Commit
<1>2. LocksHeld' /\ RowOfWriter' /\ EntityRow' /\ PendingAfter'
  BY <1>1, EndChain
<1>3. /\ pending'[t] = {}
      /\ \A u \in Txs : u # t => pending'[u] = pending[u]
  BY <1>1 DEF EndTx, TypeOK
<1>4. AllRows' = AllRows
  BY <1>1, <1>3 DEF AllRows
<1>5. ChainsLinked'
  <2> SUFFICES ASSUME NEW e \in Entities
               PROVE  /\ Distinct(Committed(e)') => Linked(Committed(e)')
                      /\ Distinct(Chain(e)') => Linked(Chain(e)')
    BY DEF ChainsLinked
  <2>1. Chain(e)' = Chain(e)
    BY <1>4 DEF Chain
  <2>2. CASE \E r \in pending[t] : r.actor = e
    <3>1. locks[e] = t
      BY <2>2, HolderWrites
    <3>2. Visible(t, e) = Chain(e)
      BY <3>1, HolderSees
    <3>3. Committed(e)' = Chain(e)
      BY <1>1, <3>2 DEF Committed, Visible
    <3> QED
      BY <2>1, <3>3 DEF ChainsLinked
  <2>3. CASE ~\E r \in pending[t] : r.actor = e
    <3>1. Committed(e)' = Committed(e)
      BY <1>1, <2>3 DEF Committed
    <3> QED
      BY <2>1, <3>1 DEF ChainsLinked
  <2> QED
    BY <2>2, <2>3
<1>6. LatestStable'
  <2> SUFFICES ASSUME NEW u \in Txs, NEW e \in Entities,
                      pc'[u] = "read", call'[u].actor = e
               PROVE  (previous[u] \in LatestIds(Chain(e)))'
    BY DEF LatestStable
  <2>1. /\ pc[u] = "read" /\ call[u].actor = e /\ previous'[u] = previous[u]
    BY <1>1 DEF EndTx, TypeOK
  <2>2. Chain(e)' = Chain(e)
    BY <1>4 DEF Chain
  <2>3. previous[u] \in LatestIds(Chain(e))
    BY <2>1 DEF LatestStable
  <2> QED
    BY <2>1, <2>2, <2>3, StillLatest
<1> QED
  BY <1>2, <1>5, <1>6

LEMMA RollbackChain ==
  ASSUME TypeOK, ChainInv, NEW t \in Txs, Rollback(t)
  PROVE  ChainInv'
<1> USE DEF ChainInv
<1>1. rows' = rows /\ EndTx(t) /\ pc[t] # "done"
  BY DEF Rollback
<1>2. LocksHeld' /\ RowOfWriter' /\ EntityRow' /\ PendingAfter'
  BY <1>1, EndChain
<1>3. /\ pending'[t] = {}
      /\ \A u \in Txs : u # t => pending'[u] = pending[u]
  BY <1>1 DEF EndTx, TypeOK
<1>4. ASSUME NEW e \in Entities
      PROVE  \/ Chain(e)' = Chain(e)
             \/ locks[e] = t /\ Chain(e)' = Committed(e)
  <2>1. CASE \E r \in pending[t] : r.actor = e
    <3>1. locks[e] = t
      BY <2>1, HolderWrites
    <3>2. \A u \in Txs : \A r \in pending'[u] : r.actor # e
      BY <1>3, <3>1, HolderWrites
    <3>3. Chain(e)' = Committed(e)
      BY <1>1, <3>2 DEF Chain, AllRows, Committed
    <3> QED
      BY <3>1, <3>3
  <2>2. CASE ~\E r \in pending[t] : r.actor = e
    <3>1. Chain(e)' = Chain(e)
      BY <1>1, <1>3, <2>2 DEF Chain, AllRows
    <3> QED
      BY <3>1
  <2> QED
    BY <2>1, <2>2
<1>5. ChainsLinked'
  <2> SUFFICES ASSUME NEW e \in Entities
               PROVE  /\ Distinct(Committed(e)') => Linked(Committed(e)')
                      /\ Distinct(Chain(e)') => Linked(Chain(e)')
    BY DEF ChainsLinked
  <2>1. Committed(e)' = Committed(e)
    BY <1>1 DEF Committed
  <2> QED
    BY <1>4, <2>1 DEF ChainsLinked
<1>6. LatestStable'
  <2> SUFFICES ASSUME NEW u \in Txs, NEW e \in Entities,
                      pc'[u] = "read", call'[u].actor = e
               PROVE  (previous[u] \in LatestIds(Chain(e)))'
    BY DEF LatestStable
  <2>1. /\ u # t /\ pc[u] = "read" /\ call[u].actor = e
        /\ previous'[u] = previous[u]
    BY <1>1 DEF EndTx, TypeOK
  <2>2. locks[e] = u
    BY <2>1, CallHolds DEF InFlight
  <2>3. Chain(e)' = Chain(e)
    BY <1>4, <2>1, <2>2
  <2>4. previous[u] \in LatestIds(Chain(e))
    BY <2>1 DEF LatestStable
  <2> QED
    BY <2>1, <2>3, <2>4, StillLatest
<1> QED
  BY <1>2, <1>5, <1>6

LEMMA StillChain ==
  ASSUME TypeOK, ChainInv, Tick \/ UNCHANGED vars
  PROVE  ChainInv'
<1> USE DEF ChainInv
<1>1. /\ rows' = rows /\ pending' = pending /\ AllRows' = AllRows
      /\ pc' = pc /\ call' = call /\ previous' = previous
      /\ writes' = writes /\ locks' = locks
  BY SameChains DEF Tick, vars
<1>2. now \in Nat /\ now' \in {now, now + 1}
  BY ChainAssumption DEF Tick, vars, TypeOK
<1>3. LocksHeld'
  BY <1>1 DEF LocksHeld, InFlight, ChainKey
<1>4. RowOfWriter'
  BY <1>1 DEF RowOfWriter
<1>5. EntityRow'
  <2>1. \A r \in AllRows : r.stored \in Nat
    BY RowsTyped DEF Rows
  <2> QED
    BY <1>1, <1>2, <2>1 DEF EntityRow
<1>6. PendingAfter'
  BY <1>1 DEF PendingAfter
<1>7. ChainsLinked'
  BY <1>1, SameChainsLinked
<1>8. LatestStable'
  <2> SUFFICES ASSUME NEW u \in Txs, NEW e \in Entities,
                      pc'[u] = "read", call'[u].actor = e
               PROVE  (previous[u] \in LatestIds(Chain(e)))'
    BY DEF LatestStable
  <2>1. Chain(e)' = Chain(e) /\ previous[u] \in LatestIds(Chain(e))
    BY <1>1, SameChains DEF LatestStable
  <2> QED
    BY <1>1, <2>1, StillLatest
<1> QED
  BY <1>3, <1>4, <1>5, <1>6, <1>7, <1>8

LEMMA NextChain ==
  ASSUME TypeOK, Room, ChainInv, [Next]_vars
  PROVE  ChainInv'
BY CallWriteChain, AcquireChain, ReadChain, InsertChain, CommitChain,
   RollbackChain, StillChain
DEF Next, DeadlockVictim

\* The invariant of the audit log holds in every behaviour.
LEMMA ChainInvariant == Spec => [](TypeOK /\ Room /\ ChainInv)
<1>1. Init => TypeOK /\ Room /\ ChainInv
  BY InitTypeOK, InitChain
<1>2. (TypeOK /\ Room /\ ChainInv) /\ [Next]_vars
        => (TypeOK /\ Room /\ ChainInv)'
  BY NextTypeOK, NextChain
<1> QED
  BY <1>1, <1>2, PTL DEF Spec

\* No two events of an entity ever link to the same previous event, whoever
\* writes them at the same time.
THEOREM OneSuccessor == Spec => []SingleSuccessor
<1>1. TypeOK /\ Room /\ ChainInv => SingleSuccessor
  <2> SUFFICES ASSUME TypeOK, ChainInv, NEW e \in Entities, Separated(e),
                      NEW q \in rows, NEW r \in rows,
                      q.actor = e, r.actor = e, q.prev = r.prev
               PROVE  q = r
    BY DEF SingleSuccessor
  <2>1. Committed(e) \subseteq Rows /\ Distinct(Committed(e))
    BY RowsTyped DEF Committed, Distinct, Separated
  <2>2. Linked(Committed(e))
    BY <2>1 DEF ChainInv, ChainsLinked
  <2>3. \A x, y \in Committed(e) : x.id = y.id => x = y
    BY DEF ChainInv, RowOfWriter, AllRows, Committed
  <2>4. q \in Committed(e) /\ r \in Committed(e)
    BY DEF Committed
  <2> QED
    BY <2>1, <2>2, <2>3, <2>4, LinkedSuccessor
<1> QED
  BY <1>1, ChainInvariant, PTL

\* What is committed of an entity's events comes after all that was.
THEOREM TailOnly == Spec => AppendsAtTail
<1>1. TypeOK /\ Room /\ ChainInv /\ [Next]_vars =>
        [\A r \in rows' \ rows, q \in rows :
           r.actor \in Entities /\ q.actor = r.actor => q.stored <= r.stored]_vars
  <2> SUFFICES ASSUME TypeOK, ChainInv, Next,
                      NEW r \in rows' \ rows, NEW q \in rows,
                      r.actor \in Entities, q.actor = r.actor
               PROVE  q.stored <= r.stored
    BY DEF vars
  <2>1. PICK t \in Txs : Commit(t)
    BY DEF Next, CallWrite, AcquireLock, ReadLatest, InsertRow, Rollback,
           DeadlockVictim, Tick
  <2>2. r \in pending[t]
    BY <2>1 DEF Commit
  <2> QED
    BY <2>2 DEF ChainInv, PendingAfter
<1> QED
  BY <1>1, ChainInvariant, PTL DEF Spec, AppendsAtTail

-----------------------------------------------------------------------------
(* Verification *)

\* Events with distinct times have distinct ranks, one for each position.
LEMMA RankShape ==
  ASSUME NEW S, S \subseteq Rows, IsFiniteSet(S), Distinct(S)
  PROVE  /\ Cardinality(S) \in Nat
         /\ \A r \in S : Rank(r, S) \in 1 .. Cardinality(S)
         /\ \A q, r \in S : q.stored < r.stored => Rank(q, S) < Rank(r, S)
         /\ \A i \in 1 .. Cardinality(S) : \E r \in S : Rank(r, S) = i
<1> DEFINE UpTo(r) == {q \in S : q.stored <= r.stored}
           n == Cardinality(S)
<1>1. n \in Nat
  BY FS_CardinalityType
<1>2. \A r \in S : r.stored \in Nat
  BY DEF Rows
<1>3. ASSUME NEW r \in S
      PROVE  /\ IsFiniteSet(UpTo(r)) /\ Cardinality(UpTo(r)) \in Nat
             /\ Rank(r, S) = Cardinality(UpTo(r))
             /\ Rank(r, S) \in 1 .. n
  <2>1. UpTo(r) \in SUBSET S /\ r \in UpTo(r)
    BY <1>2
  <2>2. IsFiniteSet(UpTo(r)) /\ Cardinality(UpTo(r)) <= n
    BY <2>1, FS_Subset
  <2>3. Cardinality(UpTo(r)) \in Nat /\ Cardinality(UpTo(r)) # 0
    BY <2>1, <2>2, FS_CardinalityType, FS_EmptySet
  <2>4. Rank(r, S) = Cardinality(UpTo(r))
    BY DEF Rank
  <2> HIDE DEF UpTo, n
  <2> QED
    BY <1>1, <2>2, <2>3, <2>4
<1>4. ASSUME NEW q \in S, NEW r \in S, q.stored < r.stored
      PROVE  Rank(q, S) < Rank(r, S)
  <2>1. UpTo(q) \in SUBSET UpTo(r) /\ r \in UpTo(r) /\ r \notin UpTo(q)
    BY <1>2, <1>4
  <2>2. /\ Cardinality(UpTo(q)) <= Cardinality(UpTo(r))
        /\ Cardinality(UpTo(r)) = Cardinality(UpTo(q)) => UpTo(r) = UpTo(q)
    BY <1>3, <2>1, FS_Subset
  <2>3. /\ Rank(q, S) = Cardinality(UpTo(q)) /\ Rank(r, S) = Cardinality(UpTo(r))
        /\ Cardinality(UpTo(q)) \in Nat /\ Cardinality(UpTo(r)) \in Nat
    BY <1>3
  <2> HIDE DEF UpTo
  <2> QED
    BY <2>1, <2>2, <2>3
<1>5. ASSUME NEW i \in 1 .. n
      PROVE  \E r \in S : Rank(r, S) = i
  <2> DEFINE f == [r \in S |-> Rank(r, S)]
  <2>1. f \in [S -> 1 .. n]
    BY <1>3
  <2>2. \A q, r \in S : f[q] = f[r] => q = r
    <3> SUFFICES ASSUME NEW q \in S, NEW r \in S, Rank(q, S) = Rank(r, S)
                 PROVE  q = r
      OBVIOUS
    <3>1. Rank(q, S) \in 1 .. n /\ Rank(r, S) \in 1 .. n
      BY <1>3
    <3>2. ~ (Rank(q, S) < Rank(r, S)) /\ ~ (Rank(r, S) < Rank(q, S))
      <4> HIDE DEF n, f, UpTo
      <4> QED
        BY <1>1, <3>1
    <3>3. q.stored = r.stored
      BY <1>2, <1>4, <3>2
    <3> QED
      BY <3>3 DEF Distinct
  <2>3. f \in Injection(S, 1 .. n)
    BY <2>1, <2>2 DEF Injection, IsInjective
  <2>4. IsFiniteSet(1 .. n) /\ Cardinality(1 .. n) = n
    BY <1>1, FS_Interval
  <2>5. f \in Surjection(S, 1 .. n)
    BY <2>3, <2>4, FS_Injection
  <2> QED
    BY <2>5 DEF Surjection
<1> QED
  BY <1>1, <1>3, <1>4, <1>5

\* InOrder lists each event once, in order of time.
LEMMA InOrderShape ==
  ASSUME NEW S, S \subseteq Rows, IsFiniteSet(S), Distinct(S)
  PROVE  /\ InOrder(S) \in Seq(S)
         /\ Len(InOrder(S)) \in Nat
         /\ \A r \in S : \E i \in 1 .. Len(InOrder(S)) : InOrder(S)[i] = r
         /\ \A i, j \in 1 .. Len(InOrder(S)) :
              i < j <=> InOrder(S)[i].stored < InOrder(S)[j].stored
<1> DEFINE n == Cardinality(S)
           s == InOrder(S)
<1>1. n \in Nat
  BY RankShape
<1>2. \A i \in 1 .. n : s[i] \in S /\ Rank(s[i], S) = i
  BY RankShape DEF InOrder
<1>3. s \in [1 .. n -> S]
  BY <1>2 DEF InOrder
<1>4. s \in Seq(S) /\ Len(s) = n
  BY <1>1, <1>3
<1>5. \A q, r \in S : Rank(q, S) = Rank(r, S) => q.stored = r.stored
  <2> SUFFICES ASSUME NEW q \in S, NEW r \in S, Rank(q, S) = Rank(r, S)
               PROVE  q.stored = r.stored
    OBVIOUS
  <2>1. Rank(q, S) \in Nat /\ q.stored \in Nat /\ r.stored \in Nat
    BY RankShape, <1>1 DEF Rows
  <2> QED
    BY <2>1, RankShape
<1>6. ASSUME NEW r \in S
      PROVE  \E i \in 1 .. n : s[i] = r
  <2>1. Rank(r, S) \in 1 .. n
    BY RankShape
  <2>2. s[Rank(r, S)].stored = r.stored /\ s[Rank(r, S)] \in S
    BY <1>2, <1>5, <2>1
  <2> QED
    BY <2>1, <2>2 DEF Distinct
<1>7. ASSUME NEW i \in 1 .. n, NEW j \in 1 .. n
      PROVE  i < j <=> s[i].stored < s[j].stored
  <2>1. s[i] \in S /\ s[j] \in S /\ s[i].stored \in Nat /\ s[j].stored \in Nat
    BY <1>2 DEF Rows
  <2>2. s[i].stored < s[j].stored => i < j
    BY <1>2, <2>1, RankShape
  <2>3. s[j].stored < s[i].stored => j < i
    BY <1>2, <2>1, RankShape
  <2>4. s[i].stored = s[j].stored => i = j
    <3> HAVE s[i].stored = s[j].stored
    <3>1. s[i] = s[j]
      BY <2>1 DEF Distinct
    <3> QED
      BY <1>2, <3>1
  <2> HIDE DEF s
  <2> QED
    BY <1>1, <2>1, <2>2, <2>3, <2>4
<1> HIDE DEF s, n
<1>8. QED
  BY <1>1, <1>4, <1>6, <1>7 DEF s

\* In a linked chain, the events of any stretch of time link one to the next.
LEMMA StretchLinked ==
  ASSUME NEW C, C \subseteq Rows, IsFiniteSet(C), Distinct(C), Linked(C),
         NEW W \in SUBSET C,
         \A a, b \in W, q \in C :
           a.stored <= q.stored /\ q.stored <= b.stored => q \in W
  PROVE  \A i \in 2 .. Len(InOrder(W)) : InOrder(W)[i].prev = InOrder(W)[i - 1].id
<1> DEFINE s == InOrder(W)
<1>1. W \subseteq Rows /\ IsFiniteSet(W) /\ Distinct(W)
  BY FS_Subset DEF Distinct
<1>2. /\ s \in Seq(W) /\ Len(s) \in Nat
      /\ \A r \in W : \E i \in 1 .. Len(s) : s[i] = r
      /\ \A i, j \in 1 .. Len(s) : i < j <=> s[i].stored < s[j].stored
  BY <1>1, InOrderShape
<1> HIDE DEF s
<1>3. ASSUME NEW i \in 2 .. Len(s)
      PROVE  s[i].prev = s[i - 1].id
  <2>1. /\ i \in 1 .. Len(s) /\ i - 1 \in 1 .. Len(s)
        /\ s[i] \in W /\ s[i - 1] \in W /\ s[i - 1].stored < s[i].stored
    <3>1. i \in 1 .. Len(s) /\ i - 1 \in 1 .. Len(s) /\ i - 1 < i
      BY <1>2
    <3> QED
      BY <1>2, <3>1, ElementOfSeq
  <2>2. s[i - 1] \in Before(C, s[i])
    BY <2>1 DEF Before
  <2>3. PICK r \in Latest(Before(C, s[i])) : s[i].prev = r.id
    <3>1. s[i].prev \in LatestIds(Before(C, s[i]))
      BY <2>1 DEF Linked
    <3> QED
      BY <2>2, <3>1 DEF LatestIds
  <2>4. r \in C /\ r.stored < s[i].stored /\ s[i - 1].stored <= r.stored
    BY <2>2, <2>3 DEF Latest, Before
  <2>5. \A q \in C : q.stored \in Nat
    BY DEF Rows
  <2>6. r \in W
    BY <2>1, <2>4, <2>5
  <2>7. PICK j \in 1 .. Len(s) : s[j] = r
    BY <1>2, <2>6
  <2>8. j < i /\ ~ (j < i - 1)
    <3>1. s[j].stored \in Nat /\ s[i - 1].stored \in Nat
      BY <2>1, <2>4, <2>5, <2>7
    <3>2. s[j].stored < s[i].stored /\ ~ (s[j].stored < s[i - 1].stored)
      BY <2>4, <2>7, <3>1
    <3> QED
      BY <1>2, <2>1, <3>2
  <2>9. j = i - 1
    BY <1>2, <2>1, <2>8
  <2> QED
    BY <2>3, <2>7, <2>9
<1> QED
  BY <1>3 DEF s

\* The first event of a linked chain links to none.
LEMMA FirstLinked ==
  ASSUME NEW C, C \subseteq Rows, IsFiniteSet(C), Distinct(C), Linked(C),
         1 <= Len(InOrder(C))
  PROVE  InOrder(C)[1].prev = None
<1> DEFINE s == InOrder(C)
<1>1. /\ s \in Seq(C) /\ Len(s) \in Nat
      /\ \A r \in C : \E i \in 1 .. Len(s) : s[i] = r
      /\ \A i, j \in 1 .. Len(s) : i < j <=> s[i].stored < s[j].stored
  BY InOrderShape
<1> HIDE DEF s
<1>2. 1 \in 1 .. Len(s) /\ s[1] \in C
  BY <1>1 DEF s
<1>3. Before(C, s[1]) = {}
  <2> SUFFICES ASSUME NEW r \in C, r.stored < s[1].stored PROVE FALSE
    BY DEF Before
  <2>1. PICK i \in 1 .. Len(s) : s[i] = r
    BY <1>1
  <2> QED
    BY <1>1, <1>2, <2>1
<1>4. s[1].prev \in LatestIds(Before(C, s[1]))
  BY <1>2 DEF Linked
<1> QED
  BY <1>3, <1>4 DEF LatestIds, s

LEMMA InitWalkable == Init => Walkable
BY FS_EmptySet DEF Init, Walkable, AllRows

\* A row comes from an insert of the API's for an entity, and ends with its
\* transaction in the table or nowhere.
LEMMA NextWalkable ==
  ASSUME TypeOK, ChainInv, Walkable, [Next]_vars
  PROVE  Walkable'
<1> USE DEF Walkable
<1>1. ASSUME NEW t \in Txs, InsertRow(t)
      PROVE  Walkable'
  <2>1. PICK s \in StoredTimes(t) :
          pending' = [pending EXCEPT ![t] = @ \cup {NewRow(t, s)}]
    BY <1>1 DEF InsertRow
  <2> DEFINE new == NewRow(t, s)
  <2>2. /\ rows' = rows
        /\ \A u \in Txs : pending'[u] = IF u = t THEN pending[t] \cup {new} ELSE pending[u]
    BY <1>1, <2>1 DEF InsertRow, TypeOK
  <2>3. new.actor \in Entities => new.hashed = new.stored
    <3>1. new.actor = call[t].actor /\ new.hashed = now /\ new.stored = s
      BY DEF NewRow
    <3>2. call[t].actor \in Entities => t \notin ElixirTxs
      BY ChainAssumption DEF ChainInv, EntityRow
    <3> QED
      BY <3>1, <3>2 DEF StoredTimes
  <2> HIDE DEF new
  <2>4. \A u \in Txs : IsFiniteSet(pending'[u])
    BY <2>2, FS_AddElement
  <2>5. \A r \in AllRows' : r \in AllRows \/ r = new
    BY <2>2 DEF AllRows
  <2> QED
    BY <2>2, <2>3, <2>4, <2>5
<1>2. ASSUME NEW t \in Txs, EndTx(t), rows' \in {rows, rows \cup pending[t]}
      PROVE  Walkable'
  <2>1. /\ IsFiniteSet(rows')
        /\ \A u \in Txs : pending'[u] = IF u = t THEN {} ELSE pending[u]
    <3>1. IsFiniteSet(rows) /\ IsFiniteSet(pending[t])
      OBVIOUS
    <3>2. IsFiniteSet(rows \cup pending[t])
      BY <3>1, FS_Union
    <3>3. \A u \in Txs : pending'[u] = IF u = t THEN {} ELSE pending[u]
      BY <1>2 DEF EndTx, TypeOK
    <3> QED
      BY <1>2, <3>1, <3>2, <3>3
  <2>2. AllRows' \subseteq AllRows
    BY <1>2, <2>1 DEF AllRows
  <2> QED
    BY <2>1, <2>2, FS_EmptySet
<1>3. ASSUME UNCHANGED <<rows, pending>>
      PROVE  Walkable'
  BY <1>3 DEF AllRows
<1>4. ASSUME NEW t \in Txs, NEW c \in Calls, CallWrite(t, c) \/ AcquireLock(t) \/ ReadLatest(t)
      PROVE  UNCHANGED <<rows, pending>>
  BY <1>4 DEF CallWrite, AcquireLock, ReadLatest
<1>5. ASSUME NEW t \in Txs, Commit(t) \/ Rollback(t) \/ DeadlockVictim(t)
      PROVE  EndTx(t) /\ rows' \in {rows, rows \cup pending[t]}
  BY <1>5 DEF Commit, Rollback, DeadlockVictim
<1>6. ASSUME Tick \/ UNCHANGED vars
      PROVE  UNCHANGED <<rows, pending>>
  BY <1>6 DEF Tick, vars
<1> HIDE DEF Walkable
<1> QED
  BY <1>1, <1>2, <1>3, <1>4, <1>5, <1>6, NoCallType DEF Next

\* An entity's committed events verify, in whole and through every window.
LEMMA ChainVerifies ==
  ASSUME TypeOK, ChainInv, Walkable, NEW e \in Entities, Separated(e)
  PROVE  VerifyAll(e) /\ \A w \in Windows : VerifyWindow(e, w)
<1> DEFINE C == Committed(e)
<1>1. C \subseteq Rows /\ IsFiniteSet(C) /\ Distinct(C)
  <2>1. C \in SUBSET rows
    BY DEF Committed
  <2> QED
    BY <2>1, FS_Subset DEF Walkable, TypeOK, Separated, Distinct, Committed
<1>2. Linked(C)
  BY <1>1 DEF ChainInv, ChainsLinked
<1>3. \A r \in C : r.hashed = r.stored
  BY DEF Committed, AllRows, Walkable
<1>4. \A r \in C : r.stored \in Nat
  BY <1>1 DEF Rows
<1> HIDE DEF C
<1>5. VerifyAll(e)
  <2>1. VerifyAll(e) <=> ChainHolds(InOrder(C), None)
    BY DEF VerifyAll, C, Committed
  <2>2. InOrder(C) \in Seq(C) /\ Len(InOrder(C)) \in Nat
    BY <1>1, InOrderShape
  <2>3. \A i \in 2 .. Len(InOrder(C)) : InOrder(C)[i].prev = InOrder(C)[i - 1].id
    BY <1>1, <1>2, StretchLinked
  <2>4. 1 <= Len(InOrder(C)) => InOrder(C)[1].prev = None
    BY <1>1, <1>2, FirstLinked
  <2>5. \A i \in 1 .. Len(InOrder(C)) : InOrder(C)[i].hashed = InOrder(C)[i].stored
    BY <1>3, <2>2, ElementOfSeq
  <2> QED
    BY <2>1, <2>2, <2>3, <2>4, <2>5 DEF ChainHolds
<1>6. ASSUME NEW w \in Windows
      PROVE  VerifyWindow(e, w)
  <2> DEFINE W == {r \in C : r.stored \in w.from .. w.to}
             found == InOrder(W)
             m == IF w.maxEvents < Len(found) THEN w.maxEvents ELSE Len(found)
             taken == FirstOf(found, w.maxEvents)
  <2>1. w.from \in Nat /\ w.to \in Nat /\ w.maxEvents \in Nat
    BY ChainAssumption DEF Windows
  <2>2. W \in SUBSET C
    OBVIOUS
  <2>3. W \subseteq Rows /\ IsFiniteSet(W) /\ Distinct(W)
    BY <1>1, <2>2, FS_Subset DEF Distinct
  <2>4. \A a, b \in W, q \in C :
          a.stored <= q.stored /\ q.stored <= b.stored => q \in W
    BY <1>4, <2>1
  <2>5. W = {r \in rows : /\ r.actor = e /\ r.stored \in w.from .. w.to}
    BY DEF C, Committed
  <2>6. VerifyWindow(e, w) <=> ChainHolds(taken, Anchor(taken))
    BY <2>5 DEF VerifyWindow
  <2> HIDE DEF W
  <2>7. found \in Seq(W) /\ Len(found) \in Nat
    BY <2>3, InOrderShape
  <2>8. \A i \in 2 .. Len(found) : found[i].prev = found[i - 1].id
    BY <1>1, <1>2, <2>2, <2>4, StretchLinked
  <2> HIDE DEF found
  <2>9. taken = SubSeq(found, 1, m) /\ m \in Nat /\ m <= Len(found)
    BY <2>1, <2>7 DEF FirstOf
  <2>10. taken \in Seq(W) /\ Len(taken) = m /\ \A i \in 1 .. m : taken[i] = found[i]
    BY <2>7, <2>9, SubSeqProperties
  <2> HIDE DEF taken, m
  <2>11. \A i \in 1 .. Len(taken) : taken[i].hashed = taken[i].stored
    BY <1>3, <2>2, <2>10, ElementOfSeq
  <2>12. \A i \in 1 .. Len(taken) :
           taken[i].prev = IF i = 1 THEN Anchor(taken) ELSE taken[i - 1].id
    <3> SUFFICES ASSUME NEW i \in 1 .. m
                 PROVE  taken[i].prev = IF i = 1 THEN Anchor(taken) ELSE taken[i - 1].id
      BY <2>10
    <3>1. CASE i = 1
      <4>1. taken # <<>>
        BY <2>9, <2>10, <3>1, EmptySeq
      <4> QED
        BY <3>1, <4>1 DEF Anchor
    <3>2. CASE i # 1
      <4>1. i \in 2 .. Len(found) /\ i - 1 \in 1 .. m
        BY <2>7, <2>9, <3>2
      <4> QED
        BY <2>8, <2>10, <3>2, <4>1
    <3> QED
      BY <3>1, <3>2
  <2> QED
    BY <2>6, <2>11, <2>12 DEF ChainHolds
<1> QED
  BY <1>5, <1>6

\* The chain nobody tampered with verifies, as a whole and through every
\* window, whoever writes while it is read.
THEOREM UntouchedVerifies == Spec => []IntactVerifies
<1>1. Init => TypeOK /\ Room /\ ChainInv /\ Walkable
  BY InitTypeOK, InitChain, InitWalkable
<1>2. TypeOK /\ Room /\ ChainInv /\ Walkable /\ [Next]_vars
        => (TypeOK /\ Room /\ ChainInv /\ Walkable)'
  BY NextTypeOK, NextChain, NextWalkable
<1>3. TypeOK /\ Room /\ ChainInv /\ Walkable => IntactVerifies
  BY ChainVerifies DEF IntactVerifies
<1> QED
  BY <1>1, <1>2, <1>3, PTL DEF Spec
=============================================================================
