---------------------------- MODULE CapsuleRouter ----------------------------
(***************************************************************************)
(* Reading, writing, sharing and revoking capsules in the Elixir COSMP     *)
(* router (apps/cosmp_router, operations.ex).  The operations run in the   *)
(* router's GenServer and in one worker process per hot entity, each of    *)
(* which serves one request at a time; a capsule may be served by several. *)
(* They share the memory_capsules table, a hot copy of it in memory (ETS)  *)
(* and the idempotency keys.                                               *)
(*                                                                         *)
(* A capsule is what its columns hold and whom it is granted to.  Packing  *)
(* a capsule for the table takes the columns from its metadata and has no  *)
(* column for the grants; unpacking a row puts some of the columns under   *)
(* payload, where packing does not look for them.  A copy therefore has    *)
(* the content it shows and the content it packs to.                       *)
(***************************************************************************)
EXTENDS Naturals, FiniteSets

CONSTANTS
  Capsules, Grantees,
  Contents,       \* what the columns of a capsule may hold
  Blank,          \* what they hold by default
  Absent,         \* no row, no hot copy
  Procs,          \* the router and the workers
  MaxFailures     \* bound: how often a process or the hot copy is lost

ASSUME RouterAssumption ==
  /\ Blank \notin Contents
  /\ Absent \notin Contents \cup {Blank}
  /\ Absent \notin [shows : Contents \cup {Blank}, packs : Contents \cup {Blank},
                    grants : SUBSET Grantees]
  /\ IsFiniteSet(Procs)
  /\ MaxFailures \in Nat

VARIABLES
  stored,      \* memory_capsules
  hot,         \* CosmpRouter.Storage.ETS
  keys,        \* idempotency_keys
  pc, request, copy, seen,  \* a process: the request it serves, the capsule it
               \* has in hand, the row it found when it began to write
  committed,   \* history: the copies a transaction has committed
  effects,     \* history: transactions committed under a key
  failures

vars == <<stored, hot, keys, pc, request, copy, seen, committed, effects,
          failures>>
dbVars == <<stored, keys, committed, effects>>
procVars == <<pc, request, copy, seen>>

Columns == Contents \cup {Blank}
Copies == [shows : Columns, packs : Columns, grants : SUBSET Grantees]

\* write:<capsule>:v<version>, share:<capsule>:<grantee>, revoke: likewise.
\* A request's metadata are strings, so the version is always 1.
WriteKey(c) == <<"WRITE", c>>
Keys == {WriteKey(c) : c \in Capsules}
          \cup {"SHARE", "REVOKE"} \X Capsules \X Grantees

Requests ==
  [op : {"READ"}, capsule : Capsules]
    \cup [op : {"WRITE"}, capsule : Capsules, content : Contents,
          grants : SUBSET Grantees]
    \cup [op : {"SHARE", "REVOKE"}, capsule : Capsules, grantee : Grantees]
NoRequest == [op |-> "NONE"]

KeyOf(r) ==
  IF r.op = "WRITE" THEN WriteKey(r.capsule) ELSE <<r.op, r.capsule, r.grantee>>

\* Translator.to_capsule; Capsule.Translator.unpack
Fresh(x, G) == [shows |-> x, packs |-> x, grants |-> G]
Unpack(x) == [shows |-> x, packs |-> Blank, grants |-> {}]

Init ==
  /\ stored \in [Capsules -> Contents \cup {Absent}]   \* the API writes rows too
  /\ hot = [c \in Capsules |-> Absent]
  /\ keys = [k \in Keys |-> "none"]
  /\ pc = [p \in Procs |-> "idle"]
  /\ request = [p \in Procs |-> NoRequest]
  /\ copy = [p \in Procs |-> Absent]
  /\ seen = [p \in Procs |-> Absent]
  /\ committed = [c \in Capsules |-> IF stored[c] = Absent THEN {}
                                     ELSE {Unpack(stored[c])}]
  /\ effects = [k \in Keys |-> 0]
  /\ failures = 0

Receive(p, r) ==
  /\ pc[p] = "idle"
  /\ request' = [request EXCEPT ![p] = r]
  /\ IF r.op = "WRITE"
       THEN /\ copy' = [copy EXCEPT ![p] = Fresh(r.content, r.grants)]
            /\ pc' = [pc EXCEPT ![p] = "check"]
       ELSE /\ pc' = [pc EXCEPT ![p] = "get"]
            /\ UNCHANGED copy
  /\ UNCHANGED <<dbVars, hot, seen, failures>>

\* The request is answered, or its process is gone.
Rest(p) ==
  /\ pc' = [pc EXCEPT ![p] = "idle"]
  /\ request' = [request EXCEPT ![p] = NoRequest]
  /\ copy' = [copy EXCEPT ![p] = Absent]
  /\ seen' = [seen EXCEPT ![p] = Absent]

-----------------------------------------------------------------------------
(* Storage.get: the hot copy, or the row and then a new hot copy.          *)

\* grant_permission, revoke_permission
Changed(r, k) ==
  CASE r.op = "SHARE"  -> [k EXCEPT !.grants = @ \cup {r.grantee}]
    [] r.op = "REVOKE" -> [k EXCEPT !.grants = @ \ {r.grantee}]
    [] OTHER -> k

\* A read is answered; a share and a revoke go on with the changed capsule.
Got(p, k) ==
  IF request[p].op = "READ" THEN Rest(p)
  ELSE /\ copy' = [copy EXCEPT ![p] = Changed(request[p], k)]
       /\ pc' = [pc EXCEPT ![p] = "check"]
       /\ UNCHANGED <<request, seen>>

GetHot(p) ==
  LET k == hot[request[p].capsule] IN
  /\ pc[p] = "get"
  /\ IF k = Absent THEN /\ pc' = [pc EXCEPT ![p] = "cold"]
                        /\ UNCHANGED <<request, copy, seen>>
     ELSE Got(p, k)
  /\ UNCHANGED <<dbVars, hot, failures>>

MissingIgnored(c) == FALSE
Missing(c) == stored[c] = Absent

GetRow(p) ==
  LET c == request[p].capsule IN
  /\ pc[p] = "cold"
  /\ IF Missing(c) THEN Rest(p)
     ELSE /\ copy' = [copy EXCEPT ![p] = Unpack(stored[c])]
          /\ pc' = [pc EXCEPT ![p] = "warm"]
          /\ UNCHANGED <<request, seen>>
  /\ UNCHANGED <<dbVars, hot, failures>>

WarmedChanged(p) == Changed(request[p], copy[p])
Warmed(p) == copy[p]

WarmUp(p) ==
  /\ pc[p] = "warm"
  /\ hot' = [hot EXCEPT ![request[p].capsule] = Warmed(p)]
  /\ Got(p, copy[p])
  /\ UNCHANGED <<dbVars, failures>>

-----------------------------------------------------------------------------
(* write_or_replay: one transaction for the row and its audit event, then  *)
(* the key, then the hot copy.                                             *)

\* A live key answers for the operation.
CheckKey(p) ==
  /\ pc[p] = "check"
  /\ IF keys[KeyOf(request[p])] = "live" THEN Rest(p)
     ELSE /\ pc' = [pc EXCEPT ![p] = "begin"]
          /\ UNCHANGED <<request, copy, seen>>
  /\ UNCHANGED <<dbVars, hot, failures>>

BeginPut(p) ==
  /\ pc[p] = "begin"
  /\ seen' = [seen EXCEPT ![p] = stored[request[p].capsule]]
  /\ pc' = [pc EXCEPT ![p] = "commit"]
  /\ UNCHANGED <<dbVars, hot, request, copy, failures>>

\* A new row is inserted, once; of an existing row the changeset updates what
\* differs from the row as it was read.
CommitPut(p) ==
  LET c == request[p].capsule
      k == KeyOf(request[p])
      row == IF copy[p].packs = seen[p] THEN stored[c] ELSE copy[p].packs
  IN
  /\ pc[p] = "commit"
  /\ seen[p] = Absent => stored[c] = Absent
  /\ stored' = [stored EXCEPT ![c] = row]
  /\ committed' = [committed EXCEPT ![c] = @ \cup {copy[p], Unpack(row)}]
  /\ effects' = IF keys[k] = "expired" THEN effects
                ELSE [effects EXCEPT ![k] = @ + 1]
  /\ pc' = [pc EXCEPT ![p] = "record"]
  /\ seen' = [seen EXCEPT ![p] = Absent]
  /\ UNCHANGED <<keys, hot, request, copy, failures>>

FailedStillRecorded(p) ==
  /\ pc' = [pc EXCEPT ![p] = "record"]
  /\ UNCHANGED <<request, copy, seen>>
Failed(p) == Rest(p)

\* The transaction fails: the caller is told, or the process raises.
RollBack(p) ==
  /\ pc[p] = "commit"
  /\ Failed(p)
  /\ UNCHANGED <<dbVars, hot, failures>>

NotRecorded(k) == keys[k]
\* The key is the primary key: while an expired one is there, none is recorded.
Recorded(k) == IF keys[k] = "none" THEN "live" ELSE keys[k]

RecordKey(p) ==
  LET k == KeyOf(request[p]) IN
  /\ pc[p] = "record"
  /\ keys' = [keys EXCEPT ![k] = Recorded(k)]
  /\ pc' = [pc EXCEPT ![p] = "put"]
  /\ UNCHANGED <<stored, committed, effects, hot, request, copy, seen, failures>>

PutHot(p) ==
  /\ pc[p] = "put"
  /\ hot' = [hot EXCEPT ![request[p].capsule] = copy[p]]
  /\ Rest(p)
  /\ UNCHANGED <<dbVars, failures>>

-----------------------------------------------------------------------------
\* The process crashes or is stopped; its supervisor starts it again.
Dies(p) ==
  /\ pc[p] # "idle"
  /\ failures < MaxFailures
  /\ failures' = failures + 1
  /\ Rest(p)
  /\ UNCHANGED <<dbVars, hot>>

\* The owner of the table is restarted.
LoseHot ==
  /\ failures < MaxFailures
  /\ failures' = failures + 1
  /\ hot' = [c \in Capsules |-> Absent]
  /\ UNCHANGED <<dbVars, procVars>>

\* 24 hours have passed.  Nothing calls cleanup/0, so the row stays.
Expire(k) ==
  /\ keys[k] = "live"
  /\ keys' = [keys EXCEPT ![k] = "expired"]
  /\ UNCHANGED <<stored, committed, effects, hot, procVars, failures>>

ProcStep(p) ==
  \/ GetHot(p) \/ GetRow(p) \/ WarmUp(p) \/ CheckKey(p) \/ BeginPut(p)
  \/ CommitPut(p) \/ RollBack(p) \/ RecordKey(p) \/ PutHot(p)

Next ==
  \/ \E p \in Procs :
       \/ \E r \in Requests : Receive(p, r)
       \/ ProcStep(p)
       \/ Dies(p)
  \/ LoseHot
  \/ \E k \in Keys : Expire(k)

Spec == Init /\ [][Next]_vars

-----------------------------------------------------------------------------
(* Properties *)

\* Every variable keeps its type.
TypeOK ==
  /\ stored \in [Capsules -> Columns \cup {Absent}]
  /\ hot \in [Capsules -> Copies \cup {Absent}]
  /\ keys \in [Keys -> {"none", "live", "expired"}]
  /\ pc \in [Procs -> {"idle", "get", "cold", "warm", "check", "begin",
                       "commit", "record", "put"}]
  /\ request \in [Procs -> Requests \cup {NoRequest}]
  /\ copy \in [Procs -> Copies \cup {Absent}]
  /\ seen \in [Procs -> Columns \cup {Absent}]
  /\ committed \in [Capsules -> SUBSET Copies]
  /\ effects \in [Keys -> Nat]
  /\ failures \in 0 .. MaxFailures

\* What the hot copy shows, its grants included, has been committed with an
\* audit event or been read from the table: never a change whose transaction
\* failed (storage.ex, "ETS write happens AFTER Postgres commit").
HotCommitted == \A c \in Capsules : hot[c] # Absent => hot[c] \in committed[c]

\* An answer from a key stands for a transaction that was committed under it.
ReplayOfDone == \A k \in Keys : keys[k] # "none" => effects[k] > 0

\* Until its key expires, an operation that is retried any number of times
\* takes effect once, and once more at most for every other process that had
\* checked the key before and for every crash between commit and key
\* (idempotency.ex, "safe under at-least-once delivery").
EffectsBounded ==
  \A k \in Keys : keys[k] # "expired" =>
    effects[k] <= Cardinality(Procs) + failures
=============================================================================
