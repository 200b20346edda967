------------------------- MODULE CapsuleRouterProofs -------------------------
(***************************************************************************)
(* The properties of CapsuleRouter for any number of processes, capsules   *)
(* and grantees, and any number of crashes.                                *)
(***************************************************************************)
EXTENDS CapsuleRouterInv, FiniteSetTheorems, TLAPS

(***************************************************************************)
(* Requests and capsules                                                   *)
(***************************************************************************)

LEMMA KeyType ==
  ASSUME NEW r \in Requests, r.op # "READ"
  PROVE  KeyOf(r) \in Keys
<1>1. CASE r \in [op : {"WRITE"}, capsule : Capsules, content : Contents,
                  grants : SUBSET Grantees]
  BY <1>1 DEF KeyOf, Keys, WriteKey
<1>2. CASE r \in [op : {"SHARE", "REVOKE"}, capsule : Capsules,
                  grantee : Grantees]
  BY <1>2 DEF KeyOf, Keys
<1>3. QED
  BY <1>1, <1>2 DEF Requests

LEMMA RequestCapsule ==
  ASSUME NEW r \in Requests
  PROVE  r.capsule \in Capsules
BY DEF Requests

LEMMA UnpackType ==
  ASSUME NEW x \in Columns
  PROVE  Unpack(x) \in Copies
BY DEF Unpack, Copies, Columns

LEMMA ChangedType ==
  ASSUME NEW r \in Requests, NEW k \in Copies
  PROVE  Changed(r, k) \in Copies
<1>1. CASE r.op = "SHARE"
  <2>1. r.grantee \in Grantees
    BY <1>1 DEF Requests
  <2>2. Changed(r, k) = [k EXCEPT !.grants = @ \cup {r.grantee}]
    BY <1>1 DEF Changed
  <2>3. QED
    BY <2>1, <2>2 DEF Copies
<1>2. CASE r.op = "REVOKE"
  <2>1. Changed(r, k) = [k EXCEPT !.grants = @ \ {r.grantee}]
    BY <1>2 DEF Changed
  <2>2. QED
    BY <2>1 DEF Copies
<1>3. CASE r.op \notin {"SHARE", "REVOKE"}
  BY <1>3 DEF Changed
<1>4. QED
  BY <1>1, <1>2, <1>3

LEMMA RouterConstants ==
  /\ Absent \notin Columns
  /\ Absent \notin Copies
BY RouterAssumption DEF Columns, Copies

(***************************************************************************)
(* Types, and that a busy process serves a request                         *)
(***************************************************************************)

TypeInv == TypeOK /\ Serves

LEMMA InitType == Init => TypeInv
<1> SUFFICES ASSUME Init PROVE TypeInv
  OBVIOUS
<1> USE RouterAssumption DEF Init
<1>1. committed \in [Capsules -> SUBSET Copies]
  BY UnpackType DEF Columns
<1>2. TypeOK
  BY <1>1 DEF TypeOK, Columns
<1>3. QED
  BY <1>2 DEF TypeInv, Serves, Writing

LEMMA RestType ==
  ASSUME TypeInv, NEW p \in Procs, Rest(p), stored' = stored
  PROVE  /\ Serves'
         /\ pc' \in [Procs -> {"idle", "get", "cold", "warm", "check", "begin",
                               "commit", "record", "put"}]
         /\ request' \in [Procs -> Requests \cup {NoRequest}]
         /\ copy' \in [Procs -> Copies \cup {Absent}]
         /\ seen' \in [Procs -> Columns \cup {Absent}]
BY DEF TypeInv, TypeOK, Rest, Serves, Writing

LEMMA ReceiveType ==
  ASSUME TypeInv, NEW p \in Procs, NEW r \in Requests, Receive(p, r)
  PROVE  TypeInv'
<1> USE DEF TypeInv, TypeOK, dbVars
<1>1. CASE r.op = "WRITE"
  <2>1. Fresh(r.content, r.grants) \in Copies
    BY <1>1 DEF Requests, Fresh, Copies, Columns
  <2>2. QED
    BY <1>1, <2>1 DEF Receive, Serves, Writing
<1>2. CASE r.op # "WRITE"
  BY <1>2 DEF Receive, Serves, Writing
<1>3. QED
  BY <1>1, <1>2

LEMMA GotType ==
  ASSUME TypeInv, NEW p \in Procs, pc[p] # "idle", NEW k \in Copies, Got(p, k),
         stored' = stored
  PROVE  /\ Serves'
         /\ pc' \in [Procs -> {"idle", "get", "cold", "warm", "check", "begin",
                               "commit", "record", "put"}]
         /\ request' \in [Procs -> Requests \cup {NoRequest}]
         /\ copy' \in [Procs -> Copies \cup {Absent}]
         /\ seen' \in [Procs -> Columns \cup {Absent}]
<1>1. CASE request[p].op = "READ"
  BY <1>1, RestType DEF Got
<1>2. CASE request[p].op # "READ"
  <2>1. request[p] \in Requests
    BY DEF TypeInv, Serves
  <2>2. Changed(request[p], k) \in Copies
    BY <2>1, ChangedType
  <2>3. QED
    BY <1>2, <2>1, <2>2 DEF Got, TypeInv, TypeOK, Serves, Writing
<1>3. QED
  BY <1>1, <1>2

LEMMA GetHotType ==
  ASSUME TypeInv, NEW p \in Procs, GetHot(p)
  PROVE  TypeInv'
<1> DEFINE k == hot[request[p].capsule]
<1>1. request[p].capsule \in Capsules
  BY RequestCapsule DEF GetHot, TypeInv, Serves
<1>2. CASE k = Absent
  BY <1>2 DEF GetHot, TypeInv, TypeOK, Serves, Writing, dbVars
<1>3. CASE k # Absent
  <2>1. k \in Copies
    BY <1>1, <1>3 DEF TypeInv, TypeOK
  <2>2. pc[p] # "idle" /\ Got(p, k)
    BY <1>3 DEF GetHot
  <2>3. UNCHANGED <<dbVars, hot, failures>>
    BY DEF GetHot
  <2>4. QED
    BY <2>1, <2>2, <2>3, GotType DEF TypeInv, TypeOK, dbVars
<1>4. QED
  BY <1>2, <1>3

LEMMA GetRowType ==
  ASSUME TypeInv, NEW p \in Procs, GetRow(p)
  PROVE  TypeInv'
<1> DEFINE c == request[p].capsule
<1>1. c \in Capsules
  BY RequestCapsule DEF GetRow, TypeInv, Serves
<1>2. CASE stored[c] = Absent
  <2>1. Rest(p) /\ UNCHANGED <<dbVars, hot, failures>>
    BY <1>2 DEF GetRow, Missing
  <2>2. QED
    BY <2>1, RestType DEF TypeInv, TypeOK, dbVars
<1>3. CASE stored[c] # Absent
  <2>1. Unpack(stored[c]) \in Copies
    BY <1>1, <1>3, UnpackType DEF TypeInv, TypeOK
  <2>2. QED
    BY <1>3, <2>1 DEF GetRow, Missing, TypeInv, TypeOK, Serves, Writing, dbVars
<1>4. QED
  BY <1>2, <1>3

LEMMA WarmUpType ==
  ASSUME TypeInv, NEW p \in Procs, WarmUp(p)
  PROVE  TypeInv'
<1>1. copy[p] \in Copies /\ request[p].capsule \in Capsules
  BY RequestCapsule DEF WarmUp, TypeInv, Serves
<1>2. hot' \in [Capsules -> Copies \cup {Absent}]
  BY <1>1 DEF WarmUp, Warmed, TypeInv, TypeOK
<1>3. pc[p] # "idle" /\ Got(p, copy[p]) /\ UNCHANGED <<dbVars, failures>>
  BY DEF WarmUp
<1>4. QED
  BY <1>1, <1>2, <1>3, GotType DEF TypeInv, TypeOK, dbVars

LEMMA CheckKeyType ==
  ASSUME TypeInv, NEW p \in Procs, CheckKey(p)
  PROVE  TypeInv'
<1>1. CASE keys[KeyOf(request[p])] = "live"
  BY <1>1, RestType DEF CheckKey, TypeInv, TypeOK, dbVars
<1>2. CASE keys[KeyOf(request[p])] # "live"
  BY <1>2 DEF CheckKey, TypeInv, TypeOK, Serves, Writing, dbVars
<1>3. QED
  BY <1>1, <1>2

LEMMA BeginPutType ==
  ASSUME TypeInv, NEW p \in Procs, BeginPut(p)
  PROVE  TypeInv'
<1>1. request[p].capsule \in Capsules
  BY RequestCapsule DEF BeginPut, TypeInv, Serves
<1>2. QED
  BY <1>1 DEF BeginPut, TypeInv, TypeOK, Serves, Writing, dbVars

LEMMA CommitPutType ==
  ASSUME TypeInv, NEW p \in Procs, CommitPut(p)
  PROVE  TypeInv'
<1> DEFINE c == request[p].capsule
           k == KeyOf(request[p])
           row == IF copy[p].packs = seen[p] THEN stored[c] ELSE copy[p].packs
<1>1. c \in Capsules /\ k \in Keys /\ copy[p] \in Copies
  BY RequestCapsule, KeyType DEF CommitPut, TypeInv, Serves, Writing
<1>2. copy[p].packs \in Columns
  BY <1>1 DEF Copies, Columns
<1>3. row \in Columns
  <2>1. CASE copy[p].packs # seen[p]
    BY <1>2, <2>1
  <2>2. CASE copy[p].packs = seen[p]
    BY <1>1, <1>2, <2>2, RouterConstants
       DEF CommitPut, TypeInv, TypeOK, Serves
  <2>3. QED
    BY <2>1, <2>2
<1>4. Unpack(row) \in Copies
  BY <1>3, UnpackType
<1>5. committed' \in [Capsules -> SUBSET Copies]
  BY <1>1, <1>4 DEF CommitPut, TypeInv, TypeOK
<1>6. effects' \in [Keys -> Nat]
  BY <1>1 DEF CommitPut, TypeInv, TypeOK
<1>7. stored' \in [Capsules -> Columns \cup {Absent}]
  BY <1>1, <1>3 DEF CommitPut, TypeInv, TypeOK
<1>8. stored'[c] # Absent /\ \A b \in Capsules \ {c} : stored'[b] = stored[b]
  BY <1>1, <1>3, RouterConstants DEF CommitPut, TypeInv, TypeOK
<1>9. Serves'
  <2>1. ASSUME NEW q \in Procs
        PROVE  /\ pc'[q] # "idle" => request'[q] \in Requests
               /\ pc'[q] \in Writing => request'[q].op # "READ" /\ copy'[q] \in Copies
               /\ pc'[q] = "warm" => copy'[q] \in Copies
    BY DEF CommitPut, TypeInv, TypeOK, Serves, Writing
  <2>2. ASSUME NEW q \in Procs, pc'[q] = "commit", seen'[q] # Absent
        PROVE  stored'[request'[q].capsule] # Absent
    <3>1. q # p /\ pc[q] = "commit" /\ seen[q] # Absent /\ request'[q] = request[q]
      BY <2>2 DEF CommitPut, TypeInv, TypeOK
    <3>2. request[q].capsule \in Capsules /\ stored[request[q].capsule] # Absent
      BY <3>1, RequestCapsule DEF TypeInv, Serves
    <3>3. QED
      BY <1>8, <3>1, <3>2
  <2>3. QED
    BY <2>1, <2>2 DEF Serves
<1>10. QED
  BY <1>9, <1>5, <1>6, <1>7 DEF CommitPut, TypeInv, TypeOK, RouterAssumption

LEMMA OtherType ==
  ASSUME TypeInv,
         \/ \E p \in Procs : RollBack(p) \/ RecordKey(p) \/ PutHot(p) \/ Dies(p)
         \/ LoseHot
         \/ \E k \in Keys : Expire(k)
  PROVE  TypeInv'
<1> USE DEF TypeInv, TypeOK, dbVars, procVars
<1>1. CASE \E p \in Procs : RollBack(p)
  BY <1>1, RestType DEF RollBack, Failed
<1>2. CASE \E p \in Procs : RecordKey(p)
  <2>1. PICK p \in Procs : RecordKey(p)
    BY <1>2
  <2>2. KeyOf(request[p]) \in Keys
    BY <2>1, KeyType DEF RecordKey, Serves, Writing
  <2>3. keys' \in [Keys -> {"none", "live", "expired"}]
    BY <2>1, <2>2 DEF RecordKey, Recorded
  <2>4. QED
    BY <2>1, <2>3 DEF RecordKey, Serves, Writing
<1>3. CASE \E p \in Procs : PutHot(p)
  <2>1. PICK p \in Procs : PutHot(p)
    BY <1>3
  <2>2. request[p].capsule \in Capsules /\ copy[p] \in Copies
    BY <2>1, RequestCapsule DEF PutHot, Serves, Writing
  <2>3. hot' \in [Capsules -> Copies \cup {Absent}]
    BY <2>1, <2>2 DEF PutHot
  <2>4. QED
    BY <2>1, <2>3, RestType DEF PutHot
<1>4. CASE \E p \in Procs : Dies(p)
  BY <1>4, RestType, RouterAssumption DEF Dies
<1>5. CASE LoseHot
  BY <1>5, RouterAssumption DEF LoseHot, Serves
<1>6. CASE \E k \in Keys : Expire(k)
  BY <1>6 DEF Expire, Serves
<1>7. QED
  BY <1>1, <1>2, <1>3, <1>4, <1>5, <1>6

LEMMA NextType == TypeInv /\ [Next]_vars => TypeInv'
<1> SUFFICES ASSUME TypeInv, [Next]_vars PROVE TypeInv'
  OBVIOUS
<1>1. CASE UNCHANGED vars
  BY <1>1 DEF vars, TypeInv, TypeOK, Serves
<1>2. CASE Next
  <2>1. ASSUME NEW p \in Procs, NEW r \in Requests, Receive(p, r)
        PROVE  TypeInv'
    BY <2>1, ReceiveType
  <2>2. ASSUME NEW p \in Procs, ProcStep(p)
        PROVE  TypeInv'
    BY <2>2, GetHotType, GetRowType, WarmUpType, CheckKeyType, BeginPutType,
       CommitPutType, OtherType DEF ProcStep
  <2>3. QED
    BY <1>2, <2>1, <2>2, OtherType DEF Next
<1>3. QED
  BY <1>1, <1>2

\* Every variable keeps its type.
THEOREM RouterTypeCorrect == Spec => []TypeOK
<1>1. TypeInv => TypeOK
  BY DEF TypeInv
<1>2. QED
  BY InitType, NextType, <1>1, PTL DEF Spec

\* Besides the types, a process that is past a step of its request holds what
\* that step gives it (the invariant of RouterTypeCorrect).
THEOREM RouterTypeInv == Spec => []TypeInv
BY InitType, NextType, PTL DEF Spec

(***************************************************************************)
(* The hot copy and the keys speak of committed transactions only          *)
(***************************************************************************)

CommitInv == RowCommitted /\ HotCommitted /\ InHandCommitted /\ ReplayOfDone

LEMMA InitCommit == Init => CommitInv
BY RouterAssumption DEF Init, CommitInv, RowCommitted, HotCommitted,
   InHandCommitted, ReplayOfDone

\* A process that rests, and nothing else of note.
LEMMA RestCommit ==
  ASSUME TypeInv, CommitInv, NEW p \in Procs, Rest(p), UNCHANGED dbVars
  PROVE  RowCommitted' /\ InHandCommitted' /\ ReplayOfDone'
BY DEF TypeInv, TypeOK, CommitInv, RowCommitted, InHandCommitted, ReplayOfDone,
   Rest, dbVars

LEMMA GotCommit ==
  ASSUME TypeInv, CommitInv, NEW p \in Procs, NEW k, Got(p, k), UNCHANGED dbVars
  PROVE  RowCommitted' /\ InHandCommitted' /\ ReplayOfDone'
<1>1. CASE request[p].op = "READ"
  BY <1>1, RestCommit DEF Got
<1>2. CASE request[p].op # "READ"
  BY <1>2 DEF Got, TypeInv, TypeOK, CommitInv, RowCommitted, InHandCommitted,
     ReplayOfDone, dbVars
<1>3. QED
  BY <1>1, <1>2

LEMMA ReadCommit ==
  ASSUME TypeInv, CommitInv, NEW p \in Procs, GetHot(p) \/ GetRow(p) \/ WarmUp(p)
  PROVE  CommitInv'
<1> DEFINE c == request[p].capsule
<1>1. c \in Capsules
  BY RequestCapsule DEF GetHot, GetRow, WarmUp, TypeInv, Serves
<1>2. CASE GetHot(p)
  <2>1. UNCHANGED dbVars /\ HotCommitted'
    BY <1>2 DEF GetHot, CommitInv, HotCommitted, dbVars
  <2>2. CASE hot[c] = Absent
    BY <1>2, <2>1, <2>2 DEF GetHot, TypeInv, TypeOK, CommitInv, RowCommitted,
       InHandCommitted, ReplayOfDone, dbVars
  <2>3. CASE hot[c] # Absent
    BY <1>2, <2>1, <2>3, GotCommit DEF GetHot, CommitInv
  <2>4. QED
    BY <2>2, <2>3
<1>3. CASE GetRow(p)
  <2>1. UNCHANGED dbVars /\ HotCommitted'
    BY <1>3 DEF GetRow, CommitInv, HotCommitted, dbVars
  <2>2. CASE stored[c] = Absent
    BY <1>3, <2>1, <2>2, RestCommit DEF GetRow, Missing, CommitInv
  <2>3. CASE stored[c] # Absent
    <3>1. Unpack(stored[c]) \in committed[c]
      BY <1>1, <2>3 DEF CommitInv, RowCommitted
    <3>2. QED
      BY <1>3, <2>1, <2>3, <3>1 DEF GetRow, Missing, TypeInv, TypeOK, CommitInv,
         RowCommitted, InHandCommitted, ReplayOfDone, dbVars
  <2>4. QED
    BY <2>2, <2>3
<1>4. CASE WarmUp(p)
  <2>1. copy[p] \in committed[c]
    BY <1>4 DEF WarmUp, CommitInv, InHandCommitted
  <2>2. HotCommitted'
    BY <1>1, <1>4, <2>1 DEF WarmUp, Warmed, TypeInv, TypeOK, CommitInv,
       HotCommitted, dbVars
  <2>3. Got(p, copy[p]) /\ UNCHANGED dbVars
    BY <1>4 DEF WarmUp
  <2>4. QED
    BY <2>2, <2>3, GotCommit DEF CommitInv
<1>5. QED
  BY <1>2, <1>3, <1>4

LEMMA CommitPutCommit ==
  ASSUME TypeInv, CommitInv, NEW p \in Procs, CommitPut(p)
  PROVE  CommitInv'
<1> DEFINE c == request[p].capsule
           k == KeyOf(request[p])
           row == IF copy[p].packs = seen[p] THEN stored[c] ELSE copy[p].packs
<1>1. c \in Capsules /\ k \in Keys
  BY RequestCapsule, KeyType DEF CommitPut, TypeInv, Serves, Writing
<1>2. /\ \A b \in Capsules : committed[b] \subseteq committed'[b]
      /\ copy[p] \in committed'[c]
      /\ Unpack(stored'[c]) \in committed'[c]
      /\ \A b \in Capsules \ {c} : stored'[b] = stored[b]
  BY <1>1 DEF CommitPut, TypeInv, TypeOK
<1>3. /\ \A j \in Keys : effects[j] > 0 => effects'[j] > 0
      /\ effects'[k] > 0
  <2>1. effects[k] \in Nat /\ (keys[k] = "expired" => effects[k] > 0)
    BY <1>1 DEF CommitInv, ReplayOfDone, TypeInv, TypeOK
  <2>2. QED
    BY <1>1, <2>1 DEF CommitPut, TypeInv, TypeOK
<1>4. RowCommitted' /\ HotCommitted' /\ ReplayOfDone'
  BY <1>1, <1>2, <1>3 DEF CommitPut, CommitInv, RowCommitted, HotCommitted,
     ReplayOfDone
<1>5. InHandCommitted'
  <2>1. ASSUME NEW q \in Procs \ {p}
        PROVE  /\ pc'[q] \in {"warm", "record", "put"} =>
                    copy'[q] \in committed'[request'[q].capsule]
               /\ pc'[q] = "record" => effects'[KeyOf(request'[q])] > 0
    <3>1. pc'[q] = pc[q] /\ copy'[q] = copy[q] /\ request'[q] = request[q]
      BY DEF CommitPut, TypeInv, TypeOK
    <3>2. CASE pc[q] \in {"warm", "record", "put"}
      <4>1. request[q].capsule \in Capsules
        BY <3>2, RequestCapsule DEF TypeInv, Serves
      <4>2. pc[q] = "record" => KeyOf(request[q]) \in Keys
        BY KeyType DEF TypeInv, Serves, Writing
      <4>3. QED
        BY <1>2, <1>3, <3>1, <4>1, <4>2 DEF CommitInv, InHandCommitted
    <3>3. QED
      BY <3>1, <3>2
  <2>2. pc'[p] = "record" /\ copy'[p] = copy[p] /\ request'[p] = request[p]
    BY DEF CommitPut, TypeInv, TypeOK
  <2>3. QED
    BY <1>2, <1>3, <2>1, <2>2 DEF InHandCommitted
<1>6. QED
  BY <1>4, <1>5 DEF CommitInv

LEMMA OtherCommit ==
  ASSUME TypeInv, CommitInv,
         \/ \E p \in Procs :
              \/ \E r \in Requests : Receive(p, r)
              \/ CheckKey(p) \/ BeginPut(p) \/ RollBack(p) \/ RecordKey(p)
              \/ PutHot(p) \/ Dies(p)
         \/ LoseHot
         \/ \E k \in Keys : Expire(k)
  PROVE  CommitInv'
<1> USE DEF CommitInv
<1>1. ASSUME NEW p \in Procs, NEW r \in Requests, Receive(p, r)
      PROVE  CommitInv'
  BY <1>1 DEF Receive, TypeInv, TypeOK, RowCommitted, HotCommitted,
     InHandCommitted, ReplayOfDone, dbVars
<1>2. ASSUME NEW p \in Procs, CheckKey(p)
      PROVE  CommitInv'
  <2>1. UNCHANGED dbVars /\ HotCommitted'
    BY <1>2 DEF CheckKey, HotCommitted, dbVars
  <2>2. CASE keys[KeyOf(request[p])] = "live"
    BY <1>2, <2>1, <2>2, RestCommit DEF CheckKey
  <2>3. CASE keys[KeyOf(request[p])] # "live"
    BY <1>2, <2>1, <2>3 DEF CheckKey, TypeInv, TypeOK, RowCommitted,
       InHandCommitted, ReplayOfDone, dbVars
  <2>4. QED
    BY <2>2, <2>3
<1>3. ASSUME NEW p \in Procs, BeginPut(p)
      PROVE  CommitInv'
  BY <1>3 DEF BeginPut, TypeInv, TypeOK, RowCommitted, HotCommitted,
     InHandCommitted, ReplayOfDone, dbVars
<1>4. ASSUME NEW p \in Procs, RollBack(p) \/ Dies(p)
      PROVE  CommitInv'
  <2>1. Rest(p) /\ UNCHANGED <<dbVars, hot>>
    BY <1>4 DEF RollBack, Failed, Dies
  <2>2. HotCommitted'
    BY <2>1 DEF HotCommitted, dbVars
  <2>3. QED
    BY <2>1, <2>2, RestCommit
<1>5. ASSUME NEW p \in Procs, RecordKey(p)
      PROVE  CommitInv'
  <2>1. KeyOf(request[p]) \in Keys /\ effects[KeyOf(request[p])] > 0
    BY <1>5, KeyType DEF RecordKey, TypeInv, Serves, Writing, InHandCommitted
  <2>2. ReplayOfDone'
    BY <1>5, <2>1 DEF RecordKey, ReplayOfDone, TypeInv, TypeOK
  <2>3. RowCommitted' /\ HotCommitted' /\ InHandCommitted'
    BY <1>5 DEF RecordKey, TypeInv, TypeOK, RowCommitted, HotCommitted,
       InHandCommitted
  <2>4. QED
    BY <2>2, <2>3
<1>6. ASSUME NEW p \in Procs, PutHot(p)
      PROVE  CommitInv'
  <2>1. request[p].capsule \in Capsules
        /\ copy[p] \in committed[request[p].capsule]
    BY <1>6, RequestCapsule DEF PutHot, TypeInv, Serves, InHandCommitted
  <2>2. HotCommitted'
    BY <1>6, <2>1 DEF PutHot, HotCommitted, TypeInv, TypeOK, dbVars
  <2>3. Rest(p) /\ UNCHANGED dbVars
    BY <1>6 DEF PutHot
  <2>4. QED
    BY <2>2, <2>3, RestCommit
<1>7. CASE LoseHot
  BY <1>7 DEF LoseHot, RowCommitted, HotCommitted, InHandCommitted,
     ReplayOfDone, dbVars, procVars
<1>8. CASE \E k \in Keys : Expire(k)
  BY <1>8 DEF Expire, RowCommitted, HotCommitted, InHandCommitted,
     ReplayOfDone, procVars, TypeInv, TypeOK
<1>9. QED
  BY <1>1, <1>2, <1>3, <1>4, <1>5, <1>6, <1>7, <1>8

LEMMA NextCommit == TypeInv /\ CommitInv /\ [Next]_vars => CommitInv'
<1> SUFFICES ASSUME TypeInv, CommitInv, [Next]_vars PROVE CommitInv'
  OBVIOUS
<1>1. CASE UNCHANGED vars
  BY <1>1 DEF vars, CommitInv, RowCommitted, HotCommitted, InHandCommitted,
     ReplayOfDone
<1>2. CASE Next
  BY <1>2, ReadCommit, CommitPutCommit, OtherCommit DEF Next, ProcStep
<1>3. QED
  BY <1>1, <1>2

\* The hot copy never shows a change whose transaction did not commit.
THEOREM RouterHotCommitted == Spec => []HotCommitted
<1>1. CommitInv => HotCommitted
  BY DEF CommitInv
<1>2. QED
  BY InitCommit, NextCommit, RouterTypeInv, <1>1, PTL DEF Spec

\* A key never answers for an operation that was not committed.
THEOREM RouterReplayOfDone == Spec => []ReplayOfDone
<1>1. CommitInv => ReplayOfDone
  BY DEF CommitInv
<1>2. QED
  BY InitCommit, NextCommit, RouterTypeInv, <1>1, PTL DEF Spec

(***************************************************************************)
(* How often an operation takes effect                                     *)
(***************************************************************************)

Recording(k) == Serving(k, {"record"})
Checked(k) == Serving(k, {"begin", "commit"})

LEMMA ServingFinite ==
  ASSUME NEW k, NEW stages
  PROVE  /\ IsFiniteSet(Serving(k, stages))
         /\ Cardinality(Serving(k, stages)) \in Nat
<1>1. Serving(k, stages) \subseteq Procs
  BY DEF Serving
<1>2. QED
  BY <1>1, RouterAssumption, FS_Subset, FS_CardinalityType

LEMMA ServingFiniteNext ==
  ASSUME NEW k, NEW stages
  PROVE  /\ IsFiniteSet(Serving(k, stages)')
         /\ Cardinality(Serving(k, stages)') \in Nat
<1>1. Serving(k, stages)' \subseteq Procs
  BY DEF Serving
<1>2. QED
  BY <1>1, RouterAssumption, FS_Subset, FS_CardinalityType

\* Those about to record a key and those that have only checked it are
\* different processes.
LEMMA RecordingAndChecked ==
  ASSUME NEW k
  PROVE  Cardinality(Recording(k)) + Cardinality(Checked(k)) <= Cardinality(Procs)
<1> DEFINE R == Recording(k)
           W == Checked(k)
<1>1. /\ IsFiniteSet(R) /\ IsFiniteSet(W)
      /\ Cardinality(R) \in Nat /\ Cardinality(W) \in Nat
  BY ServingFinite DEF Recording, Checked
<1>2. R \cap W = {} /\ R \cup W \subseteq Procs
  BY DEF Recording, Checked, Serving
<1>3. Cardinality(R \cup W)
        = Cardinality(R) + Cardinality(W) - Cardinality(R \cap W)
  BY <1>1, FS_Union
<1>4. Cardinality(R \cap W) = 0
  BY <1>2, FS_EmptySet
<1>5. Cardinality(R \cup W) <= Cardinality(Procs)
  BY <1>2, RouterAssumption, FS_Subset
<1>6. QED
  BY <1>1, <1>3, <1>4, <1>5

LEMMA InitCounted == Init => EffectsCounted
<1> SUFFICES ASSUME Init, NEW k \in Keys
    PROVE  /\ keys[k] = "none" =>
                effects[k] <= Cardinality(Serving(k, {"record"})) + failures
           /\ keys[k] = "live" =>
                effects[k] + Cardinality(Serving(k, {"begin", "commit"}))
                  <= Cardinality(Procs) + failures
  BY DEF EffectsCounted
<1>1. keys[k] = "none" /\ effects[k] = 0 /\ failures = 0
  BY DEF Init
<1>2. QED
  BY <1>1, ServingFinite

\* No effect, no new key, nobody leaves before recording, and nobody whose key
\* is recorded goes on.
LEMMA QuietCounted ==
  ASSUME TypeInv, EffectsCounted, UNCHANGED <<keys, effects, failures>>,
         \A k \in Keys : /\ Recording(k) \subseteq Recording(k)'
                         /\ keys[k] = "live" => Checked(k)' \subseteq Checked(k)
  PROVE  EffectsCounted'
<1> SUFFICES ASSUME NEW k \in Keys
    PROVE  /\ keys[k] = "none" =>
                effects[k] <= Cardinality(Recording(k)') + failures
           /\ keys[k] = "live" =>
                effects[k] + Cardinality(Checked(k)')
                  <= Cardinality(Procs) + failures
  BY DEF EffectsCounted, Recording, Checked
<1>1. Cardinality(Recording(k)) <= Cardinality(Recording(k)')
  BY ServingFiniteNext, FS_Subset DEF Recording
<1>2. keys[k] = "live" => Cardinality(Checked(k)') <= Cardinality(Checked(k))
  BY ServingFinite, FS_Subset DEF Checked
<1>3. /\ effects[k] \in Nat /\ failures \in Nat /\ Cardinality(Procs) \in Nat
      /\ Cardinality(Recording(k)) \in Nat /\ Cardinality(Recording(k)') \in Nat
      /\ Cardinality(Checked(k)) \in Nat /\ Cardinality(Checked(k)') \in Nat
  BY ServingFinite, ServingFiniteNext, FS_CardinalityType, RouterAssumption
     DEF TypeInv, TypeOK, Recording, Checked
<1>4. QED
  BY <1>1, <1>2, <1>3 DEF EffectsCounted, Recording, Checked

LEMMA DiesCounted ==
  ASSUME TypeInv, EffectsCounted, NEW p \in Procs, Dies(p)
  PROVE  EffectsCounted'
<1> SUFFICES ASSUME NEW k \in Keys
    PROVE  /\ keys[k] = "none" =>
                effects[k] <= Cardinality(Recording(k)') + (failures + 1)
           /\ keys[k] = "live" =>
                effects[k] + Cardinality(Checked(k)')
                  <= Cardinality(Procs) + (failures + 1)
  BY DEF EffectsCounted, Recording, Checked, Dies, dbVars, TypeInv, TypeOK
<1>1. Recording(k)' = Recording(k) \ {p} /\ Checked(k)' \subseteq Checked(k)
  BY DEF Dies, Rest, TypeInv, TypeOK, Recording, Checked, Serving
<1>2. Cardinality(Recording(k)) <= Cardinality(Recording(k)') + 1
  <2>1. IsFiniteSet(Recording(k)) /\ Cardinality(Recording(k)) \in Nat
    BY ServingFinite DEF Recording
  <2>2. Cardinality(Recording(k) \ {p}) =
          IF p \in Recording(k) THEN Cardinality(Recording(k)) - 1
          ELSE Cardinality(Recording(k))
    BY <2>1, FS_RemoveElement
  <2>3. QED
    BY <1>1, <2>1, <2>2
<1>3. Cardinality(Checked(k)') <= Cardinality(Checked(k))
  BY <1>1, ServingFinite, FS_Subset DEF Checked
<1>4. /\ effects[k] \in Nat /\ failures \in Nat /\ Cardinality(Procs) \in Nat
      /\ Cardinality(Recording(k)) \in Nat /\ Cardinality(Recording(k)') \in Nat
      /\ Cardinality(Checked(k)) \in Nat /\ Cardinality(Checked(k)') \in Nat
  BY ServingFinite, ServingFiniteNext, FS_CardinalityType, RouterAssumption
     DEF TypeInv, TypeOK, Recording, Checked
<1>5. QED
  BY <1>2, <1>3, <1>4 DEF EffectsCounted, Recording, Checked

LEMMA CommitPutCounted ==
  ASSUME TypeInv, EffectsCounted, NEW p \in Procs, CommitPut(p)
  PROVE  EffectsCounted'
<1> SUFFICES ASSUME NEW k \in Keys
    PROVE  /\ keys[k] = "none" =>
                effects'[k] <= Cardinality(Recording(k)') + failures
           /\ keys[k] = "live" =>
                effects'[k] + Cardinality(Checked(k)')
                  <= Cardinality(Procs) + failures
  BY DEF EffectsCounted, Recording, Checked, CommitPut
<1>1. /\ effects[k] \in Nat /\ failures \in Nat /\ Cardinality(Procs) \in Nat
      /\ Cardinality(Recording(k)) \in Nat /\ Cardinality(Recording(k)') \in Nat
      /\ Cardinality(Checked(k)) \in Nat /\ Cardinality(Checked(k)') \in Nat
  BY ServingFinite, ServingFiniteNext, FS_CardinalityType, RouterAssumption
     DEF TypeInv, TypeOK, Recording, Checked
<1>2. CASE KeyOf(request[p]) = k
  <2>1. p \notin Recording(k) /\ Recording(k)' = Recording(k) \cup {p}
    BY <1>2 DEF CommitPut, TypeInv, TypeOK, Recording, Serving
  <2>2. p \in Checked(k) /\ Checked(k)' = Checked(k) \ {p}
    BY <1>2 DEF CommitPut, TypeInv, TypeOK, Checked, Serving
  <2>3. Cardinality(Recording(k)') = Cardinality(Recording(k)) + 1
    BY <2>1, ServingFinite, FS_AddElement DEF Recording
  <2>4. Cardinality(Checked(k)') = Cardinality(Checked(k)) - 1
    BY <2>2, ServingFinite, FS_RemoveElement DEF Checked
  <2>5. effects'[k] <= effects[k] + 1 /\ effects'[k] \in Nat
    BY <1>1, <1>2 DEF CommitPut, TypeInv, TypeOK
  <2>6. QED
    BY <1>1, <2>3, <2>4, <2>5 DEF EffectsCounted, Recording, Checked
<1>3. CASE KeyOf(request[p]) # k
  <2>1. Recording(k)' = Recording(k) /\ Checked(k)' = Checked(k)
    BY <1>3 DEF CommitPut, TypeInv, TypeOK, Recording, Checked, Serving
  <2>2. effects'[k] = effects[k]
    BY <1>3 DEF CommitPut, TypeInv, TypeOK
  <2>3. QED
    BY <2>1, <2>2 DEF EffectsCounted, Recording, Checked
<1>4. QED
  BY <1>2, <1>3

LEMMA RecordKeyCounted ==
  ASSUME TypeInv, EffectsCounted, NEW p \in Procs, RecordKey(p)
  PROVE  EffectsCounted'
<1> SUFFICES ASSUME NEW k \in Keys
    PROVE  /\ keys'[k] = "none" =>
                effects[k] <= Cardinality(Recording(k)') + failures
           /\ keys'[k] = "live" =>
                effects[k] + Cardinality(Checked(k)')
                  <= Cardinality(Procs) + failures
  BY DEF EffectsCounted, Recording, Checked, RecordKey
<1>1. /\ effects[k] \in Nat /\ failures \in Nat /\ Cardinality(Procs) \in Nat
      /\ Cardinality(Recording(k)) \in Nat /\ Cardinality(Checked(k)) \in Nat
  BY ServingFinite, FS_CardinalityType, RouterAssumption
     DEF TypeInv, TypeOK, Recording, Checked
<1>2. Checked(k)' = Checked(k)
  BY DEF RecordKey, TypeInv, TypeOK, Checked, Serving
<1>3. CASE KeyOf(request[p]) = k
  <2>1. keys'[k] = IF keys[k] = "none" THEN "live" ELSE keys[k]
    BY <1>3 DEF RecordKey, Recorded, TypeInv, TypeOK
  <2>2. CASE keys[k] = "none"
    <3>1. effects[k] <= Cardinality(Recording(k)) + failures
      BY <2>2 DEF EffectsCounted, Recording
    <3>2. Cardinality(Recording(k)) + Cardinality(Checked(k)) <= Cardinality(Procs)
      BY RecordingAndChecked
    <3>3. QED
      BY <1>1, <1>2, <2>1, <2>2, <3>1, <3>2
  <2>3. CASE keys[k] # "none"
    BY <1>2, <2>1, <2>3 DEF EffectsCounted, Checked
  <2>4. QED
    BY <2>2, <2>3
<1>4. CASE KeyOf(request[p]) # k
  <2>1. Recording(k)' = Recording(k) /\ keys'[k] = keys[k]
    BY <1>4 DEF RecordKey, TypeInv, TypeOK, Recording, Serving
  <2>2. QED
    BY <1>2, <2>1 DEF EffectsCounted, Recording, Checked
<1>5. QED
  BY <1>3, <1>4

LEMMA NextCounted == TypeInv /\ EffectsCounted /\ [Next]_vars => EffectsCounted'
<1> SUFFICES ASSUME TypeInv, EffectsCounted, [Next]_vars PROVE EffectsCounted'
  OBVIOUS
<1> USE DEF dbVars, procVars
<1>1. ASSUME NEW p \in Procs,
             \/ \E r \in Requests : Receive(p, r)
             \/ GetHot(p) \/ GetRow(p) \/ WarmUp(p) \/ CheckKey(p)
             \/ BeginPut(p) \/ RollBack(p) \/ PutHot(p)
      PROVE  EffectsCounted'
  <2>1. UNCHANGED <<keys, effects, failures>>
    BY <1>1 DEF Receive, GetHot, GetRow, WarmUp, CheckKey, BeginPut, RollBack,
       PutHot
  <2>2. /\ pc[p] # "record"
        /\ \A q \in Procs \ {p} : pc'[q] = pc[q] /\ request'[q] = request[q]
    BY <1>1 DEF Receive, GetHot, GetRow, WarmUp, CheckKey, BeginPut, RollBack,
       PutHot, Got, Rest, Failed, TypeInv, TypeOK
  <2>3. pc'[p] \in {"begin", "commit"} =>
          /\ request'[p] = request[p]
          /\ \/ pc[p] \in {"begin", "commit"}
             \/ keys[KeyOf(request[p])] # "live"
    BY <1>1 DEF Receive, GetHot, GetRow, WarmUp, CheckKey, BeginPut, RollBack,
       PutHot, Got, Rest, Failed, TypeInv, TypeOK
  <2>4. ASSUME NEW k \in Keys
        PROVE  /\ Recording(k) \subseteq Recording(k)'
               /\ keys[k] = "live" => Checked(k)' \subseteq Checked(k)
    BY <2>2, <2>3 DEF Recording, Checked, Serving
  <2>5. QED
    BY <2>1, <2>4, QuietCounted
<1>2. CASE LoseHot
  <2>1. \A k \in Keys : Recording(k)' = Recording(k) /\ Checked(k)' = Checked(k)
    BY <1>2 DEF LoseHot, Recording, Checked, Serving
  <2>2. /\ keys' = keys /\ effects' = effects /\ failures' = failures + 1
        /\ failures \in Nat /\ effects \in [Keys -> Nat]
    BY <1>2 DEF LoseHot, TypeInv, TypeOK
  <2>3. \A k \in Keys : /\ Cardinality(Recording(k)) \in Nat
                        /\ Cardinality(Checked(k)) \in Nat
    BY ServingFinite DEF Recording, Checked
  <2>4. Cardinality(Procs) \in Nat
    BY FS_CardinalityType, RouterAssumption
  <2>5. QED
    BY <2>1, <2>2, <2>3, <2>4 DEF EffectsCounted, Recording, Checked
<1>3. CASE \E k \in Keys : Expire(k)
  <2>1. \A k \in Keys : Recording(k)' = Recording(k) /\ Checked(k)' = Checked(k)
    BY <1>3 DEF Expire, Recording, Checked, Serving
  <2>2. /\ effects' = effects /\ failures' = failures
        /\ \A k \in Keys : keys'[k] # "expired" => keys'[k] = keys[k]
    BY <1>3 DEF Expire, TypeInv, TypeOK
  <2>3. QED
    BY <2>1, <2>2 DEF EffectsCounted, Recording, Checked
<1>4. CASE UNCHANGED vars
  BY <1>4 DEF vars, EffectsCounted, Serving
<1>5. QED
  BY <1>1, <1>2, <1>3, <1>4, DiesCounted, CommitPutCounted, RecordKeyCounted
     DEF Next, ProcStep

\* For any number of processes and crashes, an operation takes effect once per
\* process at most, and once more per crash, until its key expires.
THEOREM RouterEffectsBounded == Spec => []EffectsBounded
<1>1. TypeInv /\ EffectsCounted => EffectsBounded
  <2>1. SUFFICES ASSUME TypeInv, EffectsCounted, NEW k \in Keys,
                        keys[k] # "expired"
                 PROVE  effects[k] <= Cardinality(Procs) + failures
    BY DEF EffectsBounded
  <2>2. /\ keys[k] \in {"none", "live"} /\ effects[k] \in Nat /\ failures \in Nat
        /\ Cardinality(Recording(k)) \in Nat /\ Cardinality(Checked(k)) \in Nat
        /\ Cardinality(Procs) \in Nat
    BY <2>1, ServingFinite, FS_CardinalityType, RouterAssumption
       DEF TypeInv, TypeOK, Recording, Checked
  <2>3. Cardinality(Recording(k)) + Cardinality(Checked(k)) <= Cardinality(Procs)
    BY RecordingAndChecked
  <2>4. QED
    BY <2>1, <2>2, <2>3 DEF EffectsCounted, Recording, Checked
<1>2. QED
  BY InitCounted, NextCounted, RouterTypeInv, <1>1, PTL DEF Spec
=============================================================================
