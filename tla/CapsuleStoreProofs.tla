------------------------- MODULE CapsuleStoreProofs -------------------------
(***************************************************************************)
(* Proofs about CapsuleStore, for any number of calls that create, update, *)
(* revoke and read one capsule.                                            *)
(***************************************************************************)
EXTENDS CapsuleStoreInv, TLAPS

-----------------------------------------------------------------------------
(* What the steps of a call do to it, field by field.                      *)

SameArguments(v) ==
  /\ write'[v].text = write[v].text
  /\ write'[v].meta = write[v].meta
  /\ write'[v].expect = write[v].expect
  /\ write'[v].snap = write[v].snap

LEMMA MovedEffect ==
  ASSUME TypeOK, NEW w \in Writer, NEW pc \in WritePc, Moved(w, pc)
  PROVE  /\ write' \in [Writer -> WriteState]
         /\ write'[w].pc = pc
         /\ \A v \in Writer :
              /\ v # w => write'[v] = write[v]
              /\ SameArguments(v) /\ write'[v].mutation = write[v].mutation
BY DEF TypeOK, Moved, WriteState, SameArguments

LEMMA PcNames ==
  /\ {"idle", "creating", "read", "storing", "commit", "done", "noop", "conflict", "failed"}
       = WritePc
  /\ {"idle", "metadata", "fetch", "served", "counted", "refused"} = ReadPc
BY DEF WritePc, ReadPc

LEMMA NoRowType == NoRow \in Row /\ NoCipher \notin Cipher
BY KeepAssumption DEF NoRow, Row, NoCipher, Cipher

\* Rows are compared field by field.
LEMMA SameUpToStamp ==
  ASSUME NEW s \in Row, NEW t \in Row
  PROVE  [s EXCEPT !.stamp = 0] = [t EXCEPT !.stamp = 0] <=>
           /\ s.version = t.version /\ s.previous = t.previous /\ s.hash = t.hash
           /\ s.meta = t.meta /\ s.deleted = t.deleted
BY DEF Row

\* A call counts as an update only if it was given content.
LEMMA DiscriminateResult ==
  ASSUME NEW c \in WriteState, NEW plain
  PROVE  /\ Discriminate(c, plain) \in {"UPDATE", "MERGE", "NOOP"}
         /\ Discriminate(c, plain) = "UPDATE" => c.text \in Text
<1>1. CASE c.text # Keep /\ c.text # plain
  BY <1>1 DEF Discriminate, WriteState
<1>2. CASE ~(c.text # Keep /\ c.text # plain)
  BY <1>2 DEF Discriminate, WriteState
<1> QED
  BY <1>1, <1>2

LEMMA ProbeEffect ==
  ASSUME TypeOK, NEW w \in Writer, UpdateProbe(w)
  PROVE  /\ write' \in [Writer -> WriteState]
         /\ write[w].pc = "read"
         /\ \/ write'[w].pc = "storing" /\ write'[w].mutation = "UPDATE" /\ write[w].text \in Text
            \/ write'[w].pc = "commit" /\ write'[w].mutation # "UPDATE"
         /\ \A v \in Writer :
              /\ v # w => write'[v] = write[v]
              /\ SameArguments(v)
<1>1. PICK plain \in {blob.text, Keep} :
        write' = [write EXCEPT
          ![w].mutation = Discriminate(write[w], plain),
          ![w].pc = IF Discriminate(write[w], plain) = "UPDATE" THEN "storing" ELSE "commit"]
  BY DEF UpdateProbe
<1> DEFINE k == Discriminate(write[w], plain)
           pc == IF k = "UPDATE" THEN "storing" ELSE "commit"
<1>2. /\ k \in {"UPDATE", "MERGE", "NOOP"}
      /\ k = "UPDATE" => write[w].text \in Text
  BY DiscriminateResult DEF TypeOK
<1>3. write' = [write EXCEPT ![w].mutation = k, ![w].pc = pc]
  BY <1>1
<1>4. k \in Mutation /\ pc \in WritePc
  BY <1>2 DEF Mutation, WritePc
<1>5. /\ write' \in [Writer -> WriteState]
      /\ write'[w].pc = pc /\ write'[w].mutation = k
      /\ \A v \in Writer :
           /\ v # w => write'[v] = write[v]
           /\ SameArguments(v)
  <2> HIDE DEF k, pc
  <2> QED
    BY <1>3, <1>4 DEF TypeOK, WriteState, SameArguments
<1> QED
  BY <1>2, <1>5 DEF UpdateProbe

\* What a commit writes.
LEMMA ChangedEffect ==
  ASSUME TypeOK, ContentGiven, NEW w \in Writer, write[w].pc = "commit", row' = Changed(w)
  PROVE  /\ row' \in Row
         /\ row'.version = row.version + 1 /\ row'.stamp = row.stamp + 1
         /\ row'.deleted = row.deleted
         /\ row'.hash = IF write[w].mutation = "UPDATE" THEN Stored(w) ELSE row.hash
<1> DEFINE h == IF write[w].mutation = "UPDATE" THEN Stored(w) ELSE row.hash
           m == IF write[w].meta = Keep THEN row.meta ELSE write[w].meta
           p == write[w].snap.version
           n == row.version + 1
           k == row.stamp + 1
<1>1. /\ h \in Cipher \cup {NoCipher} /\ m \in Meta \cup {Keep}
      /\ p \in Nat /\ n \in Nat /\ k \in Nat
  BY DEF TypeOK, Row, WriteState, Stored, Cipher, ContentGiven
<1>2. row' = [row EXCEPT !.version = n, !.previous = p, !.stamp = k, !.meta = m, !.hash = h]
  BY DEF Changed
<1>3. /\ row' \in Row
      /\ row'.version = n /\ row'.stamp = k
      /\ row'.deleted = row.deleted /\ row'.hash = h
  <2> HIDE DEF h, m, p, n, k
  <2> QED
    BY <1>1, <1>2 DEF TypeOK, Row
<1> QED
  BY <1>3

\* The revocation, and the count of an access.
LEMMA RowTouched ==
  ASSUME TypeOK, NEW d \in BOOLEAN,
         row' = [row EXCEPT !.deleted = d, !.stamp = row.stamp + 1]
  PROVE  /\ row' \in Row /\ row'.stamp = row.stamp + 1
         /\ row'.version = row.version /\ row'.previous = row.previous
         /\ row'.hash = row.hash /\ row'.meta = row.meta /\ row'.deleted = d
<1> DEFINE k == row.stamp + 1
<1>1. k \in Nat /\ row' = [row EXCEPT !.deleted = d, !.stamp = k]
  BY DEF TypeOK, Row
<1>2. /\ row' \in Row /\ row'.stamp = k
      /\ row'.version = row.version /\ row'.previous = row.previous
      /\ row'.hash = row.hash /\ row'.meta = row.meta /\ row'.deleted = d
  <2> HIDE DEF k
  <2> QED
    BY <1>1 DEF TypeOK, Row
<1> QED
  BY <1>2

LEMMA ReadEffect ==
  ASSUME TypeOK, NEW r \in Reader, ReadStep(r)
  PROVE  /\ read' \in [Reader -> ReadState]
         /\ \A q \in Reader : q # r => read'[q] = read[q]
         /\ read[r].pc # "counted"
         /\ read'[r].pc = "metadata" => ReadMetadata(r) /\ read'[r].seen = row
         /\ read'[r].pc = "fetch" =>
              /\ ReadRow(r) /\ ~row.deleted /\ row.stamp = read[r].seen.stamp
              /\ read'[r].seen = read[r].seen
              /\ read'[r].crossed = \E w \in Writer : Storing(w)
         /\ read'[r].pc \in {"served", "counted"} =>
              /\ read'[r].seen = read[r].seen /\ read'[r].crossed = read[r].crossed
              /\ \/ read[r].pc = "fetch" /\ read'[r].body = blob
                 \/ read[r].pc = "served" /\ read'[r].body = read[r].body
<1>1. CASE ReadMetadata(r)
  <2> DEFINE pc == IF row.deleted THEN "refused" ELSE "metadata"
  <2>1. pc \in ReadPc
    BY DEF ReadPc
  <2>2. read' = [read EXCEPT ![r].pc = pc, ![r].seen = row]
    BY <1>1 DEF ReadMetadata
  <2>3. /\ read' \in [Reader -> ReadState] /\ read'[r].pc = pc /\ read'[r].seen = row
        /\ \A q \in Reader : q # r => read'[q] = read[q]
    <3> HIDE DEF pc
    <3> QED
      BY <2>1, <2>2 DEF TypeOK, ReadState
  <2> QED
    BY <1>1, <2>3 DEF ReadMetadata
<1>2. CASE ReadRow(r)
  <2> DEFINE pc == IF ~row.deleted /\ SameFingerprint(r) THEN "fetch" ELSE "refused"
             x == \E w \in Writer : Storing(w)
  <2>1. pc \in ReadPc /\ x \in BOOLEAN
    BY DEF ReadPc
  <2>2. read' = [read EXCEPT ![r].pc = pc, ![r].crossed = x]
    BY <1>2 DEF ReadRow
  <2>3. /\ read' \in [Reader -> ReadState] /\ read'[r].pc = pc /\ read'[r].crossed = x
        /\ read'[r].seen = read[r].seen
        /\ \A q \in Reader : q # r => read'[q] = read[q]
    <3> HIDE DEF pc, x
    <3> QED
      BY <2>1, <2>2 DEF TypeOK, ReadState
  <2> QED
    BY <1>2, <2>3 DEF ReadRow, SameFingerprint
<1>3. CASE ReadContent(r)
  BY <1>3 DEF ReadContent, TypeOK, ReadState, ReadPc
<1>4. CASE CountAccess(r)
  BY <1>4 DEF CountAccess, TypeOK, ReadState, ReadPc
<1>5. CASE ReadFails(r)
  BY <1>5 DEF ReadFails, TypeOK, ReadState, ReadPc
<1> QED
  BY <1>1, <1>2, <1>3, <1>4, <1>5 DEF ReadStep

-----------------------------------------------------------------------------
(* The invariant, step by step.                                            *)

LEMMA InitStore == Init => StoreInv
<1> SUFFICES ASSUME Init PROVE StoreInv
  OBVIOUS
<1>1. NoWrite \in WriteState /\ NoRead \in ReadState
  BY NoRowType DEF NoWrite, NoRead, WriteState, ReadState, WritePc, ReadPc, Mutation
<1>2. TypeOK
  BY <1>1, NoRowType DEF Init, TypeOK
<1>3. /\ ~Exists
      /\ \A w \in Writer : write[w].pc = "idle"
      /\ \A r \in Reader : read[r].pc = "idle"
  BY DEF Init, Exists, NoRow, NoWrite, NoRead
<1> QED
  BY <1>2, <1>3 DEF StoreInv, CreatedOnce, ContentGiven, Snapshots, Undecided, Whole,
     Fingerprints, ReadMatchesMetadata, Storing

\* A call that leaves the row and the object alone: it reads, decides to do
\* nothing, is refused, or fails.
LEMMA QuietStep ==
  ASSUME StoreInv, NEW w \in Writer,
         row' = row, blob' = blob, read' = read, torn' = (torn \/ Storing(w)),
         write' \in [Writer -> WriteState],
         \A v \in Writer : v # w => write'[v] = write[v],
         write[w].pc # "idle" \/ Exists,
         write'[w].pc \in {"read", "storing", "commit", "noop", "conflict", "failed"},
         write'[w].pc \in {"read", "storing", "commit", "noop", "conflict"} => Exists,
         write'[w].pc \in {"storing", "commit"} => ~Storing(w)',
         write'[w].pc = "storing" => write'[w].mutation = "UPDATE" /\ write'[w].text \in Text,
         write'[w].pc = "read" =>
           write'[w].snap = row /\ ~row.deleted
             /\ write'[w].expect \in {AnyVersion, row.version},
         write'[w].pc \in {"storing", "commit"} => write[w].pc = "read" /\ SameArguments(w)
  PROVE  StoreInv'
<1> USE DEF StoreInv
<1>1. TypeOK'
  BY DEF TypeOK, Storing
<1>2. CreatedOnce'
  BY DEF CreatedOnce, Exists, Stored
<1>3. ContentGiven'
  BY DEF ContentGiven, Storing
<1>4. Snapshots'
  <2> SUFFICES ASSUME NEW v \in Writer, write'[v].pc \in Undecided
               PROVE  LET s == write'[v].snap IN
                        /\ write'[v].expect \in {AnyVersion, s.version}
                        /\ ~s.deleted
                        /\ s.version <= row.version
                        /\ s.version = row.version /\ ~row.deleted => Unchanged(s)
    BY DEF Snapshots, Unchanged
  <2>1. CASE v # w
    BY <2>1 DEF Snapshots
  <2>2. CASE v = w /\ write'[w].pc = "read"
    BY <2>2 DEF TypeOK, Row, Unchanged
  <2>3. CASE v = w /\ write'[w].pc \in {"storing", "commit"}
    BY <2>3 DEF Snapshots, Undecided, SameArguments
  <2> QED
    BY <2>1, <2>2, <2>3 DEF Undecided
<1>5. \A v \in Writer : Storing(v)' => Storing(v) /\ v # w /\ Stored(v)' = Stored(v)
  BY DEF Storing, Stored
<1>6. Whole'
  <2> SUFFICES ASSUME ~torn'
               PROVE  /\ \A u, v \in Writer : Storing(u)' /\ Storing(v)' => u = v
                      /\ \A v \in Writer : Storing(v)' => blob = Stored(v)'
                      /\ Exists /\ (\A v \in Writer : ~Storing(v)') => blob = row.hash
    BY DEF Whole, Exists
  <2>1. ~torn /\ ~Storing(w)
    BY DEF TypeOK
  <2>2. \A v \in Writer : Storing(v) => Storing(v)'
    BY <2>1 DEF Storing
  <2> QED
    BY <1>5, <2>1, <2>2 DEF Whole
<1>7. Fingerprints'
  BY <1>5 DEF Fingerprints, TypeOK
<1>8. ReadMatchesMetadata'
  BY DEF ReadMatchesMetadata, TypeOK
<1> QED
  BY <1>1, <1>2, <1>3, <1>4, <1>6, <1>7, <1>8

LEMMA NextQuiet ==
  ASSUME StoreInv, NEW w \in Writer,
         UpdateRead(w) \/ UpdateProbe(w) \/ UpdateNoop(w) \/ UpdateConflict(w) \/ Fail(w)
  PROVE  StoreInv'
<1>0. TypeOK /\ (Exists \/ write[w].pc \in {"idle", "creating", "failed"})
  BY DEF StoreInv, CreatedOnce
<1>1. CASE UpdateRead(w)
  <2>1. Exists /\ write[w].pc = "idle" /\ row' = row /\ blob' = blob /\ read' = read /\ torn' = torn
    BY <1>1 DEF UpdateRead
  <2>2. CASE Moved(w, "failed")
    BY <1>0, <2>1, <2>2, PcNames, MovedEffect, QuietStep DEF Storing, TypeOK
  <2>3. ASSUME NEW t \in Text \cup {Keep}, NEW m \in Meta \cup {Keep},
               NEW v \in {AnyVersion, row.version}, ~row.deleted,
               write' = [write EXCEPT ![w] =
                 [pc |-> "read", text |-> t, meta |-> m, expect |-> v,
                  snap |-> row, mutation |-> "NOOP"]]
        PROVE  StoreInv'
    <3> DEFINE new == [pc |-> "read", text |-> t, meta |-> m, expect |-> v,
                       snap |-> row, mutation |-> "NOOP"]
    <3>1. /\ new \in WriteState /\ new.pc = "read" /\ new.snap = row /\ new.expect = v
      BY <1>0 DEF TypeOK, WriteState, WritePc, Mutation, Row
    <3> HIDE DEF new
    <3>2. /\ write' \in [Writer -> WriteState] /\ write'[w] = new
          /\ \A u \in Writer : u # w => write'[u] = write[u]
      BY <1>0, <2>3, <3>1 DEF TypeOK, new
    <3> QED
      BY <1>0, <2>1, <2>3, <3>1, <3>2, QuietStep DEF Storing, TypeOK
  <2> QED
    BY <1>1, <2>2, <2>3 DEF UpdateRead
<1>2. CASE UpdateProbe(w)
  <2>1. row' = row /\ blob' = blob /\ read' = read /\ torn' = torn
    BY <1>2 DEF UpdateProbe
  <2>2. /\ write' \in [Writer -> WriteState]
        /\ write[w].pc = "read"
        /\ \/ write'[w].pc = "storing" /\ write'[w].mutation = "UPDATE" /\ write[w].text \in Text
           \/ write'[w].pc = "commit" /\ write'[w].mutation # "UPDATE"
        /\ SameArguments(w)
        /\ \A v \in Writer : v # w => write'[v] = write[v]
    BY <1>0, <1>2, ProbeEffect
  <2>3. ~Storing(w)' /\ write'[w].text = write[w].text /\ ~Storing(w)
    BY <2>2 DEF Storing, SameArguments
  <2> QED
    BY <1>0, <2>1, <2>2, <2>3, QuietStep DEF TypeOK
<1>3. CASE UpdateNoop(w)
  <2>1. write[w].pc = "commit" /\ ~Storing(w) /\ Moved(w, "noop")
        /\ row' = row /\ blob' = blob /\ read' = read /\ torn' = torn
    BY <1>3 DEF UpdateNoop, Storing
  <2> QED
    BY <1>0, <2>1, PcNames, MovedEffect, QuietStep DEF TypeOK
<1>4. CASE UpdateConflict(w)
  <2>1. write[w].pc = "commit" /\ Moved(w, "conflict")
        /\ row' = row /\ blob' = blob /\ read' = read /\ torn' = (torn \/ Storing(w))
    BY <1>4 DEF UpdateConflict
  <2> QED
    BY <1>0, <2>1, PcNames, MovedEffect, QuietStep
<1>5. CASE Fail(w)
  <2>1. write[w].pc # "idle" /\ Moved(w, "failed")
        /\ row' = row /\ blob' = blob /\ read' = read /\ torn' = (torn \/ Storing(w))
    BY <1>5 DEF Fail
  <2> QED
    BY <1>0, <2>1, PcNames, MovedEffect, QuietStep
<1> QED
  BY <1>1, <1>2, <1>3, <1>4, <1>5

LEMMA NextCreate ==
  ASSUME StoreInv, NEW w \in Writer, CreateStore(w) \/ CreateCommit(w)
  PROVE  StoreInv'
<1> USE DEF StoreInv
<1>1. CASE CreateStore(w)
  <2>1. PICK t \in Text, m \in Meta :
          /\ blob' = [text |-> t, by |-> w]
          /\ write' = [write EXCEPT ![w] =
               [NoWrite EXCEPT !.pc = "creating", !.text = t, !.meta = m, !.mutation = "ADD"]]
    BY <1>1 DEF CreateStore
  <2> DEFINE new == [NoWrite EXCEPT !.pc = "creating", !.text = t, !.meta = m, !.mutation = "ADD"]
  <2>2. new \in WriteState /\ new.pc = "creating" /\ new.text = t /\ new.mutation = "ADD"
    BY NoRowType DEF NoWrite, WriteState, WritePc, Mutation
  <2> HIDE DEF new
  <2>3. /\ write' \in [Writer -> WriteState] /\ write'[w] = new
        /\ \A v \in Writer : v # w => write'[v] = write[v]
    BY <2>1, <2>2 DEF TypeOK, new
  <2>4. /\ \A v \in Writer : write[v].pc = "idle"
        /\ row' = row /\ read' = read /\ torn' = torn
    BY <1>1 DEF CreateStore
  <2>5. ~Exists /\ \A r \in Reader : read[r].pc = "idle"
    BY <2>4 DEF CreatedOnce
  <2>6. TypeOK'
    BY <2>1, <2>3, <2>4 DEF TypeOK, Cipher
  <2>7. CreatedOnce'
    BY <2>1, <2>2, <2>3, <2>4, <2>5 DEF CreatedOnce, Exists, Stored
  <2>8. \A v \in Writer : write'[v].pc \in {"idle", "creating"}
    BY <2>2, <2>3, <2>4
  <2>9. ContentGiven' /\ Snapshots' /\ Whole'
    BY <2>4, <2>5, <2>8 DEF ContentGiven, Snapshots, Undecided, Whole, Storing, Exists
  <2>10. Fingerprints' /\ ReadMatchesMetadata'
    BY <2>4, <2>5 DEF Fingerprints, ReadMatchesMetadata
  <2> QED
    BY <2>6, <2>7, <2>9, <2>10
<1>2. CASE CreateCommit(w)
  <2>1. /\ write[w].pc = "creating" /\ Moved(w, "done")
        /\ blob' = blob /\ read' = read /\ torn' = torn
        /\ row' = [NoRow EXCEPT !.version = 1, !.stamp = 1, !.meta = write[w].meta,
                                !.hash = [text |-> write[w].text, by |-> w]]
    BY <1>2 DEF CreateCommit
  <2>2. /\ ~Exists /\ blob = Stored(w) /\ write[w].text \in Text
        /\ \A v \in Writer : v # w => write[v].pc = "idle"
        /\ \A r \in Reader : read[r].pc = "idle"
    BY <2>1 DEF CreatedOnce
  <2>3. /\ write' \in [Writer -> WriteState] /\ write'[w].pc = "done"
        /\ \A v \in Writer : v # w => write'[v] = write[v]
    BY <2>1, PcNames, MovedEffect
  <2>4. row' \in Row /\ row'.version = 1 /\ row'.hash = Stored(w)
    <3> DEFINE h == Stored(w)
               m == write[w].meta
    <3>1. h \in Cipher /\ m \in Meta \cup {Keep}
      BY <2>2 DEF Stored, Cipher, TypeOK, WriteState
    <3>2. row' = [NoRow EXCEPT !.version = 1, !.stamp = 1, !.meta = m, !.hash = h]
      BY <2>1 DEF Stored
    <3>3. row' \in Row /\ row'.version = 1 /\ row'.hash = h
      <4> HIDE DEF h, m
      <4> QED
        BY <3>1, <3>2 DEF NoRow, Row
    <3> QED
      BY <3>3
  <2>5. TypeOK'
    BY <2>1, <2>3, <2>4 DEF TypeOK
  <2>6. Exists' /\ \A v \in Writer : write'[v].pc \in {"done", "idle"}
    BY <2>2, <2>3, <2>4 DEF Exists
  <2>7. CreatedOnce' /\ ContentGiven' /\ Snapshots'
    BY <2>3, <2>6 DEF CreatedOnce, ContentGiven, Snapshots, Undecided
  <2>8. Whole'
    BY <2>1, <2>2, <2>4, <2>6 DEF Whole, Storing
  <2>9. Fingerprints' /\ ReadMatchesMetadata'
    BY <2>1, <2>2 DEF Fingerprints, ReadMatchesMetadata
  <2> QED
    BY <2>5, <2>7, <2>8, <2>9
<1> QED
  BY <1>1, <1>2

\* The object is written in place: whoever fetches it now is crossed.
LEMMA NextUpdateStore ==
  ASSUME StoreInv, NEW w \in Writer, UpdateStore(w)
  PROVE  StoreInv'
<1> USE DEF StoreInv
<1>1. /\ write[w].pc = "storing" /\ blob' = Stored(w) /\ Moved(w, "commit") /\ row' = row
      /\ torn' = (torn \/ \E v \in Writer : Storing(v))
      /\ read' = [r \in Reader |->
           [read[r] EXCEPT !.crossed = read[r].crossed \/ read[r].pc = "fetch"]]
  BY DEF UpdateStore
<1>2. /\ write' \in [Writer -> WriteState] /\ write'[w].pc = "commit"
      /\ \A v \in Writer :
           /\ v # w => write'[v] = write[v]
           /\ SameArguments(v) /\ write'[v].mutation = write[v].mutation
  BY <1>1, PcNames, MovedEffect
<1>3. write[w].mutation = "UPDATE" /\ write[w].text \in Text /\ Exists
  BY <1>1 DEF ContentGiven, CreatedOnce
<1>4. /\ read' \in [Reader -> ReadState]
      /\ \A r \in Reader :
           /\ read'[r].pc = read[r].pc /\ read'[r].seen = read[r].seen
           /\ read'[r].body = read[r].body
           /\ ~read'[r].crossed => ~read[r].crossed /\ read[r].pc # "fetch"
  <2> SUFFICES ASSUME NEW r \in Reader
               PROVE  /\ read'[r] \in ReadState
                      /\ read'[r].pc = read[r].pc /\ read'[r].seen = read[r].seen
                      /\ read'[r].body = read[r].body
                      /\ ~read'[r].crossed => ~read[r].crossed /\ read[r].pc # "fetch"
    BY <1>1
  <2> DEFINE x == read[r].crossed \/ read[r].pc = "fetch"
  <2>1. x \in BOOLEAN /\ read'[r] = [read[r] EXCEPT !.crossed = x]
    BY <1>1 DEF TypeOK, ReadState
  <2>2. /\ read'[r] \in ReadState
        /\ read'[r].pc = read[r].pc /\ read'[r].seen = read[r].seen
        /\ read'[r].body = read[r].body /\ read'[r].crossed = x
    <3> HIDE DEF x
    <3> QED
      BY <2>1 DEF TypeOK, ReadState
  <2> QED
    BY <2>2
<1>5. TypeOK'
  BY <1>1, <1>2, <1>3, <1>4 DEF TypeOK, Stored, Cipher
<1>6. CreatedOnce'
  BY <1>1, <1>2, <1>3, <1>4 DEF CreatedOnce, Exists
<1>7. ContentGiven' /\ Snapshots'
  BY <1>1, <1>2, <1>3 DEF ContentGiven, Snapshots, Undecided, SameArguments, Unchanged
<1>8. Whole'
  <2>1. ASSUME ~torn'
        PROVE  \A v \in Writer : Storing(v)' <=> v = w
    BY <1>1, <1>2, <1>3, <2>1 DEF Storing
  <2>2. blob' = Stored(w)'
    BY <1>1, <1>2 DEF Stored, SameArguments
  <2> QED
    BY <2>1, <2>2 DEF Whole
<1>9. Fingerprints'
  BY <1>1, <1>4 DEF Fingerprints
<1>10. ReadMatchesMetadata'
  BY <1>1, <1>4 DEF ReadMatchesMetadata
<1> QED
  BY <1>5, <1>6, <1>7, <1>8, <1>9, <1>10

LEMMA NextUpdateCommit ==
  ASSUME StoreInv, NEW w \in Writer, UpdateCommit(w)
  PROVE  StoreInv'
<1> USE DEF StoreInv
<1>1. /\ write[w].pc = "commit" /\ Moved(w, "done") /\ row' = Changed(w)
      /\ blob' = blob /\ read' = read /\ torn' = torn
  BY DEF UpdateCommit
<1>2. /\ write' \in [Writer -> WriteState] /\ write'[w].pc = "done"
      /\ \A v \in Writer :
           /\ v # w => write'[v] = write[v]
           /\ SameArguments(v) /\ write'[v].mutation = write[v].mutation
  BY <1>1, PcNames, MovedEffect
<1>3. /\ row' \in Row
      /\ row'.version = row.version + 1 /\ row'.stamp = row.stamp + 1
      /\ row'.deleted = row.deleted
      /\ row'.hash = IF write[w].mutation = "UPDATE" THEN Stored(w) ELSE row.hash
  BY <1>1, ChangedEffect
<1>4. Exists /\ Exists'
  BY <1>1, <1>3 DEF CreatedOnce, Exists, TypeOK, Row
<1>5. TypeOK'
  BY <1>1, <1>2, <1>3 DEF TypeOK
<1>6. CreatedOnce' /\ ContentGiven'
  BY <1>1, <1>2, <1>4 DEF CreatedOnce, ContentGiven
<1>7. Snapshots'
  <2>1. ASSUME NEW v \in Writer, write'[v].pc \in Undecided
        PROVE  /\ write'[v].expect \in {AnyVersion, write'[v].snap.version}
               /\ ~write'[v].snap.deleted
               /\ write'[v].snap.version <= row'.version
               /\ write'[v].snap.version # row'.version
    <3>1. v # w /\ write'[v] = write[v] /\ write[v].snap.version \in Nat /\ row.version \in Nat
      BY <1>2, <2>1 DEF Undecided, TypeOK, WriteState, Row
    <3> QED
      BY <1>3, <2>1, <3>1 DEF Snapshots
  <2> QED
    BY <2>1 DEF Snapshots
<1>8. Whole'
  <2> SUFFICES ASSUME ~torn
               PROVE  /\ \A u, v \in Writer : Storing(u)' /\ Storing(v)' => u = v
                      /\ \A v \in Writer : Storing(v)' => blob = Stored(v)'
                      /\ (\A v \in Writer : ~Storing(v)') => blob = row'.hash
    BY <1>1 DEF Whole
  <2>1. \A v \in Writer : Storing(v)' <=> Storing(v) /\ v # w
    BY <1>2 DEF Storing
  <2>2. \A v \in Writer : Stored(v)' = Stored(v)
    BY <1>2 DEF Stored, SameArguments
  <2>3. CASE Storing(w)
    <3>1. row'.hash = Stored(w) /\ blob = Stored(w)
      BY <1>3, <2>3 DEF Storing, Whole
    <3> QED
      BY <2>1, <2>2, <3>1 DEF Whole
  <2>4. CASE ~Storing(w)
    <3>1. row'.hash = row.hash
      BY <1>1, <1>3, <2>4 DEF Storing
    <3> QED
      BY <1>4, <2>1, <2>2, <2>4, <3>1 DEF Whole
  <2> QED
    BY <2>3, <2>4
<1>9. Fingerprints'
  <2>1. \A v \in Writer : Storing(v)' => Storing(v)
    BY <1>2 DEF Storing
  <2>2. row.stamp \in Nat /\ \A r \in Reader : read[r].seen.stamp \in Nat
    BY DEF TypeOK, ReadState, Row
  <2> QED
    BY <1>1, <1>3, <2>1, <2>2 DEF Fingerprints
<1>10. ReadMatchesMetadata'
  BY <1>1 DEF ReadMatchesMetadata
<1> QED
  BY <1>5, <1>6, <1>7, <1>8, <1>9, <1>10

\* A revocation or the count of an access: the row moves its stamp.
LEMMA NextRow ==
  ASSUME StoreInv, NEW d \in BOOLEAN, row.deleted => d, Exists,
         row' = [row EXCEPT !.deleted = d, !.stamp = row.stamp + 1],
         blob' = blob, write' = write, torn' = torn
  PROVE  /\ row' \in Row /\ Exists'
         /\ CreatedOnce' /\ ContentGiven' /\ Snapshots' /\ Whole'
         /\ \A r \in Reader : read'[r] = read[r] /\ read[r].pc = "metadata" =>
              read[r].seen.stamp < row'.stamp
<1> USE DEF StoreInv
<1>1. /\ row' \in Row /\ row'.stamp = row.stamp + 1
      /\ row'.version = row.version /\ row'.previous = row.previous
      /\ row'.hash = row.hash /\ row'.meta = row.meta /\ row'.deleted = d
  BY RowTouched
<1>2. Exists'
  BY <1>1 DEF Exists
<1>3. CreatedOnce' /\ ContentGiven' /\ Whole'
  BY <1>1, <1>2 DEF CreatedOnce, ContentGiven, Whole, Storing, Stored
<1>4. Snapshots'
  <2> SUFFICES ASSUME NEW v \in Writer, write[v].pc \in Undecided,
                      write[v].snap.version = row.version, ~row.deleted, ~d
               PROVE  [row' EXCEPT !.stamp = 0] = [write[v].snap EXCEPT !.stamp = 0]
    BY <1>1 DEF Snapshots, Unchanged
  <2>1. Unchanged(write[v].snap)
    BY DEF Snapshots
  <2>2. row \in Row /\ write[v].snap \in Row
    BY DEF TypeOK, WriteState
  <2>3. LET s == write[v].snap IN
          /\ row.version = s.version /\ row.previous = s.previous /\ row.hash = s.hash
          /\ row.meta = s.meta /\ row.deleted = s.deleted
    BY <2>1, <2>2, SameUpToStamp DEF Unchanged
  <2>4. row'.deleted = row.deleted
    <3>1. d = FALSE /\ row.deleted = FALSE
      BY <2>2 DEF Row
    <3> QED
      BY <1>1, <3>1
  <2> DEFINE s == write[v].snap
  <2>5. /\ row' \in Row /\ s \in Row
        /\ row'.version = s.version /\ row'.previous = s.previous /\ row'.hash = s.hash
        /\ row'.meta = s.meta /\ row'.deleted = s.deleted
    BY <1>1, <2>2, <2>3, <2>4
  <2>6. [row' EXCEPT !.stamp = 0] = [s EXCEPT !.stamp = 0]
    <3> HIDE DEF s
    <3> QED
      BY <2>5, SameUpToStamp
  <2> QED
    BY <2>6
<1>5. \A r \in Reader : read[r].pc = "metadata" => read[r].seen.stamp < row'.stamp
  BY <1>1 DEF Fingerprints, TypeOK, ReadState, Row
<1> QED
  BY <1>1, <1>2, <1>3, <1>4, <1>5

LEMMA NextRevoke == StoreInv /\ Revoke => StoreInv'
<1> SUFFICES ASSUME StoreInv, Revoke PROVE StoreInv'
  OBVIOUS
<1> USE DEF StoreInv
<1>1. /\ Exists
      /\ row' = [row EXCEPT !.deleted = TRUE, !.stamp = row.stamp + 1]
      /\ blob' = blob /\ write' = write /\ torn' = torn /\ read' = read
  BY DEF Revoke
<1>2. /\ row' \in Row /\ Exists'
      /\ CreatedOnce' /\ ContentGiven' /\ Snapshots' /\ Whole'
      /\ \A r \in Reader : read'[r] = read[r] /\ read[r].pc = "metadata" =>
           read[r].seen.stamp < row'.stamp
  BY <1>1, NextRow
<1>3. TypeOK'
  BY <1>1, <1>2 DEF TypeOK
<1>4. row'.stamp \in Nat /\ \A r \in Reader : read[r].seen.stamp \in Nat
  BY <1>2 DEF TypeOK, ReadState, Row
<1>5. Fingerprints' /\ ReadMatchesMetadata'
  BY <1>1, <1>2, <1>4 DEF Fingerprints, ReadMatchesMetadata, Storing
<1> QED
  BY <1>2, <1>3, <1>5

LEMMA NextRead ==
  ASSUME StoreInv, NEW r \in Reader, ReadStep(r)
  PROVE  StoreInv'
<1> USE DEF StoreInv
<1>0. /\ Exists /\ blob' = blob /\ write' = write /\ torn' = torn
  BY DEF ReadStep, ReadMetadata, ReadRow, ReadContent, CountAccess, ReadFails, CreatedOnce
<1>1. /\ row' = row
      \/ /\ CountAccess(r)
         /\ row' = [row EXCEPT !.deleted = row.deleted, !.stamp = row.stamp + 1]
  BY DEF ReadStep, ReadMetadata, ReadRow, ReadContent, CountAccess, ReadFails, TypeOK, Row
<1>2. /\ read' \in [Reader -> ReadState]
      /\ \A q \in Reader : q # r => read'[q] = read[q]
      /\ read'[r].pc = "metadata" => ReadMetadata(r) /\ read'[r].seen = row
      /\ read'[r].pc = "fetch" =>
           /\ ReadRow(r) /\ ~row.deleted /\ row.stamp = read[r].seen.stamp
           /\ read'[r].seen = read[r].seen
           /\ read'[r].crossed = \E w \in Writer : Storing(w)
      /\ read'[r].pc \in {"served", "counted"} =>
           /\ read'[r].seen = read[r].seen /\ read'[r].crossed = read[r].crossed
           /\ \/ read[r].pc = "fetch" /\ read'[r].body = blob
              \/ read[r].pc = "served" /\ read'[r].body = read[r].body
  BY ReadEffect
<1>3. /\ row' \in Row /\ Exists'
      /\ CreatedOnce' /\ ContentGiven' /\ Snapshots' /\ Whole'
  <2>1. CASE row' = row
    BY <1>0, <2>1 DEF TypeOK, CreatedOnce, Exists, Stored, ContentGiven, Snapshots, Unchanged,
       Whole, Storing
  <2>2. CASE row' = [row EXCEPT !.deleted = row.deleted, !.stamp = row.stamp + 1]
    <3>1. row.deleted \in BOOLEAN
      BY DEF TypeOK, Row
    <3> QED
      BY <1>0, <2>2, <3>1, NextRow
  <2> QED
    BY <1>1, <2>1, <2>2
<1>4. TypeOK'
  BY <1>0, <1>2, <1>3 DEF TypeOK
<1>5. row'.stamp >= row.stamp /\ row.stamp \in Nat
  <2>1. row.stamp \in Nat /\ row.deleted \in BOOLEAN
    BY DEF TypeOK, Row
  <2>2. row' = row \/ row'.stamp = row.stamp + 1
    BY <1>1, <2>1, RowTouched
  <2> QED
    BY <2>1, <2>2
<1>6. Fingerprints'
  <2> SUFFICES ASSUME NEW q \in Reader
               PROVE  /\ read'[q].pc = "metadata" =>
                           /\ read'[q].seen.stamp <= row'.stamp
                           /\ read'[q].seen.stamp = row'.stamp => read'[q].seen = row'
                      /\ read'[q].pc = "fetch" /\ ~read'[q].crossed =>
                           /\ \A w \in Writer : ~Storing(w)
                           /\ ~torn => blob = read'[q].seen.hash
    BY <1>0 DEF Fingerprints, Storing
  <2>1. CASE q # r
    <3>1. read'[q] = read[q] /\ read[q].seen.stamp \in Nat
      BY <1>2, <2>1 DEF TypeOK, ReadState, Row
    <3>2. CASE row' = row
      BY <3>1, <3>2 DEF Fingerprints
    <3>3. CASE row' = [row EXCEPT !.deleted = row.deleted, !.stamp = row.stamp + 1]
      <4>1. row'.stamp = row.stamp + 1
        BY <3>3 DEF TypeOK, Row
      <4> QED
        BY <1>5, <3>1, <4>1 DEF Fingerprints
    <3> QED
      BY <1>1, <3>2, <3>3
  <2>2. CASE q = r /\ read'[r].pc = "metadata"
    <3>1. row' = row /\ read'[r].seen = row
      BY <1>2, <2>2 DEF ReadMetadata
    <3> QED
      BY <1>5, <2>2, <3>1
  <2>3. CASE q = r /\ read'[r].pc = "fetch"
    <3>1. read[r].pc = "metadata" /\ row.stamp = read[r].seen.stamp /\ read'[r].seen = read[r].seen
      BY <1>2, <2>3 DEF ReadRow
    <3>2. read[r].seen = row
      BY <3>1 DEF Fingerprints
    <3>3. ~read'[r].crossed => \A w \in Writer : ~Storing(w)
      BY <1>2, <2>3
    <3>4. ~read'[r].crossed /\ ~torn => blob = row.hash
      BY <1>0, <3>3 DEF Whole
    <3> QED
      BY <2>3, <3>1, <3>2, <3>3, <3>4
  <2> QED
    BY <2>1, <2>2, <2>3
<1>7. ReadMatchesMetadata'
  <2> SUFFICES ASSUME NEW q \in Reader, read'[q].pc \in {"served", "counted"},
                      ~read'[q].crossed, ~torn
               PROVE  read'[q].body = read'[q].seen.hash
    BY <1>0 DEF ReadMatchesMetadata
  <2>1. CASE q # r
    BY <1>2, <2>1 DEF ReadMatchesMetadata
  <2>2. CASE q = r
    BY <1>2, <2>2 DEF ReadMatchesMetadata, Fingerprints
  <2> QED
    BY <2>1, <2>2
<1> QED
  BY <1>3, <1>4, <1>6, <1>7

LEMMA NextStore ==
  ASSUME StoreInv, [Next]_vars
  PROVE  StoreInv'
<1>1. CASE UNCHANGED vars
  BY <1>1 DEF vars, StoreInv, TypeOK, CreatedOnce, ContentGiven, Snapshots, Unchanged, Whole,
     Fingerprints, ReadMatchesMetadata, Exists, Storing, Stored
<1> QED
  BY <1>1, NextQuiet, NextCreate, NextUpdateStore, NextUpdateCommit, NextRevoke, NextRead
  DEF Next, WriteStep

LEMMA StoreInvariant == Spec => []StoreInv
<1>1. StoreInv /\ [Next]_vars => StoreInv'
  BY NextStore
<1> QED
  BY <1>1, InitStore, PTL DEF Spec

-----------------------------------------------------------------------------
(* The properties.                                                         *)

\* Every variable keeps its type: what is in the content store was given by some
\* call, and so was the hash in the row.
THEOREM StoreTypeCorrect == Spec => []TypeOK
<1>1. StoreInv => TypeOK
  BY DEF StoreInv
<1> QED
  BY <1>1, StoreInvariant, PTL

\* The stored content is the row's, or that of the one update that is between
\* its two writes, unless an update was cut off there or crossed another.
THEOREM StoreIntact == Spec => []Intact
<1>1. StoreInv => Intact
  BY DEF StoreInv, Whole, Intact
<1> QED
  BY <1>1, StoreInvariant, PTL

\* A read that nobody crossed serves the content its metadata described.
THEOREM ReadsMatch == Spec => []ReadMatchesMetadata
<1>1. StoreInv => ReadMatchesMetadata
  BY DEF StoreInv
<1> QED
  BY <1>1, StoreInvariant, PTL

\* An update with an expected version commits over the very row it decided from,
\* and never over a revoked one.
THEOREM CommitGuarded == Spec => GuardedCommit
<1>1. ASSUME StoreInv, [Next]_vars, NEW w \in Writer, write[w].pc = "commit",
             write[w].expect # AnyVersion, write'[w].pc = "done"
      PROVE  /\ [row EXCEPT !.stamp = 0] = [write[w].snap EXCEPT !.stamp = 0]
             /\ ~row.deleted
  <2>1. UpdateCommit(w)
    <3>1. ASSUME NEW v \in Writer, WriteStep(v), v # w
          PROVE  write'[w] = write[w]
      BY <1>1, <3>1 DEF WriteStep, CreateStore, CreateCommit, UpdateRead, UpdateProbe,
         UpdateStore, UpdateNoop, UpdateCommit, UpdateConflict, Fail, Moved, StoreInv, TypeOK
    <3>2. WriteStep(w)
      BY <1>1, <3>1 DEF Next, vars, ReadStep, ReadMetadata, ReadRow, ReadContent, CountAccess,
         ReadFails, Revoke
    <3>3. ~Moved(w, "noop") /\ ~Moved(w, "failed") /\ ~Moved(w, "conflict")
      BY <1>1 DEF Moved, StoreInv, TypeOK, WriteState
    <3> QED
      BY <1>1, <3>2, <3>3 DEF WriteStep, CreateStore, CreateCommit, UpdateRead, UpdateProbe,
         UpdateStore, UpdateNoop, UpdateConflict, Fail
  <2>2. row.version = write[w].expect /\ ~row.deleted
    BY <1>1, <2>1 DEF UpdateCommit, Matches
  <2>3. write[w].snap.version = row.version
    BY <1>1, <2>2 DEF StoreInv, Snapshots, Undecided
  <2> QED
    BY <1>1, <2>2, <2>3 DEF StoreInv, Snapshots, Undecided, Unchanged
<1>2. StoreInv /\ [Next]_vars
        => [\A w \in Writer :
              (write[w].pc = "commit" /\ write[w].expect # AnyVersion /\ write'[w].pc = "done") =>
                /\ [row EXCEPT !.stamp = 0] = [write[w].snap EXCEPT !.stamp = 0]
                /\ ~row.deleted]_vars
  BY <1>1
<1> QED
  BY <1>2, StoreInvariant, PTL DEF Spec, GuardedCommit
=============================================================================
