--------------------------- MODULE CapsuleStore ---------------------------
(***************************************************************************)
(* One capsule and its content: the COSMP WRITE service                    *)
(* (cosmp/write.service.ts), the two-step READ (cosmp/read.service.ts) and *)
(* the owner's revocation of the capsule (capsule-management.service.ts).  *)
(*                                                                         *)
(* A capsule is a row of memory_capsules and an object of the content      *)
(* store; the two are written by separate calls, and an update writes the  *)
(* object in place before the transaction that may refuse it.  Who may     *)
(* call is CapsuleAccess; here a gate may refuse any call (Fail).          *)
(*                                                                         *)
(* Encryption takes a fresh IV, so every ciphertext is different: it is a  *)
(* text and the call that encrypted it.  content_hash is the SHA-256 of    *)
(* the ciphertext, and stands for it.  Every Prisma update of the row      *)
(* moves last_updated_at ("stamp"), the field of the metadata fingerprint  *)
(* that tells two fingerprints apart.                                      *)
(***************************************************************************)
EXTENDS Naturals, FiniteSets

CONSTANTS
  Writer,   \* calls of createCapsule and updateCapsule
  Reader,   \* clients, each with one two-step read
  Text,     \* plaintexts
  Meta,     \* values of the metadata a caller may change
  Keep,     \* a field the caller does not supply
  AnyVersion \* expected_version omitted

ASSUME CallAssumption == IsFiniteSet(Writer) /\ IsFiniteSet(Reader)
ASSUME KeepAssumption == Keep \notin Text \cup Meta /\ AnyVersion \notin Nat

VARIABLES
  row,     \* the row of memory_capsules
  blob,    \* the object at the row's storage_location
  write,   \* the calls of the writers
  read,    \* the reads
  torn     \* history: an update that stored its content was cut off or crossed

vars == <<row, blob, write, read, torn>>

Cipher == [text: Text, by: Writer]

NoCipher == [text |-> Keep, by |-> Keep]

Row == [version: Nat, previous: Nat, hash: Cipher \cup {NoCipher}, meta: Meta \cup {Keep},
        stamp: Nat, deleted: BOOLEAN]

NoRow == [version |-> 0, previous |-> 0, hash |-> NoCipher, meta |-> Keep,
          stamp |-> 0, deleted |-> FALSE]

WritePc == {"idle", "creating", "read", "storing", "commit",
            "done", "noop", "conflict", "failed"}

ReadPc == {"idle", "metadata", "fetch", "served", "counted", "refused"}

Mutation == {"ADD", "UPDATE", "MERGE", "NOOP"}

NoWrite == [pc |-> "idle", text |-> Keep, meta |-> Keep, expect |-> AnyVersion,
            snap |-> NoRow, mutation |-> "NOOP"]

NoRead == [pc |-> "idle", seen |-> NoRow, body |-> NoCipher, crossed |-> FALSE]

WriteState == [pc: WritePc, text: Text \cup {Keep}, meta: Meta \cup {Keep},
               expect: Nat \cup {AnyVersion}, snap: Row, mutation: Mutation]

ReadState == [pc: ReadPc, seen: Row, body: Cipher \cup {NoCipher}, crossed: BOOLEAN]

TypeOK ==
  /\ row \in Row
  /\ blob \in Cipher \cup {NoCipher}
  /\ write \in [Writer -> WriteState]
  /\ read \in [Reader -> ReadState]
  /\ torn \in BOOLEAN

Init ==
  /\ row = NoRow
  /\ blob = NoCipher
  /\ write = [w \in Writer |-> NoWrite]
  /\ read = [r \in Reader |-> NoRead]
  /\ torn = FALSE

Exists == row.version > 0

Moved(w, pc) == write' = [write EXCEPT ![w].pc = pc]

-----------------------------------------------------------------------------
(***************************************************************************)
(* createCapsule: the content is stored under a location made from a new   *)
(* id, then the row is created.                                            *)
(***************************************************************************)

CreateStore(w) ==
  /\ \A v \in Writer : write[v].pc = "idle"
  /\ \E t \in Text, m \in Meta :
       /\ blob' = [text |-> t, by |-> w]
       /\ write' = [write EXCEPT ![w] =
            [NoWrite EXCEPT !.pc = "creating", !.text = t, !.meta = m, !.mutation = "ADD"]]
  /\ UNCHANGED <<row, read, torn>>

CreateCommit(w) ==
  /\ write[w].pc = "creating"
  /\ row' = [NoRow EXCEPT !.version = 1, !.stamp = 1, !.meta = write[w].meta,
                          !.hash = [text |-> write[w].text, by |-> w]]
  /\ Moved(w, "done")
  /\ UNCHANGED <<blob, read, torn>>

-----------------------------------------------------------------------------
(***************************************************************************)
(* updateCapsule.                                                          *)
(***************************************************************************)

\* The row is fetched, and an expected version other than its own is refused
\* before anything else happens.
UpdateRead(w) ==
  /\ Exists
  /\ write[w].pc = "idle"
  /\ \E t \in Text \cup {Keep}, m \in Meta \cup {Keep}, v \in 1..row.version \cup {AnyVersion} :
       \/ /\ ~row.deleted
          /\ v \in {AnyVersion, row.version}
          /\ write' = [write EXCEPT ![w] =
               [pc |-> "read", text |-> t, meta |-> m, expect |-> v,
                snap |-> row, mutation |-> "NOOP"]]
       \/ /\ row.deleted \/ v \notin {AnyVersion, row.version}
          /\ Moved(w, "failed")
  /\ UNCHANGED <<row, blob, read, torn>>

\* Mutant: content that was not supplied counts as changed.
DiscriminateAlwaysContent(c, plain) == IF c.text # plain THEN "UPDATE" ELSE "NOOP"

\* discriminateMutation: what the call changes, given the plaintext it found
\* (Keep if it could not be read or decrypted).
Discriminate(c, plain) ==
  CASE c.text # Keep /\ c.text # plain                -> "UPDATE"
    [] c.meta # Keep /\ c.meta # c.snap.meta
         /\ (c.text = Keep \/ c.text = plain)         -> "MERGE"
    [] OTHER                                          -> "NOOP"

\* The stored content is read only to compare it with the one supplied; when it
\* cannot be read, the call is an update.
UpdateProbe(w) ==
  /\ write[w].pc = "read"
  /\ \E plain \in {blob.text, Keep} :
       LET kind == Discriminate(write[w], plain)
       IN  write' = [write EXCEPT ![w].mutation = kind,
                                  ![w].pc = IF kind = "UPDATE" THEN "storing" ELSE "commit"]
  /\ UNCHANGED <<row, blob, read, torn>>

\* The call has stored its content and its transaction has not ended.
Storing(w) == write[w].pc = "commit" /\ write[w].mutation = "UPDATE"

Stored(w) == [text |-> write[w].text, by |-> w]

\* The new content replaces the old one in place.  A reader between the two
\* fetches of readContent is "crossed".
UpdateStore(w) ==
  /\ write[w].pc = "storing"
  /\ blob' = Stored(w)
  /\ Moved(w, "commit")
  /\ torn' = (torn \/ \E v \in Writer : Storing(v))
  /\ read' = [r \in Reader |->
       [read[r] EXCEPT !.crossed = read[r].crossed \/ read[r].pc = "fetch"]]
  /\ UNCHANGED row

\* Mutant: the new ciphertext is stored but its hash is not.
ChangedKeepsHash(w) ==
  [row EXCEPT !.version = row.version + 1, !.previous = write[w].snap.version,
              !.stamp = row.stamp + 1,
              !.meta = IF write[w].meta = Keep THEN row.meta ELSE write[w].meta]

\* What an update or a merge writes to the row: only the fields supplied.
Changed(w) ==
  [row EXCEPT !.version = row.version + 1, !.previous = write[w].snap.version,
              !.stamp = row.stamp + 1,
              !.meta = IF write[w].meta = Keep THEN row.meta ELSE write[w].meta,
              !.hash = IF write[w].mutation = "UPDATE" THEN Stored(w) ELSE row.hash]

\* Mutant: the compare-and-set forgets the version.
MatchesAnyVersion(w) == write[w].expect # AnyVersion => ~row.deleted

\* The WHERE of the update: with an expected version, a compare-and-set on the
\* version of a row that is not deleted; without one, the capsule_id alone.
Matches(w) == write[w].expect # AnyVersion => row.version = write[w].expect /\ ~row.deleted

UpdateNoop(w) ==
  /\ write[w].pc = "commit"
  /\ write[w].mutation = "NOOP"
  /\ Moved(w, "noop")
  /\ UNCHANGED <<row, blob, read, torn>>

UpdateCommit(w) ==
  /\ write[w].pc = "commit"
  /\ write[w].mutation # "NOOP"
  /\ Matches(w)
  /\ row' = Changed(w)
  /\ Moved(w, "done")
  /\ UNCHANGED <<blob, read, torn>>

\* VersionConflictError: the transaction is rolled back; the content store is
\* not.
UpdateConflict(w) ==
  /\ write[w].pc = "commit"
  /\ write[w].mutation # "NOOP"
  /\ ~Matches(w)
  /\ Moved(w, "conflict")
  /\ torn' = (torn \/ Storing(w))
  /\ UNCHANGED <<row, blob, read>>

\* A gate refuses the call, a dependency throws, or the process dies.
Fail(w) ==
  /\ write[w].pc \in {"creating", "read", "storing", "commit"}
  /\ Moved(w, "failed")
  /\ torn' = (torn \/ Storing(w))
  /\ UNCHANGED <<row, blob, read>>

-----------------------------------------------------------------------------
(***************************************************************************)
(* revokeCapsuleForCaller, and READ.                                       *)
(***************************************************************************)

\* The owner's revocation reads the row and updates it by id; two of them at
\* once write the same thing.
Revoke ==
  /\ Exists
  /\ ~row.deleted
  /\ row' = [row EXCEPT !.deleted = TRUE, !.stamp = row.stamp + 1]
  /\ UNCHANGED <<blob, write, read, torn>>

\* readMetadata: the fingerprint is taken over the row as it is now.
ReadMetadata(r) ==
  /\ read[r].pc = "idle"
  /\ Exists
  /\ read' = [read EXCEPT ![r].pc = IF row.deleted THEN "refused" ELSE "metadata",
                          ![r].seen = row]
  /\ UNCHANGED <<row, blob, write, torn>>

\* Mutant: the second step trusts the first.
SameFingerprintAlways(r) == TRUE

SameFingerprint(r) == row.stamp = read[r].seen.stamp

\* readContent fetches the row again and compares fingerprints.  An update that
\* has stored its content and not committed leaves the fingerprint as it was.
ReadRow(r) ==
  /\ read[r].pc = "metadata"
  /\ read' = [read EXCEPT ![r].pc =
                IF ~row.deleted /\ SameFingerprint(r) THEN "fetch" ELSE "refused",
                          ![r].crossed = \E w \in Writer : Storing(w)]
  /\ UNCHANGED <<row, blob, write, torn>>

\* It then fetches the object at the row's location, whatever is there.
ReadContent(r) ==
  /\ read[r].pc = "fetch"
  /\ read' = [read EXCEPT ![r].pc = "served", ![r].body = blob]
  /\ UNCHANGED <<row, blob, write, torn>>

\* postResponseIncrement: the access count, and with it last_updated_at.
CountAccess(r) ==
  /\ read[r].pc = "served"
  /\ read' = [read EXCEPT ![r].pc = "counted"]
  /\ row' = [row EXCEPT !.stamp = row.stamp + 1]
  /\ UNCHANGED <<blob, write, torn>>

ReadFails(r) ==
  /\ read[r].pc \in {"metadata", "fetch"}
  /\ read' = [read EXCEPT ![r].pc = "refused"]
  /\ UNCHANGED <<row, blob, write, torn>>

WriteStep(w) ==
  \/ CreateStore(w) \/ CreateCommit(w)
  \/ UpdateRead(w) \/ UpdateProbe(w) \/ UpdateStore(w)
  \/ UpdateNoop(w) \/ UpdateCommit(w) \/ UpdateConflict(w) \/ Fail(w)

ReadStep(r) ==
  ReadMetadata(r) \/ ReadRow(r) \/ ReadContent(r) \/ CountAccess(r) \/ ReadFails(r)

Next ==
  \/ \E w \in Writer : WriteStep(w)
  \/ \E r \in Reader : ReadStep(r)
  \/ Revoke

Spec == Init /\ [][Next]_vars

-----------------------------------------------------------------------------
(***************************************************************************)
(* Properties.                                                             *)
(***************************************************************************)

\* The stored content is the one the row's content_hash was taken of, or that
\* of an update whose transaction is still open, as long as no update was cut
\* off between the two writes and no two were between them at once
\* (updateCapsule writes the object before its transaction).
Intact ==
  Exists /\ ~torn =>
    \/ blob = row.hash
    \/ \E w \in Writer : Storing(w) /\ blob = Stored(w)

\* Content is served only as the metadata of step 1 described it: any update
\* that ended between the two steps, however early, is caught by the
\* fingerprint.  An update that is between its two writes is not
\* (readContent).
ReadMatchesMetadata ==
  \A r \in Reader :
    read[r].pc \in {"served", "counted"} /\ ~read[r].crossed /\ ~torn =>
      read[r].body = read[r].seen.hash

\* An update with an expected version takes effect on the very row its
\* decisions (discrimination, previous_version) were made from, and never on a
\* revoked one: it neither loses another's update nor revives a tombstone.
GuardedCommit ==
  [][\A w \in Writer :
       (write[w].pc = "commit" /\ write[w].expect # AnyVersion /\ write'[w].pc = "done") =>
         /\ [row EXCEPT !.stamp = 0] = [write[w].snap EXCEPT !.stamp = 0]
         /\ ~row.deleted]_vars

\* What the version check is there for, "eliminating silent overwrites by
\* concurrent writers" (ADR-0042): the content of a call that was answered
\* CAPSULE_VERSION_CONFLICT is not what the live capsule holds afterwards.
ConflictKeepsContent ==
  \A w \in Writer : write[w].pc = "conflict" /\ ~row.deleted => blob # Stored(w)

=============================================================================
