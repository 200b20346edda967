--------------------------- MODULE CapsuleStoreInv ---------------------------
(***************************************************************************)
(* The inductive invariants from which CapsuleStoreProofs proves the       *)
(* properties of CapsuleStore.                                             *)
(***************************************************************************)
EXTENDS CapsuleStore

(* One call creates the capsule, before any other does anything with it.    *)
CreatedOnce ==
  /\ ~Exists => \A w \in Writer : write[w].pc \in {"idle", "creating", "failed"}
  /\ ~Exists => \A r \in Reader : read[r].pc = "idle"
  /\ Exists => \E w \in Writer : write[w].pc # "idle"
  /\ \A w \in Writer : write[w].pc = "creating" =>
       /\ ~Exists /\ blob = Stored(w) /\ write[w].text \in Text
       /\ \A v \in Writer : v # w => write[v].pc = "idle"

(* A call that stores content was given some. *)
ContentGiven ==
  \A w \in Writer :
    /\ write[w].pc = "storing" => write[w].mutation = "UPDATE"
    /\ write[w].pc \in {"storing", "commit"} /\ write[w].mutation = "UPDATE" =>
         write[w].text \in Text

(* The snapshot an update decides from is the row, up to the access count,  *)
(* for as long as the row has the snapshot's version and is not revoked.    *)
Undecided == {"read", "storing", "commit"}

Unchanged(s) == [row EXCEPT !.stamp = 0] = [s EXCEPT !.stamp = 0]

Snapshots ==
  \A w \in Writer : write[w].pc \in Undecided =>
    LET s == write[w].snap IN
    /\ write[w].expect \in {AnyVersion, s.version}
    /\ ~s.deleted
    /\ s.version <= row.version
    /\ s.version = row.version /\ ~row.deleted => Unchanged(s)

(* While no update was cut off between its two writes and no two were       *)
(* between them at once, the object belongs to the one that is, or else to  *)
(* the row.                                                                 *)
Whole ==
  ~torn =>
    /\ \A v, w \in Writer : Storing(v) /\ Storing(w) => v = w
    /\ \A w \in Writer : Storing(w) => blob = Stored(w)
    /\ Exists /\ (\A w \in Writer : ~Storing(w)) => blob = row.hash

(* The fingerprint tells rows apart, and a read that was not crossed has    *)
(* nobody between the two writes while it fetches the object.               *)
Fingerprints ==
  \A r \in Reader :
    /\ read[r].pc = "metadata" =>
         /\ read[r].seen.stamp <= row.stamp
         /\ read[r].seen.stamp = row.stamp => read[r].seen = row
    /\ read[r].pc = "fetch" /\ ~read[r].crossed =>
         /\ \A w \in Writer : ~Storing(w)
         /\ ~torn => blob = read[r].seen.hash

StoreInv ==
  /\ TypeOK /\ CreatedOnce /\ ContentGiven /\ Snapshots /\ Whole /\ Fingerprints
  /\ ReadMatchesMetadata
=============================================================================
