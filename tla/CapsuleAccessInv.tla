-------------------------- MODULE CapsuleAccessInv --------------------------
(***************************************************************************)
(* The inductive invariants from which CapsuleAccessProofs proves the      *)
(* properties of CapsuleAccess.                                            *)
(***************************************************************************)
EXTENDS CapsuleAccess

(* A permission row belongs to a share that was started. *)
RowsHaveShare == \A i \in DOMAIN perms : share[perms[i].bridge].pc # "idle"

AccessShape == TypeOK /\ RowsHaveShare

(* A declaration remembers the row it was negotiated from, which is never   *)
(* rewritten, and was no wider than it.                                     *)
Follows(d) ==
  \/ decl[d].to = Owner
  \/ /\ decl[d].perm \in DOMAIN perms
     /\ LET p == perms[decl[d].perm] IN
        /\ p.offer.to = decl[d].to
        /\ p.capsule = decl[d].capsule
        /\ ~p.offer.block
        /\ decl[d].scope <= p.offer.scope
        /\ decl[d].to \in AiAgent /\ decl[d].scope = FULL => p.offer.ai_full
     /\ \A i \in decl[d].seen : ~perms[i].offer.block

Uses(a, d) == access[a].pc \in {"reading", "served"} /\ access[a].decl = d

Negotiated ==
  /\ \A d \in Declaration : decl[d].pc # "none" => Follows(d)
  /\ \A a \in Access, d \in Declaration : Uses(a, d) =>
       decl[d].pc \in {"live", "gone"} /\ decl[d].scope > 0

(* While no two reads of a declaration overlap, only one has used it, and   *)
(* after that it is gone.                                                   *)
Consumed ==
  \A d \in Declaration \ raced : \A a, b \in Access :
    /\ Uses(a, d) /\ Uses(b, d) => a = b
    /\ Uses(a, d) /\ access[a].pc = "served" => decl[d].pc = "gone"

(* From the transaction of a revocation on, nothing of its bridge is in     *)
(* force and nothing is added to it.                                        *)
Emptied ==
  \A b \in Bridge \ crossed : share[b].revoke # "none" =>
    /\ share[b].pc # "running"
    /\ \A i \in RowsOf(b) : perms[i].status = "REVOKED"

AccessInv == AccessShape /\ Negotiated /\ Consumed /\ Emptied
=============================================================================
