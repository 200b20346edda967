------------------------- MODULE CapsuleAccessProofs -------------------------
(***************************************************************************)
(* Proofs about CapsuleAccess, for any number of bridges, negotiations and *)
(* accesses, and any offers of the owner.                                  *)
(***************************************************************************)
EXTENDS CapsuleAccessInv, SequenceTheorems, WellFoundedInduction, TLAPS

-----------------------------------------------------------------------------
(* The permission rows.                                                    *)

LEMMA RowIndices ==
  ASSUME TypeOK
  PROVE  /\ Len(perms) \in Nat /\ DOMAIN perms = 1..Len(perms)
         /\ perms \in [1..Len(perms) -> Permission]
         /\ \A i \in DOMAIN perms : perms[i] \in Permission
BY LenProperties DEF TypeOK

\* The newest of a set of rows is one of them.
LEMMA NewestIsOne ==
  ASSUME NEW n \in Nat, NEW S \in SUBSET (1..n), S # {}
  PROVE  Newest(S) \in S
<1>1. \E i \in S : \A j \in S : j <= i
  <2> DEFINE Less == {p \in Nat \X Nat : p[1] < p[2]}
             T == {n - i : i \in S}
  <2>1. IsWellFoundedOn(Less, Nat)
    BY NatLessThanWellFounded DEF OpToRel
  <2>0. \A i \in S : i \in Nat /\ i <= n /\ n - i \in Nat
    OBVIOUS
  <2>2. T \subseteq Nat /\ T # {}
    BY <2>0
  <2>3. \E m \in T : \A k \in T : ~ (<<k, m>> \in Less)
    <3> HIDE DEF Less, T
    <3> QED
      BY <2>1, <2>2, WFMin
  <2>4. \A k, m \in Nat : <<k, m>> \in Less <=> k < m
    OBVIOUS
  <2>5. PICK m \in T : \A k \in T : ~ (k < m)
    <3> HIDE DEF Less, T
    <3> QED
      BY <2>2, <2>3, <2>4
  <2>6. PICK i \in S : m = n - i
    OBVIOUS
  <2>7. ASSUME NEW j \in S
        PROVE  j <= i
    <3>1. n - j \in T
      OBVIOUS
    <3>2. ~ (n - j < n - i)
      BY <2>5, <2>6, <3>1
    <3> QED
      BY <2>0, <3>2
  <2> QED
    BY <2>7
<1> QED
  BY <1>1 DEF Newest

RowKept(i) ==
  /\ perms'[i].bridge = perms[i].bridge
  /\ perms'[i].capsule = perms[i].capsule
  /\ perms'[i].offer = perms[i].offer
  /\ perms[i].status = "REVOKED" => perms'[i].status = "REVOKED"

RowsKept ==
  /\ perms' \in Seq(Permission)
  /\ DOMAIN perms \subseteq DOMAIN perms' /\ Len(perms) <= Len(perms')
  /\ \A i \in DOMAIN perms : RowKept(i)

LEMMA RowsAppended ==
  ASSUME TypeOK, NEW b \in Bridge, CreatePermission(b)
  PROVE  /\ RowsKept
         /\ share[b].pc = "running"
         /\ \A i \in DOMAIN perms' : i \in DOMAIN perms \/ perms'[i].bridge = b
<1>1. share[b].pc = "running" /\ share[b].offer \in Offer
  BY OffersAssumption DEF CreatePermission, TypeOK, ShareState, NoShare
<1>2. PICK c \in share[b].left :
        perms' = Append(perms, [bridge |-> b, capsule |-> c, offer |-> share[b].offer,
                                status |-> "ACTIVE", over |-> FALSE])
  BY DEF CreatePermission
<1>3. c \in Capsule
  BY <1>1, <1>2 DEF TypeOK, ShareState, NoShare
<1> DEFINE new == [bridge |-> b, capsule |-> c, offer |-> share[b].offer,
                   status |-> "ACTIVE", over |-> FALSE]
<1>4. new \in Permission /\ new.bridge = b
  BY <1>1, <1>3 DEF Permission
<1> HIDE DEF new
<1>5. perms' = Append(perms, new) /\ perms \in Seq(Permission)
  BY <1>2 DEF new, TypeOK
<1>6. /\ perms' \in Seq(Permission) /\ Len(perms') = Len(perms) + 1
      /\ \A i \in 1..Len(perms) : perms'[i] = perms[i]
      /\ perms'[Len(perms) + 1] = new
  BY <1>4, <1>5, AppendProperties
<1>7. DOMAIN perms' = 1..(Len(perms) + 1) /\ DOMAIN perms = 1..Len(perms) /\ Len(perms) \in Nat
  BY <1>6, RowIndices, LenProperties
<1>8. \A i \in DOMAIN perms : RowKept(i)
  BY <1>6, <1>7 DEF RowKept
<1>9. DOMAIN perms \subseteq DOMAIN perms' /\ Len(perms) <= Len(perms')
  BY <1>6, <1>7
<1>10. \A i \in DOMAIN perms' : i \in DOMAIN perms \/ perms'[i].bridge = b
  BY <1>4, <1>6, <1>7
<1> QED
  BY <1>1, <1>6, <1>8, <1>9, <1>10 DEF RowsKept

\* A function on the same indices, row for row of the same bridge, capsule and
\* offer.
LEMMA RowsRewritten ==
  ASSUME TypeOK, DOMAIN perms' = DOMAIN perms, perms' = [i \in DOMAIN perms |-> perms'[i]],
         \A i \in DOMAIN perms : perms'[i] \in Permission /\ RowKept(i)
  PROVE  RowsKept
<1>1. perms' \in [1..Len(perms) -> Permission] /\ Len(perms) \in Nat
  BY RowIndices
<1>2. perms' \in Seq(Permission) /\ Len(perms') = Len(perms)
  BY <1>1, SeqDef, LenProperties, RowIndices
<1> QED
  BY <1>1, <1>2 DEF RowsKept

LEMMA RowsRevoked ==
  ASSUME TypeOK, NEW b \in Bridge, RevokeBridge(b)
  PROVE  /\ RowsKept /\ DOMAIN perms' = DOMAIN perms
         /\ \A i \in DOMAIN perms : perms[i].bridge = b => perms'[i].status = "REVOKED"
<1>1. perms' = [i \in DOMAIN perms |->
        IF i \in RowsOf(b) THEN [perms[i] EXCEPT !.status = "REVOKED"] ELSE perms[i]]
  BY DEF RevokeBridge, Revoked
<1>2. ASSUME NEW i \in DOMAIN perms
      PROVE  /\ perms'[i] \in Permission /\ RowKept(i)
             /\ perms[i].bridge = b => perms'[i].status = "REVOKED"
  <2>1. perms[i] \in Permission
    BY RowIndices
  <2> QED
    BY <1>1, <2>1 DEF Permission, RowKept, RowsOf
<1> QED
  BY <1>1, <1>2, RowsRewritten

LEMMA RowsEnd ==
  ASSUME TypeOK, PermissionEnds
  PROVE  RowsKept /\ DOMAIN perms' = DOMAIN perms
<1>1. PICK k \in DOMAIN perms : perms' = [perms EXCEPT ![k].over = TRUE]
  BY DEF PermissionEnds
<1>2. ASSUME NEW i \in DOMAIN perms
      PROVE  perms'[i] \in Permission /\ RowKept(i)
  <2>1. perms[i] \in Permission
    BY RowIndices
  <2> QED
    BY <1>1, <2>1 DEF Permission, RowKept
<1>3. DOMAIN perms' = DOMAIN perms /\ perms' = [i \in DOMAIN perms |-> perms'[i]]
  BY <1>1
<1> QED
  BY <1>2, <1>3, RowsRewritten

\* A row keeps whose it is, for which capsule and on what offer, and does not
\* come back from a revocation.
LEMMA RowsStable ==
  ASSUME TypeOK, [Next]_vars
  PROVE  RowsKept
<1>1. CASE perms' = perms
  BY <1>1, RowIndices DEF RowsKept, RowKept, TypeOK
<1>2. \/ perms' = perms
      \/ \E b \in Bridge : CreatePermission(b) \/ RevokeBridge(b)
      \/ PermissionEnds
  BY DEF Next, vars, BridgeStep, DeclarationStep, AccessStep, ShareStart, ShareAnswer,
     ShareFails, RevokeAnswer, RevokeFails, NegotiateCheck, NegotiateAsOwner, NegotiateIssue,
     NegotiateFails, DeclarationEnds, ReadCheck, ReadServe, ReadFails, WriteCheck, Login
<1> QED
  BY <1>1, <1>2, RowsAppended, RowsRevoked, RowsEnd

-----------------------------------------------------------------------------
(* The bridges.                                                            *)

LEMMA ShareRecord ==
  ASSUME TypeOK, NEW b \in Bridge
  PROVE  /\ share[b].pc = "idle" => share[b] = NoShare
         /\ share[b].pc # "idle" =>
              share[b] \in [pc: {"running", "answered", "failed"}, offer: Offers,
                            left: SUBSET Capsule, revoke: {"none", "committed", "answered"}]
BY DEF TypeOK, ShareState, NoShare

\* A step of a bridge moves that bridge only; its share starts once, and is
\* marked revoked by the revocation alone.
LEMMA BridgeEffect ==
  ASSUME AccessShape, NEW b \in Bridge, BridgeStep(b)
  PROVE  /\ share' \in [Bridge -> ShareState]
         /\ share'[b].pc # "idle"
         /\ session' \subseteq Grantee
         /\ share'[b].pc = "running" =>
              (share[b].pc = "idle" /\ share'[b].revoke = "none") \/ share[b].pc = "running"
         /\ share'[b].revoke # "none" => share[b].revoke # "none" \/ RevokeBridge(b)
         /\ \A x \in Bridge : x # b => share'[x] = share[x]
         /\ decl' = decl /\ access' = access /\ raced' = raced
         /\ \/ crossed' = crossed
            \/ RevokeBridge(b) /\ share[b].pc = "running" /\ crossed' = crossed \cup {b}
<1> USE DEF AccessShape
<1> DEFINE Started == [pc: {"running", "answered", "failed"}, offer: Offers,
                       left: SUBSET Capsule, revoke: {"none", "committed", "answered"}]
           Moves == /\ share' = [x \in Bridge |-> share'[x]]
                    /\ \A x \in Bridge : x # b => share'[x] = share[x]
<1>0. Started \subseteq ShareState /\ NoShare.revoke = "none" /\ share \in [Bridge -> ShareState]
      /\ \A r \in Started : r.pc # "idle"
  BY DEF ShareState, NoShare, TypeOK
<1>r. /\ session' \subseteq Grantee
      /\ decl' = decl /\ access' = access /\ raced' = raced
  BY DEF BridgeStep, ShareStart, CreatePermission, ShareAnswer, ShareFails, RevokeBridge,
     RevokeAnswer, RevokeFails, TypeOK
<1>1. CASE ShareStart(b)
  <2>1. PICK o \in Offers, S \in SUBSET Capsule \ {{}} :
          share' = [share EXCEPT ![b] =
            [pc |-> "running", offer |-> o, left |-> S, revoke |-> "none"]]
    BY <1>1 DEF ShareStart
  <2> DEFINE new == [pc |-> "running", offer |-> o, left |-> S, revoke |-> "none"]
  <2>2. new \in Started /\ new.pc = "running" /\ new.revoke = "none"
    OBVIOUS
  <2>3. share' = [share EXCEPT ![b] = new]
    BY <2>1
  <2> HIDE DEF new, Started
  <2>4. Moves /\ share'[b] = new
    BY <1>0, <2>3
  <2>5. share[b].pc = "idle" /\ crossed' = crossed
    BY <1>1 DEF ShareStart
  <2>6. share' \in [Bridge -> ShareState]
    BY <1>0, <2>2, <2>4
  <2> HIDE DEF Moves
  <2>7. \A x \in Bridge : x # b => share'[x] = share[x]
    BY <2>4 DEF Moves
  <2> QED
    BY <1>r, <2>2, <2>4, <2>5, <2>6, <2>7
<1>2. CASE CreatePermission(b) \/ ShareAnswer(b) \/ ShareFails(b)
  <2>0. share[b].pc = "running" /\ crossed' = crossed
    BY <1>2 DEF CreatePermission, ShareAnswer, ShareFails
  <2>1. share[b] \in Started /\ share[b].pc = "running" /\ crossed' = crossed
    BY <2>0, ShareRecord
  <2>2. share'[b] \in Started /\ share'[b].revoke = share[b].revoke
    <3>1. CASE CreatePermission(b)
      <4>1. PICK c \in Capsule : share' = [share EXCEPT ![b].left = @ \ {c}]
        BY <2>1, <3>1 DEF CreatePermission
      <4> QED
        BY <1>0, <2>1, <4>1
    <3>2. CASE ShareAnswer(b) \/ ShareFails(b)
      BY <1>0, <2>1, <3>2 DEF ShareAnswer, ShareFails
    <3> QED
      BY <1>2, <3>1, <3>2
  <2>3. Moves
    BY <1>0, <1>2 DEF CreatePermission, ShareAnswer, ShareFails
  <2> HIDE DEF Started
  <2>4. share' \in [Bridge -> ShareState]
    BY <1>0, <2>2, <2>3
  <2>5. /\ \A x \in Bridge : x # b => share'[x] = share[x]
        /\ share'[b].pc # "idle"
    BY <1>0, <2>2, <2>3
  <2> QED
    BY <1>r, <2>1, <2>2, <2>4, <2>5
<1>3. CASE RevokeBridge(b)
  <2>1. share[b] \in Started
    <3>1. PICK i \in DOMAIN perms : perms[i].bridge = b
      BY <1>3 DEF RevokeBridge, RowsOf
    <3> QED
      BY <3>1, ShareRecord DEF RowsHaveShare
  <2>2. share'[b] \in Started /\ share'[b].pc = share[b].pc
    BY <1>3, <2>1 DEF RevokeBridge, TypeOK
  <2>3. Moves
    BY <1>0, <1>3 DEF RevokeBridge
  <2>4. \/ crossed' = crossed
        \/ share[b].pc = "running" /\ crossed' = crossed \cup {b}
    BY <1>3 DEF RevokeBridge
  <2> HIDE DEF Started
  <2>5. share' \in [Bridge -> ShareState]
    BY <1>0, <2>2, <2>3
  <2>6. /\ \A x \in Bridge : x # b => share'[x] = share[x]
        /\ share'[b].pc # "idle"
    BY <1>0, <2>2, <2>3
  <2> QED
    BY <1>r, <1>3, <2>2, <2>4, <2>5, <2>6
<1>4. CASE RevokeAnswer(b) \/ RevokeFails(b)
  <2>1. share[b].revoke = "committed" /\ crossed' = crossed
    BY <1>4 DEF RevokeAnswer, RevokeFails
  <2>2. share[b] \in Started
    BY <1>0, <2>1, ShareRecord
  <2>3. share'[b] \in Started /\ share'[b].pc = share[b].pc
    BY <1>4, <2>2 DEF RevokeAnswer, RevokeFails, TypeOK
  <2>4. Moves
    BY <1>0, <1>4 DEF RevokeAnswer, RevokeFails
  <2> HIDE DEF Started
  <2>5. share' \in [Bridge -> ShareState]
    BY <1>0, <2>3, <2>4
  <2>6. /\ \A x \in Bridge : x # b => share'[x] = share[x]
        /\ share'[b].pc # "idle"
    BY <1>0, <2>3, <2>2, <2>4
  <2> QED
    BY <1>r, <2>1, <2>3, <2>5, <2>6
<1> QED
  BY <1>1, <1>2, <1>3, <1>4 DEF BridgeStep

-----------------------------------------------------------------------------
(* The declarations.                                                       *)

DeclKept(d) ==
  /\ decl'[d].to = decl[d].to
  /\ decl'[d].capsule = decl[d].capsule
  /\ decl'[d].scope = decl[d].scope
  /\ decl'[d].perm = decl[d].perm
  /\ decl'[d].seen = decl[d].seen

Issued == [pc: {"issuing", "live", "gone"}, to: Grantee \cup {Owner}, capsule: Capsule,
           scope: Scope, perm: Nat, seen: SUBSET Nat]

LEMMA DeclRecord ==
  ASSUME TypeOK, NEW d \in Declaration
  PROVE  /\ decl[d].pc # "none" => decl[d] \in Issued
         /\ decl[d].pc = "none" => decl[d] = NoDecl
BY DEF TypeOK, DeclState, NoDecl, Issued

\* What a negotiation writes: the scope is that of the row, narrowed.
LEMMA CandidatesInForce ==
  ASSUME TypeOK, NEW c, NEW g
  PROVE  /\ Candidates(c, g) \subseteq DOMAIN perms
         /\ \A i \in Candidates(c, g) :
              perms[i].capsule = c /\ perms[i].offer.to = g /\ perms[i].status = "ACTIVE"
         /\ \A p \in CheckPermission(c, g) :
              p \in Candidates(c, g) /\ \A i \in Candidates(c, g) : ~perms[i].offer.block
<1>1. /\ Candidates(c, g) \subseteq DOMAIN perms
      /\ \A i \in Candidates(c, g) :
           perms[i].capsule = c /\ perms[i].offer.to = g /\ perms[i].status = "ACTIVE"
  BY DEF Candidates, RowsFor
<1>2. Candidates(c, g) # {} => Newest(Candidates(c, g)) \in Candidates(c, g)
  BY <1>1, RowIndices, NewestIsOne
<1> QED
  BY <1>1, <1>2 DEF CheckPermission

LEMMA GrantedScope ==
  ASSUME NEW o \in Offer, NEW s \in Scope
  PROVE  /\ Granted(o, s) \in Scope /\ Granted(o, s) <= o.scope
         /\ o.to \in AiAgent /\ Granted(o, s) = FULL => o.ai_full
BY DEF Granted, ScopeMin, Scope, FULL, Offer

\* A step of a declaration moves that declaration only, which either keeps what
\* it says or is new and follows a row in force.
LEMMA DeclarationEffect ==
  ASSUME AccessShape, NEW d \in Declaration, DeclarationStep(d)
  PROVE  /\ decl' \in [Declaration -> DeclState]
         /\ \A x \in Declaration : x # d => decl'[x] = decl[x]
         /\ perms' = perms /\ share' = share /\ access' = access /\ session' = session
         /\ crossed' = crossed /\ raced' = raced
         /\ decl[d].pc # "gone" /\ (decl[d].pc = "live" => decl'[d].pc = "gone")
         /\ \/ decl[d].pc # "none" /\ decl'[d].pc # "none" /\ DeclKept(d)
            \/ decl'[d].pc = "none"
            \/ /\ decl[d].pc = "none" /\ decl'[d].pc = "issuing"
               /\ Follows(d)'
               /\ decl'[d].perm \in 0..Len(perms) /\ decl'[d].seen \subseteq DOMAIN perms
               /\ decl'[d].perm # 0 => perms[decl'[d].perm].status = "ACTIVE"
<1> USE DEF AccessShape
<1>1. CASE NegotiateIssue(d) \/ DeclarationEnds(d)
  <2>1. decl[d] \in Issued /\ decl[d].pc \in {"issuing", "live"}
    BY <1>1, DeclRecord DEF NegotiateIssue, DeclarationEnds
  <2>2. /\ decl'[d] \in Issued /\ DeclKept(d) /\ decl'[d].pc # "none"
        /\ decl[d].pc = "live" => decl'[d].pc = "gone"
        /\ \A x \in Declaration : x # d => decl'[x] = decl[x]
        /\ decl' = [x \in Declaration |-> decl'[x]]
    BY <1>1, <2>1 DEF NegotiateIssue, DeclarationEnds, TypeOK, DeclKept, Issued
  <2>3. decl' \in [Declaration -> DeclState]
    BY <2>2 DEF TypeOK, DeclState, Issued
  <2> QED
    BY <1>1, <2>1, <2>2, <2>3 DEF NegotiateIssue, DeclarationEnds
<1>2. CASE NegotiateFails(d)
  BY <1>2 DEF NegotiateFails, TypeOK, DeclState, NoDecl
<1>3. ASSUME NEW g \in Grantee \cup {Owner}, NEW c \in Capsule, NEW s \in Scope,
             NEW p \in 0..Len(perms), Negotiating(d, g, c, s, p), decl[d].pc = "none"
      PROVE  /\ decl' \in [Declaration -> DeclState]
             /\ \A x \in Declaration : x # d => decl'[x] = decl[x]
             /\ decl'[d].pc = "issuing" /\ decl'[d].to = g /\ decl'[d].capsule = c
             /\ decl'[d].scope = s /\ decl'[d].perm = p
             /\ decl'[d].seen = Candidates(c, g)
             /\ decl'[d].seen \subseteq DOMAIN perms
  <2> DEFINE S == Candidates(c, g)
             new == [pc |-> "issuing", to |-> g, capsule |-> c, scope |-> s, perm |-> p, seen |-> S]
  <2>1. S \subseteq DOMAIN perms /\ S \subseteq Nat /\ p \in Nat
    BY CandidatesInForce, RowIndices
  <2> HIDE DEF S
  <2>2. /\ new \in DeclState /\ new.pc = "issuing" /\ new.to = g /\ new.capsule = c
        /\ new.scope = s /\ new.perm = p /\ new.seen = S
    BY <2>1 DEF DeclState
  <2>3. decl' = [decl EXCEPT ![d] = new]
    BY <1>3 DEF Negotiating, S
  <2> HIDE DEF new
  <2>4. /\ decl' \in [Declaration -> DeclState] /\ decl'[d] = new
        /\ \A x \in Declaration : x # d => decl'[x] = decl[x]
    BY <2>2, <2>3 DEF TypeOK
  <2> QED
    BY <2>1, <2>2, <2>4 DEF S
<1>4. CASE NegotiateCheck(d)
  <2>0. PICK g \in session, c \in Capsule, s \in Requested :
          \E p \in CheckPermission(c, g) :
            Negotiating(d, g, c, Granted(perms[p].offer, s), p)
    BY <1>4 DEF NegotiateCheck
  <2>1. PICK p \in CheckPermission(c, g) :
          Negotiating(d, g, c, Granted(perms[p].offer, s), p)
    BY <2>0
  <2>2. /\ p \in DOMAIN perms /\ perms[p].capsule = c /\ perms[p].offer.to = g
        /\ perms[p].status = "ACTIVE" /\ ~perms[p].offer.block
        /\ \A i \in Candidates(c, g) : ~perms[i].offer.block
    BY CandidatesInForce
  <2>3. perms[p].offer \in Offer /\ s \in Scope /\ g \in Grantee /\ p \in 0..Len(perms)
    BY <2>2, RowIndices, OffersAssumption DEF Permission, TypeOK
  <2> DEFINE t == Granted(perms[p].offer, s)
  <2>4. /\ t \in Scope /\ t <= perms[p].offer.scope
        /\ perms[p].offer.to \in AiAgent /\ t = FULL => perms[p].offer.ai_full
    BY <2>3, GrantedScope
  <2>5. decl[d].pc = "none" /\ perms' = perms /\ share' = share /\ access' = access
        /\ session' = session /\ crossed' = crossed /\ raced' = raced
    BY <1>4 DEF NegotiateCheck
  <2> HIDE DEF t
  <2>6. Negotiating(d, g, c, t, p)
    BY <2>1 DEF t
  <2>7. /\ decl' \in [Declaration -> DeclState]
        /\ \A x \in Declaration : x # d => decl'[x] = decl[x]
        /\ decl'[d].pc = "issuing" /\ decl'[d].to = g /\ decl'[d].capsule = c
        /\ decl'[d].scope = t /\ decl'[d].perm = p
        /\ decl'[d].seen = Candidates(c, g)
        /\ decl'[d].seen \subseteq DOMAIN perms
    BY <1>3, <2>3, <2>4, <2>5, <2>6
  <2>8. Follows(d)'
    BY <2>2, <2>4, <2>5, <2>7 DEF Follows
  <2> QED
    BY <2>2, <2>3, <2>5, <2>7, <2>8
<1>5. CASE NegotiateAsOwner(d)
  <2>1. PICK c \in Capsule, s \in Requested : Negotiating(d, Owner, c, s, 0)
    BY <1>5 DEF NegotiateAsOwner
  <2>2. decl[d].pc = "none" /\ perms' = perms /\ share' = share /\ access' = access
        /\ session' = session /\ crossed' = crossed /\ raced' = raced
    BY <1>5 DEF NegotiateAsOwner
  <2>3. s \in Scope /\ 0 \in 0..Len(perms)
    BY OffersAssumption, RowIndices
  <2>4. /\ decl' \in [Declaration -> DeclState]
        /\ \A x \in Declaration : x # d => decl'[x] = decl[x]
        /\ decl'[d].pc = "issuing" /\ decl'[d].to = Owner /\ decl'[d].perm = 0
        /\ decl'[d].seen \subseteq DOMAIN perms
    BY <1>3, <2>1, <2>2, <2>3
  <2>5. Follows(d)'
    BY <2>4 DEF Follows
  <2> QED
    BY <2>2, <2>3, <2>4, <2>5
<1> QED
  BY <1>1, <1>2, <1>4, <1>5 DEF DeclarationStep

-----------------------------------------------------------------------------
(* The accesses.                                                           *)

LEMMA AccessRecord ==
  ASSUME TypeOK, NEW a \in Access
  PROVE  /\ access[a].pc \in {"reading", "served"} =>
              access[a] \in [pc: {"reading", "served"}, decl: Declaration]
         /\ access[a].pc \in {"idle", "reading", "served", "writing"}
BY DEF TypeOK, AccessState, NoAccess

\* A step of an access moves that access only: a read finds a live declaration
\* of some scope, is marked raced when another has found it too, and deletes it.
LEMMA AccessEffect ==
  ASSUME TypeOK, Negotiated, NEW a \in Access, AccessStep(a)
  PROVE  /\ access' \in [Access -> AccessState]
         /\ \A x \in Access : x # a => access'[x] = access[x]
         /\ perms' = perms /\ share' = share /\ session' = session /\ crossed' = crossed
         /\ decl' \in [Declaration -> DeclState]
         /\ \/ /\ access[a].pc = "idle" /\ access'[a].pc = "reading" /\ decl' = decl
               /\ \E d \in Declaration :
                    /\ access'[a] = [pc |-> "reading", decl |-> d]
                    /\ decl[d].pc = "live" /\ decl[d].scope > 0
                    /\ raced' = IF Reading(d) THEN raced \cup {d} ELSE raced
            \/ /\ access[a].pc = "reading" /\ access'[a].pc = "served"
               /\ access[a].decl \in Declaration /\ access'[a].decl = access[a].decl
               /\ decl' = [decl EXCEPT ![access[a].decl].pc = "gone"]
               /\ raced' = raced
            \/ /\ access[a].pc = "reading" /\ access'[a].pc = "idle"
               /\ decl' = decl /\ raced' = raced
            \/ /\ access[a].pc = "idle" /\ access'[a].pc = "writing"
               /\ access'[a].perm \in DOMAIN perms
               /\ perms[access'[a].perm].status = "ACTIVE"
               /\ decl' = decl /\ raced' = raced
<1>0. access \in [Access -> AccessState] /\ decl \in [Declaration -> DeclState]
  BY DEF TypeOK
<1>r. perms' = perms /\ share' = share /\ session' = session /\ crossed' = crossed
  BY DEF AccessStep, ReadCheck, ReadServe, ReadFails, WriteCheck
<1>1. CASE ReadCheck(a)
  <2>1. PICK d \in Declaration :
          /\ decl[d].pc = "live" /\ decl[d].scope > 0
          /\ access' = [access EXCEPT ![a] = [pc |-> "reading", decl |-> d]]
          /\ raced' = IF Reading(d) THEN raced \cup {d} ELSE raced
    BY <1>1 DEF ReadCheck, Live
  <2> DEFINE new == [pc |-> "reading", decl |-> d]
  <2>2. new \in AccessState /\ new.pc = "reading"
    BY DEF AccessState
  <2>3. access' = [access EXCEPT ![a] = new]
    BY <2>1
  <2>4. access[a].pc = "idle" /\ decl' = decl
    BY <1>1 DEF ReadCheck
  <2> HIDE DEF new
  <2>5. /\ access' \in [Access -> AccessState] /\ access'[a] = new
        /\ \A x \in Access : x # a => access'[x] = access[x]
    BY <1>0, <2>2, <2>3
  <2>6. access'[a] = [pc |-> "reading", decl |-> d]
    BY <2>5 DEF new
  <2> QED
    BY <1>0, <1>r, <2>1, <2>2, <2>4, <2>5, <2>6
<1>2. CASE ReadServe(a)
  <2>1. access[a].pc = "reading" /\ access[a].decl \in Declaration
    BY <1>2, AccessRecord DEF ReadServe
  <2>2. access[a] \in [pc: {"reading", "served"}, decl: Declaration]
    BY <2>1, AccessRecord
  <2>3. /\ access' = [access EXCEPT ![a].pc = "served"]
        /\ decl' = [decl EXCEPT ![access[a].decl].pc = "gone"]
        /\ raced' = raced
    BY <1>2 DEF ReadServe
  <2>4. /\ access'[a] \in [pc: {"reading", "served"}, decl: Declaration]
        /\ access'[a].pc = "served" /\ access'[a].decl = access[a].decl
        /\ \A x \in Access : x # a => access'[x] = access[x]
        /\ access' = [x \in Access |-> access'[x]]
    BY <1>0, <2>2, <2>3
  <2>5. access' \in [Access -> AccessState]
    BY <1>0, <2>4 DEF AccessState
  <2>6. decl' \in [Declaration -> DeclState]
    <3> DEFINE d == access[a].decl
    <3>1. d \in Declaration /\ decl' = [decl EXCEPT ![d].pc = "gone"]
      BY <2>1, <2>3
    <3>2. decl[d].pc \in {"live", "gone"}
      BY <2>1, <3>1 DEF Negotiated, Uses
    <3> HIDE DEF d
    <3>3. decl[d] \in Issued
      BY <3>1, <3>2, DeclRecord
    <3>4. /\ decl'[d] \in Issued
          /\ \A x \in Declaration : x # d => decl'[x] = decl[x]
          /\ decl' = [x \in Declaration |-> decl'[x]]
      BY <1>0, <3>1, <3>3 DEF Issued
    <3>5. Issued \subseteq DeclState
      BY DEF Issued, DeclState
    <3> HIDE DEF Issued
    <3> QED
      BY <1>0, <3>4, <3>5
  <2> QED
    BY <1>r, <2>1, <2>3, <2>4, <2>5, <2>6
<1>3. CASE ReadFails(a)
  <2>1. /\ access[a].pc = "reading" /\ access' = [access EXCEPT ![a] = NoAccess]
        /\ decl' = decl /\ raced' = raced
    BY <1>3 DEF ReadFails
  <2>2. NoAccess \in AccessState /\ NoAccess.pc = "idle"
    BY DEF AccessState, NoAccess
  <2>3. /\ access' \in [Access -> AccessState] /\ access'[a] = NoAccess
        /\ \A x \in Access : x # a => access'[x] = access[x]
    BY <1>0, <2>1, <2>2
  <2> QED
    BY <1>0, <1>r, <2>1, <2>2, <2>3
<1>4. CASE WriteCheck(a)
  <2>1. PICK d \in Declaration : \E p \in WriteRow(decl[d].capsule, decl[d].to) :
          access' = [access EXCEPT ![a] = [pc |-> "writing", decl |-> d, perm |-> p]]
    BY <1>4 DEF WriteCheck
  <2>2. PICK p \in WriteRow(decl[d].capsule, decl[d].to) :
          access' = [access EXCEPT ![a] = [pc |-> "writing", decl |-> d, perm |-> p]]
    BY <2>1
  <2>3. p \in DOMAIN perms /\ p \in Nat /\ perms[p].status = "ACTIVE"
    <3> DEFINE S == {i \in RowsFor(decl[d].capsule, decl[d].to) : perms[i].status = "ACTIVE"}
    <3>1. S \subseteq DOMAIN perms /\ S # {} /\ p = Newest(S)
      BY <2>2 DEF WriteRow, RowsFor
    <3>2. \A i \in S : perms[i].status = "ACTIVE"
      OBVIOUS
    <3> HIDE DEF S
    <3>3. S \in SUBSET (1..Len(perms)) /\ Len(perms) \in Nat
      BY <3>1, RowIndices
    <3>4. Newest(S) \in S
      BY <3>1, <3>3, NewestIsOne
    <3> QED
      BY <3>1, <3>2, <3>3, <3>4
  <2> DEFINE new == [pc |-> "writing", decl |-> d, perm |-> p]
  <2>4. new \in AccessState /\ new.pc = "writing" /\ new.perm = p
    BY <2>3 DEF AccessState
  <2>5. access' = [access EXCEPT ![a] = new]
    BY <2>2
  <2>6. access[a].pc = "idle" /\ decl' = decl /\ raced' = raced
    BY <1>4 DEF WriteCheck
  <2> HIDE DEF new
  <2>7. /\ access' \in [Access -> AccessState] /\ access'[a] = new
        /\ \A x \in Access : x # a => access'[x] = access[x]
    BY <1>0, <2>4, <2>5
  <2> QED
    BY <1>0, <1>r, <2>3, <2>4, <2>6, <2>7
<1> QED
  BY <1>1, <1>2, <1>3, <1>4 DEF AccessStep

-----------------------------------------------------------------------------
(* The invariant, part by part.                                            *)

NextOther == PermissionEnds \/ \E g \in Grantee : Login(g)

LEMMA OtherEffect ==
  ASSUME TypeOK, NextOther
  PROVE  /\ share' = share /\ decl' = decl /\ access' = access /\ crossed' = crossed
         /\ raced' = raced /\ session' \subseteq Grantee
BY DEF NextOther, PermissionEnds, Login, TypeOK

LEMMA AccessCases ==
  ASSUME [Next]_vars
  PROVE  \/ UNCHANGED vars
         \/ \E b \in Bridge : BridgeStep(b)
         \/ \E d \in Declaration : DeclarationStep(d)
         \/ \E a \in Access : AccessStep(a)
         \/ NextOther
BY DEF Next, NextOther

\* What the rows bound stays in bounds.
DeclBounds(d) ==
  decl[d].pc # "none" => decl[d].perm \in 0..Len(perms) /\ decl[d].seen \subseteq DOMAIN perms

WriteBounds(a) == access[a].pc = "writing" => access[a].perm \in DOMAIN perms

LEMMA NextTypeOK ==
  ASSUME AccessShape, Negotiated, [Next]_vars
  PROVE  TypeOK'
<1> USE DEF AccessShape
<1>1. RowsKept
  BY RowsStable
<1>k. /\ \A d \in Declaration : DeclBounds(d)
      /\ \A a \in Access : WriteBounds(a)
      /\ Len(perms) \in Nat /\ Len(perms') \in Nat
  BY <1>1, RowIndices, LenProperties DEF TypeOK, DeclBounds, WriteBounds, RowsKept
<1>2. ASSUME decl' = decl
      PROVE  \A d \in Declaration : DeclBounds(d)'
  BY <1>1, <1>2, <1>k DEF DeclBounds, RowsKept
<1>3. ASSUME access' = access
      PROVE  \A a \in Access : WriteBounds(a)'
  BY <1>1, <1>3, <1>k DEF WriteBounds, RowsKept
<1>4. SUFFICES /\ share' \in [Bridge -> ShareState]
               /\ decl' \in [Declaration -> DeclState]
               /\ access' \in [Access -> AccessState]
               /\ session' \subseteq Grantee /\ crossed' \subseteq Bridge
               /\ raced' \subseteq Declaration
               /\ \A d \in Declaration : DeclBounds(d)'
               /\ \A a \in Access : WriteBounds(a)'
  BY <1>1 DEF TypeOK, RowsKept, DeclBounds, WriteBounds
<1>5. CASE UNCHANGED vars
  BY <1>2, <1>3, <1>5 DEF vars, TypeOK
<1>6. ASSUME NEW b \in Bridge, BridgeStep(b)
      PROVE  <1>4!1
  <2>1. /\ share' \in [Bridge -> ShareState] /\ session' \subseteq Grantee
        /\ decl' = decl /\ access' = access /\ raced' = raced
        /\ crossed' = crossed \/ crossed' = crossed \cup {b}
    BY <1>6, BridgeEffect
  <2> QED
    BY <1>2, <1>3, <2>1 DEF TypeOK
<1>7. ASSUME NEW d \in Declaration, DeclarationStep(d)
      PROVE  \A x \in Declaration : DeclBounds(x)'
  <2>1. perms' = perms /\ \A x \in Declaration : x # d => decl'[x] = decl[x]
    BY <1>7, DeclarationEffect
  <2>2. DeclBounds(d)'
    BY <1>7, <1>k, <2>1, DeclarationEffect DEF DeclBounds, DeclKept
  <2> QED
    BY <1>k, <2>1, <2>2 DEF DeclBounds
<1>8. ASSUME NEW d \in Declaration, DeclarationStep(d)
      PROVE  <1>4!1
  <2>1. /\ decl' \in [Declaration -> DeclState] /\ share' = share /\ session' = session
        /\ access' = access /\ crossed' = crossed /\ raced' = raced
    BY <1>8, DeclarationEffect
  <2> QED
    BY <1>3, <1>7, <1>8, <2>1 DEF TypeOK
<1>9. ASSUME NEW a \in Access, AccessStep(a)
      PROVE  /\ \A x \in Access : WriteBounds(x)'
             /\ \A x \in Declaration : DeclBounds(x)'
             /\ raced' \subseteq Declaration
  <2>1. perms' = perms /\ \A x \in Access : x # a => access'[x] = access[x]
    BY <1>9, AccessEffect
  <2>2. access'[a].pc = "writing" => access'[a].perm \in DOMAIN perms
    BY <1>9, AccessEffect
  <2>3. raced' \subseteq Declaration
    BY <1>9, AccessEffect DEF TypeOK
  <2>4. \A x \in Declaration : DeclBounds(x)'
    <3>1. CASE decl' = decl
      BY <1>2, <3>1
    <3>2. CASE /\ access[a].decl \in Declaration /\ access[a].pc = "reading"
               /\ decl' = [decl EXCEPT ![access[a].decl].pc = "gone"]
      <4> DEFINE d == access[a].decl
      <4>1. d \in Declaration /\ decl[d].pc \in {"live", "gone"}
        BY <3>2 DEF Negotiated, Uses
      <4>2. decl[d] \in Issued
        BY <4>1, DeclRecord
      <4>3. decl'[d].perm = decl[d].perm /\ decl'[d].seen = decl[d].seen
            /\ \A x \in Declaration : x # d => decl'[x] = decl[x]
        BY <3>2, <4>1, <4>2 DEF TypeOK, Issued
      <4> HIDE DEF d
      <4> QED
        BY <1>k, <2>1, <4>1, <4>3 DEF DeclBounds
    <3> QED
      BY <1>9, <3>1, <3>2, AccessEffect
  <2>5. \A x \in Access : WriteBounds(x)'
    BY <1>k, <2>1, <2>2 DEF WriteBounds
  <2> QED
    BY <2>3, <2>4, <2>5
<1>10. ASSUME NEW a \in Access, AccessStep(a)
       PROVE  <1>4!1
  <2>1. /\ access' \in [Access -> AccessState] /\ decl' \in [Declaration -> DeclState]
        /\ share' = share /\ session' = session /\ crossed' = crossed
    BY <1>10, AccessEffect
  <2> QED
    BY <1>9, <1>10, <2>1 DEF TypeOK
<1>11. CASE NextOther
  BY <1>2, <1>3, <1>11, OtherEffect DEF TypeOK
<1> QED
  BY <1>5, <1>6, <1>8, <1>10, <1>11, AccessCases

LEMMA NextRowsHaveShare ==
  ASSUME AccessShape, Negotiated, [Next]_vars
  PROVE  RowsHaveShare'
<1> USE DEF AccessShape
<1>1. RowsKept /\ \A i \in DOMAIN perms : perms[i].bridge \in Bridge
  BY RowsStable, RowIndices DEF Permission
<1>2. \A b \in Bridge : share[b].pc # "idle" => share'[b].pc # "idle"
  BY AccessCases, BridgeEffect, DeclarationEffect, AccessEffect, OtherEffect DEF vars
<1>3. ASSUME NEW i \in DOMAIN perms'
      PROVE  share'[perms'[i].bridge].pc # "idle"
  <2>1. CASE i \in DOMAIN perms
    BY <1>1, <1>2, <2>1 DEF RowsHaveShare, RowsKept, RowKept
  <2>2. CASE i \notin DOMAIN perms
    <3>1. PICK b \in Bridge : CreatePermission(b)
      <4>1. \/ perms' = perms
            \/ \E b \in Bridge : CreatePermission(b) \/ RevokeBridge(b)
            \/ PermissionEnds
        BY DEF Next, vars, BridgeStep, DeclarationStep, AccessStep, ShareStart, ShareAnswer,
           ShareFails, RevokeAnswer, RevokeFails, NegotiateCheck, NegotiateAsOwner,
           NegotiateIssue, NegotiateFails, DeclarationEnds, ReadCheck, ReadServe, ReadFails,
           WriteCheck, Login
      <4> QED
        BY <2>2, <4>1, RowsRevoked, RowsEnd
    <3>2. perms'[i].bridge = b /\ share[b].pc = "running"
      BY <2>2, <3>1, RowsAppended
    <3> QED
      BY <1>2, <3>2
  <2> QED
    BY <2>1, <2>2
<1> QED
  BY <1>3 DEF RowsHaveShare

\* A declaration in the store stays or goes; what one says never changes; and a
\* new one follows a row in force.
LEMMA DeclStable ==
  ASSUME AccessShape, Negotiated, [Next]_vars, NEW d \in Declaration
  PROVE  /\ decl[d].pc \in {"live", "gone"} =>
              decl'[d].pc \in {"live", "gone"} /\ DeclKept(d)
         /\ decl[d].pc = "gone" => decl'[d].pc = "gone"
         /\ decl'[d].pc # "none" =>
              \/ decl[d].pc # "none" /\ DeclKept(d)
              \/ /\ decl[d].pc = "none" /\ Follows(d)'
                 /\ decl'[d].perm \in 0..Len(perms)
                 /\ decl'[d].perm # 0 => perms[decl'[d].perm].status = "ACTIVE"
                 /\ perms' = perms /\ share' = share /\ crossed' = crossed
<1> USE DEF AccessShape
<1>1. CASE decl'[d] = decl[d]
  BY <1>1 DEF DeclKept
<1>2. CASE \E x \in Declaration : DeclarationStep(x)
  <2>1. PICK x \in Declaration : DeclarationStep(x)
    BY <1>2
  <2>2. CASE x = d
    BY <2>1, <2>2, DeclarationEffect
  <2>3. CASE x # d
    BY <1>1, <2>1, <2>3, DeclarationEffect
  <2> QED
    BY <2>2, <2>3
<1>3. ASSUME NEW a \in Access, AccessStep(a), decl'[d] # decl[d]
      PROVE  decl[d].pc \in {"live", "gone"} /\ decl'[d].pc = "gone" /\ DeclKept(d)
  <2>1. /\ access[a].pc = "reading" /\ access[a].decl \in Declaration
        /\ decl' = [decl EXCEPT ![access[a].decl].pc = "gone"]
    BY <1>3, AccessEffect
  <2>2. access[a].decl = d /\ decl' = [decl EXCEPT ![d].pc = "gone"]
    BY <1>3, <2>1 DEF TypeOK
  <2>3. decl[d].pc \in {"live", "gone"}
    BY <2>1, <2>2 DEF Negotiated, Uses
  <2>4. decl[d] \in Issued
    BY <2>3, DeclRecord
  <2> QED
    BY <2>2, <2>3, <2>4 DEF TypeOK, Issued, DeclKept
<1>4. \/ decl' = decl
      \/ \E x \in Declaration : DeclarationStep(x)
      \/ \E a \in Access : AccessStep(a)
  BY AccessCases, BridgeEffect, OtherEffect DEF vars
<1> QED
  BY <1>1, <1>2, <1>3, <1>4

\* Who uses a declaration after a step used it before, or has just found it live.
LEMMA UsesFrom ==
  ASSUME AccessShape, Negotiated, [Next]_vars, NEW a \in Access, NEW d \in Declaration, Uses(a, d)'
  PROVE  \/ Uses(a, d)
         \/ /\ access[a].pc = "idle" /\ access'[a].pc = "reading"
            /\ decl[d].pc = "live" /\ decl[d].scope > 0 /\ decl' = decl
            /\ raced' = IF Reading(d) THEN raced \cup {d} ELSE raced
            /\ \A x \in Access : x # a => access'[x] = access[x]
<1> USE DEF AccessShape
<1>1. CASE access'[a] = access[a]
  BY <1>1 DEF Uses
<1>2. ASSUME NEW x \in Access, AccessStep(x), access'[a] # access[a]
      PROVE  x = a
  BY <1>2, AccessEffect
<1>3. ASSUME AccessStep(a)
      PROVE  \/ Uses(a, d)
             \/ /\ access[a].pc = "idle" /\ access'[a].pc = "reading"
                /\ decl[d].pc = "live" /\ decl[d].scope > 0 /\ decl' = decl
                /\ raced' = IF Reading(d) THEN raced \cup {d} ELSE raced
                /\ \A x \in Access : x # a => access'[x] = access[x]
  <2>1. CASE /\ access[a].pc = "idle" /\ access'[a].pc = "reading" /\ decl' = decl
             /\ \E y \in Declaration :
                  /\ access'[a] = [pc |-> "reading", decl |-> y]
                  /\ decl[y].pc = "live" /\ decl[y].scope > 0
                  /\ raced' = IF Reading(y) THEN raced \cup {y} ELSE raced
    <3>1. PICK y \in Declaration :
            /\ access'[a] = [pc |-> "reading", decl |-> y]
            /\ decl[y].pc = "live" /\ decl[y].scope > 0
            /\ raced' = IF Reading(y) THEN raced \cup {y} ELSE raced
      BY <2>1
    <3>2. y = d
      BY <3>1 DEF Uses
    <3> QED
      BY <1>3, <2>1, <3>1, <3>2, AccessEffect
  <2>2. CASE /\ access[a].pc = "reading" /\ access'[a].pc = "served"
             /\ access'[a].decl = access[a].decl
    BY <2>2 DEF Uses
  <2>3. CASE access'[a].pc \in {"idle", "writing"}
    BY <2>3 DEF Uses
  <2> QED
    BY <1>3, <2>1, <2>2, <2>3, AccessEffect
<1>4. access' = access \/ \E x \in Access : AccessStep(x)
  BY AccessCases, BridgeEffect, DeclarationEffect, OtherEffect DEF vars
<1> QED
  BY <1>1, <1>2, <1>3, <1>4

LEMMA NextNegotiated ==
  ASSUME AccessShape, Negotiated, [Next]_vars
  PROVE  Negotiated'
<1> USE DEF AccessShape
<1>1. ASSUME NEW d \in Declaration, decl'[d].pc # "none"
      PROVE  Follows(d)'
  <2>1. CASE decl[d].pc # "none" /\ DeclKept(d)
    <3>1. Follows(d) /\ decl[d].seen \subseteq DOMAIN perms
      BY <2>1 DEF Negotiated, TypeOK
    <3> QED
      BY <2>1, <3>1, RowsStable DEF Follows, DeclKept, RowsKept, RowKept
  <2> QED
    BY <1>1, <2>1, DeclStable
<1>2. ASSUME NEW a \in Access, NEW d \in Declaration, Uses(a, d)'
      PROVE  decl'[d].pc \in {"live", "gone"} /\ decl'[d].scope > 0
  BY <1>2, UsesFrom, DeclStable DEF Negotiated, DeclKept
<1> QED
  BY <1>1, <1>2 DEF Negotiated

LEMMA NextConsumed ==
  ASSUME AccessShape, Negotiated, Consumed, [Next]_vars
  PROVE  Consumed'
<1> USE DEF AccessShape
<1>0. raced \subseteq raced'
  BY AccessCases, BridgeEffect, DeclarationEffect, AccessEffect, OtherEffect DEF vars
<1>1. ASSUME NEW d \in Declaration, d \notin raced', NEW a \in Access, NEW b \in Access,
             Uses(a, d)', Uses(b, d)', a # b, Uses(a, d)
      PROVE  FALSE
  <2>1. d \notin raced
    BY <1>0, <1>1
  <2>2. ~Uses(b, d)
    BY <1>1, <2>1 DEF Consumed
  <2>3. /\ decl[d].pc = "live" /\ raced' = IF Reading(d) THEN raced \cup {d} ELSE raced
    BY <1>1, <2>2, UsesFrom
  <2>4. access[a].pc = "reading"
    BY <1>1, <2>1, <2>3 DEF Consumed, Uses
  <2>5. Reading(d)
    BY <1>1, <2>4 DEF Reading, Uses
  <2> QED
    BY <1>1, <2>3, <2>5
<1>2. ASSUME NEW d \in Declaration, d \notin raced', NEW a \in Access, NEW b \in Access,
             Uses(a, d)', Uses(b, d)'
      PROVE  a = b
  BY <1>1, <1>2, UsesFrom
<1>3. ASSUME NEW d \in Declaration, d \notin raced', NEW a \in Access,
             Uses(a, d)', access'[a].pc = "served"
      PROVE  decl'[d].pc = "gone"
  <2>1. d \notin raced /\ Uses(a, d)
    BY <1>0, <1>3, UsesFrom
  <2>2. CASE access[a].pc = "served"
    BY <1>3, <2>1, <2>2, DeclStable DEF Consumed
  <2>3. CASE access[a].pc = "reading"
    <3>1. PICK x \in Access : AccessStep(x)
      BY <1>3, <2>3, AccessCases, BridgeEffect, DeclarationEffect, OtherEffect DEF vars
    <3>2. x = a
      BY <1>3, <2>3, <3>1, AccessEffect
    <3>3. decl' = [decl EXCEPT ![d].pc = "gone"]
      BY <1>3, <2>1, <2>3, <3>1, <3>2, AccessEffect DEF Uses
    <3>4. decl[d] \in Issued
      BY <2>1, DeclRecord DEF Negotiated
    <3> QED
      BY <3>3, <3>4 DEF TypeOK, Issued
  <2> QED
    BY <2>1, <2>2, <2>3 DEF Uses
<1> QED
  BY <1>2, <1>3 DEF Consumed

LEMMA NextEmptied ==
  ASSUME AccessShape, Negotiated, Emptied, [Next]_vars
  PROVE  Emptied'
<1> USE DEF AccessShape
<1>0. RowsKept /\ crossed \subseteq crossed'
  BY RowsStable, AccessCases, BridgeEffect, DeclarationEffect, AccessEffect, OtherEffect DEF vars
<1> DEFINE Empty(b) == share[b].revoke # "none" =>
             share[b].pc # "running" /\ \A i \in RowsOf(b) : perms[i].status = "REVOKED"
<1>1. ASSUME NEW b \in Bridge, b \notin crossed', ~RevokeBridge(b), ~CreatePermission(b)
      PROVE  Empty(b)'
  <2>1. \A i \in RowsOf(b)' : i \in RowsOf(b)
    <3>1. \/ perms' = perms
          \/ \E x \in Bridge : CreatePermission(x) \/ RevokeBridge(x)
          \/ PermissionEnds
      BY DEF Next, vars, BridgeStep, DeclarationStep, AccessStep, ShareStart, ShareAnswer,
         ShareFails, RevokeAnswer, RevokeFails, NegotiateCheck, NegotiateAsOwner,
         NegotiateIssue, NegotiateFails, DeclarationEnds, ReadCheck, ReadServe, ReadFails,
         WriteCheck, Login
    <3>2. \A i \in DOMAIN perms' : i \in DOMAIN perms \/ perms'[i].bridge # b
      BY <1>1, <3>1, RowsAppended, RowsRevoked, RowsEnd
    <3> QED
      BY <1>0, <3>2 DEF RowsOf, RowsKept, RowKept
  <2>2. Empty(b)
    BY <1>0, <1>1 DEF Emptied
  <2>3. /\ share'[b].revoke # "none" => share[b].revoke # "none"
        /\ share'[b].pc = "running" =>
             share[b].pc = "running" \/ share'[b].revoke = "none"
    <3>1. CASE share'[b] = share[b]
      BY <3>1
    <3>2. CASE BridgeStep(b)
      BY <1>1, <3>2, BridgeEffect
    <3>3. share' = share \/ \E x \in Bridge : BridgeStep(x)
      BY AccessCases, DeclarationEffect, AccessEffect, OtherEffect DEF vars
    <3> QED
      BY <3>1, <3>2, <3>3, BridgeEffect
  <2>4. \A i \in RowsOf(b) : perms[i].status = "REVOKED" => perms'[i].status = "REVOKED"
    BY <1>0 DEF RowsOf, RowsKept, RowKept
  <2> QED
    BY <2>1, <2>2, <2>3, <2>4
<1>2. ASSUME NEW b \in Bridge, b \notin crossed', RevokeBridge(b)
      PROVE  Empty(b)'
  <2>1. DOMAIN perms' = DOMAIN perms
        /\ \A i \in DOMAIN perms : perms[i].bridge = b => perms'[i].status = "REVOKED"
    BY <1>2, RowsRevoked
  <2>2. \A i \in RowsOf(b)' : perms'[i].status = "REVOKED"
    BY <1>0, <2>1 DEF RowsOf, RowsKept, RowKept
  <2>3. share[b].pc # "running" /\ share'[b].pc = share[b].pc
    BY <1>2 DEF RevokeBridge, TypeOK
  <2> QED
    BY <2>2, <2>3
<1>3. ASSUME NEW b \in Bridge, b \notin crossed', CreatePermission(b)
      PROVE  Empty(b)'
  <2>1. share[b].pc = "running" /\ share[b].revoke = "none"
    BY <1>0, <1>3 DEF Emptied, CreatePermission, TypeOK, ShareState, NoShare
  <2>2. share'[b].revoke = "none"
    BY <1>3, <2>1 DEF CreatePermission, TypeOK
  <2> QED
    BY <2>2
<1> QED
  BY <1>1, <1>2, <1>3 DEF Emptied

-----------------------------------------------------------------------------
(* The theorems.                                                           *)

LEMMA InitAccess == Init => AccessInv
<1> SUFFICES ASSUME Init PROVE AccessInv
  OBVIOUS
<1> USE DEF Init
<1>1. AccessShape
  <2>1. perms \in Seq(Permission) /\ DOMAIN perms = {}
    OBVIOUS
  <2> QED
    BY <2>1 DEF AccessShape, TypeOK, RowsHaveShare, ShareState, DeclState, AccessState,
       NoDecl, NoAccess
<1>2. Negotiated /\ Consumed
  BY DEF Negotiated, Consumed, Uses, NoDecl, NoAccess
<1>3. Emptied
  BY DEF Emptied, NoShare
<1> QED
  BY <1>1, <1>2, <1>3 DEF AccessInv

LEMMA NextAccess == AccessInv /\ [Next]_vars => AccessInv'
BY NextTypeOK, NextRowsHaveShare, NextNegotiated, NextConsumed, NextEmptied
   DEF AccessInv, AccessShape

\* What SHARE, REVOKE, NEGOTIATE and the accesses keep true between their steps:
\* the invariant the properties below follow from.
THEOREM AccessInvariant == Spec => []AccessInv
BY InitAccess, NextAccess, PTL DEF Spec

\* Every reachable state has its type: a declaration's row and the rows it saw
\* are among the permissions.
THEOREM AccessTypeCorrect == Spec => []TypeOK
<1>1. AccessInv => TypeOK
  BY DEF AccessInv, AccessShape
<1> QED
  BY <1>1, AccessInvariant, PTL

\* A declaration yields content at most once unless two reads overlapped between
\* the check of the store and the deletion (readContent).
THEOREM ServedOnce == Spec => []ServeOnceUnlessRaced
<1>1. AccessInv => ServeOnceUnlessRaced
  BY DEF AccessInv, Consumed, Uses, ServeOnceUnlessRaced
<1> QED
  BY <1>1, AccessInvariant, PTL

\* What is served was negotiated as the owner or within a grant in force, with
\* no block in force (negotiate, checkPermission, readContent).
THEOREM ReadsGranted == Spec => []ReadsFollowGrant
<1>1. ASSUME AccessInv, NEW a \in Access, access[a].pc = "served"
      PROVE  LET d == decl[access[a].decl] IN
             /\ d.scope > 0
             /\ \/ d.to = Owner
                \/ LET p == perms[d.perm] IN
                   /\ p.offer.to = d.to
                   /\ p.capsule = d.capsule
                   /\ ~p.offer.block
                   /\ d.scope <= p.offer.scope
                   /\ d.to \in AiAgent /\ d.scope = FULL => p.offer.ai_full
                   /\ \A i \in d.seen : ~perms[i].offer.block
  <2>1. PICK x \in Declaration : x = access[a].decl
    BY <1>1, AccessRecord DEF AccessInv, AccessShape
  <2>2. decl[x].scope > 0 /\ Follows(x)
    BY <1>1, <2>1 DEF AccessInv, Negotiated, Uses
  <2> QED
    BY <2>1, <2>2 DEF Follows
<1>2. AccessInv => ReadsFollowGrant
  BY <1>1 DEF ReadsFollowGrant
<1> QED
  BY <1>2, AccessInvariant, PTL

\* An answered revocation leaves no row of its bridge in force, unless it
\* overtook the share (revokeBridge).
THEOREM RevocationEmpties == Spec => []RevokedBridgeEmpty
<1>1. AccessInv => RevokedBridgeEmpty
  BY DEF AccessInv, Emptied, RevokedBridgeEmpty
<1> QED
  BY <1>1, AccessInvariant, PTL

\* After the answer no negotiation and no write check goes by a row of the
\* bridge (checkPermission, updateCapsule).
THEOREM RevocationStopsAccess == Spec => NewAccessStopsAtRevoke
<1> DEFINE Stops == /\ \A d \in Declaration :
                         decl[d].pc = "none" /\ decl'[d].pc = "issuing" /\ decl'[d].perm # 0 =>
                           ~Closed(decl'[d].perm)
                    /\ \A a \in Access :
                         access[a].pc = "idle" /\ access'[a].pc = "writing" =>
                           ~Closed(access'[a].perm)
<1>1. ASSUME AccessInv, NEW i \in DOMAIN perms, Closed(i)
      PROVE  perms[i].status = "REVOKED"
  BY <1>1, RowIndices DEF AccessInv, AccessShape, Closed, Emptied, RowsOf, Permission
<1>2. ASSUME AccessInv, [Next]_vars, NEW d \in Declaration,
             decl[d].pc = "none", decl'[d].pc = "issuing", decl'[d].perm # 0
      PROVE  ~Closed(decl'[d].perm)
  <2>1. /\ decl'[d].perm \in 0..Len(perms) /\ perms[decl'[d].perm].status = "ACTIVE"
    BY <1>2, DeclStable DEF AccessInv
  <2>2. decl'[d].perm \in DOMAIN perms
    BY <1>2, <2>1, RowIndices DEF AccessInv, AccessShape
  <2> QED
    BY <1>1, <1>2, <2>1, <2>2
<1>3. ASSUME AccessInv, [Next]_vars, NEW a \in Access,
             access[a].pc = "idle", access'[a].pc = "writing"
      PROVE  ~Closed(access'[a].perm)
  <2>1. PICK x \in Access : AccessStep(x)
    BY <1>3, AccessCases, BridgeEffect, DeclarationEffect, OtherEffect
       DEF AccessInv, AccessShape, vars
  <2>2. x = a
    BY <1>3, <2>1, AccessEffect DEF AccessInv, AccessShape
  <2>3. /\ access'[a].perm \in DOMAIN perms /\ perms[access'[a].perm].status = "ACTIVE"
    BY <1>3, <2>1, <2>2, AccessEffect DEF AccessInv, AccessShape
  <2> QED
    BY <1>1, <1>3, <2>3
<1>4. AccessInv /\ [Next]_vars => [Stops]_vars
  BY <1>2, <1>3
<1>5. Spec => [][Stops]_vars
  BY <1>4, AccessInvariant, PTL DEF Spec
<1> QED
  BY <1>5 DEF NewAccessStopsAtRevoke
=============================================================================
