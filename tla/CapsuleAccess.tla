--------------------------- MODULE CapsuleAccess ---------------------------
(***************************************************************************)
(* Who may reach a capsule: the COSMP services SHARE, REVOKE, NEGOTIATE,   *)
(* the access check of readContent and that of an attributed write         *)
(* (cosmp/*.service.ts, packages/database/src/queries/permission.ts).      *)
(*                                                                         *)
(* An owner shares a set of capsules in one call, a bridge of permission   *)
(* rows, one transaction per capsule.  A grantee negotiates an access      *)
(* declaration from a permission; the declaration, a signed token that is  *)
(* also an entry of the declaration store, is what a read presents.  What  *)
(* is read and written is CapsuleStore.                                    *)
(*                                                                         *)
(* The gates that look only at the requester and the capsule (clearance,   *)
(* jurisdiction, lawful basis, compliance, ai_access_blocked,              *)
(* requires_validation) may refuse any call: a refusal before the first    *)
(* state change is no step, a later one is NegotiateFails or ReadFails.    *)
(***************************************************************************)
EXTENDS Naturals, Sequences

CONSTANTS
  Capsule,      \* the capsules of one owner
  Owner,        \* their owner
  Grantee,      \* the other entities
  AiAgent,      \* those of them that are AI_AGENT
  Bridge,       \* calls of share, and the bridge_ids they mint
  Declaration,  \* calls of negotiate, and the declaration_ids they mint
  Access,       \* calls of readContent and of updateCapsule by a grantee
  Offers,       \* what the owner may grant in a share
  Requested,    \* the scopes a negotiation may ask for
  MaxRows       \* bound on the permission rows

ASSUME EntityAssumption == Owner \notin Grantee /\ AiAgent \subseteq Grantee
ASSUME MaxRowsAssumption == MaxRows \in Nat

\* METADATA_ONLY, SUMMARY, FULL.
Scope == 0..2
FULL == 2

\* duration_type NONE is a block; "ai_full" and "write" are the conditions of
\* permissionAllowsAiFull and permissionAllowsWrite.
Offer == [to: Grantee, block: BOOLEAN, scope: Scope, ai_full: BOOLEAN, write: BOOLEAN]

ASSUME OffersAssumption == Offers \subseteq Offer /\ Requested \subseteq Scope

VARIABLES
  perms,    \* the permission rows, in the order they were created
  share,    \* the calls of share and of revoke, by bridge
  decl,     \* the negotiations and the declaration store
  access,   \* the accesses
  session,  \* the grantees with an active session
  crossed,  \* history: bridges revoked while their share was still running
  raced     \* history: declarations that two reads had checked at once

vars == <<perms, share, decl, access, session, crossed, raced>>

Permission == [bridge: Bridge, capsule: Capsule, offer: Offer,
               status: {"ACTIVE", "REVOKED"}, over: BOOLEAN]

NoShare == [pc |-> "idle", left |-> {}, revoke |-> "none"]

NoDecl == [pc |-> "none"]

NoAccess == [pc |-> "idle"]

ShareState ==
  {NoShare} \cup [pc: {"running", "answered", "failed"}, offer: Offers, left: SUBSET Capsule,
                  revoke: {"none", "committed", "answered"}]

DeclState ==
  {NoDecl} \cup [pc: {"issuing", "live", "gone"}, to: Grantee \cup {Owner}, capsule: Capsule,
                 scope: Scope, perm: Nat, seen: SUBSET Nat]

AccessState ==
  {NoAccess} \cup [pc: {"reading", "served"}, decl: Declaration]
             \cup [pc: {"writing"}, decl: Declaration, perm: Nat]

TypeOK ==
  /\ perms \in Seq(Permission)
  /\ share \in [Bridge -> ShareState]
  /\ decl \in [Declaration -> DeclState]
  /\ \A d \in Declaration : decl[d].pc # "none" =>
       decl[d].perm \in 0..Len(perms) /\ decl[d].seen \subseteq DOMAIN perms
  /\ access \in [Access -> AccessState]
  /\ \A a \in Access : access[a].pc = "writing" => access[a].perm \in DOMAIN perms
  /\ session \subseteq Grantee
  /\ crossed \subseteq Bridge
  /\ raced \subseteq Declaration

Init ==
  /\ perms = <<>>
  /\ share = [b \in Bridge |-> NoShare]
  /\ decl = [d \in Declaration |-> NoDecl]
  /\ access = [a \in Access |-> NoAccess]
  /\ session = Grantee
  /\ crossed = {}
  /\ raced = {}

-----------------------------------------------------------------------------
(***************************************************************************)
(* SHARE.                                                                  *)
(***************************************************************************)

\* The gates of share have passed; the bridge_id is minted.
ShareStart(b) ==
  /\ share[b].pc = "idle"
  /\ \E o \in Offers, S \in SUBSET Capsule \ {{}} :
       share' = [share EXCEPT ![b] =
         [pc |-> "running", offer |-> o, left |-> S, revoke |-> "none"]]
  /\ UNCHANGED <<perms, decl, access, session, crossed, raced>>

\* createPermission: one transaction per capsule.
CreatePermission(b) ==
  /\ share[b].pc = "running"
  /\ Len(perms) < MaxRows
  /\ \E c \in share[b].left :
       /\ perms' = Append(perms, [bridge |-> b, capsule |-> c, offer |-> share[b].offer,
                                  status |-> "ACTIVE", over |-> FALSE])
       /\ share' = [share EXCEPT ![b].left = @ \ {c}]
  /\ UNCHANGED <<decl, access, session, crossed, raced>>

\* invalidateEntitySessions, and the answer.
ShareAnswer(b) ==
  /\ share[b].pc = "running"
  /\ share[b].left = {}
  /\ share' = [share EXCEPT ![b].pc = "answered"]
  /\ session' = session \ {share[b].offer.to}
  /\ UNCHANGED <<perms, decl, access, crossed, raced>>

\* A sovereignty rule or a query throws, or the process dies: the permissions
\* created so far stay.
ShareFails(b) ==
  /\ share[b].pc = "running"
  /\ share' = [share EXCEPT ![b].pc = "failed", ![b].left = {}]
  /\ UNCHANGED <<perms, decl, access, session, crossed, raced>>

-----------------------------------------------------------------------------
(***************************************************************************)
(* REVOKE.  The owner knows a bridge from the answer of share or from the  *)
(* list of its permissions, where it appears with its first row.           *)
(***************************************************************************)

RowsOf(b) == {i \in DOMAIN perms : perms[i].bridge = b}

\* Mutant: only one row of the bridge is revoked.
RevokedFirst(b) ==
  [i \in DOMAIN perms |->
     IF i \in RowsOf(b) /\ \A j \in RowsOf(b) : i <= j
     THEN [perms[i] EXCEPT !.status = "REVOKED"] ELSE perms[i]]

Revoked(b) ==
  [i \in DOMAIN perms |->
     IF i \in RowsOf(b) THEN [perms[i] EXCEPT !.status = "REVOKED"] ELSE perms[i]]

\* The bridge is found and revokeBridge ends its ACTIVE rows in one
\* transaction.
RevokeBridge(b) ==
  /\ share[b].revoke = "none"
  /\ RowsOf(b) # {}
  /\ perms' = Revoked(b)
  /\ share' = [share EXCEPT ![b].revoke = "committed"]
  /\ crossed' = IF share[b].pc = "running" THEN crossed \cup {b} ELSE crossed
  /\ UNCHANGED <<decl, access, session, raced>>

RevokeAnswer(b) ==
  /\ share[b].revoke = "committed"
  /\ share' = [share EXCEPT ![b].revoke = "answered"]
  /\ session' = session \ {share[b].offer.to}
  /\ UNCHANGED <<perms, decl, access, crossed, raced>>

\* The call dies after its transaction; the owner may try again.
RevokeFails(b) ==
  /\ share[b].revoke = "committed"
  /\ share' = [share EXCEPT ![b].revoke = "none"]
  /\ UNCHANGED <<perms, decl, access, session, crossed, raced>>

-----------------------------------------------------------------------------
(***************************************************************************)
(* NEGOTIATE.                                                              *)
(***************************************************************************)

Newest(S) == CHOOSE i \in S : \A j \in S : j <= i

RowsFor(c, g) ==
  {i \in DOMAIN perms : perms[i].capsule = c /\ perms[i].offer.to = g}

\* Mutant: a revoked permission is still a candidate.
CandidatesAnyStatus(c, g) == {i \in RowsFor(c, g) : ~perms[i].over}

\* The candidates of checkPermission: ACTIVE and not expired.
Candidates(c, g) ==
  {i \in RowsFor(c, g) : perms[i].status = "ACTIVE" /\ ~perms[i].over}

\* Mutant: a block counts only when it is the newest row.
CheckNewestOnly(c, g) ==
  LET S == Candidates(c, g)
  IN  IF S = {} \/ perms[Newest(S)].offer.block THEN {} ELSE {Newest(S)}

\* checkPermission: any block wins, then the newest grant; a set of at most one.
CheckPermission(c, g) ==
  LET S == Candidates(c, g)
  IN  IF S = {} \/ \E i \in S : perms[i].offer.block THEN {} ELSE {Newest(S)}

ScopeMin(s, t) == IF s < t THEN s ELSE t

\* The scope of the declaration: narrowed by the permission and, for an
\* AI_AGENT without the override, to SUMMARY.
Granted(o, requested) ==
  LET narrow == ScopeMin(o.scope, requested)
  IN  IF narrow = FULL /\ o.to \in AiAgent /\ ~o.ai_full THEN 1 ELSE narrow

\* "seen" is history: the rows that were in force for the requester.
Negotiating(d, g, c, s, p) ==
  decl' = [decl EXCEPT ![d] =
    [pc |-> "issuing", to |-> g, capsule |-> c, scope |-> s, perm |-> p,
     seen |-> Candidates(c, g)]]

\* The gates and checkPermission.
NegotiateCheck(d) ==
  /\ decl[d].pc = "none"
  /\ \E g \in session, c \in Capsule, s \in Requested :
       \E p \in CheckPermission(c, g) :
         Negotiating(d, g, c, Granted(perms[p].offer, s), p)
  /\ UNCHANGED <<perms, share, access, session, crossed, raced>>

\* The owner shortcut: the scope asked for, and no permission.
NegotiateAsOwner(d) ==
  /\ decl[d].pc = "none"
  /\ \E c \in Capsule, s \in Requested : Negotiating(d, Owner, c, s, 0)
  /\ UNCHANGED <<perms, share, access, session, crossed, raced>>

\* declarationStore.set, and the answer.
NegotiateIssue(d) ==
  /\ decl[d].pc = "issuing"
  /\ decl' = [decl EXCEPT ![d].pc = "live"]
  /\ UNCHANGED <<perms, share, access, session, crossed, raced>>

\* A later gate refuses, or the call dies: nothing was stored.
NegotiateFails(d) ==
  /\ decl[d].pc = "issuing"
  /\ decl' = [decl EXCEPT ![d] = NoDecl]
  /\ UNCHANGED <<perms, share, access, session, crossed, raced>>

-----------------------------------------------------------------------------
(***************************************************************************)
(* readContent and the attributed write.                                   *)
(***************************************************************************)

HasSession(g) == g = Owner \/ g \in session

\* Some read has found d in the store and not yet deleted it.
Reading(d) == \E a \in Access : access[a].pc = "reading" /\ access[a].decl = d

\* Mutant: the store is not asked.
LiveByTokenOnly(d) == decl[d].pc \in {"live", "gone"}

\* validateDeclaration: the token has not run out and is in the store.
Live(d) == decl[d].pc = "live"

\* The session and the declaration are checked; a METADATA_ONLY declaration is
\* refused.
ReadCheck(a) ==
  /\ access[a].pc = "idle"
  /\ \E d \in Declaration :
       /\ Live(d)
       /\ HasSession(decl[d].to)
       /\ decl[d].scope > 0
       /\ access' = [access EXCEPT ![a] = [pc |-> "reading", decl |-> d]]
       /\ raced' = IF Reading(d) THEN raced \cup {d} ELSE raced
  /\ UNCHANGED <<perms, share, decl, session, crossed>>

\* The content has been fetched and audited: the declaration is deleted from
\* the store, whether or not it is still there, and the content returned.
ReadServe(a) ==
  /\ access[a].pc = "reading"
  /\ access' = [access EXCEPT ![a].pc = "served"]
  /\ decl' = [decl EXCEPT ![access[a].decl].pc = "gone"]
  /\ UNCHANGED <<perms, share, session, crossed, raced>>

\* The fingerprint, the clearance or the jurisdiction fails, the content is
\* missing, or the call dies: the declaration is not consumed, and the client may
\* come again.
ReadFails(a) ==
  /\ access[a].pc = "reading"
  /\ access' = [access EXCEPT ![a] = NoAccess]
  /\ UNCHANGED <<perms, share, decl, session, crossed, raced>>

\* Mutant: no row is as good as one.
WriteRowOrNull(c, g) ==
  LET S == {i \in RowsFor(c, g) : perms[i].status = "ACTIVE"}
  IN  IF S = {} THEN {0} ELSE {Newest(S)}

\* The permission an attributed write goes by: the newest ACTIVE row, expired
\* or not, a block or not, if its conditions allow writing.
WriteRow(c, g) ==
  LET S == {i \in RowsFor(c, g) : perms[i].status = "ACTIVE"}
  IN  IF S = {} \/ ~perms[Newest(S)].offer.write THEN {} ELSE {Newest(S)}

\* The gate of updateCapsule for a grantee: a live declaration of any scope,
\* which is not consumed, and the permission.
WriteCheck(a) ==
  /\ access[a].pc = "idle"
  /\ \E d \in Declaration :
       /\ Live(d)
       /\ decl[d].to \in session
       /\ \E p \in WriteRow(decl[d].capsule, decl[d].to) :
            access' = [access EXCEPT ![a] = [pc |-> "writing", decl |-> d, perm |-> p]]
  /\ UNCHANGED <<perms, share, decl, session, crossed, raced>>

-----------------------------------------------------------------------------
(***************************************************************************)
(* Time, and the grantees' logins.                                         *)
(***************************************************************************)

\* expires_at of a permission passes; its status stays ACTIVE.
PermissionEnds ==
  \E i \in DOMAIN perms :
    /\ ~perms[i].over
    /\ perms' = [perms EXCEPT ![i].over = TRUE]
    /\ UNCHANGED <<share, decl, access, session, crossed, raced>>

\* DECLARATION_TTL_SECONDS are over, or the store has lost its entry.
DeclarationEnds(d) ==
  /\ decl[d].pc = "live"
  /\ decl' = [decl EXCEPT ![d].pc = "gone"]
  /\ UNCHANGED <<perms, share, access, session, crossed, raced>>

Login(g) ==
  /\ g \notin session
  /\ session' = session \cup {g}
  /\ UNCHANGED <<perms, share, decl, access, crossed, raced>>

BridgeStep(b) ==
  \/ ShareStart(b) \/ CreatePermission(b) \/ ShareAnswer(b) \/ ShareFails(b)
  \/ RevokeBridge(b) \/ RevokeAnswer(b) \/ RevokeFails(b)

DeclarationStep(d) ==
  \/ NegotiateCheck(d) \/ NegotiateAsOwner(d)
  \/ NegotiateIssue(d) \/ NegotiateFails(d) \/ DeclarationEnds(d)

AccessStep(a) == ReadCheck(a) \/ ReadServe(a) \/ ReadFails(a) \/ WriteCheck(a)

Next ==
  \/ \E b \in Bridge : BridgeStep(b)
  \/ \E d \in Declaration : DeclarationStep(d)
  \/ \E a \in Access : AccessStep(a)
  \/ PermissionEnds
  \/ \E g \in Grantee : Login(g)

Spec == Init /\ [][Next]_vars

-----------------------------------------------------------------------------
(***************************************************************************)
(* Properties.                                                             *)
(***************************************************************************)

\* A declaration yields content once, unless two reads had both found it in
\* the store before either deleted it (readContent's has and delete are
\* separate calls).
ServeOnceUnlessRaced ==
  \A d \in Declaration \ raced :
    \A a, b \in Access :
      (/\ access[a].pc = "served" /\ access[a].decl = d
       /\ access[b].pc = "served" /\ access[b].decl = d) => a = b

\* What is served goes back to the owner, or to a grant of the owner to this
\* reader for this capsule: not wider than the grant, never FULL for an AI
\* without the human override, and not negotiated while a block was in force,
\* older or newer than the grant (checkPermission, negotiate, readContent).
ReadsFollowGrant ==
  \A a \in Access : access[a].pc = "served" =>
    LET d == decl[access[a].decl] IN
    /\ d.scope > 0
    /\ \/ d.to = Owner
       \/ LET p == perms[d.perm] IN
          /\ p.offer.to = d.to
          /\ p.capsule = d.capsule
          /\ ~p.offer.block
          /\ d.scope <= p.offer.scope
          /\ d.to \in AiAgent /\ d.scope = FULL => p.offer.ai_full
          /\ \A i \in d.seen : ~perms[i].offer.block

\* Once the revocation of a bridge is answered no permission of it is in
\* force, failed shares included, unless the share was still creating
\* permissions when its bridge was revoked (revokeBridge).
RevokedBridgeEmpty ==
  \A b \in Bridge \ crossed : share[b].revoke = "answered" =>
    \A i \in RowsOf(b) : perms[i].status = "REVOKED"

\* The bridge of row p has been revoked, with an answer.
Closed(p) ==
  share[perms[p].bridge].revoke = "answered" /\ perms[p].bridge \notin crossed

\* From then on nobody negotiates or passes the write check on a permission of
\* the bridge.  (Declarations issued before live on until they end.)
NewAccessStopsAtRevoke ==
  [][/\ \A d \in Declaration :
          decl[d].pc = "none" /\ decl'[d].pc = "issuing" /\ decl'[d].perm # 0 =>
            ~Closed(decl'[d].perm)
     /\ \A a \in Access :
          access[a].pc = "idle" /\ access'[a].pc = "writing" =>
            ~Closed(access'[a].perm)]_vars
=============================================================================
