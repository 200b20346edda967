---------------------------- MODULE DualControl ----------------------------
(***************************************************************************)
(* Two-person control of the privileged endpoints.                         *)
(*                                                                         *)
(* A request to a privileged endpoint goes through the requireDualControl  *)
(* preHandler (dual-control.middleware.ts): it looks for an APPROVED       *)
(* escalation of its caller, falls back to a break-glass grant, and        *)
(* otherwise opens a PENDING escalation for another operator and is        *)
(* refused.  The guarded handlers modelled here are the grant and the      *)
(* revocation of can_admin_niov (platform-authority.service.ts), which     *)
(* bind the approval to the request body and spend it in their own         *)
(* transaction, and the monetization config update, which has a standing   *)
(* approval.                                                               *)
(*                                                                         *)
(* Every database transaction that reads a row and then updates it by id   *)
(* is two steps here, because under READ COMMITTED another one may commit  *)
(* in between.  "raced" is a history variable: the objects on which two    *)
(* such read-then-write windows have overlapped.                           *)
(***************************************************************************)
EXTENDS Naturals, FiniteSets

CONSTANTS
  Person,           \* entities, ordered as their entity_id are
  InitialOperators, \* the holders of can_admin_niov at the start
  Dedicated,        \* the persons validateTarget accepts: active, no org admin
  Request,          \* clients, each with one request to a privileged endpoint
  Call,             \* HTTP requests that decide an escalation or close a grant
  Escalation,       \* escalation rows
  Grant,            \* break-glass grants
  Floor,            \* PLATFORM_OPERATOR_FLOOR
  Wanted,           \* who asks for what: pairs of a person and an ask
  Census,           \* the count of operators, as an object of "raced"
  None              \* a reference that is null

ASSUME PersonAssumption ==
  /\ Person \subseteq Nat
  /\ InitialOperators \subseteq Person
  /\ Dedicated \subseteq Person
ASSUME FloorAssumption ==
  /\ IsFiniteSet(InitialOperators)
  /\ Floor \in Nat /\ Cardinality(InitialOperators) >= Floor
ASSUME IdAssumption ==
  /\ None \notin Escalation \cup Grant \cup Person
  /\ Escalation \cap Grant = {}
  /\ Census \notin Escalation \cup Grant \cup Wanted
  /\ IsFiniteSet(Request) /\ IsFiniteSet(Call)

VARIABLES
  operators,  \* the entities whose TAR has can_admin_niov
  esc,        \* the DUAL_CONTROL_REQUIRED rows of escalation_requests
  grants,     \* the rows of break_glass_grants
  req,        \* the clients' requests to privileged endpoints
  call,       \* the approve, reject, review and expire transactions
  raced       \* history: objects two read-then-write windows of which overlapped

vars == <<operators, esc, grants, req, call, raced>>

(***************************************************************************)
(* Endpoints: "grant" and "revoke" carry payloadBinding, "config" does     *)
(* not.  An ask is what a request wants: the endpoint and, hashed from its *)
(* body, the person it is about.                                           *)
(***************************************************************************)
Bound == {"grant", "revoke"}

Ask == [endpoint: Bound, body: Person] \cup [endpoint: {"config"}, body: {None}]

EscStatus == {"NONE", "PENDING", "APPROVED", "REJECTED", "EXPIRED"}

GrantStatus == {"NONE", "ACTIVE", "USED", "EXPIRED", "REVIEWED"}

ReqPc == {"idle", "lookup", "glass", "mark", "marked", "resolve", "create",
          "handler", "commit", "effected"}

Verdict == {"approve", "reject"}

Closing == {"expire", "review"}

CallPc == {"idle", "read", "done"}

ASSUME WantedAssumption == Wanted \subseteq Person \X Ask

NoAsk == [endpoint |-> "config", body |-> None]

NoEsc == [status |-> "NONE", source |-> None, target |-> None, ask |-> NoAsk,
          consumed |-> FALSE]

NoGrant == [status |-> "NONE", source |-> None, endpoint |-> "config"]

NoReq == [pc |-> "idle", caller |-> None, ask |-> NoAsk, target |-> None,
          auth |-> None]

NoCall == [pc |-> "idle", kind |-> "approve", by |-> None, of |-> None,
           meta |-> FALSE]

EscRow == [status: EscStatus, source: Person \cup {None}, target: Person \cup {None},
           ask: Ask, consumed: BOOLEAN]

GrantRow == [status: GrantStatus, source: Person \cup {None}, endpoint: Bound \cup {"config"}]

RequestState == [pc: ReqPc, caller: Person \cup {None}, ask: Ask,
                 target: Person \cup {None}, auth: Escalation \cup Grant \cup {None}]

CallState == [pc: CallPc, kind: Verdict \cup Closing, by: Person \cup {None},
              of: Escalation \cup Grant \cup {None}, meta: BOOLEAN]

TypeOK ==
  /\ operators \subseteq Person
  /\ esc \in [Escalation -> EscRow]
  /\ grants \in [Grant -> GrantRow]
  /\ req \in [Request -> RequestState]
  /\ call \in [Call -> CallState]
  /\ raced \subseteq Escalation \cup Grant \cup {Census} \cup Wanted

Init ==
  /\ operators = InitialOperators
  /\ esc = [e \in Escalation |-> NoEsc]
  /\ grants = [g \in Grant |-> NoGrant]
  /\ req = [r \in Request |-> NoReq]
  /\ call = [c \in Call |-> NoCall]
  /\ raced = {}

-----------------------------------------------------------------------------
(***************************************************************************)
(* The preHandlers of a privileged route.                                  *)
(***************************************************************************)

Goto(r, pc) == req' = [req EXCEPT ![r].pc = pc]

\* The client is answered without the privileged effect; it may ask again.
Deny(r) == req' = [req EXCEPT ![r] = NoReq]

Proceed(r, pc, auth) == req' = [req EXCEPT ![r].pc = pc, ![r].auth = auth]

\* requireAdminCapability: the caller's TAR is read once, when the request
\* arrives.
Submit(r) ==
  /\ req[r].pc = "idle"
  /\ \E w \in Wanted :
       /\ w[1] \in operators
       /\ req' = [req EXCEPT ![r] =
                    [NoReq EXCEPT !.pc = "lookup", !.caller = w[1], !.ask = w[2]]]
  /\ UNCHANGED <<operators, esc, grants, call, raced>>

\* Mutant: the lookup ignores the payload hash.
ApprovedAnyBody(p, a) ==
  {e \in Escalation : /\ esc[e].status = "APPROVED"
                      /\ esc[e].source = p
                      /\ esc[e].ask.endpoint = a.endpoint
                      /\ a.endpoint \in Bound => ~esc[e].consumed}

\* The escalations findApprovedDualControlForCaller may return.  On a bound
\* endpoint the stamped hash must be this body's and the row not consumed.
Approved(p, a) ==
  {e \in Escalation :
     /\ esc[e].status = "APPROVED"
     /\ esc[e].source = p
     /\ esc[e].ask = a
     /\ a.endpoint \in Bound => ~esc[e].consumed}

\* The lookup and evaluateDualControlState.  The query takes the row resolved
\* last; which of several approvals is used makes no difference below.
Lookup(r) ==
  /\ req[r].pc = "lookup"
  /\ LET found == Approved(req[r].caller, req[r].ask) IN
       \/ \E e \in found : Proceed(r, "handler", e)
       \/ found = {} /\ Goto(r, "glass")
  /\ UNCHANGED <<operators, esc, grants, call, raced>>

\* validateBreakGlassGrant: an ACTIVE grant of the caller for the endpoint.
ValidGrant(p, endpoint) ==
  {g \in Grant : /\ grants[g].status = "ACTIVE"
                 /\ grants[g].source = p
                 /\ grants[g].endpoint = endpoint}

\* The clock is either inside valid_from..valid_until of the grant, or it is
\* outside and the grant is not found.
ValidateBreakGlassGrant(r) ==
  /\ req[r].pc = "glass"
  /\ \/ \E g \in ValidGrant(req[r].caller, req[r].ask.endpoint) :
          Proceed(r, "mark", g)
     \/ Goto(r, "resolve")
  /\ UNCHANGED <<operators, esc, grants, call, raced>>

\* Some transaction has read grant g and not yet written it.
Touching(g) ==
  \/ \E r \in Request : req[r].pc = "marked" /\ req[r].auth = g
  \/ \E c \in Call : call[c].pc = "read" /\ call[c].of = g

\* Some transaction that decides e has read it PENDING and not yet written.
Deciding(e) == \E c \in Call : call[c].pc = "read" /\ call[c].of = e

\* Reading o opens a window on it: if one is open already the two race.
Race(o, open) == raced' = IF open THEN raced \cup {o} ELSE raced

\* Mutant: the transaction trusts the earlier validation.
MarkUnread(r) ==
  /\ req[r].pc = "mark"
  /\ Goto(r, "marked")
  /\ Race(req[r].auth, Touching(req[r].auth))
  /\ UNCHANGED <<operators, esc, grants, call>>

\* markBreakGlassUsed, first half: the row is read inside the transaction.
\* If it is no longer ACTIVE the throw is caught and the request goes on to
\* the normal denied path.
MarkRead(r) ==
  /\ req[r].pc = "mark"
  /\ \/ /\ grants[req[r].auth].status = "ACTIVE"
        /\ Goto(r, "marked")
        /\ Race(req[r].auth, Touching(req[r].auth))
     \/ /\ grants[req[r].auth].status # "ACTIVE"
        /\ Proceed(r, "resolve", None)
        /\ UNCHANGED raced
  /\ UNCHANGED <<operators, esc, grants, call>>

\* markBreakGlassUsed, second half: an update by id, whatever the status is
\* by now.  The middleware then delegates to the handler.
MarkWrite(r) ==
  /\ req[r].pc = "marked"
  /\ grants' = [grants EXCEPT ![req[r].auth].status = "USED"]
  /\ Goto(r, "handler")
  /\ UNCHANGED <<operators, esc, call, raced>>

\* resolveDualControlTarget, the can_admin_niov class: the other operators.
Candidates(p) == operators \ {p}

Least(S) == CHOOSE p \in S : \A q \in S : p <= q

Pending(p, a) ==
  {e \in Escalation : /\ esc[e].status = "PENDING"
                      /\ esc[e].source = p
                      /\ esc[e].ask = a}

\* Another request of the same caller has found no pending escalation for the
\* same ask and is about to create one.
Creating(p, a) ==
  \E r \in Request : /\ req[r].pc = "create"
                     /\ req[r].caller = p
                     /\ req[r].ask = a

\* Mutant: no look for an escalation that is already open.
ResolveWithoutFind(r) ==
  /\ req[r].pc = "resolve"
  /\ LET p == req[r].caller
         a == req[r].ask
     IN \/ /\ Candidates(p) = {}
           /\ Deny(r)
           /\ UNCHANGED raced
        \/ /\ Candidates(p) # {}
           /\ req' = [req EXCEPT ![r].pc = "create",
                                 ![r].target = Least(Candidates(p))]
           /\ Race(<<p, a>>, Creating(p, a))
  /\ UNCHANGED <<operators, esc, grants, call>>

\* Target resolution and the find of getOrCreatePendingDualControlForCaller:
\* with no candidate the request fails closed, with a PENDING row it is denied.
ResolveTarget(r) ==
  /\ req[r].pc = "resolve"
  /\ LET p == req[r].caller
         a == req[r].ask
     IN \/ /\ Candidates(p) = {} \/ Pending(p, a) # {}
           /\ Deny(r)
           /\ UNCHANGED raced
        \/ /\ Candidates(p) # {} /\ Pending(p, a) = {}
           /\ req' = [req EXCEPT ![r].pc = "create",
                                 ![r].target = Least(Candidates(p))]
           /\ Race(<<p, a>>, Creating(p, a))
  /\ UNCHANGED <<operators, esc, grants, call>>

\* createEscalationForCaller, with the payload hash stamped on the row.
CreatePending(r) ==
  /\ req[r].pc = "create"
  /\ \E e \in Escalation :
       /\ esc[e].status = "NONE"
       /\ esc' = [esc EXCEPT ![e] =
                    [status |-> "PENDING", source |-> req[r].caller,
                     target |-> req[r].target, ask |-> req[r].ask,
                     consumed |-> FALSE]]
  /\ Deny(r)
  /\ UNCHANGED <<operators, grants, call, raced>>

-----------------------------------------------------------------------------
(***************************************************************************)
(* The guarded handlers.                                                   *)
(***************************************************************************)

\* A revocation has passed the floor check and not yet lowered its target.
Lowering == \E r \in Request : req[r].pc = "commit" /\ req[r].ask.endpoint = "revoke"

\* The reads of grantAdminNiov: validateTarget and the already-operator check.
GrantChecks(r) ==
  /\ req[r].pc = "handler"
  /\ req[r].ask.endpoint = "grant"
  /\ LET t == req[r].ask.body IN
       \/ /\ t \in Dedicated \ (operators \cup {req[r].caller})
          /\ Goto(r, "commit")
       \/ /\ t \notin Dedicated \ (operators \cup {req[r].caller})
          /\ Deny(r)
  /\ UNCHANGED <<operators, esc, grants, call, raced>>

\* Mutant: the floor is compared with the census before the revocation.
RevokeChecksOffByOne(r) ==
  /\ req[r].pc = "handler"
  /\ req[r].ask.endpoint = "revoke"
  /\ req[r].ask.body \in (Dedicated \cap operators) \ {req[r].caller}
  /\ Cardinality(operators) >= Floor
  /\ Goto(r, "commit")
  /\ Race(Census, Lowering)
  /\ UNCHANGED <<operators, esc, grants, call>>

\* The reads of revokeAdminNiov: validateTarget, not-operator, and the census
\* the floor is judged against.
RevokeChecks(r) ==
  /\ req[r].pc = "handler"
  /\ req[r].ask.endpoint = "revoke"
  /\ LET t == req[r].ask.body IN
       \/ /\ t \in (Dedicated \cap operators) \ {req[r].caller}
          /\ Cardinality(operators) > Floor
          /\ Goto(r, "commit")
          /\ Race(Census, Lowering)
       \/ /\ \/ t \notin (Dedicated \cap operators) \ {req[r].caller}
             \/ Cardinality(operators) <= Floor
          /\ Deny(r)
          /\ UNCHANGED raced
  /\ UNCHANGED <<operators, esc, grants, call>>

\* Mutants: the update is unconditional; the status is left APPROVED.
ConsumableAlways(e) == TRUE
ConsumeKeepsStatus(e) == esc' = [esc EXCEPT ![e].consumed = TRUE]

\* consumeApprovedDualControlInTx: a status-conditioned update.
Consumable(e) == esc[e].status = "APPROVED"

Consume(e) ==
  esc' = [esc EXCEPT ![e].status = "EXPIRED", ![e].consumed = TRUE]

\* applyAuthorityChange: one transaction that spends the approval (there is
\* none under a break-glass grant) and writes the TAR.
ApplyAuthorityChange(r) ==
  /\ req[r].pc = "commit"
  /\ \/ /\ req[r].auth \in Escalation
        /\ Consumable(req[r].auth)
        /\ Consume(req[r].auth)
     \/ /\ req[r].auth \notin Escalation
        /\ UNCHANGED esc
  /\ operators' = IF req[r].ask.endpoint = "grant"
                  THEN operators \cup {req[r].ask.body}
                  ELSE operators \ {req[r].ask.body}
  /\ Goto(r, "effected")
  /\ UNCHANGED <<grants, call, raced>>

\* DUAL_CONTROL_ALREADY_CONSUMED: the transaction rolls back.
ConsumeLost(r) ==
  /\ req[r].pc = "commit"
  /\ req[r].auth \in Escalation
  /\ ~Consumable(req[r].auth)
  /\ Deny(r)
  /\ UNCHANGED <<operators, esc, grants, call, raced>>

\* The handler of an endpoint without payloadBinding: nothing is spent.
UpdateConfig(r) ==
  /\ req[r].pc = "handler"
  /\ req[r].ask.endpoint \notin Bound
  /\ Goto(r, "effected")
  /\ UNCHANGED <<operators, esc, grants, call, raced>>

\* An audit write or a query throws: 503, or a rolled back transaction.
Fail(r) ==
  /\ req[r].pc \notin {"idle", "effected"}
  /\ Deny(r)
  /\ UNCHANGED <<operators, esc, grants, call, raced>>

-----------------------------------------------------------------------------
(***************************************************************************)
(* The second person's calls, and the grants.                              *)
(***************************************************************************)

\* transitionPendingForCaller up to its status check: the caller is not the
\* source and is the target, the row is PENDING.  "meta" says whether the call
\* brings resolution_metadata.
DecideRead(c) ==
  /\ call[c].pc = "idle"
  /\ \E e \in Escalation, v \in Verdict, m \in BOOLEAN :
       LET p == esc[e].target IN
       /\ esc[e].status = "PENDING"
       /\ p # esc[e].source
       /\ call' = [call EXCEPT ![c] =
                     [pc |-> "read", kind |-> v, by |-> p, of |-> e, meta |-> m]]
       /\ Race(e, Deciding(e))
  /\ UNCHANGED <<operators, esc, grants, req>>

\* Mutant: the verdict is stored as the caller spelled it.
DecideWriteVerdict(c) ==
  /\ call[c].pc = "read"
  /\ call[c].kind \in Verdict
  /\ esc' = [esc EXCEPT ![call[c].of].status = call[c].kind]
  /\ call' = [call EXCEPT ![c] = NoCall]
  /\ UNCHANGED <<operators, grants, req, raced>>

\* ... and its update by id.  With metadata of its own the call writes back
\* the metadata it read, which was not consumed.  A committed approval is kept.
DecideWrite(c) ==
  /\ call[c].pc = "read"
  /\ call[c].kind \in Verdict
  /\ esc' = [esc EXCEPT
       ![call[c].of].status =
          IF call[c].kind = "approve" THEN "APPROVED" ELSE "REJECTED",
       ![call[c].of].consumed = IF call[c].meta THEN FALSE ELSE @]
  /\ call' = [call EXCEPT ![c] =
                IF @.kind = "approve" THEN [@ EXCEPT !.pc = "done"] ELSE NoCall]
  /\ UNCHANGED <<operators, grants, req, raced>>

\* createBreakGlassGrant, for one privileged action type.
InvokeGrant(g) ==
  /\ grants[g].status = "NONE"
  /\ \E w \in Wanted :
       /\ w[1] \in operators
       /\ grants' = [grants EXCEPT ![g] =
                       [status |-> "ACTIVE", source |-> w[1],
                        endpoint |-> w[2].endpoint]]
  /\ UNCHANGED <<operators, esc, req, call, raced>>

\* Mutant: a grant may be expired whatever its status.
ClosableAnyStatus(g, kind, p) ==
  grants[g].status # "NONE" /\ (kind = "review" => p # grants[g].source)

\* The status checks of expireBreakGlassGrant and reviewBreakGlassGrant.
Closable(g, kind, p) ==
  IF kind = "expire"
  THEN grants[g].status = "ACTIVE"
  ELSE grants[g].status \notin {"NONE", "REVIEWED"} /\ p # grants[g].source

CloseRead(c) ==
  /\ call[c].pc = "idle"
  /\ \E g \in Grant, k \in Closing, p \in operators :
       /\ Closable(g, k, p)
       /\ call' = [call EXCEPT ![c] =
                     [NoCall EXCEPT !.pc = "read", !.kind = k, !.of = g]]
       /\ Race(g, Touching(g))
  /\ UNCHANGED <<operators, esc, grants, req>>

CloseWrite(c) ==
  /\ call[c].pc = "read"
  /\ call[c].kind \in Closing
  /\ grants' = [grants EXCEPT ![call[c].of].status =
                  IF call[c].kind = "expire" THEN "EXPIRED" ELSE "REVIEWED"]
  /\ call' = [call EXCEPT ![c] = NoCall]
  /\ UNCHANGED <<operators, esc, req, raced>>

\* The transaction rolls back before its update.
CallFails(c) ==
  /\ call[c].pc = "read"
  /\ call' = [call EXCEPT ![c] = NoCall]
  /\ UNCHANGED <<operators, esc, grants, req, raced>>

RequestStep(r) ==
  \/ Submit(r) \/ Lookup(r) \/ ValidateBreakGlassGrant(r)
  \/ MarkRead(r) \/ MarkWrite(r)
  \/ ResolveTarget(r) \/ CreatePending(r)
  \/ GrantChecks(r) \/ RevokeChecks(r)
  \/ ApplyAuthorityChange(r) \/ ConsumeLost(r) \/ UpdateConfig(r)
  \/ Fail(r)

CallStep(c) ==
  DecideRead(c) \/ DecideWrite(c) \/ CloseRead(c) \/ CloseWrite(c) \/ CallFails(c)

Next ==
  \/ \E r \in Request : RequestStep(r)
  \/ \E c \in Call : CallStep(c)
  \/ \E g \in Grant : InvokeGrant(g)

Spec == Init /\ [][Next]_vars

-----------------------------------------------------------------------------
(***************************************************************************)
(* Properties.                                                             *)
(***************************************************************************)

\* The requests that had their privileged effect under the authority o.
EffectsOf(o) == {r \in Request : req[r].pc = "effected" /\ req[r].auth = o}

\* The committed approvals of escalation e.
ApprovalsOf(e) ==
  {c \in Call : call[c].pc = "done" /\ call[c].of = e}

\* A privileged effect happens only on the word of a second person, given for
\* the same endpoint and, where the endpoint binds its payload, for exactly
\* this body; or under a break-glass grant the caller invoked for that endpoint
\* (dual-control.middleware.ts, escalation.service.ts).
TwoPersonRule ==
  \A r \in Request : req[r].pc = "effected" =>
    \/ /\ req[r].auth \in Escalation
       /\ esc[req[r].auth].ask = req[r].ask
       /\ \E c \in ApprovalsOf(req[r].auth) : call[c].by # req[r].caller
    \/ /\ req[r].auth \in Grant
       /\ grants[req[r].auth].source = req[r].caller
       /\ grants[req[r].auth].endpoint = req[r].ask.endpoint

\* However requests and decisions interleave, a payload-bound escalation never
\* carries more effects than it received approvals, counting the one it still
\* holds (consumeApprovedDualControlInTx).
ApprovalBudget ==
  \A e \in Escalation : esc[e].ask.endpoint \in Bound =>
    Cardinality(EffectsOf(e)) + (IF esc[e].status = "APPROVED" THEN 1 ELSE 0)
      <= Cardinality(ApprovalsOf(e))

AtMostOne(S) == \A x, y \in S : x = y

\* A bound approval authorises one effect, unless two decisions of the same
\* escalation overlapped: the second then revives the row the first one's
\* approval was spent from (transitionPendingForCaller updates by id).
SingleUseUnlessRaced ==
  \A e \in Escalation \ raced :
    esc[e].ask.endpoint \in Bound => AtMostOne(EffectsOf(e))

\* A break-glass grant carries one privileged request, unless two transactions
\* on the grant overlapped (markBreakGlassUsed).
GrantOnceUnlessRaced ==
  \A g \in Grant \ raced : AtMostOne(EffectsOf(g))

\* The mandatory review of a grant is the last word on it, unless it
\* overlapped another transaction on the grant (reviewBreakGlassGrant).
ReviewFinalUnlessRaced ==
  [][\A g \in Grant \ raced' :
       grants[g].status = "REVIEWED" => grants'[g].status = "REVIEWED"]_vars

\* A caller retrying an endpoint has one open escalation for it, unless two of
\* its requests overlapped between the find and the create
\* (getOrCreatePendingDualControlForCaller).
OnePendingUnlessRaced ==
  \A w \in Wanted \ raced : AtMostOne(Pending(w[1], w[2]))

\* The platform keeps at least Floor operators, unless two revocations
\* overlapped between the census and the write (revokeAdminNiov).
FloorUnlessRaced == Census \in raced \/ Cardinality(operators) >= Floor
=============================================================================
