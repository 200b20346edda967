------------------------- MODULE DualControlProofs -------------------------
(***************************************************************************)
(* Proofs about DualControl, for any number of operators, clients,         *)
(* escalations, grants and second-person calls.                            *)
(***************************************************************************)
EXTENDS DualControlInv, FiniteSetTheorems, WellFoundedInduction, TLAPS

-----------------------------------------------------------------------------
(* What the steps of a request do to it, field by field.                   *)

LEMMA ProceedEffect ==
  ASSUME TypeOK, NEW r \in Request, NEW pc \in ReqPc,
         NEW auth \in Escalation \cup Grant \cup {None}, Proceed(r, pc, auth)
  PROVE  /\ req' \in [Request -> RequestState]
         /\ \A q \in Request :
              /\ req'[q].pc = IF q = r THEN pc ELSE req[q].pc
              /\ req'[q].auth = IF q = r THEN auth ELSE req[q].auth
              /\ req'[q].caller = req[q].caller
              /\ req'[q].ask = req[q].ask
BY DEF TypeOK, Proceed, RequestState

LEMMA GotoEffect ==
  ASSUME TypeOK, NEW r \in Request, NEW pc \in ReqPc, Goto(r, pc)
  PROVE  /\ req' \in [Request -> RequestState]
         /\ \A q \in Request :
              /\ req'[q].pc = IF q = r THEN pc ELSE req[q].pc
              /\ req'[q].auth = req[q].auth
              /\ req'[q].caller = req[q].caller
              /\ req'[q].ask = req[q].ask
BY DEF TypeOK, Goto, RequestState

LEMMA TargetEffect ==
  ASSUME TypeOK, NEW r \in Request, NEW t \in Person,
         req' = [req EXCEPT ![r].pc = "create", ![r].target = t]
  PROVE  /\ req' \in [Request -> RequestState]
         /\ \A q \in Request :
              /\ req'[q].pc = IF q = r THEN "create" ELSE req[q].pc
              /\ req'[q].auth = req[q].auth
              /\ req'[q].caller = req[q].caller
              /\ req'[q].ask = req[q].ask
BY DEF TypeOK, RequestState, ReqPc

LEMMA NoReqType == NoReq \in RequestState /\ NoReq.pc = "idle"
BY DEF NoReq, RequestState, ReqPc, NoAsk, Ask

\* A request that is answered is as if there had been none.
LEMMA DenyEffect ==
  ASSUME TypeOK, NEW r \in Request, Deny(r)
  PROVE  /\ req' \in [Request -> RequestState]
         /\ req'[r].pc = "idle"
         /\ \A q \in Request : q # r => req'[q] = req[q]
BY NoReqType DEF TypeOK, Deny

-----------------------------------------------------------------------------
(* Types.                                                                  *)

LEMMA InitShape == Init => ShapeInv
<1> SUFFICES ASSUME Init PROVE ShapeInv
  OBVIOUS
<1>1. NoEsc \in EscRow
  BY DEF NoEsc, EscRow, NoAsk, Ask, EscStatus
<1>2. NoGrant \in GrantRow
  BY DEF NoGrant, GrantRow, GrantStatus
<1>3. NoCall \in CallState /\ NoCall.pc = "idle"
  BY DEF NoCall, CallState, CallPc, Verdict
<1>4. TypeOK
  BY <1>1, <1>2, <1>3, NoReqType, PersonAssumption DEF Init, TypeOK
<1>5. RequestShape /\ CallShape
  BY <1>3, NoReqType DEF Init, RequestShape, CallShape, CallAgrees
<1> QED
  BY <1>4, <1>5 DEF ShapeInv

\* The target of an escalation is one of the candidates: they are ordered.
LEMMA LeastOperator ==
  ASSUME NEW S \in SUBSET Nat, S # {}
  PROVE  Least(S) \in S
<1>1. \E n \in S : \A m \in S : n <= m
  <2> DEFINE Less == {p \in Nat \X Nat : p[1] < p[2]}
  <2>1. IsWellFoundedOn(Less, Nat)
    BY NatLessThanWellFounded DEF OpToRel
  <2>2. \E n \in S : \A m \in S : ~ (<<m, n>> \in Less)
    <3> HIDE DEF Less
    <3> QED
      BY <2>1, WFMin
  <2>3. \A m, n \in Nat : <<m, n>> \in Less <=> m < n
    OBVIOUS
  <2>4. \A m, n \in Nat : ~ (m < n) => n <= m
    OBVIOUS
  <2> QED
    BY <2>2, <2>3, <2>4
<1> QED
  BY <1>1 DEF Least

LEMMA RaceType ==
  ASSUME TypeOK, NEW o \in Escalation \cup Grant \cup {Census} \cup Wanted, NEW open,
         Race(o, open)
  PROVE  raced' \subseteq Escalation \cup Grant \cup {Census} \cup Wanted
BY DEF TypeOK, Race

\* Every step of a request keeps the types, and where the request is agrees
\* with what it has in hand.
LEMMA RequestStepShape ==
  ASSUME ShapeInv, NEW r \in Request, RequestStep(r)
  PROVE  TypeOK' /\ RequestShape'
<1> USE DEF ShapeInv
<1>0. /\ {"idle", "lookup", "glass", "mark", "marked", "resolve", "create",
          "handler", "commit", "effected"} = ReqPc
      /\ Person \subseteq Nat
  BY PersonAssumption DEF ReqPc
<1>1. CASE Submit(r)
  <2>1. PICK w \in Wanted :
          req' = [req EXCEPT ![r] =
                    [NoReq EXCEPT !.pc = "lookup", !.caller = w[1], !.ask = w[2]]]
    BY <1>1 DEF Submit
  <2>2. w[1] \in Person /\ w[2] \in Ask /\ w = <<w[1], w[2]>>
    BY WantedAssumption
  <2> DEFINE new == [NoReq EXCEPT !.pc = "lookup", !.caller = w[1], !.ask = w[2]]
  <2>3. new \in RequestState /\ new.pc = "lookup" /\ new.caller = w[1] /\ new.ask = w[2]
    BY <1>0, <2>2, NoReqType DEF RequestState
  <2> HIDE DEF new
  <2>4. req' \in [Request -> RequestState]
    BY <2>1, <2>3 DEF TypeOK, new
  <2>5. TypeOK'
    BY <1>1, <2>4 DEF Submit, TypeOK
  <2>6. \A q \in Request : req'[q] = IF q = r THEN new ELSE req[q]
    BY <2>1 DEF TypeOK, new
  <2>7. RequestShape'
    BY <2>2, <2>3, <2>6 DEF RequestShape
  <2> QED
    BY <2>5, <2>7
<1>2. CASE Lookup(r)
  <2>1. CASE Goto(r, "glass")
    BY <1>0, <1>2, <2>1, GotoEffect DEF Lookup, TypeOK, RequestShape
  <2>2. ASSUME NEW e \in Escalation, Proceed(r, "handler", e)
        PROVE  TypeOK' /\ RequestShape'
    BY <1>0, <1>2, <2>2, ProceedEffect DEF Lookup, TypeOK, RequestShape
  <2> QED
    BY <1>2, <2>1, <2>2 DEF Lookup, Approved
<1>3. CASE ValidateBreakGlassGrant(r)
  <2>1. CASE Goto(r, "resolve")
    BY <1>0, <1>3, <2>1, GotoEffect DEF ValidateBreakGlassGrant, TypeOK, RequestShape
  <2>2. ASSUME NEW g \in Grant, Proceed(r, "mark", g)
        PROVE  TypeOK' /\ RequestShape'
    <3>1. /\ req' \in [Request -> RequestState]
          /\ \A q \in Request :
               /\ req'[q].pc = IF q = r THEN "mark" ELSE req[q].pc
               /\ req'[q].auth = IF q = r THEN g ELSE req[q].auth
               /\ req'[q].caller = req[q].caller
               /\ req'[q].ask = req[q].ask
      BY <1>0, <2>2, ProceedEffect
    <3>2. RequestShape'
      BY <1>3, <3>1 DEF ValidateBreakGlassGrant, RequestShape
    <3> QED
      BY <1>3, <3>1, <3>2 DEF ValidateBreakGlassGrant, TypeOK
  <2> QED
    BY <1>3, <2>1, <2>2 DEF ValidateBreakGlassGrant, ValidGrant
<1>4. CASE MarkRead(r)
  <2>0. req[r].auth \in Grant
    BY <1>4 DEF MarkRead, RequestShape
  <2>1. CASE Goto(r, "marked") /\ Race(req[r].auth, Touching(req[r].auth))
    <3>1. req' \in [Request -> RequestState] /\ RequestShape'
      BY <1>0, <2>0, <2>1, <1>4, GotoEffect DEF MarkRead, RequestShape
    <3>2. raced' \subseteq Escalation \cup Grant \cup {Census} \cup Wanted
      BY <2>0, <2>1, RaceType
    <3> QED
      BY <1>4, <3>1, <3>2 DEF MarkRead, TypeOK
  <2>2. CASE Proceed(r, "resolve", None) /\ UNCHANGED raced
    <3>1. req' \in [Request -> RequestState] /\ RequestShape'
      BY <1>0, <2>2, <1>4, ProceedEffect DEF MarkRead, RequestShape
    <3> QED
      BY <1>4, <2>2, <3>1 DEF MarkRead, TypeOK
  <2> QED
    BY <1>4, <2>1, <2>2 DEF MarkRead
<1>5. CASE MarkWrite(r)
  <2>1. grants' \in [Grant -> GrantRow]
    BY <1>5 DEF MarkWrite, TypeOK, GrantRow, GrantStatus
  <2>2. Goto(r, "handler") /\ req[r].pc = "marked"
    BY <1>5 DEF MarkWrite
  <2>3. RequestShape'
    BY <1>0, <2>2, GotoEffect DEF RequestShape
  <2> QED
    BY <1>0, <1>5, <2>1, <2>2, <2>3, GotoEffect DEF MarkWrite, TypeOK
<1>6. CASE ResolveTarget(r)
  <2>1. CASE Deny(r) /\ UNCHANGED raced
    BY <1>6, <2>1, DenyEffect DEF ResolveTarget, TypeOK, RequestShape
  <2>2. CASE /\ req' = [req EXCEPT ![r].pc = "create",
                                   ![r].target = Least(Candidates(req[r].caller))]
             /\ Candidates(req[r].caller) # {}
             /\ Race(<<req[r].caller, req[r].ask>>, Creating(req[r].caller, req[r].ask))
    <3>1. <<req[r].caller, req[r].ask>> \in Wanted
      BY <1>6 DEF ResolveTarget, RequestShape
    <3>2. Least(Candidates(req[r].caller)) \in Person
      BY <1>0, <2>2, LeastOperator DEF Candidates, TypeOK
    <3> DEFINE t == Least(Candidates(req[r].caller))
    <3>3. t \in Person /\ req' = [req EXCEPT ![r].pc = "create", ![r].target = t]
      BY <2>2, <3>2
    <3> HIDE DEF t
    <3>4. /\ req' \in [Request -> RequestState]
          /\ \A q \in Request :
               /\ req'[q].pc = IF q = r THEN "create" ELSE req[q].pc
               /\ req'[q].auth = req[q].auth
               /\ req'[q].caller = req[q].caller
               /\ req'[q].ask = req[q].ask
      BY <3>3, TargetEffect
    <3>5. RequestShape'
      BY <3>1, <3>4 DEF RequestShape
    <3> QED
      BY <1>6, <2>2, <3>1, <3>4, <3>5, RaceType DEF ResolveTarget, TypeOK
  <2> QED
    BY <1>6, <2>1, <2>2 DEF ResolveTarget
<1>7. CASE CreatePending(r)
  <2>1. esc' \in [Escalation -> EscRow]
    BY <1>7 DEF CreatePending, TypeOK, EscRow, EscStatus, RequestState
  <2>2. Deny(r)
    BY <1>7 DEF CreatePending
  <2> QED
    BY <1>7, <2>1, <2>2, DenyEffect DEF CreatePending, TypeOK, RequestShape
<1>8. CASE GrantChecks(r)
  <2>1. CASE Goto(r, "commit")
    BY <1>0, <1>8, <2>1, GotoEffect DEF GrantChecks, TypeOK, RequestShape, Bound
  <2>2. CASE Deny(r)
    BY <1>8, <2>2, DenyEffect DEF GrantChecks, TypeOK, RequestShape
  <2> QED
    BY <1>8, <2>1, <2>2 DEF GrantChecks
<1>9. CASE RevokeChecks(r)
  <2>1. CASE Goto(r, "commit") /\ Race(Census, Lowering)
    <3>1. req' \in [Request -> RequestState] /\ RequestShape'
      BY <1>0, <1>9, <2>1, GotoEffect DEF RevokeChecks, RequestShape, Bound
    <3>2. raced' \subseteq Escalation \cup Grant \cup {Census} \cup Wanted
      BY <2>1, RaceType
    <3> QED
      BY <1>9, <3>1, <3>2 DEF RevokeChecks, TypeOK
  <2>2. CASE Deny(r) /\ UNCHANGED raced
    BY <1>9, <2>2, DenyEffect DEF RevokeChecks, TypeOK, RequestShape
  <2> QED
    BY <1>9, <2>1, <2>2 DEF RevokeChecks
<1>10. CASE ApplyAuthorityChange(r)
  <2>1. esc' \in [Escalation -> EscRow]
    BY <1>10 DEF ApplyAuthorityChange, Consume, TypeOK, EscRow, EscStatus
  <2>2. Goto(r, "effected") /\ req[r].pc = "commit"
    BY <1>10 DEF ApplyAuthorityChange
  <2>3. req[r].ask.endpoint \in Bound /\ req[r].ask \in Ask
    BY <2>2 DEF RequestShape, TypeOK, RequestState
  <2>4. req[r].ask.body \in Person
    BY <2>3 DEF Ask, Bound
  <2>5. operators' \subseteq Person
    BY <1>10, <2>4 DEF ApplyAuthorityChange, TypeOK
  <2>6. RequestShape'
    BY <1>0, <2>2, GotoEffect DEF RequestShape
  <2> QED
    BY <1>0, <1>10, <2>1, <2>2, <2>5, <2>6, GotoEffect DEF ApplyAuthorityChange, TypeOK
<1>11. CASE ConsumeLost(r) \/ Fail(r)
  BY <1>11, DenyEffect DEF ConsumeLost, Fail, TypeOK, RequestShape
<1>12. CASE UpdateConfig(r)
  BY <1>0, <1>12, GotoEffect DEF UpdateConfig, TypeOK, RequestShape
<1> QED
  BY <1>1, <1>2, <1>3, <1>4, <1>5, <1>6, <1>7, <1>8, <1>9, <1>10, <1>11, <1>12
  DEF RequestStep

\* The second person's calls and the grants keep the types.
LEMMA CallStepType ==
  ASSUME ShapeInv,
         \/ \E c \in Call : CallStep(c)
         \/ \E g \in Grant : InvokeGrant(g)
  PROVE  TypeOK' /\ RequestShape'
<1> USE DEF ShapeInv
<1>0. RequestShape'
  BY DEF CallStep, DecideRead, DecideWrite, CloseRead, CloseWrite, CallFails, InvokeGrant,
     RequestShape
<1>1. NoCall \in CallState
  BY DEF NoCall, CallState, CallPc, Verdict
<1>2. ASSUME NEW c \in Call, DecideRead(c)
      PROVE  TypeOK'
  <2>1. PICK e \in Escalation, v \in Verdict, m \in BOOLEAN :
          /\ call' = [call EXCEPT ![c] = [pc |-> "read", kind |-> v, by |-> esc[e].target,
                                          of |-> e, meta |-> m]]
          /\ Race(e, Deciding(e))
    BY <1>2 DEF DecideRead
  <2>2. call' \in [Call -> CallState]
    BY <2>1 DEF TypeOK, CallState, EscRow, CallPc
  <2> QED
    BY <1>2, <2>1, <2>2, RaceType DEF DecideRead, TypeOK
<1>3. ASSUME NEW c \in Call, DecideWrite(c)
      PROVE  TypeOK'
  <2> DEFINE e == call[c].of
             s == IF call[c].kind = "approve" THEN "APPROVED" ELSE "REJECTED"
             m == IF call[c].meta THEN FALSE ELSE esc[e].consumed
  <2>0. esc' = [esc EXCEPT ![e].status = s, ![e].consumed = m]
    BY <1>3 DEF DecideWrite
  <2>1. esc' \in [Escalation -> EscRow]
    <3>1. e \in Escalation
      BY <1>3 DEF DecideWrite, CallShape, CallAgrees, Verdict, Closing
    <3>2. s \in EscStatus /\ m \in BOOLEAN
      BY <3>1 DEF TypeOK, EscRow, EscStatus
    <3> HIDE DEF e, s, m
    <3> QED
      BY <2>0, <3>1, <3>2 DEF TypeOK, EscRow
  <2>2. call' \in [Call -> CallState]
    <3>1. [call[c] EXCEPT !.pc = "done"] \in CallState
      BY DEF TypeOK, CallState, CallPc
    <3> QED
      BY <1>1, <1>3, <3>1 DEF DecideWrite, TypeOK
  <2> QED
    BY <1>3, <2>1, <2>2 DEF DecideWrite, TypeOK
<1>4. ASSUME NEW c \in Call, CloseRead(c)
      PROVE  TypeOK'
  <2>1. PICK g \in Grant, k \in Closing :
          /\ call' = [call EXCEPT ![c] = [NoCall EXCEPT !.pc = "read", !.kind = k, !.of = g]]
          /\ Race(g, Touching(g))
    BY <1>4 DEF CloseRead
  <2>2. [NoCall EXCEPT !.pc = "read", !.kind = k, !.of = g] \in CallState
    BY <1>1 DEF CallState, CallPc
  <2> QED
    <3>1. call' \in [Call -> CallState]
      BY <2>1, <2>2 DEF TypeOK
    <3>2. raced' \subseteq Escalation \cup Grant \cup {Census} \cup Wanted
      BY <2>1, RaceType
    <3> QED
      BY <1>4, <3>1, <3>2 DEF CloseRead, TypeOK
<1>5. ASSUME NEW c \in Call, CloseWrite(c)
      PROVE  TypeOK'
  <2>1. grants' \in [Grant -> GrantRow]
    BY <1>5 DEF CloseWrite, TypeOK, GrantRow, GrantStatus
  <2> QED
    BY <1>1, <1>5, <2>1 DEF CloseWrite, TypeOK
<1>6. ASSUME NEW c \in Call, CallFails(c)
      PROVE  TypeOK'
  BY <1>1, <1>6 DEF CallFails, TypeOK
<1>7. ASSUME NEW g \in Grant, InvokeGrant(g)
      PROVE  TypeOK'
  <2>1. PICK w \in Wanted :
          grants' = [grants EXCEPT ![g] = [status |-> "ACTIVE", source |-> w[1],
                                           endpoint |-> w[2].endpoint]]
    BY <1>7 DEF InvokeGrant
  <2>2. w[1] \in Person /\ w[2] \in Ask
    BY WantedAssumption
  <2>3. w[2].endpoint \in Bound \cup {"config"}
    BY <2>2 DEF Ask
  <2>4. grants' \in [Grant -> GrantRow]
    BY <2>1, <2>2, <2>3 DEF TypeOK, GrantRow, GrantStatus
  <2> QED
    BY <1>7, <2>4 DEF InvokeGrant, TypeOK
<1> QED
  BY <1>0, <1>2, <1>3, <1>4, <1>5, <1>6, <1>7 DEF CallStep

LEMMA NextType ==
  ASSUME ShapeInv, [Next]_vars
  PROVE  TypeOK' /\ RequestShape'
<1>1. CASE UNCHANGED vars
  BY <1>1 DEF vars, ShapeInv, TypeOK, RequestShape
<1> QED
  BY <1>1, RequestStepShape, CallStepType DEF Next

-----------------------------------------------------------------------------
(* What never changes again: whose an escalation or a grant is and what it *)
(* is for, and an approval once committed.                                 *)

\* A row of either table is written once and then only changes its status and
\* metadata.
LEMMA RowsStable ==
  ASSUME ShapeInv, [Next]_vars
  PROVE  /\ \A e \in Escalation : esc[e].status # "NONE" =>
              /\ esc'[e].status # "NONE"
              /\ esc'[e].source = esc[e].source
              /\ esc'[e].target = esc[e].target
              /\ esc'[e].ask = esc[e].ask
         /\ \A g \in Grant : grants[g].status # "NONE" =>
              /\ grants'[g].status # "NONE"
              /\ grants'[g].source = grants[g].source
              /\ grants'[g].endpoint = grants[g].endpoint
<1> USE DEF ShapeInv
<1>1. CASE esc' = esc /\ grants' = grants
  BY <1>1
<1>2. ASSUME NEW r \in Request, CreatePending(r)
      PROVE  /\ grants' = grants
             /\ \A e \in Escalation : esc[e].status # "NONE" => esc'[e] = esc[e]
  BY <1>2 DEF CreatePending, TypeOK
<1>3. ASSUME NEW r \in Request, ApplyAuthorityChange(r)
      PROVE  /\ grants' = grants
             /\ \A e \in Escalation : esc[e].status # "NONE" =>
                  /\ esc'[e].status # "NONE"
                  /\ esc'[e].source = esc[e].source
                  /\ esc'[e].target = esc[e].target
                  /\ esc'[e].ask = esc[e].ask
  BY <1>3 DEF ApplyAuthorityChange, Consume, TypeOK, EscRow
<1>4. ASSUME NEW c \in Call, DecideWrite(c)
      PROVE  /\ grants' = grants
             /\ \A e \in Escalation : esc[e].status # "NONE" =>
                  /\ esc'[e].status # "NONE"
                  /\ esc'[e].source = esc[e].source
                  /\ esc'[e].target = esc[e].target
                  /\ esc'[e].ask = esc[e].ask
  BY <1>4 DEF DecideWrite, TypeOK, EscRow
<1>5. ASSUME NEW r \in Request, MarkWrite(r)
      PROVE  /\ esc' = esc
             /\ \A g \in Grant : grants[g].status # "NONE" =>
                  /\ grants'[g].status # "NONE"
                  /\ grants'[g].source = grants[g].source
                  /\ grants'[g].endpoint = grants[g].endpoint
  BY <1>5 DEF MarkWrite, TypeOK, GrantRow
<1>6. ASSUME NEW c \in Call, CloseWrite(c)
      PROVE  /\ esc' = esc
             /\ \A g \in Grant : grants[g].status # "NONE" =>
                  /\ grants'[g].status # "NONE"
                  /\ grants'[g].source = grants[g].source
                  /\ grants'[g].endpoint = grants[g].endpoint
  BY <1>6 DEF CloseWrite, TypeOK, GrantRow
<1>7. ASSUME NEW g \in Grant, InvokeGrant(g)
      PROVE  /\ esc' = esc
             /\ \A h \in Grant : grants[h].status # "NONE" => grants'[h] = grants[h]
  BY <1>7 DEF InvokeGrant, TypeOK
<1>8. \/ esc' = esc /\ grants' = grants
      \/ \E r \in Request : CreatePending(r) \/ ApplyAuthorityChange(r) \/ MarkWrite(r)
      \/ \E c \in Call : DecideWrite(c) \/ CloseWrite(c)
      \/ \E g \in Grant : InvokeGrant(g)
  BY DEF Next, RequestStep, CallStep, vars, Submit, Lookup, ValidateBreakGlassGrant, MarkRead, ResolveTarget,
     GrantChecks, RevokeChecks, ConsumeLost, UpdateConfig, Fail, DecideRead, CloseRead,
     CallFails
<1> QED
  BY <1>1, <1>2, <1>3, <1>4, <1>5, <1>6, <1>7, <1>8

\* One request moves, or one call, or none.
LEMMA OneMoves ==
  ASSUME ShapeInv, [Next]_vars
  PROVE  \/ req' = req /\ call' = call
         \/ \E r \in Request :
              RequestStep(r) /\ call' = call /\ \A q \in Request : q # r => req'[q] = req[q]
         \/ \E c \in Call :
              CallStep(c) /\ req' = req /\ \A d \in Call : d # c => call'[d] = call[d]
<1> USE DEF ShapeInv
<1>1. ASSUME NEW q \in Request, RequestStep(q)
      PROVE  call' = call /\ \A r \in Request : r # q => req'[r] = req[r]
  BY <1>1 DEF RequestStep, Submit, Lookup, ValidateBreakGlassGrant, MarkRead, MarkWrite,
     ResolveTarget, CreatePending, GrantChecks, RevokeChecks, ApplyAuthorityChange,
     ConsumeLost, UpdateConfig, Fail, Goto, Proceed, Deny, TypeOK
<1>2. ASSUME NEW d \in Call, CallStep(d)
      PROVE  req' = req /\ \A c \in Call : c # d => call'[c] = call[c]
  BY <1>2 DEF CallStep, DecideRead, DecideWrite, CloseRead, CloseWrite, CallFails, TypeOK
<1> QED
  BY <1>1, <1>2 DEF Next, vars, InvokeGrant

\* A request and a call move by their own steps only.
LEMMA WhoMoves ==
  ASSUME ShapeInv, [Next]_vars
  PROVE  /\ \A r \in Request : req'[r] = req[r] \/ RequestStep(r)
         /\ \A c \in Call : call'[c] = call[c] \/ CallStep(c)
BY OneMoves

\* A committed approval stays on record.
LEMMA ApprovalsStable ==
  ASSUME ShapeInv, [Next]_vars, NEW c \in Call, call[c].pc = "done"
  PROVE  call'[c] = call[c]
<1> USE DEF ShapeInv
<1> QED
  BY WhoMoves DEF CallStep, DecideRead, DecideWrite, CloseRead, CloseWrite, CallFails

\* A request that had its effect is over.
LEMMA EffectsStable ==
  ASSUME ShapeInv, [Next]_vars, NEW r \in Request, req[r].pc = "effected"
  PROVE  req'[r] = req[r]
<1> USE DEF ShapeInv
<1> QED
  BY WhoMoves DEF RequestStep, Submit, Lookup, ValidateBreakGlassGrant, MarkRead, MarkWrite,
     ResolveTarget, CreatePending, GrantChecks, RevokeChecks, ApplyAuthorityChange,
     ConsumeLost, UpdateConfig, Fail

\* Where a second-person call is agrees with the row it is about.
LEMMA NextCallShape ==
  ASSUME ShapeInv, [Next]_vars
  PROVE  CallShape'
<1> USE DEF ShapeInv
<1> SUFFICES ASSUME NEW c \in Call
             PROVE  CallAgrees(c)'
  BY DEF CallShape
<1>1. NoCall.pc = "idle"
  BY DEF NoCall
<1>2. CASE call'[c] = call[c]
  BY <1>2, RowsStable DEF CallShape, CallAgrees
<1>3. CASE DecideRead(c)
  <2>1. PICK e \in Escalation, v \in Verdict, m \in BOOLEAN :
          /\ esc[e].status = "PENDING"
          /\ esc[e].target # esc[e].source
          /\ call' = [call EXCEPT ![c] = [pc |-> "read", kind |-> v, by |-> esc[e].target,
                                          of |-> e, meta |-> m]]
    BY <1>3 DEF DecideRead
  <2>2. call'[c] = [pc |-> "read", kind |-> v, by |-> esc[e].target, of |-> e, meta |-> m]
    BY <2>1 DEF TypeOK
  <2> QED
    BY <1>3, <2>1, <2>2 DEF DecideRead, CallAgrees
<1>4. CASE DecideWrite(c)
  <2>1. CASE call[c].kind = "approve"
    <3>1. call'[c] = [call[c] EXCEPT !.pc = "done"]
      BY <1>4, <2>1 DEF DecideWrite, TypeOK
    <3>2. /\ call'[c].kind = call[c].kind /\ call'[c].of = call[c].of
          /\ call'[c].by = call[c].by
      BY <3>1 DEF TypeOK, CallState
    <3>3. /\ call[c].of \in Escalation /\ esc[call[c].of].status # "NONE"
          /\ call[c].by # esc[call[c].of].source
      BY <1>4 DEF DecideWrite, CallShape, CallAgrees, Verdict, Closing
    <3> QED
      BY <1>4, <3>2, <3>3, RowsStable DEF DecideWrite, CallAgrees
  <2>2. CASE call[c].kind # "approve"
    BY <1>1, <1>4, <2>2 DEF DecideWrite, CallAgrees, TypeOK
  <2> QED
    BY <2>1, <2>2
<1>5. CASE CloseRead(c)
  <2>1. PICK g \in Grant, k \in Closing, p \in operators :
          /\ Closable(g, k, p)
          /\ call' = [call EXCEPT ![c] = [NoCall EXCEPT !.pc = "read", !.kind = k, !.of = g]]
    BY <1>5 DEF CloseRead
  <2>2. call'[c].pc = "read" /\ call'[c].kind = k /\ call'[c].of = g
    BY <2>1 DEF TypeOK, NoCall
  <2>3. grants[g].status # "NONE"
    BY <2>1 DEF Closable
  <2> QED
    BY <1>5, <2>2, <2>3 DEF CloseRead, CallAgrees
<1>6. CASE CloseWrite(c) \/ CallFails(c)
  BY <1>1, <1>6 DEF CloseWrite, CallFails, CallAgrees, TypeOK
<1>7. \/ call'[c] = call[c]
      \/ DecideRead(c) \/ DecideWrite(c) \/ CloseRead(c) \/ CloseWrite(c) \/ CallFails(c)
  BY WhoMoves DEF CallStep
<1> QED
  BY <1>2, <1>3, <1>4, <1>5, <1>6, <1>7

LEMMA NextShape ==
  ASSUME ShapeInv, [Next]_vars
  PROVE  ShapeInv'
BY NextType, NextCallShape DEF ShapeInv

\* Every variable keeps its type: an approval names a person, a hand-over of a
\* request from one preHandler to the next is of the kind it expects.
THEOREM DualTypeCorrect == Spec => []TypeOK
<1>1. ShapeInv /\ [Next]_vars => ShapeInv'
  BY NextShape
<1>2. ShapeInv => TypeOK
  BY DEF ShapeInv
<1> QED
  BY <1>1, <1>2, InitShape, PTL DEF Spec

LEMMA ShapeInvariant == Spec => []ShapeInv
<1>1. ShapeInv /\ [Next]_vars => ShapeInv'
  BY NextShape
<1> QED
  BY <1>1, InitShape, PTL DEF Spec

-----------------------------------------------------------------------------
(* The second person's word.                                               *)

LEMMA SecondedStable ==
  ASSUME ShapeInv, [Next]_vars, NEW e \in Escalation, esc[e].status # "NONE", Seconded(e)
  PROVE  Seconded(e)'
BY RowsStable, ApprovalsStable DEF Seconded, ApprovalsOf

\* A request that keeps what it goes by keeps its authority.
LEMMA AuthorityStable ==
  ASSUME ShapeInv, [Next]_vars, NEW r \in Request, HasAuthority(r),
         req'[r].auth = req[r].auth, req'[r].caller = req[r].caller, req'[r].ask = req[r].ask
  PROVE  HasAuthority(r)'
<1>1. CASE req[r].auth \in Escalation
  BY <1>1, RowsStable, SecondedStable, IdAssumption DEF HasAuthority
<1>2. CASE req[r].auth \in Grant
  BY <1>2, RowsStable, IdAssumption DEF HasAuthority
<1> QED
  BY <1>1, <1>2 DEF HasAuthority

\* What a decision does to the escalations: the update is by id.
LEMMA DecideWriteEffect ==
  ASSUME ShapeInv, NEW c \in Call, DecideWrite(c)
  PROVE  /\ call[c].of \in Escalation /\ call[c].pc = "read"
         /\ esc[call[c].of].status # "NONE"
         /\ call[c].by # esc[call[c].of].source
         /\ call[c].kind = "approve" => esc'[call[c].of].status = "APPROVED"
         /\ call[c].kind # "approve" => esc'[call[c].of].status = "REJECTED"
         /\ \A e \in Escalation :
              /\ e # call[c].of => esc'[e] = esc[e]
              /\ esc'[e].source = esc[e].source
              /\ esc'[e].ask = esc[e].ask
<1> USE DEF ShapeInv
<1>1. /\ call[c].of \in Escalation /\ call[c].pc = "read"
      /\ esc[call[c].of].status # "NONE" /\ call[c].by # esc[call[c].of].source
  BY DEF DecideWrite, CallShape, CallAgrees, Verdict, Closing
<1> DEFINE o == call[c].of
           s == IF call[c].kind = "approve" THEN "APPROVED" ELSE "REJECTED"
           m == IF call[c].meta THEN FALSE ELSE esc[o].consumed
<1>2. esc' = [esc EXCEPT ![o].status = s, ![o].consumed = m]
  BY DEF DecideWrite
<1>3. /\ esc'[o].status = s
      /\ \A e \in Escalation :
           /\ e # o => esc'[e] = esc[e]
           /\ esc'[e].source = esc[e].source
           /\ esc'[e].ask = esc[e].ask
  <2>1. o \in Escalation
    BY <1>1
  <2> HIDE DEF o, s, m
  <2> QED
    BY <1>2, <2>1 DEF TypeOK, EscRow
<1> QED
  BY <1>1, <1>3

\* What spending an approval does to the escalations.
LEMMA ConsumeEffect ==
  ASSUME TypeOK, NEW o \in Escalation, Consume(o)
  PROVE  /\ esc'[o].status = "EXPIRED"
         /\ \A e \in Escalation :
              /\ e # o => esc'[e] = esc[e]
              /\ esc'[e].source = esc[e].source
              /\ esc'[e].ask = esc[e].ask
BY DEF Consume, TypeOK, EscRow

\* The steps that write the escalations.
LEMMA WhoWritesEsc ==
  ASSUME [Next]_vars
  PROVE  \/ esc' = esc
         \/ \E r \in Request : CreatePending(r)
         \/ \E r \in Request : /\ ApplyAuthorityChange(r)
                               /\ req[r].auth \in Escalation
                               /\ Consume(req[r].auth)
         \/ \E c \in Call : DecideWrite(c)
BY DEF Next, RequestStep, CallStep, vars, Submit, Lookup, ValidateBreakGlassGrant, MarkRead,
   MarkWrite, ResolveTarget, GrantChecks, RevokeChecks, ApplyAuthorityChange, ConsumeLost,
   UpdateConfig, Fail, DecideRead, CloseRead, CloseWrite, CallFails, InvokeGrant

\* An escalation becomes APPROVED by a decision only.
LEMMA BecomesApproved ==
  ASSUME ShapeInv, [Next]_vars, NEW e \in Escalation,
         esc'[e].status = "APPROVED", esc[e].status # "APPROVED"
  PROVE  \E c \in Call : DecideWrite(c) /\ call[c].of = e /\ call[c].kind = "approve"
<1>1. ASSUME NEW r \in Request, CreatePending(r)
      PROVE  FALSE
  BY <1>1 DEF CreatePending, ShapeInv, TypeOK
<1>2. ASSUME NEW o \in Escalation, Consume(o)
      PROVE  FALSE
  BY <1>2, ConsumeEffect DEF ShapeInv
<1>3. ASSUME NEW c \in Call, DecideWrite(c)
      PROVE  call[c].of = e /\ call[c].kind = "approve"
  BY <1>3, DecideWriteEffect
<1> QED
  BY <1>1, <1>2, <1>3, WhoWritesEsc

LEMMA NextAuthorised ==
  ASSUME ShapeInv, Authorised, [Next]_vars
  PROVE  Authorised'
<1> USE DEF ShapeInv
<1>1. ASSUME NEW e \in Escalation, esc'[e].status = "APPROVED"
      PROVE  Seconded(e)'
  <2>1. CASE esc[e].status = "APPROVED"
    BY <2>1, SecondedStable DEF Authorised
  <2>2. CASE esc[e].status # "APPROVED"
    <3>1. PICK c \in Call : DecideWrite(c) /\ call[c].of = e /\ call[c].kind = "approve"
      BY <1>1, <2>2, BecomesApproved
    <3>2. call'[c] = [call[c] EXCEPT !.pc = "done"]
      BY <3>1 DEF DecideWrite, TypeOK
    <3>3. call'[c].pc = "done" /\ call'[c].of = e /\ call'[c].by = call[c].by
      BY <3>1, <3>2 DEF TypeOK, CallState
    <3>4. esc[e].status # "NONE" /\ call[c].by # esc[e].source
      BY <3>1, IdAssumption DEF DecideWrite, CallShape, CallAgrees
    <3> QED
      BY <3>3, <3>4, RowsStable DEF Seconded, ApprovalsOf
  <2> QED
    BY <2>1, <2>2
<1>2. ASSUME NEW r \in Request,
             req'[r].pc \in {"mark", "marked", "handler", "commit", "effected"}
      PROVE  HasAuthority(r)'
  <2> DEFINE P == {"mark", "marked", "handler", "commit", "effected"}
  <2>0. /\ P \subseteq ReqPc /\ {"glass", "resolve", "create", "lookup", "idle"} \cap P = {}
        /\ {"glass", "resolve"} \subseteq ReqPc
    BY DEF ReqPc
  <2>1. CASE req'[r] = req[r]
    BY <1>2, <2>1, AuthorityStable DEF Authorised
  <2>2. CASE Submit(r)
    <3>1. \E w \in Wanted : req'[r] =
            [NoReq EXCEPT !.pc = "lookup", !.caller = w[1], !.ask = w[2]]
      BY <2>2 DEF Submit, TypeOK
    <3> QED
      BY <1>2, <3>1 DEF NoReq
  <2>3. CASE Lookup(r)
    <3>1. CASE Goto(r, "glass")
      BY <1>2, <2>0, <3>1, GotoEffect
    <3>2. ASSUME NEW e \in Approved(req[r].caller, req[r].ask), Proceed(r, "handler", e)
          PROVE  HasAuthority(r)'
      <4>1. /\ e \in Escalation /\ esc[e].status = "APPROVED"
            /\ esc[e].source = req[r].caller /\ esc[e].ask = req[r].ask
        BY <3>2 DEF Approved
      <4>2. /\ req'[r].auth = e /\ req'[r].caller = req[r].caller /\ req'[r].ask = req[r].ask
        BY <2>0, <3>2, <4>1, ProceedEffect
      <4>3. Seconded(e)'
        BY <4>1, SecondedStable DEF Authorised
      <4> QED
        BY <4>1, <4>2, <4>3, RowsStable DEF HasAuthority
    <3> QED
      BY <2>3, <3>1, <3>2 DEF Lookup
  <2>4. CASE ValidateBreakGlassGrant(r)
    <3>1. CASE Goto(r, "resolve")
      BY <1>2, <2>0, <3>1, GotoEffect
    <3>2. ASSUME NEW g \in ValidGrant(req[r].caller, req[r].ask.endpoint), Proceed(r, "mark", g)
          PROVE  HasAuthority(r)'
      <4>1. /\ g \in Grant /\ grants[g].status = "ACTIVE"
            /\ grants[g].source = req[r].caller /\ grants[g].endpoint = req[r].ask.endpoint
        BY <3>2 DEF ValidGrant
      <4>2. /\ req'[r].auth = g /\ req'[r].caller = req[r].caller /\ req'[r].ask = req[r].ask
        BY <2>0, <3>2, <4>1, ProceedEffect
      <4> QED
        BY <4>1, <4>2, RowsStable DEF HasAuthority
    <3> QED
      BY <2>4, <3>1, <3>2 DEF ValidateBreakGlassGrant
  <2>5. CASE MarkRead(r)
    <3>1. CASE Goto(r, "marked")
      <4>1. HasAuthority(r)
        BY <2>5 DEF MarkRead, Authorised
      <4> QED
        BY <2>0, <3>1, <4>1, GotoEffect, AuthorityStable
    <3>2. CASE Proceed(r, "resolve", None)
      BY <1>2, <2>0, <3>2, ProceedEffect DEF ReqPc
    <3> QED
      BY <2>5, <3>1, <3>2 DEF MarkRead
  <2>6. CASE MarkWrite(r) \/ UpdateConfig(r) \/ ApplyAuthorityChange(r)
    <3>1. HasAuthority(r)
      BY <2>6 DEF MarkWrite, UpdateConfig, ApplyAuthorityChange, Authorised
    <3>2. Goto(r, "handler") \/ Goto(r, "effected")
      BY <2>6 DEF MarkWrite, UpdateConfig, ApplyAuthorityChange
    <3> QED
      BY <2>0, <3>1, <3>2, GotoEffect, AuthorityStable
  <2>7. CASE ResolveTarget(r)
    <3>1. CASE Deny(r)
      BY <1>2, <3>1, DenyEffect
    <3>2. CASE \E t : req' = [req EXCEPT ![r].pc = "create", ![r].target = t]
      BY <1>2, <3>2 DEF TypeOK, RequestState
    <3> QED
      BY <2>7, <3>1, <3>2 DEF ResolveTarget
  <2>8. CASE GrantChecks(r) \/ RevokeChecks(r)
    <3>1. HasAuthority(r)
      BY <2>8 DEF GrantChecks, RevokeChecks, Authorised
    <3>2. Goto(r, "commit") \/ Deny(r)
      BY <2>8 DEF GrantChecks, RevokeChecks
    <3> QED
      BY <1>2, <2>0, <3>1, <3>2, GotoEffect, DenyEffect, AuthorityStable
  <2>9. CASE CreatePending(r) \/ ConsumeLost(r) \/ Fail(r)
    BY <1>2, <2>9, DenyEffect DEF CreatePending, ConsumeLost, Fail
  <2> QED
    BY <2>1, <2>2, <2>3, <2>4, <2>5, <2>6, <2>7, <2>8, <2>9, WhoMoves DEF RequestStep
<1> QED
  BY <1>1, <1>2 DEF Authorised

LEMMA AuthorisedInvariant == Spec => [](ShapeInv /\ Authorised)
<1>1. Init => ShapeInv /\ Authorised
  BY InitShape, NoReqType DEF Init, Authorised, NoEsc
<1>2. ShapeInv /\ Authorised /\ [Next]_vars => (ShapeInv /\ Authorised)'
  BY NextShape, NextAuthorised
<1> QED
  BY <1>1, <1>2, PTL DEF Spec

\* Every privileged effect has an authority of its caller behind it, and an
\* escalation became one on the word of somebody else, given for this endpoint
\* and this body: whatever requests and decisions interleave.
THEOREM SecondPerson == Spec => []TwoPersonRule
<1>1. ShapeInv /\ Authorised => TwoPersonRule
  BY DEF Authorised, HasAuthority, Seconded, TwoPersonRule
<1> QED
  BY <1>1, AuthorisedInvariant, PTL

-----------------------------------------------------------------------------
(* Where a step takes a request or a call.                                 *)

KeepsHand(r) ==
  /\ req'[r].auth = req[r].auth
  /\ req'[r].caller = req[r].caller
  /\ req'[r].ask = req[r].ask

\* Which step brings a request to the places the properties speak of, and on
\* what it has just read.
LEMMA WhereTo ==
  ASSUME ShapeInv, NEW r \in Request, RequestStep(r)
  PROVE  /\ req[r].pc # "effected"
         /\ req'[r].pc = "marked" =>
              /\ MarkRead(r) /\ KeepsHand(r) /\ req[r].auth \in Grant
              /\ grants[req[r].auth].status = "ACTIVE"
              /\ Race(req[r].auth, Touching(req[r].auth))
         /\ req'[r].pc = "handler" =>
              \/ Lookup(r) /\ req'[r].auth \in Escalation
              \/ MarkWrite(r) /\ KeepsHand(r)
         /\ req'[r].pc = "create" =>
              /\ ResolveTarget(r) /\ KeepsHand(r) /\ req[r].pc = "resolve"
              /\ Pending(req[r].caller, req[r].ask) = {}
              /\ Race(<<req[r].caller, req[r].ask>>, Creating(req[r].caller, req[r].ask))
         /\ req'[r].pc = "commit" =>
              /\ KeepsHand(r) /\ req[r].pc = "handler"
              /\ \/ GrantChecks(r) /\ req[r].ask.endpoint = "grant"
                 \/ /\ RevokeChecks(r) /\ Cardinality(operators) > Floor
                    /\ Race(Census, Lowering)
         /\ req'[r].pc = "effected" =>
              /\ KeepsHand(r)
              /\ ApplyAuthorityChange(r) \/ UpdateConfig(r)
<1> USE DEF ShapeInv
<1>0. {"idle", "lookup", "glass", "mark", "marked", "resolve", "create",
       "handler", "commit", "effected"} = ReqPc
  BY DEF ReqPc
<1>1. CASE Submit(r)
  <2>1. \E w \in Wanted : req'[r] =
          [NoReq EXCEPT !.pc = "lookup", !.caller = w[1], !.ask = w[2]]
    BY <1>1 DEF Submit, TypeOK
  <2> QED
    BY <1>1, <2>1 DEF NoReq, Submit
<1>2. CASE Lookup(r)
  <2>1. CASE Goto(r, "glass")
    BY <1>0, <1>2, <2>1, GotoEffect DEF Lookup
  <2>2. ASSUME NEW e \in Escalation, Proceed(r, "handler", e)
        PROVE  req'[r].pc = "handler" /\ req'[r].auth \in Escalation
    BY <1>0, <2>2, ProceedEffect
  <2> QED
    BY <1>2, <2>1, <2>2 DEF Lookup, Approved
<1>3. CASE ValidateBreakGlassGrant(r)
  <2>1. CASE Goto(r, "resolve")
    BY <1>0, <1>3, <2>1, GotoEffect DEF ValidateBreakGlassGrant
  <2>2. ASSUME NEW g \in Grant, Proceed(r, "mark", g)
        PROVE  req'[r].pc = "mark"
    BY <1>0, <2>2, ProceedEffect
  <2> QED
    BY <1>3, <2>1, <2>2 DEF ValidateBreakGlassGrant, ValidGrant
<1>4. CASE MarkRead(r)
  <2>1. CASE /\ Goto(r, "marked") /\ Race(req[r].auth, Touching(req[r].auth))
             /\ grants[req[r].auth].status = "ACTIVE"
    BY <1>0, <1>4, <2>1, GotoEffect DEF MarkRead, KeepsHand, RequestShape
  <2>2. CASE Proceed(r, "resolve", None)
    BY <1>0, <1>4, <2>2, ProceedEffect DEF MarkRead
  <2> QED
    BY <1>4, <2>1, <2>2 DEF MarkRead
<1>5. CASE MarkWrite(r)
  BY <1>0, <1>5, GotoEffect DEF MarkWrite, KeepsHand
<1>6. CASE ResolveTarget(r)
  <2>1. CASE Deny(r)
    BY <1>6, <2>1, DenyEffect DEF ResolveTarget
  <2>2. CASE /\ \E t : req' = [req EXCEPT ![r].pc = "create", ![r].target = t]
             /\ Pending(req[r].caller, req[r].ask) = {}
             /\ Race(<<req[r].caller, req[r].ask>>, Creating(req[r].caller, req[r].ask))
    <3>1. req'[r].pc = "create" /\ KeepsHand(r)
      BY <2>2 DEF TypeOK, RequestState, KeepsHand
    <3> QED
      BY <1>6, <2>2, <3>1 DEF ResolveTarget
  <2> QED
    BY <1>6, <2>1, <2>2 DEF ResolveTarget
<1>7. CASE CreatePending(r) \/ ConsumeLost(r) \/ Fail(r)
  BY <1>7, DenyEffect DEF CreatePending, ConsumeLost, Fail
<1>8. CASE GrantChecks(r)
  <2>1. CASE Goto(r, "commit")
    BY <1>0, <1>8, <2>1, GotoEffect DEF GrantChecks, KeepsHand
  <2>2. CASE Deny(r)
    BY <1>8, <2>2, DenyEffect DEF GrantChecks
  <2> QED
    BY <1>8, <2>1, <2>2 DEF GrantChecks
<1>9. CASE RevokeChecks(r)
  <2>1. CASE Goto(r, "commit") /\ Cardinality(operators) > Floor /\ Race(Census, Lowering)
    BY <1>0, <1>9, <2>1, GotoEffect DEF RevokeChecks, KeepsHand
  <2>2. CASE Deny(r)
    BY <1>9, <2>2, DenyEffect DEF RevokeChecks
  <2> QED
    BY <1>9, <2>1, <2>2 DEF RevokeChecks
<1>10. CASE ApplyAuthorityChange(r)
  BY <1>0, <1>10, GotoEffect DEF ApplyAuthorityChange, KeepsHand
<1>11. CASE UpdateConfig(r)
  BY <1>0, <1>11, GotoEffect DEF UpdateConfig, KeepsHand
<1> QED
  BY <1>1, <1>2, <1>3, <1>4, <1>5, <1>6, <1>7, <1>8, <1>9, <1>10, <1>11 DEF RequestStep

\* The same of a second-person call.
LEMMA CallTo ==
  ASSUME ShapeInv, NEW c \in Call, CallStep(c)
  PROVE  /\ call[c].pc # "done"
         /\ call'[c].pc = "read" =>
              \/ /\ DecideRead(c) /\ call'[c].of \in Escalation
                 /\ esc[call'[c].of].status = "PENDING"
                 /\ Race(call'[c].of, Deciding(call'[c].of))
              \/ /\ CloseRead(c) /\ call'[c].of \in Grant
                 /\ grants[call'[c].of].status # "NONE"
                 /\ call'[c].kind = "expire" => grants[call'[c].of].status = "ACTIVE"
                 /\ Race(call'[c].of, Touching(call'[c].of))
         /\ call'[c].pc = "done" => /\ DecideWrite(c) /\ call[c].kind = "approve"
                                    /\ call'[c].of = call[c].of
<1> USE DEF ShapeInv
<1>1. NoCall.pc = "idle"
  BY DEF NoCall
<1>2. CASE DecideRead(c)
  <2>1. PICK e \in Escalation, v \in Verdict, m \in BOOLEAN :
          /\ esc[e].status = "PENDING"
          /\ call' = [call EXCEPT ![c] = [pc |-> "read", kind |-> v, by |-> esc[e].target,
                                          of |-> e, meta |-> m]]
          /\ Race(e, Deciding(e))
    BY <1>2 DEF DecideRead
  <2>2. call'[c] = [pc |-> "read", kind |-> v, by |-> esc[e].target, of |-> e, meta |-> m]
    BY <2>1 DEF TypeOK
  <2>3. call'[c].pc = "read" /\ call'[c].of = e
    BY <2>2
  <2> QED
    BY <1>2, <2>1, <2>3 DEF DecideRead
<1>3. CASE DecideWrite(c)
  <2>1. CASE call[c].kind = "approve"
    <3>1. call'[c] = [call[c] EXCEPT !.pc = "done"]
      BY <1>3, <2>1 DEF DecideWrite, TypeOK
    <3>2. call'[c].pc = "done" /\ call'[c].of = call[c].of
      BY <3>1 DEF TypeOK, CallState
    <3> QED
      BY <1>3, <2>1, <3>2 DEF DecideWrite
  <2>2. CASE call[c].kind # "approve"
    BY <1>1, <1>3, <2>2 DEF DecideWrite, TypeOK
  <2> QED
    BY <2>1, <2>2
<1>4. CASE CloseRead(c)
  <2>1. PICK g \in Grant, k \in Closing, p \in operators :
          /\ Closable(g, k, p)
          /\ call' = [call EXCEPT ![c] = [NoCall EXCEPT !.pc = "read", !.kind = k, !.of = g]]
          /\ Race(g, Touching(g))
    BY <1>4 DEF CloseRead
  <2>2. call'[c].pc = "read" /\ call'[c].kind = k /\ call'[c].of = g
    BY <2>1 DEF TypeOK, NoCall
  <2>3. grants[g].status # "NONE" /\ (k = "expire" => grants[g].status = "ACTIVE")
    BY <2>1 DEF Closable
  <2> QED
    BY <1>4, <2>1, <2>2, <2>3 DEF CloseRead
<1>5. CASE CloseWrite(c) \/ CallFails(c)
  BY <1>1, <1>5 DEF CloseWrite, CallFails, TypeOK
<1> QED
  BY <1>2, <1>3, <1>4, <1>5 DEF CallStep

-----------------------------------------------------------------------------
(* Approvals are counted.                                                  *)

\* The effects under an authority grow by one request at a time, by its last
\* step.
LEMMA EffectsGrow ==
  ASSUME ShapeInv, [Next]_vars, NEW o
  PROVE  \/ EffectsOf(o)' = EffectsOf(o)
         \/ \E r \in Request :
              /\ ApplyAuthorityChange(r) \/ UpdateConfig(r)
              /\ req[r].auth = o /\ r \notin EffectsOf(o)
              /\ EffectsOf(o)' = EffectsOf(o) \cup {r}
<1>1. ASSUME NEW r \in Request, RequestStep(r), \A q \in Request : q # r => req'[q] = req[q]
      PROVE  \/ EffectsOf(o)' = EffectsOf(o)
             \/ /\ ApplyAuthorityChange(r) \/ UpdateConfig(r)
                /\ req[r].auth = o /\ r \notin EffectsOf(o)
                /\ EffectsOf(o)' = EffectsOf(o) \cup {r}
  <2>1. \A q \in Request : q # r => (q \in EffectsOf(o)' <=> q \in EffectsOf(o))
    BY <1>1 DEF EffectsOf
  <2>2. r \notin EffectsOf(o)
    BY <1>1, WhereTo DEF EffectsOf
  <2>3. CASE r \in EffectsOf(o)'
    <3>1. req'[r].pc = "effected" /\ req'[r].auth = o
      BY <2>3 DEF EffectsOf
    <3>2. (ApplyAuthorityChange(r) \/ UpdateConfig(r)) /\ req[r].auth = o
      BY <1>1, <3>1, WhereTo DEF KeepsHand
    <3>3. EffectsOf(o)' = EffectsOf(o) \cup {r}
      BY <2>1, <2>3 DEF EffectsOf
    <3> QED
      BY <2>2, <3>2, <3>3
  <2>4. CASE r \notin EffectsOf(o)'
    <3>1. EffectsOf(o)' = EffectsOf(o)
      BY <2>1, <2>2, <2>4 DEF EffectsOf
    <3> QED
      BY <3>1
  <2> QED
    BY <2>3, <2>4
<1>2. CASE req' = req
  BY <1>2 DEF EffectsOf
<1> QED
  BY <1>1, <1>2, OneMoves

\* Nothing happens on an escalation that does not exist yet.
LEMMA NoEffectWithoutRow ==
  ASSUME ShapeInv, Authorised, NEW o \in Escalation, esc[o].status = "NONE"
  PROVE  EffectsOf(o) = {}
BY IdAssumption DEF EffectsOf, Authorised, HasAuthority

LEMMA FiniteCounts ==
  ASSUME NEW o
  PROVE  /\ IsFiniteSet(EffectsOf(o)) /\ Cardinality(EffectsOf(o)) \in Nat
         /\ IsFiniteSet(ApprovalsOf(o)) /\ Cardinality(ApprovalsOf(o)) \in Nat
<1>1. EffectsOf(o) \subseteq Request /\ ApprovalsOf(o) \subseteq Call
  BY DEF EffectsOf, ApprovalsOf
<1> QED
  BY <1>1, FS_Subset, FS_CardinalityType, IdAssumption

\* A committed approval stays counted.
LEMMA ApprovalsGrow ==
  ASSUME ShapeInv, [Next]_vars, NEW o
  PROVE  ApprovalsOf(o) \subseteq ApprovalsOf(o)'
BY ApprovalsStable DEF ApprovalsOf

LEMMA NextBudget ==
  ASSUME ShapeInv, Authorised, ApprovalBudget, [Next]_vars
  PROVE  ApprovalBudget'
<1> SUFFICES ASSUME NEW e \in Escalation, esc'[e].ask.endpoint \in Bound
             PROVE  Cardinality(EffectsOf(e))' + (IF esc'[e].status = "APPROVED" THEN 1 ELSE 0)
                      <= Cardinality(ApprovalsOf(e))'
  BY DEF ApprovalBudget
<1> DEFINE n == Cardinality(EffectsOf(e))
           k == Cardinality(ApprovalsOf(e))
           b == IF esc[e].status = "APPROVED" THEN 1 ELSE 0
<1>0. n \in Nat /\ n' \in Nat /\ k \in Nat /\ k' \in Nat
  <2>1. IsFiniteSet(EffectsOf(e)') /\ IsFiniteSet(ApprovalsOf(e)')
    <3>1. EffectsOf(e)' \subseteq Request /\ ApprovalsOf(e)' \subseteq Call
      BY DEF EffectsOf, ApprovalsOf
    <3> QED
      BY <3>1, FS_Subset, IdAssumption
  <2> QED
    BY <2>1, FiniteCounts, FS_CardinalityType
<1>1. k <= k'
  <2>1. IsFiniteSet(ApprovalsOf(e)')
    <3>1. ApprovalsOf(e)' \subseteq Call
      BY DEF ApprovalsOf
    <3> QED
      BY <3>1, FS_Subset, IdAssumption
  <2> QED
    BY <2>1, ApprovalsGrow, FS_Subset
<1>2. CASE esc[e].status = "NONE"
  <2>1. EffectsOf(e) = {} /\ n = 0
    BY <1>2, NoEffectWithoutRow, FS_EmptySet
  <2>2. EffectsOf(e)' = {}
    <3>1. ASSUME NEW r \in Request, ApplyAuthorityChange(r) \/ UpdateConfig(r), req[r].auth = e
          PROVE  FALSE
      BY <1>2, <3>1, IdAssumption
      DEF ApplyAuthorityChange, UpdateConfig, Authorised, HasAuthority
    <3> QED
      BY <2>1, <3>1, EffectsGrow
  <2>3. esc'[e].status # "APPROVED"
    BY <1>2, BecomesApproved, DecideWriteEffect
  <2>4. n' = 0
    BY <2>2, FS_EmptySet
  <2> QED
    BY <1>0, <2>3, <2>4
<1>3. CASE esc[e].status # "NONE"
  <2>0. esc[e].ask.endpoint \in Bound /\ n + b <= k
    BY <1>3, RowsStable DEF ApprovalBudget
  <2>1. ASSUME NEW r \in Request, ApplyAuthorityChange(r) \/ UpdateConfig(r), req[r].auth = e,
               r \notin EffectsOf(e), EffectsOf(e)' = EffectsOf(e) \cup {r}
        PROVE  n' + b' <= k'
    <3>1. esc[e].ask = req[r].ask
      BY <2>1, IdAssumption
      DEF ApplyAuthorityChange, UpdateConfig, Authorised, HasAuthority
    <3>2. ApplyAuthorityChange(r) /\ Consumable(e) /\ Consume(e)
      BY <2>0, <2>1, <3>1 DEF UpdateConfig, ApplyAuthorityChange
    <3>3. b = 1 /\ b' = 0
      BY <3>2, ConsumeEffect DEF Consumable, ShapeInv
    <3>4. n' = n + 1
      BY <2>1, FiniteCounts, FS_AddElement
    <3> QED
      BY <1>0, <1>1, <2>0, <3>3, <3>4
  <2>2. CASE EffectsOf(e)' = EffectsOf(e)
    <3>1. n' = n
      BY <2>2
    <3>2. CASE b' = 0 \/ b = 1
      <4>1. b' <= b /\ b \in Nat /\ b' \in Nat
        BY <3>2
      <4> QED
        BY <1>0, <1>1, <2>0, <3>1, <4>1
    <3>3. CASE b' = 1 /\ b = 0
      <4>1. PICK c \in Call : DecideWrite(c) /\ call[c].of = e /\ call[c].kind = "approve"
        BY <3>3, BecomesApproved
      <4>2. c \notin ApprovalsOf(e)
        BY <4>1 DEF DecideWrite, ApprovalsOf
      <4>3. call'[c] = [call[c] EXCEPT !.pc = "done"]
        BY <4>1 DEF DecideWrite, ShapeInv, TypeOK
      <4>4. c \in ApprovalsOf(e)'
        BY <4>1, <4>3 DEF ApprovalsOf, ShapeInv, TypeOK, CallState
      <4>5. k + 1 <= k'
        <5>1. ApprovalsOf(e) \cup {c} \subseteq ApprovalsOf(e)'
          BY <4>4, ApprovalsGrow
        <5>2. IsFiniteSet(ApprovalsOf(e)')
          <6>1. ApprovalsOf(e)' \subseteq Call
            BY DEF ApprovalsOf
          <6> QED
            BY <6>1, FS_Subset, IdAssumption
        <5>3. Cardinality(ApprovalsOf(e) \cup {c}) = k + 1
          BY <4>2, FiniteCounts, FS_AddElement
        <5> QED
          BY <5>1, <5>2, <5>3, FS_Subset
      <4> QED
        BY <1>0, <2>0, <3>1, <3>3, <4>5
    <3> QED
      BY <3>2, <3>3
  <2> QED
    BY <2>1, <2>2, EffectsGrow
<1> QED
  BY <1>2, <1>3

\* However requests and decisions interleave, a payload-bound escalation never
\* carries more effects than the approvals it received.
THEOREM Budgeted == Spec => []ApprovalBudget
<1>1. Init => ApprovalBudget
  <2> SUFFICES ASSUME Init, NEW e \in Escalation
               PROVE  Cardinality(EffectsOf(e)) + (IF esc[e].status = "APPROVED" THEN 1 ELSE 0)
                        <= Cardinality(ApprovalsOf(e))
    BY DEF ApprovalBudget
  <2>1. EffectsOf(e) = {} /\ ApprovalsOf(e) = {} /\ esc[e].status # "APPROVED"
    BY DEF Init, EffectsOf, ApprovalsOf, NoReq, NoCall, NoEsc
  <2> QED
    BY <2>1, FS_EmptySet
<1>2. ShapeInv /\ Authorised /\ ApprovalBudget /\ [Next]_vars => ApprovalBudget'
  BY NextBudget
<1> QED
  BY <1>1, <1>2, AuthorisedInvariant, PTL DEF Spec

-----------------------------------------------------------------------------
(* What holds unless two windows on one object overlapped.                 *)

\* The overlaps are never forgotten.
LEMMA RacedGrows ==
  ASSUME [Next]_vars
  PROVE  raced \subseteq raced'
BY DEF Next, RequestStep, CallStep, vars, Submit, Lookup, ValidateBreakGlassGrant, MarkRead,
   MarkWrite, ResolveTarget, CreatePending, GrantChecks, RevokeChecks, ApplyAuthorityChange,
   ConsumeLost, UpdateConfig, Fail, DecideRead, DecideWrite, CloseRead, CloseWrite, CallFails,
   InvokeGrant, Race

LEMMA Unraced ==
  ASSUME NEW o, NEW open, Race(o, open), o \notin raced'
  PROVE  ~open
BY DEF Race

\* A call that has read an object either had read it before, or it reads it now
\* and is the only one.
LEMMA ReadersStable ==
  ASSUME ShapeInv, [Next]_vars, NEW o \in Escalation \cup Grant, o \notin raced',
         NEW c \in Call, Reads(c, o)'
  PROVE  \/ Reads(c, o) /\ call'[c] = call[c]
         \/ /\ DecideRead(c) \/ CloseRead(c)
            /\ o \in Escalation => DecideRead(c) /\ esc[o].status = "PENDING"
            /\ o \in Grant =>
                 /\ CloseRead(c) /\ ~Touching(o)
                 /\ call'[c].kind = "expire" => grants[o].status = "ACTIVE"
            /\ \A d \in Call : ~Reads(d, o)
            /\ \A d \in Call : d # c => ~Reads(d, o)'
<1>1. CASE call'[c] = call[c]
  BY <1>1 DEF Reads
<1>2. CASE CallStep(c)
  <2>0. call'[c].pc = "read" /\ call'[c].of = o
    BY DEF Reads
  <2>1. CASE /\ DecideRead(c) /\ o \in Escalation /\ esc[o].status = "PENDING"
             /\ Race(o, Deciding(o))
    <3>1. ~Deciding(o)
      BY <2>1, Unraced
    <3>2. \A d \in Call : ~Reads(d, o)
      BY <3>1 DEF Deciding, Reads
    <3>3. \A d \in Call : d # c => call'[d] = call[d]
      BY <2>1 DEF DecideRead, ShapeInv, TypeOK
    <3> QED
      BY <2>1, <3>2, <3>3, IdAssumption DEF Reads
  <2>2. CASE /\ CloseRead(c) /\ o \in Grant
             /\ call'[c].kind = "expire" => grants[o].status = "ACTIVE"
             /\ Race(o, Touching(o))
    <3>1. ~Touching(o)
      BY <2>2, Unraced
    <3>2. \A d \in Call : ~Reads(d, o)
      BY <3>1 DEF Touching, Reads
    <3>3. \A d \in Call : d # c => call'[d] = call[d]
      BY <2>2 DEF CloseRead, ShapeInv, TypeOK
    <3> QED
      BY <2>2, <3>1, <3>2, <3>3, IdAssumption DEF Reads
  <2> QED
    BY <1>2, <2>0, <2>1, <2>2, CallTo
<1> QED
  BY <1>1, <1>2, WhoMoves

\* Nothing happens on an escalation the moment it is created.
LEMMA NoEffectOnNewRow ==
  ASSUME ShapeInv, Authorised, [Next]_vars, NEW o \in Escalation, esc[o].status = "NONE"
  PROVE  EffectsOf(o)' = {}
<1>1. ASSUME NEW r \in Request, ApplyAuthorityChange(r) \/ UpdateConfig(r), req[r].auth = o
      PROVE  FALSE
  BY <1>1, IdAssumption DEF ApplyAuthorityChange, UpdateConfig, Authorised, HasAuthority
<1> QED
  BY <1>1, NoEffectWithoutRow, EffectsGrow

\* A new effect under a payload-bound escalation spends it.
LEMMA EffectSpends ==
  ASSUME ShapeInv, Authorised, NEW e \in Escalation, esc[e].ask.endpoint \in Bound,
         NEW r \in Request, ApplyAuthorityChange(r) \/ UpdateConfig(r), req[r].auth = e
  PROVE  esc[e].status = "APPROVED" /\ esc'[e].status = "EXPIRED"
<1>1. esc[e].ask = req[r].ask
  BY IdAssumption DEF ApplyAuthorityChange, UpdateConfig, Authorised, HasAuthority
<1>2. ApplyAuthorityChange(r) /\ Consumable(e) /\ Consume(e)
  BY <1>1 DEF UpdateConfig, ApplyAuthorityChange
<1> QED
  BY <1>2, ConsumeEffect DEF Consumable, ShapeInv

LEMMA NextSpent ==
  ASSUME ShapeInv, Authorised, SpentStaysSpent, SingleUseUnlessRaced, [Next]_vars
  PROVE  SpentStaysSpent' /\ SingleUseUnlessRaced'
<1> SUFFICES ASSUME NEW e \in Escalation, e \notin raced'
             PROVE  /\ AtMostOne({c \in Call : Reads(c, e)})'
                    /\ \A c \in Call : Reads(c, e)' => esc'[e].status = "PENDING"
                    /\ esc'[e].ask.endpoint \in Bound /\ EffectsOf(e)' # {}
                         => esc'[e].status = "EXPIRED"
                    /\ esc'[e].ask.endpoint \in Bound => AtMostOne(EffectsOf(e))'
  BY DEF SpentStaysSpent, SingleUseUnlessRaced
<1>0. /\ e \notin raced
      /\ \A c, d \in Call : Reads(c, e) /\ Reads(d, e) => c = d
      /\ \A c \in Call : Reads(c, e) => esc[e].status = "PENDING"
      /\ esc[e].ask.endpoint \in Bound /\ EffectsOf(e) # {} => esc[e].status = "EXPIRED"
      /\ esc[e].ask.endpoint \in Bound => AtMostOne(EffectsOf(e))
  <2>1. e \notin raced
    BY RacedGrows
  <2> QED
    BY <2>1 DEF SpentStaysSpent, SingleUseUnlessRaced, AtMostOne
<1>1. AtMostOne({c \in Call : Reads(c, e)})'
  <2>1. ASSUME NEW c \in Call, NEW d \in Call, Reads(c, e)', Reads(d, e)'
        PROVE  c = d
    BY <1>0, <2>1, ReadersStable
  <2> QED
    BY <2>1 DEF AtMostOne
<1>2. ASSUME NEW c \in Call, Reads(c, e)'
      PROVE  esc'[e].status = "PENDING"
  <2>1. CASE Reads(c, e) /\ call'[c] = call[c]
    <3>1. esc[e].status = "PENDING"
      BY <1>0, <2>1
    <3>2. ASSUME NEW r \in Request, CreatePending(r)
          PROVE  esc'[e] = esc[e]
      BY <3>1, <3>2 DEF CreatePending, ShapeInv, TypeOK
    <3>3. ASSUME NEW r \in Request, ApplyAuthorityChange(r), req[r].auth \in Escalation,
                 Consume(req[r].auth)
          PROVE  esc'[e] = esc[e]
      BY <3>1, <3>3, ConsumeEffect DEF ApplyAuthorityChange, Consumable, ShapeInv
    <3>4. ASSUME NEW d \in Call, DecideWrite(d)
          PROVE  esc'[e] = esc[e]
      <4>1. d # c
        BY <2>1, <3>4, CallTo DEF Reads, DecideWrite, CallStep, DecideRead, CloseRead
      <4>2. ~Reads(d, e)
        BY <1>0, <2>1, <4>1
      <4> QED
        BY <3>4, <4>2, DecideWriteEffect DEF Reads
    <3> QED
      BY <3>1, <3>2, <3>3, <3>4, WhoWritesEsc
  <2>2. CASE DecideRead(c) /\ esc[e].status = "PENDING"
    BY <2>2 DEF DecideRead
  <2> QED
    BY <1>2, <2>1, <2>2, ReadersStable
<1>3. CASE esc[e].status = "NONE"
  <2>1. EffectsOf(e)' = {}
    BY <1>3, NoEffectOnNewRow
  <2> QED
    BY <1>1, <1>2, <2>1 DEF AtMostOne
<1>4. CASE esc[e].status # "NONE" /\ esc'[e].ask.endpoint \in Bound
  <2>0. esc[e].ask.endpoint \in Bound
    BY <1>4, RowsStable
  <2>1. CASE EffectsOf(e)' = EffectsOf(e)
    <3>1. ASSUME EffectsOf(e) # {}
          PROVE  esc'[e].status = "EXPIRED"
      <4>1. esc[e].status = "EXPIRED"
        BY <1>0, <2>0, <3>1
      <4>2. ASSUME NEW r \in Request, CreatePending(r)
            PROVE  esc'[e] = esc[e]
        BY <4>1, <4>2 DEF CreatePending, ShapeInv, TypeOK
      <4>3. ASSUME NEW o \in Escalation, Consume(o)
            PROVE  esc'[e].status = "EXPIRED"
        BY <4>1, <4>3, ConsumeEffect DEF ShapeInv
      <4>4. ASSUME NEW d \in Call, DecideWrite(d)
            PROVE  esc'[e] = esc[e]
        <5>1. ~Reads(d, e)
          BY <1>0, <4>1
        <5> QED
          BY <4>4, <5>1, DecideWriteEffect DEF Reads
      <4> QED
        BY <4>1, <4>2, <4>3, <4>4, WhoWritesEsc
    <3> QED
      BY <1>0, <1>1, <1>2, <2>0, <2>1, <3>1 DEF AtMostOne
  <2>2. ASSUME NEW r \in Request, ApplyAuthorityChange(r) \/ UpdateConfig(r), req[r].auth = e,
               EffectsOf(e)' = EffectsOf(e) \cup {r}
        PROVE  esc'[e].status = "EXPIRED" /\ AtMostOne(EffectsOf(e))'
    <3>1. esc[e].status = "APPROVED" /\ esc'[e].status = "EXPIRED"
      BY <2>0, <2>2, EffectSpends
    <3>2. EffectsOf(e)' = {r}
      BY <1>0, <2>0, <2>2, <3>1
    <3> QED
      BY <3>1, <3>2 DEF AtMostOne
  <2> QED
    BY <1>1, <1>2, <2>1, <2>2, EffectsGrow
<1> QED
  BY <1>1, <1>2, <1>3, <1>4

\* A bound approval authorises one effect, unless two decisions of the same
\* escalation overlapped.
THEOREM SingleUse == Spec => []SingleUseUnlessRaced
<1>1. Init => SpentStaysSpent /\ SingleUseUnlessRaced
  <2> SUFFICES ASSUME Init, NEW e \in Escalation
               PROVE  EffectsOf(e) = {} /\ \A c \in Call : ~Reads(c, e)
    BY DEF SpentStaysSpent, SingleUseUnlessRaced, AtMostOne
  <2> QED
    BY DEF Init, EffectsOf, Reads, NoReq, NoCall
<1>2. ShapeInv /\ Authorised /\ SpentStaysSpent /\ SingleUseUnlessRaced /\ [Next]_vars
        => SpentStaysSpent' /\ SingleUseUnlessRaced'
  BY NextSpent
<1> QED
  BY <1>1, <1>2, AuthorisedInvariant, PTL DEF Spec

-----------------------------------------------------------------------------
(* Break-glass grants.                                                     *)

\* What the use of a grant and its closing do to the grants: updates by id.
LEMMA GrantWrites ==
  ASSUME ShapeInv
  PROVE  /\ \A r \in Request : MarkWrite(r) =>
              /\ req[r].auth \in Grant
              /\ grants'[req[r].auth].status = "USED"
              /\ \A g \in Grant : g # req[r].auth => grants'[g] = grants[g]
         /\ \A c \in Call : CloseWrite(c) =>
              /\ call[c].of \in Grant
              /\ call[c].kind # "expire" => grants'[call[c].of].status = "REVIEWED"
              /\ grants'[call[c].of].status # "ACTIVE"
              /\ \A g \in Grant : g # call[c].of => grants'[g] = grants[g]
<1> USE DEF ShapeInv
<1>1. ASSUME NEW r \in Request, MarkWrite(r)
      PROVE  /\ req[r].auth \in Grant
             /\ grants'[req[r].auth].status = "USED"
             /\ \A g \in Grant : g # req[r].auth => grants'[g] = grants[g]
  <2>1. req[r].auth \in Grant
    BY <1>1 DEF MarkWrite, RequestShape
  <2> QED
    BY <1>1, <2>1 DEF MarkWrite, TypeOK, GrantRow
<1>2. ASSUME NEW c \in Call, CloseWrite(c)
      PROVE  /\ call[c].of \in Grant
             /\ call[c].kind # "expire" => grants'[call[c].of].status = "REVIEWED"
             /\ grants'[call[c].of].status # "ACTIVE"
             /\ \A g \in Grant : g # call[c].of => grants'[g] = grants[g]
  <2>1. call[c].of \in Grant
    BY <1>2 DEF CloseWrite, CallShape, CallAgrees, Verdict, Closing
  <2> DEFINE s == IF call[c].kind = "expire" THEN "EXPIRED" ELSE "REVIEWED"
             o == call[c].of
  <2>2. grants' = [grants EXCEPT ![o].status = s]
    BY <1>2 DEF CloseWrite
  <2>3. grants'[o].status = s /\ \A g \in Grant : g # o => grants'[g] = grants[g]
    <3> HIDE DEF s, o
    <3>1. o \in Grant
      BY <2>1 DEF o
    <3> QED
      BY <2>2, <3>1 DEF TypeOK, GrantRow
  <2> QED
    BY <2>1, <2>3
<1> QED
  BY <1>1, <1>2

\* The steps that write a grant.
LEMMA WhoWritesGrants ==
  ASSUME ShapeInv, [Next]_vars, NEW g \in Grant
  PROVE  \/ grants'[g] = grants[g]
         \/ \E r \in Request : MarkWrite(r) /\ req[r].auth = g
         \/ \E c \in Call : CloseWrite(c) /\ call[c].of = g
         \/ InvokeGrant(g)
<1> USE DEF ShapeInv
<1>1. \/ grants' = grants
      \/ \E r \in Request : MarkWrite(r)
      \/ \E c \in Call : CloseWrite(c)
      \/ \E h \in Grant : InvokeGrant(h)
  BY DEF Next, RequestStep, CallStep, vars, Submit, Lookup, ValidateBreakGlassGrant, MarkRead,
     ResolveTarget, CreatePending, GrantChecks, RevokeChecks, ApplyAuthorityChange,
     ConsumeLost, UpdateConfig, Fail, DecideRead, DecideWrite, CloseRead, CallFails
<1>2. ASSUME NEW h \in Grant, InvokeGrant(h), h # g
      PROVE  grants'[g] = grants[g]
  BY <1>2 DEF InvokeGrant, TypeOK
<1> QED
  BY <1>1, <1>2, GrantWrites

\* A request that has read a grant to use it either had read it before, or it
\* reads it now, finds it ACTIVE, and is the only one.
LEMMA MarkersStable ==
  ASSUME ShapeInv, [Next]_vars, NEW g \in Grant, g \notin raced',
         NEW r \in Request, r \in Marking(g)'
  PROVE  \/ r \in Marking(g) /\ req'[r] = req[r]
         \/ /\ MarkRead(r) /\ ~Touching(g) /\ grants[g].status = "ACTIVE"
            /\ Marking(g)' = {r}
<1>1. CASE req'[r] = req[r]
  BY <1>1 DEF Marking
<1>2. CASE RequestStep(r)
  <2>1. req'[r].pc = "marked" /\ req'[r].auth = g
    BY DEF Marking
  <2>2. /\ MarkRead(r) /\ grants[g].status = "ACTIVE"
        /\ Race(g, Touching(g))
    BY <1>2, <2>1, WhereTo DEF KeepsHand
  <2>3. ~Touching(g)
    BY <2>2, Unraced
  <2>4. \A q \in Request : q # r => req'[q] = req[q]
    BY <2>2 DEF MarkRead, Goto, Proceed, ShapeInv, TypeOK
  <2>5. Marking(g)' = {r}
    BY <2>3, <2>4 DEF Touching, Marking
  <2> QED
    BY <2>2, <2>3, <2>5
<1> QED
  BY <1>1, <1>2, WhoMoves

\* The requests that go by a grant grow by the use of it only.
LEMMA UsersGrow ==
  ASSUME ShapeInv, [Next]_vars, NEW g \in Grant, NEW r \in Request, r \in UsersOf(g)'
  PROVE  r \in UsersOf(g) \/ (MarkWrite(r) /\ r \in Marking(g))
<1>1. CASE req'[r] = req[r]
  BY <1>1 DEF UsersOf
<1>2. CASE RequestStep(r)
  <2>1. req'[r].auth = g /\ req'[r].pc \in {"handler", "commit", "effected"}
    BY DEF UsersOf
  <2>2. CASE req'[r].pc = "handler"
    <3>1. MarkWrite(r) /\ KeepsHand(r)
      BY <1>2, <2>1, <2>2, WhereTo, IdAssumption
    <3> QED
      BY <2>1, <3>1 DEF MarkWrite, Marking, KeepsHand
  <2>3. CASE req'[r].pc \in {"commit", "effected"}
    <3>1. KeepsHand(r) /\ req[r].pc \in {"handler", "commit"}
      BY <1>2, <2>3, WhereTo DEF ApplyAuthorityChange, UpdateConfig
    <3> QED
      BY <2>1, <3>1 DEF UsersOf, KeepsHand
  <2> QED
    BY <2>1, <2>2, <2>3
<1> QED
  BY <1>1, <1>2, WhoMoves

LEMMA NextUsedOnce ==
  ASSUME ShapeInv, Authorised, UsedOnce, [Next]_vars
  PROVE  UsedOnce'
<1> SUFFICES ASSUME NEW g \in Grant, g \notin raced'
             PROVE  /\ AtMostOne({c \in Call : Reads(c, g)})'
                    /\ AtMostOne(Marking(g))'
                    /\ \A c \in Call : Reads(c, g)' =>
                         /\ Marking(g)' = {}
                         /\ call'[c].kind = "expire" => grants'[g].status = "ACTIVE"
                    /\ Marking(g)' # {} => grants'[g].status = "ACTIVE"
                    /\ AtMostOne(UsersOf(g))'
                    /\ UsersOf(g)' # {} => grants'[g].status # "ACTIVE"
  BY DEF UsedOnce
<1>0. /\ g \notin raced
      /\ \A c, d \in Call : Reads(c, g) /\ Reads(d, g) => c = d
      /\ \A q, r \in Marking(g) : q = r
      /\ \A c \in Call : Reads(c, g) =>
           /\ Marking(g) = {}
           /\ call[c].kind = "expire" => grants[g].status = "ACTIVE"
      /\ Marking(g) # {} => grants[g].status = "ACTIVE"
      /\ \A q, r \in UsersOf(g) : q = r
      /\ UsersOf(g) # {} => grants[g].status # "ACTIVE"
  <2>1. g \notin raced
    BY RacedGrows
  <2> QED
    BY <2>1 DEF UsedOnce, AtMostOne
<1>1. AtMostOne({c \in Call : Reads(c, g)})'
  <2>1. ASSUME NEW c \in Call, NEW d \in Call, Reads(c, g)', Reads(d, g)'
        PROVE  c = d
    BY <1>0, <2>1, ReadersStable
  <2> QED
    BY <2>1 DEF AtMostOne
<1>2. AtMostOne(Marking(g))'
  <2>1. ASSUME NEW q \in Marking(g)', NEW r \in Marking(g)'
        PROVE  q = r
    <3>1. q \in Request /\ r \in Request
      BY DEF Marking
    <3> QED
      BY <1>0, <3>1, MarkersStable
  <2> QED
    BY <2>1 DEF AtMostOne
<1>3. ASSUME NEW c \in Call, Reads(c, g)', NEW r \in Marking(g)'
      PROVE  FALSE
  <2>1. r \in Request
    BY DEF Marking
  <2>2. CASE MarkRead(r) /\ ~Touching(g)
    <3>1. call' = call
      BY <2>2 DEF MarkRead
    <3> QED
      BY <1>3, <2>2, <3>1 DEF Touching, Reads
  <2>3. CASE r \in Marking(g)
    <3>1. ~Reads(c, g) /\ Touching(g)
      BY <1>0, <2>3 DEF Touching, Marking
    <3> QED
      BY <1>3, <3>1, ReadersStable, IdAssumption
  <2> QED
    BY <2>1, <2>2, <2>3, MarkersStable
<1>4. CASE InvokeGrant(g)
  <2>1. grants[g].status = "NONE" /\ req' = req /\ call' = call
    BY <1>4 DEF InvokeGrant
  <2>2. Marking(g) = {} /\ UsersOf(g) = {}
    BY <2>1, IdAssumption DEF Marking, UsersOf, Authorised, HasAuthority
  <2>3. \A c \in Call : ~Reads(c, g)
    BY <2>1, IdAssumption DEF Reads, ShapeInv, CallShape, CallAgrees
  <2>4. Marking(g)' = {} /\ UsersOf(g)' = {} /\ \A c \in Call : ~Reads(c, g)'
    BY <2>1, <2>2, <2>3 DEF Marking, UsersOf, Reads
  <2> QED
    BY <1>1, <1>2, <2>4 DEF AtMostOne
<1>5. ASSUME NEW c \in Call, CloseWrite(c), call[c].of = g
      PROVE  /\ Marking(g)' = {} /\ UsersOf(g)' = UsersOf(g)
             /\ grants'[g].status # "ACTIVE"
             /\ \A d \in Call : ~Reads(d, g)'
  <2>1. Reads(c, g) /\ req' = req
    BY <1>5 DEF CloseWrite, Reads
  <2>2. Marking(g)' = {} /\ UsersOf(g)' = UsersOf(g)
    BY <1>0, <2>1 DEF Marking, UsersOf
  <2>3. ~Reads(c, g)'
    BY <1>5 DEF CloseWrite, Reads, ShapeInv, TypeOK, NoCall
  <2>4. ASSUME NEW d \in Call, d # c
        PROVE  ~Reads(d, g)'
    BY <1>0, <1>5, <2>1, <2>4 DEF CloseWrite, Reads, ShapeInv, TypeOK
  <2> QED
    BY <1>5, <2>2, <2>3, <2>4, GrantWrites
<1>6. ASSUME NEW r \in Request, MarkWrite(r), req[r].auth = g
      PROVE  /\ Marking(g)' = {} /\ UsersOf(g)' \subseteq {r}
             /\ grants'[g].status # "ACTIVE"
             /\ \A d \in Call : ~Reads(d, g)'
  <2>1. r \in Marking(g) /\ call' = call
    BY <1>6 DEF MarkWrite, Marking
  <2>2. UsersOf(g) = {} /\ \A d \in Call : ~Reads(d, g)
    BY <1>0, <2>1
  <2>3. \A d \in Call : ~Reads(d, g)'
    BY <2>1, <2>2 DEF Reads
  <2>4. UsersOf(g)' \subseteq {r}
    <3>1. ASSUME NEW q \in UsersOf(g)'
          PROVE  q = r
      BY <1>0, <2>1, <2>2, UsersGrow DEF UsersOf
    <3> QED
      BY <3>1
  <2>5. Marking(g)' = {}
    <3>1. ASSUME NEW q \in Marking(g)'
          PROVE  FALSE
      <4>1. q \in Marking(g)
        BY <1>6, MarkersStable DEF Marking, MarkWrite, MarkRead, Touching
      <4>2. q = r
        BY <1>0, <2>1, <4>1
      <4>3. req'[r].pc = "handler"
        BY <1>6 DEF MarkWrite, Goto, ShapeInv, TypeOK, RequestState
      <4> QED
        BY <4>2, <4>3 DEF Marking
    <3> QED
      BY <3>1
  <2> QED
    BY <1>6, <2>3, <2>4, <2>5, GrantWrites
<1>7. CASE /\ grants'[g] = grants[g]
           /\ ~ \E r \in Request : MarkWrite(r) /\ req[r].auth = g
  <2>1. UsersOf(g)' \subseteq UsersOf(g)
    BY <1>7, UsersGrow DEF UsersOf, Marking
  <2>2. AtMostOne(UsersOf(g))' /\ (UsersOf(g)' # {} => grants'[g].status # "ACTIVE")
    BY <1>0, <1>7, <2>1 DEF AtMostOne
  <2>3. Marking(g)' # {} => grants'[g].status = "ACTIVE"
    BY <1>0, <1>7, MarkersStable DEF Marking
  <2>4. ASSUME NEW c \in Call, Reads(c, g)', call'[c].kind = "expire"
        PROVE  grants'[g].status = "ACTIVE"
    BY <1>0, <1>7, <2>4, ReadersStable
  <2> QED
    BY <1>1, <1>2, <1>3, <2>2, <2>3, <2>4
<1> QED
  BY <1>0, <1>1, <1>2, <1>4, <1>5, <1>6, <1>7, WhoWritesGrants DEF AtMostOne

LEMMA UsedOnceInvariant == Spec => [](ShapeInv /\ Authorised /\ UsedOnce)
<1>1. Init => UsedOnce
  <2> SUFFICES ASSUME Init, NEW g \in Grant
               PROVE  UsersOf(g) = {} /\ Marking(g) = {} /\ \A c \in Call : ~Reads(c, g)
    BY DEF UsedOnce, AtMostOne
  <2> QED
    BY DEF Init, UsersOf, Marking, Reads, NoReq, NoCall
<1>2. ShapeInv /\ Authorised /\ UsedOnce /\ [Next]_vars => UsedOnce'
  BY NextUsedOnce
<1> QED
  BY <1>1, <1>2, AuthorisedInvariant, PTL DEF Spec

\* A break-glass grant carries one privileged request, unless two transactions
\* on the grant overlapped.
THEOREM GrantOnce == Spec => []GrantOnceUnlessRaced
<1>1. UsedOnce => GrantOnceUnlessRaced
  BY DEF UsedOnce, GrantOnceUnlessRaced, AtMostOne, UsersOf, EffectsOf
<1> QED
  BY <1>1, UsedOnceInvariant, PTL

\* A reviewed grant stays reviewed, unless the review overlapped another
\* transaction on the grant: nothing that checked it before writes it after.
THEOREM ReviewFinal == Spec => ReviewFinalUnlessRaced
<1>1. ASSUME ShapeInv, UsedOnce, [Next]_vars, NEW g \in Grant, g \notin raced',
             grants[g].status = "REVIEWED"
      PROVE  grants'[g].status = "REVIEWED"
  <2>0. g \notin raced
    BY <1>1, RacedGrows
  <2>1. ASSUME NEW r \in Request, MarkWrite(r), req[r].auth = g
        PROVE  FALSE
    <3>1. r \in Marking(g)
      BY <2>1 DEF MarkWrite, Marking
    <3> QED
      BY <1>1, <2>0, <3>1 DEF UsedOnce
  <2>2. ASSUME NEW c \in Call, CloseWrite(c), call[c].of = g
        PROVE  grants'[g].status = "REVIEWED"
    <3>1. Reads(c, g)
      BY <2>2 DEF CloseWrite, Reads
    <3> QED
      BY <1>1, <2>0, <2>2, <3>1, GrantWrites DEF UsedOnce
  <2>3. ~InvokeGrant(g)
    BY <1>1 DEF InvokeGrant
  <2> QED
    BY <1>1, <2>1, <2>2, <2>3, WhoWritesGrants
<1>2. ShapeInv /\ UsedOnce /\ [Next]_vars
        => [\A g \in Grant \ raced' :
              grants[g].status = "REVIEWED" => grants'[g].status = "REVIEWED"]_vars
  BY <1>1
<1> QED
  BY <1>2, UsedOnceInvariant, PTL DEF Spec, ReviewFinalUnlessRaced

-----------------------------------------------------------------------------
(* One open escalation for one thing.                                      *)

\* Only a request that is creating one opens an escalation.
LEMMA PendingGrows ==
  ASSUME ShapeInv, [Next]_vars, NEW p, NEW a
  PROVE  \/ Pending(p, a)' \subseteq Pending(p, a)
         \/ \E r \in Request : /\ CreatePending(r) /\ r \in CreatorsOf(<<p, a>>)
                               /\ \E e : Pending(p, a)' \subseteq Pending(p, a) \cup {e}
<1> USE DEF ShapeInv
<1>1. ASSUME NEW r \in Request, CreatePending(r)
      PROVE  \/ Pending(p, a)' \subseteq Pending(p, a)
             \/ /\ r \in CreatorsOf(<<p, a>>)
                /\ \E e : Pending(p, a)' \subseteq Pending(p, a) \cup {e}
  <2>1. PICK e \in Escalation :
          esc' = [esc EXCEPT ![e] =
                    [status |-> "PENDING", source |-> req[r].caller,
                     target |-> req[r].target, ask |-> req[r].ask, consumed |-> FALSE]]
    BY <1>1 DEF CreatePending
  <2>2. /\ esc'[e].source = req[r].caller /\ esc'[e].ask = req[r].ask
        /\ \A x \in Escalation : x # e => esc'[x] = esc[x]
    BY <2>1 DEF TypeOK
  <2>3. Pending(p, a)' \subseteq Pending(p, a) \cup {e}
    BY <2>2 DEF Pending
  <2>4. CASE e \in Pending(p, a)'
    <3>1. req[r].caller = p /\ req[r].ask = a
      BY <2>2, <2>4 DEF Pending
    <3>2. r \in CreatorsOf(<<p, a>>)
      BY <1>1, <3>1 DEF CreatePending, CreatorsOf
    <3> QED
      BY <2>3, <3>2
  <2>5. CASE e \notin Pending(p, a)'
    BY <2>3, <2>5
  <2> QED
    BY <2>4, <2>5
<1>2. ASSUME NEW o \in Escalation, Consume(o)
      PROVE  Pending(p, a)' \subseteq Pending(p, a)
  BY <1>2, ConsumeEffect DEF Pending
<1>3. ASSUME NEW c \in Call, DecideWrite(c)
      PROVE  Pending(p, a)' \subseteq Pending(p, a)
  BY <1>3, DecideWriteEffect DEF Pending
<1>4. CASE esc' = esc
  BY <1>4 DEF Pending
<1> QED
  BY <1>1, <1>2, <1>3, <1>4, WhoWritesEsc

\* A request about to create an escalation either was, or it has just looked,
\* found none, and is the only one.
LEMMA CreatorsStable ==
  ASSUME ShapeInv, [Next]_vars, NEW w \in Wanted, w \notin raced',
         NEW r \in CreatorsOf(w)'
  PROVE  \/ r \in CreatorsOf(w) /\ req'[r] = req[r]
         \/ /\ ResolveTarget(r) /\ Pending(w[1], w[2]) = {}
            /\ CreatorsOf(w)' = {r}
<1>0. r \in Request /\ req'[r].pc = "create" /\ <<req'[r].caller, req'[r].ask>> = w
  BY DEF CreatorsOf
<1>1. CASE req'[r] = req[r]
  BY <1>0, <1>1 DEF CreatorsOf
<1>2. CASE RequestStep(r)
  <2>1. /\ ResolveTarget(r) /\ w = <<req[r].caller, req[r].ask>>
        /\ Pending(req[r].caller, req[r].ask) = {}
        /\ Race(w, Creating(req[r].caller, req[r].ask))
    BY <1>0, <1>2, WhereTo DEF KeepsHand
  <2>2. ~Creating(req[r].caller, req[r].ask)
    BY <2>1, Unraced
  <2>3. \A q \in Request : q # r => req'[q] = req[q]
    BY <1>0, <2>1 DEF ResolveTarget, Deny, ShapeInv, TypeOK
  <2>4. CreatorsOf(w)' \subseteq {r}
    BY <2>1, <2>2, <2>3 DEF Creating, CreatorsOf
  <2> QED
    BY <2>1, <2>4
<1> QED
  BY <1>0, <1>1, <1>2, WhoMoves

LEMMA NextOpened ==
  ASSUME ShapeInv, OpenedOnce, OnePendingUnlessRaced, [Next]_vars
  PROVE  OpenedOnce' /\ OnePendingUnlessRaced'
<1> SUFFICES ASSUME NEW w \in Wanted, w \notin raced'
             PROVE  /\ AtMostOne(CreatorsOf(w))'
                    /\ CreatorsOf(w)' # {} => Pending(w[1], w[2])' = {}
                    /\ AtMostOne(Pending(w[1], w[2]))'
  BY DEF OpenedOnce, OnePendingUnlessRaced
<1>0. /\ w \notin raced
      /\ \A q, r \in CreatorsOf(w) : q = r
      /\ CreatorsOf(w) # {} => Pending(w[1], w[2]) = {}
      /\ \A d, e \in Pending(w[1], w[2]) : d = e
  <2>1. w \notin raced
    BY RacedGrows
  <2> QED
    BY <2>1 DEF OpenedOnce, OnePendingUnlessRaced, AtMostOne
<1>1. w = <<w[1], w[2]>>
  BY WantedAssumption
<1>2. AtMostOne(CreatorsOf(w))'
  <2>1. ASSUME NEW q \in CreatorsOf(w)', NEW r \in CreatorsOf(w)'
        PROVE  q = r
    BY <1>0, CreatorsStable
  <2> QED
    BY <2>1 DEF AtMostOne
<1>3. CASE Pending(w[1], w[2])' \subseteq Pending(w[1], w[2])
  <2>1. ASSUME NEW r \in CreatorsOf(w)'
        PROVE  Pending(w[1], w[2]) = {}
    BY <1>0, CreatorsStable
  <2>2. CreatorsOf(w)' # {} => Pending(w[1], w[2])' = {}
    BY <1>3, <2>1
  <2>3. AtMostOne(Pending(w[1], w[2]))'
    BY <1>0, <1>3 DEF AtMostOne
  <2> QED
    BY <1>2, <2>2, <2>3
<1>4. ASSUME NEW r \in Request, CreatePending(r), r \in CreatorsOf(w),
             NEW e, Pending(w[1], w[2])' \subseteq Pending(w[1], w[2]) \cup {e}
      PROVE  CreatorsOf(w)' = {} /\ AtMostOne(Pending(w[1], w[2]))'
  <2>1. Pending(w[1], w[2])' \subseteq {e}
    BY <1>0, <1>4
  <2>2. ASSUME NEW q \in CreatorsOf(w)'
        PROVE  FALSE
    <3>1. ~ResolveTarget(q) \/ q = r
      BY <1>4, DenyEffect DEF CreatePending, ResolveTarget, CreatorsOf, ShapeInv
    <3>2. req'[r].pc = "idle"
      BY <1>4, DenyEffect DEF CreatePending, ShapeInv
    <3>3. q # r
      BY <3>2 DEF CreatorsOf
    <3>4. q \in CreatorsOf(w)
      BY <3>1, <3>3, CreatorsStable
    <3> QED
      BY <1>0, <1>4, <3>3, <3>4
  <2> QED
    BY <2>1, <2>2 DEF AtMostOne
<1> QED
  BY <1>1, <1>2, <1>3, <1>4, PendingGrows

\* A caller retrying an endpoint has one open escalation for it, unless two of
\* its requests overlapped between the find and the create.
THEOREM OnePending == Spec => []OnePendingUnlessRaced
<1>1. Init => OpenedOnce /\ OnePendingUnlessRaced
  <2> SUFFICES ASSUME Init, NEW w \in Wanted
               PROVE  CreatorsOf(w) = {} /\ Pending(w[1], w[2]) = {}
    BY DEF OpenedOnce, OnePendingUnlessRaced, AtMostOne
  <2> QED
    BY DEF Init, CreatorsOf, Pending, NoReq, NoEsc
<1>2. ShapeInv /\ OpenedOnce /\ OnePendingUnlessRaced /\ [Next]_vars
        => OpenedOnce' /\ OnePendingUnlessRaced'
  BY NextOpened
<1> QED
  BY <1>1, <1>2, ShapeInvariant, PTL DEF Spec

-----------------------------------------------------------------------------
(* The floor under the number of operators.                                *)

\* The steps that write can_admin_niov.
LEMMA WhoWritesOperators ==
  ASSUME [Next]_vars
  PROVE  operators' = operators \/ \E r \in Request : ApplyAuthorityChange(r)
BY DEF Next, RequestStep, CallStep, vars, Submit, Lookup, ValidateBreakGlassGrant, MarkRead,
   MarkWrite, ResolveTarget, CreatePending, GrantChecks, RevokeChecks, ConsumeLost,
   UpdateConfig, Fail, DecideRead, DecideWrite, CloseRead, CloseWrite, CallFails, InvokeGrant

\* A revocation past the floor check either was, or it has just counted the
\* operators and is the only one.
LEMMA LowerersStable ==
  ASSUME ShapeInv, [Next]_vars, Census \notin raced', NEW r \in Lowerers'
  PROVE  \/ r \in Lowerers /\ req'[r] = req[r]
         \/ RevokeChecks(r) /\ Cardinality(operators) > Floor /\ Lowerers' = {r}
<1>0. r \in Request /\ req'[r].pc = "commit" /\ req'[r].ask.endpoint = "revoke"
  BY DEF Lowerers
<1>1. CASE req'[r] = req[r]
  BY <1>0, <1>1 DEF Lowerers
<1>2. CASE RequestStep(r)
  <2>1. RevokeChecks(r) /\ Cardinality(operators) > Floor /\ Race(Census, Lowering)
    BY <1>0, <1>2, WhereTo DEF KeepsHand
  <2>2. ~Lowering
    BY <2>1, Unraced
  <2>3. \A q \in Request : q # r => req'[q] = req[q]
    BY <2>1 DEF RevokeChecks, Goto, Deny, ShapeInv, TypeOK
  <2>4. Lowerers' \subseteq {r}
    BY <2>2, <2>3 DEF Lowering, Lowerers
  <2> QED
    BY <2>1, <2>4
<1> QED
  BY <1>0, <1>1, <1>2, WhoMoves

LEMMA NextFloor ==
  ASSUME ShapeInv, FloorKept, FloorUnlessRaced, [Next]_vars
  PROVE  FloorKept' /\ FloorUnlessRaced'
<1>0. Cardinality(operators) \in Nat /\ Floor \in Nat /\ IsFiniteSet(operators)
  BY FloorAssumption, FS_CardinalityType DEF FloorKept
<1>1. /\ Census \notin raced' => Census \notin raced
      /\ Census \notin raced =>
           /\ \A q, r \in Lowerers : q = r
           /\ Lowerers # {} => Cardinality(operators) > Floor
           /\ Cardinality(operators) >= Floor
  BY RacedGrows DEF FloorKept, FloorUnlessRaced, AtMostOne
<1>2. Census \notin raced' => AtMostOne(Lowerers)'
  <2>1. ASSUME Census \notin raced', NEW q \in Lowerers', NEW r \in Lowerers'
        PROVE  q = r
    BY <1>1, <2>1, LowerersStable
  <2> QED
    BY <2>1 DEF AtMostOne
<1>3. CASE operators' = operators
  <2>1. ASSUME Census \notin raced', NEW r \in Lowerers'
        PROVE  Cardinality(operators) > Floor
    BY <1>1, <2>1, LowerersStable
  <2>2. Census \notin raced' /\ Lowerers' # {} => Cardinality(operators') > Floor
    BY <1>3, <2>1
  <2>3. Census \notin raced' => Cardinality(operators') >= Floor
    BY <1>1, <1>3
  <2> QED
    BY <1>0, <1>2, <1>3, <2>2, <2>3 DEF FloorKept, FloorUnlessRaced
<1>4. ASSUME NEW r \in Request, ApplyAuthorityChange(r)
      PROVE  FloorKept' /\ FloorUnlessRaced'
  <2> DEFINE x == req[r].ask.body
  <2>1. req'[r].pc = "effected" /\ \A q \in Request : q # r => req'[q] = req[q]
    BY <1>4 DEF ApplyAuthorityChange, Goto, ShapeInv, TypeOK, RequestState
  <2>2. Lowerers' = Lowerers \ {r}
    BY <2>1 DEF Lowerers
  <2>3. CASE req[r].ask.endpoint = "grant"
    <3>1. operators' = operators \cup {x}
      BY <1>4, <2>3 DEF ApplyAuthorityChange
    <3>2. IsFiniteSet(operators') /\ Cardinality(operators') >= Cardinality(operators)
      BY <1>0, <3>1, FS_AddElement
    <3>3. Cardinality(operators') \in Nat
      BY <3>2, FS_CardinalityType
    <3>4. Census \notin raced' /\ Lowerers' # {} => Cardinality(operators') > Floor
      BY <1>0, <1>1, <2>2, <3>2, <3>3
    <3>5. Census \notin raced' => Cardinality(operators') >= Floor
      BY <1>0, <1>1, <3>2, <3>3
    <3> QED
      BY <1>2, <3>2, <3>4, <3>5 DEF FloorKept, FloorUnlessRaced
  <2>4. CASE req[r].ask.endpoint # "grant"
    <3>1. operators' = operators \ {x}
      BY <1>4, <2>4 DEF ApplyAuthorityChange
    <3>2. IsFiniteSet(operators') /\ Cardinality(operators') >= Cardinality(operators) - 1
      <4>1. CASE x \in operators
        <5>1. IsFiniteSet(operators \ {x}) /\ Cardinality(operators \ {x}) = Cardinality(operators) - 1
          BY <1>0, <4>1, FS_RemoveElement
        <5> QED
          BY <1>0, <3>1, <5>1
      <4>2. CASE x \notin operators
        <5>1. operators' = operators
          BY <3>1, <4>2
        <5> QED
          BY <1>0, <5>1
      <4> QED
        BY <4>1, <4>2
    <3>3. Cardinality(operators') \in Nat
      BY <3>2, FS_CardinalityType
    <3>4. r \in Lowerers
      BY <1>4, <2>4 DEF ApplyAuthorityChange, Lowerers, ShapeInv, RequestShape, Bound
    <3>5. Census \notin raced' => Lowerers' = {}
      BY <1>1, <2>2, <3>4
    <3>6. Census \notin raced' => Cardinality(operators') >= Floor
      BY <1>0, <1>1, <3>2, <3>3, <3>4
    <3> QED
      BY <1>2, <3>2, <3>5, <3>6 DEF FloorKept, FloorUnlessRaced
  <2> QED
    BY <2>3, <2>4
<1> QED
  BY <1>3, <1>4, WhoWritesOperators

\* The platform keeps at least Floor operators, unless two revocations
\* overlapped between the census and the write.
THEOREM FloorHolds == Spec => []FloorUnlessRaced
<1>1. Init => FloorKept /\ FloorUnlessRaced
  BY FloorAssumption DEF Init, FloorKept, FloorUnlessRaced, Lowerers, NoReq, AtMostOne
<1>2. ShapeInv /\ FloorKept /\ FloorUnlessRaced /\ [Next]_vars => FloorKept' /\ FloorUnlessRaced'
  BY NextFloor
<1> QED
  BY <1>1, <1>2, ShapeInvariant, PTL DEF Spec
=============================================================================
