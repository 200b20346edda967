--------------------------- MODULE DualControlInv ---------------------------
(***************************************************************************)
(* The inductive invariants from which DualControlProofs proves the        *)
(* properties of DualControl.                                              *)
(***************************************************************************)
EXTENDS DualControl

(* Types that depend on where a request or a call is. *)
RequestShape ==
  \A r \in Request :
    /\ req[r].pc # "idle" => <<req[r].caller, req[r].ask>> \in Wanted
    /\ req[r].pc \in {"mark", "marked"} => req[r].auth \in Grant
    /\ req[r].pc = "commit" => req[r].ask.endpoint \in Bound

CallAgrees(c) ==
  \/ call[c].pc = "idle"
  \/ /\ call[c].kind \in Verdict
     /\ call[c].of \in Escalation
     /\ esc[call[c].of].status # "NONE"
     /\ call[c].by # esc[call[c].of].source
  \/ /\ call[c].kind \in Closing
     /\ call[c].pc = "read"
     /\ call[c].of \in Grant
     /\ grants[call[c].of].status # "NONE"

CallShape == \A c \in Call : CallAgrees(c)

Reads(c, o) == call[c].pc = "read" /\ call[c].of = o

Seconded(e) == \E c \in ApprovalsOf(e) : call[c].by # esc[e].source

(* A request past the gate goes by an authority given to its caller for     *)
(* what it asks; an escalation became one on another person's word.         *)
HasAuthority(r) ==
  \/ /\ req[r].auth \in Escalation
     /\ esc[req[r].auth].status # "NONE"
     /\ esc[req[r].auth].source = req[r].caller
     /\ esc[req[r].auth].ask = req[r].ask
     /\ Seconded(req[r].auth)
  \/ /\ req[r].auth \in Grant
     /\ grants[req[r].auth].status # "NONE"
     /\ grants[req[r].auth].source = req[r].caller
     /\ grants[req[r].auth].endpoint = req[r].ask.endpoint

Authorised ==
  /\ \A e \in Escalation : esc[e].status = "APPROVED" => Seconded(e)
  /\ \A r \in Request :
       req[r].pc \in {"mark", "marked", "handler", "commit", "effected"} => HasAuthority(r)

(* While no two decisions of an escalation overlap, the one that has read   *)
(* it finds it PENDING still, and what was spent stays spent.               *)
SpentStaysSpent ==
  \A e \in Escalation \ raced :
    /\ AtMostOne({c \in Call : Reads(c, e)})
    /\ \A c \in Call : Reads(c, e) => esc[e].status = "PENDING"
    /\ esc[e].ask.endpoint \in Bound /\ EffectsOf(e) # {} => esc[e].status = "EXPIRED"

(* While no two transactions on a grant overlap, the one that has read it   *)
(* to use or expire it finds it ACTIVE still; once used it is not ACTIVE.   *)
UsersOf(g) ==
  {r \in Request : req[r].pc \in {"handler", "commit", "effected"} /\ req[r].auth = g}

Marking(g) == {r \in Request : req[r].pc = "marked" /\ req[r].auth = g}

UsedOnce ==
  \A g \in Grant \ raced :
    /\ AtMostOne({c \in Call : Reads(c, g)})
    /\ AtMostOne(Marking(g))
    /\ \A c \in Call : Reads(c, g) =>
         /\ Marking(g) = {}
         /\ call[c].kind = "expire" => grants[g].status = "ACTIVE"
    /\ Marking(g) # {} => grants[g].status = "ACTIVE"
    /\ AtMostOne(UsersOf(g))
    /\ UsersOf(g) # {} => grants[g].status # "ACTIVE"

(* While no two requests for one thing overlap between the find and the     *)
(* create, whoever is about to create finds nothing open still.             *)
CreatorsOf(w) == {r \in Request : req[r].pc = "create" /\ <<req[r].caller, req[r].ask>> = w}

OpenedOnce ==
  \A w \in Wanted \ raced :
    /\ AtMostOne(CreatorsOf(w))
    /\ CreatorsOf(w) # {} => Pending(w[1], w[2]) = {}

(* While no two revocations overlap, the one that passed the floor check    *)
(* leaves the floor.                                                        *)
Lowerers == {r \in Request : req[r].pc = "commit" /\ req[r].ask.endpoint = "revoke"}

FloorKept ==
  /\ IsFiniteSet(operators)
  /\ Census \notin raced =>
       /\ AtMostOne(Lowerers)
       /\ Lowerers # {} => Cardinality(operators) > Floor

ShapeInv == TypeOK /\ RequestShape /\ CallShape

DualInv ==
  /\ Authorised /\ SpentStaysSpent /\ UsedOnce /\ OpenedOnce /\ FloorKept
  /\ ApprovalBudget /\ SingleUseUnlessRaced /\ OnePendingUnlessRaced /\ FloorUnlessRaced
=============================================================================
