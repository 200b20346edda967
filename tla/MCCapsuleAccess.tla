-------------------------- MODULE MCCapsuleAccess --------------------------
(***************************************************************************)
(* Instances of CapsuleAccess: an AI agent that is granted FULL without    *)
(* the override, or blocked, and a person who is granted METADATA.          *)
(***************************************************************************)
EXTENDS CapsuleAccessInv, TLC

CONSTANTS agent, person

Grant(g, s) ==
  [to |-> g, block |-> FALSE, scope |-> s, ai_full |-> FALSE, write |-> TRUE]

Block(g) ==
  [to |-> g, block |-> TRUE, scope |-> 0, ai_full |-> FALSE, write |-> FALSE]

MixedOffers == {Grant(agent, FULL), Block(agent), Grant(person, 0)}

Symmetry == Permutations(Capsule) \cup Permutations(Bridge)
              \cup Permutations(Declaration) \cup Permutations(Access)
=============================================================================
