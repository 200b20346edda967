-------------------------- MODULE MCCapsuleStore --------------------------
(***************************************************************************)
(* Instances of CapsuleStore: the first writer creates the capsule, the    *)
(* others race to update it.                                               *)
(***************************************************************************)
EXTENDS CapsuleStoreInv, TLC

Symmetry == Permutations(Writer) \cup Permutations(Reader)
              \cup Permutations(Text) \cup Permutations(Meta)
=============================================================================
