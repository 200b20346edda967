---------------------------- MODULE MCAccounts ----------------------------
(***************************************************************************)
(* Instances of Accounts: a lockout after two failures, and a TAR with one *)
(* policy that lets the account log in and one that does not.  Links are   *)
(* symmetric because every one of them is a reset link.                    *)
(***************************************************************************)
EXTENDS AccountsInv, TLC

Symmetry == Permutations(Login) \cup Permutations(Redeem) \cup Permutations(Link)
=============================================================================
