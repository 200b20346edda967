--------------------------- MODULE MCDualControl ---------------------------
(***************************************************************************)
(* Instances of DualControl.  Asks that revoke each other are what the     *)
(* operator floor is about; the grant brings a revoked operator back.      *)
(***************************************************************************)
EXTENDS DualControlInv, TLC

RevokeOf(p) == [endpoint |-> "revoke", body |-> p]
GrantTo(p) == [endpoint |-> "grant", body |-> p]
Config == [endpoint |-> "config", body |-> None]

TwoOperators == {1, 2}
TwoWanted == {<<1, RevokeOf(2)>>, <<1, RevokeOf(1)>>, <<1, Config>>}

ThreeOperators == {1, 2, 3}
ThreeWanted == {<<1, RevokeOf(2)>>, <<2, RevokeOf(1)>>, <<3, GrantTo(2)>>,
                <<1, Config>>}

Symmetry == Permutations(Request) \cup Permutations(Call)
              \cup Permutations(Escalation)
=============================================================================
