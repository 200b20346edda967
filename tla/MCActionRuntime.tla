--------------------------- MODULE MCActionRuntime ---------------------------
EXTENDS ActionRuntimeInv, TLC

Symmetry == Permutations(Actions) \cup Permutations(Workers)
              \cup Permutations(Requests) \cup Permutations(Entities)
              \cup Permutations(Schedulers) \cup Permutations(Reconcilers)
=============================================================================
