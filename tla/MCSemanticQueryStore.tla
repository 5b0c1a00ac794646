------------------------ MODULE MCSemanticQueryStore ------------------------
(* A pure input of two versions, a query over it and a projection of that.  *)
EXTENDS SemanticQueryStore, TLC
Symmetry == Permutations(Callers)

Chain ==
  [k \in Keys |-> CASE k = "query" -> {{"input0"}, {"input1"}}
                    [] k = "projection" -> {{"query"}}
                    [] OTHER -> {}]
=============================================================================
