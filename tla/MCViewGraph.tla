---------------------------- MODULE MCViewGraph ----------------------------
(***************************************************************************)
(* A catalogue of seven transactions for ViewGraph:                       *)
(*   g            genesis, depth 0, confidence 0                          *)
(*   a <- g       honest                                                   *)
(*   b <- a       honest                                                   *)
(*   d <- a, b    honest diamond                                           *)
(*   f <- a       forged: claims depth 3 instead of 2                      *)
(*   c <- f       consistent with f's claims, so only its ancestry is bad  *)
(*   e <- c       grandchild of the forged f                               *)
(*   h <- a       honest sibling of b, at b's depth                        *)
(* A cfg picks the ids it runs with as Txs.                                *)
(***************************************************************************)
EXTENDS ViewGraph

MCGenesis == "g"

\* Every transaction of the catalogue.
MCTxs == {"a", "b", "d", "f", "c", "e"}

\* Without the grandchild e, small enough for exhaustive runs.
MCTxsNoGrandchild == {"a", "b", "d", "f", "c"}

\* A sibling that may arrive after the root has passed its depth.
MCTxsLateSibling == {"a", "b", "h"}

MCCatalogueParents ==
  ("g" :> {}) @@ ("a" :> {"g"}) @@ ("b" :> {"a"}) @@ ("d" :> {"a", "b"})
    @@ ("f" :> {"a"}) @@ ("c" :> {"f"}) @@ ("e" :> {"c"}) @@ ("h" :> {"a"})
MCCatalogueDepth ==
  ("g" :> 0) @@ ("a" :> 1) @@ ("b" :> 2) @@ ("d" :> 3)
    @@ ("f" :> 3) @@ ("c" :> 4) @@ ("e" :> 5) @@ ("h" :> 2)
MCCatalogueConfidence ==
  ("g" :> 0) @@ ("a" :> 1) @@ ("b" :> 2) @@ ("d" :> 4)
    @@ ("f" :> 2) @@ ("c" :> 3) @@ ("e" :> 4) @@ ("h" :> 2)

MCParents == [t \in Txs \cup {MCGenesis} |-> MCCatalogueParents[t]]
MCDepth == [t \in Txs \cup {MCGenesis} |-> MCCatalogueDepth[t]]
MCConfidence == [t \in Txs \cup {MCGenesis} |-> MCCatalogueConfidence[t]]
=============================================================================
