----------------------------- MODULE ViewGraphSpec -----------------------------
(***************************************************************************)
(* What the view graph promises (spec 4.1, the lifecycle of line 63 and   *)
(* the partition of line 56), with no children lists, missing set or      *)
(* indices: the graph holds a set of complete transactions and a root.    *)
(*   - a set of transactions becomes complete at once (one add and the    *)
(*     promotions it cascades into); each of them is valid and each of    *)
(*     its parents is complete already or completes in the same step;     *)
(*   - complete transactions leave only by deletion or pruning, never the *)
(*     root;                                                              *)
(*   - the root moves to a deeper complete transaction.                   *)
(***************************************************************************)
EXTENDS Naturals

CONSTANTS
  Genesis,  \* the first root
  AllTx,    \* every transaction the network may gossip
  Parents,  \* [AllTx -> SUBSET AllTx]
  Depth,    \* [AllTx -> Nat]
  Valid     \* the transactions whose depth and confidence check out

VARIABLES
  complete, \* stored transactions that are not incomplete
  root      \* the current round's root

vars == <<complete, root>>

Init ==
  /\ complete = {Genesis}
  /\ root = Genesis

Complete(S) ==
  /\ S # {}
  /\ S \cap complete = {}
  /\ S \subseteq Valid
  /\ \A t \in S : Parents[t] \subseteq complete \cup S
  /\ complete' = complete \cup S
  /\ UNCHANGED root

Remove(S) ==
  /\ S # {}
  /\ S \subseteq complete
  /\ root \notin S
  /\ complete' = complete \ S
  /\ UNCHANGED root

Advance(r) ==
  /\ r \in complete
  /\ Depth[r] > Depth[root]
  /\ root' = r
  /\ UNCHANGED complete

Next ==
  \/ \E S \in SUBSET AllTx : Complete(S) \/ Remove(S)
  \/ \E r \in AllTx : Advance(r)

Spec == Init /\ [][Next]_vars

=============================================================================
