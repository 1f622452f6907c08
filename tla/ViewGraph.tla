------------------------------ MODULE ViewGraph ------------------------------
(***************************************************************************)
(* The view graph of src/graph.go: the node's DAG of transactions, the     *)
(* bookkeeping of incomplete, missing and eligible transactions, the       *)
(* seed/depth indices and the round index used for pruning.                *)
(*                                                                         *)
(* Transactions are content-addressed, so a transaction id determines its  *)
(* parents, depth and confidence: the CONSTANTS Parents, Depth and         *)
(* Confidence are the catalogue of every transaction the network may ever  *)
(* gossip to this node, honest or forged.  Parent lists are modelled as    *)
(* sets: their order and uniqueness are checked by assertTransactionIsValid*)
(* which is modelled on its own in TxValidation.  Every public mutator of *)
(* Graph is one action, executed atomically as under the graph's lock.     *)
(***************************************************************************)
EXTENDS Naturals, Sequences, FiniteSets, SequencesExt, TLC

CONSTANTS
  Genesis,                     \* id of the genesis root (NewGraph(nil))
  Txs,                         \* ids of every other transaction
  Parents,                     \* [AllTx -> SUBSET AllTx], parent_ids
  Depth,                       \* [AllTx -> Nat], claimed depth
  Confidence,                  \* [AllTx -> Nat], claimed confidence
  MaxEligibleParentsDepthDiff, \* sys.MaxEligibleParentsDepthDiff
  PruningDepth,                \* PruningDepth
  MaxRound,                    \* bound: number of rounds the ledger finalizes
  MaxChildLinks,               \* bound: length of one children[] list
  ResetToAbsentRoot            \* may a round root be absent from the graph?

AllTx == Txs \cup {Genesis}

ASSUME /\ Genesis \notin Txs
       /\ Parents \in [AllTx -> SUBSET AllTx]
       /\ Parents[Genesis] = {} /\ \A t \in Txs : Parents[t] # {} /\ t \notin Parents[t]
       /\ Depth \in [AllTx -> Nat] /\ Confidence \in [AllTx -> Nat]
       /\ PruningDepth \in Nat \ {0} /\ MaxRound \in Nat /\ MaxChildLinks \in Nat
       /\ ResetToAbsentRoot \in BOOLEAN

VARIABLES
  transactions, \* ids stored in g.transactions
  children,     \* g.children: id -> sequence of child ids, in append order
  eligible,     \* g.eligible
  incomplete,   \* g.incomplete
  missing,      \* g.missing
  indexed,      \* ids present in g.seedIndex and g.depthIndex (by Depth)
  roundIndex,   \* g.roundIndex: round index -> set of ids
  rootID,       \* g.rootID
  height,       \* g.height
  round,        \* index of the ledger's current round (caller of Reset/Prune)
  rejected      \* ids that markTransactionAsComplete rejected in the last step

vars == <<transactions, children, eligible, incomplete, missing, indexed,
          roundIndex, rootID, height, round, rejected>>

K == MaxEligibleParentsDepthDiff

(***************************************************************************)
(* The descendants of a transaction in the catalogue, and the honest       *)
(* transactions: those whose claimed depth and confidence, and those of    *)
(* all their ancestors, are what assertTransactionIsComplete recomputes.   *)
(***************************************************************************)
MaxOver(f, S) == IF S = {} THEN 0 ELSE f[CHOOSE x \in S : \A y \in S : f[x] >= f[y]]

RECURSIVE Closure(_)
Closure(S) ==
  LET next == {t \in AllTx : Parents[t] \cap S # {}}
  IN IF next \subseteq S THEN S ELSE Closure(S \cup next)

\* Progeny[t]: every transaction of the catalogue that descends from t.
Progeny == [t \in AllTx |-> Closure({t}) \ {t}]

RECURSIVE Honest(_)
Honest(t) ==
  \/ t = Genesis
  \/ /\ \A p \in Parents[t] : Honest(p) /\ Depth[p] + K >= Depth[t]
     /\ Depth[t] = MaxOver(Depth, Parents[t]) + 1
     /\ Confidence[t] = MaxOver(Confidence, Parents[t]) + Cardinality(Parents[t])

HonestTxs == {t \in AllTx : Honest(t)}

(***************************************************************************)
(* The part of the graph that the internal helpers read and write, as one  *)
(* record, so that the recursive helpers can be pure operators.            *)
(***************************************************************************)
G == [transactions |-> transactions, children |-> children, eligible |-> eligible,
      incomplete |-> incomplete, missing |-> missing, indexed |-> indexed,
      height |-> height, rejected |-> {}]

Commit(g) ==
  /\ transactions' = g.transactions
  /\ children' = g.children
  /\ eligible' = g.eligible
  /\ incomplete' = g.incomplete
  /\ missing' = g.missing
  /\ indexed' = g.indexed
  /\ height' = g.height
  /\ rejected' = g.rejected

\* lookupTransactionByID: a miss records the id as missing.
lookupTransactionByID(g, id) ==
  IF id \in g.transactions THEN g ELSE [g EXCEPT !.missing = @ \cup {id}]

\* Mutant: the depth is not compared with the parents' depths.
assertTransactionIsComplete_noDepthCheck(g, t) ==
  /\ Parents[t] \subseteq g.transactions
  /\ \A p \in Parents[t] : Depth[p] + K >= Depth[t]
  /\ Confidence[t] = MaxOver(Confidence, Parents[t]) + Cardinality(Parents[t])

\* assertTransactionIsComplete returns nil.  Depth and confidence are the
\* maximum over the parents plus one, resp. plus the number of parents.
assertTransactionIsComplete(g, t) ==
  /\ Parents[t] \subseteq g.transactions
  /\ \A p \in Parents[t] : Depth[p] + K >= Depth[t]
  /\ Depth[t] = MaxOver(Depth, Parents[t]) + 1
  /\ Confidence[t] = MaxOver(Confidence, Parents[t]) + Cardinality(Parents[t])

\* Mutant: a parent that gains a child stays eligible.
processParents_keepsEligible(g, t) ==
  [g EXCEPT !.missing = @ \cup (Parents[t] \ g.transactions),
            !.children = [p \in AllTx |-> IF p \in Parents[t] THEN Append(@[p], t) ELSE @[p]]]

\* processParents: look every parent up, link t as its child, and take the
\* parent out of the eligible set.
processParents(g, t) ==
  [g EXCEPT !.missing = @ \cup (Parents[t] \ g.transactions),
            !.children = [p \in AllTx |-> IF p \in Parents[t] THEN Append(@[p], t) ELSE @[p]],
            !.eligible = @ \ Parents[t]]

\* Mutant: the id is left in the incomplete set.
deleteTransaction_keepsIncomplete(g, id) ==
  [g EXCEPT !.indexed = IF id \in g.transactions THEN @ \ {id} ELSE @,
            !.transactions = @ \ {id},
            !.children[id] = <<>>,
            !.eligible = @ \ {id},
            !.missing = @ \ {id}]

\* deleteTransaction: all traces of id except the round index.
deleteTransaction(g, id) ==
  [g EXCEPT !.indexed = IF id \in g.transactions THEN @ \ {id} ELSE @,
            !.transactions = @ \ {id},
            !.children[id] = <<>>,
            !.eligible = @ \ {id},
            !.incomplete = @ \ {id},
            !.missing = @ \ {id}]

\* deleteIncompleteTransaction: id and the children linked to it.
deleteIncompleteTransaction(g, id) ==
  LET del(acc, c) == deleteTransaction(acc, c)
      g1 == deleteTransaction(g, id)
  IN [FoldLeft(del, g1, g.children[id]) EXCEPT !.rejected = @ \cup {id}]

\* createTransactionIndices
createTransactionIndices(g, t) ==
  LET h == IF g.height < Depth[t] THEN Depth[t] + 1 ELSE g.height
  IN [g EXCEPT !.indexed = @ \cup {t},
               !.height = h,
               !.eligible = IF g.children[t] = <<>> /\ Depth[t] + K >= h
                            THEN @ \cup {t} ELSE @]

\* markTransactionAsComplete: verify, index, then promote every incomplete
\* child whose parents are all present and complete.
RECURSIVE markTransactionAsComplete(_, _)

\* Mutant: a child is promoted once its parents are stored, complete or not.
markTransactionAsComplete_ignoresIncompleteParents(g, t) ==
  IF ~assertTransactionIsComplete(g, t)
  THEN deleteIncompleteTransaction(g, t)
  ELSE LET g1 == createTransactionIndices(g, t)
           promote(acc, c) ==
             IF /\ c \in acc.incomplete
                /\ c \in acc.transactions
                /\ \A p \in Parents[c] : p \in acc.transactions
             THEN markTransactionAsComplete([acc EXCEPT !.incomplete = @ \ {c}], c)
             ELSE acc
       IN FoldLeft(promote, g1, g1.children[t])

markTransactionAsComplete(g, t) ==
  IF ~assertTransactionIsComplete(g, t)
  THEN deleteIncompleteTransaction(g, t)
  ELSE LET g1 == createTransactionIndices(g, t)
           promote(acc, c) ==
             IF /\ c \in acc.incomplete
                /\ c \in acc.transactions
                /\ \A p \in Parents[c] : p \notin acc.incomplete /\ p \in acc.transactions
             THEN markTransactionAsComplete([acc EXCEPT !.incomplete = @ \ {c}], c)
             ELSE acc
       IN FoldLeft(promote, g1, g1.children[t])

-----------------------------------------------------------------------------
(***************************************************************************)
(* Operations                                                              *)
(***************************************************************************)

\* NewGraph(nil): the zero transaction is the root, then it is indexed.
Init ==
  LET g == createTransactionIndices(
             [transactions |-> {Genesis}, children |-> [t \in AllTx |-> <<>>],
              eligible |-> {}, incomplete |-> {}, missing |-> {}, indexed |-> {},
              height |-> Depth[Genesis] + 1, rejected |-> {}], Genesis)
  IN /\ transactions = g.transactions
     /\ children = g.children
     /\ eligible = g.eligible
     /\ incomplete = g.incomplete
     /\ missing = g.missing
     /\ indexed = g.indexed
     /\ height = g.height
     /\ rejected = g.rejected
     /\ roundIndex = <<>>
     /\ rootID = Genesis
     /\ round = 0

\* AddTransaction(tx): ErrAlreadyExists changes nothing and is left out.
AddTransaction(t) ==
  /\ t \notin transactions
  /\ \A p \in Parents[t] : Len(children[p]) < MaxChildLinks
  /\ LET g0 == [G EXCEPT !.transactions = @ \cup {t}, !.missing = @ \ {t}]
         waitingOn == {p \in Parents[t] : p \notin g0.transactions \/ p \in g0.incomplete}
         g1 == processParents(g0, t)
     IN Commit(IF waitingOn # {} THEN [g1 EXCEPT !.incomplete = @ \cup {t}]
               ELSE markTransactionAsComplete(g1, t))
  /\ UNCHANGED <<roundIndex, rootID, round>>

\* LookupTransactionByID(id)
LookupTransactionByID(id) ==
  /\ Commit(lookupTransactionByID(G, id))
  /\ UNCHANGED <<roundIndex, rootID, round>>

\* DeleteTransaction(id); the current root is never deleted by the caller.
DeleteTransaction(id) ==
  /\ id # rootID
  /\ Commit(deleteTransaction(G, id))
  /\ UNCHANGED <<roundIndex, rootID, round>>

\* FindEligibleParents: lazily evict stale entries of eligible.
FindEligibleParents ==
  /\ rootID \in transactions
  /\ eligible' = {e \in eligible : /\ e \in transactions
                                   /\ e = rootID \/ Depth[e] > Depth[rootID]
                                   /\ Depth[e] + K > height}
  /\ rejected' = {}
  /\ UNCHANGED <<transactions, children, incomplete, missing, indexed,
                 roundIndex, rootID, height, round>>

\* The roots the ledger may finalize next: an honest descendant of the
\* current root, stored and complete in the graph unless ResetToAbsentRoot.
RootCandidates ==
  {r \in Progeny[rootID] \cap HonestTxs :
     /\ Depth[r] > Depth[rootID]
     /\ ResetToAbsentRoot \/ r \in transactions \ incomplete}

\* Reset(newRound) with newRound.Index = round + 1 and newRound.Root = r.
Reset(r) ==
  /\ round < MaxRound
  /\ LET g1 == createTransactionIndices([G EXCEPT !.transactions = @ \cup {r}], r)
         moved == {t \in g1.indexed : Depth[rootID] < Depth[t] /\ Depth[t] <= Depth[r]}
     IN /\ Commit(g1)
        /\ roundIndex' = (round + 1 :> moved) @@ roundIndex
  /\ rootID' = r
  /\ round' = round + 1

\* Mutant: rounds are pruned without keeping PruningDepth of them.
Prune_noDepth ==
  LET old == {i \in DOMAIN roundIndex : i <= round}
      del(id, acc) == deleteTransaction(acc, id)
  IN /\ old # {}
     /\ Commit(FoldSet(del, G, UNION {roundIndex[i] : i \in old}))
     /\ roundIndex' = [i \in DOMAIN roundIndex \ old |-> roundIndex[i]]
     /\ UNCHANGED <<rootID, round>>

\* Prune(round) with the ledger's current round.
Prune ==
  LET old == {i \in DOMAIN roundIndex : i + PruningDepth <= round}
      del(id, acc) == deleteTransaction(acc, id)
  IN /\ old # {}
     /\ Commit(FoldSet(del, G, UNION {roundIndex[i] : i \in old}))
     /\ roundIndex' = [i \in DOMAIN roundIndex \ old |-> roundIndex[i]]
     /\ UNCHANGED <<rootID, round>>

Next ==
  \/ \E t \in AllTx : AddTransaction(t)
  \/ \E id \in AllTx : LookupTransactionByID(id)
  \/ \E id \in AllTx : DeleteTransaction(id)
  \/ FindEligibleParents
  \/ \E r \in RootCandidates : Reset(r)
  \/ Prune

Spec == Init /\ [][Next]_vars

-----------------------------------------------------------------------------
(***************************************************************************)
(* Properties                                                              *)
(***************************************************************************)

\* Types, and the containments every deletion must keep: incomplete and
\* indexed ids are stored ids, missing ids are ids of the catalogue.
TypeOK ==
  /\ transactions \subseteq AllTx
  /\ children \in [AllTx -> Seq(AllTx)]
  /\ eligible \subseteq AllTx
  /\ incomplete \subseteq transactions
  /\ indexed \subseteq transactions
  /\ missing \subseteq AllTx
  /\ rootID \in AllTx
  /\ height \in Nat
  /\ round \in 0..MaxRound
  /\ DOMAIN roundIndex \subseteq 1..MaxRound

(* A transaction counts as complete (stored, not incomplete) only if it    *)
(* and every one of its ancestors carries the depth and confidence that    *)
(* assertTransactionIsComplete recomputes: markTransactionAsComplete must  *)
(* never promote a child built on a forged, not yet verified parent,       *)
(* whatever order AddTransaction receives the DAG in.                      *)
AcceptedAreValid == \A t \in transactions \ incomplete : t \in HonestTxs

(* Every eligible parent is indexed and has no children: processParents   *)
(* takes a parent out of eligible when it links a child, and               *)
(* createTransactionIndices only admits childless transactions.            *)
EligibleChildless == \A e \in eligible : e \in indexed /\ children[e] = <<>>

(* Prune never removes the current round root: the root is in the round   *)
(* index of the current round, which is kept for PruningDepth rounds.     *)
(* FindEligibleParents and Reset dereference the stored root.             *)
RootSurvivesPruning == rootID \in transactions /\ rootID \in indexed

\* The transactions reachable from S over the stored child links.
RECURSIVE LinkedProgeny(_)
LinkedProgeny(S) ==
  LET next == UNION {Range(children[x]) : x \in S}
  IN IF next \subseteq S THEN S ELSE LinkedProgeny(S \cup next)

(* Spec 4.1: when markTransactionAsComplete rejects a transaction it       *)
(* deletes the transaction and its entire progeny, i.e. every transaction  *)
(* linked below it in children[] before the step.                          *)
ProgenyRemovedWithInvalid ==
  [][\A r \in rejected' : LinkedProgeny({r}) \cap transactions' = {}]_vars

(* Spec 2 and 8.6: a transaction is assigned to a round's index when the  *)
(* round advances past its depth and is removed PruningDepth rounds later. *)
(* Reset only gathers the depths between the old and the new root, so     *)
(* every indexed transaction at or below the root's depth must already be *)
(* in a round index (the genesis root excepted), or no Prune removes it.  *)
AssignedToRound ==
  \A t \in indexed \ {Genesis} :
    Depth[t] <= Depth[rootID] => \E i \in DOMAIN roundIndex : t \in roundIndex[i]


\* The lifecycle specification, with the stored, not incomplete ids as its
\* complete set.
Abs == INSTANCE ViewGraphSpec
         WITH AllTx <- AllTx, Valid <- HonestTxs,
              complete <- transactions \ incomplete, root <- rootID

(* ViewGraph implements ViewGraphSpec: whatever order AddTransaction      *)
(* receives the DAG in, and whatever DeleteTransaction, Reset and Prune do *)
(* in between, a step of markTransactionAsComplete's cascade makes        *)
(* complete only valid transactions whose every parent is complete before *)
(* or in the same step; a complete transaction is never turned back into  *)
(* an incomplete one, it only leaves the graph, and never as the root;    *)
(* Reset only moves the root to a deeper complete transaction.            *)
ImplementsViewGraphSpec == Abs!Spec

=============================================================================
