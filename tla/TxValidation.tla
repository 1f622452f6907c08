---------------------------- MODULE TxValidation ----------------------------
(***************************************************************************)
(* Graph.assertTransactionIsValid (src/graph.go), the structural check     *)
(* AddTransaction runs before it stores a transaction, as a pure operator  *)
(* over the fields it reads, checked against the rule of spec 4.1 step 2   *)
(* over every transaction with ids drawn from a small ordered set.         *)
(*                                                                         *)
(* Ids are naturals, 0 is common.ZeroTransactionID, and < is the byte-wise *)
(* order bytes.Compare imposes on 32-byte ids.  Sender and creator are     *)
(* abstracted to whether they are the zero account id, the payload to      *)
(* whether it is empty.                                                    *)
(***************************************************************************)
EXTENDS Naturals, Sequences, SequencesExt, FiniteSets

CONSTANTS
  MaxId,      \* ids are 0..MaxId
  MaxParents, \* bound: longest parent list enumerated
  MaxTag      \* bound: tags enumerated are 0..MaxTag

Ids == 0..MaxId

(***************************************************************************)
(* The numbering of sys.Tag*: the package is not part of the sources; the  *)
(* spec lists the tags in this order.                                      *)
(***************************************************************************)
TagNop == 0
TagTransfer == 1
TagContract == 2
TagStake == 3
TagBatch == 4

KnownTags == {TagNop, TagTransfer, TagContract, TagStake, TagBatch}

Transactions ==
  [id : Ids, senderZero : BOOLEAN, creatorZero : BOOLEAN,
   parents : BoundedSeq(Ids, MaxParents), tag : 0..MaxTag, payloadEmpty : BOOLEAN]

VARIABLES
  tx,      \* the transaction handed to AddTransaction
  verdict  \* what assertTransactionIsValid returned, "none" before the call

vars == <<tx, verdict>>

(***************************************************************************)
(* The loop over the parent list, from the last index down to index 1      *)
(* (Go indices; the sequence is 1-based, so ps[i+1] is ParentIDs[i]).      *)
(***************************************************************************)
RECURSIVE parentLoop(_, _, _, _)
parentLoop(id, ps, i, set) ==
  IF i <= 0 THEN "ok"
  ELSE IF id = ps[i + 1] THEN "self"
  ELSE IF ps[i] > ps[i + 1] THEN "unsorted"
  ELSE IF ps[i + 1] \in set THEN "duplicate"
  ELSE parentLoop(id, ps, i - 1, set \cup {ps[i + 1]})

\* assertTransactionIsValid: the first error, in the code's order, or "ok".
assertTransactionIsValid(t) ==
  LET loop == parentLoop(t.id, t.parents, Len(t.parents) - 1, {})
  IN CASE t.id = 0 -> "zeroID"
       [] t.senderZero -> "zeroSender"
       [] t.creatorZero -> "zeroCreator"
       [] t.parents = <<>> -> "noParents"
       [] loop # "ok" -> loop
       [] t.tag > TagStake -> "unknownTag"
       [] t.tag # TagNop /\ t.payloadEmpty -> "missingPayload"
       [] t.tag = TagNop /\ ~t.payloadEmpty -> "unexpectedPayload"
       [] OTHER -> "ok"

(***************************************************************************)
(* The rule of spec 4.1 step 2, as the reference.                          *)
(***************************************************************************)
ParentsWellFormed(t) ==
  /\ t.parents # <<>>
  /\ \A i \in 1..Len(t.parents) - 1 : t.parents[i] < t.parents[i + 1]
  /\ t.id \notin Range(t.parents)

TagWellFormed(t) ==
  /\ t.tag \in KnownTags
  /\ t.payloadEmpty <=> t.tag = TagNop

SpecValid(t) ==
  /\ t.id # 0 /\ ~t.senderZero /\ ~t.creatorZero
  /\ ParentsWellFormed(t)
  /\ TagWellFormed(t)

Init ==
  /\ tx \in Transactions
  /\ verdict = "none"

\* AddTransaction calls assertTransactionIsValid once on the new transaction.
Validate ==
  /\ verdict = "none"
  /\ verdict' = assertTransactionIsValid(tx)
  /\ UNCHANGED tx

Spec == Init /\ [][Validate]_vars

-----------------------------------------------------------------------------

(* Among transfers with non-zero ids and accounts and a payload,          *)
(* assertTransactionIsValid accepts exactly those whose parent list is     *)
(* strictly ascending and does not contain the transaction's own id.       *)
ParentRuleAgrees ==
  /\ verdict # "none" /\ tx.id # 0 /\ ~tx.senderZero /\ ~tx.creatorZero
  /\ tx.tag = TagTransfer /\ ~tx.payloadEmpty
  => (verdict = "ok" <=> ParentsWellFormed(tx))

=============================================================================
