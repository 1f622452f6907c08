---------------------------- MODULE MCNodeCodec ----------------------------
(* Instances of NodeCodec: trees that reach every field encoding (one- and *)
(* multi-byte lengths and varints, a 10-byte varint, unknown fields of     *)
(* several wire types, nested trees) and malformed records that reach     *)
(* every error of Unmarshal and skipNode.  A tag of 2^39 is one whose    *)
(* int32 field number truncates to 0.                                      *)
EXTENDS NodeCodec

\* 2^32 + 5 and 2^63: a 5-byte and a 10-byte varint.
Big32 == <<5, 0, 1, 0>>
Big63 == <<0, 0, 0, 32768>>

\* Unknown fields as Unmarshal keeps them: field 8 varint, field 9 group
\* holding a field 8 varint, field 10 fixed32.
Unknowns == {<<>>, <<64, 1>>, <<75, 64, 1, 76>>, <<85, 1, 2, 3, 4>>}

Leaves ==
  [key : {<<>>, <<107>>}, value : {<<>>, [i \in 1..130 |-> 0]},
   height : {Zero, Word(1), Word(300)}, size : {Zero, Big32, Big63},
   left : {NoTree}, right : {NoTree}, storageKey : {<<>>, <<1, 2>>},
   unrecognized : Unknowns]

Leaf1 == [EmptyTree EXCEPT !.key = <<1>>, !.height = Word(1)]
Leaf2 == [EmptyTree EXCEPT !.value = [i \in 1..130 |-> 7], !.size = Big63]

MCTrees ==
  Leaves \cup
  {[EmptyTree EXCEPT !.left = l, !.right = r, !.height = Word(2)] :
     l \in {NoTree, Leaf1, EmptyTree}, r \in {NoTree, Leaf2}} \cup
  {[Leaf1 EXCEPT !.left = [EmptyTree EXCEPT !.right = Leaf2]]}

\* Malformed and unusual records: each reaches one branch of Unmarshal or
\* skipNode (EOF, overflow, negative length, wrong and illegal wire types,
\* illegal tag, end group, repeated and merged fields, unknown fields).
Ones(n) == [i \in 1..n |-> 255]
MCInputs ==
  {<<>>, <<128>>, <<0>>, <<12>>, <<8, 1>>, <<10, 5, 1>>, Ones(10) \o <<1>>,
   <<10>> \o Ones(9) \o <<1>>, <<42, 2, 0, 0>>, <<42, 0>>,
   <<42, 2, 24, 1, 42, 2, 32, 1>>, <<24, 128, 128, 128, 128, 16>>,
   <<24, 1, 24, 2, 10, 1, 9, 10, 0>>, <<88, 1>>, <<88>>, <<89, 1, 2, 3, 4, 5, 6, 7, 8>>,
   <<89, 1>>, <<90, 1, 9>>, <<90, 3, 9>>, <<91, 88, 1, 92>>, <<91>>, <<91, 94>>,
   <<93, 1, 2, 3, 4>>, <<94>>, <<95>>, <<88>> \o Ones(10),
   <<90>> \o Ones(9) \o <<1>>, <<128, 128, 128, 128, 128, 16>>}

\* Trees written back to back: subtrees on both sides, on one side, unknown
\* fields on both sides, and scalars set on one side only.
PairTrees ==
  {Leaf1, Leaf2,
   [Leaf1 EXCEPT !.left = Leaf2, !.unrecognized = <<64, 1>>],
   [Leaf2 EXCEPT !.left = Leaf1, !.right = EmptyTree, !.unrecognized = <<85, 1, 2, 3, 4>>],
   [EmptyTree EXCEPT !.left = [Leaf1 EXCEPT !.left = Leaf2]]}
MCPairs == {<<a, b>> : a, b \in PairTrees}

\* A Value (field 2) whose length prefix is 2^63 - 1, followed by one byte:
\* iNdEx + byteLen wraps below zero.
MCLengthOverflowInputs == {<<18>> \o Ones(8) \o <<127, 0>>}
=============================================================================
