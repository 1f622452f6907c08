------------------------------ MODULE NodeCodec ------------------------------
(***************************************************************************)
(* The protobuf codec of the state tree's node record, src/iavl/node.pb.go *)
(* (generated by gogo/protobuf): Size, MarshalTo, encodeVarintNode,        *)
(* sovNode, Unmarshal and skipNode, as operators over byte sequences.      *)
(*                                                                         *)
(* Go's uint64 and int (64 bits on the node's platforms) do not fit TLC's  *)
(* integers, so a 64-bit word is four 16-bit limbs, least significant      *)
(* first; int is the same word read as two's complement.  Byte indices    *)
(* (iNdEx, l) are naturals: they are bounded by the input length, except  *)
(* where the code adds a decoded length to them, which is done on words.   *)
(* A panic of the Go code (slice or index out of range) is the error       *)
(* "panic".  A string or []byte is a sequence of bytes; nil and empty      *)
(* slices are not told apart, as no caller of the codec does.              *)
(***************************************************************************)
EXTENDS Naturals, Sequences, SequencesExt, FiniteSetsExt

CONSTANTS
  NoTree,  \* a nil *Tree
  Trees,   \* the trees that are marshalled (and unmarshalled back)
  Inputs,  \* the byte strings unmarshalled as found, e.g. read from storage
  Pairs    \* pairs of trees whose records are read back to back

-----------------------------------------------------------------------------
(* 64-bit words *)

Limb == 65536
Zero == <<0, 0, 0, 0>>

\* uint64(n) for a byte count or index n < 2^32.
Word(n) == <<n % Limb, n \div Limb, 0, 0>>

\* w + v, modulo 2^64 (the same for uint64 and int).
Add(w, v) ==
  LET s1 == w[1] + v[1]
      s2 == w[2] + v[2] + s1 \div Limb
      s3 == w[3] + v[3] + s2 \div Limb
      s4 == w[4] + v[4] + s3 \div Limb
  IN <<s1 % Limb, s2 % Limb, s3 % Limb, s4 % Limb>>

\* int(w) < 0
Negative(w) == w[4] >= Limb \div 2

\* w is below 2^31 and Val(w) is its value.
Small(w) == w[2] < Limb \div 2 /\ w[3] = 0 /\ w[4] = 0
Val(w) == w[1] + w[2] * Limb

\* int(w) > n and int(w) < n, for a natural n < 2^31.
GreaterThan(w, n) == ~Negative(w) /\ (~Small(w) \/ Val(w) > n)
LessThan(w, n) == Negative(w) \/ (Small(w) /\ Val(w) < n)

\* uint32(w): Height keeps the low 32 bits of what it decodes.
Low32(w) == <<w[1], w[2], 0, 0>>

\* w >> 7 and w << 7 (the bits shifted past bit 63 are lost).
Shr7(w) == [j \in 1..4 |-> (w[j] \div 128) + (IF j < 4 THEN (w[j + 1] % 128) * 512 ELSE 0)]
Shl7(w) == [j \in 1..4 |-> ((w[j] * 128) % Limb) + (IF j > 1 THEN w[j - 1] \div 512 ELSE 0)]

-----------------------------------------------------------------------------
(* Marshal *)

EmptyTree ==
  [key |-> <<>>, value |-> <<>>, height |-> Zero, size |-> Zero,
   left |-> NoTree, right |-> NoTree, storageKey |-> <<>>, unrecognized |-> <<>>]

\* encodeVarintNode: 7 bits per byte, the high bit set on all but the last.
RECURSIVE encodeVarintNode(_)
encodeVarintNode(v) ==
  IF Shr7(v) # Zero
  THEN <<(v[1] % 128) + 128>> \o encodeVarintNode(Shr7(v))
  ELSE <<v[1]>>

\* sovNode: the number of bytes encodeVarintNode writes.
RECURSIVE sovNode(_)
sovNode(x) == IF Shr7(x) = Zero THEN 1 ELSE 1 + sovNode(Shr7(x))

\* The size of a length-delimited field: tag, length, bytes.
LengthField(l) == 1 + l + sovNode(Word(l))

RECURSIVE Size(_)

\* Mutant: the length prefix of a nested tree is not counted.
Size_nestedPrefixUncounted(m) ==
  LET bytes(s) == IF Len(s) > 0 THEN LengthField(Len(s)) ELSE 0
      varint(w) == IF w # Zero THEN 1 + sovNode(w) ELSE 0
      message(t) == IF t # NoTree THEN 1 + Size(t) ELSE 0
  IN bytes(m.key) + bytes(m.value) + varint(m.height) + varint(m.size)
       + message(m.left) + message(m.right) + bytes(m.storageKey)
       + Len(m.unrecognized)

\* Size
Size(m) ==
  LET bytes(s) == IF Len(s) > 0 THEN LengthField(Len(s)) ELSE 0
      varint(w) == IF w # Zero THEN 1 + sovNode(w) ELSE 0
      message(t) == IF t # NoTree THEN LengthField(Size(t)) ELSE 0
  IN bytes(m.key) + bytes(m.value) + varint(m.height) + varint(m.size)
       + message(m.left) + message(m.right) + bytes(m.storageKey)
       + Len(m.unrecognized)

\* MarshalTo: the fields in number order; a nested tree is prefixed by its
\* Size, not by the length MarshalTo writes for it.
RECURSIVE MarshalTo(_)
MarshalTo(m) ==
  LET bytes(tag, s) ==
        IF Len(s) > 0 THEN <<tag>> \o encodeVarintNode(Word(Len(s))) \o s ELSE <<>>
      varint(tag, w) == IF w # Zero THEN <<tag>> \o encodeVarintNode(w) ELSE <<>>
      message(tag, t) ==
        IF t # NoTree
        THEN <<tag>> \o encodeVarintNode(Word(Size(t))) \o MarshalTo(t)
        ELSE <<>>
  IN bytes(10, m.key) \o bytes(18, m.value) \o varint(24, m.height)
       \o varint(32, m.size) \o message(42, m.left) \o message(50, m.right)
       \o bytes(58, m.storageKey) \o m.unrecognized

\* Marshal: MarshalTo into a buffer of Size(m) bytes, which panics when it
\* writes past the end.
Marshal(m) ==
  LET out == MarshalTo(m)
  IN IF Len(out) > Size(m) THEN [err |-> "panic", bytes |-> <<>>]
     ELSE [err |-> "none", bytes |-> out]

-----------------------------------------------------------------------------
(* Unmarshal.  Indices are 0-based as in the code: byte i of d is d[i+1]. *)

\* The word of a varint's 7-bit groups: w |= (b & 0x7F) << shift for each
\* group, the first lowest; a tenth group keeps only its bit 0.
GroupsWord(g) == FoldRight(LAMBDA b, w : Add(Word(b), Shl7(w)), g, Zero)

\* The varint loop of Unmarshal and skipNode, from index i with n groups
\* read: integer overflow after ten groups, EOF at the end of d.
RECURSIVE readGroups(_, _, _)

\* Mutant: the continuation bit is kept in the group (b instead of b & 0x7F).
readGroups_keepsContinuation(d, i, n) ==
  IF 7 * n >= 64 THEN [err |-> "intOverflow", groups |-> <<>>, next |-> i]
  ELSE IF i >= Len(d) THEN [err |-> "unexpectedEOF", groups |-> <<>>, next |-> i]
  ELSE IF d[i + 1] < 128 THEN [err |-> "none", groups |-> <<d[i + 1]>>, next |-> i + 1]
  ELSE LET r == readGroups(d, i + 1, n + 1)
       IN IF r.err # "none" THEN r
          ELSE [r EXCEPT !.groups = <<d[i + 1]>> \o @]

readGroups(d, i, n) ==
  IF 7 * n >= 64 THEN [err |-> "intOverflow", groups |-> <<>>, next |-> i]
  ELSE IF i >= Len(d) THEN [err |-> "unexpectedEOF", groups |-> <<>>, next |-> i]
  ELSE IF d[i + 1] < 128 THEN [err |-> "none", groups |-> <<d[i + 1]>>, next |-> i + 1]
  ELSE LET r == readGroups(d, i + 1, n + 1)
       IN IF r.err # "none" THEN r
          ELSE [r EXCEPT !.groups = <<d[i + 1] % 128>> \o @]

readVarint(d, i) ==
  LET r == readGroups(d, i, 0)
  IN [err |-> r.err, word |-> GroupsWord(r.groups), next |-> r.next]

\* int32(wire >> 3): bits 3..34, bit 34 the sign; -1 stands for any
\* negative value.
FieldNum(w) ==
  IF (w[3] \div 4) % 2 = 1 THEN -1
  ELSE (w[1] + w[2] * Limb + (w[3] % 4) * Limb * Limb) \div 8

WireType(w) == w[1] % 8

\* The length prefix read at j (a uint64 or int, the same bits), the
\* negative-length check, postIndex := iNdEx + length, the check
\* postIndex > l and the slice dAtA[iNdEx:postIndex], which panics when
\* postIndex wrapped below iNdEx.
lengthDelimited(d, j) ==
  LET n == readVarint(d, j)
      post == Add(Word(n.next), n.word)
  IN IF n.err # "none" THEN [err |-> n.err, from |-> 0, to |-> 0]
     ELSE IF Negative(n.word) THEN [err |-> "invalidLength", from |-> 0, to |-> 0]
     ELSE IF GreaterThan(post, Len(d)) THEN [err |-> "unexpectedEOF", from |-> 0, to |-> 0]
     ELSE IF LessThan(post, n.next) THEN [err |-> "panic", from |-> 0, to |-> 0]
     ELSE [err |-> "none", from |-> n.next, to |-> Val(post)]

\* skipNode(d): the length of the unknown field at the start of d, as an
\* int, or an error.  A group (wire type 3) skips inner fields until its
\* end-group tag, at index iNdEx = start + next, computed on words.
RECURSIVE skipNode(_)
RECURSIVE skipGroup(_, _)
skipNode(d) ==
  LET wire == readVarint(d, 0)
      fail(e) == [err |-> e, n |-> Zero]
  IN IF Len(d) = 0 THEN fail("panic")
     ELSE IF wire.err # "none" THEN fail(wire.err)
     ELSE CASE WireType(wire.word) = 0 ->
                 LET v == readVarint(d, wire.next)
                 IN IF v.err # "none" THEN fail(v.err) ELSE [err |-> "none", n |-> Word(v.next)]
            [] WireType(wire.word) = 1 -> [err |-> "none", n |-> Word(wire.next + 8)]
            [] WireType(wire.word) = 2 ->
                 LET v == readVarint(d, wire.next)
                 IN IF v.err # "none" THEN fail(v.err)
                    ELSE IF Negative(v.word) THEN fail("invalidLength")
                    ELSE [err |-> "none", n |-> Add(Word(v.next), v.word)]
            [] WireType(wire.word) = 3 -> skipGroup(d, Word(wire.next))
            [] WireType(wire.word) = 4 -> [err |-> "none", n |-> Word(wire.next)]
            [] WireType(wire.word) = 5 -> [err |-> "none", n |-> Word(wire.next + 4)]
            [] OTHER -> fail("illegalWireType")
skipGroup(d, i) ==
  LET fail(e) == [err |-> e, n |-> Zero]
  IN IF ~LessThan(i, Len(d)) THEN fail("unexpectedEOF")
     ELSE IF Negative(i) THEN fail("panic")
     ELSE LET start == Val(i)
              inner == readVarint(d, start)
              sub == skipNode(SubSeq(d, start + 1, Len(d)))
          IN IF inner.err # "none" THEN fail(inner.err)
             ELSE IF WireType(inner.word) = 4 THEN [err |-> "none", n |-> Word(inner.next)]
             ELSE IF sub.err # "none" THEN sub
             ELSE skipGroup(d, Add(Word(start), sub.n))

RECURSIVE UnmarshalInto(_, _)

\* Mutant: a repeated nested field replaces the subtree instead of merging.
nestedBase_alwaysNew(old) == EmptyTree

\* if m.Left == nil { m.Left = &Tree{} }: a nested field is decoded into
\* the subtree already there.
nestedBase(old) == IF old = NoTree THEN EmptyTree ELSE old

\* One field of Unmarshal, its tag read from i to j: the tree with the
\* field decoded into m, and the index after it.
field(d, i, j, num, wt, m) ==
  LET fail(e) == [err |-> e, tree |-> m, next |-> j]
      ld == lengthDelimited(d, j)
      v == readVarint(d, j)
      bytes == SubSeq(d, ld.from + 1, ld.to)
      sk == skipNode(SubSeq(d, i + 1, Len(d)))
      end == Add(Word(i), sk.n)
      expect(w) == wt = w
  IN CASE num \in {1, 2, 7} ->
            IF ~expect(2) THEN fail("wrongWireType")
            ELSE IF ld.err # "none" THEN fail(ld.err)
            ELSE [err |-> "none", next |-> ld.to,
                  tree |-> CASE num = 1 -> [m EXCEPT !.key = bytes]
                             [] num = 2 -> [m EXCEPT !.value = bytes]
                             [] num = 7 -> [m EXCEPT !.storageKey = bytes]]
       [] num \in {3, 4} ->
            IF ~expect(0) THEN fail("wrongWireType")
            ELSE IF v.err # "none" THEN fail(v.err)
            ELSE [err |-> "none", next |-> v.next,
                  tree |-> IF num = 3 THEN [m EXCEPT !.height = Low32(v.word)]
                           ELSE [m EXCEPT !.size = v.word]]
       [] num \in {5, 6} ->
            LET old == IF num = 5 THEN m.left ELSE m.right
                sub == UnmarshalInto(bytes, nestedBase(old))
            IN IF ~expect(2) THEN fail("wrongWireType")
               ELSE IF ld.err # "none" THEN fail(ld.err)
               ELSE IF sub.err # "none" THEN fail(sub.err)
               ELSE [err |-> "none", next |-> ld.to,
                     tree |-> IF num = 5 THEN [m EXCEPT !.left = sub.tree]
                              ELSE [m EXCEPT !.right = sub.tree]]
       [] OTHER ->
            IF sk.err # "none" THEN fail(sk.err)
            ELSE IF Negative(sk.n) THEN fail("invalidLength")
            ELSE IF GreaterThan(end, Len(d)) THEN fail("unexpectedEOF")
            ELSE IF LessThan(end, i) THEN fail("panic")
            ELSE [err |-> "none", next |-> Val(end),
                  tree |-> [m EXCEPT !.unrecognized = @ \o SubSeq(d, i + 1, Val(end))]]

\* The loop of Unmarshal from index i, decoding into m.
RECURSIVE unmarshalFrom(_, _, _)
unmarshalFrom(d, i, m) ==
  LET tag == readVarint(d, i)
      num == FieldNum(tag.word)
      wt == WireType(tag.word)
      r == field(d, i, tag.next, num, wt, m)
      fail(e) == [err |-> e, tree |-> m]
  IN IF i >= Len(d) THEN IF i > Len(d) THEN fail("unexpectedEOF") ELSE fail("none")
     ELSE IF tag.err # "none" THEN fail(tag.err)
     ELSE IF wt = 4 THEN fail("endGroup")
     ELSE IF num <= 0 THEN fail("illegalTag")
     ELSE IF r.err # "none" THEN fail(r.err)
     ELSE unmarshalFrom(d, r.next, r.tree)

\* m.Unmarshal(d): merges the fields of d into m.
UnmarshalInto(d, m) == unmarshalFrom(d, 0, m)

\* (&Tree{}).Unmarshal(d)
Unmarshal(d) == UnmarshalInto(d, EmptyTree)

-----------------------------------------------------------------------------
(* A node record is marshalled when the tree is saved and unmarshalled    *)
(* when it is loaded; a record found in storage may be any byte string.   *)

VARIABLES
  tree,    \* the tree being saved, NoTree for a record found as is
  record,  \* the bytes of the record
  result,  \* what Unmarshal returned
  phase,   \* "marshal", "unmarshal", "done" or "panicked"
  parts    \* the two trees of a record written as two back to back, or <<>>

vars == <<tree, record, result, phase, parts>>

NoResult == [err |-> "none", tree |-> NoTree]

Init ==
  /\ result = NoResult
  /\ \/ tree \in Trees /\ record = <<>> /\ phase = "marshal" /\ parts = <<>>
     \/ tree = NoTree /\ record \in Inputs /\ phase = "unmarshal" /\ parts = <<>>
     \/ /\ tree = NoTree /\ phase = "unmarshal" /\ parts \in Pairs
        /\ record = Marshal(parts[1]).bytes \o Marshal(parts[2]).bytes

\* Tree.Marshal
Save ==
  /\ phase = "marshal"
  /\ LET r == Marshal(tree)
     IN /\ record' = r.bytes
        /\ phase' = IF r.err = "none" THEN "unmarshal" ELSE "panicked"
  /\ UNCHANGED <<tree, result, parts>>

\* Tree.Unmarshal.  A tree decoded from a found record is written back:
\* Marshal must then reproduce what was decoded.
Load ==
  /\ phase = "unmarshal"
  /\ result' = Unmarshal(record)
  /\ IF tree = NoTree /\ result'.err = "none"
     THEN tree' = result'.tree /\ phase' = "marshal"
     ELSE phase' = "done" /\ UNCHANGED tree
  /\ UNCHANGED <<record, parts>>

Next == Save \/ Load

Spec == Init /\ [][Next]_vars

-----------------------------------------------------------------------------
(* Every tree Marshal writes, Unmarshal reads back unchanged: the length  *)
(* prefixes, varints (uint32 and uint64 fields, multi-byte lengths),       *)
(* nested trees, and unrecognized fields kept by skipNode all round-trip.  *)
RoundTrip ==
  phase = "done" /\ tree # NoTree => result = [err |-> "none", tree |-> tree]

(* Size is exactly the length MarshalTo writes, for every tree and every   *)
(* nested tree: Marshal allocates Size bytes and MarshalTo of a nested     *)
(* tree is prefixed with its Size.                                         *)
SizeIsMarshalLength == tree # NoTree => Len(MarshalTo(tree)) = Size(tree)

\* Protobuf's merge of b into a: a field b sets replaces a's, a subtree b
\* sets is merged into a's, unknown fields are concatenated.
RECURSIVE Merged(_, _)
Merged(a, b) ==
  LET pick(x, y, none) == IF y # none THEN y ELSE x
      sub(x, y) == IF y = NoTree THEN x ELSE IF x = NoTree THEN y ELSE Merged(x, y)
  IN [key |-> pick(a.key, b.key, <<>>), value |-> pick(a.value, b.value, <<>>),
      height |-> pick(a.height, b.height, Zero), size |-> pick(a.size, b.size, Zero),
      left |-> sub(a.left, b.left), right |-> sub(a.right, b.right),
      storageKey |-> pick(a.storageKey, b.storageKey, <<>>),
      unrecognized |-> a.unrecognized \o b.unrecognized]

(* Two records read back to back decode to the merge of their trees, as  *)
(* protobuf defines: Unmarshal replaces scalars and bytes (m.Height = 0,  *)
(* append(m.Value[:0], ...)), decodes a repeated Left or Right into the   *)
(* subtree already there, and appends unknown fields to XXX_unrecognized. *)
ConcatenationIsMerge ==
  parts # <<>> /\ phase # "unmarshal" => tree = Merged(parts[1], parts[2])

(* Unmarshal returns an error on a malformed record and never panics: a   *)
(* record read from storage cannot crash the node.                         *)
UnmarshalNeverPanics == result.err # "panic"

=============================================================================
