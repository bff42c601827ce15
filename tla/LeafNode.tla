------------------------------ MODULE LeafNode ------------------------------
(***************************************************************************)
(* The leaf node of FB+-tree (FBTree/lnode.h) and its control word         *)
(* (FBTree/control.h).  A modification of a leaf is a program: the         *)
(* sequence of its stores, in the order of the code.  Readers and          *)
(* latch-free updates run between any two of them (module LeafTree).       *)
(*                                                                         *)
(* LeafNode<K> and LeafNode<String> differ in the split token (string).    *)
(* Slots count from 1.  Memory is sequentially consistent.                 *)
(***************************************************************************)
EXTENDS Integers, Sequences, SequencesExt, FiniteSetsExt

CONSTANTS Keys,         \* positive integers
          Hash,         \* hash: the tag of each key
          kNodeSize,    \* slots of a leaf
          kMergeSize    \* two leaves with at most this many keys are merged

ASSUME LeafAssumption == /\ Keys \subseteq Nat \ {0}
                         /\ kNodeSize \in Nat \ {0} /\ kNodeSize % 2 = 0
                         /\ kMergeSize \in 1 .. kNodeSize - 1

Slots == 1 .. kNodeSize
nullptr == 0

KV(k, t) == [key |-> k, by |-> t]   \* the pair of key k made by thread t
NoKV == KV(0, 0)                    \* a null entry of kvs_
Junk == KV(-1, 0)                   \* an entry nobody has written: malloc'ed memory
NoTag == 0                          \* a tag of no key

\* Control word (version, latch, order, sibling and delete bits, split token)
\* and fields of a leaf as its constructor leaves them.
NewLeaf == [ver |-> 0, lock |-> FALSE, ord |-> FALSE, sib |-> FALSE, del |-> FALSE,
            split |-> 0, bitmap |-> {}, high |-> 0, sibling |-> nullptr,
            tags |-> [i \in Slots |-> NoTag], kvs |-> [i \in Slots |-> Junk]]
-----------------------------------------------------------------------------
(* Stores.  Bits of the control word are fetch_add'ed and fetch_sub'ed. *)

set(n, f, v) == [do |-> "set", n |-> n, f |-> f, v |-> v]
add(n, f, d) == [do |-> "add", n |-> n, f |-> f, v |-> d]
put(n, f, i, v) == [do |-> "put", n |-> n, f |-> f, i |-> i, v |-> v]
fill(n, I) == [do |-> "fill", n |-> n, v |-> I]       \* bitmap_ |= I
clear(n, I) == [do |-> "clear", n |-> n, v |-> I]     \* bitmap_ &= ~I
take(n, i) == [do |-> "take", n |-> n, i |-> i]       \* kvs_[i].exchange(nullptr)
give(n, i, k) == [do |-> "give", n |-> n, i |-> i, v |-> k]
drop(n, i) == [do |-> "drop", n |-> n, i |-> i]       \* exchange, for the caller

\* The leaf after store s; hand is what the storing thread has taken.
Stored(leaf, hand, s) ==
  CASE s.do = "set"   -> [leaf EXCEPT ![s.f] = s.v]
    [] s.do = "add"   -> [leaf EXCEPT ![s.f] = @ + s.v]
    [] s.do = "put"   -> [leaf EXCEPT ![s.f][s.i] = s.v]
    [] s.do = "fill"  -> [leaf EXCEPT !.bitmap = @ \cup s.v]
    [] s.do = "clear" -> [leaf EXCEPT !.bitmap = @ \ s.v]
    [] s.do = "give"  -> [leaf EXCEPT !.kvs[s.i] = CHOOSE kv \in hand : kv.key = s.v]
    [] OTHER          -> [leaf EXCEPT !.kvs[s.i] = NoKV]

\* What the storing thread has taken after store s.
Handed(leaf, hand, s) ==
  CASE s.do = "take" -> hand \cup {leaf.kvs[s.i]}
    [] s.do = "give" -> {kv \in hand : kv.key # s.v}
    [] OTHER         -> hand

update_version(n) == <<add(n, "ver", 1)>>
clear_order(leaf, n) == IF leaf.ord THEN <<set(n, "ord", FALSE)>> ELSE <<>>
\* Mutant: no split token.
NoToken(string, n) == <<>>

begin_splitting(string, n) == IF string THEN <<add(n, "split", 1)>> ELSE <<>>
-----------------------------------------------------------------------------
(* Searching a leaf *)

candidates(leaf, k) == {i \in leaf.bitmap : leaf.tags[i] = Hash[k]}
slots_of(leaf, k) == {i \in candidates(leaf, k) : leaf.kvs[i].key = k}
nkey(leaf) == Cardinality(leaf.bitmap)
in_key_order(leaf, I) == SetToSortSeq(I, LAMBDA i, j : leaf.kvs[i].key < leaf.kvs[j].key)

\* Mutant: access does not look at bitmap_.
AnySlot(leaf, pos) == IF pos \in Slots THEN leaf.kvs[pos] ELSE NoKV

\* access(pos): null outside the node and for an unused slot.
access(leaf, pos) == IF pos \in leaf.bitmap THEN leaf.kvs[pos] ELSE NoKV

\* bound: the first key greater than k, or not less if ~ upper, in a sorted
\* leaf, with its slot.  The test idx + 1 >= nkey makes a pair and does not
\* return it: past the last key the next slot is read, or what lies behind
\* the node.
bound(leaf, k, upper) ==
  LET pair(i) == [kv |-> IF i \in Slots THEN leaf.kvs[i] ELSE Junk, pos |-> i]
      found == slots_of(leaf, k)
      above == {i \in 1 .. nkey(leaf) : leaf.kvs[i].key > k}
  IN IF found # {} THEN pair(IF upper THEN Min(found) + 1 ELSE Min(found))
     ELSE IF above = {} \/ \E i \in 1 .. nkey(leaf) : leaf.kvs[i] = NoKV
     THEN [kv |-> NoKV, pos |-> 1]
     ELSE pair(Min(above))
-----------------------------------------------------------------------------
(* Programs *)

store_kv(n, i, kv) == <<put(n, "kvs", i, kv), put(n, "tags", i, Hash[kv.key]), fill(n, {i})>>

\* upsert of a new key into a leaf with an empty slot.
insert(leaf, n, kv) ==
  update_version(n) \o clear_order(leaf, n) \o store_kv(n, Min(Slots \ leaf.bitmap), kv)

\* upsert into the full rightmost leaf of a key above all its keys: the new
\* leaf r holds nothing else.
split_append(string, leaf, n, r, kv) ==
  LET last == in_key_order(leaf, Slots)[kNodeSize] IN
  update_version(n) \o clear_order(leaf, n) \o begin_splitting(string, n)
  \o <<set(n, "sibling", r), set(n, "high", leaf.kvs[last].key), set(n, "sib", TRUE)>>
  \o store_kv(r, 1, kv)

\* upsert into any other full leaf: the upper half moves to r.
split_half(string, leaf, n, r, kv) ==
  LET half == kNodeSize \div 2
      order == in_key_order(leaf, Slots)
      high == leaf.kvs[order[half]].key
      move(rid) == LET lid == order[half + rid] IN
        <<put(r, "tags", rid, leaf.tags[lid]), take(n, lid), give(r, rid, leaf.kvs[lid].key)>>
  IN update_version(n) \o clear_order(leaf, n) \o begin_splitting(string, n)
     \o FlattenSeq([rid \in 1 .. half |-> move(rid)])
     \o <<set(r, "bitmap", 1 .. half), set(r, "sibling", leaf.sibling), set(r, "high", leaf.high),
          clear(n, {order[half + rid] : rid \in 1 .. half}),
          set(n, "sibling", r), set(n, "high", high),
          set(IF leaf.sib THEN r ELSE n, "sib", TRUE)>>
     \o (IF kv.key > high THEN store_kv(r, half + 1, kv) ELSE store_kv(n, order[kNodeSize], kv))

split(string, leaf, n, r, kv) ==
  IF ~ leaf.sib /\ \A i \in Slots : leaf.kvs[i].key < kv.key
  THEN split_append(string, leaf, n, r, kv) ELSE split_half(string, leaf, n, r, kv)

\* remove, up to its call of merge.
remove(n, i) == update_version(n) \o <<clear(n, {i}), drop(n, i)>>

\* merge moves when the two leaves are small together or the left one is empty.
merges(left, right) == nkey(left) + nkey(right) <= kMergeSize \/ nkey(left) = 0

\* Mutant: the left leaf keeps its high key.
KeepsHigh(left, n, right, r) ==
  LET from == SetToSortSeq(right.bitmap, <)
      to == SetToSortSeq(Slots \ left.bitmap, <)
      move(i) == <<put(n, "tags", to[i], right.tags[from[i]]), take(r, from[i]),
                   give(n, to[i], right.kvs[from[i]].key), fill(n, {to[i]})>>
  IN FlattenSeq([i \in DOMAIN from |-> move(i)])
     \o <<set(r, "bitmap", {}), set(n, "sibling", right.sibling), set(r, "sibling", n)>>
     \o (IF right.sib THEN <<>> ELSE <<set(n, "sib", FALSE)>>)
     \o <<set(r, "del", TRUE)>> \o update_version(r)

\* Mutant: the pairs move without their tags.
TagsLeft(left, n, right, r) ==
  LET from == SetToSortSeq(right.bitmap, <)
      to == SetToSortSeq(Slots \ left.bitmap, <)
      move(i) == <<take(r, from[i]), give(n, to[i], right.kvs[from[i]].key), fill(n, {to[i]})>>
  IN FlattenSeq([i \in DOMAIN from |-> move(i)])
     \o <<set(r, "bitmap", {}), set(n, "high", right.high), set(n, "sibling", right.sibling),
          set(r, "sibling", n)>>
     \o (IF right.sib THEN <<>> ELSE <<set(n, "sib", FALSE)>>)
     \o <<set(r, "del", TRUE)>> \o update_version(r)

\* merge of the latched right sibling r into n.
merge(left, n, right, r) ==
  LET from == SetToSortSeq(right.bitmap, <)
      to == SetToSortSeq(Slots \ left.bitmap, <)
      move(i) == <<put(n, "tags", to[i], right.tags[from[i]]), take(r, from[i]),
                   give(n, to[i], right.kvs[from[i]].key), fill(n, {to[i]})>>
  IN FlattenSeq([i \in DOMAIN from |-> move(i)])
     \o <<set(r, "bitmap", {}), set(n, "high", right.high), set(n, "sibling", right.sibling),
          set(r, "sibling", n)>>
     \o (IF right.sib THEN <<>> ELSE <<set(n, "sib", FALSE)>>)
     \o <<set(r, "del", TRUE)>> \o update_version(r)

\* kv_sort takes all pairs and puts them back in key order.  The tags behind
\* them come from an uninitialised array.
kv_sort(leaf, n) ==
  LET order == in_key_order(leaf, leaf.bitmap)
      m == Len(order)
  IN IF leaf.ord THEN <<>>
     ELSE [i \in 1 .. m |-> take(n, SetToSortSeq(leaf.bitmap, <)[i])]
          \o [i \in 1 .. m |-> give(n, i, leaf.kvs[order[i]].key)]
          \o <<set(n, "tags", [i \in Slots |-> IF i <= m THEN leaf.tags[order[i]] ELSE NoTag]),
               set(n, "bitmap", 1 .. m), set(n, "ord", TRUE)>>
          \o update_version(n)
=============================================================================
