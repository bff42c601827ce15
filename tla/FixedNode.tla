----------------------------- MODULE FixedNode -----------------------------
(* The separators of an InnerNode<K> of FBTree/inode.h: the common prefix of  *)
(* all of them in prefix_, and of each one the bytes behind it in one column  *)
(* of features_.  Keys are in the encoding whose bytes compare like the keys. *)
(* Columns behind knum_ are masked in every read, so they are left out.       *)
EXTENDS ByteStrings

CONSTANTS kFeatureSize,  \* bytes of a key
          Zero           \* the encoded byte 0: the top byte of a pointer

Fresh == [prefix |-> <<>>, cols |-> <<>>]
knum(n) == Len(n.cols)
plen(n) == Len(n.prefix)

\* memory_expand: every column gets the prefix in front.
memory_expand(n) == [i \in 1 .. knum(n) |-> n.prefix \o n.cols[i]]

\* Takes the first p bytes, the same ones in each key, for the prefix.
Layout(keys, p) == [prefix |-> SubSeq(keys[1], 1, p),
                    cols |-> [i \in 1 .. Len(keys) |-> SubSeq(keys[i], p + 1, kFeatureSize)]]

\* memory_shrink behind memory_expand of the node n.  Without a key the loop
\* compares features_[pid][0], still the byte of the key that was removed, with
\* the byte in front of it in memory: the last one of the row before, which
\* memory_expand has filled with prefix_[pid - 1], or of next_.
memory_shrink(n, keys) ==
  IF keys # <<>> THEN Layout(keys, common_prefix(keys[1], Last(keys)))
  ELSE LET same(p) == n.prefix[p] = IF p = 1 THEN Zero ELSE n.prefix[p - 1]
           run == {p \in 0 .. kFeatureSize : \A q \in 1 .. p : same(q)}
       IN [prefix |-> SubSeq(n.prefix, 1, Max(run)), cols |-> <<>>]

\* key_insert: the prefix gets shorter only for a new first or last key.
key_insert(n, mid, index) ==
  IF knum(n) = 0 THEN [prefix |-> mid, cols |-> <<<<>>>>]
  ELSE IF index \in {0, knum(n)}
       THEN Layout(InsertAt(memory_expand(n), index + 1, mid), common_prefix(n.prefix, mid))
       ELSE [n EXCEPT !.cols = InsertAt(@, index + 1, SubSeq(mid, plen(n) + 1, kFeatureSize))]

\* bound_extension, and the extension in key_remove: the columns only.
bound_extension(n) ==
  LET p == common_prefix(n.cols[1], Last(n.cols))
  IN [prefix |-> n.prefix \o SubSeq(n.cols[1], 1, p),
      cols |-> [i \in 1 .. knum(n) |-> SubSeq(n.cols[i], p + 1, Len(n.cols[i]))]]

\* key_remove: of a separator that is not the last one.
key_remove(n, index) ==
  LET m == [n EXCEPT !.cols = RemoveAt(@, index + 1)]
  IN IF index = 0 THEN bound_extension(m) ELSE m

\* bound_remove without a merge: the last separator goes.
last_remove(n) == IF knum(n) = 1 THEN Fresh ELSE bound_extension([n EXCEPT !.cols = Front(@)])

anchor_update(n, mid, index) == memory_shrink(n, [memory_expand(n) EXCEPT ![index + 1] = mid])

\* The index to_next and index_or_sibling compute; knum: the next_ pointer.
\* Behind the prefix each row of features_ narrows the columns that are equal
\* so far; the row in which none is left decides.  If no row is left over,
\* index_least1 gives the equal column, or -1 if there is none.
index(n, key) ==
  LET p == common_prefix(n.prefix, key)
      byte(r) == key[plen(n) + r]
      rows == kFeatureSize - plen(n)
      equal(r) == {i \in 1 .. knum(n) : \A q \in 1 .. r : n.cols[i][q] = byte(q)}
      rid == Max({r \in 0 .. rows : r = 0 \/ equal(r) # {}})
      less == {i \in equal(rid) : n.cols[i][rid + 1] < byte(rid + 1)}
  IN IF p < plen(n) THEN IF key[p + 1] < n.prefix[p + 1] THEN 0 ELSE knum(n)
     ELSE IF rid = rows THEN IF equal(rid) = {} THEN -1 ELSE Min(equal(rid)) - 1
     ELSE IF less # {} THEN Max(less)
     ELSE IF equal(rid) = {} THEN 0 ELSE Min(equal(rid)) - 1
=============================================================================
