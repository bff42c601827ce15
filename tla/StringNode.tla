----------------------------- MODULE StringNode -----------------------------
(* The separators of an InnerNode<String> of FBTree/inode.h, without the      *)
(* Extent, which Config::kExtentOpt leaves out: pointers to the separators in *)
(* anchors_, the length of their common prefix, the prefix itself in tiny_ if *)
(* it has room there and in huge_ otherwise, and the kFeatureSize bytes       *)
(* behind the prefix of each one in features_.                                *)
EXTENDS ByteStrings

CONSTANTS kFeatureSize,  \* bytes of a feature
          kEmbedPrSize,  \* bytes of tiny_
          Junk           \* what memory from malloc may hold in tiny_

\* The separators of a node whose content_rebuild has read anchors_[-1].
Wild == <<<<>>>>

Fresh(tiny) == [plen |-> 0, tiny |-> tiny, huge |-> <<>>, feats |-> <<>>, anchors |-> <<>>]
knum(n) == Len(n.anchors)

\* The feature of the separator a behind a prefix of length p, padded with zeros.
Feature(a, p) == [f \in 1 .. kFeatureSize |-> IF p + f <= Len(a) THEN a[p + f] ELSE 0]

\* content_rebuild: tiny_ keeps its bytes where the prefix does not reach.
content_rebuild(n, keys) ==
  IF keys = <<>> THEN [n EXCEPT !.anchors = Wild]
  ELSE LET p == common_prefix(keys[1], Last(keys))
       IN [plen |-> p, huge |-> keys[1], anchors |-> keys,
           feats |-> [i \in 1 .. Len(keys) |-> Feature(keys[i], p)],
           tiny |-> IF p > kEmbedPrSize THEN n.tiny
                    ELSE [b \in 1 .. kEmbedPrSize |-> IF b <= p THEN keys[1][b] ELSE n.tiny[b]]]

\* insert: everything is rebuilt only for a new first or last key.
key_insert(n, mid, index) ==
  LET keys == InsertAt(n.anchors, index + 1, mid) IN
  IF index \in {0, knum(n)} THEN content_rebuild(n, keys)
  ELSE [n EXCEPT !.anchors = keys, !.feats = InsertAt(@, index + 1, Feature(mid, n.plen))]

\* Mutant: removing the first separator does not rebuild the features.
StaleFeatures(n, index) ==
  [n EXCEPT !.anchors = RemoveAt(@, index + 1), !.feats = Front(@)]

\* remove: of a separator that is not the last one.
key_remove(n, index) ==
  LET keys == RemoveAt(n.anchors, index + 1) IN
  IF index = 0 THEN content_rebuild(n, keys)
  ELSE [n EXCEPT !.anchors = keys, !.feats = RemoveAt(@, index + 1)]

\* bound_remove without a merge: the last separator goes.
last_remove(n) == IF knum(n) = 1 THEN [n EXCEPT !.plen = 0, !.anchors = <<>>, !.feats = <<>>]
                                 ELSE content_rebuild(n, Front(n.anchors))

anchor_update(n, mid, index) ==
  LET keys == [n.anchors EXCEPT ![index + 1] = mid] IN
  IF index \in {0, knum(n) - 1} THEN content_rebuild(n, keys)
  ELSE [n EXCEPT !.anchors = keys, !.feats[index + 1] = Feature(mid, n.plen)]

\* prefix_compare: a key too short for the prefix is below it, and tiny_ is
\* taken whenever as much of it as the key compares has room there.
prefix_compare(n, key) ==
  LET cmps == Min({Len(key), n.plen})
      pcmp == compare(SubSeq(key, 1, cmps), SubSeq(IF cmps <= kEmbedPrSize THEN n.tiny ELSE n.huge, 1, cmps))
  IN IF pcmp = 0 /\ cmps < n.plen THEN -1 ELSE pcmp

\* suffix_bs: a binary search that skips the first cmps bytes.
suffix_bs(n, key, cmps, from, to) ==
  LET rest(s) == SubSeq(s, cmps + 1, Len(s))
      bs[lid, hid \in 0 .. knum(n)] ==
        LET mid == (lid + hid) \div 2
            sep == n.anchors[mid + 1]
            cmp == compare(rest(key), rest(sep))
        IN IF lid >= hid THEN hid
           ELSE IF Len(sep) < cmps \/ cmp = 0 THEN mid
           ELSE IF cmp < 0 THEN bs[lid, mid] ELSE bs[mid + 1, hid]
  IN bs[from, to]

\* The index to_next and index_or_sibling compute; knum: the next_ pointer.
\* The rows of features_ narrow the columns as in FixedNode, up to the end of
\* the key; the columns equal in all of them are searched by their anchors.
index(n, key) ==
  LET pcmp == prefix_compare(n, key)
      byte(r) == key[n.plen + r]
      cmps == Min({kFeatureSize, Len(key) - n.plen})
      equal(r) == {i \in 1 .. knum(n) : \A q \in 1 .. r : n.feats[i][q] = byte(q)}
      rid == Max({r \in 0 .. cmps : r = 0 \/ equal(r) # {}})
      less == {i \in equal(rid) : n.feats[i][rid + 1] < byte(rid + 1)}
  IN IF pcmp < 0 THEN 0 ELSE IF pcmp > 0 THEN knum(n)
     ELSE IF rid = cmps THEN suffix_bs(n, key, n.plen + cmps, Min(equal(rid)) - 1, Max(equal(rid)))
     ELSE IF less # {} THEN Max(less)
     ELSE IF equal(rid) = {} THEN 0 ELSE Min(equal(rid)) - 1
=============================================================================
