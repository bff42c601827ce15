----------------------------- MODULE InnerLevel -----------------------------
(* One level of inner nodes of the FB+-tree, down to the bytes: a chain of    *)
(* nodes, the separators of each in the layout of FixedNode (InnerNode<K>) or *)
(* StringNode (InnerNode<String>).  The tree inserts, removes and updates     *)
(* separators one after the other (the latches that make it so are FBTree's); *)
(* every operation walks the chain by the node's own search.                  *)
(*                                                                            *)
(* A child is named by the separator on its left, the leftmost by <<>>.       *)
EXTENDS ByteStrings

CONSTANTS kNodeSize, kMergeSize, kEmbedPrSize, Zero, Junk,
          FixedSize, FixedKeys,     \* bytes of a fixed-size key, and the keys
          FeatureSize, StringKeys,  \* bytes of a string's feature, and the keys
          MaxSeps                   \* at most so many separators

VARIABLES kind,   \* "fixed" or "string"
          level,  \* the nodes from left to right
          seps    \* the separators the level has to hold

vars == <<kind, level, seps>>

F == INSTANCE FixedNode WITH kFeatureSize <- FixedSize
S == INSTANCE StringNode WITH kFeatureSize <- FeatureSize

Keys == IF kind = "fixed" THEN FixedKeys ELSE StringKeys
First == <<>>
Nowhere == <<0>>

\* A node: the separators, the children but the last, and the last child,
\* which the nodes with a sibling do not have.
knum(n) == Len(n.kids)
index(n, key) == IF kind = "fixed" THEN F!index(n.sep, key) ELSE S!index(n.sep, key)
anchors(n) == IF kind = "fixed" THEN F!memory_expand(n.sep) ELSE n.sep.anchors
Rebuild(sep, keys) == IF kind = "fixed" THEN F!memory_shrink(sep, keys) ELSE S!content_rebuild(sep, keys)

\* What a constructor leaves in a node.
FreshSeps == IF kind = "fixed" THEN {F!Fresh} ELSE {S!Fresh(tiny) : tiny \in Junk}

lost == kind = "string" /\ \E p \in DOMAIN level : level[p].sep.anchors = S!Wild
-----------------------------------------------------------------------------
\* The node that has to hold the key: left of it each search went to next_.
Node(key) == Min({p \in DOMAIN level : p = Len(level) \/ index(level[p], key) < knum(level[p])})
has_sibling(p) == p < Len(level)

\* The child to_next leads to.
Child(key) == LET n == level[Node(key)]
                  i == index(n, key)
              IN IF i = knum(n) THEN n.next ELSE IF i < 0 THEN Nowhere ELSE n.kids[i + 1]

\* insert into a node with room; the child behind a separator has its name.
insert(n, mid, i) ==
  [sep |-> IF kind = "fixed" THEN F!key_insert(n.sep, mid, i) ELSE S!key_insert(n.sep, mid, i),
   kids |-> IF i = knum(n) THEN Append(n.kids, n.next) ELSE InsertAt(n.kids, i + 2, mid),
   next |-> IF i = knum(n) THEN mid ELSE n.next]

\* split of a full node; behind all separators the new node gets only mid.
split(n, fresh, mid, i) ==
  LET half == kNodeSize \div 2
      keys == InsertAt(anchors(n), i + 1, mid)
      kids == IF i = kNodeSize THEN Append(n.kids, n.next) ELSE InsertAt(n.kids, i + 2, mid)
      cut == IF i = kNodeSize THEN kNodeSize ELSE IF i < half THEN half + 1 ELSE half
      left == SubSeq(keys, 1, cut)
  IN << [sep |-> IF i = kNodeSize THEN n.sep ELSE Rebuild(n.sep, left),
         kids |-> SubSeq(kids, 1, cut), next |-> First],
        [sep |-> Rebuild(fresh, SubSeq(keys, cut + 1, Len(keys))), kids |-> SubSeq(kids, cut + 1, Len(kids)),
         next |-> IF i = kNodeSize THEN mid ELSE n.next] >>

\* The right node r moves into l.
Absorb(l, r) == [sep |-> Rebuild(l.sep, anchors(l) \o anchors(r)), kids |-> l.kids \o r.kids, next |-> r.next]

\* merge: behind the removal of a separator.
merge(l, r) == IF knum(l) + knum(r) <= kMergeSize \/ knum(r) = 0 THEN <<Absorb(l, r)>> ELSE <<l, r>>

\* remove: of a separator that is not the last one of its node.
remove(n, i) ==
  [n EXCEPT !.sep = IF kind = "fixed" THEN F!key_remove(@, i) ELSE S!key_remove(@, i), !.kids = RemoveAt(@, i + 2)]

\* bound_remove: the last child of n keeps what was right of the separator.
DropLast(n) == [sep |-> IF kind = "fixed" THEN F!last_remove(n.sep) ELSE S!last_remove(n.sep),
                kids |-> Front(n.kids), next |-> Last(n.kids)]
bound_merge(l, r) ==
  [sep |-> Rebuild(l.sep, Front(anchors(l)) \o anchors(r)),
   kids |-> IF knum(r) = 0 THEN Front(l.kids) ELSE l.kids \o Tail(r.kids),
   next |-> IF knum(r) = 0 THEN Last(l.kids) ELSE r.next]

\* Mutant: the moved child is not handed to the right node.
KeepsChild(l, r) ==
  LET m == knum(l) - 1 IN
  IF m + knum(r) <= kMergeSize \/ m = 0 \/ knum(r) \in {0, 1} THEN <<bound_merge(l, r)>>
  ELSE <<[DropLast(l) EXCEPT !.next = First], r>>

bound_remove(l, r) ==
  LET m == knum(l) - 1 IN
  IF m + knum(r) <= kMergeSize \/ m = 0 \/ knum(r) \in {0, 1} THEN <<bound_merge(l, r)>>
  ELSE <<[DropLast(l) EXCEPT !.next = First], [r EXCEPT !.kids[1] = Last(l.kids)]>>

\* The nodes from position p to q are replaced by others.
Replace(p, q, nodes) == SubSeq(level, 1, p - 1) \o nodes \o SubSeq(level, q + 1, Len(level))
-----------------------------------------------------------------------------
Init == /\ kind \in {"fixed", "string"}
        /\ level = <<>> /\ seps = {}

\* A root for two children, the first separator of the level.
NewRoot(mid) ==
  /\ level = <<>>
  /\ \E fresh \in FreshSeps :
       level' = << insert([sep |-> fresh, kids |-> <<>>, next |-> First], mid, 0) >>
  /\ seps' = {mid} /\ UNCHANGED kind

\* The child on the left of mid was split.
InsertSep(mid) ==
  /\ level # <<>> /\ mid \notin seps /\ Cardinality(seps) < MaxSeps
  /\ LET p == Node(mid)
         n == level[p]
         i == index(n, mid)
     IN IF knum(n) < kNodeSize THEN level' = Replace(p, p, <<insert(n, mid, i)>>)
        ELSE \E fresh \in FreshSeps : level' = Replace(p, p, split(n, fresh, mid, i))
  /\ seps' = seps \cup {mid} /\ UNCHANGED kind

\* The children on both sides of mid were merged.
RemoveSep(mid) ==
  /\ mid \in seps
  /\ LET p == Node(mid)
         n == level[p]
         i == index(n, mid)
     IN level' = IF i < knum(n) - 1
                 THEN IF has_sibling(p) THEN Replace(p, p + 1, merge(remove(n, i), level[p + 1]))
                                        ELSE Replace(p, p, <<remove(n, i)>>)
                 ELSE IF has_sibling(p) THEN Replace(p, p + 1, bound_remove(n, level[p + 1]))
                                        ELSE Replace(p, p, <<DropLast(n)>>)
  /\ seps' = seps \ {mid} /\ UNCHANGED kind

\* anchor_update: the child on the left of mid gave its last part away.
UpdateSep(mid, new) ==
  /\ mid \in seps /\ Below(new, mid) /\ \A s \in seps : Below(s, mid) => Below(s, new)
  /\ LET p == Node(mid)
         n == level[p]
         renamed == [q \in DOMAIN level |->
                       [level[q] EXCEPT !.kids = ReplaceAll(@, mid, new), !.next = IF @ = mid THEN new ELSE @]]
     IN level' = [renamed EXCEPT ![p].sep = IF kind = "fixed"
                                           THEN F!anchor_update(@, new, index(n, mid))
                                           ELSE S!anchor_update(@, new, index(n, mid))]
  /\ seps' = (seps \ {mid}) \cup {new} /\ UNCHANGED kind

\* root_remove: the root has one child only, which becomes the root.
root_remove == /\ Len(level) = 1 /\ knum(level[1]) = 0
               /\ level' = <<>> /\ UNCHANGED <<kind, seps>>

Next == /\ ~ lost
        /\ \/ \E mid \in Keys : NewRoot(mid) \/ InsertSep(mid) \/ RemoveSep(mid)
           \/ \E mid, new \in Keys : UpdateSep(mid, new)
           \/ root_remove

Spec == Init /\ [][Next]_vars
-----------------------------------------------------------------------------
\* For every key, present or not, the prefix comparison, the rows of features
\* and the binary search of to_next lead along the chain to the child whose
\* range holds the key: the one right of the greatest separator below it.
RoutesExactly ==
  level # <<>> /\ ~ lost =>
    \A key \in Keys : Child(key) = IF Rank(seps, key) = 0 THEN First
                                   ELSE Greatest({s \in seps : Below(s, key)})

\* Prefixes, features and pointers of the chain still spell out the separators
\* that were inserted and not removed, in order, each with its child: no
\* expansion, shrinking, split, merge or bound removal loses a byte or a child.
LevelKeepsSeparators ==
  level # <<>> /\ ~ lost =>
    LET all == FlattenSeq([p \in DOMAIN level |-> anchors(level[p])])
        kids == FlattenSeq([p \in DOMAIN level |-> level[p].kids])
    IN /\ Len(all) = Cardinality(seps) /\ ToSet(all) = seps
       /\ \A i \in 2 .. Len(all) : Below(all[i - 1], all[i])
       /\ Append(kids, Last(level).next) = <<First>> \o all

\* Of the comment on plen_ in bound_remove: a node without separators has no
\* prefix, so that a lookup that passes it is performed correctly.
EmptyNodeHasNoPrefix ==
  \A p \in DOMAIN level : knum(level[p]) = 0 =>
    IF kind = "fixed" THEN F!plen(level[p].sep) = 0
                      ELSE level[p].sep.plen = 0 /\ level[p].sep.anchors = <<>>
=============================================================================
