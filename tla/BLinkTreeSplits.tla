--------------------------- MODULE BLinkTreeSplits --------------------------
(***************************************************************************)
(* Proofs about the lock-based B-link-tree, part 3: InsertKey and          *)
(* InsertChild add an entry to a node, and split it if it is full (they    *)
(* are steps of the kind Grows); and what a scan takes from a leaf.        *)
(***************************************************************************)
EXTENDS BLinkTreeSteps
-----------------------------------------------------------------------------
(* Steps that add an entry to a node: InsertKey and InsertChild *)

\* What Store does to nodes and latches.
LEMMA StoreOne ==
  ASSUME Types, NEW n \in NodeIds, NEW a \in Nodes, Store(n, <<a>>)
  PROVE  /\ node' \in Seq(Nodes) /\ Len(node') = Len(node) /\ NodeIds' = NodeIds
         /\ node'[n] = a /\ \A m \in NodeIds \ {n} : node'[m] = node[m]
         /\ latch' = latch
<1>1. node \in Seq(Nodes) /\ latch \in Seq(Latches) /\ n \in 1 .. Len(node) /\ NodeIds = 1 .. Len(node)
  BY NodeFacts DEF Types
<1>2. PICK f : f = [node EXCEPT ![n] = a]  BY Zenon
<1>3. f \in Seq(Nodes) /\ Len(f) = Len(node) /\ f[n] = a /\ \A m \in NodeIds \ {n} : f[m] = node[m]
  BY <1>1, <1>2, Replaced
<1>4. <<a>>[1] = a /\ Tail(<<a>>) = <<>> /\ Len(<<a>>) = 1  OBVIOUS
<1>5. node' = f \o <<>>  BY <1>2, <1>4 DEF Store
<1>6. node' = f  BY <1>3, <1>5, Joined
<1>7. [i \in 1 .. 0 |-> Free] = <<>>  OBVIOUS
<1>8. latch' = latch \o <<>>
  <2>1. latch' = latch \o [i \in 1 .. Len(<<a>>) - 1 |-> Free]  BY DEF Store
  <2>2. Len(<<a>>) - 1 = 0  BY <1>4
  <2> QED  BY <1>7, <2>1, <2>2, Zenon
<1>9. latch' = latch  BY <1>1, <1>8, Joined
<1>10. NodeIds' = NodeIds  BY <1>1, <1>3, <1>6 DEF NodeIds
<1> QED  BY <1>3, <1>6, <1>9, <1>10

\* What Store does with the two halves of a node.
LEMMA StoreTwo ==
  ASSUME Types, NEW n \in NodeIds, NEW a \in Nodes, NEW b \in Nodes, Store(n, <<a, b>>)
  PROVE  /\ node' \in Seq(Nodes) /\ Len(node') = Len(node) + 1 /\ NodeIds' = NodeIds \cup {NewId} /\ NewId \notin NodeIds
         /\ node'[n] = a /\ node'[NewId] = b /\ \A m \in NodeIds \ {n} : node'[m] = node[m]
         /\ latch' \in Seq(Latches) /\ Len(latch') = Len(latch) + 1
         /\ latch'[NewId] = Free /\ \A m \in NodeIds : latch'[m] = latch[m]
<1>1. /\ node \in Seq(Nodes) /\ latch \in Seq(Latches) /\ n \in 1 .. Len(node) /\ NodeIds = 1 .. Len(node)
      /\ Len(latch) = Len(node) /\ Len(node) \in Nat
  BY NodeFacts DEF Types
<1>2. PICK f : f = [node EXCEPT ![n] = a]  BY Zenon
<1>3. f \in Seq(Nodes) /\ Len(f) = Len(node) /\ f[n] = a /\ \A m \in NodeIds \ {n} : f[m] = node[m]
  BY <1>1, <1>2, Replaced
<1>4. <<a, b>>[1] = a /\ Tail(<<a, b>>) = <<b>> /\ Len(<<a, b>>) = 2  OBVIOUS
<1>5. node' = f \o <<b>>  BY <1>2, <1>4 DEF Store
<1>6. /\ node' \in Seq(Nodes) /\ Len(node') = Len(f) + 1 /\ node'[Len(f) + 1] = b
      /\ \A i \in 1 .. Len(f) : node'[i] = f[i]
  BY <1>3, <1>5, OneMore, Zenon
<1>7. node'[Len(node) + 1] = b /\ \A m \in NodeIds : node'[m] = f[m]  BY <1>1, <1>3, <1>6, Zenon
<1>10. [i \in 1 .. 1 |-> Free] = <<Free>>  OBVIOUS
<1>11. Free \in Latches  BY DEF Free, Latches
<1>12. latch' = latch \o <<Free>>
  <2>1. latch' = latch \o [i \in 1 .. Len(<<a, b>>) - 1 |-> Free]  BY DEF Store
  <2>2. Len(<<a, b>>) - 1 = 1  BY <1>4
  <2> QED  BY <1>10, <2>1, <2>2
<1>13. /\ latch' \in Seq(Latches) /\ Len(latch') = Len(latch) + 1 /\ latch'[Len(latch) + 1] = Free
       /\ \A i \in 1 .. Len(latch) : latch'[i] = latch[i]
  BY <1>1, <1>11, <1>12, OneMore, Zenon
<1>14. NodeIds' = NodeIds \cup {NewId} /\ NewId \notin NodeIds  BY <1>1, <1>3, <1>6 DEF NodeIds, NewId
<1> QED  BY <1>1, <1>3, <1>6, <1>7, <1>13, <1>14, Zenon DEF NewId

\* Node c with other keys, kids and sibling.
Part(c, ks, ds, sb) ==
  [leaf |-> node[c].leaf, keys |-> ks, kids |-> ds, sib |-> sb, upper |-> node[c].upper]

\* A half, by what it is made of.
MadeOf(lw, t, c, m, ks, ds, sb) ==
  /\ node'[m] = Part(c, ks, ds, sb)
  /\ ks # <<>> /\ \A i, j \in DOMAIN ks : i < j => ks[i] <= ks[j]
  /\ node[c].leaf => /\ \A i, j \in DOMAIN ks : i < j => ks[i] < ks[j]
                     /\ \A i \in DOMAIN ks : lw[m] < ks[i]
                     /\ ds = <<>>
  /\ ~ node[c].leaf => /\ sb = nullptr => Len(ds) = Len(ks) + 1
                       /\ sb # nullptr => Len(ds) = Len(ks)
                       /\ \A i \in DOMAIN ds : /\ ~ Empty(ds[i])'
                                               /\ i = 1 => lw[ds[i]] <= lw[m]
                                               /\ i > 1 => lw[ds[i]] <= ks[i - 1]
                       /\ \A i \in DOMAIN ks : ks[i] \in content'
  /\ \A i \in DOMAIN ds :
       /\ ds[i] \in NodeIds
       /\ ds[i] \in {th[t].cur, th[t].new} \/ \E j \in DOMAIN node[c].kids : ds[i] = node[c].kids[j]

\* A part of a node in order is a node in order.
LEMMA HalfOf ==
  ASSUME NEW t \in Threads, NEW lw, NEW c, NEW m, NEW ks, NEW ds, NEW sb, MadeOf(lw, t, c, m, ks, ds, sb)
  PROVE  Half(lw, t, c, m)
<1>1. /\ node'[m].leaf = node[c].leaf /\ node'[m].keys = ks /\ node'[m].kids = ds /\ node'[m].sib = sb
      /\ node'[m].upper = node[c].upper
  BY DEF MadeOf, Part
<1>2. Ordered(lw, m)'  BY <1>1, Zenon DEF Ordered, MadeOf
<1>3. Routes(lw, m)'
  <2> SUFFICES ASSUME ~ node[c].leaf
               PROVE  /\ sb = nullptr => Len(ds) = Len(ks) + 1
                      /\ sb # nullptr => Len(ds) = Len(ks)
                      /\ \A i \in DOMAIN ds : /\ ~ Empty(ds[i])'
                                              /\ i = 1 => lw[ds[i]] <= lw[m]
                                              /\ i > 1 => lw[ds[i]] <= ks[i - 1]
                      /\ \A i \in DOMAIN ks : ks[i] \in content'
    BY <1>1, Zenon DEF Routes, Empty, MadeOf
  <2> QED  BY Zenon DEF MadeOf
<1> QED  BY <1>1, <1>2, <1>3, Zenon DEF Half, MadeOf

\* The entry and where it goes: keys and kids are those of node c with it.
Entry(low, t, c, keys, kids) ==
  /\ c \in NodeIds /\ Fills(t, c) /\ th[t].op = "Insert"
  /\ keys \in Seq(Keys) /\ kids \in Seq(Nat) /\ Len(keys) = Len(node[c].keys) + 1
  /\ \A i, j \in DOMAIN keys : i < j => keys[i] <= keys[j]
  /\ node[c].sib # nullptr => Last(keys) = Last(node[c].keys)
  /\ node[c].leaf => /\ \A i, j \in DOMAIN keys : i < j => keys[i] < keys[j]
                     /\ \A i \in DOMAIN keys : low[c] < keys[i]
                     /\ kids = <<>>
                     /\ ToSet(keys) = ToSet(node[c].keys) \cup {th[t].key}
  /\ ~ node[c].leaf => /\ node[c].sib = nullptr => Len(kids) = Len(keys) + 1
                       /\ node[c].sib # nullptr => Len(kids) = Len(keys)
                       /\ \A i \in DOMAIN kids : /\ ~ Empty(kids[i])
                                                 /\ i = 1 => low[kids[i]] <= low[c]
                                                 /\ i > 1 => low[kids[i]] <= keys[i - 1]
                       /\ \A i \in DOMAIN keys : keys[i] \in content
  /\ \A i \in DOMAIN kids :
       /\ kids[i] \in NodeIds
       /\ kids[i] \in {th[t].cur, th[t].new} \/ \E j \in DOMAIN node[c].kids : kids[i] = node[c].kids[j]
\* The step of t changes no registers but those of t, and not the root.
Enters(t) == /\ th' \in [Threads -> Registers] /\ \A u \in Threads \ {t} : th'[u] = th[u]
             /\ UNCHANGED <<root, depth, load, ops>>

\* The keys in the tree, when one leaf or no leaf has changed.
NewContent(t, c) == content' = IF node[c].leaf THEN content \cup {th[t].key} ELSE content

\* The key of t is the only one that a leaf gets, and no key is lost.
LEMMA ContentGrows ==
  ASSUME Types, NEW t \in Threads, NEW c \in NodeIds, NEW m, NodeIds' = NodeIds \cup {m}, m = c \/ m \notin NodeIds,
         \A n \in NodeIds \ {c} : node'[n] = node[n],
         node'[c].leaf = node[c].leaf, node'[m].leaf = node[c].leaf,
         node[c].leaf => ToSet(node'[c].keys) \cup ToSet(node'[m].keys) = ToSet(node[c].keys) \cup {th[t].key}
  PROVE  NewContent(t, c)
<1>1. \A k : k \in content <=> \E n \in NodeIds : node[n].leaf /\ k \in ToSet(node[n].keys)  BY DEF content
<1>2. \A k : k \in content' <=> \E n \in NodeIds' : node'[n].leaf /\ k \in ToSet(node'[n].keys)  BY DEF content
<1>3. CASE node[c].leaf
  <2>1. ASSUME NEW k \in content PROVE k \in content'
    <3>1. PICK n \in NodeIds : node[n].leaf /\ k \in ToSet(node[n].keys)  BY <1>1
    <3>2. CASE n # c  BY <1>2, <3>1, <3>2
    <3>3. CASE n = c  BY <1>2, <1>3, <3>1, <3>3, Zenon
    <3> QED  BY <3>2, <3>3
  <2>2. th[t].key \in content'  BY <1>2, <1>3, Zenon
  <2>3. ASSUME NEW k \in content' PROVE k \in content \cup {th[t].key}
    <3>1. PICK n \in NodeIds' : node'[n].leaf /\ k \in ToSet(node'[n].keys)  BY <1>2
    <3>2. CASE n \in NodeIds \ {c}  BY <1>1, <3>1, <3>2
    <3>3. CASE n \in {c, m}
      <4>1. k \in ToSet(node[c].keys) \cup {th[t].key}  BY <1>3, <3>1, <3>3
      <4> QED  BY <1>1, <1>3, <4>1
    <3> QED  BY <3>2, <3>3
  <2> QED  BY <1>3, <2>1, <2>2, <2>3 DEF NewContent
<1>4. CASE ~ node[c].leaf
  <2>1. ASSUME NEW k \in content PROVE k \in content'
    <3>1. PICK n \in NodeIds : node[n].leaf /\ k \in ToSet(node[n].keys)  BY <1>1
    <3> QED  BY <1>2, <1>4, <3>1
  <2>2. ASSUME NEW k \in content' PROVE k \in content
    <3>1. PICK n \in NodeIds' : node'[n].leaf /\ k \in ToSet(node'[n].keys)  BY <1>2
    <3> QED  BY <1>1, <1>4, <3>1
  <2> QED  BY <1>4, <2>1, <2>2, Zenon DEF NewContent
<1> QED  BY <1>3, <1>4

\* The entry fits in.
LEMMA EntryFits ==
  ASSUME NEW low, J(low), NEW t \in Threads, NEW c, NEW keys, NEW kids, Entry(low, t, c, keys, kids),
         Store(c, <<Part(c, keys, kids, node[c].sib)>>), Enters(t), Adds("unlatch", t, c, nullptr)
  PROVE  (\E lw, id : Grows(low, lw, t, c, id)) /\ NewContent(t, c)
<1>0. Types /\ low \in [NodeIds -> Nat] /\ c \in NodeIds  BY Zenon DEF J, Entry
<1>1. keys \in Seq(Keys) /\ kids \in Seq(Nat) /\ Len(keys) \in Nat /\ keys # <<>>
  BY <1>0, NodeFacts, NonEmpty DEF Entry
<1>2. Part(c, keys, kids, node[c].sib) \in Nodes  BY <1>0, <1>1, NodeFacts, Zenon DEF Part, Nodes
<1>3. /\ node' \in Seq(Nodes) /\ Len(node') = Len(node) /\ NodeIds' = NodeIds
      /\ node'[c] = Part(c, keys, kids, node[c].sib) /\ \A m \in NodeIds \ {c} : node'[m] = node[m]
      /\ latch' = latch
  BY <1>0, <1>2, StoreOne, Zenon
<1>4. node'[c].leaf = node[c].leaf /\ node'[c].keys = keys /\ node'[c].sib = node[c].sib  BY <1>3 DEF Part
<1>5. NewContent(t, c)
  <2>1. node[c].leaf => ToSet(node'[c].keys) = ToSet(node[c].keys) \cup {th[t].key}  BY <1>4, Zenon DEF Entry
  <2> QED  BY <1>0, <1>3, <1>4, <2>1, ContentGrows
<1>6. content \subseteq content'  BY <1>5 DEF NewContent
<1>7. Types'  BY <1>0, <1>3 DEF Types, Enters, NodeIds
<1>8. Half(low, t, c, c)
  <2>1. ASSUME ~ node[c].leaf, NEW i \in DOMAIN kids PROVE ~ Empty(kids[i])'
    <3>1. PICK d \in NodeIds : d = kids[i] /\ ~ Empty(d)  BY <2>1, Zenon DEF Entry
    <3>2. ~ Empty(d)'  BY <1>1, <1>3, <1>4, <3>1, Zenon DEF Empty
    <3> QED  BY <3>1, <3>2
  <2>2. \A i, j \in DOMAIN keys : i < j => keys[i] <= keys[j]  BY Zenon DEF Entry
  <2>3. node[c].leaf => /\ \A i, j \in DOMAIN keys : i < j => keys[i] < keys[j]
                        /\ \A i \in DOMAIN keys : low[c] < keys[i]
                        /\ kids = <<>>
    BY Zenon DEF Entry
  <2>4. ~ node[c].leaf => /\ node[c].sib = nullptr => Len(kids) = Len(keys) + 1
                          /\ node[c].sib # nullptr => Len(kids) = Len(keys)
                          /\ \A i \in DOMAIN kids : /\ ~ Empty(kids[i])'
                                                    /\ i = 1 => low[kids[i]] <= low[c]
                                                    /\ i > 1 => low[kids[i]] <= keys[i - 1]
                          /\ \A i \in DOMAIN keys : keys[i] \in content'
    BY <1>6, <2>1, Zenon DEF Entry
  <2>5. \A i \in DOMAIN kids :
          /\ kids[i] \in NodeIds
          /\ kids[i] \in {th[t].cur, th[t].new} \/ \E j \in DOMAIN node[c].kids : kids[i] = node[c].kids[j]
    BY Zenon DEF Entry
  <2>6. MadeOf(low, t, c, c, keys, kids, node[c].sib)  BY <1>1, <1>3, <2>2, <2>3, <2>4, <2>5, Zenon DEF MadeOf
  <2> QED  BY <2>6, HalfOf
<1>9. FitsIn(t, c)  BY <1>3, <1>4, Zenon DEF FitsIn, Entry
<1>10. PICK id : id = NewId  OBVIOUS
<1>11. Grows(low, low, t, c, id)
  BY <1>0, <1>3, <1>6, <1>7, <1>8, <1>9, <1>10, Zenon DEF Grows, Entry, Enters
<1> QED  BY <1>5, <1>11

\* What EXCEPT makes of a node.
WithKeys(c, ks) == [node[c] EXCEPT !.keys = ks]
WithKids(c, ks, ds) == [node[c] EXCEPT !.keys = ks, !.kids = ds]
WithSibling(c, ks, ds, sb) == [node[c] EXCEPT !.keys = ks, !.kids = ds, !.sib = sb]
\* They are all of the form Part.
LEMMA Updated ==
  ASSUME Types, NEW c \in NodeIds
  PROVE  \A ks, ds, sb : /\ WithKeys(c, ks) = Part(c, ks, node[c].kids, node[c].sib)
                         /\ WithKids(c, ks, ds) = Part(c, ks, ds, node[c].sib)
                         /\ WithSibling(c, ks, ds, sb) = Part(c, ks, ds, sb)
<1> TAKE ks, ds, sb
<1>1. PICK n : n = node[c]  OBVIOUS
<1>2. n = [leaf |-> n.leaf, keys |-> n.keys, kids |-> n.kids, sib |-> n.sib, upper |-> n.upper]
  BY <1>1, NodeFacts DEF Nodes
<1>3. PICK f : f = [n EXCEPT !.keys = ks]  BY Zenon
<1>4. PICK g : g = [f EXCEPT !.kids = ds]  BY Zenon
<1>5. f = [leaf |-> n.leaf, keys |-> ks, kids |-> n.kids, sib |-> n.sib, upper |-> n.upper]  BY <1>2, <1>3
<1>6. g = [leaf |-> n.leaf, keys |-> ks, kids |-> ds, sib |-> n.sib, upper |-> n.upper]  BY <1>4, <1>5
<1>7. [g EXCEPT !.sib = sb] = [leaf |-> n.leaf, keys |-> ks, kids |-> ds, sib |-> sb, upper |-> n.upper]  BY <1>6
<1>8. WithKeys(c, ks) = f  BY <1>1, <1>3, Zenon DEF WithKeys
<1>9. WithKids(c, ks, ds) = g  BY <1>1, <1>3, <1>4, Zenon DEF WithKids
<1>10. WithSibling(c, ks, ds, sb) = [g EXCEPT !.sib = sb]  BY <1>1, <1>3, <1>4, Zenon DEF WithSibling
<1> QED  BY <1>1, <1>5, <1>6, <1>7, <1>8, <1>9, <1>10, Zenon DEF Part

\* The halves a split makes.
Cut(c, keys, kids, id, cut, ls, rs) ==
  /\ cut \in 1 .. Len(keys) - 1
  /\ split(node[c], keys, kids, id) = <<Part(c, SubSeq(keys, 1, cut), ls, id),
                                        Part(c, SubSeq(keys, cut + 1, Len(keys)), rs, node[c].sib)>>
  /\ kids = <<>> => ls = <<>> /\ rs = <<>>
  /\ kids # <<>> => /\ cut \in 1 .. Len(kids) - 1
                    /\ ls = SubSeq(kids, 1, cut) /\ rs = SubSeq(kids, cut + 1, Len(kids))

\* A node with an entry too many is cut into halves that are not empty.
LEMMA SplitParts ==
  ASSUME Types, NEW c \in NodeIds, node[c].keys # <<>>, NEW keys \in Seq(Keys), NEW kids \in Seq(Nat),
         Len(keys) = Len(node[c].keys) + 1, kids # <<>> => Len(kids) >= Len(keys), NEW id
  PROVE  \E cut, ls, rs : Cut(c, keys, kids, id, cut, ls, rs)
<1>1. node[c] \in Nodes /\ Len(node[c].keys) \in Nat /\ Len(node[c].keys) > 0  BY NodeFacts
<1>2. PICK L : L = Len(node[c].keys)  BY Zenon
<1>3. PICK cut : cut = L \div 2 + 1  OBVIOUS
<1>4. L \in Nat /\ L > 0 /\ cut \in Nat /\ cut \in 1 .. L
  <2>1. L \in Nat /\ L > 0  BY <1>1, <1>2
  <2>2. \A l \in Nat : l > 0 => l \div 2 \in Nat /\ l \div 2 + 1 <= l  OBVIOUS
  <2>3. \A d \in Nat : d + 1 <= L => d + 1 \in Nat /\ d + 1 \in 1 .. L  BY <2>1
  <2>4. L \div 2 \in Nat /\ L \div 2 + 1 <= L  BY <2>1, <2>2
  <2> QED  BY <1>3, <2>1, <2>3, <2>4
<1>5. cut \in 1 .. Len(keys) - 1  BY <1>2, <1>4
<1>6. PICK ls : ls = SubSeq(kids, 1, Min({cut, Len(kids)}))  BY Zenon
<1>7. PICK rs : rs = SubSeq(kids, cut + 1, Len(kids))  BY Zenon
<1>8. /\ WithSibling(c, SubSeq(keys, 1, cut), ls, id) = Part(c, SubSeq(keys, 1, cut), ls, id)
      /\ WithKids(c, SubSeq(keys, cut + 1, Len(keys)), rs) = Part(c, SubSeq(keys, cut + 1, Len(keys)), rs, node[c].sib)
  BY Updated
<1>9. split(node[c], keys, kids, id) = <<Part(c, SubSeq(keys, 1, cut), ls, id),
                                         Part(c, SubSeq(keys, cut + 1, Len(keys)), rs, node[c].sib)>>
  BY <1>2, <1>3, <1>6, <1>7, <1>8, Zenon DEF split, WithSibling, WithKids
<1>10. ASSUME kids = <<>> PROVE ls = <<>> /\ rs = <<>>
  <2>1. Len(kids) = 0  BY <1>10
  <2>2. Min({cut, 0}) = 0
    <3>1. cut \in Int /\ 0 \in Int /\ ~ (cut <= 0)  BY <1>4
    <3>2. Min({cut, 0}) = IF cut <= 0 THEN cut ELSE 0  BY <3>1, LeastOfTwo
    <3> QED  BY <3>1, <3>2
  <2>3. ls = SubSeq(kids, 1, 0) /\ rs = SubSeq(kids, cut + 1, 0)  BY <1>6, <1>7, <2>1, <2>2
  <2>4. 1 \in Int /\ 0 \in Int /\ cut + 1 \in Int /\ 0 < 1 /\ 0 < cut + 1  BY <1>4
  <2> QED  BY <2>3, <2>4, Sliced
<1>11. ASSUME kids # <<>> PROVE cut \in 1 .. Len(kids) - 1 /\ ls = SubSeq(kids, 1, cut)
  <2>1. PICK K : K = Len(kids)  OBVIOUS
  <2>2. K \in Nat /\ K >= L + 1  BY <1>2, <1>4, <1>11, <2>1
  <2>3. cut \in Int /\ K \in Int /\ cut <= K /\ cut \in 1 .. K - 1  BY <1>4, <2>2
  <2>4. Min({cut, K}) = cut
    <3>1. Min({cut, K}) = IF cut <= K THEN cut ELSE K  BY <2>3, LeastOfTwo
    <3> QED  BY <2>3, <3>1
  <2> QED  BY <1>6, <2>1, <2>3, <2>4, Zenon
<1> QED  BY <1>5, <1>7, <1>9, <1>10, <1>11, Zenon DEF Cut

\* The node is split; its right half starts where the left one ends.
LEMMA EntrySplits ==
  ASSUME NEW low, J(low), NEW t \in Threads, NEW c, NEW keys, NEW kids, Entry(low, t, c, keys, kids),
         node[c].keys # <<>>, Store(c, split(node[c], keys, kids, NewId)), Enters(t),
         NEW id, id = NewId, Adds("split", t, c, id)
  PROVE  (\E lw : Grows(low, lw, t, c, id)) /\ NewContent(t, c)
<1>0. Types /\ low \in [NodeIds -> Nat] /\ c \in NodeIds /\ c \in Nat  BY NodeFacts DEF J, Entry
<1>1. keys \in Seq(Keys) /\ kids \in Seq(Nat) /\ Len(keys) \in Nat /\ Len(kids) \in Nat /\ Len(keys) = Len(node[c].keys) + 1
  BY DEF Entry
<1>2. node[c].leaf => kids = <<>>  BY Zenon DEF Entry
<1>3. ~ node[c].leaf => /\ node[c].sib = nullptr => Len(kids) = Len(keys) + 1
                        /\ node[c].sib # nullptr => Len(kids) = Len(keys)
  BY Zenon DEF Entry
<1>4. kids # <<>> => Len(kids) >= Len(keys)
  <2>1. node[c].leaf \in BOOLEAN  BY <1>0, NodeFacts
  <2> QED  BY <1>1, <1>2, <1>3, <2>1
<1>5. PICK cut, ls, rs : Cut(c, keys, kids, id, cut, ls, rs)  BY <1>0, <1>1, <1>4, SplitParts, Zenon
<1>6. PICK lk, rk : lk = SubSeq(keys, 1, cut) /\ rk = SubSeq(keys, cut + 1, Len(keys))  BY Zenon
<1>7. /\ split(node[c], keys, kids, id) = <<Part(c, lk, ls, id), Part(c, rk, rs, node[c].sib)>>
      /\ kids = <<>> => ls = <<>> /\ rs = <<>>
      /\ kids # <<>> => /\ cut \in 1 .. Len(kids) - 1
                        /\ ls = SubSeq(kids, 1, cut) /\ rs = SubSeq(kids, cut + 1, Len(kids))
  BY <1>5, <1>6, Zenon DEF Cut
<1>8. /\ lk \in Seq(Keys) /\ Len(lk) = cut /\ DOMAIN lk = 1 .. cut /\ lk # <<>> /\ Last(lk) = keys[cut]
      /\ rk \in Seq(Keys) /\ Len(rk) = Len(keys) - cut /\ DOMAIN rk = 1 .. Len(keys) - cut /\ rk # <<>> /\ Last(rk) = Last(keys)
      /\ \A j \in 1 .. cut : lk[j] = keys[j]
      /\ \A j \in 1 .. Len(keys) - cut : rk[j] = keys[cut + j]
      /\ ToSet(lk) \cup ToSet(rk) = ToSet(keys)
  <2>1. PICK T : T = Keys  OBVIOUS
  <2>2. keys \in Seq(T)  BY <1>1, <2>1
  <2>3. LET l == SubSeq(keys, 1, cut)
            r == SubSeq(keys, cut + 1, Len(keys)) IN
         /\ l \in Seq(T) /\ Len(l) = cut /\ DOMAIN l = 1 .. cut /\ l # <<>> /\ Last(l) = keys[cut]
         /\ r \in Seq(T) /\ Len(r) = Len(keys) - cut /\ DOMAIN r = 1 .. Len(keys) - cut /\ r # <<>> /\ Last(r) = Last(keys)
         /\ \A j \in 1 .. cut : l[j] = keys[j]
         /\ \A j \in 1 .. Len(keys) - cut : r[j] = keys[cut + j]
         /\ ToSet(l) \cup ToSet(r) = ToSet(keys)
    BY <1>5, <2>2, Halves, Zenon DEF Cut
  <2> QED  BY <1>6, <2>1, <2>3, Zenon
<1>9. /\ ls \in Seq(Nat) /\ rs \in Seq(Nat)
      /\ kids # <<>> => /\ Len(ls) = cut /\ DOMAIN ls = 1 .. cut /\ \A j \in 1 .. cut : ls[j] = kids[j]
                        /\ Len(rs) = Len(kids) - cut /\ DOMAIN rs = 1 .. Len(kids) - cut
                        /\ \A j \in 1 .. Len(kids) - cut : rs[j] = kids[cut + j]
  <2>1. CASE kids = <<>>  BY <1>7, <2>1
  <2>2. CASE kids # <<>>
    <3>1. PICK T : T = Nat  BY Zenon
    <3>2. kids \in Seq(T) /\ cut \in 1 .. Len(kids) - 1  BY <1>1, <1>7, <2>2, <3>1
    <3>3. LET l == SubSeq(kids, 1, cut)
              r == SubSeq(kids, cut + 1, Len(kids)) IN
          /\ l \in Seq(T) /\ Len(l) = cut /\ DOMAIN l = 1 .. cut
          /\ r \in Seq(T) /\ Len(r) = Len(kids) - cut /\ DOMAIN r = 1 .. Len(kids) - cut
          /\ \A j \in 1 .. cut : l[j] = kids[j]
          /\ \A j \in 1 .. Len(kids) - cut : r[j] = kids[cut + j]
      BY <3>2, Halves
    <3> QED  BY <1>7, <2>2, <3>1, <3>3, Zenon
  <2> QED  BY <2>1, <2>2
<1>10. id \in Nat /\ id \notin NodeIds  BY <1>0, NodeFacts DEF NewId
<1>11. Part(c, lk, ls, id) \in Nodes /\ Part(c, rk, rs, node[c].sib) \in Nodes
  BY <1>0, <1>8, <1>9, <1>10, NodeFacts, Zenon DEF Part, Nodes
<1>12. /\ node' \in Seq(Nodes) /\ Len(node') = Len(node) + 1 /\ NodeIds' = NodeIds \cup {id}
       /\ node'[c] = Part(c, lk, ls, id) /\ node'[id] = Part(c, rk, rs, node[c].sib)
       /\ \A m \in NodeIds \ {c} : node'[m] = node[m]
       /\ latch' \in Seq(Latches) /\ Len(latch') = Len(latch) + 1
       /\ latch'[id] = Free /\ \A m \in NodeIds : latch'[m] = latch[m]
  <2>1. Store(c, <<Part(c, lk, ls, id), Part(c, rk, rs, node[c].sib)>>)  BY <1>7, Zenon
  <2> QED  BY <1>0, <1>11, <2>1, StoreTwo, Zenon
<1>13. /\ node'[c].leaf = node[c].leaf /\ node'[c].keys = lk /\ node'[c].sib = id
       /\ node'[id].leaf = node[c].leaf /\ node'[id].keys = rk /\ node'[id].sib = node[c].sib
  BY <1>12 DEF Part
<1>14. NewContent(t, c)
  <2>1. node[c].leaf => ToSet(node'[c].keys) \cup ToSet(node'[id].keys) = ToSet(node[c].keys) \cup {th[t].key}
    BY <1>8, <1>13, Zenon DEF Entry
  <2> QED  BY <1>0, <1>10, <1>12, <1>13, <2>1, ContentGrows, Zenon
<1>15. content \subseteq content'  BY <1>14, Zenon DEF NewContent
<1>16. Types'
  <2>1. root' \in NodeIds'  BY <1>0, <1>12, Zenon DEF Types, Enters
  <2> QED  BY <1>0, <1>12, <2>1, Zenon DEF Types, Enters
<1>17. cut \in Nat /\ cut >= 1 /\ cut < Len(keys) /\ cut \in DOMAIN keys /\ Len(keys) \in DOMAIN keys /\ DOMAIN keys = 1 .. Len(keys)
  <2>1. PICK L : L = Len(keys)  OBVIOUS
  <2>2. L \in Nat /\ cut \in 1 .. L - 1 /\ DOMAIN keys = 1 .. L  BY <1>1, <1>5, <2>1 DEF Cut
  <2>3. cut \in Nat /\ cut >= 1 /\ cut < L /\ cut \in 1 .. L /\ L \in 1 .. L  BY <2>2
  <2> QED  BY <2>1, <2>2, <2>3
<1>18. PICK lw : lw = [n \in NodeIds' |-> IF n = id THEN keys[cut] ELSE low[n]]  BY Zenon
<1>19. keys[cut] \in Nat
  <2>1. keys[cut] \in Keys  BY <1>1, <1>17
  <2> QED  BY <2>1, BLinkTreeAssumption, Zenon
<1>20. lw \in [NodeIds' -> Nat] /\ lw[id] = keys[cut] /\ \A n \in NodeIds : lw[n] = low[n]
  BY <1>0, <1>10, <1>12, <1>18, <1>19
<1>21. \A i, j \in DOMAIN keys : i < j => keys[i] <= keys[j]  BY Zenon DEF Entry
<1>22. node[c].leaf => /\ \A i, j \in DOMAIN keys : i < j => keys[i] < keys[j]
                       /\ \A i \in DOMAIN keys : low[c] < keys[i]
  BY Zenon DEF Entry
<1>23. ~ node[c].leaf => /\ \A i \in DOMAIN kids : /\ ~ Empty(kids[i])
                                                   /\ i = 1 => low[kids[i]] <= low[c]
                                                   /\ i > 1 => low[kids[i]] <= keys[i - 1]
                         /\ \A i \in DOMAIN keys : keys[i] \in content
  BY Zenon DEF Entry
<1>24. \A i \in DOMAIN kids :
       /\ kids[i] \in NodeIds
       /\ kids[i] \in {th[t].cur, th[t].new} \/ \E j \in DOMAIN node[c].kids : kids[i] = node[c].kids[j]
  BY Zenon DEF Entry
<1>25. ASSUME ~ node[c].leaf, NEW i \in DOMAIN kids PROVE ~ Empty(kids[i])' /\ lw[kids[i]] = low[kids[i]]
  <2>1. PICK d \in NodeIds : d = kids[i] /\ ~ Empty(d)  BY <1>23, <1>24, <1>25, Zenon
  <2>2. ~ Empty(d)'  BY <1>8, <1>12, <1>13, <2>1, Zenon DEF Empty
  <2> QED  BY <1>20, <2>1, <2>2, Zenon
<1>26. kids # <<>> => DOMAIN kids = 1 .. Len(kids) /\ cut < Len(kids)
  <2>1. PICK K : K = Len(kids)  BY Zenon
  <2>2. kids # <<>> => K \in Nat /\ DOMAIN kids = 1 .. K /\ cut \in 1 .. K - 1  BY <1>1, <1>7, <2>1
  <2>3. kids # <<>> => cut < K  BY <2>2
  <2> QED  BY <2>1, <2>2, <2>3
<1>27. ~ node[c].leaf => kids # <<>>  BY <1>1, <1>3, <1>17, NonEmpty
<1>28. MadeOf(lw, t, c, c, lk, ls, id)
  <2>1. \A i, j \in DOMAIN lk : i < j => lk[i] <= lk[j]
    <3> TAKE i, j \in DOMAIN lk
    <3>1. i \in DOMAIN keys /\ j \in DOMAIN keys /\ lk[i] = keys[i] /\ lk[j] = keys[j]  BY <1>8, <1>17
    <3> QED  BY <1>21, <3>1
  <2>2. ASSUME node[c].leaf
        PROVE  /\ \A i, j \in DOMAIN lk : i < j => lk[i] < lk[j]
               /\ \A i \in DOMAIN lk : lw[c] < lk[i]
               /\ ls = <<>>
    <3>1. ASSUME NEW i \in DOMAIN lk PROVE i \in DOMAIN keys /\ lk[i] = keys[i]  BY <1>8, <1>17
    <3>2. \A i, j \in DOMAIN lk : i < j => lk[i] < lk[j]  BY <1>22, <2>2, <3>1
    <3>3. \A i \in DOMAIN lk : lw[c] < lk[i]  BY <1>0, <1>20, <1>22, <2>2, <3>1
    <3> QED  BY <1>2, <1>7, <2>2, <3>2, <3>3
  <2>3. \A i \in DOMAIN ls : i \in DOMAIN kids /\ ls[i] = kids[i] /\ kids # <<>>
    <3> TAKE i \in DOMAIN ls
    <3>1. kids # <<>>  BY <1>7
    <3>2. i \in 1 .. cut /\ ls[i] = kids[i]  BY <1>9, <3>1
    <3> QED  BY <1>1, <1>17, <1>26, <3>1, <3>2
  <2>4. ASSUME ~ node[c].leaf
        PROVE  /\ Len(ls) = Len(lk)
               /\ \A i \in DOMAIN ls : /\ ~ Empty(ls[i])'
                                       /\ i = 1 => lw[ls[i]] <= lw[c]
                                       /\ i > 1 => lw[ls[i]] <= lk[i - 1]
               /\ \A i \in DOMAIN lk : lk[i] \in content'
    <3>1. Len(ls) = Len(lk)  BY <1>8, <1>9, <1>27, <2>4
    <3>2. ASSUME NEW i \in DOMAIN ls
          PROVE  ~ Empty(ls[i])' /\ (i = 1 => lw[ls[i]] <= lw[c]) /\ (i > 1 => lw[ls[i]] <= lk[i - 1])
      <4>1. i \in DOMAIN kids /\ ls[i] = kids[i]  BY <2>3
      <4>2. ~ Empty(kids[i])' /\ lw[kids[i]] = low[kids[i]] /\ lw[c] = low[c]  BY <1>0, <1>20, <1>25, <2>4, <4>1, Zenon
      <4>3. i > 1 => lk[i - 1] = keys[i - 1]
        <5>1. i \in 1 .. cut  BY <1>9, <1>27, <2>4
        <5>2. i > 1 => i - 1 \in 1 .. cut  BY <1>17, <5>1
        <5> QED  BY <1>8, <5>2
      <4>4. (i = 1 => low[kids[i]] <= low[c]) /\ (i > 1 => low[kids[i]] <= keys[i - 1])  BY <1>23, <2>4, <4>1
      <4> QED  BY <4>1, <4>2, <4>3, <4>4
    <3>3. \A i \in DOMAIN lk : lk[i] \in content'  BY <1>8, <1>15, <1>17, <1>23, <2>4
    <3> QED  BY <3>1, <3>2, <3>3, Zenon
  <2>5. id # nullptr  BY <1>0, NodeFacts DEF NewId, nullptr
  <2>6. \A i \in DOMAIN ls :
          /\ ls[i] \in NodeIds
          /\ ls[i] \in {th[t].cur, th[t].new} \/ \E j \in DOMAIN node[c].kids : ls[i] = node[c].kids[j]
    BY <1>24, <2>3, Zenon
  <2> QED  BY <1>8, <1>12, <2>1, <2>2, <2>4, <2>5, <2>6, Zenon DEF MadeOf
<1>29. MadeOf(lw, t, c, id, rk, rs, node[c].sib)
  <2>0. ASSUME NEW i \in DOMAIN rk PROVE cut + i \in DOMAIN keys /\ rk[i] = keys[cut + i] /\ i \in Nat /\ i >= 1
    <3>1. PICK L : L = Len(keys)  OBVIOUS
    <3>2. L \in Nat /\ i \in 1 .. L - cut /\ DOMAIN keys = 1 .. L /\ cut \in Nat /\ rk[i] = keys[cut + i]
      BY <1>1, <1>8, <1>17, <3>1
    <3>3. cut + i \in 1 .. L /\ i \in Nat /\ i >= 1  BY <3>2
    <3> QED  BY <3>2, <3>3
  <2>1. \A i, j \in DOMAIN rk : i < j => rk[i] <= rk[j]
    <3> TAKE i, j \in DOMAIN rk
    <3> HAVE i < j
    <3>1. cut + i < cut + j  BY <1>17, <2>0
    <3> QED  BY <1>21, <2>0, <3>1
  <2>2. ASSUME node[c].leaf
        PROVE  /\ \A i, j \in DOMAIN rk : i < j => rk[i] < rk[j]
               /\ \A i \in DOMAIN rk : lw[id] < rk[i]
               /\ rs = <<>>
    <3>1. ASSUME NEW i \in DOMAIN rk, NEW j \in DOMAIN rk, i < j PROVE rk[i] < rk[j]
      <4>1. cut + i < cut + j  BY <1>17, <2>0, <3>1
      <4> QED  BY <1>22, <2>0, <2>2, <4>1
    <3>2. ASSUME NEW i \in DOMAIN rk PROVE lw[id] < rk[i]
      <4>1. cut < cut + i  BY <1>17, <2>0
      <4> QED  BY <1>17, <1>20, <1>22, <2>0, <2>2, <4>1
    <3> QED  BY <1>2, <1>7, <2>2, <3>1, <3>2
  <2>3. ASSUME NEW i \in DOMAIN rs
        PROVE  cut + i \in DOMAIN kids /\ rs[i] = kids[cut + i] /\ kids # <<>> /\ i \in Nat /\ i >= 1 /\ i <= Len(kids) - cut
    <3>1. kids # <<>>  BY <1>7
    <3>2. PICK K : K = Len(kids)  BY Zenon
    <3>3. i \in 1 .. K - cut /\ rs[i] = kids[cut + i] /\ K \in Nat /\ cut \in Nat /\ DOMAIN kids = 1 .. K
      BY <1>1, <1>9, <1>17, <1>26, <3>1, <3>2, Zenon
    <3>4. cut + i \in 1 .. K /\ i \in Nat /\ i >= 1 /\ i <= K - cut  BY <3>3
    <3> QED  BY <3>1, <3>2, <3>3, <3>4
  <2>4. ASSUME ~ node[c].leaf
        PROVE  /\ node[c].sib = nullptr => Len(rs) = Len(rk) + 1
               /\ node[c].sib # nullptr => Len(rs) = Len(rk)
               /\ \A i \in DOMAIN rs : /\ ~ Empty(rs[i])'
                                       /\ i = 1 => lw[rs[i]] <= lw[id]
                                       /\ i > 1 => lw[rs[i]] <= rk[i - 1]
               /\ \A i \in DOMAIN rk : rk[i] \in content'
    <3>1. (node[c].sib = nullptr => Len(rs) = Len(rk) + 1) /\ (node[c].sib # nullptr => Len(rs) = Len(rk))
      <4>1. PICK L, K : L = Len(keys) /\ K = Len(kids)  BY Zenon
      <4>2. Len(rs) = K - cut /\ Len(rk) = L - cut /\ K \in Nat /\ L \in Nat  BY <1>1, <1>8, <1>9, <1>27, <2>4, <4>1, Zenon
      <4>3. (node[c].sib = nullptr => K = L + 1) /\ (node[c].sib # nullptr => K = L)  BY <1>3, <2>4, <4>1, Zenon
      <4> QED  BY <1>17, <4>2, <4>3
    <3>2. ASSUME NEW i \in DOMAIN rs
          PROVE  ~ Empty(rs[i])' /\ (i = 1 => lw[rs[i]] <= lw[id]) /\ (i > 1 => lw[rs[i]] <= rk[i - 1])
      <4>1. cut + i \in DOMAIN kids /\ rs[i] = kids[cut + i] /\ i \in Nat /\ i >= 1  BY <2>3
      <4>2. ~ Empty(kids[cut + i])' /\ lw[kids[cut + i]] = low[kids[cut + i]]  BY <1>25, <2>4, <4>1, Zenon
      <4>3. cut + i > 1 /\ cut + i - 1 = cut + (i - 1)  BY <1>17, <4>1
      <4>4. low[kids[cut + i]] <= keys[cut + i - 1]
        <5>1. \A j \in DOMAIN kids : j > 1 => low[kids[j]] <= keys[j - 1]  BY <1>23, <2>4, Zenon
        <5>2. PICK j : j = cut + i  OBVIOUS
        <5>3. j \in DOMAIN kids /\ j > 1  BY <4>1, <4>3, <5>2, Zenon
        <5>4. low[kids[j]] <= keys[j - 1]  BY <5>1, <5>3
        <5>5. j - 1 = cut + i - 1  BY <1>17, <4>1, <5>2
        <5>6. low[kids[j]] <= keys[cut + i - 1]  BY <5>4, <5>5, Zenon
        <5> QED  BY <5>2, <5>6, Zenon
      <4>5. i = 1 => keys[cut + i - 1] = lw[id]
        <5>1. i = 1 => cut + i - 1 = cut  BY <1>17
        <5> QED  BY <1>20, <5>1
      <4>6. i > 1 => keys[cut + i - 1] = rk[i - 1]
        <5> HAVE i > 1
        <5>1. PICK L, K : L = Len(keys) /\ K = Len(kids)  BY Zenon
        <5>a. i <= K - cut /\ K \in Nat /\ L \in Nat /\ cut \in Nat  BY <1>1, <1>17, <2>3, <5>1
        <5>b. K = L + 1 \/ K = L  BY <1>3, <2>4, <5>1, Zenon
        <5>2. i <= K - cut /\ K \in Nat /\ L \in Nat /\ K <= L + 1 /\ cut \in Nat  BY <5>a, <5>b
        <5>3. i - 1 \in 1 .. L - cut  BY <4>1, <5>2
        <5>4. rk[i - 1] = keys[cut + (i - 1)]  BY <1>8, <5>1, <5>3
        <5> QED  BY <4>3, <5>4
      <4>7. ~ Empty(rs[i])'
        <5>1. PICK d : d = kids[cut + i]  OBVIOUS
        <5> QED  BY <4>1, <4>2, Zenon
      <4> QED  BY <4>1, <4>2, <4>4, <4>5, <4>6, <4>7, Zenon
    <3>3. \A i \in DOMAIN rk : rk[i] \in content'  BY <1>15, <1>23, <2>0, <2>4, Zenon
    <3> QED  BY <3>1, <3>2, <3>3, Zenon
  <2>5. \A i \in DOMAIN rs :
          /\ rs[i] \in NodeIds
          /\ rs[i] \in {th[t].cur, th[t].new} \/ \E j \in DOMAIN node[c].kids : rs[i] = node[c].kids[j]
    BY <1>24, <2>3
  <2> QED  BY <1>8, <1>12, <2>1, <2>2, <2>4, <2>5, Zenon DEF MadeOf
<1>30. Half(lw, t, c, c) /\ Half(lw, t, c, id)  BY <1>28, <1>29, HalfOf, Zenon
<1>31. IsSplit(lw, t, c, id)
  <2>1. lw[id] = Last(node'[c].keys)  BY <1>8, <1>13, <1>20, Zenon
  <2>2. lw[id] <= Last(node'[id].keys)  BY <1>8, <1>13, <1>17, <1>20, <1>21, Zenon DEF Last
  <2>3. node[c].leaf => lw[c] < lw[id]  BY <1>0, <1>17, <1>20, <1>22
  <2>4. node[c].sib # nullptr => Last(node'[id].keys) = Last(node[c].keys)  BY <1>8, <1>13, Zenon DEF Entry
  <2> QED  BY <1>12, <1>13, <1>30, <2>1, <2>2, <2>3, <2>4, Zenon DEF IsSplit
<1>32. Grows(low, lw, t, c, id)
  BY <1>0, <1>12, <1>15, <1>16, <1>20, <1>30, <1>31, Zenon DEF Grows, Entry, Enters
<1> QED  BY <1>14, <1>32, Zenon

\* The registers of a thread that has added an entry.
LEMMA Adding ==
  ASSUME NEW low, J(low), NEW t \in Threads, th[t].op = "Insert", NEW c, NEW new \in Nat, NEW l \in {"split", "unlatch"},
         \/ c = th[t].cur /\ Reg(t, [th[t] EXCEPT !.work = th[t].cur, !.ret = TRUE, !.new = new, !.pc = l])
         \/ c = th[t].work /\ th[t].ret = TRUE /\ Reg(t, [th[t] EXCEPT !.cur = th[t].work, !.new = new, !.pc = l])
  PROVE  /\ th' \in [Threads -> Registers] /\ \A u \in Threads \ {t} : th'[u] = th[u]
         /\ Adds(l, t, c, new)
<1>0. Types /\ th[t] \in Registers  BY RegisterFacts DEF J
<1>1. \A r \in Registers : Reg(t, r) =>
        th' \in [Threads -> Registers] /\ th'[t] = r /\ \A u \in Threads \ {t} : th'[u] = th[u]
  BY <1>0 DEF Reg, Types
<1>2. l \in Labels  BY DEF Labels
<1>3. CASE c = th[t].cur /\ Reg(t, [th[t] EXCEPT !.work = th[t].cur, !.ret = TRUE, !.new = new, !.pc = l])
  <2>1. PICK r : r = [th[t] EXCEPT !.work = th[t].cur, !.ret = TRUE, !.new = new, !.pc = l]  OBVIOUS
  <2>2. r \in Registers  BY <1>0, <1>2, <2>1, Zenon DEF Registers
  <2>3. /\ r.pc = l /\ r.op = th[t].op /\ r.key = th[t].key /\ r.arg = th[t].arg /\ r.cur = c /\ r.work = c
        /\ r.path = th[t].path /\ r.new = new /\ r.ret = TRUE /\ r.pairs = th[t].pairs /\ r.stack = th[t].stack
    BY <1>0, <1>3, <2>1 DEF Registers
  <2>4. th' \in [Threads -> Registers] /\ th'[t] = r /\ \A u \in Threads \ {t} : th'[u] = th[u]  BY <1>1, <1>3, <2>1, <2>2, Zenon
  <2> QED  BY <2>3, <2>4, Zenon DEF Adds, Becomes
<1>4. CASE c = th[t].work /\ th[t].ret = TRUE /\ Reg(t, [th[t] EXCEPT !.cur = th[t].work, !.new = new, !.pc = l])
  <2>1. PICK r : r = [th[t] EXCEPT !.cur = th[t].work, !.new = new, !.pc = l]  OBVIOUS
  <2>2. r \in Registers  BY <1>0, <1>2, <2>1, Zenon DEF Registers
  <2>3. /\ r.pc = l /\ r.op = th[t].op /\ r.key = th[t].key /\ r.arg = th[t].arg /\ r.cur = c /\ r.work = c
        /\ r.path = th[t].path /\ r.new = new /\ r.ret = TRUE /\ r.pairs = th[t].pairs /\ r.stack = th[t].stack
    BY <1>0, <1>4, <2>1 DEF Registers
  <2>4. th' \in [Threads -> Registers] /\ th'[t] = r /\ \A u \in Threads \ {t} : th'[u] = th[u]  BY <1>1, <1>4, <2>1, <2>2, Zenon
  <2> QED  BY <2>3, <2>4, Zenon DEF Adds, Becomes
<1> QED  BY <1>3, <1>4, Zenon

\* InsertKey adds its key to the leaf that is responsible for it.
LEMMA KeyStep ==
  ASSUME NEW low, J(low), NEW t \in Threads, InsertKey(t), UNCHANGED ops
  PROVE  \E c, lw, id : Grows(low, lw, t, c, id) /\ NewContent(t, c) /\ node[c].leaf
<1>0. /\ Types /\ Linked /\ low \in [NodeIds -> Nat] /\ Calls(t) /\ Descends(low, t) /\ \A n \in NodeIds : NodeOK(low, n)
      /\ th[t].pc = "leaf" /\ th[t].op = "Insert" /\ ~ beyond(Cur(t), th[t].key) /\ ~ holds(Cur(t), th[t].key)
  BY DEF J, InsertKey, At
<1>1. PICK c, k : c = th[t].cur /\ k = th[t].key  OBVIOUS
<1>2. c \in NodeIds /\ node[c].leaf /\ low[c] < k /\ k \in Keys /\ k \in Nat
  BY <1>0, <1>1, BLinkTreeAssumption, Zenon DEF Descends, Calls
<1>3. /\ node[c].keys \in Seq(Nat) /\ node[c].keys \in Seq(Keys) /\ DOMAIN node[c].keys = 1 .. Len(node[c].keys)
      /\ Len(node[c].keys) \in Nat
  BY <1>0, <1>2, NodeFacts, Zenon
<1>4. PICK i : i = Place(node[c].keys, k)  OBVIOUS
<1>5. i \in 1 .. Len(node[c].keys) + 1  BY <1>2, <1>3, <1>4, PlaceFacts
<1>6. PICK keys : keys = InsertAt(node[c].keys, i, k)  OBVIOUS
<1>7. keys \in Seq(Keys) /\ Len(keys) = Len(node[c].keys) + 1 /\ ToSet(keys) = ToSet(node[c].keys) \cup {k}
  <2>1. PICK T, s : T = Keys /\ s = node[c].keys  OBVIOUS
  <2>2. s \in Seq(T) /\ k \in T /\ i \in 1 .. Len(s) + 1 /\ keys = InsertAt(s, i, k)  BY <1>2, <1>3, <1>5, <1>6, <2>1
  <2>3. keys \in Seq(T) /\ Len(keys) = Len(s) + 1  BY <2>2, Inserted
  <2>4. ToSet(keys) = ToSet(s) \cup {k}  BY <2>2, InsertedSet
  <2> QED  BY <2>1, <2>3, <2>4
<1>8. Ordered(low, c) /\ Continued(low, c)  BY <1>0, <1>2, Zenon DEF NodeOK
<1>9. /\ \A a, b \in DOMAIN keys : a < b => keys[a] <= keys[b]
      /\ \A a, b \in DOMAIN keys : a < b => keys[a] < keys[b]
      /\ node[c].keys # <<>> /\ k <= Last(node[c].keys) => Last(keys) = Last(node[c].keys)
  <2>1. \A a, b \in DOMAIN node[c].keys : a < b => node[c].keys[a] <= node[c].keys[b]  BY <1>8 DEF Ordered
  <2>2. \A a, b \in DOMAIN node[c].keys : a < b => node[c].keys[a] < node[c].keys[b]  BY <1>2, <1>8 DEF Ordered
  <2>3. ~ (i <= Len(node[c].keys) /\ node[c].keys[i] = k)  BY <1>0, <1>1, <1>4 DEF holds, NodeScan, Cur
  <2>4. PICK s : s = node[c].keys  OBVIOUS
  <2>5. LET r == InsertAt(s, Place(s, k), k) IN
         /\ \A a, b \in DOMAIN r : a < b => r[a] <= r[b]
         /\ /\ \A a, b \in DOMAIN s : a < b => s[a] < s[b]
            /\ ~ (Place(s, k) <= Len(s) /\ s[Place(s, k)] = k)
            => \A a, b \in DOMAIN r : a < b => r[a] < r[b]
         /\ s # <<>> /\ k <= Last(s) => Last(r) = Last(s)
    <3>1. PlaceIsFirst  BY DEF J
    <3> QED  BY <1>2, <1>3, <2>1, <2>4, <3>1, PlacedInOrder, Zenon
  <2> QED  BY <1>4, <1>6, <2>2, <2>3, <2>4, <2>5, Zenon
<1>10. \A a \in DOMAIN keys : low[c] < keys[a]
  <2> TAKE a \in DOMAIN keys
  <2>1. keys[a] \in ToSet(node[c].keys) \cup {k}  BY <1>7, Zenon DEF ToSet
  <2>2. \A x \in ToSet(node[c].keys) : low[c] < x  BY <1>2, <1>8 DEF Ordered, ToSet
  <2> QED  BY <1>2, <2>1, <2>2
<1>11. node[c].sib # nullptr => Last(keys) = Last(node[c].keys)
  <2> HAVE node[c].sib # nullptr
  <2>1. node[c].keys # <<>> /\ ~ (Last(node[c].keys) < k)  BY <1>0, <1>1, <1>8 DEF Continued, beyond, Cur
  <2>2. Last(node[c].keys) \in Keys /\ Last(node[c].keys) \in Nat  BY <1>0, <1>2, <2>1, NodeFacts, BLinkTreeAssumption, Zenon
  <2>3. k <= Last(node[c].keys)  BY <1>2, <2>1, <2>2
  <2> QED  BY <1>9, <2>1, <2>3
<1>12. node[c].kids = <<>>  BY <1>2, <1>8 DEF Ordered
<1>13. Entry(low, t, c, keys, <<>>)
  BY <1>0, <1>1, <1>2, <1>7, <1>9, <1>10, <1>11 DEF Entry, Fills
<1>14. PICK s : s = LeafInsert(Cur(t), th[t].key, NewId)  OBVIOUS
<1>15. /\ Store(c, s)
       /\ Reg(t, [th[t] EXCEPT !.work = th[t].cur, !.ret = TRUE, !.new = IF Len(s) = 2 THEN NewId ELSE nullptr,
                               !.pc = IF Len(s) = 2 THEN "split" ELSE "unlatch"])
       /\ UNCHANGED <<root, depth, load>>
  BY <1>1, <1>14, Zenon DEF InsertKey
<1>16. s = IF Len(keys) < leaf_split_at THEN <<WithKeys(c, keys)>> ELSE split(node[c], keys, <<>>, NewId)
  BY <1>1, <1>4, <1>6, <1>14, Zenon DEF LeafInsert, NodeScan, Cur, WithKeys
<1>17. CASE Len(keys) < leaf_split_at
  <2>1. s = <<Part(c, keys, <<>>, node[c].sib)>>  BY <1>0, <1>2, <1>12, <1>16, <1>17, Updated, Zenon
  <2>2. Len(s) = 1  BY <2>1
  <2>3. Reg(t, [th[t] EXCEPT !.work = th[t].cur, !.ret = TRUE, !.new = nullptr, !.pc = "unlatch"])  BY <1>15, <2>2
  <2>4. /\ th' \in [Threads -> Registers] /\ \A u \in Threads \ {t} : th'[u] = th[u]
        /\ Adds("unlatch", t, c, nullptr)
    BY <1>0, <1>1, <2>3, Adding, Zenon DEF nullptr
  <2>5. Enters(t)  BY <1>15, <2>4 DEF Enters
  <2> QED  BY <1>2, <1>13, <1>15, <2>1, <2>4, <2>5, EntryFits
<1>18. CASE ~ (Len(keys) < leaf_split_at)
  <2>1. PICK id : id = NewId  OBVIOUS
  <2>2. s = split(node[c], keys, <<>>, id)  BY <1>16, <1>18, <2>1
  <2>3. Len(s) = 2  BY <2>2 DEF split
  <2>4. Reg(t, [th[t] EXCEPT !.work = th[t].cur, !.ret = TRUE, !.new = id, !.pc = "split"])  BY <1>15, <2>1, <2>3
  <2>5. id \in Nat  BY <1>0, <2>1, NodeFacts DEF NewId
  <2>6. /\ th' \in [Threads -> Registers] /\ \A u \in Threads \ {t} : th'[u] = th[u]
        /\ Adds("split", t, c, id)
    BY <1>0, <1>1, <2>4, <2>5, Adding, Zenon
  <2>7. Enters(t)  BY <1>15, <2>6 DEF Enters
  <2>8. node[c].keys # <<>>
    <3>1. Len(<<>>) = 0  OBVIOUS
    <3>2. leaf_split_at \in Nat /\ leaf_split_at >= 2  BY BLinkTreeAssumption
    <3>3. Len(node[c].keys) # 0  BY <1>3, <1>7, <1>18, <3>2
    <3> QED  BY <3>1, <3>3
  <2> QED  BY <1>2, <1>13, <1>15, <2>1, <2>2, <2>6, <2>7, <2>8, EntrySplits
<1> QED  BY <1>17, <1>18

\* InsertChild adds the entry of a right half to the node above: the kids of
\* the node with it.
Kids(t, i) == IF Work(t).keys = <<>> THEN <<th[t].cur, th[t].new>> ELSE InsertAt(Work(t).kids, i + 1, th[t].new)

\* The entry that InsertChild makes in the parent routes to the right half.
LEMMA ChildEntry ==
  ASSUME NEW low, J(low), NEW t \in Threads, th[t].pc = "insert", NEW c, c = th[t].work, NEW i, i = Place(node[c].keys, th[t].arg),
         NEW keys, keys = InsertAt(node[c].keys, i, th[t].arg), NEW kids, kids = Kids(t, i)
  PROVE  Entry(low, t, c, keys, kids)
<1>0. /\ Types /\ Linked /\ low \in [NodeIds -> Nat] /\ Calls(t) /\ Climbs(low, t) /\ \A n \in NodeIds : NodeOK(low, n)
  BY DEF J
<1>1. PICK k, cur, new, ks, ds : k = th[t].arg /\ cur = th[t].cur /\ new = th[t].new /\ ks = node[c].keys /\ ds = node[c].kids
  OBVIOUS
<1>2. /\ c \in NodeIds /\ ~ node[c].leaf /\ cur \in NodeIds /\ new \in NodeIds /\ ~ Empty(cur) /\ ~ Empty(new)
      /\ low[new] = k /\ k \in content /\ th[t].op = "Insert"
      /\ node[c].sib # nullptr => k <= Last(ks)
      /\ Empty(c) => low[c] = low[cur]
  BY <1>0, <1>1, Zenon DEF Climbs, Calls, Empty
<1>3. k \in Keys /\ k \in Nat
  <2>1. PICK n \in NodeIds : k \in ToSet(node[n].keys)  BY <1>2 DEF content
  <2>2. node[n].keys \in Seq(Keys)  BY <1>0, NodeFacts, Zenon
  <2>3. k \in Keys  BY <2>1, <2>2 DEF ToSet
  <2> QED  BY <2>3, BLinkTreeAssumption, Zenon
<1>4. /\ ks \in Seq(Nat) /\ ks \in Seq(Keys) /\ DOMAIN ks = 1 .. Len(ks) /\ Len(ks) \in Nat
      /\ ds \in Seq(Nat) /\ DOMAIN ds = 1 .. Len(ds) /\ Len(ds) \in Nat
  BY <1>0, <1>1, <1>2, NodeFacts, Zenon
<1>5. i = Place(ks, k) /\ keys = InsertAt(ks, i, k)  BY <1>1
<1>6. i \in 1 .. Len(ks) + 1 /\ \A j \in 1 .. Len(ks) : j < i => ks[j] < k  BY <1>3, <1>4, <1>5, PlaceFacts, Zenon
<1>7. /\ keys \in Seq(Keys) /\ Len(keys) = Len(ks) + 1 /\ ToSet(keys) = ToSet(ks) \cup {k}
      /\ keys[i] = k
      /\ \A j \in 1 .. i - 1 : keys[j] = ks[j]
      /\ \A j \in i + 1 .. Len(ks) + 1 : keys[j] = ks[j - 1]
  <2>1. PICK T : T = Keys  OBVIOUS
  <2>2. ks \in Seq(T) /\ k \in T  BY <1>3, <1>4, <2>1
  <2>3. keys \in Seq(T) /\ Len(keys) = Len(ks) + 1 /\ keys[i] = k  BY <1>5, <1>6, <2>2, Inserted
  <2>4. \A j \in 1 .. i - 1 : keys[j] = ks[j]  BY <1>5, <1>6, <2>2, Inserted
  <2>5. \A j \in i + 1 .. Len(ks) + 1 : keys[j] = ks[j - 1]
    <3>1. \A j \in i + 1 .. Len(ks) + 1 : InsertAt(ks, i, k)[j] = ks[j - 1]  BY <1>3, <1>4, <1>6, InsertedKey, Zenon
    <3> QED  BY <1>5, <3>1, Zenon
  <2>6. ToSet(keys) = ToSet(ks) \cup {k}  BY <1>5, <1>6, <2>2, InsertedSet
  <2> QED  BY <2>1, <2>3, <2>4, <2>5, <2>6, Zenon
<1>8. Ordered(low, c) /\ Continued(low, c) /\ Routes(low, c)  BY <1>0, <1>2, Zenon DEF NodeOK
<1>9. /\ \A a, b \in DOMAIN keys : a < b => keys[a] <= keys[b]
      /\ ks # <<>> /\ k <= Last(ks) => Last(keys) = Last(ks)
  <2>1. \A a, b \in DOMAIN ks : a < b => ks[a] <= ks[b]  BY <1>1, <1>8, Zenon DEF Ordered
  <2>5. LET r == InsertAt(ks, Place(ks, k), k) IN
         /\ \A a, b \in DOMAIN r : a < b => r[a] <= r[b]
         /\ ks # <<>> /\ k <= Last(ks) => Last(r) = Last(ks)
    <3>1. PlaceIsFirst  BY DEF J
    <3> QED  BY <1>3, <1>4, <2>1, <3>1, PlacedInOrder, Zenon
  <2> QED  BY <1>5, <2>5, Zenon
<1>10. node[c].sib # nullptr => ks # <<>> /\ Last(keys) = Last(ks)
  BY <1>1, <1>2, <1>8, <1>9, Zenon DEF Continued
<1>11. \A j \in DOMAIN keys : keys[j] \in content
  <2> TAKE j \in DOMAIN keys
  <2>1. keys[j] \in ToSet(ks) \cup {k}  BY <1>7, Zenon DEF ToSet
  <2>2. \A x \in ToSet(ks) : x \in content  BY <1>1, <1>2, <1>8, Zenon DEF Routes, ToSet
  <2> QED  BY <1>2, <2>1, <2>2, Zenon
<1>12. ASSUME ks = <<>>
       PROVE  /\ kids \in Seq(Nat) /\ (node[c].sib = nullptr => Len(kids) = Len(keys) + 1)
              /\ \A j \in DOMAIN kids : /\ kids[j] \in NodeIds /\ ~ Empty(kids[j]) /\ kids[j] \in {cur, new}
                                        /\ j = 1 => low[kids[j]] <= low[c]
                                        /\ j > 1 => low[kids[j]] <= keys[j - 1]
  <2>1. kids = <<cur, new>>  BY <1>1, <1>12 DEF Kids, Work
  <2>2. DOMAIN kids = 1 .. 2 /\ kids[1] = cur /\ kids[2] = new /\ Len(kids) = 2  BY <2>1
  <2>3. cur \in Nat /\ new \in Nat  BY <1>0, <1>2, NodeFacts
  <2>4. kids \in Seq(Nat)  BY <2>1, <2>3
  <2>5. Len(ks) = 0  BY <1>12
  <2>6. i = 1 /\ Len(keys) = 1
    <3>1. i \in 1 .. Len(ks) + 1 /\ Len(keys) = Len(ks) + 1  BY <1>6, <1>7, Zenon
    <3> QED  BY <2>5, <3>1
  <2>7. keys[1] = k  BY <1>7, <2>6, Zenon
  <2>8. low[cur] = low[c] /\ low[new] = k  BY <1>1, <1>2, <1>12, Zenon DEF Empty
  <2>9. low[c] \in Nat  BY <1>0, <1>2, Zenon
  <2>10. ASSUME NEW j \in DOMAIN kids
         PROVE  /\ kids[j] \in NodeIds /\ ~ Empty(kids[j]) /\ kids[j] \in {cur, new}
                /\ j = 1 => low[kids[j]] <= low[c]
                /\ j > 1 => low[kids[j]] <= keys[j - 1]
    <3>1. CASE j = 1  BY <1>2, <2>2, <2>8, <2>9, <3>1
    <3>2. CASE j = 2
      <4>1. low[kids[j]] <= keys[j - 1]  BY <1>3, <2>2, <2>7, <2>8, <3>2
      <4> QED  BY <1>2, <2>2, <3>2, <4>1
    <3>3. j = 1 \/ j = 2  BY <2>2
    <3> QED  BY <3>1, <3>2, <3>3, Zenon
  <2>11. Len(kids) = Len(keys) + 1
    <3>1. Len(kids) = 2 /\ Len(keys) = 1  BY <2>2, <2>6, Zenon
    <3>2. \A a, b : a = 2 /\ b = 1 => a = b + 1  OBVIOUS
    <3> QED  BY <3>1, <3>2, Zenon
  <2> QED  BY <2>4, <2>10, <2>11, Zenon
<1>13. ASSUME ks # <<>>
       PROVE  /\ kids \in Seq(Nat) /\ (node[c].sib = nullptr => Len(kids) = Len(keys) + 1)
              /\ node[c].sib # nullptr => Len(kids) = Len(keys)
              /\ \A j \in DOMAIN kids : /\ kids[j] \in NodeIds /\ ~ Empty(kids[j])
                                        /\ kids[j] = new \/ \E h \in DOMAIN ds : kids[j] = ds[h]
                                        /\ j = 1 => low[kids[j]] <= low[c]
                                        /\ j > 1 => low[kids[j]] <= keys[j - 1]
  <2>1. PICK L, D : L = Len(ks) /\ D = Len(ds)  BY Zenon
  <2>2. /\ node[c].sib = nullptr => D = L + 1
        /\ node[c].sib # nullptr => D = L
        /\ \A j \in DOMAIN ds : /\ ~ Empty(ds[j])
                                /\ j = 1 => low[ds[j]] <= low[c]
                                /\ j > 1 => low[ds[j]] <= ks[j - 1]
    BY <1>1, <1>2, <1>8, <1>13, <2>1, Zenon DEF Routes
  <2>3. L \in Nat /\ D \in Nat /\ DOMAIN ds = 1 .. D /\ i \in 1 .. L + 1 /\ i \in Nat /\ DOMAIN ks = 1 .. L  BY <1>4, <1>6, <2>1
  <2>4. node[c].sib # nullptr => i <= L
    <3> SUFFICES ASSUME node[c].sib # nullptr, ~ (i <= L) PROVE FALSE  OBVIOUS
    <3>1. L # 0  BY <1>4, <1>13, <2>1, NonEmpty
    <3>2. L \in 1 .. L /\ L < i  BY <2>3, <3>1
    <3>3. ks[L] < k /\ ks[L] \in Nat  BY <1>4, <1>6, <2>1, <3>2
    <3>4. k <= ks[L]  BY <1>2, <2>1 DEF Last
    <3> QED  BY <1>3, <3>3, <3>4
  <2>5. i + 1 \in 1 .. D + 1  BY <2>2, <2>3, <2>4
  <2>6. kids = InsertAt(ds, i + 1, new)  BY <1>1, <1>13 DEF Kids, Work
  <2>7. new \in Nat  BY <1>0, <1>2, NodeFacts
  <2>8. /\ kids \in Seq(Nat) /\ Len(kids) = D + 1 /\ kids[i + 1] = new
        /\ \A j \in 1 .. (i + 1) - 1 : kids[j] = ds[j]
        /\ \A j \in (i + 1) + 1 .. D + 1 : kids[j] = ds[j - 1]
    <3>1. PICK p : p = i + 1  OBVIOUS
    <3>2. p \in 1 .. Len(ds) + 1 /\ ds \in Seq(Nat)  BY <1>4, <2>1, <2>5, <3>1
    <3>3. /\ InsertAt(ds, p, new) \in Seq(Nat) /\ Len(InsertAt(ds, p, new)) = Len(ds) + 1 /\ InsertAt(ds, p, new)[p] = new
          /\ \A j \in 1 .. p - 1 : InsertAt(ds, p, new)[j] = ds[j]
          /\ \A j \in p + 1 .. Len(ds) + 1 : InsertAt(ds, p, new)[j] = ds[j - 1]
      BY <2>7, <3>2, InsertedKey, Zenon
    <3> QED  BY <2>1, <2>6, <3>1, <3>3, Zenon
  <2>9. DOMAIN kids = 1 .. D + 1  BY <2>8
  <2>10. Len(keys) = L + 1  BY <1>7, <2>1, Zenon
  <2>11. \A h \in DOMAIN ds : ds[h] \in NodeIds  BY <1>0, <1>1, <1>2, Zenon DEF Linked
  <2>12. ASSUME NEW j \in DOMAIN kids
         PROVE  /\ kids[j] \in NodeIds /\ ~ Empty(kids[j])
                /\ kids[j] = new \/ \E h \in DOMAIN ds : kids[j] = ds[h]
                /\ j = 1 => low[kids[j]] <= low[c]
                /\ j > 1 => low[kids[j]] <= keys[j - 1]
    <3>0. j \in Nat /\ j >= 1 /\ j <= D + 1  BY <2>3, <2>9
    <3>1. CASE j <= i
      <4>1. j \in 1 .. (i + 1) - 1 /\ j \in 1 .. D  BY <2>3, <2>5, <3>0, <3>1
      <4>2. kids[j] = ds[j] /\ j \in DOMAIN ds  BY <2>3, <2>8, <4>1, Zenon
      <4>3. j > 1 => keys[j - 1] = ks[j - 1]
        <5>1. j > 1 => j - 1 \in 1 .. i - 1  BY <2>3, <3>0, <3>1
        <5> QED  BY <1>7, <5>1, Zenon
      <4> QED  BY <2>2, <2>11, <4>2, <4>3, Zenon
    <3>2. CASE j = i + 1
      <4>0. kids[j] = new  BY <2>8, <3>2, Zenon
      <4>1. j > 1 /\ j # 1 /\ j - 1 = i  BY <2>3, <3>2
      <4>2. low[kids[j]] = k /\ keys[j - 1] = k  BY <1>2, <1>7, <4>0, <4>1, Zenon
      <4>3. low[kids[j]] <= keys[j - 1]  BY <1>3, <4>2
      <4> QED  BY <1>2, <4>0, <4>1, <4>3, Zenon
    <3>3. CASE j > i + 1
      <4>1. j \in (i + 1) + 1 .. D + 1 /\ j - 1 \in 1 .. D /\ j - 1 > 1 /\ j # 1  BY <2>3, <3>0, <3>3
      <4>2. kids[j] = ds[j - 1] /\ j - 1 \in DOMAIN ds  BY <2>3, <2>8, <4>1, Zenon
      <4>3. j - 1 \in i + 1 .. L + 1
        <5>1. D <= L + 1  BY <2>2, <2>3
        <5> QED  BY <2>3, <3>0, <3>3, <5>1
      <4>4. keys[j - 1] = ks[(j - 1) - 1]  BY <1>7, <2>1, <4>3, Zenon
      <4>5. PICK h : h = j - 1  OBVIOUS
      <4>6. h \in DOMAIN ds /\ h > 1 /\ kids[j] = ds[h] /\ keys[h] = ks[h - 1]  BY <4>1, <4>2, <4>4, <4>5, Zenon
      <4>7. ~ Empty(ds[h]) /\ low[ds[h]] <= ks[h - 1] /\ ds[h] \in NodeIds  BY <2>2, <2>11, <4>6
      <4>8. low[kids[j]] <= keys[j - 1]  BY <4>5, <4>6, <4>7, Zenon
      <4> QED  BY <4>1, <4>6, <4>7, <4>8
    <3>4. j <= i \/ j = i + 1 \/ j > i + 1  BY <2>3, <3>0
    <3> QED  BY <3>1, <3>2, <3>3, <3>4, Zenon
  <2>13. (node[c].sib = nullptr => Len(kids) = Len(keys) + 1) /\ (node[c].sib # nullptr => Len(kids) = Len(keys))
    BY <2>2, <2>3, <2>8, <2>10, Zenon
  <2> QED  BY <2>8, <2>12, <2>13, Zenon
<1>14. kids \in Seq(Nat)  BY <1>12, <1>13, Zenon
<1>15. (node[c].sib = nullptr => Len(kids) = Len(keys) + 1) /\ (node[c].sib # nullptr => Len(kids) = Len(keys))
  BY <1>10, <1>12, <1>13, Zenon
<1>16. \A j \in DOMAIN kids : /\ kids[j] \in NodeIds /\ ~ Empty(kids[j])
                              /\ kids[j] \in {th[t].cur, th[t].new} \/ \E h \in DOMAIN node[c].kids : kids[j] = node[c].kids[h]
                              /\ j = 1 => low[kids[j]] <= low[c]
                              /\ j > 1 => low[kids[j]] <= keys[j - 1]
  <2>1. CASE ks = <<>>  BY <1>1, <1>12, <2>1, Zenon
  <2>2. CASE ks # <<>>
    <3> TAKE j \in DOMAIN kids
    <3>1. /\ kids[j] \in NodeIds /\ ~ Empty(kids[j])
          /\ kids[j] = new \/ \E h \in DOMAIN ds : kids[j] = ds[h]
          /\ j = 1 => low[kids[j]] <= low[c]
          /\ j > 1 => low[kids[j]] <= keys[j - 1]
      BY <1>13, <2>2, Zenon
    <3>2. kids[j] \in {th[t].cur, th[t].new} \/ \E h \in DOMAIN node[c].kids : kids[j] = node[c].kids[h]
      BY <1>1, <3>1, Zenon
    <3> QED  BY <3>1, <3>2, Zenon
  <2> QED  BY <2>1, <2>2, Zenon
<1>17. Fills(t, c)  BY DEF Fills
<1>18. Len(keys) = Len(node[c].keys) + 1 /\ (node[c].sib # nullptr => Last(keys) = Last(node[c].keys))
  BY <1>1, <1>7, <1>10, Zenon
<1>19. \A a, b \in DOMAIN keys : a < b => keys[a] <= keys[b]  BY <1>9, Zenon
<1>20. \A j \in DOMAIN kids :
         /\ kids[j] \in NodeIds
         /\ kids[j] \in {th[t].cur, th[t].new} \/ \E h \in DOMAIN node[c].kids : kids[j] = node[c].kids[h]
  BY <1>16, Zenon
<1>21. \A j \in DOMAIN kids : /\ ~ Empty(kids[j])
                              /\ j = 1 => low[kids[j]] <= low[c]
                              /\ j > 1 => low[kids[j]] <= keys[j - 1]
  BY <1>16, Zenon
<1>22. keys \in Seq(Keys) /\ c \in NodeIds /\ ~ node[c].leaf /\ th[t].op = "Insert"  BY <1>2, <1>7, Zenon
<1> QED  BY <1>11, <1>14, <1>15, <1>17, <1>18, <1>19, <1>20, <1>21, <1>22, Zenon DEF Entry

\* InsertChild is such a step.
LEMMA ChildStep ==
  ASSUME NEW low, J(low), NEW t \in Threads, InsertChild(t), UNCHANGED ops
  PROVE  \E c, lw, id : Grows(low, lw, t, c, id) /\ NewContent(t, c) /\ ~ node[c].leaf
<1>0. Types /\ Calls(t) /\ Climbs(low, t) /\ th[t].pc = "insert"  BY DEF J, InsertChild, At
<1>1. PICK c : c = th[t].work  OBVIOUS
<1>2. c \in NodeIds /\ ~ node[c].leaf /\ th[t].op = "Insert" /\ th[t].ret = TRUE
  BY <1>0, <1>1, RegisterFacts, Zenon DEF Climbs, Calls
<1>3. PICK i : i = Place(node[c].keys, th[t].arg)  OBVIOUS
<1>4. PICK keys : keys = InsertAt(node[c].keys, i, th[t].arg)  OBVIOUS
<1>5. PICK kids : kids = Kids(t, i)  OBVIOUS
<1>6. Entry(low, t, c, keys, kids)  BY <1>0, <1>1, <1>3, <1>4, <1>5, ChildEntry, Zenon
<1>7. PICK s : s = InnerInsert(Work(t), th[t].arg, th[t].cur, th[t].new, NewId)  OBVIOUS
<1>8. /\ Store(c, s)
      /\ Reg(t, [th[t] EXCEPT !.cur = th[t].work, !.new = IF Len(s) = 2 THEN NewId ELSE nullptr,
                              !.pc = IF Len(s) = 2 THEN "split" ELSE "unlatch"])
      /\ UNCHANGED <<root, depth, load>>
  BY <1>1, <1>7, Zenon DEF InsertChild
<1>9. s = IF Len(keys) < inner_split_at THEN <<WithKids(c, keys, kids)>> ELSE split(node[c], keys, kids, NewId)
  BY <1>1, <1>3, <1>4, <1>5, <1>7, Zenon DEF InnerInsert, NodeScan, Work, WithKids, Kids
<1>10. CASE Len(keys) < inner_split_at
  <2>1. s = <<Part(c, keys, kids, node[c].sib)>>  BY <1>0, <1>2, <1>9, <1>10, Updated, Zenon
  <2>2. Len(s) = 1  BY <2>1
  <2>3. Reg(t, [th[t] EXCEPT !.cur = th[t].work, !.new = nullptr, !.pc = "unlatch"])  BY <1>8, <2>2
  <2>4. /\ th' \in [Threads -> Registers] /\ \A u \in Threads \ {t} : th'[u] = th[u]
        /\ Adds("unlatch", t, c, nullptr)
    BY <1>1, <1>2, <2>3, Adding, Zenon DEF nullptr
  <2>5. Enters(t)  BY <1>8, <2>4 DEF Enters
  <2> QED  BY <1>2, <1>6, <1>8, <2>1, <2>4, <2>5, EntryFits
<1>11. CASE ~ (Len(keys) < inner_split_at)
  <2>1. PICK id : id = NewId  OBVIOUS
  <2>2. s = split(node[c], keys, kids, id)  BY <1>9, <1>11, <2>1
  <2>3. Len(s) = 2  BY <2>2 DEF split
  <2>4. Reg(t, [th[t] EXCEPT !.cur = th[t].work, !.new = id, !.pc = "split"])  BY <1>8, <2>1, <2>3
  <2>5. id \in Nat  BY <1>0, <2>1, NodeFacts DEF NewId
  <2>6. /\ th' \in [Threads -> Registers] /\ \A u \in Threads \ {t} : th'[u] = th[u]
        /\ Adds("split", t, c, id)
    BY <1>1, <1>2, <2>4, <2>5, Adding, Zenon
  <2>7. Enters(t)  BY <1>8, <2>6 DEF Enters
  <2>8. node[c].keys # <<>>
    <3>1. Len(<<>>) = 0  OBVIOUS
    <3>2. inner_split_at \in Nat /\ inner_split_at >= 2  BY BLinkTreeAssumption
    <3>3. Len(keys) = Len(node[c].keys) + 1 /\ Len(node[c].keys) \in Nat  BY <1>0, <1>2, <1>6, NodeFacts, Zenon DEF Entry
    <3>4. Len(node[c].keys) # 0  BY <1>11, <3>2, <3>3
    <3> QED  BY <3>1, <3>4
  <2> QED  BY <1>2, <1>6, <1>8, <2>1, <2>2, <2>6, <2>7, <2>8, EntrySplits
<1> QED  BY <1>10, <1>11
-----------------------------------------------------------------------------
(* What a scan takes from the leaf it stands on *)

\* A leaf that a key is not beyond, and that starts below the key, is the one
\* leaf that can have it.
LEMMA LeafDecides ==
  ASSUME NEW low, J(low), NEW c \in NodeIds, node[c].leaf, NEW k \in Nat, low[c] < k, ~ beyond(node[c], k)
  PROVE  holds(node[c], k) <=> k \in content
<1>0. Types /\ Disjoint(low) /\ low \in [NodeIds -> Nat] /\ \A n \in NodeIds : NodeOK(low, n)  BY DEF J
<1>1. \A n \in NodeIds : /\ node[n].keys \in Seq(Nat) /\ DOMAIN node[n].keys = 1 .. Len(node[n].keys) /\ Len(node[n].keys) \in Nat
                         /\ Ordered(low, n)
  BY <1>0, NodeFacts DEF NodeOK
<1>2. holds(node[c], k) <=> k \in ToSet(node[c].keys)
  <2>1. PICK s, i : s = node[c].keys /\ i = Place(s, k)  OBVIOUS
  <2>2. s \in Seq(Nat) /\ Len(s) \in Nat /\ DOMAIN s = 1 .. Len(s)  BY <1>1, <2>1
  <2>3. /\ i \in 1 .. Len(s) + 1
        /\ \A j \in 1 .. Len(s) : j < i => s[j] < k
        /\ i <= Len(s) => s[i] >= k
    BY <2>1, <2>2, PlaceFacts, Zenon
  <2>4. \A a, b \in DOMAIN s : a < b => s[a] < s[b]  BY <1>1, <2>1 DEF Ordered
  <2>5. ASSUME i <= Len(s), s[i] = k PROVE k \in ToSet(s)  BY <2>2, <2>3, <2>5 DEF ToSet
  <2>6. ASSUME NEW j \in DOMAIN s, s[j] = k PROVE i <= Len(s) /\ s[i] = k
    <3>1. j \in Nat /\ j \in 1 .. Len(s) /\ i \in Nat  BY <2>2, <2>3
    <3>2. ~ (j < i)  BY <2>3, <2>6, <3>1
    <3>3. i <= j /\ i <= Len(s)  BY <2>2, <3>1, <3>2
    <3>4. i \in DOMAIN s /\ s[i] \in Nat  BY <2>2, <2>3, <3>3
    <3>5. ~ (i < j)  BY <2>3, <2>4, <2>6, <3>3, <3>4
    <3> QED  BY <2>6, <3>1, <3>3, <3>5
  <2>7. k \in ToSet(s) => \E j \in DOMAIN s : s[j] = k  BY DEF ToSet
  <2>8. holds(node[c], k) <=> i <= Len(s) /\ s[i] = k  BY <2>1 DEF holds, NodeScan
  <2> QED  BY <2>1, <2>5, <2>6, <2>7, <2>8
<1>3. ASSUME NEW n \in NodeIds, node[n].leaf, n # c, k \in ToSet(node[n].keys) PROVE FALSE
  <2>1. PICK j \in DOMAIN node[n].keys : node[n].keys[j] = k  BY <1>3 DEF ToSet
  <2>2. low[n] < k  BY <1>1, <1>3, <2>1 DEF Ordered
  <2>3. low[n] \in Nat /\ low[c] \in Nat  BY <1>0
  <2>4. CASE LeftOf(low, n, c)
    <3>1. node[n].sib # nullptr /\ Last(node[n].keys) <= low[c]  BY <2>4 DEF LeftOf
    <3>2. PICK l : l = Len(node[n].keys)  BY Zenon
    <3>3. l \in DOMAIN node[n].keys /\ j <= l /\ j \in Nat /\ l \in Nat  BY <1>1, <2>1, <3>2
    <3>4. j < l => k < node[n].keys[l]  BY <1>1, <1>3, <2>1, <3>3 DEF Ordered
    <3>5. k <= node[n].keys[l] /\ node[n].keys[l] \in Nat
      <4>1. node[n].keys[l] \in Nat  BY <1>1, <3>3
      <4>2. CASE j < l  BY <3>4, <4>1, <4>2
      <4>3. CASE j = l  BY <2>1, <4>1, <4>3
      <4> QED  BY <3>3, <4>1, <4>2, <4>3
    <3>6. Last(node[n].keys) = node[n].keys[l]  BY <3>2 DEF Last
    <3> QED  BY <2>3, <3>1, <3>5, <3>6
  <2>5. CASE LeftOf(low, c, n)
    <3>1. node[c].sib # nullptr /\ Last(node[c].keys) <= low[n]  BY <2>5 DEF LeftOf
    <3>2. ~ (Last(node[c].keys) < k)  BY <3>1 DEF beyond
    <3>3. Last(node[c].keys) \in Nat
      <4>1. node[c].keys # <<>>  BY <1>0, <3>1 DEF NodeOK, Continued
      <4> QED  BY <1>0, <4>1, NodeFacts, BLinkTreeAssumption, Zenon
    <3> QED  BY <2>2, <2>3, <3>1, <3>2, <3>3
  <2> QED  BY <1>0, <1>3, <2>4, <2>5 DEF Disjoint
<1>4. k \in content <=> k \in ToSet(node[c].keys)
  <2>1. k \in content <=> \E n \in NodeIds : node[n].leaf /\ k \in ToSet(node[n].keys)  BY DEF content
  <2> QED  BY <1>3, <2>1
<1> QED  BY <1>2, <1>4

\* A sequence with a piece of another one behind it.
LEMMA Spliced ==
  ASSUME NEW p \in Seq(Nat), NEW s \in Seq(Nat), NEW a \in Nat \ {0}, NEW b \in Int, b <= Len(s),
         NEW q, q = p \o SubSeq(s, a, b), NEW m, m = IF a <= b THEN b - a + 1 ELSE 0
  PROVE  /\ q \in Seq(Nat) /\ m \in Nat /\ Len(q) = Len(p) + m /\ DOMAIN q = 1 .. Len(p) + m
         /\ \A i \in 1 .. Len(p) : q[i] = p[i]
         /\ \A i \in 1 .. m : q[Len(p) + i] = s[a + i - 1] /\ a + i - 1 \in 1 .. Len(s)
<1>1. Len(s) \in Nat /\ Len(p) \in Nat /\ \A i \in 1 .. Len(s) : s[i] \in Nat  OBVIOUS
<1>2. \A i \in a .. b : s[i] \in Nat  BY <1>1
<1>3. m \in Nat /\ (a <= b => m = b - a + 1) /\ (~ (a <= b) => m = 0)  OBVIOUS
<1>4. PICK r : r = SubSeq(s, a, b)  BY Zenon
<1>5. /\ r \in Seq(Nat) /\ Len(r) = (IF a <= b THEN b - a + 1 ELSE 0)
      /\ \A i \in 1 .. b - a + 1 : r[i] = s[a + i - 1]
  BY <1>2, <1>4, Sliced
<1>6. Len(r) = m  BY <1>3, <1>5
<1>7. ASSUME NEW i \in 1 .. m PROVE r[i] = s[a + i - 1] /\ a + i - 1 \in 1 .. Len(s)
  <2>1. a <= b /\ i \in 1 .. b - a + 1  BY <1>3
  <2> QED  BY <1>1, <1>5, <2>1
<1>8. q = p \o r  BY <1>4
<1>9. /\ q \in Seq(Nat) /\ Len(q) = Len(p) + Len(r)
      /\ \A i \in 1 .. Len(p) + Len(r) : q[i] = IF i <= Len(p) THEN p[i] ELSE r[i - Len(p)]
  <2>1. PICK T : T = Nat  BY Zenon
  <2>2. p \in Seq(T) /\ r \in Seq(T)  BY <1>5, <2>1
  <2>3. p \o r \in Seq(T) /\ Len(p \o r) = Len(p) + Len(r)  BY <2>2, Joined
  <2>4. \A i \in 1 .. Len(p) + Len(r) : (p \o r)[i] = IF i <= Len(p) THEN p[i] ELSE r[i - Len(p)]
    BY <2>2, Joined
  <2> QED  BY <1>8, <2>1, <2>3, <2>4, Zenon
<1>10. \A i \in 1 .. Len(p) : q[i] = p[i]  BY <1>1, <1>3, <1>6, <1>9
<1>11. ASSUME NEW i \in 1 .. m PROVE q[Len(p) + i] = r[i]
  <2>1. Len(p) + i \in 1 .. Len(p) + m /\ ~ (Len(p) + i <= Len(p)) /\ (Len(p) + i) - Len(p) = i  BY <1>1, <1>3
  <2> QED  BY <1>6, <1>9, <2>1, Zenon
<1> QED  BY <1>3, <1>6, <1>7, <1>9, <1>10, <1>11

\* A sequence without repetitions, in order.
Increasing(s) == \A i, j \in DOMAIN s : i < j => s[i] < s[j]
\* A piece of s goes behind p, and s is above p.
Piece(p, s, a, b, q) ==
  /\ p \in Seq(Nat) /\ s \in Seq(Nat) /\ a \in Nat \ {0} /\ b \in Int /\ b <= Len(s)
  /\ q = p \o SubSeq(s, a, b)
  /\ Increasing(p) /\ Increasing(s) /\ \A i \in DOMAIN p, j \in 1 .. Len(s) : p[i] < s[j]
\* k is in the piece or was there before.
IsIn(k, p, s, a, b) == k \in ToSet(p) \/ \E j \in 1 .. Len(s) : a <= j /\ j <= b /\ s[j] = k
\* What the whole has, and that it is in order.
LEMMA SplicedInOrder ==
  ASSUME NEW p, NEW s, NEW a, NEW b, NEW q, Piece(p, s, a, b, q)
  PROVE  Increasing(q) /\ \A k : k \in ToSet(q) <=> IsIn(k, p, s, a, b)
<1>0. /\ p \in Seq(Nat) /\ s \in Seq(Nat) /\ a \in Nat \ {0} /\ b \in Int /\ b <= Len(s)
      /\ q = p \o SubSeq(s, a, b)
      /\ Increasing(p) /\ Increasing(s) /\ \A i \in DOMAIN p, j \in 1 .. Len(s) : p[i] < s[j]
  BY DEF Piece
<1>1. PICK m : m = IF a <= b THEN b - a + 1 ELSE 0  OBVIOUS
<1>2. PICK l : l = Len(p)  BY Zenon
<1>3. /\ q \in Seq(Nat) /\ m \in Nat /\ DOMAIN q = 1 .. l + m
      /\ \A i \in 1 .. l : q[i] = p[i]
      /\ \A i \in 1 .. m : q[l + i] = s[a + i - 1] /\ a + i - 1 \in 1 .. Len(s)
  <2>1. q \in Seq(Nat) /\ m \in Nat /\ DOMAIN q = 1 .. Len(p) + m  BY <1>0, <1>1, Spliced
  <2>2. \A i \in 1 .. Len(p) : q[i] = p[i]  BY <1>0, <1>1, Spliced
  <2>3. \A i \in 1 .. m : q[Len(p) + i] = s[a + i - 1] /\ a + i - 1 \in 1 .. Len(s)  BY <1>0, <1>1, Spliced
  <2> QED  BY <1>0, <1>2, <2>1, <2>2, <2>3, Zenon
<1>4. l \in Nat /\ DOMAIN p = 1 .. l /\ Len(s) \in Nat /\ DOMAIN s = 1 .. Len(s)  BY <1>0, <1>2
<1>5. \A i \in 1 .. l + m : i <= l \/ i - l \in 1 .. m  BY <1>0, <1>3, <1>4
<1>6. ASSUME NEW i \in 1 .. l + m, i > l PROVE q[i] = s[a + (i - l) - 1] /\ a + (i - l) - 1 \in 1 .. Len(s)
  <2>1. i - l \in 1 .. m /\ l + (i - l) = i  BY <1>0, <1>3, <1>4, <1>6
  <2> QED  BY <1>0, <1>3, <2>1, Zenon
<1>7. ASSUME NEW i \in DOMAIN q, NEW j \in DOMAIN q, i < j PROVE q[i] < q[j]
  <2>0. i \in 1 .. l + m /\ j \in 1 .. l + m /\ i \in Nat /\ j \in Nat  BY <1>0, <1>3, <1>4
  <2>1. CASE j <= l
    <3>1. i \in 1 .. l /\ j \in 1 .. l  BY <1>0, <1>4, <1>7, <2>0, <2>1
    <3> QED  BY <1>0, <1>3, <1>4, <1>7, <3>1 DEF Increasing
  <2>2. CASE i <= l /\ j > l
    <3>1. i \in 1 .. l  BY <1>0, <1>4, <2>0, <2>2
    <3> QED  BY <1>0, <1>3, <1>4, <1>6, <2>0, <2>2, <3>1, Zenon
  <2>3. CASE i > l
    <3>1. j > l /\ a + (i - l) - 1 < a + (j - l) - 1  BY <1>0, <1>4, <1>7, <2>0, <2>3
    <3> QED  BY <1>0, <1>4, <1>6, <2>0, <2>3, <3>1, Zenon DEF Increasing
  <2>4. j <= l \/ (i <= l /\ j > l) \/ i > l  BY <1>0, <1>4, <2>0
  <2> QED  BY <1>0, <2>1, <2>2, <2>3, <2>4, Zenon
<1>8. ASSUME NEW k, k \in ToSet(q) PROVE k \in ToSet(p) \/ \E j \in 1 .. Len(s) : a <= j /\ j <= b /\ s[j] = k
  <2>1. PICK i \in 1 .. l + m : q[i] = k  BY <1>0, <1>3, <1>8, Zenon DEF ToSet
  <2>2. CASE i <= l
    <3>1. i \in 1 .. l  BY <1>0, <1>4, <2>2
    <3> QED  BY <1>0, <1>3, <1>4, <2>1, <3>1, Zenon DEF ToSet
  <2>3. CASE i > l
    <3>1. s[a + (i - l) - 1] = k /\ a + (i - l) - 1 \in 1 .. Len(s)  BY <1>0, <1>6, <2>1, <2>3, Zenon
    <3>2. a <= a + (i - l) - 1 /\ a + (i - l) - 1 <= b
      <4>1. i - l \in 1 .. m  BY <1>0, <1>3, <1>4, <2>3
      <4>2. a <= b /\ m = b - a + 1  BY <1>0, <1>1, <4>1
      <4> QED  BY <1>0, <1>4, <4>1, <4>2
    <3> QED  BY <1>0, <3>1, <3>2
  <2> QED  BY <1>0, <1>4, <2>2, <2>3
<1>9. ASSUME NEW k, k \in ToSet(p) PROVE k \in ToSet(q)
  <2>1. PICK i \in 1 .. l : p[i] = k  BY <1>0, <1>4, <1>9 DEF ToSet
  <2>2. i \in 1 .. l + m  BY <1>0, <1>3, <1>4
  <2> QED  BY <1>0, <1>3, <2>1, <2>2, Zenon DEF ToSet
<1>10. ASSUME NEW k, NEW j \in 1 .. Len(s), a <= j, j <= b, s[j] = k PROVE k \in ToSet(q)
  <2>1. a <= b /\ m = b - a + 1  BY <1>0, <1>1, <1>4, <1>10
  <2>2. j - a + 1 \in 1 .. m /\ a + (j - a + 1) - 1 = j  BY <1>0, <1>4, <1>10, <2>1
  <2>3. q[l + (j - a + 1)] = k  BY <1>0, <1>3, <1>10, <2>2, Zenon
  <2>4. l + (j - a + 1) \in 1 .. l + m  BY <1>0, <1>3, <1>4, <2>2
  <2> QED  BY <1>0, <1>3, <2>3, <2>4, Zenon DEF ToSet
<1> QED  BY <1>7, <1>8, <1>9, <1>10 DEF Increasing, IsIn

\* The leaf that a scan holds last.
Here(t) == Last(th[t].stack)
\* Key k belongs into leaf n.
InRange(low, n, k) == low[n] < k /\ ~ beyond(node[n], k)
\* The scan has exactly the keys of the tree from its first key up to hi, and
\* hi is not beyond the leaf it stands on.
Has(t, hi) == /\ \A k \in Nat : k \in ToSet(th[t].pairs) <=> k \in content /\ th[t].key <= k /\ k <= hi
              /\ \A k \in Nat : th[t].key <= k /\ k <= hi => ~ beyond(node[Here(t)], k)
\* The leaves that the scan holds cover everything from its first key to where
\* it stands.
Covers(low, t) == \A k \in Nat : th[t].key <= k /\ ~ beyond(node[Here(t)], k) =>
                    \E i \in DOMAIN th[t].stack : InRange(low, th[t].stack[i], k)
\* The scan has all up to hi and wants more.
Wants(t, hi) == /\ Has(t, hi)
                /\ th[t].op = "ScanFixed" => Len(th[t].pairs) < th[t].arg
                /\ th[t].op = "ScanRange" => hi < th[t].arg
\* The scan has what it was asked for.
Ended(t, hi) ==
  /\ Has(t, hi)
  /\ th[t].op = "ScanRange" => hi = th[t].arg - 1
  /\ th[t].op = "ScanFixed" =>
       \/ Len(th[t].pairs) = th[t].arg
       \/ /\ Len(th[t].pairs) < th[t].arg /\ node[Here(t)].sib = nullptr
          /\ \A k \in content : th[t].key <= k => k <= hi
\* A scan on its first leaf.
Started(low, t) == low[Here(t)] < th[t].key /\ th[t].key <= Last(node[Here(t)].keys) /\ th[t].pairs = <<>>
\* A scan that has let go of no leaf.
Gathers(t) == th[t].pc \in {"scan", "scan_next"} \/ (th[t].pc = "release" /\ Here(t) = th[t].cur)
\* The invariant of a scan, by where it is.
Gathered(low, t) ==
  /\ th[t].pc \in {"idle", "descend", "leaf", "unlatch_left"} => th[t].pairs = <<>>
  /\ Gathers(t) => node[Here(t)].keys # <<>> /\ Covers(low, t) /\ Increasing(th[t].pairs)
  /\ th[t].pc = "scan" /\ Len(th[t].stack) = 1 => Started(low, t)
  /\ th[t].pc = "scan" /\ Len(th[t].stack) # 1 => th[t].key <= low[Here(t)] /\ Wants(t, low[Here(t)])
  /\ th[t].pc = "scan_next" => /\ node[Here(t)].sib = th[t].cur /\ th[t].key <= low[th[t].cur]
                               /\ Wants(t, low[th[t].cur])
  /\ th[t].pc = "release" => \A i \in 1 .. Len(th[t].stack) - 1 : th[t].stack[i] # th[t].cur
  /\ th[t].pc = "release" /\ Here(t) = th[t].cur => \E hi \in Int : Ended(t, hi)
\* Where a scan holds leaves.
ScanLabels == {"scan", "scan_next", "release"}
\* A scan stands on a leaf that it holds.
LEMMA HereFacts ==
  ASSUME NEW low, J(low), NEW t \in Threads, th[t].pc \in ScanLabels
  PROVE  /\ Len(th[t].stack) \in Nat \ {0} /\ Len(th[t].stack) \in DOMAIN th[t].stack /\ Here(t) = th[t].stack[Len(th[t].stack)]
         /\ Here(t) \in NodeIds /\ node[Here(t)].leaf /\ low[Here(t)] \in Nat
         /\ \A i \in DOMAIN th[t].stack : th[t].stack[i] \in NodeIds /\ node[th[t].stack[i]].leaf /\ Reads(t, th[t].stack[i])
         /\ th[t].pc = "scan" => th[t].cur = Here(t)
         /\ th[t].pc = "scan_next" => th[t].cur \in NodeIds /\ low[th[t].cur] \in Nat
<1>0. Types /\ Linked /\ Scanning(low, t) /\ low \in [NodeIds -> Nat]  BY DEF J
<1>1. th[t].stack \in Seq(Nat) /\ DOMAIN th[t].stack = 1 .. Len(th[t].stack)  BY <1>0, RegisterFacts
<1>2. th[t].stack # <<>>  BY <1>0 DEF Scanning, ScanLabels
<1>3. Len(th[t].stack) \in Nat \ {0} /\ Here(t) = th[t].stack[Len(th[t].stack)]
  BY <1>1, <1>2, FrontLast, Zenon DEF Here
<1>4. Len(th[t].stack) \in DOMAIN th[t].stack  BY <1>1, <1>3
<1>5. \A i \in DOMAIN th[t].stack : th[t].stack[i] \in NodeIds /\ node[th[t].stack[i]].leaf /\ Reads(t, th[t].stack[i])
  BY <1>0, Zenon DEF Linked, Named, Scanning, Reads, ScanLabels
<1>6. Here(t) \in NodeIds /\ node[Here(t)].leaf  BY <1>3, <1>4, <1>5
<1>7. low[Here(t)] \in Nat  BY <1>0, <1>6
<1>8. th[t].pc = "scan" => th[t].cur = Here(t)  BY <1>0 DEF Scanning, Here
<1>9. th[t].pc = "scan_next" => th[t].cur \in NodeIds /\ low[th[t].cur] \in Nat  BY <1>0 DEF Scanning
<1> QED  BY <1>3, <1>4, <1>5, <1>6, <1>7, <1>8, <1>9

\* No key is in the range of two leaves.
LEMMA RangesApart ==
  ASSUME NEW low, J(low), NEW m \in NodeIds, NEW n \in NodeIds, node[m].leaf, node[n].leaf,
         NEW k \in Nat, InRange(low, m, k), InRange(low, n, k)
  PROVE  m = n
<1> SUFFICES ASSUME m # n PROVE FALSE  OBVIOUS
<1>0. Types /\ Disjoint(low) /\ low \in [NodeIds -> Nat] /\ \A x \in NodeIds : NodeOK(low, x)  BY DEF J
<1>1. \A x \in NodeIds : node[x].sib # nullptr => Last(node[x].keys) \in Nat
  <2> SUFFICES ASSUME NEW x \in NodeIds, node[x].sib # nullptr PROVE Last(node[x].keys) \in Nat  OBVIOUS
  <2>1. node[x].keys # <<>>  BY <1>0 DEF NodeOK, Continued
  <2> QED  BY <2>1, LastIsThere
<1>2. LeftOf(low, m, n) \/ LeftOf(low, n, m)  BY <1>0 DEF Disjoint
<1>3. low[m] \in Nat /\ low[n] \in Nat  BY <1>0
<1> QED  BY <1>1, <1>2, <1>3 DEF LeftOf, InRange, beyond

\* What the other threads leave alone: the registers of the scan, the leaves
\* it holds, and the keys in their ranges.
Kept(low, t) ==
  /\ th'[t] = th[t]
  /\ th[t].pc \in ScanLabels =>
       /\ content \subseteq content' /\ content' \subseteq Nat
       /\ \A i \in DOMAIN th[t].stack :
            /\ node'[th[t].stack[i]].keys = node[th[t].stack[i]].keys
            /\ node'[th[t].stack[i]].sib = node[th[t].stack[i]].sib
            /\ \A k \in Nat : InRange(low, th[t].stack[i], k) /\ k \in content' => k \in content
\* The keys in the tree are numbers.
LEMMA ContentKeys ==
  ASSUME Types
  PROVE  content \subseteq Nat
<1>1. \A n \in NodeIds : node[n].keys \in Seq(Nat) /\ DOMAIN node[n].keys = 1 .. Len(node[n].keys)  BY NodeFacts
<1>2. \A n \in NodeIds : ToSet(node[n].keys) \subseteq Nat  BY <1>1 DEF ToSet
<1> QED  BY <1>2 DEF content

\* So a scan is not disturbed by others.
LEMMA GatheredKept ==
  ASSUME NEW low, J(low), NEW lw, \A n \in NodeIds : lw[n] = low[n], NEW t \in Threads, Gathered(low, t), Kept(low, t)
  PROVE  Gathered(lw, t)'
<1>0. th'[t] = th[t] /\ Here(t)' = Here(t) /\ (Gathers(t)' <=> Gathers(t))  BY DEF Kept, Here, Gathers
<1>1. CASE th[t].pc \notin ScanLabels
  BY <1>0, <1>1, Zenon DEF Gathered, Gathers, ScanLabels
<1>2. CASE th[t].pc \in ScanLabels
  <2> DEFINE g == th[t]
             c == Here(t)
  <2>1. /\ Len(g.stack) \in DOMAIN g.stack /\ c = g.stack[Len(g.stack)] /\ c \in NodeIds /\ low[c] \in Nat
        /\ \A i \in DOMAIN g.stack : g.stack[i] \in NodeIds
        /\ g.pc = "scan_next" => g.cur \in NodeIds /\ low[g.cur] \in Nat
    BY <1>2, HereFacts
  <2>2. \A i \in DOMAIN g.stack : /\ node'[g.stack[i]].keys = node[g.stack[i]].keys
                                  /\ node'[g.stack[i]].sib = node[g.stack[i]].sib
                                  /\ lw[g.stack[i]] = low[g.stack[i]]
    BY <1>2, <2>1 DEF Kept
  <2>3. \A i \in DOMAIN g.stack, k \in Nat : /\ beyond(node'[g.stack[i]], k) <=> beyond(node[g.stack[i]], k)
                                             /\ InRange(lw, g.stack[i], k)' <=> InRange(low, g.stack[i], k)
    BY <1>0, <2>2, Zenon DEF beyond, InRange
  <2>4. /\ node'[c].keys = node[c].keys /\ node'[c].sib = node[c].sib /\ lw[c] = low[c]
        /\ \A k \in Nat : beyond(node'[c], k) <=> beyond(node[c], k)
    BY <2>1, <2>2, <2>3, Zenon
  <2>5. content \subseteq content' /\ \A i \in DOMAIN g.stack, k \in Nat : InRange(low, g.stack[i], k) /\ k \in content' => k \in content
    BY <1>2 DEF Kept
  <2>6. Covers(low, t) => Covers(lw, t)'
    BY <1>0, <2>3, <2>4, Zenon DEF Covers
  <2>7. ASSUME Covers(low, t), NEW k \in Nat, g.key <= k, ~ beyond(node[c], k) PROVE k \in content' <=> k \in content
    BY <2>5, <2>7 DEF Covers
  <2>8. ASSUME Covers(low, t), NEW hi, Has(t, hi) PROVE Has(t, hi)'
    <3>1. \A k \in Nat : g.key <= k /\ k <= hi => ~ beyond(node[c], k)  BY <2>8 DEF Has
    <3>2. \A k \in Nat : k \in ToSet(g.pairs) <=> k \in content /\ g.key <= k /\ k <= hi  BY <2>8 DEF Has
    <3>3. \A k \in Nat : k \in ToSet(g.pairs) <=> k \in content' /\ g.key <= k /\ k <= hi
      BY <2>7, <2>8, <3>1, <3>2
    <3>4. \A k \in Nat : g.key <= k /\ k <= hi => ~ beyond(node'[c], k)  BY <2>4, <3>1
    <3> HIDE DEF c
    <3> QED  BY <1>0, <3>3, <3>4, Zenon DEF Has, c
  <2>9. ASSUME Covers(low, t), NEW hi, Wants(t, hi) PROVE Wants(t, hi)'
    <3>1. Has(t, hi)'  BY <2>8, <2>9 DEF Wants
    <3> QED  BY <1>0, <2>9, <3>1 DEF Wants
  <2>10. ASSUME Covers(low, t), NEW hi \in Int, Ended(t, hi) PROVE Ended(t, hi)'
    <3>1. Has(t, hi)'  BY <2>8, <2>10 DEF Ended
    <3>2. ASSUME node[c].sib = nullptr, \A k \in content : g.key <= k => k <= hi, NEW k \in content', g.key <= k PROVE k <= hi
      <4>1. k \in Nat  BY <1>2, <3>2 DEF Kept
      <4>2. ~ beyond(node[c], k)  BY <3>2 DEF beyond
      <4> QED  BY <2>7, <2>10, <3>2, <4>1, <4>2
    <3> QED  BY <1>0, <2>4, <2>10, <3>1, <3>2 DEF Ended
  <2>11. (g.pc = "scan" /\ Len(g.stack) = 1 => Started(low, t)) => (g.pc = "scan" /\ Len(g.stack) = 1 => Started(lw, t)')
    BY <1>0, <2>4, Zenon DEF Started
  <2>12. Gathers(t) => node'[c].keys # <<>> /\ Covers(lw, t)' /\ Increasing(g.pairs)
    BY <2>4, <2>6 DEF Gathered
  <2>13. g.pc = "scan" /\ Len(g.stack) # 1 => g.key <= lw[c] /\ Wants(t, lw[Here(t)])'
    <3> HAVE g.pc = "scan" /\ Len(g.stack) # 1
    <3>1. PICK v : v = low[c]  OBVIOUS
    <3>2. g.key <= v /\ Wants(t, v) /\ Covers(low, t)  BY <3>1 DEF Gathered, Gathers
    <3>3. Wants(t, v)'  BY <2>9, <3>2
    <3>4. v = lw[Here(t)']  BY <1>0, <2>4, <3>1
    <3> QED  BY <2>4, <3>1, <3>2, <3>3, <3>4, Zenon DEF Wants, Has
  <2>14. g.pc = "scan_next" => node'[c].sib = g.cur /\ g.key <= lw[g.cur] /\ Wants(t, lw[th[t].cur])'
    <3> HAVE g.pc = "scan_next"
    <3>1. PICK v : v = low[g.cur]  OBVIOUS
    <3>2. node[c].sib = g.cur /\ g.key <= v /\ Wants(t, v) /\ Covers(low, t)  BY <3>1 DEF Gathered, Gathers
    <3>3. Wants(t, v)'  BY <2>9, <3>2
    <3>4. v = lw[th'[t].cur] /\ v = lw[g.cur]  BY <1>0, <2>1, <3>1
    <3> QED  BY <2>4, <3>2, <3>3, <3>4, Zenon DEF Wants, Has
  <2>15. g.pc = "release" /\ c = g.cur => \E hi \in Int : Ended(t, hi)'
    BY <2>10 DEF Gathered, Gathers
  <2> QED  BY <1>0, <1>2, <2>11, <2>12, <2>13, <2>14, <2>15, Zenon DEF Gathered, ScanLabels
<1> QED  BY <1>1, <1>2

\* s is the keys of the leaf, of which the scan takes those from a to b.
Taking(low, t, s, a, b) ==
  /\ s = Cur(t).keys /\ a = start(t) /\ b = stop(t)
  /\ s \in Seq(Nat) /\ Len(s) \in Nat \ {0} /\ Last(s) = s[Len(s)] /\ Increasing(s)
  /\ \A j \in 1 .. Len(s) : s[j] \in Nat /\ low[Here(t)] < s[j]
  /\ a \in 1 .. Len(s) /\ b \in Int /\ b <= Len(s)
  /\ \A j \in 1 .. Len(s) : s[j] >= th[t].key <=> j >= a
  /\ th[t].pairs \in Seq(Nat) /\ Increasing(th[t].pairs)
  /\ \A i \in DOMAIN th[t].pairs : th[t].pairs[i] <= low[Here(t)]
  /\ th[t].pairs = <<>> \/ Wants(t, low[Here(t)])
\* In a scan step the sequence and its ends are of this kind.
LEMMA Takes ==
  ASSUME NEW low, J(low), NEW t \in Threads, At(t, "scan"), Gathered(low, t)
  PROVE  \E s, a, b : Taking(low, t, s, a, b)
<1> DEFINE c == Here(t)
           g == th[t]
<1>0. Types /\ low \in [NodeIds -> Nat] /\ g.pc = "scan" /\ g.pc \in ScanLabels  BY DEF J, At, ScanLabels
<1>1. c \in NodeIds /\ node[c].leaf /\ low[c] \in Nat /\ g.cur = c /\ Len(g.stack) \in Nat \ {0}  BY <1>0, HereFacts
<1>2. PICK s, a, b : s = Cur(t).keys /\ a = start(t) /\ b = stop(t)  OBVIOUS
<1>3. s \in Seq(Nat) /\ DOMAIN s = 1 .. Len(s) /\ s = node[c].keys  BY <1>0, <1>1, <1>2, NodeFacts DEF Cur
<1>4. s # <<>>  BY <1>0, <1>3 DEF Gathered, Gathers
<1>5. Len(s) \in Nat \ {0} /\ Last(s) = s[Len(s)]  BY <1>3, <1>4, FrontLast, Zenon
<1>6. Increasing(s) /\ \A j \in 1 .. Len(s) : s[j] \in Nat /\ low[c] < s[j]
  <2>1. Ordered(low, c)  BY <1>1 DEF J, NodeOK
  <2> QED  BY <1>1, <1>3, <2>1 DEF Ordered, Increasing
<1>7. b \in Int /\ b <= Len(s)  BY <1>0, <1>2, Taken DEF At
<1>8. g.key \in Nat /\ g.pairs \in Seq(Keys)  BY <1>0, RegisterFacts
<1>9. g.pairs \in Seq(Nat)  BY <1>8, BLinkTreeAssumption, Widened, Zenon
<1>10. Increasing(g.pairs)  BY <1>0 DEF Gathered, Gathers
<1> HIDE DEF c, g
<1>11. CASE Len(g.stack) = 1
  <2>1. low[c] < g.key /\ g.key <= Last(s) /\ g.pairs = <<>>  BY <1>0, <1>3, <1>11 DEF Gathered, Started, c, g
  <2>2. a = Place(s, g.key)  BY <1>2, <1>11 DEF start, NodeScan, g
  <2>3. /\ a \in 1 .. Len(s) + 1 /\ (a <= Len(s) => s[a] >= g.key)
        /\ \A i \in 1 .. Len(s) : i < a => s[i] < g.key
    BY <1>3, <1>8, <2>2, PlaceFacts, Zenon
  <2>4. a <= Len(s)
    <3> SUFFICES ASSUME ~ (a <= Len(s)) PROVE FALSE  OBVIOUS
    <3>1. Len(s) \in 1 .. Len(s) /\ Len(s) < a  BY <1>5, <2>3
    <3> QED  BY <1>5, <1>6, <1>8, <2>1, <2>3, <3>1
  <2>5. a \in 1 .. Len(s)  BY <1>5, <2>3, <2>4
  <2>6. ASSUME NEW j \in 1 .. Len(s) PROVE s[j] >= g.key <=> j >= a
    <3>1. j < a => s[j] < g.key  BY <2>3
    <3>2. a < j => s[a] < s[j]  BY <1>3, <1>6, <2>5, Zenon DEF Increasing
    <3>3. s[a] \in Nat /\ s[j] \in Nat /\ s[a] >= g.key  BY <1>6, <2>3, <2>4, <2>5
    <3>4. CASE j < a  BY <1>8, <2>5, <3>1, <3>3, <3>4
    <3>5. CASE j = a  BY <2>5, <3>3, <3>5
    <3>6. CASE a < j  BY <1>8, <2>5, <3>2, <3>3, <3>6
    <3> QED  BY <2>5, <3>4, <3>5, <3>6
  <2>7. \A i \in DOMAIN g.pairs : g.pairs[i] <= low[c]  BY <2>1
  <2> QED  BY <1>2, <1>3, <1>5, <1>6, <1>7, <1>9, <1>10, <2>1, <2>5, <2>6, <2>7, Zenon DEF Taking, g, c
<1>12. CASE Len(g.stack) # 1
  <2>1. g.key <= low[c] /\ Wants(t, low[c])  BY <1>0, <1>12 DEF Gathered, c, g
  <2>2. a = 1  BY <1>2, <1>12 DEF start, g
  <2>3. a \in 1 .. Len(s)  BY <1>5, <2>2
  <2>4. \A j \in 1 .. Len(s) : s[j] >= g.key <=> j >= a  BY <1>1, <1>6, <1>8, <2>1, <2>2
  <2>5. ASSUME NEW i \in DOMAIN g.pairs PROVE g.pairs[i] <= low[c]
    <3>1. g.pairs[i] \in Nat /\ g.pairs[i] \in ToSet(g.pairs)  BY <1>9 DEF ToSet
    <3> QED  BY <2>1, <3>1 DEF Wants, Has, g
  <2> QED  BY <1>2, <1>3, <1>5, <1>6, <1>7, <1>9, <1>10, <2>1, <2>3, <2>4, <2>5, Zenon DEF Taking, g, c
<1> QED  BY <1>11, <1>12

\* Taking everything up to hi from the leaf, the scan has everything up to hi.
LEMMA TakesUpTo ==
  ASSUME NEW low, J(low), NEW t \in Threads, At(t, "scan"), Gathered(low, t),
         NEW s, NEW a, NEW b, Taking(low, t, s, a, b), NEW hi \in Int,
         th[t].pairs = <<>> \/ low[Here(t)] <= hi,
         \A j \in a .. Len(s) : j <= b <=> s[j] <= hi,
         \A k \in Nat : th[t].key <= k /\ k <= hi => ~ beyond(node[Here(t)], k)
  PROVE  \A k \in Nat : k \in ToSet(taken(t)) <=> k \in content /\ th[t].key <= k /\ k <= hi
<1> DEFINE c == Here(t)
           g == th[t]
<1>0. Types /\ g.pc = "scan" /\ g.pc \in ScanLabels  BY DEF J, At, ScanLabels
<1>1. c \in NodeIds /\ node[c].leaf /\ low[c] \in Nat /\ g.cur = c  BY <1>0, HereFacts
<1>2. /\ s = node[c].keys /\ a = start(t) /\ b = stop(t)
      /\ s \in Seq(Nat) /\ Len(s) \in Nat \ {0} /\ Increasing(s)
      /\ \A j \in 1 .. Len(s) : s[j] \in Nat /\ low[c] < s[j]
      /\ a \in 1 .. Len(s) /\ b \in Int /\ b <= Len(s)
      /\ \A j \in 1 .. Len(s) : s[j] >= g.key <=> j >= a
      /\ g.pairs \in Seq(Nat) /\ Increasing(g.pairs)
      /\ \A i \in DOMAIN g.pairs : g.pairs[i] <= low[c]
  BY <1>1, Zenon DEF Taking, Cur
<1>3. g.pairs = <<>> \/ Has(t, low[c])  BY DEF Taking, Wants
<1>4. g.key \in Nat  BY <1>0, RegisterFacts
<1>5. taken(t) = g.pairs \o SubSeq(s, a, b)  BY <1>1, <1>2, Zenon DEF taken, Cur
<1>6. \A i \in DOMAIN g.pairs, j \in 1 .. Len(s) : g.pairs[i] < s[j]
  <2> TAKE i \in DOMAIN g.pairs, j \in 1 .. Len(s)
  <2>1. g.pairs[i] \in Nat  BY <1>2
  <2>2. g.pairs[i] <= low[c] /\ low[c] < s[j] /\ s[j] \in Nat  BY <1>2, Zenon
  <2> HIDE DEF c, g
  <2> QED  BY <1>1, <2>1, <2>2
<1>7. \A k : k \in ToSet(taken(t)) <=> k \in ToSet(g.pairs) \/ \E j \in 1 .. Len(s) : a <= j /\ j <= b /\ s[j] = k
  <2>1. PICK q : q = taken(t)  OBVIOUS
  <2>2. PICK p : p = g.pairs  OBVIOUS
  <2>3. a \in Nat \ {0}  BY <1>2
  <2>4. p \in Seq(Nat) /\ Increasing(p) /\ \A i \in DOMAIN p, j \in 1 .. Len(s) : p[i] < s[j]  BY <1>2, <1>6, <2>2, Zenon
  <2>5. q = p \o SubSeq(s, a, b)  BY <1>5, <2>1, <2>2, Zenon
  <2>6. s \in Seq(Nat) /\ Increasing(s) /\ b \in Int /\ b <= Len(s)  BY <1>2
  <2>7. Piece(p, s, a, b, q)  BY <2>3, <2>4, <2>5, <2>6, Zenon DEF Piece
  <2>8. \A k : k \in ToSet(q) <=> IsIn(k, p, s, a, b)  BY <2>7, SplicedInOrder, Zenon
  <2> QED  BY <2>1, <2>2, <2>8, Zenon DEF IsIn
<1>8. \A j \in 1 .. Len(s) : s[j] \in content
  <2>1. DOMAIN s = 1 .. Len(s)  BY <1>2
  <2> QED  BY <1>1, <1>2, <2>1 DEF content, ToSet
<1> HIDE DEF c, g
<1> TAKE k \in Nat
<1>9. ASSUME k \in ToSet(g.pairs) PROVE k \in content /\ g.key <= k /\ k <= hi
  <2>1. g.pairs # <<>>  BY <1>9 DEF ToSet
  <2>2. k \in content /\ g.key <= k /\ k <= low[c]  BY <1>3, <1>9, <2>1 DEF Has, c, g
  <2> QED  BY <1>1, <2>1, <2>2 DEF c, g
<1>10. ASSUME NEW j \in 1 .. Len(s), a <= j, j <= b, s[j] = k PROVE k \in content /\ g.key <= k /\ k <= hi
  <2>1. j \in a .. Len(s) /\ j >= a  BY <1>2, <1>10
  <2>2. s[j] <= hi  BY <1>10, <2>1
  <2>3. s[j] >= g.key  BY <1>2, <2>1
  <2> QED  BY <1>4, <1>8, <1>10, <2>2, <2>3
<1>11. ASSUME k \in content, g.key <= k, k <= hi
       PROVE  k \in ToSet(g.pairs) \/ \E j \in 1 .. Len(s) : a <= j /\ j <= b /\ s[j] = k
  <2>1. ~ beyond(node[c], k)  BY <1>11 DEF c, g
  <2>2. CASE low[c] < k
    <3>1. holds(node[c], k)  BY <1>1, <1>11, <2>1, <2>2, LeafDecides
    <3>2. PICK j : j = Place(s, k)  OBVIOUS
    <3>3. j <= Len(s) /\ s[j] = k  BY <1>2, <3>1, <3>2 DEF holds, NodeScan
    <3>4. j \in 1 .. Len(s) + 1  BY <1>2, <3>2, PlaceFacts, Zenon
    <3>5. j \in 1 .. Len(s)  BY <1>2, <3>3, <3>4
    <3>6. j >= a  BY <1>2, <1>4, <1>11, <3>3, <3>5
    <3>7. j \in a .. Len(s)  BY <1>2, <3>5, <3>6
    <3>8. j <= b  BY <1>11, <3>3, <3>7
    <3> QED  BY <1>2, <3>3, <3>5, <3>6, <3>8
  <2>3. CASE ~ (low[c] < k)
    <3>1. k <= low[c]  BY <1>1, <2>3
    <3>2. g.pairs # <<>>
      <4> SUFFICES ASSUME g.pairs = <<>> PROVE FALSE  OBVIOUS
      <4>1. Len(th[t].stack) = 1 \/ Wants(t, low[c])  BY <1>0, Zenon DEF Gathered, c, g
      <4>2. CASE Len(th[t].stack) = 1
        <5>1. low[c] < g.key  BY <1>0, <4>2, Zenon DEF Gathered, Started, c, g
        <5> QED  BY <1>1, <1>4, <1>11, <3>1, <5>1
      <4>3. CASE Wants(t, low[c])
        <5>1. k \in ToSet(g.pairs)  BY <1>11, <3>1, <4>3 DEF Wants, Has, g
        <5> QED  BY <5>1 DEF ToSet
      <4> QED  BY <4>1, <4>2, <4>3
    <3> QED  BY <1>3, <1>11, <3>1, <3>2 DEF Has, g
  <2> QED  BY <2>2, <2>3
<1> QED  BY <1>7, <1>9, <1>10, <1>11 DEF g

\* Where the scan stops in its leaf.
LEMMA Stops ==
  ASSUME NEW low, J(low), NEW t \in Threads, At(t, "scan"), NEW s, NEW a, NEW b, Taking(low, t, s, a, b)
  PROVE  /\ taken(t) \in Seq(Nat) /\ Increasing(taken(t)) /\ th[t].op \in Scans
         /\ th[t].op = "ScanFixed" /\ full(t) => Len(taken(t)) = th[t].arg
         /\ ~ full(t) => b = Len(s) /\ (th[t].op = "ScanFixed" => Len(taken(t)) < th[t].arg)
                                    /\ (th[t].op = "ScanRange" => Last(s) < th[t].arg)
         /\ th[t].op = "ScanRange" => /\ full(t) => b < Len(s)
                                      /\ \A j \in a .. Len(s) : j <= b <=> s[j] <= th[t].arg - 1
<1> DEFINE g == th[t]
<1>0. Types /\ g.pc = "scan" /\ g.pc \in ScanLabels /\ Calls(t)  BY DEF J, At, ScanLabels
<1>1. g.op \in Scans  BY <1>0 DEF Calls
<1>2. /\ s = Cur(t).keys /\ a = start(t) /\ b = stop(t)
      /\ s \in Seq(Nat) /\ Len(s) \in Nat \ {0} /\ Last(s) = s[Len(s)] /\ Increasing(s)
      /\ \A j \in 1 .. Len(s) : s[j] \in Nat
      /\ a \in 1 .. Len(s) /\ b \in Int /\ b <= Len(s)
      /\ g.pairs \in Seq(Nat) /\ Increasing(g.pairs)
      /\ \A i \in DOMAIN g.pairs : g.pairs[i] <= low[Here(t)]
      /\ \A j \in 1 .. Len(s) : low[Here(t)] < s[j]
  BY Zenon DEF Taking
<1>3. g.arg \in Nat /\ low[Here(t)] \in Nat  BY <1>0, RegisterFacts, HereFacts
<1>4. PICK p, q, m : p = g.pairs /\ q = taken(t) /\ m = IF a <= b THEN b - a + 1 ELSE 0  OBVIOUS
<1>5. Piece(p, s, a, b, q)
  <2>1. p \in Seq(Nat) /\ Increasing(p)  BY <1>2, <1>4
  <2>2. s \in Seq(Nat) /\ Increasing(s) /\ b \in Int /\ b <= Len(s) /\ a \in Nat \ {0}  BY <1>2
  <2>3. ASSUME NEW i \in DOMAIN p, NEW j \in 1 .. Len(s) PROVE p[i] < s[j]
    <3>1. p[i] \in Nat  BY <2>1
    <3>2. p[i] <= low[Here(t)] /\ low[Here(t)] < s[j] /\ s[j] \in Nat  BY <1>2, <1>4, Zenon
    <3> QED  BY <1>3, <3>1, <3>2
  <2>4. q = p \o SubSeq(s, a, b)  BY <1>2, <1>4, Zenon DEF taken
  <2> QED  BY <2>1, <2>2, <2>3, <2>4, Zenon DEF Piece
<1>6. Increasing(q)  BY <1>5, SplicedInOrder, Zenon
<1>7. q \in Seq(Nat) /\ Len(q) = Len(p) + m /\ m \in Nat
  <2>1. p \in Seq(Nat) /\ s \in Seq(Nat) /\ a \in Nat \ {0} /\ b \in Int /\ b <= Len(s) /\ q = p \o SubSeq(s, a, b)
    BY <1>5 DEF Piece
  <2> QED  BY <1>4, <2>1, Spliced
<1>8. Len(p) \in Nat /\ (g.op = "ScanFixed" => Len(p) <= g.arg)
  <2>1. p \in Seq(Nat)  BY <1>2, <1>4
  <2>2. Len(p) \in Nat /\ (p = <<>> => Len(p) = 0)  BY <2>1
  <2>3. p = <<>> \/ Wants(t, low[Here(t)])  BY <1>4 DEF Taking
  <2>4. Wants(t, low[Here(t)]) /\ g.op = "ScanFixed" => Len(p) < g.arg  BY <1>4 DEF Wants
  <2> QED  BY <1>3, <2>2, <2>3, <2>4
<1>9. CASE g.op = "ScanFixed"
  <2>1. b = Min({Len(s), a + g.arg - Len(p) - 1})  BY <1>2, <1>4, <1>9, Zenon DEF stop
  <2>2. a + g.arg - Len(p) - 1 \in Int /\ Len(s) \in Int  BY <1>2, <1>3, <1>8
  <2>3. b = IF Len(s) <= a + g.arg - Len(p) - 1 THEN Len(s) ELSE a + g.arg - Len(p) - 1  BY <2>1, <2>2, LeastOfTwo
  <2>4. full(t) <=> Len(q) = g.arg  BY <1>4, <1>9 DEF full
  <2>5. Len(q) # g.arg => b = Len(s) /\ Len(q) < g.arg
    <3>1. PICK x, y, z, w : x = Len(p) /\ y = Len(s) /\ z = g.arg /\ w = Len(q)  BY Zenon
    <3>2. /\ x \in Nat /\ y \in Nat /\ z \in Nat /\ x <= z /\ a \in 1 .. y /\ b \in Int /\ m = (IF a <= b THEN b - a + 1 ELSE 0)
          /\ w = x + m /\ b = IF y <= a + z - x - 1 THEN y ELSE a + z - x - 1
      BY <1>2, <1>3, <1>4, <1>7, <1>8, <1>9, <2>3, <3>1, Zenon
    <3>3. w # z => b = y /\ w < z  BY <3>2
    <3> QED  BY <3>1, <3>3
  <2> QED  BY <1>1, <1>4, <1>6, <1>7, <1>9, <2>4, <2>5
<1>10. CASE g.op = "ScanRange"
  <2>1. PICK n : n = Place(s, g.arg)  OBVIOUS
  <2>2. /\ n \in 1 .. Len(s) + 1 /\ (n <= Len(s) => s[n] >= g.arg)
        /\ \A i \in 1 .. Len(s) : i < n => s[i] < g.arg
    BY <1>2, <1>3, <2>1, PlaceFacts, Zenon
  <2>3. b = n - 1  BY <1>2, <1>10, <2>1 DEF stop, NodeScan
  <2>4. full(t) <=> b < Len(s)  BY <1>2, <1>10 DEF full
  <2>5. ASSUME NEW j \in a .. Len(s) PROVE j <= b <=> s[j] <= g.arg - 1
    <3>1. j \in 1 .. Len(s) /\ s[j] \in Nat  BY <1>2
    <3>2. CASE j < n  BY <1>2, <1>3, <2>2, <2>3, <3>1, <3>2
    <3>3. CASE ~ (j < n)
      <4>1. n \in 1 .. Len(s) /\ s[n] \in Nat /\ s[n] >= g.arg  BY <1>2, <2>2, <3>1, <3>3
      <4>2. n < j => s[n] < s[j]
        <5>1. DOMAIN s = 1 .. Len(s)  BY <1>2
        <5> QED  BY <1>2, <3>1, <4>1, <5>1, Zenon DEF Increasing
      <4>3. n <= j  BY <2>2, <3>1, <3>3
      <4>4. s[j] >= g.arg  BY <1>3, <3>1, <4>1, <4>2, <4>3
      <4> QED  BY <1>3, <2>2, <2>3, <3>1, <3>3, <4>4
    <3> QED  BY <3>2, <3>3
  <2>6. ~ full(t) => b = Len(s) /\ Last(s) < g.arg
    <3> HAVE ~ full(t)
    <3>1. b = Len(s)  BY <1>2, <2>4
    <3>2. Len(s) \in 1 .. Len(s) /\ Len(s) < n  BY <1>2, <2>2, <2>3, <3>1
    <3> QED  BY <1>2, <2>2, <3>1, <3>2
  <2>7. g.op # "ScanFixed"  BY <1>10
  <2> QED  BY <1>1, <1>4, <1>6, <1>7, <1>10, <2>4, <2>5, <2>6, <2>7, Zenon
<1> QED  BY <1>1, <1>9, <1>10 DEF Scans

\* With what it takes from its leaf, the scan has all up to hi.
Got(t, hi) == /\ \A k \in Nat : k \in ToSet(taken(t)) <=> k \in content /\ th[t].key <= k /\ k <= hi
              /\ \A k \in Nat : th[t].key <= k /\ k <= hi => ~ beyond(node[Here(t)], k)
\* Up to some hi in the leaf, or below it.
LEMMA GetsTo ==
  ASSUME NEW low, J(low), NEW t \in Threads, At(t, "scan"), Gathered(low, t), NEW s, NEW a, NEW b, Taking(low, t, s, a, b),
         b = Len(s) \/ th[t].op = "ScanFixed"
  PROVE  \E hi \in Int : Got(t, hi) /\ (b = Len(s) => hi = Last(s))
<1> DEFINE c == Here(t)
           g == th[t]
<1>0. Types /\ g.pc = "scan" /\ g.pc \in ScanLabels  BY DEF J, At, ScanLabels
<1>1. c \in NodeIds /\ low[c] \in Nat /\ g.cur = c  BY <1>0, HereFacts, Zenon
<1>2. /\ s = node[c].keys /\ s \in Seq(Nat) /\ Len(s) \in Nat \ {0} /\ Last(s) = s[Len(s)] /\ Increasing(s)
      /\ \A j \in 1 .. Len(s) : s[j] \in Nat /\ low[c] < s[j]
      /\ a \in 1 .. Len(s) /\ b \in Int /\ b <= Len(s)
  BY <1>1, Zenon DEF Taking, Cur
<1>3. DOMAIN s = 1 .. Len(s)  BY <1>2
<1>4. PICK hi : hi = IF a <= b THEN s[b] ELSE low[c]  OBVIOUS
<1>5. Len(s) \in 1 .. Len(s) /\ s[Len(s)] \in Nat /\ low[c] < s[Len(s)]  BY <1>2
<1>6. hi \in Int /\ low[c] <= hi /\ hi <= Last(s) /\ (\A j \in a .. Len(s) : j <= b <=> s[j] <= hi)
  <2> HIDE DEF c, g
  <2>1. CASE a <= b
    <3>1. b \in 1 .. Len(s) /\ hi = s[b] /\ s[b] \in Nat /\ low[c] < s[b]  BY <1>2, <1>4, <2>1
    <3>2. \A j \in 1 .. Len(s) : /\ j < b => s[j] < s[b]
                                 /\ b < j => s[b] < s[j]
      BY <1>2, <1>3, <3>1, Zenon DEF Increasing
    <3>3. \A j \in a .. Len(s) : j <= b <=> s[j] <= s[b]
      <4> TAKE j \in a .. Len(s)
      <4>1. j \in 1 .. Len(s) /\ s[j] \in Nat  BY <1>2
      <4>2. CASE j < b  BY <3>1, <3>2, <4>1, <4>2
      <4>3. CASE j = b  BY <3>1, <4>3
      <4>4. CASE b < j  BY <3>1, <3>2, <4>1, <4>4
      <4> QED  BY <3>1, <4>1, <4>2, <4>3, <4>4
    <3>4. s[b] <= s[Len(s)]
      <4>1. CASE b < Len(s)  BY <1>5, <3>1, <3>2, <4>1
      <4>2. CASE b = Len(s)  BY <3>1, <4>2
      <4> QED  BY <1>2, <4>1, <4>2
    <3> QED  BY <1>1, <1>2, <3>1, <3>3, <3>4 DEF c
  <2>2. CASE ~ (a <= b)
    <3>1. hi = low[c]  BY <1>4, <2>2
    <3>2. \A j \in a .. Len(s) : ~ (j <= b) /\ ~ (s[j] <= low[c])  BY <1>1, <1>2, <2>2 DEF c
    <3> QED  BY <1>1, <1>2, <1>5, <3>1, <3>2 DEF c
  <2> QED  BY <2>1, <2>2
<1>7. \A k \in Nat : g.key <= k /\ k <= hi => ~ beyond(node[c], k)
  <2> SUFFICES ASSUME NEW k \in Nat, k <= hi, Last(node[c].keys) < k PROVE FALSE  BY DEF beyond
  <2> HIDE DEF c, g
  <2> QED  BY <1>2, <1>5, <1>6
<1>8. \A k \in Nat : k \in ToSet(taken(t)) <=> k \in content /\ g.key <= k /\ k <= hi
  <2>1. g.pairs = <<>> \/ low[c] <= hi  BY <1>6
  <2> QED  BY <1>6, <1>7, <2>1, TakesUpTo
<1>9. b = Len(s) => hi = Last(s)  BY <1>2, <1>4
<1> QED  BY <1>6, <1>7, <1>8, <1>9 DEF Got

\* A scan that takes no more leaf has what it was asked for.
LEMMA GetsAll ==
  ASSUME NEW low, J(low), NEW t \in Threads, At(t, "scan"), Gathered(low, t), full(t) \/ Cur(t).sib = nullptr
  PROVE  \E hi \in Int :
           /\ Got(t, hi)
           /\ th[t].op = "ScanRange" => hi = th[t].arg - 1
           /\ th[t].op = "ScanFixed" =>
                \/ Len(taken(t)) = th[t].arg
                \/ /\ Len(taken(t)) < th[t].arg /\ node[Here(t)].sib = nullptr
                   /\ \A k \in content : th[t].key <= k => k <= hi
<1> DEFINE c == Here(t)
           g == th[t]
<1>0. Types /\ g.pc = "scan" /\ g.pc \in ScanLabels  BY Zenon DEF J, At, ScanLabels
<1>1. c \in NodeIds /\ node[c].leaf /\ low[c] \in Nat /\ g.cur = c /\ g.arg \in Nat /\ g.key \in Nat
  BY <1>0, HereFacts, RegisterFacts
<1>2. PICK s, a, b : Taking(low, t, s, a, b)  BY Takes
<1>3. /\ s = node[c].keys /\ s \in Seq(Nat) /\ Len(s) \in Nat \ {0} /\ Last(s) = s[Len(s)] /\ Increasing(s)
      /\ \A j \in 1 .. Len(s) : s[j] \in Nat /\ low[c] < s[j]
      /\ a \in 1 .. Len(s) /\ b \in Int /\ b <= Len(s)
      /\ g.pairs = <<>> \/ Wants(t, low[c])
  BY <1>1, <1>2, Zenon DEF Taking, Cur
<1>4. /\ g.op \in Scans
      /\ g.op = "ScanFixed" /\ full(t) => Len(taken(t)) = g.arg
      /\ ~ full(t) => b = Len(s) /\ (g.op = "ScanFixed" => Len(taken(t)) < g.arg) /\ (g.op = "ScanRange" => Last(s) < g.arg)
      /\ g.op = "ScanRange" => /\ full(t) => b < Len(s)
                               /\ \A j \in a .. Len(s) : j <= b <=> s[j] <= g.arg - 1
  BY <1>2, Stops, Zenon
<1>5. CASE g.op = "ScanFixed"
  <2>1. PICK hi \in Int : Got(t, hi) /\ (b = Len(s) => hi = Last(s))  BY <1>2, <1>5, GetsTo
  <2>2. CASE full(t)  BY <1>4, <1>5, <2>1, <2>2
  <2>3. CASE ~ full(t)
    <3>1. Len(taken(t)) < g.arg /\ node[c].sib = nullptr /\ hi = s[Len(s)]  BY <1>1, <1>3, <1>4, <1>5, <2>1, <2>3 DEF Cur
    <3>2. ASSUME NEW k \in content, g.key <= k PROVE k <= hi
      <4>1. k \in Nat /\ Len(s) \in 1 .. Len(s)  BY <1>0, <1>3, ContentKeys
      <4> SUFFICES ASSUME ~ (k <= s[Len(s)]) PROVE FALSE  BY <3>1
      <4>2. low[c] < k
        <5>1. s[Len(s)] \in Nat /\ low[c] < s[Len(s)]  BY <1>3, <4>1
        <5> HIDE DEF c, g
        <5> QED  BY <1>1, <4>1, <5>1
      <4>3. ~ beyond(node[c], k)  BY <3>1 DEF beyond
      <4>4. holds(node[c], k)  BY <1>1, <4>1, <4>2, <4>3, LeafDecides
      <4>5. PICK j : j = Place(s, k)  OBVIOUS
      <4>6. j <= Len(s) /\ s[j] = k  BY <1>3, <4>4, <4>5 DEF holds, NodeScan
      <4>7. j \in 1 .. Len(s) + 1  BY <1>3, <4>1, <4>5, PlaceFacts
      <4>8. j \in DOMAIN s /\ Len(s) \in DOMAIN s /\ (j < Len(s) \/ j = Len(s))  BY <1>3, <4>6, <4>7
      <4>9. j < Len(s) => s[j] < s[Len(s)]  BY <1>3, <4>8, Zenon DEF Increasing
      <4>10. s[Len(s)] \in Nat  BY <1>3, <4>1
      <4> QED  BY <4>1, <4>6, <4>8, <4>9, <4>10
    <3>3. g.op # "ScanRange"  BY <1>5
    <3> QED  BY <2>1, <3>1, <3>2, <3>3, Zenon
  <2> QED  BY <2>2, <2>3
<1>6. CASE g.op = "ScanRange"
  <2>1. PICK hi \in Int : hi = g.arg - 1  BY <1>1
  <2>2. g.pairs = <<>> \/ low[c] <= hi
    <3>1. Wants(t, low[c]) => low[c] < g.arg  BY <1>6 DEF Wants
    <3> HIDE DEF c, g
    <3> QED  BY <1>1, <1>3, <2>1, <3>1
  <2>3. \A j \in a .. Len(s) : j <= b <=> s[j] <= hi  BY <1>4, <1>6, <2>1, Zenon
  <2>4. ASSUME NEW k \in Nat, k <= hi, beyond(node[c], k) PROVE FALSE
    <3>1. node[c].sib # nullptr /\ s[Len(s)] < k  BY <1>3, <2>4 DEF beyond
    <3>2. full(t)  BY <1>1, <3>1 DEF Cur
    <3>3. b < Len(s) /\ Len(s) \in a .. Len(s) /\ s[Len(s)] \in Nat  BY <1>3, <1>4, <1>6, <3>2
    <3>4. ~ (s[Len(s)] <= hi)
      <4>1. Len(s) <= b <=> s[Len(s)] <= hi  BY <2>3, <3>3
      <4> QED  BY <1>3, <3>3, <4>1
    <3> QED  BY <2>1, <2>4, <3>1, <3>3, <3>4
  <2>5. \A k \in Nat : g.key <= k /\ k <= hi => ~ beyond(node[c], k)  BY <2>4, Zenon
  <2>6. \A k \in Nat : k \in ToSet(taken(t)) <=> k \in content /\ g.key <= k /\ k <= hi
    BY <1>2, <2>2, <2>3, <2>5, TakesUpTo
  <2>7. Got(t, hi)  BY <2>5, <2>6, Zenon DEF Got
  <2>8. g.op # "ScanFixed"  BY <1>6
  <2> QED  BY <2>1, <2>7, <2>8, Zenon
<1> QED  BY <1>4, <1>5, <1>6 DEF Scans

\* Nothing that a scan says of the tree changes with its own steps.
LEMMA SameTree ==
  ASSUME node' = node
  PROVE  NodeIds' = NodeIds /\ content' = content
<1>1. NodeIds' = NodeIds  BY DEF NodeIds
<1> QED  BY <1>1, Zenon DEF content

=============================================================================
