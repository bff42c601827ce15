------------------------------ MODULE MCIndexes ------------------------------
(***************************************************************************)
(* Small trees and workloads for three indexes, side by side: BLinkTree    *)
(* under its own names, BTreeOLC as O! and ARTOLC as A!.  Each behaviour   *)
(* is about one of them, named by index, which has the variables to        *)
(* itself; those it does not know keep their initial values.               *)
(***************************************************************************)
EXTENDS BLinkTree

VARIABLE index

allvars == <<index, vars>>
-----------------------------------------------------------------------------
(* The B-link-tree: nodes are split at their third entry. *)

I(k) == <<"Insert", k, 0>>
S(k) == <<"Search", k, 0>>
U(k) == <<"Update", k, 0>>
Fixed(k, n) == <<"ScanFixed", k, n>>
Below(k, m) == <<"ScanRange", k, m>>
Inserts(n) == [i \in 1 .. n |-> I(2 * i)]
BLinkKeys == 1 .. 12

\* A full leaf as the root: threads that started below it climb two new roots.
BLinkRoot == [load |-> Inserts(2),
              ops |-> <<<<{I(1), I(3)}, {I(5)}>>, <<{I(6)}, {I(7), I(8)}>>,
                        <<{I(9), S(4), Fixed(2, 3), Fixed(8, 1)}>>>>]

\* A full root over full leaves.
BLinkDeep == [load |-> Inserts(6),
              ops |-> <<<<{I(11), I(3)}, {I(12)}>>, <<{I(5), I(12)}, {I(7)}>>,
                        <<{S(10), U(12), Fixed(4, 3), Below(3, 9)}>>>>]
BLinkSetups == {BLinkRoot, BLinkDeep}
-----------------------------------------------------------------------------
(* The B+-tree with optimistic locks: leaves of two keys, inner nodes of     *)
(* four, which are split eagerly.                                            *)

insert(k) == <<"insert", k, 0>>
lookup(k) == <<"lookup", k, 0>>
scan(k, n) == <<"scan", k, n>>

\* A full leaf as the root, for two writers and a reader, and for two threads
\* with a choice of work.
OLCRoot3 == [load |-> <<2, 4>>, ops |-> <<<<{insert(3)}>>, <<{insert(5)}>>, <<{lookup(4)}>>>>]
OLCRoot2 == [load |-> <<2, 4>>,
             ops |-> <<<<{insert(1), insert(4)}, {lookup(3)}>>, <<{insert(3), lookup(1), scan(2, 2), scan(4, 1)}>>, <<>>>>]

\* A full inner root over leaves of which one is full.
OLCDeep == [load |-> <<1, 2, 3, 4, 5, 6>>,
            ops |-> <<<<{insert(7)}>>, <<{insert(8), insert(3), lookup(7), scan(5, 2)}>>, <<>>>>]

O == INSTANCE BTreeOLC WITH leafEntries <- 2, innerEntries <- 5, Setups <- {OLCRoot3, OLCRoot2, OLCDeep}
-----------------------------------------------------------------------------
(* The radix tree: three node types, keys of four bytes, and one byte of a   *)
(* prefix stored.                                                            *)

i(k) == <<"insert", k>>
l(k) == <<"lookup", k>>
r(k) == <<"remove", k>>
a1 == <<1, 1, 1, 1>>
a2 == <<1, 1, 1, 2>>
a3 == <<1, 1, 1, 3>>
b1 == <<1, 1, 2, 1>>
c1 == <<1, 2, 1, 1>>
d1 == <<2, 1, 1, 1>>

\* A full node under a prefix of which only one byte is stored: it grows, its
\* prefix is split at a stored or at another byte, or its leaves are read.
Prefix == [load |-> <<a1, a2>>,
           ops |-> <<<<{i(b1), i(c1)}>>, <<{i(a3), i(b1), i(c1), l(a1), l(b1), l(c1)}, {l(c1), l(a1)}>>, <<>>>>]

\* A node of two whose other child is a node: its leaf is removed.
Merge == [load |-> <<a1, a2, c1>>,
          ops |-> <<<<{r(c1)}>>, <<{i(a3), i(b1), i(c1), l(a1), l(c1), r(c1)}, {l(a1)}>>, <<>>>>]

\* A node of the second type: it shrinks, and then goes with its last but one leaf.
Shrinks == [load |-> <<a1, a2, a3>>,
            ops |-> <<<<{r(a3)}, {i(d1)}>>, <<{i(a3), l(a3), r(a3), r(a1), l(a1)}, {r(a2), l(a2)}>>, <<>>>>]

\* The same work for three threads.
Prefix3 == [load |-> <<a1, a2>>, ops |-> <<<<{i(c1)}>>, <<{i(b1), i(a3)}>>, <<{l(a1), l(c1)}>>>>]
Merge3 == [load |-> <<a1, a2, c1>>, ops |-> <<<<{r(c1)}>>, <<{i(a3), i(b1)}>>, <<{l(a2), l(c1)}>>>>]

A == INSTANCE ARTOLC
       WITH Keys <- {a1, a2, a3, b1, c1, d1}, KeyLen <- 4, Full <- <<2, 4, 9>>, Underfull <- <<0, 3, 0>>,
            maxStoredPrefixLength <- 1, Setups <- {Prefix, Merge, Shrinks, Prefix3, Merge3}
-----------------------------------------------------------------------------
MCInit == \/ index = "BLinkTree" /\ Init
          \/ index = "BTreeOLC" /\ O!Init /\ latch = <<>> /\ depth = 0
          \/ index = "ARTOLC" /\ A!Init /\ latch = <<>> /\ root = 1 /\ depth = 0

BLinkNext == index = "BLinkTree" /\ Next /\ UNCHANGED index
OLCNext == index = "BTreeOLC" /\ O!Next /\ UNCHANGED <<index, latch, depth>>
ARTNext == index = "ARTOLC" /\ A!Next /\ UNCHANGED <<index, latch, root, depth>>

MCNext == BLinkNext \/ OLCNext \/ ARTNext

MCSpec == MCInit /\ [][MCNext]_allvars
-----------------------------------------------------------------------------
\* BLinkTree: a split finds the parent it has to tell, by its path or by upper_level.
BLinkSplitFindsItsParent == index = "BLinkTree" => TypeOK /\ SplitFindsItsParent

\* BLinkTree: with no operation under way the tree is whole.
BLinkQuietTreeIsWhole == index = "BLinkTree" => QuietTreeIsWhole

\* BTreeOLC and ARTOLC: with no node locked, a search from the root finds
\* exactly the keys that are in the tree.
KeysAreReachable == /\ index = "BTreeOLC" => O!KeysAreReachable
                    /\ index = "ARTOLC" => A!KeysAreReachable

\* ARTOLC: a node that is marked for deletion is out of the tree.
RetiredIsUnlinked == index = "ARTOLC" => A!RetiredIsUnlinked

\* BTreeOLC: a scan returns a run of the tree's keys without a gap.
ScanIsGapless ==
  [][index = "BTreeOLC" =>
       \A t \in Threads : At(t, "read_check") /\ th'[t].pc = "return" /\ th[t].op = "scan" => O!NoGap(t)]_allvars

\* Each index implements the map, in the same sense: every operation takes
\* effect and gets its answer in one step, and nothing else a thread does
\* (splits, growing and shrinking of nodes, restarts) adds or loses a key.
IndexMap == INSTANCE KVMap
              WITH Keys <- BLinkKeys \cup {A!Number(k) : k \in {a1, a2, a3, b1, c1, d1}},
                   content <- CASE index = "BLinkTree" -> content
                                [] index = "BTreeOLC" -> O!content
                                [] index = "ARTOLC" -> {A!Number(k) : k \in A!content},
                   call <- CASE index = "BLinkTree" -> call
                             [] index = "BTreeOLC" -> O!call
                             [] index = "ARTOLC" -> A!call
EveryIndexIsMap == IndexMap!Spec
=============================================================================
