------------------------------ MODULE MCFBTree ------------------------------
(* Small trees for module FBTree: leaves and inner nodes of two entries.    *)
(* The loads insert even keys in order, so that odd keys go in between.     *)
EXTENDS FBTree

AllKeys == 1 .. 24
U(k) == <<"upsert", k>>
R(k) == <<"remove", k>>
L(k) == <<"lookup", k>>
Upserts(n) == [i \in 1 .. n |-> U(2 * i)]

\* A root over {2, 4}, {6, 8} and {10, 12}: the next split grows the tree.
Grow == [load |-> Upserts(6),
         ops |-> <<<<{U(3), U(11), U(13)}, {U(5)}>>, <<{U(1), U(7)}>>, <<{L(8), L(4), L(12), U(12)}>>>>]

\* Three levels over {2}, {6} and {10}, {14}: removes bring it down to a leaf.
LoadSparse == Upserts(7) \o <<R(4), R(8), R(12)>>
Shrink == [load |-> LoadSparse,
           ops |-> <<<<{R(2), U(3)}, {U(8), R(10)}>>, <<{R(6)}, {R(10), R(14)}>>, <<{L(14), L(6), R(2)}>>>>]

\* Three levels over {2}, {6} and {12, 14}, the right inner node without anchors.
Edge == [load |-> LoadSparse \o <<R(10), U(12)>>,
         ops |-> <<<<{R(2)}>>, <<{U(10), R(12)}, {R(14)}>>, <<{R(6), U(16), L(12)}>>>>]

\* Three levels over {2, 4}, {6, 8} and {10, 12}, {14, 16}, {18, 20}: leaves of
\* different parents are merged, and the last child moves to the right parent.
Bound == [load |-> Upserts(10),
          ops |-> <<<<{R(6)}, {R(8)}>>, <<{R(10), R(14), U(9)}, {R(12), R(16)}>>, <<{L(10), U(11), R(2)}>>>>]

\* A root over {4} and {6}.  One thread removes, which leaves one leaf, and
\* grows a new root while the other is on its way to upsert.
LoadStale == <<U(2), U(4), U(6), R(2)>>
Stale == [load |-> LoadStale, ops |-> <<<<{R(4)}, {U(7)}, {U(8)}>>, <<{U(5)}>>, <<>>>>]
StaleLeaf == [load |-> LoadStale, ops |-> <<<<{R(4)}, {U(7)}, {U(8)}, {U(10)}>>, <<{U(9)}>>, <<>>>>]

TreeSetups == {Grow, Shrink, Edge, Bound}
StaleSetups == {Stale}
StaleLeafSetups == {StaleLeaf}
=============================================================================
