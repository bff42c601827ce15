--------------------------- MODULE BLinkTreeWalks ---------------------------
(***************************************************************************)
(* Proofs about the lock-based B-link-tree, part 2: the invariant holds at *)
(* first, and survives the steps that leave the nodes alone.               *)
(***************************************************************************)
EXTENDS BLinkTreeSteps
-----------------------------------------------------------------------------
(* The first state, and steps that change nothing *)

\* The one empty leaf that the constructor makes.
LEMMA InitInv ==
  ASSUME Init, PlaceIsFirst
  PROVE  IInv
<1>1. /\ node = <<NewNode(TRUE)>> /\ latch = <<Free>> /\ root = 1 /\ depth = 1 /\ th = [t \in Threads |-> Idle]
  BY DEF Init
<1>2. PICK s \in Setups : load = s.load /\ ops = s.ops  BY DEF Init
<1>3. load \in Seq(Operations) /\ \A t \in Threads : ops[t] \in Seq(SUBSET Operations)  BY <1>2, WorkAssumption
<1>4. NewNode(TRUE) \in Nodes /\ Free \in Latches  BY DEF NewNode, Nodes, Free, Latches, nullptr
<1>5. node \in Seq(Nodes) /\ latch \in Seq(Latches) /\ Len(node) = 1 /\ Len(latch) = 1 /\ NodeIds = {1}
  <2>1. PICK v, f : v = NewNode(TRUE) /\ f = Free  BY Zenon
  <2>2. <<v>> \in Seq(Nodes) /\ Len(<<v>>) = 1
    <3>1. v \in Nodes  BY <1>4, <2>1, Zenon
    <3> HIDE DEF Nodes
    <3> QED  BY <3>1
  <2>4. DOMAIN <<v>> = {1}
    <3>1. DOMAIN <<v>> = 1 .. 1  OBVIOUS
    <3> QED  BY <3>1
  <2>3. <<f>> \in Seq(Latches) /\ Len(<<f>>) = 1  BY <1>4, <2>1
  <2> QED  BY <1>1, <2>1, <2>2, <2>3, <2>4, Zenon DEF NodeIds
<1>6. /\ node[1].leaf = TRUE /\ node[1].keys = <<>> /\ node[1].kids = <<>> /\ node[1].sib = nullptr /\ node[1].upper = nullptr
      /\ latch[1] = Free
  BY <1>1 DEF NewNode
<1>7. Idle \in Registers  BY DEF Idle, Registers, Labels, nullptr, Scans
<1>8. Types
  <2>1. th \in [Threads -> Registers]
    <3>1. PICK g : g = Idle  OBVIOUS
    <3> QED  BY <1>1, <1>7, <3>1
  <2>2. root \in NodeIds /\ depth \in Nat \ {0}  BY <1>1, <1>5
  <2> QED  BY <1>3, <1>5, <2>1, <2>2, Zenon DEF Types
<1>9. Links = {0, 1}  BY <1>5 DEF Links
<1>10. ASSUME NEW t \in Threads
       PROVE  /\ th[t].pc = "idle" /\ th[t].op = "none" /\ th[t].ret = FALSE /\ th[t].path = <<>> /\ th[t].stack = <<>>
              /\ th[t].cur = 0 /\ th[t].work = 0 /\ th[t].new = 0
  BY <1>1 DEF Idle, nullptr
<1>11. DOMAIN <<>> = {}  OBVIOUS
<1>12. Linked
  <2>1. \A n \in NodeIds : /\ node[n].sib \in Links /\ node[n].upper \in Links
                           /\ \A i \in DOMAIN node[n].kids : node[n].kids[i] \in NodeIds
    BY <1>5, <1>6, <1>9, <1>11 DEF nullptr
  <2>2. \A t \in Threads : Named(th[t])  BY <1>9, <1>10, <1>11, Zenon DEF Named
  <2> QED  BY <2>1, <2>2 DEF Linked
<1>13. Latched
  <2>1. \A t \in Threads, n \in NodeIds : ~ Owns(t, n) /\ ~ Reads(t, n)  BY <1>10, Zenon DEF Owns, Reads, Splitting
  <2>2. \A n \in NodeIds : latch[n].excl = nullptr  BY <1>5, <1>6 DEF Free
  <2> QED  BY <2>1, <2>2 DEF Latched
<1>14. PICK low : low = [n \in NodeIds |-> 0]  BY Zenon
<1>15. low \in [NodeIds -> Nat] /\ low[1] = 0  BY <1>5, <1>14
<1>16. Disjoint(low)  BY <1>5 DEF Disjoint
<1>17. NodeOK(low, 1)
  <2>1. Ordered(low, 1)  BY <1>6, <1>11 DEF Ordered
  <2>2. Continued(low, 1) /\ Routes(low, 1)  BY <1>6 DEF Continued, Routes
  <2> QED  BY <1>6, <2>1, <2>2 DEF NodeOK
<1>18. Roots(low)
  <2>1. low[root] = 0 /\ ~ Empty(root)  BY <1>1, <1>6, <1>15, Zenon DEF Empty
  <2>2. \A t \in Threads : th[t].pc # "latch_upper" /\ ~ Creates(t)  BY <1>10, Zenon DEF Creates
  <2>3. \A n \in NodeIds : node[n].upper = nullptr /\ n = root  BY <1>1, <1>5, <1>6, Zenon
  <2> QED  BY <2>1, <2>2, <2>3 DEF Roots
<1>19. ASSUME NEW t \in Threads PROVE Calls(t) /\ Descends(low, t) /\ Climbs(low, t) /\ Scanning(low, t) /\ Private(t)
  <2>1. Calls(t)  BY <1>10, Zenon DEF Calls, Splitting, Scans
  <2>2. Descends(low, t)  BY <1>10, <1>11, Zenon DEF Descends
  <2>3. Climbs(low, t)  BY <1>10, Zenon DEF Climbs, Splitting
  <2>4. Scanning(low, t)  BY <1>10, <1>11, Zenon DEF Scanning
  <2>5. Private(t)  BY <1>10, Zenon DEF Private, Splitting
  <2> QED  BY <2>1, <2>2, <2>3, <2>4, <2>5
<1> QED  BY <1>5, <1>8, <1>12, <1>13, <1>15, <1>16, <1>17, <1>18, <1>19, Zenon DEF J, IInv

\* A state in which nothing has changed.
LEMMA SameInv ==
  ASSUME NEW low, J(low), UNCHANGED vars
  PROVE  J(low)'
<1>1. /\ node' = node /\ latch' = latch /\ root' = root /\ depth' = depth /\ th' = th /\ load' = load /\ ops' = ops
  BY DEF vars
<1>2. NodeIds' = NodeIds /\ Links' = Links  BY <1>1 DEF NodeIds, Links
<1>3. content' = content  BY <1>1, <1>2, Zenon DEF content
<1>4. \A n : Empty(n)' <=> Empty(n)  BY <1>1, Zenon DEF Empty
<1>5. \A n : Filling(n)' <=> Filling(n)  BY <1>1, Zenon DEF Filling
<1>6. Types'  BY <1>1, <1>2, Zenon DEF J, Types
<1>7. Linked'  BY <1>1, <1>2, Zenon DEF J, Linked, Named
<1>8. Latched'
  <2>1. \A t, n : Owns(t, n)' <=> Owns(t, n)  BY <1>1, ZenonT(30) DEF Owns, Writes, Work
  <2>2. \A t, n : Reads(t, n)' <=> Reads(t, n)  BY <1>1, Zenon DEF Reads, Writes
  <2> QED  BY <1>1, <1>2, <2>1, <2>2, Zenon DEF J, Latched
<1>9. Disjoint(low)'  BY <1>1, <1>2, Zenon DEF J, Disjoint, LeftOf
<1>10. \A n \in NodeIds : NodeOK(low, n)'
  <2> TAKE n \in NodeIds
  <2>1. Ordered(low, n)' /\ Continued(low, n)'  BY <1>1, Zenon DEF J, NodeOK, Ordered, Continued
  <2>2. Routes(low, n)'  BY <1>1, <1>3, Zenon DEF J, NodeOK, Routes, Empty
  <2> QED  BY <1>1, <2>1, <2>2, Zenon DEF J, NodeOK
<1>11. \A t : Creates(t)' <=> Creates(t)  BY <1>1, Zenon DEF Creates
<1>12. Roots(low)'
  <2>0. Roots(low)  BY DEF J
  <2>1. low[root'] = 0 /\ (Empty(root)' => Filling(root)')  BY <1>1, <2>0, Zenon DEF Roots, Empty, Filling
  <2>2. \A t \in Threads : Creates(t)' =>
          /\ Empty(th[t].work)' /\ low[th'[t].work] = low[th'[t].cur] /\ th'[t].work # root'
          /\ node'[th'[t].cur].upper = th'[t].work
          /\ \A u \in Threads \ {t} : th'[u].pc \in {"latch_upper", "find", "unlatch_upper", "insert"} => th'[u].work # th'[t].work
    BY <1>1, <1>11, <2>0, Zenon DEF Roots, Empty
  <2>3. \A t \in Threads : th'[t].pc = "latch_upper" /\ th'[t].cur # root' => (Empty(th[t].work)' => Filling(th[t].work)')
    BY <1>1, <2>0, Zenon DEF Roots, Empty, Filling
  <2>4. ASSUME NEW n \in NodeIds, node'[n].upper # nullptr, Empty(node[n].upper)'
        PROVE  \/ Filling(node[n].upper)'
               \/ \E u \in Threads : Creates(u)' /\ th'[u].work = node'[n].upper /\ n \in {th'[u].cur, th'[u].new}
    <3>1. Empty(node[n].upper)  BY <1>1, <2>4, Zenon DEF Empty
    <3>2. Filling(node[n].upper) \/ \E u \in Threads : Creates(u) /\ th[u].work = node[n].upper /\ n \in {th[u].cur, th[u].new}
      BY <1>1, <2>0, <2>4, <3>1, Zenon DEF Roots
    <3>3. Filling(node[n].upper) => Filling(node[n].upper)'  BY <1>1, Zenon DEF Filling
    <3> QED  BY <1>1, <1>11, <3>2, <3>3, Zenon
  <2>5. \A n \in NodeIds : node'[n].upper = nullptr =>
          n = root' \/ \E u \in Threads : \/ Creates(u)' /\ n = th'[u].work
                                          \/ th'[u].pc = "split" /\ th'[u].cur = root' /\ n = th'[u].new
    <3> TAKE n \in NodeIds
    <3> HAVE node'[n].upper = nullptr
    <3>1. n = root \/ \E u \in Threads : \/ Creates(u) /\ n = th[u].work
                                         \/ th[u].pc = "split" /\ th[u].cur = root /\ n = th[u].new
      BY <1>1, <2>0 DEF Roots
    <3>2. CASE n = root  BY <1>1, <3>2
    <3>3. ASSUME NEW u \in Threads, Creates(u), n = th[u].work PROVE Creates(u)' /\ n = th'[u].work
      BY <1>1, <1>11, <3>3
    <3>4. ASSUME NEW u \in Threads, th[u].pc = "split", th[u].cur = root, n = th[u].new
          PROVE  th'[u].pc = "split" /\ th'[u].cur = root' /\ n = th'[u].new
      BY <1>1, <3>4
    <3> QED  BY <3>1, <3>2, <3>3, <3>4, Zenon
  <2> QED  BY <1>2, <2>1, <2>2, <2>3, <2>4, <2>5, Zenon DEF Roots
<1>13. ASSUME NEW t \in Threads
       PROVE  Calls(t)' /\ Descends(low, t)' /\ Climbs(low, t)' /\ Scanning(low, t)' /\ Private(t)'
  <2>1. Calls(t)'  BY <1>1, Zenon DEF J, Calls
  <2>2. Descends(low, t)'  BY <1>1, <1>2, Zenon DEF J, Descends, Empty, Filling
  <2>3. Climbs(low, t)'  BY <1>1, <1>2, <1>3, Zenon DEF J, Climbs, Empty
  <2>4. Scanning(low, t)'  BY <1>1, <1>2, Zenon DEF J, Scanning
  <2>5. Private(t)'  BY <1>1, <1>2, Zenon DEF J, Private, Uses
  <2> QED  BY <2>1, <2>2, <2>3, <2>4, <2>5
<1>p. PlaceIsFirst'  BY DEF J, PlaceIsFirst
<1> QED  BY <1>2, <1>6, <1>7, <1>8, <1>9, <1>10, <1>12, <1>13, <1>p, Zenon DEF J

-----------------------------------------------------------------------------
(* Steps that leave the nodes alone *)

\* Registers of the right types leave everything well typed.
LEMMA Written ==
  ASSUME Types, Linked, NEW t \in Threads, NEW r \in Registers, Named(r), Reg(t, r), node' = node
  PROVE  th' \in [Threads -> Registers] /\ th'[t] = r /\ Linked'
<1>1. th' \in [Threads -> Registers] /\ th'[t] = r /\ \A u \in Threads \ {t} : th'[u] = th[u]
  BY DEF Reg, Types
<1>2. NodeIds' = NodeIds /\ Links' = Links  BY DEF NodeIds, Links
<1>3. \A u \in Threads : Named(th[u])  BY DEF Linked
<1>4. \A u \in Threads : Named(th'[u])  BY <1>1, <1>3
<1>5. \A u \in Threads : Named(th[u])'  BY <1>4, <1>2 DEF Named
<1> QED  BY <1>1, <1>2, <1>5 DEF Linked

\* A walking step leaves all well typed and the nodes as they are.
LEMMA WalkTypes ==
  ASSUME NEW low, J(low), NEW t \in Threads, Walk(t), UNCHANGED ops
  PROVE  Types' /\ Linked' /\ node' = node
<1> DEFINE g == th[t]
<1>0. Types /\ Linked /\ \A n \in NodeIds : NodeOK(low, n)  BY DEF J
<1>1. g \in Registers /\ Named(g)  BY <1>0, RegisterFacts DEF Linked
<1>2. ASSUME node' = node, depth' = depth, root' \in NodeIds, load' \in Seq(Operations),
             latch' \in Seq(Latches), Len(latch') = Len(latch), NEW r \in Registers, Named(r), Reg(t, r)
      PROVE  Types' /\ Linked' /\ node' = node
  <2>1. th' \in [Threads -> Registers] /\ Linked'  BY <1>0, <1>2, Written
  <2>2. NodeIds' = NodeIds  BY <1>2 DEF NodeIds
  <2> QED  BY <1>0, <1>2, <2>1, <2>2 DEF Types
<1>3. root \in NodeIds /\ load \in Seq(Operations) /\ latch \in Seq(Latches)  BY <1>0 DEF Types
<1>4. \A l \in Labels : [g EXCEPT !.pc = l] \in Registers /\ Named([g EXCEPT !.pc = l])
  BY <1>1, Zenon DEF Registers, Named
<1>5. \A n \in NodeIds : n \in Nat /\ n \in Links  BY <1>0, NodeFacts DEF Links
<1>6. \A l \in Labels, c \in NodeIds :
        [g EXCEPT !.cur = c, !.pc = l] \in Registers /\ Named([g EXCEPT !.cur = c, !.pc = l])
  BY <1>1, <1>5, Zenon DEF Registers, Named
<1>7. \A l \in Labels, w \in NodeIds :
        [g EXCEPT !.work = w, !.pc = l] \in Registers /\ Named([g EXCEPT !.work = w, !.pc = l])
  BY <1>1, <1>5, Zenon DEF Registers, Named
<1>8. {"idle", "descend", "leaf", "unlatch_left", "split", "latch_upper", "find", "unlatch_upper",
       "insert", "unlatch", "scan", "scan_next", "release", "return"} \subseteq Labels
  BY DEF Labels
<1>9. \A n \in NodeIds : node[n].sib # nullptr => node[n].sib \in NodeIds
  BY <1>0, LinksAre DEF Linked
<1>10. CASE Begin(t)
  <2>1. PICK o \in NextOp(t) :
          Reg(t, [g EXCEPT !.pc = "descend", !.op = o[1], !.key = o[2], !.arg = o[3],
                           !.cur = root, !.done = IF Loading THEN 0 ELSE @ + 1])
    BY <1>10, Zenon DEF Begin
  <2>2. o \in Operations  BY <1>0, NextIsOperation
  <2>3. o[1] \in {"Insert", "Update", "Search"} \cup Scans /\ o[2] \in Nat /\ o[3] \in Nat
    BY <2>2, BLinkTreeAssumption, Zenon DEF Operations
  <2> DEFINE d == IF Loading THEN 0 ELSE g.done + 1
             r == [g EXCEPT !.pc = "descend", !.op = o[1], !.key = o[2], !.arg = o[3], !.cur = root, !.done = d]
  <2>4. d \in Nat /\ Reg(t, r)  BY <2>1, <1>0, RegisterFacts
  <2> HIDE DEF d
  <2>5. r \in Registers  BY <1>1, <1>3, <1>5, <1>8, <2>3, <2>4, Zenon DEF Registers
  <2>6. Named(r)  BY <1>1, <1>3, <1>5 DEF Named, Registers
  <2>7. load' \in Seq(Operations)  BY <1>3, <1>10, FirstAndRest DEF Begin, Loading
  <2> QED  BY <1>2, <1>3, <1>10, <2>4, <2>5, <2>6, <2>7 DEF Begin
<1>11. CASE Descend(t)
  <2>0. th[t].cur \in NodeIds  BY <1>11, NextNode, Zenon
  <2>1. \A c \in NodeIds : [g EXCEPT !.cur = c] \in Registers /\ Named([g EXCEPT !.cur = c])
    BY <1>1, <1>5, Zenon DEF Registers, Named
  <2>2. \A c \in NodeIds, s \in Seq(Nat) : (\A i \in DOMAIN s : s[i] \in NodeIds) =>
          [g EXCEPT !.cur = c, !.path = s] \in Registers /\ Named([g EXCEPT !.cur = c, !.path = s])
    BY <1>1, <1>5, Zenon DEF Registers, Named
  <2>3. PathOn(t) \in Seq(Nat) /\ \A i \in DOMAIN PathOn(t) : PathOn(t)[i] \in NodeIds
    <3>1. g.path \in Seq(Nat) /\ g.cur \in Nat /\ \A i \in DOMAIN g.path : g.path[i] \in NodeIds
      BY <1>0, <1>1, RegisterFacts DEF Named
    <3>2. Append(g.path, g.cur) \in Seq(Nat) /\ \A i \in DOMAIN Append(g.path, g.cur) : Append(g.path, g.cur)[i] \in NodeIds
      BY <2>0, <3>1, Added
    <3> QED  BY <3>1, <3>2 DEF PathOn
  <2>4. Right(low, t) => Cur(t).sib \in NodeIds  BY DEF Right
  <2>5. PICK r \in Registers : Named(r) /\ Reg(t, r)
    BY <1>11, NextNode, <2>1, <2>2, <2>3, <2>4, <1>4, <1>8, Zenon
  <2> QED  BY <1>2, <1>3, <1>11, <2>5 DEF Descend
<1>12. CASE LatchLeaf(t)
  <2>1. th[t].cur \in NodeIds  BY <1>12 DEF J, Descends, LatchLeaf, At
  <2>2. latch' \in Seq(Latches) /\ Len(latch') = Len(latch)  BY <1>0, <1>12, <2>1, LatchMoves DEF LatchLeaf
  <2> QED  BY <1>2, <1>3, <1>4, <1>8, <1>12, <2>2 DEF LatchLeaf, Go
<1>13. CASE MoveRight(t) \/ LatchSibling(t)
  <2>1. th[t].cur \in NodeIds /\ Cur(t).sib \in NodeIds
    BY <1>13, <1>9 DEF J, Descends, MoveRight, LatchSibling, At, Cur, beyond
  <2>2. latch' \in Seq(Latches) /\ Len(latch') = Len(latch)
    BY <1>0, <1>13, <2>1, LatchMoves DEF MoveRight, LatchSibling
  <2> QED  BY <1>2, <1>3, <1>6, <1>7, <1>8, <1>13, <2>1, <2>2, Zenon DEF MoveRight, LatchSibling
<1>14. CASE UnlatchLeft(t)
  <2>1. th[t].cur \in NodeIds /\ th[t].work \in NodeIds  BY <1>14 DEF J, Descends, UnlatchLeft, At
  <2>2. latch' \in Seq(Latches) /\ Len(latch') = Len(latch)  BY <1>0, <1>14, <2>1, LatchMoves DEF UnlatchLeft
  <2> QED  BY <1>2, <1>3, <1>6, <1>8, <1>14, <2>1, <2>2, Zenon DEF UnlatchLeft
<1>15. CASE FoundOrNot(t) \/ InsertRefused(t) \/ ScanEmpty(t)
  <2>1. th[t].cur \in NodeIds  BY <1>15 DEF J, Descends, FoundOrNot, InsertRefused, ScanEmpty, At
  <2>2. latch' \in Seq(Latches) /\ Len(latch') = Len(latch)
    BY <1>0, <1>15, <2>1, LatchMoves DEF FoundOrNot, InsertRefused, ScanEmpty
  <2>3. \A b \in BOOLEAN : /\ [g EXCEPT !.ret = b, !.pc = "return"] \in Registers
                            /\ Named([g EXCEPT !.ret = b, !.pc = "return"])
    BY <1>1, <1>8, Zenon DEF Registers, Named
  <2>4. holds(Cur(t), th[t].key) \in BOOLEAN  BY DEF holds
  <2>5. \E r \in Registers : Named(r) /\ Reg(t, r)
    BY <1>4, <1>8, <1>15, <2>3, <2>4, Zenon DEF FoundOrNot, InsertRefused, ScanEmpty, Go
  <2> QED  BY <1>2, <1>3, <1>15, <2>2, <2>5 DEF FoundOrNot, InsertRefused, ScanEmpty
<1>16. CASE PopPath(t)
  <2>1. g.path \in Seq(Nat) /\ g.path # <<>> /\ \A i \in DOMAIN g.path : g.path[i] \in NodeIds
    BY <1>0, <1>1, <1>16, RegisterFacts DEF Named, PopPath
  <2>2. Last(g.path) \in NodeIds /\ Front(g.path) \in Seq(Nat) /\ \A i \in DOMAIN Front(g.path) : Front(g.path)[i] \in NodeIds
    BY <2>1, FrontLast
  <2> DEFINE r == [g EXCEPT !.work = Last(g.path), !.path = Front(g.path), !.pc = "latch_upper"]
  <2>3. r \in Registers  BY <1>1, <1>5, <1>8, <2>2, Zenon DEF Registers
  <2>4. Named(r)  BY <1>1, <1>5, <2>2 DEF Named, Registers
  <2>5. Reg(t, r)  BY <1>16 DEF PopPath
  <2> QED  BY <1>2, <1>3, <1>16, <2>3, <2>4, <2>5 DEF PopPath
<1>17. CASE TrackUpper(t)
  <2>1. th[t].cur \in NodeIds  BY <1>17 DEF J, Climbs, TrackUpper, At, Splitting
  <2>2. Cur(t).upper \in Links /\ Cur(t).upper \in Nat  BY <1>0, <2>1, NodeFacts DEF Linked, Cur
  <2> DEFINE r == [g EXCEPT !.work = Cur(t).upper, !.pc = "latch_upper"]
  <2>3. r \in Registers  BY <1>1, <1>8, <2>2, Zenon DEF Registers
  <2>4. Named(r)  BY <1>1, <2>2 DEF Named, Registers
  <2> QED  BY <1>2, <1>3, <1>17, <2>3, <2>4 DEF TrackUpper
<1>18. CASE LatchUpper(t)
  <2>1. th[t].work \in NodeIds  BY <1>18 DEF J, Climbs, LatchUpper, At
  <2>2. latch' \in Seq(Latches) /\ Len(latch') = Len(latch)  BY <1>0, <1>18, <2>1, LatchMoves DEF LatchUpper
  <2> QED  BY <1>2, <1>3, <1>4, <1>8, <1>18, <2>1, <2>2 DEF LatchUpper, Go
<1>19. CASE LatchUpperSibling(t) \/ UnlatchUpper(t)
  <2>1. th[t].work \in NodeIds /\ Work(t).sib \in NodeIds
    BY <1>19, <1>9 DEF J, Climbs, LatchUpperSibling, UnlatchUpper, At, Work, beyond
  <2>2. latch' \in Seq(Latches) /\ Len(latch') = Len(latch)
    BY <1>0, <1>19, <2>1, LatchMoves DEF LatchUpperSibling, UnlatchUpper
  <2> QED  BY <1>2, <1>3, <1>4, <1>7, <1>8, <1>19, <2>1, <2>2, Zenon DEF LatchUpperSibling, UnlatchUpper, Go
<1>20. CASE UnlatchChild(t)
  <2>1. th[t].cur \in NodeIds /\ Cur(t).keys # <<>>
    BY <1>20 DEF J, Climbs, UnlatchChild, At, Splitting, Cur
  <2>2. latch' \in Seq(Latches) /\ Len(latch') = Len(latch)  BY <1>0, <1>20, <2>1, LatchMoves DEF UnlatchChild
  <2>3. left_max_key(t) \in Nat  BY <1>0, <2>1, NodeFacts, BLinkTreeAssumption, Zenon DEF left_max_key, Cur
  <2> DEFINE r == [g EXCEPT !.arg = left_max_key(t), !.pc = "insert"]
  <2>4. r \in Registers  BY <1>1, <1>8, <2>3, Zenon DEF Registers
  <2>5. Named(r)  BY <1>1 DEF Named, Registers
  <2> QED  BY <1>2, <1>3, <1>20, <2>2, <2>4, <2>5 DEF UnlatchChild
<1>21. CASE UnlatchLast(t)
  <2>1. th[t].work \in NodeIds  BY <1>21, Zenon DEF J, Climbs, UnlatchLast, At
  <2>2. latch' \in Seq(Latches) /\ Len(latch') = Len(latch)  BY <1>0, <1>21, <2>1, LatchMoves DEF UnlatchLast
  <2> QED  BY <1>2, <1>3, <1>4, <1>8, <1>21, <2>2 DEF UnlatchLast, Go
<1>22. CASE ScanStart(t)
  <2>1. th[t].cur \in NodeIds  BY <1>22 DEF J, Descends, ScanStart, At
  <2>2. <<th[t].cur>> \in Seq(Nat) /\ \A i \in DOMAIN <<th[t].cur>> : <<th[t].cur>>[i] \in NodeIds
    BY <1>5, <2>1
  <2> DEFINE r == [g EXCEPT !.stack = <<th[t].cur>>, !.ret = TRUE, !.pc = "scan"]
  <2>3. r \in Registers  BY <1>1, <1>8, <2>2, Zenon DEF Registers
  <2>4. Named(r)
    <3>1. r.cur = g.cur /\ r.work = g.work /\ r.new = g.new /\ r.path = g.path /\ r.stack = <<th[t].cur>>
      BY <1>1 DEF Registers
    <3> HIDE DEF r
    <3> QED  BY <1>1, <2>2, <3>1 DEF Named
  <2> QED  BY <1>2, <1>3, <1>22, <2>3, <2>4 DEF ScanStart
<1>23. CASE ScanLeaf(t)
  <2>1. th[t].cur \in NodeIds /\ taken(t) \in Seq(Keys)  BY <1>23, Taken DEF ScanLeaf
  <2>2. Cur(t).sib \in NodeIds  BY <1>9, <1>23, <2>1 DEF ScanLeaf, Cur
  <2> DEFINE r == [g EXCEPT !.pairs = taken(t), !.cur = Cur(t).sib, !.pc = "scan_next"]
  <2>3. r \in Registers  BY <1>1, <1>5, <1>8, <2>1, <2>2, Zenon DEF Registers
  <2>4. Named(r)  BY <1>1, <1>5, <2>2 DEF Named, Registers
  <2> QED  BY <1>2, <1>3, <1>23, <2>3, <2>4 DEF ScanLeaf
<1>24. CASE ScanNext(t)
  <2>1. th[t].cur \in NodeIds  BY <1>24 DEF J, Scanning, ScanNext, At
  <2>2. latch' \in Seq(Latches) /\ Len(latch') = Len(latch)  BY <1>0, <1>24, <2>1, LatchMoves DEF ScanNext
  <2>3. g.stack \in Seq(Nat) /\ g.cur \in Nat /\ \A i \in DOMAIN g.stack : g.stack[i] \in NodeIds
    BY <1>0, <1>1, RegisterFacts DEF Named
  <2>4. Append(g.stack, g.cur) \in Seq(Nat) /\ \A i \in DOMAIN Append(g.stack, g.cur) : Append(g.stack, g.cur)[i] \in NodeIds
    BY <2>1, <2>3, Added
  <2> DEFINE r == [g EXCEPT !.stack = Append(g.stack, g.cur), !.pc = "scan"]
  <2>5. r \in Registers  BY <1>1, <1>8, <2>4, Zenon DEF Registers
  <2>6. Named(r)  BY <1>1, <2>4 DEF Named, Registers
  <2>7. Reg(t, r)  BY <1>24 DEF ScanNext
  <2> QED  BY <1>2, <1>3, <1>24, <2>2, <2>5, <2>6, <2>7 DEF ScanNext
<1>25. CASE ScanEnd(t)
  <2>1. taken(t) \in Seq(Keys)  BY <1>25, Taken DEF ScanEnd
  <2> DEFINE r == [g EXCEPT !.pairs = taken(t), !.pc = "release"]
  <2>2. r \in Registers  BY <1>1, <1>8, <2>1, Zenon DEF Registers
  <2>3. Named(r)  BY <1>1 DEF Named, Registers
  <2> QED  BY <1>2, <1>3, <1>25, <2>2, <2>3 DEF ScanEnd
<1>26. CASE Release(t)
  <2>1. g.stack \in Seq(Nat) /\ g.stack # <<>> /\ \A i \in DOMAIN g.stack : g.stack[i] \in NodeIds
    BY <1>0, <1>1, <1>26, RegisterFacts DEF Named, Release, J, Scanning, At
  <2>2. Last(g.stack) \in NodeIds /\ Front(g.stack) \in Seq(Nat) /\ \A i \in DOMAIN Front(g.stack) : Front(g.stack)[i] \in NodeIds
    BY <2>1, FrontLast
  <2>3. latch' \in Seq(Latches) /\ Len(latch') = Len(latch)  BY <1>0, <1>26, <2>2, LatchMoves DEF Release
  <2> DEFINE l == IF Len(g.stack) = 1 THEN "return" ELSE g.pc
             r == [g EXCEPT !.stack = Front(g.stack), !.pc = l]
  <2>4. l \in Labels  BY <1>0, <1>8, RegisterFacts
  <2>5. Reg(t, r)  BY <1>26 DEF Release
  <2> HIDE DEF l
  <2>6. r \in Registers  BY <1>1, <2>2, <2>4, Zenon DEF Registers
  <2>7. Named(r)  BY <1>1, <2>2 DEF Named, Registers
  <2> QED  BY <1>2, <1>3, <1>26, <2>3, <2>5, <2>6, <2>7 DEF Release
<1>27. CASE Return(t)
  <2> DEFINE r == [Idle EXCEPT !.done = g.done]
  <2>1. <<>> \in Seq(Nat) /\ <<>> \in Seq(Keys) /\ DOMAIN <<>> = {}  OBVIOUS
  <2>2. r \in Registers  BY <1>1, <1>8, <2>1, Zenon DEF Registers, Idle, nullptr
  <2>3. Named(r)
    <3>1. r.cur = 0 /\ r.work = 0 /\ r.new = 0 /\ r.path = <<>> /\ r.stack = <<>>  BY DEF Idle, nullptr
    <3>2. 0 \in Links  BY <1>0, NodeFacts DEF Links
    <3> HIDE DEF r
    <3> QED  BY <2>1, <3>1, <3>2 DEF Named
  <2> QED  BY <1>2, <1>3, <1>27, <2>2, <2>3 DEF Return
<1> QED  BY <1>10, <1>11, <1>12, <1>13, <1>14, <1>15, <1>16, <1>17, <1>18, <1>19, <1>20, <1>21, <1>22,
            <1>23, <1>24, <1>25, <1>26, <1>27 DEF Walk

\* The phases of a call.
LEMMA WalkCalls ==
  ASSUME NEW low, J(low), NEW t \in Threads, Walk(t)
  PROVE  Calls(t)'
<1>0. Types /\ Calls(t)  BY DEF J
<1>1. th[t].pc \in Labels /\ th[t].op \in {"Insert", "Update", "Search", "none"} \cup Scans
  BY <1>0, RegisterFacts
<1>2. CASE Begin(t)
  <2>1. PICK o : Calling(t, o)  BY <1>2, MoreEffects, Zenon
  <2>2. o[1] \in {"Insert", "Update", "Search"} \cup Scans /\ o[2] \in Keys  BY <2>1 DEF Calling, Operations
  <2> QED  BY <1>0, <1>2, <2>1, <2>2 DEF Begin, At, Calls, Calling, Becomes, Splitting, Scans
<1>3. CASE Descend(t)
  <2>1. \E c, s : Moving(t, "descend", c, s) \/ Moving(t, "return", c, s)  BY <1>3, MoreEffects, Zenon
  <2> QED  BY <1>0, <1>3, <2>1 DEF Descend, At, Calls, Moving, Becomes, Splitting
<1>4. CASE LatchLeaf(t) \/ MoveRight(t) \/ LatchSibling(t) \/ UnlatchLeft(t)
  BY <1>0, <1>4, Effects, Zenon DEF LatchLeaf, MoveRight, LatchSibling, UnlatchLeft, At, Calls, Becomes, Splitting
<1>5. CASE FoundOrNot(t) \/ InsertRefused(t) \/ ScanEmpty(t)
  BY <1>0, <1>5, Effects, Zenon DEF FoundOrNot, InsertRefused, ScanEmpty, At, Calls, Becomes, Splitting
<1>6. CASE PopPath(t) \/ TrackUpper(t) \/ LatchUpper(t) \/ LatchUpperSibling(t)
  BY <1>0, <1>6, Effects, Zenon DEF PopPath, TrackUpper, LatchUpper, LatchUpperSibling, At, Calls, Becomes, Splitting
<1>7. CASE UnlatchUpper(t) \/ UnlatchChild(t) \/ UnlatchLast(t)
  BY <1>0, <1>7, Effects, Zenon DEF UnlatchUpper, UnlatchChild, UnlatchLast, At, Calls, Becomes, Splitting
<1>8. CASE ScanStart(t) \/ ScanLeaf(t) \/ ScanNext(t) \/ ScanEnd(t)
  BY <1>0, <1>8, Effects, Zenon DEF ScanStart, ScanLeaf, ScanNext, ScanEnd, At, Calls, Becomes, Splitting, Scans
<1>9. CASE Release(t) \/ Return(t)
  BY <1>0, <1>9, MoreEffects, Zenon DEF Release, Return, At, Calls, Becomes, Splitting, Scans
<1> QED  BY <1>2, <1>3, <1>4, <1>5, <1>6, <1>7, <1>8, <1>9 DEF Walk

\* What a thread holds is told by its registers and by the nodes.
LEMMA SameHolder ==
  ASSUME NEW u \in Threads, node' = node, th'[u] = th[u]
  PROVE  \A n : (Owns(u, n)' <=> Owns(u, n)) /\ (Reads(u, n)' <=> Reads(u, n))
BY Zenon DEF Owns, Reads, Writes, Work

\* A thread takes a latch that is free for it and gives up its own.
LEMMA Latching ==
  ASSUME NEW low, J(low), NEW t \in Threads, Walk(t), UNCHANGED ops
  PROVE  /\ latch' = latch /\ (\A m \in NodeIds : (Owns(t, m)' => Owns(t, m)) /\ (Reads(t, m)' => Reads(t, m))) => Latched'
         /\ \A n \in NodeIds :
              /\ /\ CanHold(n) /\ Exclusive(t, n)
                 /\ \A m \in NodeIds : (Owns(t, m)' => Owns(t, m) \/ m = n) /\ (Reads(t, m)' => Reads(t, m))
                 => Latched'
              /\ /\ CanShare(n) /\ Shared(t, n)
                 /\ \A m \in NodeIds : (Owns(t, m)' => Owns(t, m)) /\ (Reads(t, m)' => Reads(t, m) \/ m = n)
                 => Latched'
              /\ /\ Unlatch(t, n) /\ (Owns(t, n) \/ Reads(t, n))
                 /\ \A m \in NodeIds : (Owns(t, m)' => Owns(t, m) /\ m # n) /\ (Reads(t, m)' => Reads(t, m) /\ m # n)
                 => Latched'
<1>0. Types /\ Latched  BY DEF J
<1>1. node' = node  BY WalkTypes
<1>2. NodeIds' = NodeIds  BY <1>1 DEF NodeIds
<1>3. \A u \in Threads \ {t} : \A n : (Owns(u, n)' <=> Owns(u, n)) /\ (Reads(u, n)' <=> Reads(u, n))
  BY <1>0, <1>1, Others, SameHolder, Zenon DEF Walk, Step
<1>4. nullptr \notin Threads  BY BLinkTreeAssumption DEF nullptr
<1>5. ASSUME latch' = latch, \A m \in NodeIds : (Owns(t, m)' => Owns(t, m)) /\ (Reads(t, m)' => Reads(t, m))
      PROVE  Latched'
  BY <1>0, <1>2, <1>3, <1>5 DEF Latched
<1>6. ASSUME NEW n \in NodeIds, CanHold(n), Exclusive(t, n),
             \A m \in NodeIds : (Owns(t, m)' => Owns(t, m) \/ m = n) /\ (Reads(t, m)' => Reads(t, m))
      PROVE  Latched'
  <2>1. latch[n].excl = nullptr /\ latch[n].shared = {}  BY <1>6 DEF CanHold, Free
  <2>2. /\ \A m \in NodeIds \ {n} : latch'[m] = latch[m]
        /\ latch'[n].excl = t /\ latch'[n].shared = latch[n].shared
    BY <1>0, <1>6, LatchMoves
  <2>3. \A u \in Threads : ~ Owns(u, n) /\ ~ Reads(u, n)  BY <1>0, <1>4, <2>1 DEF Latched
  <2> QED  BY <1>0, <1>2, <1>3, <1>6, <2>1, <2>2, <2>3 DEF Latched
<1>7. ASSUME NEW n \in NodeIds, CanShare(n), Shared(t, n),
             \A m \in NodeIds : (Owns(t, m)' => Owns(t, m)) /\ (Reads(t, m)' => Reads(t, m) \/ m = n)
      PROVE  Latched'
  <2>1. latch[n].excl = nullptr  BY <1>7 DEF CanShare
  <2>2. /\ \A m \in NodeIds \ {n} : latch'[m] = latch[m]
        /\ latch'[n].excl = latch[n].excl /\ latch'[n].shared = latch[n].shared \cup {t}
    BY <1>0, <1>7, LatchMoves
  <2> QED  BY <1>0, <1>2, <1>3, <1>7, <2>1, <2>2 DEF Latched
<1>8. ASSUME NEW n \in NodeIds, Unlatch(t, n), Owns(t, n) \/ Reads(t, n),
             \A m \in NodeIds : (Owns(t, m)' => Owns(t, m) /\ m # n) /\ (Reads(t, m)' => Reads(t, m) /\ m # n)
      PROVE  Latched'
  <2>1. \A u \in Threads \ {t} : ~ Owns(u, n)  BY <1>0, <1>4, <1>8 DEF Latched
  <2>2. /\ \A m \in NodeIds \ {n} : latch'[m] = latch[m]
        /\ latch'[n].excl = nullptr /\ latch'[n].shared = latch[n].shared \ {t}
    BY <1>0, <1>8, LatchMoves
  <2> QED  BY <1>0, <1>2, <1>3, <1>8, <2>1, <2>2 DEF Latched
<1> QED  BY <1>5, <1>6, <1>7, <1>8

\* It takes and gives back exactly the latches that its new place stands for.
LEMMA WalkLatched ==
  ASSUME NEW low, J(low), NEW t \in Threads, Walk(t), UNCHANGED ops
  PROVE  Latched'
<1> DEFINE g == th[t]
<1>0. Types /\ Linked /\ Calls(t) /\ Descends(low, t) /\ Climbs(low, t) /\ Scanning(low, t)  BY DEF J
<1>1. node' = node  BY WalkTypes
<1>2. \A n \in NodeIds : node[n].sib # nullptr => node[n].sib \in NodeIds
  BY <1>0, LinksAre DEF Linked
<1>3. CASE Begin(t) \/ Descend(t) \/ Return(t)
  <2>1. th'[t].pc \in {"descend", "return", "idle"}
    BY <1>3, MoreEffects, Zenon DEF Calling, Moving, Becomes
  <2>2. \A m : ~ Owns(t, m)' /\ ~ Reads(t, m)'  BY <2>1 DEF Owns, Reads, Splitting
  <2>3. latch' = latch  BY <1>3, Zenon DEF Begin, Descend, Return
  <2> QED  BY <2>2, <2>3, Latching
<1>4. CASE LatchLeaf(t)
  <2>1. th'[t].pc = "leaf" /\ th'[t].op = g.op /\ th'[t].cur = g.cur  BY <1>0, <1>4, Effects, Zenon DEF Becomes
  <2>2. \A m : (Owns(t, m)' => Writes(t) /\ m = g.cur) /\ (Reads(t, m)' => ~ Writes(t) /\ m = g.cur)
    BY <2>1 DEF Owns, Reads, Splitting, Writes
  <2>3. g.cur \in NodeIds  BY <1>0, <1>4 DEF Descends, LatchLeaf, At
  <2>4. CASE Writes(t)
    <3>1. CanHold(g.cur) /\ Exclusive(t, g.cur)  BY <1>4, <2>4 DEF LatchLeaf
    <3> QED  BY <2>2, <2>3, <2>4, <3>1, Latching
  <2>5. CASE ~ Writes(t)
    <3>1. CanShare(g.cur) /\ Shared(t, g.cur)  BY <1>4, <2>5 DEF LatchLeaf
    <3> QED  BY <2>2, <2>3, <2>5, <3>1, Latching
  <2> QED  BY <2>4, <2>5
<1>5. CASE MoveRight(t) \/ FoundOrNot(t) \/ InsertRefused(t) \/ ScanEmpty(t)
  <2>1. th'[t].pc \in {"descend", "return"}  BY <1>0, <1>5, Effects, Zenon DEF Becomes
  <2>2. \A m : ~ Owns(t, m)' /\ ~ Reads(t, m)'  BY <2>1 DEF Owns, Reads, Splitting
  <2>3. At(t, "leaf") /\ Unlatch(t, g.cur)  BY <1>5 DEF MoveRight, FoundOrNot, InsertRefused, ScanEmpty
  <2>4. g.cur \in NodeIds /\ (Owns(t, g.cur) \/ Reads(t, g.cur))  BY <1>0, <2>3 DEF Descends, At, Owns, Reads
  <2> QED  BY <2>2, <2>3, <2>4, Latching
<1>6. CASE LatchSibling(t)
  <2>1. th'[t].pc = "unlatch_left" /\ th'[t].cur = g.cur /\ th'[t].work = Cur(t).sib  BY <1>0, <1>6, Effects, Zenon DEF Becomes
  <2>2. \A m : (Owns(t, m)' => m \in {g.cur, Cur(t).sib}) /\ ~ Reads(t, m)'  BY <2>1 DEF Owns, Reads, Splitting
  <2>3. g.cur \in NodeIds /\ Owns(t, g.cur)  BY <1>0, <1>6 DEF Descends, LatchSibling, At, Owns, Writes
  <2>4. Cur(t).sib \in NodeIds  BY <1>2, <1>6, <2>3 DEF LatchSibling, Cur, beyond
  <2>5. CanHold(Cur(t).sib) /\ Exclusive(t, Cur(t).sib)  BY <1>6 DEF LatchSibling
  <2> QED  BY <2>2, <2>3, <2>4, <2>5, Latching
<1>7. CASE UnlatchLeft(t)
  <2>1. th'[t].pc = "leaf" /\ th'[t].op = g.op /\ th'[t].cur = g.work  BY <1>0, <1>7, Effects, Zenon DEF Becomes
  <2>2. At(t, "unlatch_left") /\ g.op = "Insert" /\ Unlatch(t, g.cur)
    BY <1>0, <1>7 DEF UnlatchLeft, Calls, At
  <2>3. \A m : (Owns(t, m)' => m = g.work) /\ ~ Reads(t, m)'  BY <2>1, <2>2 DEF Owns, Reads, Splitting, Writes
  <2>4. g.cur \in NodeIds /\ g.work # g.cur  BY <1>0, <2>2 DEF Descends, At
  <2>5. Owns(t, g.cur) /\ Owns(t, g.work)  BY <2>2 DEF Owns, At
  <2> QED  BY <2>2, <2>3, <2>4, <2>5, Latching
<1>8. CASE PopPath(t) \/ TrackUpper(t)
  <2>1. th'[t].pc = "latch_upper" /\ th'[t].cur = g.cur  BY <1>0, <1>8, Effects, Zenon DEF Becomes
  <2>2. \A m : (Owns(t, m)' => m = g.cur) /\ ~ Reads(t, m)'  BY <2>1 DEF Owns, Reads, Splitting
  <2>3. At(t, "split") /\ latch' = latch  BY <1>8 DEF PopPath, TrackUpper
  <2>4. Owns(t, g.cur)  BY <2>3 DEF Owns, At, Splitting
  <2> QED  BY <2>2, <2>3, <2>4, Latching
<1>9. CASE LatchUpper(t)
  <2>1. th'[t].pc = "find" /\ th'[t].cur = g.cur /\ th'[t].work = g.work  BY <1>0, <1>9, Effects, Zenon DEF Becomes
  <2>2. \A m : (Owns(t, m)' => m \in {g.cur, g.work}) /\ ~ Reads(t, m)'  BY <2>1 DEF Owns, Reads, Splitting
  <2>3. At(t, "latch_upper") /\ CanHold(g.work) /\ Exclusive(t, g.work)  BY <1>9 DEF LatchUpper
  <2>4. Owns(t, g.cur) /\ g.work \in NodeIds  BY <1>0, <2>3 DEF Owns, At, Splitting, Climbs
  <2> QED  BY <2>2, <2>3, <2>4, Latching
<1>10. CASE LatchUpperSibling(t)
  <2>1. th'[t].pc = "unlatch_upper" /\ th'[t].cur = g.cur /\ th'[t].work = g.work  BY <1>0, <1>10, Effects, Zenon DEF Becomes
  <2>2. \A m : (Owns(t, m)' => m \in {g.cur, g.work, Work(t).sib}) /\ ~ Reads(t, m)'
    BY <1>1, <2>1 DEF Owns, Reads, Splitting, Work
  <2>3. At(t, "find") /\ CanHold(Work(t).sib) /\ Exclusive(t, Work(t).sib)  BY <1>10 DEF LatchUpperSibling
  <2>4. Owns(t, g.cur) /\ Owns(t, g.work) /\ g.work \in NodeIds  BY <1>0, <2>3, Zenon DEF Owns, At, Splitting, Climbs
  <2>5. Work(t).sib \in NodeIds  BY <1>2, <1>10, <2>4 DEF LatchUpperSibling, Work, beyond
  <2> QED  BY <2>2, <2>3, <2>4, <2>5, Latching
<1>11. CASE UnlatchUpper(t)
  <2>1. th'[t].pc = "find" /\ th'[t].cur = g.cur /\ th'[t].work = Work(t).sib  BY <1>0, <1>11, Effects, Zenon DEF Becomes
  <2>2. \A m : (Owns(t, m)' => m \in {g.cur, Work(t).sib}) /\ ~ Reads(t, m)'
    BY <2>1 DEF Owns, Reads, Splitting
  <2>3. At(t, "unlatch_upper") /\ Unlatch(t, g.work)  BY <1>11 DEF UnlatchUpper
  <2>4. Owns(t, g.cur) /\ Owns(t, g.work) /\ Owns(t, Work(t).sib)  BY <2>3 DEF Owns, At, Splitting
  <2>5. g.work \in NodeIds /\ g.work # g.cur /\ Work(t).sib # g.work  BY <1>0, <2>3 DEF Climbs, At, Work
  <2> QED  BY <2>2, <2>3, <2>4, <2>5, Latching
<1>12. CASE UnlatchChild(t)
  <2>1. th'[t].pc = "insert" /\ th'[t].work = g.work  BY <1>0, <1>12, Effects, Zenon DEF Becomes
  <2>2. \A m : (Owns(t, m)' => m = g.work) /\ ~ Reads(t, m)'  BY <2>1 DEF Owns, Reads, Splitting
  <2>3. At(t, "find") /\ Unlatch(t, g.cur)  BY <1>12 DEF UnlatchChild
  <2>4. Owns(t, g.cur) /\ Owns(t, g.work)  BY <2>3 DEF Owns, At, Splitting
  <2>5. g.cur \in NodeIds /\ g.work # g.cur  BY <1>0, <2>3 DEF Climbs, At, Splitting
  <2> QED  BY <2>2, <2>3, <2>4, <2>5, Latching
<1>13. CASE UnlatchLast(t)
  <2>1. th'[t].pc = "return"  BY <1>0, <1>13, Effects, Zenon DEF Becomes
  <2>2. \A m : ~ Owns(t, m)' /\ ~ Reads(t, m)'  BY <2>1 DEF Owns, Reads, Splitting
  <2>3. At(t, "unlatch") /\ Unlatch(t, g.work)  BY <1>13 DEF UnlatchLast
  <2>4. Owns(t, g.work) /\ g.work \in NodeIds  BY <1>0, <2>3 DEF Owns, At, Climbs
  <2> QED  BY <2>2, <2>3, <2>4, Latching
<1>14. CASE ScanStart(t)
  <2>1. th'[t].pc = "scan" /\ th'[t].stack = <<g.cur>>  BY <1>0, <1>14, Effects, Zenon DEF Becomes
  <2>2. \A m : ~ Owns(t, m)' /\ (Reads(t, m)' => m = g.cur)  BY <2>1 DEF Owns, Reads, Splitting
  <2>3. At(t, "leaf") /\ g.op \in Scans /\ latch' = latch  BY <1>14 DEF ScanStart
  <2>4. Reads(t, g.cur)  BY <2>3 DEF Reads, At, Writes, Scans
  <2> QED  BY <2>2, <2>3, <2>4, Latching
<1>15. CASE ScanLeaf(t) \/ ScanEnd(t)
  <2>1. th'[t].pc \in {"scan_next", "release"} /\ th'[t].stack = g.stack  BY <1>0, <1>15, Effects, Zenon DEF Becomes
  <2>2. At(t, "scan") /\ latch' = latch  BY <1>15 DEF ScanLeaf, ScanEnd
  <2>3. \A m : ~ Owns(t, m)' /\ (Reads(t, m)' => Reads(t, m))  BY <2>1, <2>2 DEF Owns, Reads, Splitting, At
  <2> QED  BY <2>2, <2>3, Latching
<1>16. CASE ScanNext(t)
  <2>1. th'[t].pc = "scan" /\ th'[t].stack = Append(g.stack, g.cur)  BY <1>0, <1>16, Effects, Zenon DEF Becomes
  <2>2. At(t, "scan_next") /\ CanShare(g.cur) /\ Shared(t, g.cur)  BY <1>16 DEF ScanNext
  <2>3. g.stack \in Seq(Nat) /\ g.cur \in Nat /\ g.cur \in NodeIds
    BY <1>0, <2>2, RegisterFacts DEF Scanning, At
  <2>4. \A i \in DOMAIN Append(g.stack, g.cur) :
          Append(g.stack, g.cur)[i] = g.cur \/ (i \in DOMAIN g.stack /\ Append(g.stack, g.cur)[i] = g.stack[i])
    <3>1. DOMAIN g.stack = 1 .. Len(g.stack)  BY <2>3
    <3> QED  BY <2>3, <3>1, Appended
  <2>5. \A m : ~ Owns(t, m)' /\ (Reads(t, m)' => Reads(t, m) \/ m = g.cur)
    BY <2>1, <2>2, <2>4 DEF Owns, Reads, Splitting, At
  <2> QED  BY <2>2, <2>3, <2>5, Latching
<1>17. CASE Release(t)
  <2>1. th'[t].pc \in {"release", "return"} /\ th'[t].stack = Front(g.stack)
    BY <1>17, MoreEffects, Zenon DEF Becomes
  <2>2. At(t, "release") /\ Unlatch(t, Last(g.stack))  BY <1>17 DEF Release
  <2>3. g.stack \in Seq(Nat) /\ g.stack # <<>>  BY <1>0, <2>2, RegisterFacts DEF Scanning, At
  <2>4. /\ Len(g.stack) \in Nat \ {0} /\ DOMAIN g.stack = 1 .. Len(g.stack)
        /\ Last(g.stack) = g.stack[Len(g.stack)] /\ DOMAIN Front(g.stack) = 1 .. Len(g.stack) - 1
        /\ \A i \in 1 .. Len(g.stack) - 1 : Front(g.stack)[i] = g.stack[i]
    <3>1. DOMAIN g.stack = 1 .. Len(g.stack)  BY <2>3
    <3> QED  BY <2>3, <3>1, FrontLast, Zenon
  <2>5. Len(g.stack) \in DOMAIN g.stack /\ Last(g.stack) \in NodeIds  BY <1>0, <2>4 DEF Linked, Named
  <2>6. \A i \in DOMAIN Front(g.stack) :
          i \in DOMAIN g.stack /\ Front(g.stack)[i] = g.stack[i] /\ low[g.stack[i]] < low[Last(g.stack)]
    BY <1>0, <2>4, <2>5 DEF Scanning
  <2>7. low \in [NodeIds -> Nat]  BY DEF J
  <2>8. \A i \in DOMAIN Front(g.stack) : Front(g.stack)[i] # Last(g.stack)  BY <2>5, <2>6, <2>7
  <2>9. \A m : ~ Owns(t, m)' /\ (Reads(t, m)' => Reads(t, m) /\ m # Last(g.stack))
    BY <2>1, <2>2, <2>6, <2>8 DEF Owns, Reads, Splitting, At
  <2>10. Reads(t, Last(g.stack))  BY <2>2, <2>4, <2>5 DEF Reads, At
  <2> QED  BY <2>2, <2>5, <2>9, <2>10, Latching
<1> QED  BY <1>3, <1>4, <1>5, <1>6, <1>7, <1>8, <1>9, <1>10, <1>11, <1>12, <1>13, <1>14, <1>15, <1>16, <1>17 DEF Walk

\* A new root is filled by the thread that holds it.
LEMMA WalkFilling ==
  ASSUME NEW low, J(low), NEW t \in Threads, Walk(t), NEW n \in NodeIds, Empty(n), Filling(n)
  PROVE  Filling(n)'
<1>0. Types /\ NodeOK(low, n)  BY DEF J
<1>1. PICK u \in Threads : th[u].pc \in {"find", "insert"} /\ th[u].work = n  BY DEF Filling
<1>2. CASE u # t
  <2>1. th'[u] = th[u]  BY <1>0, <1>2, Others, Zenon DEF Walk, Step
  <2> QED  BY <1>1, <2>1 DEF Filling
<1>3. CASE u = t
  <2>1. ~ LatchUpperSibling(t)  BY <1>0, <1>1, <1>3 DEF LatchUpperSibling, beyond, Work, NodeOK, Continued, Empty
  <2>2. UnlatchChild(t)
    BY <1>1, <1>3, <2>1, Zenon DEF Walk, At, Begin, Descend, LatchLeaf, MoveRight, LatchSibling, UnlatchLeft, FoundOrNot,
       InsertRefused, PopPath, TrackUpper, LatchUpper, UnlatchUpper, UnlatchLast, ScanEmpty, ScanStart, ScanLeaf,
       ScanNext, ScanEnd, Release, Return
  <2>3. th'[t].pc = "insert" /\ th'[t].work = n  BY <1>0, <1>1, <1>3, <2>2, Effects, Zenon DEF Becomes
  <2> QED  BY <2>3 DEF Filling
<1> QED  BY <1>2, <1>3

\* The nodes, and the other threads, stay as they are.
LEMMA WalkOthers ==
  ASSUME NEW low, J(low), NEW t \in Threads, Walk(t), UNCHANGED ops
  PROVE  /\ NodeIds' = NodeIds /\ Disjoint(low)' /\ \A n \in NodeIds : NodeOK(low, n)'
         /\ \A n : Empty(n)' <=> Empty(n)
         /\ \A u \in Threads \ {t} : Calls(u)' /\ Descends(low, u)' /\ Climbs(low, u)' /\ Scanning(low, u)'
<1>0. Types /\ Disjoint(low) /\ \A n \in NodeIds : NodeOK(low, n)  BY DEF J
<1>1. node' = node  BY WalkTypes
<1>2. NodeIds' = NodeIds /\ content' = content  BY <1>1 DEF NodeIds, content
<1>3. \A n : Empty(n)' <=> Empty(n)  BY <1>1 DEF Empty
<1>4. Disjoint(low)'  BY <1>0, <1>1, <1>2, Zenon DEF Disjoint, LeftOf
<1>5. \A n \in NodeIds : NodeOK(low, n)'
  BY <1>0, <1>1, <1>2, <1>3, Zenon DEF NodeOK, Ordered, Continued, Routes
<1>6. ASSUME NEW u \in Threads \ {t}
      PROVE  Calls(u)' /\ Descends(low, u)' /\ Climbs(low, u)' /\ Scanning(low, u)'
  <2>0. th'[u] = th[u]  BY <1>0, Others, Zenon DEF Walk, Step
  <2>1. Calls(u) /\ Descends(low, u) /\ Climbs(low, u) /\ Scanning(low, u)  BY DEF J
  <2>2. Calls(u)'  BY <2>0, <2>1, Zenon DEF Calls
  <2>3. Descends(low, u)'  BY <2>0, <2>1, <1>1, <1>2, <1>3, WalkFilling, Zenon DEF Descends
  <2>4. Climbs(low, u)'  BY <2>0, <2>1, <1>1, <1>2, <1>3, Zenon DEF Climbs
  <2>5. Scanning(low, u)'  BY <2>0, <2>1, <1>1, <1>2, Zenon DEF Scanning
  <2> QED  BY <2>2, <2>3, <2>4, <2>5
<1> QED  BY <1>2, <1>3, <1>4, <1>5, <1>6

\* It never goes right of the leaf for its key.
LEMMA WalkDescends ==
  ASSUME NEW low, J(low), NEW t \in Threads, Walk(t), UNCHANGED ops
  PROVE  Descends(low, t)'
<1> DEFINE g == th[t]
<1>0. Types /\ Linked /\ Calls(t) /\ Descends(low, t) /\ Climbs(low, t) /\ Scanning(low, t) /\ Roots(low)  BY DEF J
<1>1. node' = node  BY WalkTypes
<1>2. NodeIds' = NodeIds /\ \A n : Empty(n)' <=> Empty(n)  BY WalkOthers
<1>3. \A i \in DOMAIN g.path : ~ node[g.path[i]].leaf /\ ~ Empty(g.path[i])  BY <1>0 DEF Descends
<1>4. CASE Begin(t)
  <2>1. PICK o : Calling(t, o)  BY <1>4, MoreEffects, Zenon
  <2>2. o[2] \in Keys /\ 0 < o[2]
    <3>1. o[2] \in Keys  BY <2>1 DEF Calling, Operations
    <3>2. o[2] \in Nat \ {0}  BY <3>1, BLinkTreeAssumption, Zenon
    <3> QED  BY <3>1, <3>2
  <2>3. PICK r \in NodeIds : r = root  BY <1>0 DEF Types
  <2>4. low[r] < o[2]  BY <1>0, <2>2, <2>3 DEF Roots
  <2>5. Empty(r) => Filling(r)'  BY <1>0, <2>3, WalkFilling DEF Roots
  <2>6. th'[t].pc = "descend" /\ th'[t].cur = r /\ th'[t].key = o[2] /\ th'[t].path = g.path
    BY <2>1, <2>3 DEF Calling, Becomes
  <2> QED  BY <2>4, <2>5, <2>6, <1>1, <1>2, <1>3, Zenon DEF Descends
<1>5. CASE Descend(t)
  <2>0. g.cur \in NodeIds /\ ~ Empty(g.cur) /\ ~ node[g.cur].leaf  BY <1>5, NextNode, Zenon DEF Cur
  <2>1. CASE Right(low, t) /\ Moving(t, "descend", Cur(t).sib, g.path)
    BY <2>1, <1>1, <1>2, <1>3 DEF Right, Moving, Becomes, Descends
  <2>2. CASE Found(t) /\ Moving(t, "return", g.cur, g.path)
    BY <2>2, <1>1, <1>2, <1>3 DEF Moving, Becomes, Descends
  <2>3. ASSUME NEW c \in NodeIds, Under(low, t, c), Moving(t, "descend", c, PathOn(t)) PROVE Descends(low, t)'
    <3>1. \A i \in DOMAIN PathOn(t) : ~ node[PathOn(t)[i]].leaf /\ ~ Empty(PathOn(t)[i])
      <4>1. g.path \in Seq(Nat) /\ g.cur \in Nat /\ DOMAIN g.path = 1 .. Len(g.path)  BY <1>0, RegisterFacts
      <4>2. \A i \in DOMAIN Append(g.path, g.cur) :
              Append(g.path, g.cur)[i] = g.cur \/ (i \in DOMAIN g.path /\ Append(g.path, g.cur)[i] = g.path[i])
        BY <4>1, Appended
      <4> QED  BY <1>3, <2>0, <4>2 DEF PathOn
    <3> QED  BY <2>3, <3>1, <1>1, <1>2 DEF Under, Moving, Becomes, Descends
  <2> QED  BY <1>5, <2>1, <2>2, <2>3, MoreEffects, Zenon
<1>6. CASE LatchLeaf(t)
  <2>1. th'[t].pc = "leaf" /\ th'[t].cur = g.cur /\ th'[t].key = g.key /\ th'[t].path = g.path
    BY <1>0, <1>6, Effects, Zenon DEF Becomes
  <2>2. At(t, "descend") /\ node[g.cur].leaf  BY <1>6 DEF LatchLeaf, Cur
  <2> QED  BY <1>0, <1>1, <1>2, <2>1, <2>2, Zenon DEF Descends, At
<1>7. CASE MoveRight(t)
  <2>1. th'[t].pc = "descend" /\ th'[t].cur = Cur(t).sib /\ th'[t].key = g.key /\ th'[t].path = g.path
    BY <1>0, <1>7, Effects, Zenon DEF Becomes
  <2>2. Cur(t).sib # nullptr /\ Last(Cur(t).keys) < g.key /\ g.cur \in NodeIds
    BY <1>0, <1>7 DEF MoveRight, beyond, Descends, At
  <2>3. Cur(t).sib \in NodeIds /\ low[Cur(t).sib] < g.key /\ ~ Empty(Cur(t).sib)  BY <2>2, Sibling DEF Cur
  <2> QED  BY <1>1, <1>2, <1>3, <2>1, <2>3 DEF Descends
<1>8. CASE LatchSibling(t)
  <2>1. /\ th'[t].pc = "unlatch_left" /\ th'[t].cur = g.cur /\ th'[t].key = g.key /\ th'[t].path = g.path
        /\ th'[t].work = Cur(t).sib
    BY <1>0, <1>8, Effects, Zenon DEF Becomes
  <2>2. Cur(t).sib # nullptr /\ Last(Cur(t).keys) < g.key /\ g.cur \in NodeIds /\ low[g.cur] < g.key /\ node[g.cur].leaf
    BY <1>0, <1>8 DEF LatchSibling, beyond, Descends, At
  <2>3. Cur(t).sib \in NodeIds /\ low[Cur(t).sib] < g.key /\ node[Cur(t).sib].leaf /\ Cur(t).sib # g.cur
    BY <2>2, Sibling DEF Cur
  <2> QED  BY <1>1, <1>2, <1>3, <2>1, <2>2, <2>3 DEF Descends
<1>9. CASE UnlatchLeft(t)
  <2>1. th'[t].pc = "leaf" /\ th'[t].cur = g.work /\ th'[t].key = g.key /\ th'[t].path = g.path
    BY <1>0, <1>9, Effects, Zenon DEF Becomes
  <2>2. At(t, "unlatch_left")  BY <1>9 DEF UnlatchLeft
  <2> QED  BY <1>0, <1>1, <1>2, <2>1, <2>2, Zenon DEF Descends, At
<1>10. CASE PopPath(t)
  <2>1. th'[t].pc = "latch_upper" /\ th'[t].path = Front(g.path)  BY <1>0, <1>10, Effects, Zenon DEF Becomes
  <2>2. g.path \in Seq(Nat) /\ DOMAIN g.path = 1 .. Len(g.path) /\ g.path # <<>>
    BY <1>0, <1>10, RegisterFacts DEF PopPath
  <2>3. /\ Len(g.path) \in Nat \ {0} /\ DOMAIN Front(g.path) = 1 .. Len(g.path) - 1
        /\ \A i \in 1 .. Len(g.path) - 1 : Front(g.path)[i] = g.path[i]
    BY <2>2, FrontLast, Zenon
  <2>4. \A i \in DOMAIN Front(g.path) : i \in DOMAIN g.path /\ Front(g.path)[i] = g.path[i]  BY <2>2, <2>3
  <2> QED  BY <1>1, <1>2, <1>3, <2>1, <2>4 DEF Descends
<1>11. CASE \/ FoundOrNot(t) \/ InsertRefused(t) \/ ScanEmpty(t) \/ TrackUpper(t) \/ LatchUpper(t)
            \/ LatchUpperSibling(t) \/ UnlatchUpper(t) \/ UnlatchChild(t) \/ UnlatchLast(t)
            \/ ScanStart(t) \/ ScanLeaf(t) \/ ScanNext(t) \/ ScanEnd(t) \/ Release(t)
  <2>1. th'[t].pc \notin {"descend", "leaf", "unlatch_left"} /\ th'[t].path = g.path
    <3>1. CASE Release(t)  BY <3>1, MoreEffects, Zenon DEF Becomes
    <3> QED  BY <1>0, <1>11, <3>1, Effects, Zenon DEF Becomes
  <2> QED  BY <1>1, <1>2, <1>3, <2>1 DEF Descends
<1>12. CASE Return(t)
  <2>1. th'[t].pc = "idle" /\ th'[t].path = <<>>  BY <1>12, MoreEffects, Zenon DEF Becomes
  <2>2. DOMAIN <<>> = {}  OBVIOUS
  <2> QED  BY <2>1, <2>2 DEF Descends
<1> QED  BY <1>4, <1>5, <1>6, <1>7, <1>8, <1>9, <1>10, <1>11, <1>12 DEF Walk

\* On its way up a thread keeps what it knows of the halves and comes to a
\* parent that the entry belongs into, or moves right.
LEMMA WalkClimbs ==
  ASSUME NEW low, J(low), NEW t \in Threads, Walk(t), UNCHANGED ops
  PROVE  Climbs(low, t)'
<1> DEFINE g == th[t]
<1>0. Types /\ Linked /\ Climbs(low, t) /\ Roots(low) /\ \A n \in NodeIds : NodeOK(low, n)  BY DEF J
<1>1. node' = node  BY WalkTypes
<1>2. NodeIds' = NodeIds /\ \A n : Empty(n)' <=> Empty(n)  BY WalkOthers
<1>3. content' = content  BY <1>1, <1>2 DEF content
<1>4. CASE PopPath(t)
  <2>1. th'[t].pc = "latch_upper" /\ th'[t].cur = g.cur /\ th'[t].new = g.new /\ th'[t].work = Last(g.path)
    BY <1>0, <1>4, Effects, Zenon DEF Becomes
  <2>2. g.path \in Seq(Nat) /\ DOMAIN g.path = 1 .. Len(g.path) /\ g.path # <<>>
    BY <1>0, <1>4, RegisterFacts DEF PopPath
  <2>3. Len(g.path) \in DOMAIN g.path /\ Last(g.path) = g.path[Len(g.path)]
    <3>1. Len(g.path) \in Nat \ {0} /\ Last(g.path) = g.path[Len(g.path)]  BY <2>2, FrontLast, Zenon
    <3> QED  BY <2>2, <3>1
  <2>4. Last(g.path) \in NodeIds /\ ~ node[Last(g.path)].leaf
    BY <2>3, Zenon DEF J, Linked, Named, Descends
  <2>5. g.pc = "split"  BY <1>4 DEF PopPath, At
  <2> QED  BY <1>0, <1>1, <1>2, <2>1, <2>4, <2>5, Zenon DEF Climbs, Splitting
<1>5. CASE TrackUpper(t)
  <2>1. th'[t].pc = "latch_upper" /\ th'[t].cur = g.cur /\ th'[t].new = g.new /\ th'[t].work = Cur(t).upper
    BY <1>0, <1>5, Effects, Zenon DEF Becomes
  <2>2. g.pc = "split" /\ g.cur # root  BY <1>5 DEF TrackUpper, At
  <2>3. g.cur \in NodeIds /\ node[g.cur].keys # <<>>  BY <1>0, <2>2 DEF Climbs, Splitting
  <2>4. node[g.cur].upper # nullptr
    <3> SUFFICES ASSUME node[g.cur].upper = nullptr PROVE FALSE  OBVIOUS
    <3>1. PICK u \in Threads : \/ Creates(u) /\ g.cur = th[u].work
                               \/ th[u].pc = "split" /\ th[u].cur = root /\ g.cur = th[u].new
      BY <1>0, <2>2, <2>3, Zenon DEF Roots
    <3>2. ~ (Creates(u) /\ g.cur = th[u].work)  BY <1>0, <2>3, Zenon DEF Roots, Empty
    <3>3. u # t  BY <2>2, <3>1, <3>2
    <3>4. Private(u)  BY DEF J
    <3> QED  BY <3>1, <3>2, <3>3, <3>4 DEF Private, Splitting, Uses
  <2>5. Cur(t).upper \in NodeIds /\ ~ node[Cur(t).upper].leaf
    <3>1. node[g.cur].upper \in Links /\ ~ node[node[g.cur].upper].leaf  BY <1>0, <2>3, <2>4 DEF Linked, NodeOK
    <3> QED  BY <1>0, <2>4, <3>1, LinksAre DEF Cur
  <2> QED  BY <1>0, <1>1, <1>2, <2>1, <2>2, <2>5, Zenon DEF Climbs, Splitting
<1>6. CASE LatchUpper(t)
  <2>1. th'[t].pc = "find" /\ th'[t].cur = g.cur /\ th'[t].new = g.new /\ th'[t].work = g.work
    BY <1>0, <1>6, Effects, Zenon DEF Becomes
  <2>2. g.pc = "latch_upper" /\ CanHold(g.work)  BY <1>6 DEF LatchUpper, At
  <2>3. g.cur \in NodeIds /\ g.work \in NodeIds  BY <1>0, <2>2 DEF Climbs, Splitting
  <2>4. g.work # g.cur
    <3>1. Owns(t, g.cur)  BY <2>2 DEF Owns, Splitting
    <3> QED  BY <2>2, <2>3, <3>1, OwnedAlone
  <2>5. Empty(g.work) => low[g.work] = low[g.cur]
    <3>1. CASE g.cur = root  BY <1>0, <2>2, <3>1 DEF Roots, Creates
    <3>2. ASSUME g.cur # root, Empty(g.work) PROVE FALSE
      <4>1. PICK u \in Threads : th[u].pc \in {"find", "insert"} /\ th[u].work = g.work
        BY <1>0, <2>2, <3>2, Zenon DEF Roots, Filling
      <4>2. Owns(u, g.work)  BY <4>1 DEF Owns
      <4> QED  BY <2>2, <2>3, <4>2, OwnedAlone
    <3> QED  BY <3>1, <3>2
  <2> QED  BY <1>0, <1>1, <1>2, <2>1, <2>2, <2>4, <2>5, Zenon DEF Climbs, Splitting
<1>7. CASE LatchUpperSibling(t)
  <2>1. th'[t].pc = "unlatch_upper" /\ th'[t].cur = g.cur /\ th'[t].new = g.new /\ th'[t].work = g.work
    BY <1>0, <1>7, Effects, Zenon DEF Becomes
  <2>2. g.pc = "find" /\ CanHold(Work(t).sib) /\ Work(t).sib # nullptr  BY <1>7 DEF LatchUpperSibling, At, beyond
  <2>3. g.cur \in NodeIds /\ g.work \in NodeIds /\ Owns(t, g.cur) /\ Owns(t, g.work)
    BY <1>0, <2>2, Zenon DEF Climbs, Splitting, Owns
  <2>4. Work(t).sib \notin {nullptr, g.cur, g.work}  BY <2>2, <2>3, OwnedAlone
  <2> QED  BY <1>0, <1>1, <1>2, <2>1, <2>2, <2>4, Zenon DEF Climbs, Splitting, Work
<1>8. CASE UnlatchUpper(t)
  <2>1. th'[t].pc = "find" /\ th'[t].cur = g.cur /\ th'[t].new = g.new /\ th'[t].work = Work(t).sib
    BY <1>0, <1>8, Effects, Zenon DEF Becomes
  <2>2. g.pc = "unlatch_upper"  BY <1>8 DEF UnlatchUpper, At
  <2>3. g.work \in NodeIds /\ ~ node[g.work].leaf /\ Work(t).sib \notin {nullptr, g.cur}
    BY <1>0, <2>2 DEF Climbs, Work
  <2>4. Work(t).sib \in NodeIds /\ ~ node[Work(t).sib].leaf /\ ~ Empty(Work(t).sib)
    BY <2>3, Sibling DEF Work
  <2> QED  BY <1>0, <1>1, <1>2, <2>1, <2>2, <2>3, <2>4, Zenon DEF Climbs, Splitting
<1>9. CASE UnlatchChild(t)
  <2>1. /\ th'[t].pc = "insert" /\ th'[t].cur = g.cur /\ th'[t].new = g.new /\ th'[t].work = g.work
        /\ th'[t].arg = Last(node[g.cur].keys)
    BY <1>0, <1>9, Effects, Zenon DEF Becomes, left_max_key, Cur
  <2>2. g.pc = "find" /\ ~ beyond(node[g.work], Last(node[g.new].keys))
    BY <1>9 DEF UnlatchChild, At, Work, right_max_key
  <2>3. /\ g.cur \in NodeIds /\ node[g.cur].keys # <<>> /\ node[g.cur].sib = g.new
        /\ g.new \in NodeIds /\ node[g.new].keys # <<>> /\ g.work \in NodeIds
        /\ Last(node[g.cur].keys) <= Last(node[g.new].keys)
    BY <1>0, <2>2, Zenon DEF Climbs, Splitting
  <2>4. node[g.cur].sib # nullptr  BY <1>0, <2>3, LinksAre
  <2>5. low[g.new] = Last(node[g.cur].keys)  BY <2>3, <2>4, Sibling
  <2>6. Last(node[g.cur].keys) \in content /\ Last(node[g.cur].keys) \in Nat /\ Last(node[g.new].keys) \in Nat
    BY <2>3, LastIsThere
  <2>7. ASSUME node[g.work].sib # nullptr PROVE Last(node[g.cur].keys) <= Last(node[g.work].keys)
    <3>1. node[g.work].keys # <<>>  BY <1>0, <2>3, <2>7 DEF NodeOK, Continued
    <3>2. Last(node[g.work].keys) \in Nat  BY <2>3, <3>1, LastIsThere
    <3>3. ~ (Last(node[g.work].keys) < Last(node[g.new].keys))  BY <2>2, <2>7 DEF beyond
    <3> QED  BY <2>3, <2>6, <3>2, <3>3
  <2> QED  BY <1>0, <1>1, <1>2, <1>3, <2>1, <2>2, <2>3, <2>5, <2>6, <2>7, Zenon DEF Climbs, Splitting
<1>10. CASE Begin(t) \/ Descend(t) \/ Release(t) \/ Return(t)
  <2>1. th'[t].pc \in {"descend", "return", "release", "idle"}
    BY <1>10, MoreEffects, Zenon DEF Calling, Moving, Becomes
  <2> QED  BY <2>1 DEF Climbs, Splitting
<1>11. CASE \/ LatchLeaf(t) \/ MoveRight(t) \/ LatchSibling(t) \/ UnlatchLeft(t)
            \/ FoundOrNot(t) \/ InsertRefused(t) \/ ScanEmpty(t) \/ UnlatchLast(t)
            \/ ScanStart(t) \/ ScanLeaf(t) \/ ScanNext(t) \/ ScanEnd(t)
  <2>1. th'[t].pc \in {"leaf", "descend", "unlatch_left", "return", "scan", "scan_next", "release"}
    BY <1>0, <1>11, Effects, Zenon DEF Becomes
  <2> QED  BY <2>1 DEF Climbs, Splitting
<1> QED  BY <1>4, <1>5, <1>6, <1>7, <1>8, <1>9, <1>10, <1>11 DEF Walk

\* A scan takes its leaves from left to right.
LEMMA WalkScanning ==
  ASSUME NEW low, J(low), NEW t \in Threads, Walk(t), UNCHANGED ops
  PROVE  Scanning(low, t)'
<1> DEFINE g == th[t]
<1>0. Types /\ Linked /\ Scanning(low, t)  BY DEF J
<1>1. node' = node  BY WalkTypes
<1>2. NodeIds' = NodeIds  BY WalkOthers
<1>3. g.stack \in Seq(Nat) /\ g.cur \in Nat /\ DOMAIN g.stack = 1 .. Len(g.stack) /\ Len(g.stack) \in Nat
  BY <1>0, RegisterFacts
<1>4. CASE ScanStart(t)
  <2>1. th'[t].pc = "scan" /\ th'[t].cur = g.cur /\ th'[t].stack = <<g.cur>>  BY <1>0, <1>4, Effects, Zenon DEF Becomes
  <2>2. node[g.cur].leaf  BY <1>4 DEF ScanStart, At, J, Descends
  <2>3. <<g.cur>> # <<>> /\ Last(<<g.cur>>) = g.cur /\ DOMAIN <<g.cur>> = {1} /\ <<g.cur>>[1] = g.cur  BY DEF Last
  <2>4. \A i, j \in {1} : ~ (i < j)  OBVIOUS
  <2> QED  BY <1>1, <2>1, <2>2, <2>3, <2>4 DEF Scanning
<1>5. CASE ScanLeaf(t)
  <2>1. th'[t].pc = "scan_next" /\ th'[t].cur = Cur(t).sib /\ th'[t].stack = g.stack
    BY <1>0, <1>5, Effects, Zenon DEF Becomes
  <2>2. g.pc = "scan" /\ Cur(t).sib # nullptr /\ g.cur \in NodeIds  BY <1>5, Taken DEF ScanLeaf, At
  <2>3. g.stack # <<>> /\ g.cur = Last(g.stack)  BY <1>0, <2>2 DEF Scanning
  <2>4. node[g.cur].leaf
    <3>1. Len(g.stack) \in DOMAIN g.stack /\ Last(g.stack) = g.stack[Len(g.stack)]
      <4>1. Len(g.stack) \in Nat \ {0}  BY <1>3, <2>3, FrontLast
      <4> QED  BY <1>3, <4>1 DEF Last
    <3> QED  BY <1>0, <2>3, <3>1 DEF Scanning
  <2>5. Cur(t).sib \in NodeIds /\ node[Cur(t).sib].leaf /\ low[g.cur] < low[Cur(t).sib]  BY <2>2, <2>4, Sibling DEF Cur
  <2> QED  BY <1>0, <1>1, <1>2, <2>1, <2>3, <2>5, Zenon DEF Scanning
<1>6. CASE ScanNext(t)
  <2> DEFINE s == Append(g.stack, g.cur)
  <2>1. th'[t].pc = "scan" /\ th'[t].cur = g.cur /\ th'[t].stack = s
    BY <1>0, <1>6, Effects, Zenon DEF Becomes
  <2>2. g.pc = "scan_next"  BY <1>6 DEF ScanNext, At
  <2>3. g.stack # <<>> /\ g.cur \in NodeIds /\ node[g.cur].leaf /\ low[Last(g.stack)] < low[g.cur]  BY <1>0, <2>2 DEF Scanning
  <2>4. /\ s \in Seq(Nat) /\ DOMAIN s = 1 .. Len(g.stack) + 1 /\ s[Len(g.stack) + 1] = g.cur
        /\ \A i \in 1 .. Len(g.stack) : s[i] = g.stack[i]
        /\ \A i \in DOMAIN s : i \in DOMAIN g.stack \/ i = Len(g.stack) + 1
    BY <1>3, Appended
  <2>5. s # <<>> /\ Last(s) = g.cur
    <3>1. Len(s) = Len(g.stack) + 1 /\ s # <<>>  BY <1>3
    <3> HIDE DEF s
    <3> QED  BY <2>4, <3>1 DEF Last
  <2> HIDE DEF s
  <2>6. \A i \in DOMAIN s : node[s[i]].leaf  BY <1>0, <1>3, <2>3, <2>4, Zenon DEF Scanning
  <2>7. \A i \in DOMAIN g.stack : low[g.stack[i]] < low[g.cur]
    <3>1. low \in [NodeIds -> Nat] /\ \A i \in DOMAIN g.stack : g.stack[i] \in NodeIds  BY DEF J, Linked, Named
    <3>2. Len(g.stack) \in DOMAIN g.stack /\ Last(g.stack) = g.stack[Len(g.stack)]
      <4>1. Len(g.stack) \in Nat \ {0}  BY <1>3, <2>3, FrontLast
      <4> QED  BY <1>3, <4>1 DEF Last
    <3> SUFFICES ASSUME NEW i \in DOMAIN g.stack, i # Len(g.stack) PROVE low[g.stack[i]] < low[g.cur]
      BY <2>3, <3>2
    <3>3. i < Len(g.stack)  BY <1>3
    <3>4. low[g.stack[i]] < low[Last(g.stack)]  BY <1>0, <3>2, <3>3 DEF Scanning
    <3> QED  BY <2>3, <3>1, <3>2, <3>4
  <2>8. ASSUME NEW i \in DOMAIN s, NEW j \in DOMAIN s, i < j PROVE low[s[i]] < low[s[j]]
    <3>1. i \in DOMAIN g.stack  BY <1>3, <2>4, <2>8
    <3>2. CASE j \in DOMAIN g.stack  BY <1>0, <1>3, <2>4, <2>8, <3>1, <3>2, Zenon DEF Scanning
    <3>3. CASE j = Len(g.stack) + 1  BY <1>3, <2>4, <2>7, <3>1, <3>3, Zenon
    <3> QED  BY <2>4, <3>2, <3>3
  <2> QED  BY <1>1, <1>2, <2>1, <2>5, <2>6, <2>8, Zenon DEF Scanning
<1>7. CASE ScanEnd(t)
  <2>1. th'[t].pc = "release" /\ th'[t].stack = g.stack  BY <1>0, <1>7, Effects, Zenon DEF Becomes
  <2>2. g.pc = "scan"  BY <1>7 DEF ScanEnd, At
  <2> QED  BY <1>0, <1>1, <2>1, <2>2, Zenon DEF Scanning
<1>8. CASE Release(t)
  <2> DEFINE s == Front(g.stack)
  <2>1. th'[t].pc = (IF Len(g.stack) = 1 THEN "return" ELSE "release") /\ th'[t].stack = s
    BY <1>8, MoreEffects, Zenon DEF Becomes
  <2>2. g.pc = "release"  BY <1>8 DEF Release, At
  <2>3. g.stack # <<>>  BY <1>0, <2>2 DEF Scanning
  <2>4. /\ Len(g.stack) \in Nat \ {0} /\ Len(s) = Len(g.stack) - 1 /\ DOMAIN s = 1 .. Len(g.stack) - 1
        /\ \A i \in 1 .. Len(g.stack) - 1 : s[i] = g.stack[i]
    BY <1>3, <2>3, FrontLast, Zenon
  <2>5. th'[t].pc = "release" => s # <<>>
    <3>1. Len(<<>>) = 0  OBVIOUS
    <3>2. \A l \in Nat \ {0} : l # 1 => l - 1 # 0  OBVIOUS
    <3>3. th'[t].pc = "release" => Len(g.stack) # 1  BY <2>1, Zenon
    <3> HIDE DEF s
    <3> QED  BY <2>4, <3>1, <3>2, <3>3, Zenon
  <2> HIDE DEF s
  <2>6. \A i \in DOMAIN s : i \in DOMAIN g.stack /\ s[i] = g.stack[i]  BY <1>3, <2>4
  <2>7. th'[t].pc \in {"return", "release"}  BY <2>1
  <2> QED  BY <1>0, <1>1, <2>1, <2>5, <2>6, <2>7 DEF Scanning
<1>9. CASE Begin(t) \/ Descend(t)
  <2>1. th'[t].pc \in {"descend", "return"} /\ th'[t].stack = g.stack
    BY <1>9, MoreEffects, Zenon DEF Calling, Moving, Becomes
  <2> QED  BY <1>0, <1>1, <2>1 DEF Scanning
<1>10. CASE Return(t)
  <2>1. th'[t].pc = "idle" /\ th'[t].stack = <<>>  BY <1>10, MoreEffects, Zenon DEF Becomes
  <2>2. DOMAIN <<>> = {}  OBVIOUS
  <2> QED  BY <2>1, <2>2 DEF Scanning
<1>11. CASE \/ LatchLeaf(t) \/ MoveRight(t) \/ LatchSibling(t) \/ UnlatchLeft(t)
            \/ FoundOrNot(t) \/ InsertRefused(t) \/ ScanEmpty(t)
            \/ PopPath(t) \/ TrackUpper(t) \/ LatchUpper(t) \/ LatchUpperSibling(t)
            \/ UnlatchUpper(t) \/ UnlatchChild(t) \/ UnlatchLast(t)
  <2>1. th'[t].pc \notin {"scan", "scan_next", "release"} /\ th'[t].stack = g.stack
    <3>1. CASE LatchLeaf(t) \/ MoveRight(t) \/ LatchSibling(t) \/ UnlatchLeft(t)
      BY <1>0, <3>1, Effects, Zenon DEF Becomes
    <3>2. CASE FoundOrNot(t) \/ InsertRefused(t) \/ ScanEmpty(t) \/ UnlatchLast(t)
      BY <1>0, <3>2, Effects, Zenon DEF Becomes
    <3>3. CASE PopPath(t) \/ TrackUpper(t) \/ LatchUpper(t) \/ LatchUpperSibling(t) \/ UnlatchUpper(t) \/ UnlatchChild(t)
      BY <1>0, <3>3, Effects, Zenon DEF Becomes
    <3> QED  BY <1>11, <3>1, <3>2, <3>3, Zenon
  <2> QED  BY <1>0, <1>1, <2>1 DEF Scanning
<1> QED  BY <1>4, <1>5, <1>6, <1>7, <1>8, <1>9, <1>10, <1>11 DEF Walk

\* Where a thread finds the nodes it names: in the tree, and siblings only in
\* nodes that nobody else holds.
Finds(t, n) == \/ n \in {root, nullptr}
               \/ \E m \in NodeIds : \/ node[m].upper = n
                                     \/ \E i \in DOMAIN node[m].kids : node[m].kids[i] = n
                                     \/ node[m].sib = n /\ (CanShare(m) \/ Owns(t, m) \/ Reads(t, m))
\* Where a thread can get to it could get to before, or finds in a node.
LEMMA Reaches ==
  ASSUME NEW low, J(low), NEW t \in Threads, Walk(t), UNCHANGED ops, NEW n, Uses(t, n)'
  PROVE  Uses(t, n) \/ Finds(t, n)
<1> DEFINE g == th[t]
<1>0. Types /\ Linked /\ Calls(t) /\ Descends(low, t) /\ Climbs(low, t) /\ Scanning(low, t)  BY DEF J
<1>1. /\ g.path \in Seq(Nat) /\ DOMAIN g.path = 1 .. Len(g.path) /\ g.stack \in Seq(Nat) /\ DOMAIN g.stack = 1 .. Len(g.stack)
      /\ Len(g.path) \in Nat /\ Len(g.stack) \in Nat /\ g.cur \in Nat
  BY <1>0, RegisterFacts
<1>2. \/ n \in {th'[t].cur, th'[t].work, th'[t].new}
      \/ \E i \in DOMAIN th'[t].path : th'[t].path[i] = n
      \/ \E i \in DOMAIN th'[t].stack : th'[t].stack[i] = n
  BY DEF Uses
<1>3. ASSUME th'[t].path = g.path, th'[t].stack = g.stack, th'[t].new = g.new,
             \A m \in {th'[t].cur, th'[t].work} : m \in {g.cur, g.work} \/ Finds(t, m)
      PROVE  Uses(t, n) \/ Finds(t, n)
  BY <1>2, <1>3, Zenon DEF Uses
<1>4. \A m \in NodeIds : Owns(t, m) \/ Reads(t, m) \/ CanShare(m) => Finds(t, node[m].sib)  BY DEF Finds
<1>5. \A s \in Seq(Nat) : s # <<>> =>
        /\ \A i \in DOMAIN Front(s) : \E j \in DOMAIN s : Front(s)[i] = s[j]
        /\ \E j \in DOMAIN s : Last(s) = s[j]
  <2> TAKE s \in Seq(Nat)
  <2> HAVE s # <<>>
  <2>0. DOMAIN s = 1 .. Len(s)  OBVIOUS
  <2>1. /\ Len(s) \in Nat \ {0} /\ DOMAIN Front(s) = 1 .. Len(s) - 1 /\ Last(s) = s[Len(s)]
        /\ \A i \in 1 .. Len(s) - 1 : Front(s)[i] = s[i]
    BY FrontLast
  <2>2. \A l \in Nat \ {0} : l \in 1 .. l /\ \A i \in 1 .. l - 1 : i \in 1 .. l  OBVIOUS
  <2> QED  BY <2>0, <2>1, <2>2, Zenon
<1>6. CASE Begin(t)
  <2>1. PICK o : Calling(t, o)  BY <1>6, MoreEffects, Zenon
  <2>2. th'[t].cur = root /\ th'[t].work = g.work /\ th'[t].path = g.path /\ th'[t].stack = g.stack /\ th'[t].new = g.new
    BY <2>1 DEF Calling, Becomes
  <2> QED  BY <1>3, <2>2 DEF Finds
<1>7. CASE Descend(t)
  <2>0. g.cur \in NodeIds /\ CanShare(g.cur)  BY <1>7, NextNode, Zenon DEF Descend
  <2>1. CASE Right(low, t) /\ Moving(t, "descend", Cur(t).sib, g.path)
    <3>1. Finds(t, Cur(t).sib)  BY <1>4, <2>0 DEF Cur
    <3> QED  BY <1>3, <2>1, <3>1, Zenon DEF Moving, Becomes
  <2>2. CASE Found(t) /\ Moving(t, "return", g.cur, g.path)
    BY <1>3, <2>2, Zenon DEF Moving, Becomes
  <2>3. ASSUME NEW c \in NodeIds, Under(low, t, c), Moving(t, "descend", c, PathOn(t)) PROVE Uses(t, n) \/ Finds(t, n)
    <3>1. Finds(t, c)  BY <2>0, <2>3, Zenon DEF Finds, Under, Cur
    <3>2. \A i \in DOMAIN PathOn(t) : PathOn(t)[i] = g.cur \/ (i \in DOMAIN g.path /\ PathOn(t)[i] = g.path[i])
      <4>1. \A i \in DOMAIN Append(g.path, g.cur) :
              Append(g.path, g.cur)[i] = g.cur \/ (i \in DOMAIN g.path /\ Append(g.path, g.cur)[i] = g.path[i])
        BY <1>1, Appended
      <4> QED  BY <4>1 DEF PathOn
    <3>3. /\ th'[t].cur = c /\ th'[t].work = g.work /\ th'[t].new = g.new
          /\ th'[t].path = PathOn(t) /\ th'[t].stack = g.stack
      BY <2>3 DEF Moving, Becomes
    <3> QED  BY <1>2, <3>1, <3>2, <3>3 DEF Uses
  <2> QED  BY <1>7, <2>1, <2>2, <2>3, MoreEffects, Zenon
<1>8. CASE MoveRight(t) \/ LatchSibling(t)
  <2>1. /\ th'[t].cur \in {g.cur, Cur(t).sib} /\ th'[t].work \in {g.work, Cur(t).sib}
        /\ th'[t].path = g.path /\ th'[t].stack = g.stack /\ th'[t].new = g.new
    BY <1>0, <1>8, Effects, Zenon DEF Becomes
  <2>2. g.pc = "leaf" /\ g.cur \in NodeIds  BY <1>0, <1>8 DEF MoveRight, LatchSibling, At, Descends
  <2>3. Finds(t, Cur(t).sib)
    <3>1. Owns(t, g.cur) \/ Reads(t, g.cur)  BY <2>2 DEF Owns, Reads
    <3> QED  BY <1>4, <2>2, <3>1 DEF Cur
  <2> QED  BY <1>3, <2>1, <2>3
<1>9. CASE LatchLeaf(t) \/ UnlatchLeft(t) \/ FoundOrNot(t) \/ InsertRefused(t) \/ ScanEmpty(t) \/ ScanEnd(t)
  <2>1. /\ {th'[t].cur, th'[t].work} \subseteq {g.cur, g.work}
        /\ th'[t].path = g.path /\ th'[t].stack = g.stack /\ th'[t].new = g.new
    BY <1>0, <1>9, Effects, Zenon DEF Becomes
  <2> QED  BY <1>3, <2>1
<1>10. CASE LatchUpper(t) \/ LatchUpperSibling(t) \/ UnlatchChild(t) \/ UnlatchLast(t)
  <2>1. /\ {th'[t].cur, th'[t].work} \subseteq {g.cur, g.work}
        /\ th'[t].path = g.path /\ th'[t].stack = g.stack /\ th'[t].new = g.new
    BY <1>0, <1>10, Effects, Zenon DEF Becomes
  <2> QED  BY <1>3, <2>1
<1>11. CASE PopPath(t)
  <2>1. /\ th'[t].cur = g.cur /\ th'[t].work = Last(g.path) /\ th'[t].new = g.new
        /\ th'[t].path = Front(g.path) /\ th'[t].stack = g.stack
    BY <1>0, <1>11, Effects, Zenon DEF Becomes
  <2>2. g.path # <<>>  BY <1>11 DEF PopPath
  <2>3. /\ \A i \in DOMAIN Front(g.path) : \E j \in DOMAIN g.path : Front(g.path)[i] = g.path[j]
        /\ \E j \in DOMAIN g.path : Last(g.path) = g.path[j]
    BY <1>1, <1>5, <2>2, Zenon
  <2> QED  BY <1>2, <2>1, <2>3 DEF Uses
<1>12. CASE TrackUpper(t)
  <2>1. /\ th'[t].cur = g.cur /\ th'[t].work = node[g.cur].upper
        /\ th'[t].path = g.path /\ th'[t].stack = g.stack /\ th'[t].new = g.new
    BY <1>0, <1>12, Effects, Zenon DEF Becomes, Cur
  <2>2. g.cur \in NodeIds  BY <1>0, <1>12 DEF TrackUpper, At, Climbs, Splitting
  <2>3. Finds(t, node[g.cur].upper)  BY <2>2 DEF Finds
  <2> QED  BY <1>3, <2>1, <2>3
<1>13. CASE UnlatchUpper(t)
  <2>1. /\ th'[t].cur = g.cur /\ th'[t].work = node[g.work].sib
        /\ th'[t].path = g.path /\ th'[t].stack = g.stack /\ th'[t].new = g.new
    BY <1>0, <1>13, Effects, Zenon DEF Becomes, Work
  <2>2. g.work \in NodeIds /\ Owns(t, g.work)  BY <1>0, <1>13 DEF UnlatchUpper, At, Climbs, Owns
  <2>3. Finds(t, node[g.work].sib)  BY <1>4, <2>2
  <2> QED  BY <1>3, <2>1, <2>3
<1>14. CASE ScanStart(t)
  <2>1. /\ th'[t].cur = g.cur /\ th'[t].work = g.work /\ th'[t].path = g.path /\ th'[t].stack = <<g.cur>> /\ th'[t].new = g.new
    BY <1>0, <1>14, Effects, Zenon DEF Becomes
  <2>2. \A i \in DOMAIN <<g.cur>> : <<g.cur>>[i] = g.cur  OBVIOUS
  <2> QED  BY <1>2, <2>1, <2>2 DEF Uses
<1>15. CASE ScanLeaf(t)
  <2>1. /\ th'[t].cur = node[g.cur].sib /\ th'[t].work = g.work
        /\ th'[t].path = g.path /\ th'[t].stack = g.stack /\ th'[t].new = g.new
    BY <1>0, <1>15, Effects, Zenon DEF Becomes, Cur
  <2>2. g.pc = "scan" /\ g.cur \in NodeIds  BY <1>15, Taken DEF ScanLeaf, At
  <2>3. g.stack # <<>> /\ g.cur = Last(g.stack)  BY <1>0, <2>2 DEF Scanning
  <2>4. Reads(t, g.cur)  BY <1>1, <1>5, <2>2, <2>3, Zenon DEF Reads
  <2>5. Finds(t, node[g.cur].sib)  BY <1>4, <2>2, <2>4
  <2> QED  BY <1>3, <2>1, <2>5
<1>16. CASE ScanNext(t)
  <2>1. /\ th'[t].cur = g.cur /\ th'[t].work = g.work /\ th'[t].path = g.path
        /\ th'[t].stack = Append(g.stack, g.cur) /\ th'[t].new = g.new
    BY <1>0, <1>16, Effects, Zenon DEF Becomes
  <2>2. \A i \in DOMAIN Append(g.stack, g.cur) :
          Append(g.stack, g.cur)[i] = g.cur \/ (i \in DOMAIN g.stack /\ Append(g.stack, g.cur)[i] = g.stack[i])
    BY <1>1, Appended
  <2> QED  BY <1>2, <2>1, <2>2 DEF Uses
<1>17. CASE Release(t)
  <2>1. th'[t].cur = g.cur /\ th'[t].work = g.work /\ th'[t].path = g.path /\ th'[t].stack = Front(g.stack) /\ th'[t].new = g.new
    BY <1>17, MoreEffects, Zenon DEF Becomes
  <2>2. g.stack # <<>>  BY <1>0, <1>17 DEF Release, At, Scanning
  <2>3. \A i \in DOMAIN Front(g.stack) : \E j \in DOMAIN g.stack : Front(g.stack)[i] = g.stack[j]
    BY <1>1, <1>5, <2>2, Zenon
  <2> QED  BY <1>2, <2>1, <2>3 DEF Uses
<1>18. CASE Return(t)
  <2>1. /\ th'[t].cur = nullptr /\ th'[t].work = nullptr /\ th'[t].new = nullptr
        /\ th'[t].path = <<>> /\ th'[t].stack = <<>>
    BY <1>18, MoreEffects, Zenon DEF Becomes
  <2>2. DOMAIN <<>> = {}  OBVIOUS
  <2> QED  BY <1>2, <2>1, <2>2, Zenon DEF Finds
<1> QED  BY <1>6, <1>7, <1>8, <1>9, <1>10, <1>11, <1>12, <1>13, <1>14, <1>15, <1>16, <1>17, <1>18 DEF Walk

\* What LatchUpper does to the root, and that no other step touches it.
LEMMA WalkRoot ==
  ASSUME NEW low, J(low), NEW t \in Threads, Walk(t)
  PROVE  root' = root \/ (LatchUpper(t) /\ Creates(t) /\ root' = th[t].work)
BY Zenon DEF Walk, Begin, Descend, LatchLeaf, MoveRight, LatchSibling, UnlatchLeft, FoundOrNot, InsertRefused, PopPath,
       TrackUpper, LatchUpper, LatchUpperSibling, UnlatchUpper, UnlatchChild, UnlatchLast, ScanEmpty, ScanStart,
       ScanLeaf, ScanNext, ScanEnd, Release, Return, Creates, At

\* A new right half is known to its thread only, until it has its entry above.
LEMMA WalkPrivate ==
  ASSUME NEW low, J(low), NEW t \in Threads, Walk(t), UNCHANGED ops
  PROVE  \A v \in Threads : Private(v)'
<1> DEFINE g == th[t]
<1>0. Types /\ Linked /\ Climbs(low, t) /\ \A v \in Threads : Private(v)  BY DEF J
<1>1. node' = node  BY WalkTypes
<1>2. NodeIds' = NodeIds  BY WalkOthers
<1>3. \A u \in Threads \ {t} : th'[u] = th[u]  BY <1>0, Others, Zenon DEF Walk, Step
<1>4. \A u \in Threads \ {t} : \A n : Uses(u, n)' <=> Uses(u, n)  BY <1>3, Zenon DEF Uses
<1>5. ASSUME NEW v \in Threads \ {t} PROVE Private(v)'
  <2> SUFFICES ASSUME th[v].pc \in Splitting
               PROVE  Private(v)'
    BY <1>3 DEF Private
  <2> DEFINE x == th[v].new
  <2>1. x \in NodeIds /\ x # nullptr /\ th[v].cur \in NodeIds
    BY <1>0, LinksAre, Zenon DEF J, Climbs
  <2>2. /\ x # root /\ x # th[v].cur /\ x # th[v].work
        /\ \A i \in DOMAIN th[v].path : th[v].path[i] # x
        /\ \A n \in NodeIds : /\ n # th[v].cur => node[n].sib # x
                              /\ node[n].upper # x
                              /\ \A i \in DOMAIN node[n].kids : node[n].kids[i] # x
        /\ \A u \in Threads \ {v} : ~ Uses(u, x)
    BY <1>0, Zenon DEF Private
  <2>3. Owns(v, th[v].cur)  BY DEF Owns
  <2>4. ~ CanShare(th[v].cur) /\ ~ Owns(t, th[v].cur) /\ ~ Reads(t, th[v].cur)  BY <2>1, <2>3, OwnedAlone, Zenon
  <2>5. ~ Finds(t, x)  BY <2>1, <2>2, <2>4 DEF Finds
  <2>6. PICK y : y = x  OBVIOUS
  <2>7. ~ Uses(t, y)'  BY <2>2, <2>5, <2>6, Reaches
  <2>8. \A u \in Threads \ {v} : ~ Uses(u, y)'  BY <1>4, <2>2, <2>6, <2>7
  <2>9. root' # y  BY <2>2, <2>6, WalkRoot DEF Uses
  <2>10. th'[v] = th[v] /\ th'[v].new = y  BY <1>3, <2>6
  <2> QED  BY <1>1, <1>2, <2>2, <2>6, <2>8, <2>9, <2>10, Zenon DEF Private
<1>6. Private(t)'
  <2> SUFFICES ASSUME th'[t].pc \in Splitting PROVE Private(t)'  BY DEF Private
  <2>1. /\ PopPath(t) \/ TrackUpper(t) \/ LatchUpper(t) \/ LatchUpperSibling(t) \/ UnlatchUpper(t)
        /\ th[t].pc \in Splitting
    <3>1. \/ PopPath(t) \/ TrackUpper(t) \/ LatchUpper(t) \/ LatchUpperSibling(t) \/ UnlatchUpper(t)
          \/ th'[t].pc \notin Splitting
      <4>1. ASSUME Begin(t) \/ Descend(t) \/ Release(t) \/ Return(t)
            PROVE  th'[t].pc \in {"descend", "return", "release", "idle"}
        BY <4>1, MoreEffects, Zenon DEF Calling, Moving, Becomes
      <4>2. ASSUME \/ LatchLeaf(t) \/ MoveRight(t) \/ LatchSibling(t) \/ UnlatchLeft(t)
                   \/ FoundOrNot(t) \/ InsertRefused(t) \/ ScanEmpty(t) \/ UnlatchChild(t) \/ UnlatchLast(t)
                   \/ ScanStart(t) \/ ScanLeaf(t) \/ ScanNext(t) \/ ScanEnd(t)
            PROVE  th'[t].pc \in {"leaf", "descend", "unlatch_left", "return", "insert", "scan", "scan_next", "release"}
        BY <1>0, <4>2, Effects, Zenon DEF Becomes
      <4> QED  BY <4>1, <4>2, Zenon DEF Walk, Splitting
    <3> QED  BY <3>1 DEF PopPath, TrackUpper, LatchUpper, LatchUpperSibling, UnlatchUpper, At, Splitting
  <2> DEFINE x == th[t].new
  <2>2. /\ x # root /\ x # g.cur /\ x # g.work
        /\ \A i \in DOMAIN g.path : g.path[i] # x
        /\ \A n \in NodeIds : /\ n # g.cur => node[n].sib # x
                              /\ node[n].upper # x
                              /\ \A i \in DOMAIN node[n].kids : node[n].kids[i] # x
        /\ \A u \in Threads \ {t} : ~ Uses(u, x)
    BY <1>0, <2>1, Zenon DEF Private
  <2>3. PICK y : y = x  OBVIOUS
  <2>4. \A u \in Threads \ {t} : ~ Uses(u, y)'  BY <1>4, <2>2, <2>3
  <2>5. root' # y  BY <2>2, <2>3, WalkRoot, Zenon
  <2>6. th'[t].new = y /\ th'[t].cur = g.cur
    BY <1>0, <2>1, <2>3, Effects, Zenon DEF Becomes
  <2>7. y # th'[t].work /\ \A i \in DOMAIN th'[t].path : th'[t].path[i] # y
    <3>1. CASE PopPath(t)
      <4>1. th'[t].work = Last(g.path) /\ th'[t].path = Front(g.path)  BY <1>0, <3>1, Effects, Zenon DEF Becomes
      <4>2. g.path \in Seq(Nat) /\ DOMAIN g.path = 1 .. Len(g.path) /\ g.path # <<>>
        BY <1>0, <3>1, RegisterFacts DEF PopPath
      <4>3. /\ Len(g.path) \in Nat \ {0} /\ DOMAIN Front(g.path) = 1 .. Len(g.path) - 1 /\ Last(g.path) = g.path[Len(g.path)]
            /\ \A i \in 1 .. Len(g.path) - 1 : Front(g.path)[i] = g.path[i]
        BY <4>2, FrontLast, Zenon
      <4>4. Len(g.path) \in DOMAIN g.path /\ \A i \in DOMAIN Front(g.path) : i \in DOMAIN g.path  BY <4>2, <4>3
      <4> QED  BY <2>2, <2>3, <4>1, <4>3, <4>4
    <3>2. CASE TrackUpper(t)
      <4>1. th'[t].work = node[g.cur].upper /\ th'[t].path = g.path  BY <1>0, <3>2, Effects, Zenon DEF Becomes, Cur
      <4>2. g.cur \in NodeIds  BY <1>0, <2>1 DEF Climbs
      <4> QED  BY <2>2, <2>3, <4>1, <4>2
    <3>3. CASE LatchUpper(t) \/ LatchUpperSibling(t)
      <4>1. th'[t].work = g.work /\ th'[t].path = g.path  BY <1>0, <3>3, Effects, Zenon DEF Becomes
      <4> QED  BY <2>2, <2>3, <4>1
    <3>4. CASE UnlatchUpper(t)
      <4>1. th'[t].work = node[g.work].sib /\ th'[t].path = g.path  BY <1>0, <3>4, Effects, Zenon DEF Becomes, Work
      <4>2. g.work \in NodeIds /\ g.work # g.cur  BY <1>0, <3>4 DEF Climbs, UnlatchUpper, At
      <4> QED  BY <2>2, <2>3, <4>1, <4>2
    <3> QED  BY <2>1, <3>1, <3>2, <3>3, <3>4
  <2> QED  BY <1>1, <1>2, <2>2, <2>3, <2>4, <2>5, <2>6, <2>7, Zenon DEF Private
<1> QED  BY <1>5, <1>6

\* Only one thread at a time works on the root's successor.
LEMMA OneCreator ==
  ASSUME NEW low, J(low), NEW t \in Threads, NEW u \in Threads, Creates(t), th[u].pc \in Splitting, th[u].cur = root
  PROVE  u = t
<1>1. root \in NodeIds  BY DEF J, Types
<1>2. Owns(t, root) /\ Owns(u, root)  BY DEF Creates, Owns, Splitting
<1> QED  BY <1>1, <1>2, OwnedAlone

\* A node above another is being filled, unless it is a new root that its
\* maker has not latched.
LEMMA Above ==
  ASSUME NEW low, J(low), NEW t \in Threads, th[t].pc = "split", th[t].cur # root, Empty(node[th[t].cur].upper),
         node[th[t].cur].upper # nullptr
  PROVE  Filling(node[th[t].cur].upper)
<1>1. th[t].cur \in NodeIds /\ Roots(low)  BY Zenon DEF J, Climbs, Splitting
<1>2. ASSUME NEW u \in Threads, Creates(u), th[t].cur \in {th[u].cur, th[u].new} PROVE FALSE
  <2>1. u # t /\ th[u].cur = root /\ th[u].pc \in Splitting  BY <1>2 DEF Creates, Splitting
  <2>2. Private(u)  BY DEF J
  <2> QED  BY <1>2, <2>1, <2>2, Zenon DEF Private, Uses
<1> QED  BY <1>1, <1>2 DEF Roots

\* An empty root stays with the thread that fills it.
LEMMA WalkRoots ==
  ASSUME NEW low, J(low), NEW t \in Threads, Walk(t), UNCHANGED ops
  PROVE  Roots(low)'
<1> DEFINE g == th[t]
<1>0. Types /\ Linked /\ Climbs(low, t) /\ Roots(low) /\ Private(t)  BY DEF J
<1>1. node' = node  BY WalkTypes
<1>2. NodeIds' = NodeIds /\ \A n : Empty(n)' <=> Empty(n)  BY WalkOthers
<1>3. \A u \in Threads \ {t} : th'[u] = th[u]  BY <1>0, Others, Zenon DEF Walk, Step
<1>4. \A n \in NodeIds : Empty(n) /\ Filling(n) => Filling(n)'  BY WalkFilling
<1>5. ASSUME th'[t].pc = "latch_upper"
      PROVE  /\ PopPath(t) \/ TrackUpper(t)
             /\ g.pc = "split" /\ g.cur # root /\ root' = root /\ th'[t].cur = g.cur
             /\ th'[t].work \in NodeIds
             /\ Empty(th'[t].work) => th'[t].work = node[g.cur].upper
  <2>1. PopPath(t) \/ TrackUpper(t)
    <3>1. ASSUME Begin(t) \/ Descend(t) \/ Release(t) \/ Return(t)
          PROVE  th'[t].pc \in {"descend", "return", "release", "idle"}
      BY <3>1, MoreEffects, Zenon DEF Calling, Moving, Becomes
    <3>2. ASSUME \/ LatchLeaf(t) \/ MoveRight(t) \/ LatchSibling(t) \/ UnlatchLeft(t)
                 \/ FoundOrNot(t) \/ InsertRefused(t) \/ ScanEmpty(t) \/ UnlatchLast(t)
                 \/ ScanStart(t) \/ ScanLeaf(t) \/ ScanNext(t) \/ ScanEnd(t)
          PROVE  th'[t].pc \in {"leaf", "descend", "unlatch_left", "return", "scan", "scan_next", "release"}
      BY <1>0, <3>2, Effects, Zenon DEF Becomes
    <3>3. ASSUME LatchUpper(t) \/ LatchUpperSibling(t) \/ UnlatchUpper(t) \/ UnlatchChild(t)
          PROVE  th'[t].pc \in {"find", "unlatch_upper", "insert"}
      BY <1>0, <3>3, Effects, Zenon DEF Becomes
    <3> QED  BY <1>5, <3>1, <3>2, <3>3, Zenon DEF Walk
  <2>2. g.pc = "split" /\ g.cur # root /\ root' = root  BY <2>1 DEF PopPath, TrackUpper, At
  <2>3. th'[t].cur = g.cur  BY <1>0, <2>1, Effects, Zenon DEF Becomes
  <2>4. th'[t].work \in NodeIds
    <3>1. Climbs(low, t)'  BY WalkClimbs
    <3> QED  BY <1>2, <1>5, <3>1 DEF Climbs
  <2>5. PopPath(t) => ~ Empty(th'[t].work)
    <3> HAVE PopPath(t)
    <3>1. th'[t].work = Last(g.path)  BY <1>0, Effects, Zenon DEF Becomes
    <3>2. g.path \in Seq(Nat) /\ DOMAIN g.path = 1 .. Len(g.path) /\ g.path # <<>>  BY <1>0, RegisterFacts DEF PopPath
    <3>3. Len(g.path) \in Nat \ {0} /\ Last(g.path) = g.path[Len(g.path)]  BY <3>2, FrontLast, Zenon
    <3>4. Len(g.path) \in DOMAIN g.path  BY <3>2, <3>3
    <3> QED  BY <3>1, <3>3, <3>4, Zenon DEF J, Descends
  <2>6. TrackUpper(t) => th'[t].work = node[g.cur].upper  BY <1>0, Effects, Zenon DEF Becomes, Cur
  <2> QED  BY <2>1, <2>2, <2>3, <2>4, <2>5, <2>6
<1>6. \A u \in Threads \ {t} : Creates(u)' => Creates(u) /\ root' = root
  <2> SUFFICES ASSUME NEW u \in Threads \ {t}, Creates(u)' PROVE Creates(u) /\ root' = root  OBVIOUS
  <2>1. th[u].pc = "latch_upper" /\ th[u].cur = root'  BY <1>3 DEF Creates
  <2>2. th[u].cur \in NodeIds /\ node[th[u].cur].keys # <<>>  BY <2>1, Zenon DEF J, Climbs, Splitting
  <2>3. Creates(t) => Empty(g.work)  BY <1>0, Zenon DEF Roots
  <2>4. root' = root  BY <2>1, <2>2, <2>3, WalkRoot DEF Empty
  <2> QED  BY <2>1, <2>4 DEF Creates
<1>7. ~ Creates(t)'  BY <1>5 DEF Creates
<1>8. \A u \in Threads \ {t} : Creates(u) => Creates(u)' /\ root' = root
  <2> SUFFICES ASSUME NEW u \in Threads \ {t}, Creates(u) PROVE Creates(u)' /\ root' = root  OBVIOUS
  <2>1. ~ Creates(t)  BY OneCreator DEF Creates, Splitting
  <2>2. root' = root  BY <2>1, WalkRoot
  <2> QED  BY <1>3, <2>2 DEF Creates
<1>9. Creates(t) => LatchUpper(t)
  BY DEF Creates, Walk, Begin, Descend, LatchLeaf, MoveRight, LatchSibling, UnlatchLeft, FoundOrNot, InsertRefused, PopPath,
       TrackUpper, LatchUpperSibling, UnlatchUpper, UnlatchChild, UnlatchLast, ScanEmpty, ScanStart,
       ScanLeaf, ScanNext, ScanEnd, Release, Return, At
<1>10. LatchUpper(t) => \A y : y = g.work => Filling(y)'
  <2> SUFFICES ASSUME LatchUpper(t), NEW y, y = g.work PROVE Filling(y)'  OBVIOUS
  <2>1. th'[t].pc = "find" /\ th'[t].work = g.work  BY <1>0, Effects, Zenon DEF Becomes
  <2> QED  BY <2>1 DEF Filling
<1>11. low[root'] = 0 /\ (Empty(root)' => Filling(root)')
  <2>1. PICK r : r = root'  OBVIOUS
  <2>2. CASE root' = root
    <3>1. r \in NodeIds /\ low[r] = 0 /\ (Empty(r) => Filling(r))  BY <1>0, <2>1, <2>2, Zenon DEF Roots, Types
    <3>2. Empty(r)' => Filling(r)'  BY <1>2, <1>4, <3>1
    <3> QED  BY <2>1, <3>1, <3>2 DEF Empty, Filling
  <2>3. CASE LatchUpper(t) /\ Creates(t) /\ root' = g.work
    <3>1. low[r] = 0  BY <1>0, <2>1, <2>3, Zenon DEF Roots, Creates
    <3>2. Filling(r)'  BY <1>10, <2>1, <2>3
    <3> QED  BY <2>1, <3>1, <3>2 DEF Filling
  <2> QED  BY <2>2, <2>3, WalkRoot
<1>12. ASSUME NEW u \in Threads, Creates(u)'
       PROVE  /\ Empty(th[u].work)' /\ low[th'[u].work] = low[th'[u].cur] /\ th'[u].work # root'
              /\ node'[th'[u].cur].upper = th'[u].work
              /\ \A v \in Threads \ {u} :
                   th'[v].pc \in {"latch_upper", "find", "unlatch_upper", "insert"} => th'[v].work # th'[u].work
  <2>1. u # t /\ Creates(u) /\ root' = root /\ th'[u] = th[u]  BY <1>3, <1>6, <1>7, <1>12
  <2>2. PICK w : w = th[u].work  OBVIOUS
  <2>3. /\ Empty(w) /\ low[w] = low[th[u].cur] /\ w # root /\ node[th[u].cur].upper = w
        /\ \A v \in Threads \ {u} :
             th[v].pc \in {"latch_upper", "find", "unlatch_upper", "insert"} => th[v].work # w
    BY <1>0, <2>1, <2>2, Zenon DEF Roots
  <2>4. w \in NodeIds  BY <2>1, <2>2, Zenon DEF J, Climbs, Creates
  <2>5. th'[t].pc \in {"latch_upper", "find", "unlatch_upper", "insert"} => th'[t].work # w
    <3>1. CASE LatchUpper(t) \/ LatchUpperSibling(t) \/ UnlatchChild(t)
      <4>1. th'[t].work = g.work  BY <1>0, <3>1, Effects, Zenon DEF Becomes
      <4>2. g.pc \in {"latch_upper", "find"}  BY <3>1 DEF LatchUpper, LatchUpperSibling, UnlatchChild, At
      <4> QED  BY <2>1, <2>3, <4>1, <4>2
    <3>2. CASE UnlatchUpper(t)
      <4>1. th'[t].work = node[g.work].sib  BY <1>0, <3>2, Effects, Zenon DEF Becomes, Work
      <4>2. g.work \in NodeIds /\ node[g.work].sib # nullptr  BY <1>0, <3>2 DEF UnlatchUpper, At, Climbs
      <4> QED  BY <2>3, <4>1, <4>2, Sibling
    <3>3. CASE th'[t].pc = "latch_upper"
      <4> SUFFICES ASSUME th'[t].work = w PROVE FALSE  OBVIOUS
      <4>1. g.pc = "split" /\ g.cur # root /\ node[g.cur].upper = w  BY <1>5, <2>3, <3>3
      <4>2. w # nullptr  BY <1>0, <2>4, LinksAre
      <4>3. Filling(w)  BY <2>3, <4>1, <4>2, Above
      <4> QED  BY <2>1, <2>2, <2>3, <4>3 DEF Filling, Creates
    <3>4. CASE th'[t].pc \in {"find", "unlatch_upper", "insert"} /\ ~ LatchUpper(t) /\ ~ LatchUpperSibling(t)
               /\ ~ UnlatchChild(t) /\ ~ UnlatchUpper(t)
      <4>1. ASSUME Begin(t) \/ Descend(t) \/ Release(t) \/ Return(t)
            PROVE  th'[t].pc \in {"descend", "return", "release", "idle"}
        BY <4>1, MoreEffects, Zenon DEF Calling, Moving, Becomes
      <4>2. ASSUME \/ LatchLeaf(t) \/ MoveRight(t) \/ LatchSibling(t) \/ UnlatchLeft(t)
                   \/ FoundOrNot(t) \/ InsertRefused(t) \/ ScanEmpty(t) \/ UnlatchLast(t)
                   \/ ScanStart(t) \/ ScanLeaf(t) \/ ScanNext(t) \/ ScanEnd(t) \/ PopPath(t) \/ TrackUpper(t)
            PROVE  th'[t].pc \in {"leaf", "descend", "unlatch_left", "return", "scan", "scan_next", "release", "latch_upper"}
        BY <1>0, <4>2, Effects, Zenon DEF Becomes
      <4> QED  BY <3>4, <4>1, <4>2, Zenon DEF Walk
    <3> QED  BY <3>1, <3>2, <3>3, <3>4
  <2>6. \A v \in Threads \ {u} : th'[v].pc \in {"latch_upper", "find", "unlatch_upper", "insert"} => th'[v].work # w
    BY <1>3, <2>3, <2>5
  <2>7. Empty(th[u].work)'  BY <1>1, <2>1, <2>2, <2>3 DEF Empty
  <2> QED  BY <1>1, <2>1, <2>2, <2>3, <2>6, <2>7
<1>13. ASSUME NEW u \in Threads, th'[u].pc = "latch_upper", th'[u].cur # root', Empty(th[u].work)'
       PROVE  Filling(th[u].work)'
  <2>1. PICK w : w = th'[u].work  OBVIOUS
  <2>2. Empty(w)  BY <1>1, <1>13, <2>1 DEF Empty
  <2>3. w \in NodeIds /\ Filling(w)
    <3>1. CASE u = t
      <4>1. g.pc = "split" /\ g.cur # root /\ node[g.cur].upper = w /\ w \in NodeIds  BY <1>5, <1>13, <2>1, <2>2, <3>1
      <4> QED  BY <1>0, <2>2, <4>1, LinksAre, Above
    <3>2. CASE u # t
      <4>1. th[u].pc = "latch_upper" /\ th[u].work = w /\ th[u].cur # root' /\ w \in NodeIds
        BY <1>3, <1>13, <2>1, <3>2, Zenon DEF J, Climbs
      <4>2. ~ Creates(u)  BY <1>8, <3>2, <4>1 DEF Creates
      <4> QED  BY <1>0, <2>2, <4>1, <4>2, Zenon DEF Roots, Creates
    <3> QED  BY <3>1, <3>2
  <2>4. Filling(w)'  BY <1>4, <2>2, <2>3
  <2> QED  BY <2>1, <2>4 DEF Filling
<1>14. ASSUME NEW n \in NodeIds, node[n].upper # nullptr, Empty(node[n].upper)
       PROVE  \/ \A y : y = node[n].upper => Filling(y)'
              \/ \E u \in Threads : Creates(u)' /\ th'[u].work = node[n].upper /\ n \in {th'[u].cur, th'[u].new}
  <2>1. PICK y : y = node[n].upper  OBVIOUS
  <2>2. y \in NodeIds  BY <1>0, <1>14, <2>1, LinksAre DEF Linked
  <2>3. CASE Filling(y)  BY <1>4, <1>14, <2>1, <2>2, <2>3
  <2>4. ASSUME NEW u \in Threads, Creates(u), th[u].work = y, n \in {th[u].cur, th[u].new}
        PROVE  Filling(y)' \/ (Creates(u)' /\ th'[u] = th[u])
    BY <1>3, <1>8, <1>9, <1>10, <2>4
  <2>5. Filling(y) \/ \E u \in Threads : Creates(u) /\ th[u].work = y /\ n \in {th[u].cur, th[u].new}
    BY <1>0, <1>14, <2>1 DEF Roots
  <2> QED  BY <2>1, <2>3, <2>4, <2>5
<1>15. ASSUME NEW n \in NodeIds, node[n].upper = nullptr
       PROVE  n = root' \/ \E u \in Threads : \/ Creates(u)' /\ n = th'[u].work
                                              \/ th'[u].pc = "split" /\ th'[u].cur = root' /\ n = th'[u].new
  <2>1. CASE n = root
    <3>1. ASSUME Creates(t) PROVE FALSE
      <4>1. th[t].cur = root /\ node[th[t].cur].upper = th[t].work  BY <1>0, <3>1, Zenon DEF Roots, Creates
      <4>2. th[t].work \in NodeIds  BY <1>0, <3>1, Zenon DEF Climbs, Creates
      <4> QED  BY <1>0, <1>15, <2>1, <4>1, <4>2, LinksAre
    <3> QED  BY <2>1, <3>1, WalkRoot, Zenon
  <2>2. ASSUME NEW u \in Threads, Creates(u), n = th[u].work
        PROVE  n = root' \/ (Creates(u)' /\ n = th'[u].work)
    <3>1. CASE u = t  BY <1>9, <2>2, <3>1 DEF LatchUpper, Creates
    <3>2. CASE u # t  BY <1>3, <1>8, <2>2, <3>2
    <3> QED  BY <3>1, <3>2
  <2>3. ASSUME NEW u \in Threads, th[u].pc = "split", th[u].cur = root, n = th[u].new
        PROVE  th'[u].pc = "split" /\ th'[u].cur = root' /\ n = th'[u].new
    <3>1. u # t
      BY <2>3, Zenon DEF Walk, Begin, Descend, LatchLeaf, MoveRight, LatchSibling, UnlatchLeft, FoundOrNot, InsertRefused, PopPath,
       TrackUpper, LatchUpper, LatchUpperSibling, UnlatchUpper, UnlatchChild, UnlatchLast, ScanEmpty, ScanStart,
       ScanLeaf, ScanNext, ScanEnd, Release, Return, At
    <3>2. ~ Creates(t)  BY <2>3, <3>1, OneCreator DEF Splitting
    <3> QED  BY <1>3, <2>3, <3>1, <3>2, WalkRoot
  <2> QED  BY <1>0, <1>15, <2>1, <2>2, <2>3, Zenon DEF Roots
<1>16. \A n \in NodeIds : node[n].upper # nullptr /\ Empty(node[n].upper)' =>
         Filling(node[n].upper)' \/ \E u \in Threads : Creates(u)' /\ th'[u].work = node[n].upper /\ n \in {th'[u].cur, th'[u].new}
  <2> SUFFICES ASSUME NEW n \in NodeIds, node[n].upper # nullptr, Empty(node[n].upper)'
               PROVE  Filling(node[n].upper)' \/ \E u \in Threads : Creates(u)' /\ th'[u].work = node[n].upper /\ n \in {th'[u].cur, th'[u].new}
    OBVIOUS
  <2>1. Empty(node[n].upper)  BY <1>1 DEF Empty
  <2>2. PICK y : y = node[n].upper  OBVIOUS
  <2>3. Filling(y)' => Filling(node[n].upper)'  BY <1>1, <2>2 DEF Filling
  <2> QED  BY <1>14, <2>1, <2>2, <2>3
<1> QED  BY <1>1, <1>2, <1>11, <1>12, <1>13, <1>15, <1>16, Zenon DEF Roots

\* Steps that leave the nodes alone keep the invariant, with the same bounds.
LEMMA WalkInv ==
  ASSUME NEW low, J(low), NEW t \in Threads, Walk(t), UNCHANGED ops
  PROVE  J(low)'
<1>1. low \in [NodeIds -> Nat]  BY DEF J
<1>2. Types' /\ Linked'  BY WalkTypes
<1>3. Latched' /\ Roots(low)'  BY WalkLatched, WalkRoots
<1>4. NodeIds' = NodeIds /\ Disjoint(low)' /\ \A n \in NodeIds : NodeOK(low, n)'  BY WalkOthers
<1>5. Calls(t)' /\ Descends(low, t)' /\ Climbs(low, t)' /\ Scanning(low, t)'
  BY WalkCalls, WalkDescends, WalkClimbs, WalkScanning
<1>6. \A u \in Threads : Calls(u)' /\ Descends(low, u)' /\ Climbs(low, u)' /\ Scanning(low, u)' /\ Private(u)'
  BY <1>5, WalkOthers, WalkPrivate
<1>p. PlaceIsFirst'  BY DEF J, PlaceIsFirst
<1> QED  BY <1>1, <1>2, <1>3, <1>4, <1>6, <1>p DEF J
=============================================================================
