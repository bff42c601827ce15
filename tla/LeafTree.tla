------------------------------ MODULE LeafTree ------------------------------
(***************************************************************************)
(* The operations of FB+-tree (FBTree/fbtree.h) over its leaves, one load  *)
(* or store at a time: lookup and update run without latches, upsert and   *)
(* remove latch leaves and run the programs of LeafNode.                   *)
(*                                                                         *)
(* Above the leaves is one inner node, the root, with as many anchors as   *)
(* it takes; without anchors it stands for a tree whose root is the leaf   *)
(* (what happens to an inner node that is no longer root is module FBTree).*)
(* Nobody latches a node above it and readers only see it unlatched, so a  *)
(* change of it is one step.  No memory is reclaimed while a thread works  *)
(* (module Epoch).                                                         *)
(***************************************************************************)
EXTENDS LeafNode

CONSTANTS Threads,   \* positive integers
          Setups,    \* trees and work for them: records [load, ops, string]
          MaxNodes   \* bound: leaves that can be allocated

ASSUME TreeAssumption == /\ Threads \subseteq Nat \ {0}
                         /\ MaxNodes \in Nat \ {0}

VARIABLES leaf,      \* the leaves, in order of allocation
          parent,    \* the inner node: control word, anchors, children
          th,        \* the registers of each thread
          load,      \* operations left to run one by one to build the tree
          ops,       \* what each thread may then do, once
          string,    \* the tree is an FBTree<String>
          witness    \* history: where the key of a running operation was

vars == <<leaf, parent, th, load, ops, string, witness>>

Idle == [pc |-> "idle", op |-> "none", key |-> 0, n |-> nullptr, next |-> nullptr,
         ver |-> 0, above |-> nullptr, pver |-> 0, mask |-> {}, old |-> NoKV, todo |-> <<>>, then |-> "none",
         hand |-> {}, mid |-> 0, new |-> nullptr, ret |-> NoKV,
         it |-> [node |-> nullptr, ver |-> 0, kv |-> NoKV, pos |-> 0],  \* the iterator
         cur |-> NoKV, pos |-> 0, site |-> "none", out |-> <<>>]

Init == /\ leaf = <<NewLeaf>>
        /\ parent = [ver |-> 0, lock |-> FALSE, anchors |-> <<>>, children |-> <<1>>]
        /\ th = [t \in Threads |-> Idle]
        /\ \E s \in Setups : load = s.load /\ ops = s.ops /\ string = s.string
        /\ witness = [t \in Threads |-> {}]

Loader == Min(Threads)
Loading == load # <<>>
Maker(t) == IF Loading THEN 0 ELSE t          \* who made the pair of an upsert
Mine(t) == KV(th[t].key, Maker(t))
At(t, l) == th[t].pc = l
Me(t) == leaf[th[t].n]
Reg(t, r) == th' = [th EXCEPT ![t] = r]       \* t's registers become r
Go(t, l) == Reg(t, [th[t] EXCEPT !.pc = l])
Run(t, prog, l) == [th[t] EXCEPT !.pc = "store", !.todo = prog, !.then = l]
Latch(n) == leaf' = [leaf EXCEPT ![n].lock = TRUE]
Unlatch(n) == leaf' = [leaf EXCEPT ![n].lock = FALSE]

\* An operation returns.  What the loader got is forgotten.
Return(t, r) ==
  /\ Reg(t, IF Loading THEN Idle
            ELSE [Idle EXCEPT !.pc = "done", !.op = th[t].op, !.key = th[t].key, !.ret = r])
  /\ load' = IF Loading THEN Tail(load) ELSE load
-----------------------------------------------------------------------------
(* The inner node: to_next, insert, remove *)

index(anchors, k) ==
  LET above == {i \in DOMAIN anchors : anchors[i] >= k} IN
  IF above = {} THEN Len(anchors) + 1 ELSE Min(above)

child(k) == parent.children[index(parent.anchors, k)]

\* An operation starts: it reads the root, unlatched, and goes to a leaf.
Start(t, op, k) ==
  /\ At(t, "idle")
  /\ IF Loading THEN t = Loader /\ <<op, k>> = Head(load) ELSE <<op, k>> \in ops[t]
  /\ ~ parent.lock
  /\ Reg(t, [Idle EXCEPT !.pc = IF op \in {"upsert", "remove"} THEN "latch" ELSE "begin",
                         !.op = op, !.key = k, !.n = child(k),
                         !.above = IF parent.anchors = <<>> THEN child(k) ELSE nullptr,
                         !.pver = IF parent.anchors = <<>> THEN 0 ELSE parent.ver])
  /\ UNCHANGED <<leaf, parent, load>>
-----------------------------------------------------------------------------
(* lookup and update *)

\* The version of the node above the leaves; a root leaf stands in for it.
pversion(t) == IF th[t].above = nullptr THEN parent.ver ELSE leaf[th[t].above].ver

\* begin_read waits for the latch.
BeginRead(t) ==
  /\ At(t, "begin") /\ ~ Me(t).lock
  /\ Reg(t, [th[t] EXCEPT !.pc = "deleted", !.ver = Me(t).ver])
  /\ UNCHANGED <<leaf, parent, load>>

\* to_sibling, one load at a time.  With the split token the high key is only
\* looked at when the leaf is splitting or the inner node has changed.
ToSibling(t) ==
  /\ \/ /\ At(t, "deleted")
        /\ Go(t, IF Me(t).del THEN "follow" ELSE IF string THEN "splitting" ELSE "has_sibling")
     \/ /\ At(t, "splitting")
        /\ Go(t, IF Me(t).split # 0 THEN "has_sibling" ELSE "pversion")
     \/ /\ At(t, "pversion")
        /\ Go(t, IF pversion(t) # th[t].pver THEN "has_sibling" ELSE "search")
     \/ /\ At(t, "has_sibling")
        /\ Go(t, IF Me(t).sib THEN "high_key" ELSE "search")
     \/ /\ At(t, "high_key")
        /\ Go(t, IF Me(t).high < th[t].key THEN "follow" ELSE "search")
  /\ UNCHANGED <<leaf, parent, load>>

\* The reader goes on at sibling_; a null pointer ends the run.
Follow(t) ==
  /\ At(t, "follow")
  /\ Reg(t, IF Me(t).sibling = nullptr THEN [th[t] EXCEPT !.pc = "null"]
            ELSE [th[t] EXCEPT !.pc = "begin", !.n = Me(t).sibling])
  /\ UNCHANGED <<leaf, parent, load>>

\* bitmap_ and the comparison of tags_ select the candidates; which of the two
\* is loaded first is the compiler's choice.
selects(l, half, k) == IF half = "bitmap" THEN l.bitmap ELSE {i \in Slots : l.tags[i] = Hash[k]}
Search(t) ==
  /\ At(t, "search") /\ th[t].op \in {"lookup", "update"}
  /\ \E half \in {"bitmap", "tags"} :
       Reg(t, [th[t] EXCEPT !.pc = "mask", !.mask = selects(Me(t), half, th[t].key),
                            !.then = IF half = "tags" THEN "bitmap" ELSE "tags"])
  /\ UNCHANGED <<leaf, parent, load>>

Mask(t) ==
  /\ At(t, "mask")
  /\ LET mask == th[t].mask \cap selects(Me(t), th[t].then, th[t].key) IN
     Reg(t, [th[t] EXCEPT !.pc = IF mask = {} THEN "end" ELSE "probe", !.mask = mask, !.then = "none"])
  /\ UNCHANGED <<leaf, parent, load>>

\* The load of the first candidate.
Probe(t) ==
  LET i == Min(th[t].mask)
      kv == Me(t).kvs[i]
      rest == th[t].mask \ {i} IN
  /\ At(t, "probe")
  /\ IF kv.key # th[t].key
     THEN /\ Reg(t, [th[t] EXCEPT !.mask = rest, !.pc = IF rest = {} THEN "end" ELSE "probe"])
          /\ UNCHANGED load
     ELSE IF th[t].op = "lookup" THEN Return(t, kv)
     ELSE Reg(t, [th[t] EXCEPT !.pc = "cas", !.old = kv]) /\ UNCHANGED load
  /\ UNCHANGED <<leaf, parent>>

\* Mutant: update stores without comparing.
BlindStore(t) ==
  /\ At(t, "cas")
  /\ leaf' = [leaf EXCEPT ![th[t].n].kvs[Min(th[t].mask)] = Mine(t)] /\ Return(t, th[t].old)
  /\ UNCHANGED parent

\* update's compare_exchange; on failure the slot is loaded again.
Cas(t) ==
  LET i == Min(th[t].mask) IN
  /\ At(t, "cas")
  /\ IF Me(t).kvs[i] = th[t].old
     THEN leaf' = [leaf EXCEPT ![th[t].n].kvs[i] = Mine(t)] /\ Return(t, th[t].old)
     ELSE Go(t, "probe") /\ UNCHANGED <<leaf, load>>
  /\ UNCHANGED parent

\* Mutant: the version is not compared.
Trusted(l, v) == TRUE

\* end_read waits for the latch, then trusts the result if the version is the same.
valid(l, v) == l.ver = v
EndRead(t) ==
  /\ At(t, "end") /\ ~ Me(t).lock
  /\ IF valid(Me(t), th[t].ver) THEN Return(t, NoKV) ELSE Go(t, "begin") /\ UNCHANGED load
  /\ UNCHANGED <<leaf, parent>>
-----------------------------------------------------------------------------
(* upsert and remove *)

LatchLeaf(t) ==
  /\ At(t, "latch") /\ ~ Me(t).lock
  /\ Latch(th[t].n) /\ Go(t, "latched")
  /\ UNCHANGED <<parent, load>>

\* to_sibling on a latched leaf, which nobody else changes.
goes_on(t) ==
  \/ Me(t).del
  \/ /\ string => Me(t).split # 0 \/ pversion(t) # th[t].pver
     /\ Me(t).sib /\ Me(t).high < th[t].key

LatchSibling(t) ==
  /\ At(t, "latched") /\ goes_on(t)
  /\ ~ leaf[Me(t).sibling].lock
  /\ Latch(Me(t).sibling)
  /\ Reg(t, [th[t] EXCEPT !.pc = "unlatch_left", !.next = Me(t).sibling])
  /\ UNCHANGED <<parent, load>>

UnlatchLeft(t) ==
  /\ At(t, "unlatch_left")
  /\ Unlatch(th[t].n)
  /\ Reg(t, [th[t] EXCEPT !.pc = "latched", !.n = th[t].next])
  /\ UNCHANGED <<parent, load>>

\* LeafNode::upsert: exchange of an existing pair, insertion, or split.
UpsertKey(t) ==
  LET n == th[t].n
      found == slots_of(Me(t), th[t].key) IN
  /\ At(t, "latched") /\ ~ goes_on(t) /\ th[t].op = "upsert"
  /\ \/ /\ found # {}
        /\ leaf' = [leaf EXCEPT ![n].kvs[Min(found)] = Mine(t)]
        /\ Reg(t, [th[t] EXCEPT !.pc = "unlatch", !.ret = Me(t).kvs[Min(found)]])
     \/ /\ found = {} /\ Me(t).bitmap # Slots
        /\ Reg(t, Run(t, insert(Me(t), n, Mine(t)), "unlatch"))
        /\ UNCHANGED leaf
     \/ /\ found = {} /\ Me(t).bitmap = Slots /\ Len(leaf) < MaxNodes
        /\ LET r == Len(leaf) + 1 IN
           /\ leaf' = Append(leaf, NewLeaf)
           /\ Reg(t, [Run(t, split(string, Me(t), n, r, Mine(t)), "split") EXCEPT !.new = r])
  /\ UNCHANGED <<parent, load>>

\* LeafNode::remove, up to its call of merge.
RemoveKey(t) ==
  LET found == slots_of(Me(t), th[t].key) IN
  /\ At(t, "latched") /\ ~ goes_on(t) /\ th[t].op = "remove"
  /\ IF found = {} THEN Go(t, "unlatch")
     ELSE Reg(t, Run(t, remove(th[t].n, Min(found)), "merge"))
  /\ UNCHANGED <<leaf, parent, load>>

\* The next store of a program; after the last one the thread goes on.
Store(t) ==
  LET s == Head(th[t].todo)
      rest == Tail(th[t].todo) IN
  /\ At(t, "store") /\ th[t].todo # <<>>
  /\ leaf' = [leaf EXCEPT ![s.n] = Stored(@, th[t].hand, s)]
  /\ Reg(t, [th[t] EXCEPT
       !.todo = rest, !.hand = Handed(leaf[s.n], th[t].hand, s),
       !.ret = IF s.do = "drop" THEN leaf[s.n].kvs[s.i] ELSE @,
       !.pc = IF rest = <<>> THEN th[t].then ELSE "store"])
  /\ UNCHANGED <<parent, load>>

\* merge looks at the right sibling, latches it and looks again.
Merge(t) ==
  /\ At(t, "merge")
  /\ Reg(t, IF Me(t).sib /\ merges(Me(t), leaf[Me(t).sibling])
            THEN [th[t] EXCEPT !.pc = "latch_right", !.next = Me(t).sibling]
            ELSE [th[t] EXCEPT !.pc = "clear_order"])
  /\ UNCHANGED <<leaf, parent, load>>

LatchRight(t) ==
  LET r == th[t].next IN
  /\ At(t, "latch_right") /\ ~ leaf[r].lock
  /\ Latch(r)
  /\ Reg(t, IF merges(Me(t), leaf[r])
            THEN [Run(t, merge(Me(t), th[t].n, leaf[r], r), "unlatch_right")
                    EXCEPT !.new = r, !.mid = Me(t).high]
            ELSE [th[t] EXCEPT !.pc = "unlatch_right"])
  /\ UNCHANGED <<parent, load>>

UnlatchRight(t) ==
  /\ At(t, "unlatch_right")
  /\ Unlatch(th[t].next) /\ Go(t, "clear_order")
  /\ UNCHANGED <<parent, load>>

\* Mutant: a leaf with a gap still counts as ordered.
StaysOrdered(t) ==
  /\ At(t, "clear_order")
  /\ Go(t, IF th[t].new # nullptr THEN "climb" ELSE "unlatch")
  /\ UNCHANGED <<leaf, parent, load>>

ClearOrder(t) ==
  /\ At(t, "clear_order")
  /\ leaf' = [leaf EXCEPT ![th[t].n].ord = FALSE]
  /\ Go(t, IF th[t].new # nullptr THEN "climb" ELSE "unlatch")
  /\ UNCHANGED <<parent, load>>

\* A leaf that was not split or merged is unlatched and the operation returns.
UnlatchLeaf(t) ==
  /\ At(t, "unlatch")
  /\ Unlatch(th[t].n) /\ Return(t, th[t].ret)
  /\ UNCHANGED parent
-----------------------------------------------------------------------------
(* Posting a split or a merge in the inner node *)

\* The latch of the inner node, found by index_or_sibling.
LatchParent(t) ==
  /\ th[t].pc \in {"split", "climb"} /\ ~ parent.lock
  /\ parent' = [parent EXCEPT !.lock = TRUE]
  /\ Reg(t, IF At(t, "split") THEN [th[t] EXCEPT !.pc = "unlatch_child", !.mid = Me(t).high]
                              ELSE [th[t] EXCEPT !.pc = "anchor_remove"])
  /\ UNCHANGED <<leaf, load>>

\* A split leaf is unlatched before its anchor is inserted.
UnlatchChild(t) ==
  /\ At(t, "unlatch_child")
  /\ Unlatch(th[t].n) /\ Go(t, "anchor_insert")
  /\ UNCHANGED <<parent, load>>

AnchorInsert(t) ==
  LET i == index(parent.anchors, th[t].mid) IN
  /\ At(t, "anchor_insert")
  /\ parent' = [parent EXCEPT !.ver = @ + 1, !.anchors = InsertAt(@, i, th[t].mid),
                              !.children = InsertAt(@, i + 1, th[t].new)]
  /\ Go(t, "end_splitting")
  /\ UNCHANGED <<leaf, load>>

EndSplitting(t) ==
  /\ At(t, "end_splitting")
  /\ leaf' = IF string THEN [leaf EXCEPT ![th[t].n].split = @ - 1] ELSE leaf
  /\ Go(t, "unlatch_parent")
  /\ UNCHANGED <<parent, load>>

\* The inner node is the root: the merged leaf stays latched until its
\* separator is gone.
AnchorRemove(t) ==
  LET i == index(parent.anchors, th[t].mid) IN
  /\ At(t, "anchor_remove")
  /\ parent' = [parent EXCEPT !.ver = @ + 1, !.anchors = RemoveAt(@, i),
                              !.children = RemoveAt(@, i + 1)]
  /\ Go(t, "unlatch_merged")
  /\ UNCHANGED <<leaf, load>>

UnlatchMerged(t) ==
  /\ At(t, "unlatch_merged")
  /\ Unlatch(th[t].n) /\ Go(t, "unlatch_parent")
  /\ UNCHANGED <<parent, load>>

UnlatchParent(t) ==
  /\ At(t, "unlatch_parent")
  /\ parent' = [parent EXCEPT !.lock = FALSE]
  /\ Return(t, th[t].ret)
  /\ UNCHANGED leaf
-----------------------------------------------------------------------------

Step(t) ==
  \/ \E op \in {"lookup", "update", "upsert", "remove"}, k \in Keys : Start(t, op, k)
  \/ BeginRead(t) \/ ToSibling(t) \/ Follow(t) \/ Search(t) \/ Mask(t) \/ Probe(t) \/ Cas(t) \/ EndRead(t)
  \/ LatchLeaf(t) \/ LatchSibling(t) \/ UnlatchLeft(t) \/ UpsertKey(t) \/ RemoveKey(t) \/ Store(t)
  \/ Merge(t) \/ LatchRight(t) \/ UnlatchRight(t) \/ ClearOrder(t) \/ UnlatchLeaf(t)
  \/ LatchParent(t) \/ UnlatchChild(t) \/ AnchorInsert(t) \/ EndSplitting(t)
  \/ AnchorRemove(t) \/ UnlatchMerged(t) \/ UnlatchParent(t)

Done == ~ Loading /\ \A t \in Threads : th[t].pc \in {"done", "null"} \/ (At(t, "idle") /\ ops[t] = {})
Finish == Done /\ UNCHANGED <<leaf, parent, th, load>>

\* Every pair in a slot, and in the hands of a thread that moves it.
Stock(lf, regs) ==
  {lf[n].kvs[i] : n \in DOMAIN lf, i \in Slots} \cup UNION {regs[t].hand : t \in Threads}
Has(lf, regs, k) == \E kv \in Stock(lf, regs) : kv.key = k
Inserting(regs, k) ==
  \E t \in Threads : regs[t].pc = "store" /\ regs[t].op = "upsert" /\ regs[t].key = k

\* Whether the key of a running operation was there: "in", "out", or both.
\* A key that is being inserted may count as not yet there.
Observe ==
  witness' = [t \in Threads |->
    LET k == th'[t].key IN
    IF th'[t].pc = "idle" THEN {}
    ELSE IF th'[t].pc = "done" THEN witness[t]
    ELSE witness[t] \cup (IF Has(leaf', th', k) THEN {"in"} ELSE {"out"})
                    \cup (IF Inserting(th', k) THEN {"out"} ELSE {})]

Next == ((\E t \in Threads : Step(t)) \/ Finish) /\ Observe /\ UNCHANGED <<ops, string>>

Spec == Init /\ [][Next]_vars
-----------------------------------------------------------------------------
\* Slots, links and versions have their types, and an anchor has its child.
TypeOK ==
  /\ \A n \in DOMAIN leaf :
       /\ leaf[n].ver \in Nat /\ leaf[n].split \in Nat
       /\ leaf[n].bitmap \subseteq Slots
       /\ leaf[n].sibling \in 0 .. Len(leaf)
  /\ Len(parent.children) = Len(parent.anchors) + 1
  /\ \A t \in Threads : th[t].n \in 0 .. Len(leaf) /\ th[t].mask \subseteq Slots

PointOps == {"lookup", "update", "upsert", "remove"}
Missed(t) == th[t].pc = "done" /\ th[t].op \in PointOps /\ th[t].ret = NoKV
Found(t) == th[t].pc = "done" /\ th[t].op \in PointOps /\ th[t].ret # NoKV

\* What a latch-free operation answers was true at some moment of its run: it
\* misses no key that was there all the time (README: "latch-free index
\* traversal"; lnode.h:205, 221, control.h:81-104).
AnswersWereTrue ==
  \A t \in Threads : /\ Missed(t) => "out" \in witness[t]
                     /\ Found(t) => "in" \in witness[t]

Installed(t) ==
  th[t].pc = "done" /\ (th[t].op = "upsert" \/ (th[t].op = "update" /\ th[t].ret # NoKV))
Owners(kv) ==
  Cardinality({p \in (DOMAIN leaf) \X Slots : leaf[p[1]].kvs[p[2]] = kv})
  + Cardinality({t \in Threads : kv \in th[t].hand})
  + Cardinality({t \in Threads : th[t].op # "lookup" /\ th[t].ret = kv})

\* A pair that was installed is in one place, or has been handed to one
\* caller, who frees it: no update is lost to a split, merge, sort or remove
\* and no old pair is handed out twice (lnode.h:222-251).
PairsAreOwnedOnce ==
  TypeOK /\ \A kv \in Stock(leaf, th) \cup {KV(th[t].key, t) : t \in {u \in Threads : Installed(u)}} :
    kv.key > 0 => Owners(kv) = 1

Settled == \A t \in Threads : th[t].pc \in {"idle", "done"}
Leads(k) ==
  LET hop(n, i) == IF leaf[n].del \/ (leaf[n].sib /\ leaf[n].high < k) THEN leaf[n].sibling ELSE n
  IN FoldLeft(hop, child(k), [i \in 1 .. MaxNodes |-> i])

\* Between operations every pair is found by its tag in the leaf that the
\* anchors and high keys lead to, and no key is there twice: whatever was
\* moved by splits, merges and sorts stays reachable (lnode.h:206-219, 340-355).
PairsAreFindable ==
  Settled => \A kv \in Stock(leaf, th) : kv.key > 0 =>
    /\ \E i \in slots_of(leaf[Leads(kv.key)], kv.key) : leaf[Leads(kv.key)].kvs[i] = kv
    /\ \A other \in Stock(leaf, th) : other.key = kv.key => other = kv

Live == {n \in DOMAIN leaf : ~ leaf[n].del}

\* Between operations the anchors are the high keys of the leaves from left
\* to right, and only the rightmost leaf can be empty, which is what lets a
\* scan stop at the first leaf without keys (lnode.h:97, fbtree.h:81-82).
AnchorsAreHighKeys ==
  Settled =>
    LET c == parent.children IN
    /\ {c[i] : i \in DOMAIN c} = Live
    /\ \A i \in DOMAIN parent.anchors :
         /\ leaf[c[i]].sib /\ leaf[c[i]].sibling = c[i + 1]
         /\ leaf[c[i]].high = parent.anchors[i]
         /\ leaf[c[i]].bitmap # {}
    /\ ~ leaf[Last(c)].sib

\* A reader that looks into a leaf has its key covered by the leaf if the leaf
\* is still at the version the reader began with: the version check after the
\* search is enough (lnode.h:662-680, "current node is consistent").
ValidLeafCoversKey ==
  \A t \in Threads :
    At(t, "search") /\ ~ Me(t).lock /\ Me(t).ver = th[t].ver
      => ~ Me(t).del /\ (Me(t).sib => th[t].key <= Me(t).high)

\* to_sibling never yields a null pointer (DEBUG_COND_ERROR, lnode.h:193, 199).
NoNullSibling == \A t \in Threads : th[t].pc # "null"
=============================================================================
