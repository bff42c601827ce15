------------------------- MODULE RWQueueLockProofs -------------------------
(***************************************************************************)
(* A writer is alone in the reader-writer locks, for any number of threads *)
(* and calls, each call with a queue node of its own.                      *)
(*                                                                         *)
(* In the queue, exclusion rests on the nodes being opened in the order of *)
(* the exchanges (InOrder), on the calls in front of an open writer's node *)
(* having left (Excludes), on reader_count_ standing for exactly the       *)
(* readers that are in or about to be woken (Counted), and on what         *)
(* next_writer_ and the last reader out may have in hand (Announced,       *)
(* Exits, Claims).  A thread's words are read and changed by others at     *)
(* every step, so each of these needs the others.  The centralised builds  *)
(* have an invariant of their own (CInv).                                  *)
(*                                                                         *)
(* MCLocksProofs states the theorem, for the composition.                  *)
(***************************************************************************)
EXTENDS RWQueueLock, TLAPS

\* How sets of threads are counted.  It follows from there being finitely many
\* (ThreadsCount of MCLocksProofs) and stands here so that the theorems about
\* finite sets, which slow down every proof, need not be in sight.
Sizes == \A S \in SUBSET Threads :
            /\ Cardinality(S) \in Nat /\ (Cardinality(S) = 0 <=> S = {})
            /\ \A t \in Threads \ S : Cardinality(S \cup {t}) = Cardinality(S) + 1
            /\ \A t \in S : Cardinality(S \ {t}) = Cardinality(S) - 1

\* There are finitely many threads, and each call brings a queue node of its own.
Assumptions == Sizes /\ Calls \in Nat /\ ~Reuse

\* A thread that has left the queue; it may still owe a waiting writer its wake-up.
Out == {"idle", "x_load", "x_count", "x_claim", "x_wake"}

\* ... or that has passed its node on and has only to count itself out.
Gone == Out \cup {"r_exit"}

\* Before the step that can open the thread's node.
Shut == {"w_announce", "w_class", "w_link", "r_look", "r_link", "r_count", "r_follow", "r_unblock"}

\* Where another thread may open the node.
Either == {"w_count", "w_claim", "w_wait", "r_wait"}

\* Before the thread has linked its node behind the one in front.
Unlinked == {"w_announce", "w_count", "w_claim", "w_class", "w_link", "r_look", "r_link", "r_count", "r_follow"}

\* Where a call to lock or unlock can be.
Writing == {"w_announce", "w_count", "w_claim", "w_class", "w_link", "w_wait",
            "writing", "w_leave", "w_pass", "w_wake"}

\* Where a call to read_lock can be.
Early == {"r_look", "r_link", "r_wait", "r_count", "r_follow", "r_unblock", "r_in", "r_next", "r_wake"}

\* Where a call to read_lock or read_unlock can be.
Reading == Early \cup {"reading", "r_leave", "r_pass", "r_exit"}

\* Where a thread of the queue can be.
QueuePCs == Out \cup Writing \cup Reading \cup {"await"}

\* Where a thread of a centralised lock can be.
CentralPCs == {"idle", "c_turn", "c_cas", "writing", "c_complete", "c_finished", "c_spin", "c_add",
               "c_clear", "reading"}

\* Short for two fields of a node.
blocked(n) == qnode[n].blocked
class(n) == qnode[n].class

\* The call that brought node n has left the queue.
Left(n) == \A t \in Threads : mynode[t] = n => pc[t] \in Out

\* Node n is of a writer that is in, or has been woken.
InW(n) == class(n) = "writing" /\ ~blocked(n) /\ ~Left(n)

\* Everybody in front of node n is let in, and no writer is in there.
Front(n) == \A k \in 1 .. n - 1 : ~blocked(k) /\ ~InW(k)

\* Who is directly in front of node n has announced what it had to announce.
Passed(n) == \A t \in Threads : mynode[t] # 0 /\ mynode[t] + 1 = n => pc[t] \in Gone

\* What a queue node holds.
QNodes == [class : {"reading", "writing"}, blocked : BOOLEAN,
           successor : {"none", "reader", "writer"}, next : Nat]

\* Nodes are numbered in the order of the exchanges; the last one is the tail.
QTypes == /\ reader_count \in Nat
          /\ calls \in Nat /\ calls <= Calls
          /\ tail \in {0, calls}
          /\ next_writer \in 0 .. calls
          /\ qnode \in [1 .. Calls -> QNodes]
          /\ mynode \in [Threads -> Nat]
          /\ ptr \in [Threads -> Nat]
          /\ pc \in [Threads -> QueuePCs]
          /\ \A t \in Threads : mynode[t] <= calls /\ ptr[t] <= calls

\* A call has a node, and no two threads have the same one.
OwnNodes == /\ \A t \in Threads : pc[t] # "idle" => mynode[t] # 0
            /\ \A t, u \in Threads : mynode[t] = mynode[u] /\ mynode[t] # 0 => t = u

\* A closed node is of a thread that waits with it.
Owned == \A n \in 1 .. calls : blocked(n) =>
            \E t \in Threads : mynode[t] = n /\ pc[t] \in Shut \cup Either

\* Open or closed, reader's or writer's: what a thread's place says of its node.
Blocks == \A t \in Threads : pc[t] \notin Out =>
            /\ pc[t] \in Shut => blocked(mynode[t])
            /\ pc[t] \notin Shut \cup Either => ~blocked(mynode[t])
            /\ pc[t] \in Writing => class(mynode[t]) = "writing"
            /\ pc[t] \in Reading => class(mynode[t]) = "reading"

\* A thread that is to link itself has the node in front of its own in hand.
Preds == \A t \in Threads :
           /\ pc[t] \in {"w_class", "w_link", "r_look", "r_link", "r_follow"} =>
                 ptr[t] # 0 /\ ptr[t] = mynode[t] - 1
           /\ pc[t] = "r_count" => ptr[t] = 0 \/ ptr[t] = mynode[t] - 1

\* next_ leads to the next number, and is set where it is followed.
Links == /\ \A n \in 1 .. Calls : qnode[n].next # 0 =>
              /\ qnode[n].next = n + 1 /\ n + 1 <= calls
              /\ \A t \in Threads : mynode[t] = n + 1 => pc[t] \notin Unlinked
         /\ \A t \in Threads : pc[t] \in {"w_pass", "r_pass", "w_wake", "r_wake"} => qnode[mynode[t]].next # 0

\* successor_class_ tells the class of the node behind.
Successors == \A n \in 1 .. Calls : qnode[n].successor # "none" =>
                /\ n + 1 <= calls
                /\ \A t \in Threads : mynode[t] = n + 1 => pc[t] \notin {"w_class", "r_look"}
                /\ qnode[n].successor = "writer" => class(n + 1) = "writing"
                /\ qnode[n].successor = "reader" => class(n + 1) = "reading"

\* A reader that must let the reader behind it in finds that reader waiting.
Behind == \A t \in Threads :
            /\ pc[t] \in {"r_next", "r_wake"} => qnode[mynode[t]].successor = "reader"
            /\ pc[t] \in Early /\ qnode[mynode[t]].successor = "reader"
                 => /\ blocked(mynode[t] + 1)
                    /\ \A u \in Threads : mynode[u] = mynode[t] + 1 => pc[u] \in {"r_link", "r_wait"}

\* Nodes are opened in order.
InOrder == \A m, n \in 1 .. calls : m < n /\ blocked(m) => blocked(n)

\* An open writer's node has only left calls in front and, while it is in, closed nodes behind.
Excludes == \A m \in 1 .. calls :
              /\ class(m) = "writing" /\ ~blocked(m) => \A k \in 1 .. m - 1 : Left(k)
              /\ InW(m) => \A k \in m + 1 .. calls : blocked(k)

\* Who lets itself in, who comes next, and who is announced, is at the front.
Fronts == /\ \A t \in Threads : pc[t] \in {"w_announce", "r_count", "r_follow", "r_unblock"} => Front(mynode[t])
          /\ tail = 0 => Front(calls + 1) /\ Passed(calls + 1)
          /\ next_writer # 0 => Front(next_writer) /\ Passed(next_writer)
          /\ \A t \in Threads : pc[t] = "w_announce" => Passed(mynode[t])

\* next_writer_ is a writer that waits.
Announced == next_writer # 0 =>
               /\ blocked(next_writer)
               /\ \A t \in Threads : mynode[t] = next_writer => pc[t] \in {"w_count", "w_claim", "w_wait"}

\* The last reader out wakes a writer that still waits, and only one reader does.
Exits == \A t \in Threads :
           /\ pc[t] \in {"x_count", "x_claim", "x_wake"} =>
                /\ ptr[t] # 0 /\ Passed(ptr[t])
                /\ \A u \in Threads : mynode[u] = ptr[t] => pc[u] # "w_announce"
           /\ pc[t] = "x_wake" =>
                /\ blocked(ptr[t]) /\ next_writer = 0
                /\ \A k \in 1 .. ptr[t] - 1 : Left(k) /\ ~blocked(k)
                /\ \A u \in Threads : mynode[u] = ptr[t] => pc[u] \in {"w_count", "w_claim", "w_wait"}
                /\ \A u \in Threads : pc[u] = "x_wake" => u = t

\* A claim that will succeed finds no reader counted.
Claims == \A t \in Threads :
            /\ pc[t] = "w_claim" /\ next_writer = mynode[t] => reader_count = 0
            /\ pc[t] = "x_claim" /\ next_writer = ptr[t] => reader_count = 0

\* A reader that has counted itself in or has been counted in.
Inside == {"r_follow", "r_unblock", "r_in", "r_next", "r_wake", "reading", "r_leave", "r_pass", "r_exit"}

\* The same with the reader at whose node a waker is about to arrive.
In(t) == \/ pc[t] \in Inside
         \/ pc[t] = "await" /\ class(mynode[t]) = "reading"
         \/ /\ pc[t] = "r_wait"
            /\ \/ ~blocked(mynode[t])
               \/ \E u \in Threads : pc[u] \in {"w_wake", "r_wake"} /\ mynode[u] + 1 = mynode[t]

\* The readers that reader_count_ stands for.
Count == {t \in Threads : In(t)}

\* reader_count_ is exact.
Counted == reader_count = Cardinality(Count)

\* The inductive invariant of the queue.
QInv == /\ Assumptions /\ kind = "queue"
        /\ QTypes /\ OwnNodes /\ Owned /\ Blocks /\ Preds /\ Links /\ Successors /\ Behind /\ InOrder
        /\ Excludes /\ Fronts /\ Announced /\ Exits /\ Claims /\ Counted
-----------------------------------------------------------------------------
\* Steps, by what they do to the queue nodes
Quiet(t) ==
  \/ WriteAnnounce(t) \/ WriteCount(t) \/ WriteGranted(t) \/ WriteUnlock(t) \/ ReadUnlock(t)
  \/ LeaveTail(t) \/ AwaitNext(t) \/ WritePass(t) \/ ReadGranted(t) \/ ReadCount(t) \/ ReadIn(t)
  \/ ReadAdmit(t) \/ ReadPass(t) \/ ReadExit(t) \/ ExitLoad(t) \/ ExitCount(t) \/ ExitClaim(t)

\* Steps that open a node.
Opens(t) == WriteClaim(t) \/ WriteWake(t) \/ ReadUnblock(t) \/ ReadWake(t) \/ ExitWake(t)

\* Steps that link a node to the one in front, or tell it the class.
Ties(t) == WriteClass(t) \/ WriteLink(t) \/ ReadLook(t) \/ ReadLink(t) \/ ReadFollow(t)

\* Steps that bring a new node.
Joins(t) == WriteExchange(t) \/ ReadExchange(t)

\* The steps of the queue.
QStep(t) == Quiet(t) \/ Opens(t) \/ Ties(t) \/ Joins(t)

\* In the queue build a thread takes steps of the queue only.
LEMMA IsQStep ==
  ASSUME QInv, NEW t \in Threads, Step(t)
  PROVE  QStep(t) /\ kind' = kind
<1>1. pc[t] \in QueuePCs /\ kind = "queue"  BY DEF QInv, QTypes
<1>2. pc[t] \notin {"c_turn", "c_cas", "c_complete", "c_finished", "c_spin", "c_add", "c_clear"}
  BY <1>1 DEF QueuePCs, Out, Writing, Reading, Early
<1>3. QStep(t)
  BY <1>1, <1>2 DEF Step, QStep, Quiet, Opens, Ties, Joins, Request, AwaitTurn, TakeFlag, DropFlag, Complete,
     LoadRequests, LoadCompletions, AddReader, AwaitNoWriter, SubReader
<1>4. kind' = kind
  BY <1>3 DEF QStep, Quiet, Opens, Ties, Joins, WriteAnnounce, WriteCount, WriteGranted, WriteUnlock, ReadUnlock,
     LeaveTail, AwaitNext, WritePass, ReadGranted, ReadCount, ReadIn, ReadAdmit, ReadPass, ReadExit, ExitLoad, ExitCount,
     ExitClaim, WriteClaim, WriteWake, ReadUnblock, ReadWake, ExitWake, WriteClass, WriteLink, ReadLook, ReadLink,
     ReadFollow, WriteExchange, ReadExchange
<1> QED  BY <1>3, <1>4


\* What every step leaves alone: the other threads' registers, ...
LEMMA Moves ==
  ASSUME QInv, NEW t \in Threads, QStep(t)
  PROVE  /\ pc' = [pc EXCEPT ![t] = pc'[t]] /\ pc'[t] \in QueuePCs
         /\ \A u \in Threads : u # t => pc'[u] = pc[u] /\ ptr'[u] = ptr[u] /\ mynode'[u] = mynode[u]
<1>1. /\ pc \in [Threads -> QueuePCs] /\ ptr \in [Threads -> Nat] /\ mynode \in [Threads -> Nat]
      /\ kind = "queue"
  BY DEF QInv, QTypes
<1>2. CASE Quiet(t)
  BY <1>1, <1>2 DEF Quiet, WriteAnnounce, WriteCount, WriteGranted, WriteUnlock, ReadUnlock,
     LeaveTail, AwaitNext, WritePass, ReadGranted, ReadCount, ReadIn, ReadAdmit, ReadPass, ReadExit, ExitLoad, ExitCount,
     ExitClaim, queued, Goto, Hand, Leaving, Passing, QueuePCs, Out, Writing, Reading, Early
<1>3. CASE Opens(t)
  BY <1>1, <1>3 DEF Opens, WriteClaim, WriteWake, ReadUnblock, ReadWake, ExitWake, Goto, QueuePCs, Out, Writing, Reading, Early
<1>4. CASE Ties(t)
  BY <1>1, <1>4 DEF Ties, WriteClass, WriteLink, ReadLook, ReadLink, ReadFollow, Goto, QueuePCs, Out, Writing, Reading, Early
<1>5. CASE Joins(t)
  BY <1>1, <1>5 DEF Joins, WriteExchange, ReadExchange, Join, Hand, Goto, QueuePCs, Out, Writing, Reading, Early
<1> QED  BY <1>2, <1>3, <1>4, <1>5 DEF QStep

\* What the assignments to one field of a node leave alone.
LEMMA NodeUpdates ==
  ASSUME NEW r \in QNodes
  PROVE  /\ [r EXCEPT !.blocked = FALSE] \in QNodes /\ [r EXCEPT !.blocked = FALSE].class = r.class
         /\ [r EXCEPT !.blocked = FALSE].blocked = FALSE
         /\ [r EXCEPT !.blocked = FALSE].successor = r.successor /\ [r EXCEPT !.blocked = FALSE].next = r.next
         /\ \A v \in Nat : /\ [r EXCEPT !.next = v] \in QNodes /\ [r EXCEPT !.next = v].class = r.class
                           /\ [r EXCEPT !.next = v].blocked = r.blocked /\ [r EXCEPT !.next = v].next = v
                           /\ [r EXCEPT !.next = v].successor = r.successor
         /\ \A v \in {"reader", "writer"} :
                           /\ [r EXCEPT !.successor = v] \in QNodes /\ [r EXCEPT !.successor = v].class = r.class
                           /\ [r EXCEPT !.successor = v].blocked = r.blocked /\ [r EXCEPT !.successor = v].successor = v
                           /\ [r EXCEPT !.successor = v].next = r.next
  BY Zenon DEF QNodes

\* ... the class of a node that is in use, and an open gate
LEMMA NodesStay ==
  ASSUME QInv, NEW t \in Threads, QStep(t)
  PROVE  /\ \A n \in 1 .. calls : class(n)' = class(n) /\ (~blocked(n) => ~blocked(n)')
         /\ ~Opens(t) => \A n \in 1 .. calls : blocked(n)' = blocked(n)
         /\ Joins(t) => /\ calls' = calls + 1 /\ calls + 1 \in 1 .. Calls /\ mynode'[t] = calls + 1 /\ tail' = calls + 1
                        /\ ptr'[t] = tail /\ pc[t] = "idle" /\ next_writer' = next_writer /\ reader_count' = reader_count
                        /\ \A n \in 1 .. Calls : n # calls + 1 => qnode'[n] = qnode[n]
                        /\ qnode'[calls + 1].blocked /\ qnode'[calls + 1].successor = "none" /\ qnode'[calls + 1].next = 0
         /\ ~Joins(t) => UNCHANGED <<mynode, calls>> /\ pc[t] # "idle"
         /\ qnode' \in [1 .. Calls -> QNodes]
<1>1. /\ ptr \in [Threads -> Nat] /\ mynode \in [Threads -> Nat]
      /\ qnode \in [1 .. Calls -> QNodes] /\ calls \in Nat /\ calls <= Calls /\ Calls \in Nat /\ ~Reuse
      /\ mynode[t] <= calls /\ ptr[t] <= calls
  BY DEF QInv, QTypes, Assumptions
<1>2. CASE Quiet(t)
  <2>1. UNCHANGED <<qnode, mynode, calls>> /\ pc[t] # "idle" /\ ~Opens(t) /\ ~Joins(t)
    BY <1>1, <1>2 DEF Quiet, WriteAnnounce, WriteCount, WriteGranted, WriteUnlock, ReadUnlock,
     LeaveTail, AwaitNext, WritePass, ReadGranted, ReadCount, ReadIn, ReadAdmit, ReadPass, ReadExit, ExitLoad, ExitCount,
     ExitClaim, queued, Leaving, Joins, WriteExchange, ReadExchange, Opens, WriteClaim, WriteWake, ReadUnblock, ReadWake, ExitWake
  <2> QED  BY <1>1, <2>1 DEF class, blocked
<1>3. CASE Opens(t)
  <2>1. UNCHANGED <<mynode, calls>> /\ pc[t] # "idle" /\ ~Joins(t)
    BY <1>1, <1>3 DEF Opens, WriteClaim, WriteWake, ReadUnblock, ReadWake, ExitWake, Joins, WriteExchange, ReadExchange
  <2>2. UNCHANGED qnode \/ \E m : unblock(m)
    BY <1>3 DEF Opens, WriteClaim, WriteWake, ReadUnblock, ReadWake, ExitWake
  <2>3. ASSUME NEW m, unblock(m)
        PROVE  qnode' \in [1 .. Calls -> QNodes] /\ \A n \in 1 .. calls : class(n)' = class(n) /\ (~blocked(n) => ~blocked(n)')
    <3>1. qnode' = [n \in 1 .. Calls |-> IF n = m THEN [qnode[n] EXCEPT !.blocked = FALSE] ELSE qnode[n]]
      BY <1>1, <2>3, Zenon DEF unblock
    <3>2. \A n \in 1 .. Calls : qnode[n] \in QNodes  BY <1>1
    <3>3. \A n \in 1 .. Calls : /\ qnode'[n] \in QNodes /\ qnode'[n].class = qnode[n].class
                                /\ ~qnode[n].blocked => ~qnode'[n].blocked
      BY <3>1, <3>2, NodeUpdates, Zenon
    <3>4. \A n \in 1 .. calls : n \in 1 .. Calls  BY <1>1
    <3> QED  BY <3>1, <3>3, <3>4 DEF class, blocked
  <2>4. CASE UNCHANGED qnode
    BY <1>1, <1>3, <2>1, <2>4 DEF class, blocked
  <2> QED  BY <1>1, <1>3, <2>1, <2>2, <2>3, <2>4, Zenon
<1>4. CASE Ties(t)
  <2>1. UNCHANGED <<mynode, calls>> /\ pc[t] # "idle" /\ ~Joins(t) /\ ~Opens(t)
    BY <1>1, <1>4 DEF Ties, WriteClass, WriteLink, ReadLook, ReadLink, ReadFollow, Joins, WriteExchange, ReadExchange,
       Opens, WriteClaim, WriteWake, ReadUnblock, ReadWake, ExitWake
  <2>2. \/ UNCHANGED qnode
        \/ \E m, v \in Nat : qnode' = [qnode EXCEPT ![m].next = v]
        \/ \E m \in Nat, v \in {"reader", "writer"} : qnode' = [qnode EXCEPT ![m].successor = v]
    BY <1>1, <1>4 DEF Ties, WriteClass, WriteLink, ReadLook, ReadLink, ReadFollow
  <2>3. qnode' \in [1 .. Calls -> QNodes] /\ \A n \in 1 .. calls : class(n)' = class(n) /\ blocked(n)' = blocked(n)
    <3>1. ASSUME NEW m \in Nat, NEW v \in Nat, qnode' = [qnode EXCEPT ![m].next = v] PROVE  qnode' \in [1 .. Calls -> QNodes] /\ \A n \in 1 .. calls : class(n)' = class(n) /\ blocked(n)' = blocked(n)
      <4>1. qnode' = [n \in 1 .. Calls |-> IF n = m THEN [qnode[n] EXCEPT !.next = v] ELSE qnode[n]]
        BY <1>1, <3>1, Zenon
      <4>2. \A n \in 1 .. Calls : qnode[n] \in QNodes  BY <1>1
      <4>3. \A n \in 1 .. Calls : /\ qnode'[n] \in QNodes /\ qnode'[n].class = qnode[n].class
                                  /\ qnode'[n].blocked = qnode[n].blocked
        BY <4>1, <4>2, NodeUpdates, Zenon
      <4>4. \A n \in 1 .. calls : n \in 1 .. Calls  BY <1>1
      <4> QED  BY <4>1, <4>3, <4>4 DEF class, blocked
    <3>2. ASSUME NEW m \in Nat, NEW v \in {"reader", "writer"}, qnode' = [qnode EXCEPT ![m].successor = v] PROVE  qnode' \in [1 .. Calls -> QNodes] /\ \A n \in 1 .. calls : class(n)' = class(n) /\ blocked(n)' = blocked(n)
      <4>1. qnode' = [n \in 1 .. Calls |-> IF n = m THEN [qnode[n] EXCEPT !.successor = v] ELSE qnode[n]]
        BY <1>1, <3>2, Zenon
      <4>2. \A n \in 1 .. Calls : qnode[n] \in QNodes  BY <1>1
      <4>3. \A n \in 1 .. Calls : /\ qnode'[n] \in QNodes /\ qnode'[n].class = qnode[n].class
                                  /\ qnode'[n].blocked = qnode[n].blocked
        BY <4>1, <4>2, NodeUpdates, Zenon
      <4>4. \A n \in 1 .. calls : n \in 1 .. Calls  BY <1>1
      <4> QED  BY <4>1, <4>3, <4>4 DEF class, blocked
    <3>3. CASE UNCHANGED qnode  BY <1>1, <3>3 DEF class, blocked
    <3> QED  BY <2>2, <3>1, <3>2, <3>3
  <2> QED  BY <1>1, <1>4, <2>1, <2>3
<1>5. CASE Joins(t)
  <2>1. /\ calls' = calls + 1 /\ calls < Calls /\ mynode'[t] = calls + 1 /\ tail' = calls + 1
        /\ ptr'[t] = tail /\ pc[t] = "idle" /\ next_writer' = next_writer /\ reader_count' = reader_count
        /\ \E c \in {"reading", "writing"} : qnode' = [qnode EXCEPT ![calls + 1] = Node(c)]
    BY <1>1, <1>5 DEF Joins, WriteExchange, ReadExchange, Join, Hand, NewNode
  <2>2. PICK c \in {"reading", "writing"} : qnode' = [qnode EXCEPT ![calls + 1] = Node(c)]  BY <2>1, Zenon
  <2>3. calls + 1 \in 1 .. Calls  BY <1>1, <2>1
  <2>4. Node(c) \in QNodes  BY DEF Node, QNodes, kNullPtr
  <2>5. /\ \A n \in 1 .. Calls : n # calls + 1 => qnode'[n] = qnode[n]
        /\ qnode'[calls + 1] = Node(c) /\ qnode' \in [1 .. Calls -> QNodes]
    BY <1>1, <2>2, <2>3, <2>4
  <2>6. ~Opens(t)
    BY <2>1 DEF Opens, WriteClaim, WriteWake, ReadUnblock, ReadWake, ExitWake
  <2>7. \A n \in 1 .. calls : n \in 1 .. Calls /\ n # calls + 1  BY <1>1
  <2>8. /\ qnode'[calls + 1].blocked /\ qnode'[calls + 1].successor = "none" /\ qnode'[calls + 1].next = 0
    BY <2>5, <2>1 DEF blocked, Node, kNullPtr
  <2> QED  BY <1>5, <2>1, <2>3, <2>5, <2>6, <2>7, <2>8 DEF class, blocked
<1> QED  BY <1>2, <1>3, <1>4, <1>5 DEF QStep

\* The ways through the calls
LEMMA Ways ==
  ASSUME QInv, NEW t \in Threads, QStep(t), ~Joins(t)
  PROVE  /\ pc[t] \in Out => pc'[t] \in Out
         /\ pc[t] \in Gone => pc'[t] \in Gone
         /\ pc'[t] \in Unlinked => pc[t] \in Unlinked
         /\ pc'[t] \in Shut => pc[t] \in Shut
         /\ pc'[t] \in Shut \cup Either => pc[t] \in Shut \cup Either
         /\ pc'[t] \notin {"w_class", "r_look", "w_announce"}
         /\ pc'[t] \in Early => pc[t] \in Early
         /\ pc'[t] \in Writing => pc[t] \in Writing \/ (pc[t] = "await" /\ class(mynode[t]) = "writing")
         /\ pc'[t] \in Reading => pc[t] \in Reading \/ (pc[t] = "await" /\ class(mynode[t]) # "writing")
         /\ pc'[t] \in {"x_count", "x_claim", "x_wake"} => pc[t] \in {"x_load", "x_count", "x_claim"}
<1> USE DEF Out, Gone, Unlinked, Shut, Either, Early, Writing, Reading
<1>1. /\ pc \in [Threads -> QueuePCs] /\ kind = "queue"
  BY DEF QInv, QTypes
<1>2. CASE Quiet(t)
  BY <1>1, <1>2 DEF Quiet, WriteAnnounce, WriteCount, WriteGranted, WriteUnlock, ReadUnlock,
     LeaveTail, AwaitNext, WritePass, ReadGranted, ReadCount, ReadIn, ReadAdmit, ReadPass, ReadExit, ExitLoad, ExitCount,
     ExitClaim, Goto, Leaving, Passing, class
<1>3. CASE Opens(t)
  BY <1>1, <1>3 DEF Opens, WriteClaim, WriteWake, ReadUnblock, ReadWake, ExitWake, Goto
<1>4. CASE Ties(t)
  BY <1>1, <1>4 DEF Ties, WriteClass, WriteLink, ReadLook, ReadLink, ReadFollow, Goto
<1> QED  BY <1>2, <1>3, <1>4 DEF QStep

\* unblock opens one node and changes nothing else.
LEMMA Unblocks ==
  ASSUME QInv, NEW m \in 1 .. Calls, unblock(m)
  PROVE  /\ ~qnode'[m].blocked
         /\ \A n \in 1 .. Calls : /\ n # m => qnode'[n] = qnode[n]
                                  /\ qnode'[n].class = qnode[n].class /\ qnode'[n].next = qnode[n].next
                                  /\ qnode'[n].successor = qnode[n].successor
<1>1. qnode \in [1 .. Calls -> QNodes]  BY DEF QInv, QTypes
<1>2. qnode' = [n \in 1 .. Calls |-> IF n = m THEN [qnode[n] EXCEPT !.blocked = FALSE] ELSE qnode[n]]
  BY <1>1, Zenon DEF unblock
<1>3. \A n \in 1 .. Calls : qnode[n] \in QNodes  BY <1>1
<1> QED  BY <1>2, <1>3, NodeUpdates, Zenon

\* A thread leaves its waiting place only with its node open.
LEMMA WaysOut ==
  ASSUME QInv, NEW t \in Threads, QStep(t), pc[t] \in Shut \cup Either
  PROVE  pc'[t] \in Shut \cup Either \/ ~blocked(mynode[t])'
<1> USE DEF Out, Gone, Unlinked, Shut, Either, Early, Writing, Reading
<1>1. /\ pc \in [Threads -> QueuePCs] /\ kind = "queue" /\ mynode[t] \in 1 .. Calls
      /\ qnode \in [1 .. Calls -> QNodes]
  BY DEF QInv, QTypes, OwnNodes, Assumptions
<1>2. CASE Quiet(t)
  BY <1>1, <1>2, Zenon DEF Quiet, WriteAnnounce, WriteCount, WriteGranted, WriteUnlock, ReadUnlock,
     LeaveTail, AwaitNext, WritePass, ReadGranted, ReadCount, ReadIn, ReadAdmit, ReadPass, ReadExit, ExitLoad, ExitCount,
     ExitClaim, Goto, Leaving, blocked, queued
<1>3. CASE Opens(t)
  <2>1. CASE WriteClaim(t)
    <3>1. pc'[t] = "w_wait" \/ (unblock(mynode[t]) /\ mynode'[t] = mynode[t])
      BY <1>1, <2>1 DEF WriteClaim, Goto
    <3> QED  BY <1>1, <3>1, Unblocks DEF blocked
  <2>2. CASE ReadUnblock(t)
    <3>1. unblock(mynode[t]) /\ mynode'[t] = mynode[t]  BY <2>2 DEF ReadUnblock
    <3> QED  BY <1>1, <3>1, Unblocks DEF blocked
  <2> QED  BY <1>1, <1>3, <2>1, <2>2 DEF Opens, WriteWake, ReadWake, ExitWake
<1>4. CASE Ties(t)
  BY <1>1, <1>4 DEF Ties, WriteClass, WriteLink, ReadLook, ReadLink, ReadFollow, Goto
<1>5. CASE Joins(t)
  BY <1>1, <1>5 DEF Joins, WriteExchange, ReadExchange
<1> QED  BY <1>2, <1>3, <1>4, <1>5 DEF QStep

\* A call that is over stays over: every call has its own node
LEMMA LeftStays ==
  ASSUME QInv, NEW t \in Threads, QStep(t), NEW n \in 1 .. calls
  PROVE  Left(n) => Left(n)'
<1>1. SUFFICES ASSUME Left(n), NEW u \in Threads, mynode'[u] = n PROVE pc'[u] \in Out
  BY DEF Left
<1>2. CASE u = t
  <2>1. calls \in Nat  BY DEF QInv, QTypes
  <2>2. ~Joins(t)  BY <1>1, <1>2, <2>1, NodesStay
  <2>3. mynode[t] = n  BY <1>1, <1>2, <2>2, NodesStay
  <2> QED  BY <1>1, <1>2, <2>2, <2>3, Ways DEF Left
<1>3. CASE u # t  BY <1>1, <1>3, Moves DEF Left
<1> QED  BY <1>2, <1>3

\* No step makes a writer of an open node come in.
LEMMA InWStays ==
  ASSUME QInv, NEW t \in Threads, QStep(t), NEW n \in 1 .. calls, ~blocked(n)
  PROVE  InW(n)' => InW(n)
  BY LeftStays, NodesStay DEF InW

\* Who is at the front stays there.
LEMMA FrontStays ==
  ASSUME QInv, NEW t \in Threads, QStep(t), NEW n \in 1 .. calls + 1
  PROVE  Front(n) => Front(n)'
<1>1. SUFFICES ASSUME Front(n), NEW k \in 1 .. n - 1 PROVE ~blocked(k)' /\ ~InW(k)'
  BY DEF Front
<1>2. k \in 1 .. calls  BY DEF QInv, QTypes
<1> QED  BY <1>1, <1>2, InWStays, NodesStay DEF Front

\* What the thread in front has passed on stays passed on.
LEMMA PassedStays ==
  ASSUME QInv, NEW t \in Threads, QStep(t), NEW n \in 1 .. calls + 1
  PROVE  Passed(n) => Passed(n)'
<1>1. SUFFICES ASSUME Passed(n), NEW u \in Threads, mynode'[u] # 0, mynode'[u] + 1 = n PROVE pc'[u] \in Gone
  BY DEF Passed
<1>2. CASE u = t
  <2>1. calls \in Nat  BY DEF QInv, QTypes
  <2>2. ~Joins(t)  BY <1>1, <1>2, <2>1, NodesStay
  <2>3. mynode'[t] = mynode[t]  BY <1>1, <1>2, <2>2, NodesStay
  <2> QED  BY <1>1, <1>2, <2>2, <2>3, Ways DEF Passed
<1>3. CASE u # t  BY <1>1, <1>3, Moves DEF Passed
<1> QED  BY <1>2, <1>3

\* The first node that is shut
LEMMA FirstShut ==
  ASSUME QInv, NEW m \in 1 .. calls, NEW n \in 1 .. calls, blocked(m), blocked(n), Front(m)
  PROVE  /\ m <= n
         /\ Front(n) => m = n
  BY DEF QInv, QTypes, Front

\* A reader that is let in is counted.
LEMMA ReaderIn ==
  ASSUME QInv, NEW u \in Threads, pc[u] \notin Out, class(mynode[u]) = "reading", ~blocked(mynode[u])
  PROVE  In(u)
<1>1. pc[u] \in QueuePCs  BY DEF QInv, QTypes
<1>2. pc[u] \notin Shut /\ pc[u] \notin Writing  BY DEF QInv, Blocks
<1> QED  BY <1>1, <1>2 DEF In, Inside, QueuePCs, Shut, Reading, Early

\* Where the count is zero no reader is in.
LEMMA NobodyIn ==
  ASSUME QInv, reader_count = 0
  PROVE  \A u \in Threads : ~In(u)
<1>1. Sizes /\ Cardinality(Count) = 0  BY DEF QInv, Counted, Assumptions
<1>2. Count \in SUBSET Threads  BY DEF Count
<1>3. Count = {}  BY <1>1, <1>2 DEF Sizes
<1> QED  BY <1>3 DEF Count

\* When nobody is counted, whoever was before the first shut node has left.
LEMMA AllLeft ==
  ASSUME QInv, reader_count = 0, NEW n \in 1 .. calls, Front(n), NEW k \in 1 .. n - 1
  PROVE  Left(k)
<1>1. SUFFICES ASSUME NEW u \in Threads, mynode[u] = k, pc[u] \notin Out PROVE FALSE
  BY DEF Left
<1>2. ~blocked(k) /\ class(k) # "writing"  BY <1>1 DEF Front, InW, Left
<1>3. k \in 1 .. Calls /\ qnode \in [1 .. Calls -> QNodes]  BY DEF QInv, QTypes, Assumptions
<1>4. class(k) = "reading"  BY <1>2, <1>3 DEF class, QNodes
<1> QED  BY <1>1, <1>2, <1>4, ReaderIn, NobodyIn



\* A call's node is one of the nodes brought so far.
LEMMA InPlace ==
  ASSUME QInv
  PROVE  /\ \A n \in 1 .. calls : n \in 1 .. Calls /\ qnode[n] \in QNodes
         /\ \A t \in Threads : pc[t] # "idle" => mynode[t] \in 1 .. calls
         /\ calls \in Nat /\ Calls \in Nat
<1>1. calls \in Nat /\ calls <= Calls /\ Calls \in Nat /\ qnode \in [1 .. Calls -> QNodes]
  BY DEF QInv, QTypes, Assumptions
<1>2. \A n \in 1 .. calls : n \in 1 .. Calls /\ qnode[n] \in QNodes  BY <1>1
<1>3. \A t \in Threads : pc[t] # "idle" => mynode[t] \in 1 .. calls  BY DEF QInv, QTypes, OwnNodes
<1> QED  BY <1>1, <1>2, <1>3

\* Where a thread is about to let itself in.
AtFront == {"w_announce", "r_count", "r_follow", "r_unblock"}

\* While the last reader out is about to wake a writer, everybody else waits.
LEMMA WakeAlone ==
  ASSUME QInv, NEW u \in Threads, pc[u] = "x_wake", NEW v \in Threads, pc[v] \notin Out
  PROVE  blocked(mynode[v]) /\ pc[v] \notin AtFront
<1> DEFINE w == ptr[u]
<1> DEFINE m == mynode[v]
<1>1. w \in 1 .. calls  BY DEF QInv, QTypes, Exits
<1>2. m \in 1 .. calls  BY InPlace DEF Out
<1>3. /\ blocked(w) /\ \A k \in 1 .. w - 1 : Left(k)
      /\ m = w => pc[v] \in {"w_count", "w_claim", "w_wait"}
  BY DEF QInv, Exits
<1>4. w <= m  BY <1>1, <1>2, <1>3 DEF Left
<1>5. blocked(m)  BY <1>1, <1>2, <1>3, <1>4 DEF QInv, InOrder
<1>6. ASSUME pc[v] \in AtFront PROVE FALSE
  <2>1. Front(m)  BY <1>6 DEF QInv, Fronts, AtFront
  <2>2. w = m  BY <1>1, <1>2, <1>3, <1>4, <2>1 DEF Front
  <2> QED  BY <1>3, <1>6, <2>2 DEF AtFront
<1> QED  BY <1>5, <1>6

\* While a writer is in, nobody else is and nobody is about to be.
LEMMA WriterAlone ==
  ASSUME QInv, NEW m \in 1 .. calls, InW(m)
  PROVE  /\ next_writer = 0
         /\ \A u \in Threads : pc[u] # "x_wake"
         /\ \A v \in Threads : pc[v] \notin AtFront
         /\ \A v \in Threads : pc[v] \notin Out /\ ~blocked(mynode[v]) => mynode[v] = m
<1>1. /\ ~blocked(m) /\ class(m) = "writing" /\ \E v \in Threads : mynode[v] = m /\ pc[v] \notin Out
      /\ \A k \in 1 .. m - 1 : Left(k)
      /\ \A k \in m + 1 .. calls : blocked(k)
  BY DEF QInv, Excludes, InW, Left
<1>2. \A n \in 1 .. calls : blocked(n) /\ Front(n) => n < m
  BY <1>1, InPlace DEF Front
<1>3. next_writer = 0
  <2>1. SUFFICES ASSUME next_writer # 0 PROVE FALSE  OBVIOUS
  <2>2. next_writer \in 1 .. calls /\ blocked(next_writer) /\ Front(next_writer)
    BY <2>1 DEF QInv, QTypes, Fronts, Announced
  <2>3. next_writer < m  BY <1>2, <2>2
  <2> QED  BY <1>1, <2>2, <2>3 DEF QInv, InOrder
<1>4. \A u \in Threads : pc[u] # "x_wake"  BY <1>1, WakeAlone
<1>5. ASSUME NEW v \in Threads, pc[v] \in AtFront PROVE FALSE
  <2>1. mynode[v] \in 1 .. calls /\ blocked(mynode[v]) /\ Front(mynode[v])
    BY <1>5, InPlace DEF QInv, Fronts, AtFront, Blocks, Shut, Out
  <2>2. mynode[v] < m  BY <1>2, <2>1
  <2> QED  BY <1>1, <2>1, <2>2 DEF QInv, InOrder
<1>6. ASSUME NEW v \in Threads, pc[v] \notin Out, ~blocked(mynode[v]) PROVE mynode[v] = m
  <2>1. mynode[v] \in 1 .. calls  BY <1>6, InPlace DEF Out
  <2>2. ~Left(mynode[v])  BY <1>6 DEF Left
  <2> QED  BY <1>1, <1>6, <2>1, <2>2, InPlace
<1> QED  BY <1>3, <1>4, <1>5, <1>6

\* While a reader is in, no writer is.
LEMMA ReaderBars ==
  ASSUME QInv, NEW v \in Threads, pc[v] \notin Out, class(mynode[v]) = "reading", ~blocked(mynode[v])
  PROVE  /\ \A u \in Threads : pc[u] # "x_wake"
         /\ \A k \in 1 .. calls : ~InW(k)
<1>1. \A u \in Threads : pc[u] # "x_wake"  BY WakeAlone
<1>2. ASSUME NEW k \in 1 .. calls, InW(k) PROVE FALSE
  <2>1. mynode[v] = k  BY <1>2, WriterAlone
  <2> QED  BY <1>2, <2>1 DEF InW
<1> QED  BY <1>1, <1>2

\* What a step that opens a gate finds
Opened(n) ==
  /\ n \in 1 .. calls /\ blocked(n) /\ UNCHANGED <<mynode, calls>>
  /\ \A k \in 1 .. calls : k # n => qnode'[k] = qnode[k]
  /\ \A k \in 1 .. n - 1 : ~blocked(k)
  /\ class(n) = "writing" => \A k \in 1 .. n - 1 : Left(k)'
  /\ class(n) = "reading" => \A k \in 1 .. n - 1 : ~InW(k)'
  /\ \A u \in Threads : mynode[u] = n => pc'[u] \notin Shut /\ pc[u] \in Either \cup {"r_unblock"}
  /\ class(n) = "writing" => next_writer' = 0
  /\ \A u \in Threads : pc'[u] # "x_wake"

\* A reader opens its own node at the front (MCSRW.h:329-345).
LEMMA OpenUnblock ==
  ASSUME QInv, NEW t \in Threads, ReadUnblock(t)
  PROVE  unblock(mynode[t]) /\ Opened(mynode[t])
<1> DEFINE n == mynode[t]
<1>1. /\ pc[t] = "r_unblock" /\ unblock(n) /\ pc'[t] = "r_in" /\ UNCHANGED <<mynode, calls>>
      /\ QStep(t)
  BY DEF ReadUnblock, QInv, QTypes, Goto, QStep, Opens
<1>2. n \in 1 .. calls /\ n \in 1 .. Calls /\ \A k \in 1 .. calls : k \in 1 .. Calls
  BY <1>1, InPlace
<1>3. blocked(n) /\ class(n) = "reading" /\ Front(n)
  BY <1>1 DEF QInv, Blocks, Fronts, Shut, Out, Reading, Early
<1>4. \A k \in 1 .. calls : k # n => qnode'[k] = qnode[k]  BY <1>1, <1>2, Unblocks
<1>5. \A k \in 1 .. n - 1 : ~blocked(k) /\ ~InW(k)'
  <2>1. SUFFICES ASSUME NEW k \in 1 .. n - 1 PROVE ~blocked(k) /\ ~InW(k)'  OBVIOUS
  <2>2. k \in 1 .. calls  BY <1>2, InPlace
  <2>3. ~blocked(k) /\ ~InW(k)  BY <1>3 DEF Front
  <2> QED  BY <1>1, <2>2, <2>3, InWStays
<1>6. \A u \in Threads : mynode[u] = n => u = t  BY <1>2 DEF QInv, OwnNodes
<1>7. \A u \in Threads : pc'[u] # "x_wake"
  <2>1. SUFFICES ASSUME NEW u \in Threads, pc'[u] = "x_wake" PROVE FALSE  OBVIOUS
  <2>2. u # t /\ pc[u] = "x_wake"  BY <1>1, <2>1, Moves
  <2> QED  BY <1>1, <2>2, WakeAlone DEF AtFront, Out
<1> QED  BY <1>1, <1>2, <1>3, <1>4, <1>5, <1>6, <1>7 DEF Opened, Shut

\* A writer that takes its announcement back is alone (MCSRW.h:271-278).
LEMMA OpenClaim ==
  ASSUME QInv, NEW t \in Threads, WriteClaim(t), next_writer = mynode[t]
  PROVE  unblock(mynode[t]) /\ Opened(mynode[t])
<1> DEFINE n == mynode[t]
<1>1. /\ pc[t] = "w_claim" /\ unblock(n) /\ pc'[t] = "writing" /\ UNCHANGED <<mynode, calls>>
      /\ QStep(t) /\ next_writer' = 0
  BY DEF WriteClaim, QInv, QTypes, Goto, QStep, Opens, kNullPtr
<1>2. n \in 1 .. calls /\ n \in 1 .. Calls /\ \A k \in 1 .. calls : k \in 1 .. Calls
  BY <1>1, InPlace
<1>3. next_writer # 0  BY <1>2
<1>4. blocked(n) /\ class(n) = "writing" /\ Front(n) /\ reader_count = 0
  BY <1>1, <1>3 DEF QInv, Blocks, Fronts, Announced, Claims, Out, Writing
<1>5. \A k \in 1 .. calls : k # n => qnode'[k] = qnode[k]  BY <1>1, <1>2, Unblocks
<1>6. \A k \in 1 .. n - 1 : ~blocked(k) /\ Left(k)'
  <2>1. SUFFICES ASSUME NEW k \in 1 .. n - 1 PROVE ~blocked(k) /\ Left(k)'  OBVIOUS
  <2>2. k \in 1 .. calls  BY <1>2, InPlace
  <2>3. ~blocked(k) /\ Left(k)  BY <1>2, <1>4, AllLeft DEF Front
  <2> QED  BY <1>1, <2>2, <2>3, LeftStays
<1>7. \A u \in Threads : mynode[u] = n => u = t  BY <1>2 DEF QInv, OwnNodes
<1>8. \A u \in Threads : pc'[u] # "x_wake"
  <2>1. SUFFICES ASSUME NEW u \in Threads, pc'[u] = "x_wake" PROVE FALSE  OBVIOUS
  <2>2. u # t /\ pc[u] = "x_wake"  BY <1>1, <2>1, Moves
  <2> QED  BY <1>3, <2>2 DEF QInv, Exits
<1> QED  BY <1>1, <1>2, <1>4, <1>5, <1>6, <1>7, <1>8 DEF Opened, Shut, Either

\* Behind a writer that passes the lock on somebody waits.
LEMMA WriterBefore ==
  ASSUME QInv, NEW t \in Threads, pc[t] \in {"w_pass", "w_wake"}
  PROVE  /\ mynode[t] \in 1 .. calls /\ mynode[t] + 1 \in 1 .. calls
         /\ qnode[mynode[t]].next = mynode[t] + 1
         /\ InW(mynode[t]) /\ blocked(mynode[t] + 1)
         /\ \E v \in Threads : mynode[v] = mynode[t] + 1
         /\ \A u \in Threads : mynode[u] = mynode[t] + 1 => pc[u] \in {"w_wait", "r_wait"}
<1> DEFINE m == mynode[t]
<1> DEFINE n == m + 1
<1>1. m \in 1 .. calls /\ m \in 1 .. Calls /\ calls \in Nat  BY InPlace
<1>2. qnode[m].next = n /\ n <= calls /\ \A u \in Threads : mynode[u] = n => pc[u] \notin Unlinked
  BY <1>1 DEF QInv, Links
<1>3. n \in 1 .. calls  BY <1>1, <1>2
<1>4. InW(m)  BY <1>1 DEF QInv, Blocks, InW, Left, Out, Shut, Either, Writing
<1>5. blocked(n)  BY <1>1, <1>3, <1>4 DEF QInv, Excludes
<1>6. PICK v \in Threads : mynode[v] = n /\ pc[v] \in Shut \cup Either
  BY <1>3, <1>5 DEF QInv, Owned
<1>7. \A u \in Threads : mynode[u] = n => pc[u] \in {"w_wait", "r_wait"}
  <2>1. SUFFICES ASSUME NEW u \in Threads, mynode[u] = n PROVE pc[u] \in {"w_wait", "r_wait"}  OBVIOUS
  <2>2. u = v  BY <1>3, <1>6, <2>1 DEF QInv, OwnNodes
  <2>3. pc[u] \notin Unlinked /\ pc[u] \notin AtFront  BY <1>1, <1>2, <1>4, <2>1, WriterAlone
  <2> QED  BY <1>6, <2>2, <2>3 DEF Shut, Either, Unlinked, AtFront
<1> QED  BY <1>1, <1>2, <1>3, <1>4, <1>5, <1>6, <1>7

\* A writer on its way out opens the node behind it.
LEMMA OpenWriteWake ==
  ASSUME QInv, NEW t \in Threads, WriteWake(t)
  PROVE  unblock(mynode[t] + 1) /\ Opened(mynode[t] + 1)
<1> DEFINE m == mynode[t]
<1> DEFINE n == m + 1
<1>1. /\ pc[t] = "w_wake" /\ unblock(qnode[m].next) /\ pc'[t] = "idle" /\ UNCHANGED <<mynode, calls, next_writer>>
      /\ QStep(t)
  BY DEF WriteWake, QInv, QTypes, Goto, QStep, Opens
<1>2. /\ m \in 1 .. calls /\ n \in 1 .. calls /\ qnode[m].next = n /\ InW(m) /\ blocked(n)
      /\ \A u \in Threads : mynode[u] = n => pc[u] \in {"w_wait", "r_wait"}
  BY <1>1, WriterBefore
<1>3. m \in 1 .. n - 1 /\ n \in 1 .. Calls /\ calls \in Nat /\ \A k \in 1 .. calls : k \in 1 .. Calls
  BY <1>2, InPlace
<1>4. \A k \in 1 .. m - 1 : Left(k)  BY <1>2 DEF QInv, Excludes, InW
<1>5. \A k \in 1 .. calls : k # n => qnode'[k] = qnode[k]  BY <1>1, <1>2, <1>3, Unblocks
<1>6. \A k \in 1 .. n - 1 : ~blocked(k) /\ Left(k)'
  <2>1. SUFFICES ASSUME NEW k \in 1 .. n - 1 PROVE ~blocked(k) /\ Left(k)'  OBVIOUS
  <2>2. k \in 1 .. calls /\ (k = m \/ k \in 1 .. m - 1)  BY <1>2, <1>3
  <2>3. ~blocked(k)  BY <1>2, <2>2 DEF QInv, InOrder, InW
  <2>4. CASE k = m
    <3>1. \A u \in Threads : mynode[u] = m => u = t  BY <1>2 DEF QInv, OwnNodes
    <3> QED  BY <1>1, <2>3, <2>4, <3>1 DEF Left, Out
  <2>5. CASE k \in 1 .. m - 1  BY <1>1, <1>4, <2>2, <2>3, <2>5, LeftStays
  <2> QED  BY <2>2, <2>4, <2>5
<1>7. next_writer' = 0  BY <1>1, <1>2, WriterAlone
<1>8. \A u \in Threads : pc'[u] # "x_wake"
  <2>1. SUFFICES ASSUME NEW u \in Threads, pc'[u] = "x_wake" PROVE FALSE  OBVIOUS
  <2>2. u # t /\ pc[u] = "x_wake"  BY <1>1, <2>1, Moves
  <2> QED  BY <1>2, <2>2, WriterAlone
<1>9. \A u \in Threads : mynode[u] = n => pc'[u] \notin Shut /\ pc[u] \in Either \cup {"r_unblock"}
  <2>1. \A u \in Threads : mynode[u] = n => u # t  BY <1>2
  <2> QED  BY <1>1, <1>2, <2>1, Moves DEF Shut, Either
<1>10. \A k \in 1 .. n - 1 : ~InW(k)'  BY <1>6 DEF InW
<1>11. Opened(n)
  BY <1>1, <1>2, <1>5, <1>6, <1>7, <1>8, <1>9, <1>10 DEF Opened
<1> QED  BY <1>1, <1>2, <1>11

\* A reader lets the reader behind it in.
LEMMA OpenReadWake ==
  ASSUME QInv, NEW t \in Threads, ReadWake(t)
  PROVE  /\ unblock(mynode[t] + 1) /\ Opened(mynode[t] + 1)
         /\ class(mynode[t] + 1) = "reading"
         /\ \A u \in Threads : mynode[u] = mynode[t] + 1 => pc[u] = "r_wait"
<1> DEFINE m == mynode[t]
<1> DEFINE n == m + 1
<1>1. /\ pc[t] = "r_wake" /\ unblock(qnode[m].next) /\ pc'[t] = "reading" /\ UNCHANGED <<mynode, calls, next_writer>>
      /\ QStep(t)
  BY DEF ReadWake, QInv, QTypes, Goto, QStep, Opens
<1>2. m \in 1 .. calls /\ m \in 1 .. Calls /\ calls \in Nat /\ \A k \in 1 .. calls : k \in 1 .. Calls
  BY <1>1, InPlace
<1>3. qnode[m].next = n /\ n <= calls /\ \A u \in Threads : mynode[u] = n => pc[u] \notin Unlinked
  BY <1>1, <1>2 DEF QInv, Links
<1>4. n \in 1 .. calls /\ n \in 1 .. Calls /\ m \in 1 .. n - 1  BY <1>2, <1>3
<1>5. ~blocked(m) /\ class(m) = "reading"
  BY <1>1, <1>2 DEF QInv, Blocks, Out, Shut, Either, Reading, Early
<1>6. /\ blocked(n) /\ class(n) = "reading"
      /\ \A u \in Threads : mynode[u] = n => pc[u] \in {"r_link", "r_wait"}
  BY <1>1, <1>2, <1>4 DEF QInv, Behind, Successors, Early
<1>7. \A k \in 1 .. calls : k # n => qnode'[k] = qnode[k]  BY <1>1, <1>2, <1>3, <1>4, Unblocks
<1>8. \A k \in 1 .. n - 1 : ~blocked(k) /\ ~InW(k)'
  <2>1. SUFFICES ASSUME NEW k \in 1 .. n - 1 PROVE ~blocked(k) /\ ~InW(k)'  OBVIOUS
  <2>2. k \in 1 .. calls /\ (k = m \/ k \in 1 .. m - 1)  BY <1>2, <1>4
  <2>3. ~blocked(k)  BY <1>2, <1>5, <2>2 DEF QInv, InOrder
  <2>4. ~InW(k)  BY <1>1, <1>5, <2>2, ReaderBars DEF Out
  <2> QED  BY <1>1, <2>2, <2>3, <2>4, InWStays
<1>9. \A u \in Threads : mynode[u] = n => pc[u] = "r_wait" /\ pc'[u] = pc[u]
  <2>1. SUFFICES ASSUME NEW u \in Threads, mynode[u] = n PROVE pc[u] = "r_wait" /\ pc'[u] = pc[u]
    OBVIOUS
  <2>2. u # t  BY <1>2, <2>1
  <2> QED  BY <1>1, <1>3, <1>6, <2>1, <2>2, Moves DEF Unlinked
<1>10. \A u \in Threads : pc'[u] # "x_wake"
  <2>1. SUFFICES ASSUME NEW u \in Threads, pc'[u] = "x_wake" PROVE FALSE  OBVIOUS
  <2>2. u # t /\ pc[u] = "x_wake"  BY <1>1, <2>1, Moves
  <2> QED  BY <1>1, <1>5, <2>2, ReaderBars DEF Out
<1>11. \A u \in Threads : mynode[u] = n => pc'[u] \notin Shut /\ pc[u] \in Either \cup {"r_unblock"}
  BY <1>9 DEF Shut, Either
<1>12. Opened(n)
  BY <1>1, <1>4, <1>6, <1>7, <1>8, <1>10, <1>11 DEF Opened
<1> QED  BY <1>1, <1>3, <1>6, <1>9, <1>12

\* The last reader out opens the node of a writer that is alone.
LEMMA OpenExitWake ==
  ASSUME QInv, NEW t \in Threads, ExitWake(t)
  PROVE  /\ unblock(ptr[t]) /\ Opened(ptr[t]) /\ class(ptr[t]) = "writing"
<1> DEFINE n == ptr[t]
<1>1. /\ pc[t] = "x_wake" /\ unblock(n) /\ pc'[t] = "idle" /\ UNCHANGED <<mynode, calls, next_writer>>
      /\ QStep(t)
  BY DEF ExitWake, QInv, QTypes, Goto, QStep, Opens
<1>2. n \in 1 .. calls /\ n \in 1 .. Calls /\ calls \in Nat /\ \A k \in 1 .. calls : k \in 1 .. Calls
  BY <1>1, InPlace DEF QInv, Exits, QTypes
<1>3. /\ blocked(n) /\ next_writer = 0
      /\ \A k \in 1 .. n - 1 : Left(k) /\ ~blocked(k)
      /\ \A u \in Threads : mynode[u] = n => pc[u] \in {"w_count", "w_claim", "w_wait"}
      /\ \A u \in Threads : pc[u] = "x_wake" => u = t
  BY <1>1 DEF QInv, Exits
<1>4. PICK v \in Threads : mynode[v] = n /\ pc[v] \in Shut \cup Either
  BY <1>2, <1>3 DEF QInv, Owned
<1>5. class(n) = "writing"
  BY <1>3, <1>4 DEF QInv, Blocks, Writing, Out
<1>6. \A k \in 1 .. calls : k # n => qnode'[k] = qnode[k]  BY <1>1, <1>2, Unblocks
<1>7. \A k \in 1 .. n - 1 : Left(k)'
  <2>1. SUFFICES ASSUME NEW k \in 1 .. n - 1 PROVE Left(k)'  OBVIOUS
  <2>2. k \in 1 .. calls /\ Left(k)  BY <1>2, <1>3
  <2> QED  BY <1>1, <2>2, LeftStays
<1>8. \A u \in Threads : mynode[u] = n => pc'[u] = pc[u]  BY <1>1, <1>3, Moves
<1>9. \A u \in Threads : pc'[u] # "x_wake"  BY <1>1, <1>3, Moves
<1>10. \A u \in Threads : mynode[u] = n => pc'[u] \notin Shut /\ pc[u] \in Either \cup {"r_unblock"}
  BY <1>3, <1>8 DEF Shut, Either
<1>11. Opened(n)
  BY <1>1, <1>2, <1>3, <1>5, <1>6, <1>7, <1>9, <1>10 DEF Opened
<1> QED  BY <1>1, <1>5, <1>11

\* A gate that opens is that of the first who waits.
LEMMA Opening ==
  ASSUME QInv, NEW t \in Threads, QStep(t), NEW n \in 1 .. calls, blocked(n), ~blocked(n)'
  PROVE  Opened(n)
<1>1. Opens(t)  BY NodesStay
<1>2. n \in 1 .. Calls  BY InPlace
<1>3. UNCHANGED qnode => FALSE  BY DEF blocked
<1>4. \A m \in 1 .. calls : Opened(m) => m = n  BY DEF Opened, blocked
<1>5. CASE WriteClaim(t)  BY <1>3, <1>4, <1>5, OpenClaim DEF WriteClaim, Opened
<1>6. CASE WriteWake(t)  BY <1>4, <1>6, OpenWriteWake DEF Opened
<1>7. CASE ReadUnblock(t)  BY <1>4, <1>7, OpenUnblock DEF Opened
<1>8. CASE ReadWake(t)  BY <1>4, <1>8, OpenReadWake DEF Opened
<1>9. CASE ExitWake(t)  BY <1>4, <1>9, OpenExitWake DEF Opened
<1> QED  BY <1>1, <1>5, <1>6, <1>7, <1>8, <1>9 DEF Opens
-----------------------------------------------------------------------------
\* The count is that of a finite set; zero means that nobody is in.
LEMMA CountFacts ==
  ASSUME QInv
  PROVE  /\ Sizes /\ Count \in SUBSET Threads /\ reader_count = Cardinality(Count) /\ reader_count \in Nat
         /\ \A t \in Threads : In(t) => reader_count >= 1
<1>1. Sizes /\ reader_count = Cardinality(Count) /\ reader_count \in Nat
  BY DEF QInv, Counted, Assumptions, QTypes
<1>2. Count \in SUBSET Threads  BY DEF Count
<1>3. ASSUME NEW t \in Threads, In(t) PROVE reader_count # 0  BY <1>3, NobodyIn
<1> QED  BY <1>1, <1>2, <1>3

\* Every step keeps the types and the threads' nodes apart ...
LEMMA KeepsTypes ==
  ASSUME QInv, NEW t \in Threads, QStep(t)
  PROVE  QTypes' /\ OwnNodes'
<1>1. /\ ptr \in [Threads -> Nat] /\ mynode \in [Threads -> Nat] /\ pc \in [Threads -> QueuePCs]
      /\ calls \in Nat /\ calls <= Calls /\ Calls \in Nat /\ ~Reuse
      /\ tail \in {0, calls} /\ next_writer \in 0 .. calls /\ reader_count \in Nat
      /\ \A u \in Threads : mynode[u] <= calls /\ ptr[u] <= calls
  BY DEF QInv, QTypes, Assumptions
<1>2. pc' \in [Threads -> QueuePCs]  BY <1>1, Moves
<1>3. qnode' \in [1 .. Calls -> QNodes]  BY NodesStay
<1>4. OwnNodes'
  <2>1. \A u \in Threads : pc[u] # "idle" => mynode[u] # 0  BY DEF QInv, OwnNodes
  <2>2. \A u, v \in Threads : mynode[u] = mynode[v] /\ mynode[u] # 0 => u = v  BY DEF QInv, OwnNodes
  <2>3. CASE Joins(t)
    <3>1. mynode'[t] = calls + 1 /\ \A u \in Threads : u # t => pc'[u] = pc[u] /\ mynode'[u] = mynode[u] /\ mynode'[u] # calls + 1
      BY <1>1, <2>3, NodesStay, Moves
    <3> QED  BY <1>1, <2>1, <2>2, <3>1 DEF OwnNodes
  <2>4. CASE ~Joins(t)
    <3>1. mynode' = mynode /\ pc[t] # "idle" /\ \A u \in Threads : u # t => pc'[u] = pc[u]
      BY <2>4, NodesStay, Moves
    <3> QED  BY <2>1, <2>2, <3>1 DEF OwnNodes
  <2> QED  BY <2>3, <2>4
<1>5. mynode' \in [Threads -> Nat] /\ ptr' \in [Threads -> Nat] /\ calls' \in Nat /\ calls' <= Calls /\ tail' \in {0, calls'}
  <2>1. CASE Joins(t)  BY <1>1, <2>1 DEF Joins, WriteExchange, ReadExchange, Join, Hand, NewNode
  <2>2. CASE Quiet(t)
    BY <1>1, <2>2 DEF Quiet, WriteAnnounce, WriteCount, WriteGranted, WriteUnlock, ReadUnlock,
     LeaveTail, AwaitNext, WritePass, ReadGranted, ReadCount, ReadIn, ReadAdmit, ReadPass, ReadExit, ExitLoad, ExitCount,
     ExitClaim, queued, Hand, kNullPtr
  <2>3. CASE Opens(t)
    BY <1>1, <2>3 DEF Opens, WriteClaim, WriteWake, ReadUnblock, ReadWake, ExitWake
  <2>4. CASE Ties(t)
    BY <1>1, <2>4 DEF Ties, WriteClass, WriteLink, ReadLook, ReadLink, ReadFollow
  <2> QED  BY <2>1, <2>2, <2>3, <2>4 DEF QStep
<1>6. \A u \in Threads : mynode'[u] <= calls' /\ ptr'[u] <= calls'
  <2>1. calls <= calls'  BY <1>1, NodesStay
  <2>2. mynode'[t] <= calls'  BY <1>1, NodesStay
  <2>3. ptr'[t] <= calls'
    <3>1. CASE Joins(t)  BY <1>1, <3>1, NodesStay
    <3>2. CASE Opens(t) \/ Ties(t) \/ Quiet(t)
      <4>1. ptr'[t] = ptr[t] \/ ptr'[t] = next_writer
        BY <1>1, <3>2 DEF Quiet, WriteAnnounce, WriteCount, WriteGranted, WriteUnlock, ReadUnlock,
          LeaveTail, AwaitNext, WritePass, ReadGranted, ReadCount, ReadIn, ReadAdmit, ReadPass, ReadExit, ExitLoad, ExitCount,
          ExitClaim, queued, Hand, Opens, WriteClaim, WriteWake, ReadUnblock, ReadWake, ExitWake,
          Ties, WriteClass, WriteLink, ReadLook, ReadLink, ReadFollow
      <4> QED  BY <1>1, <1>5, <2>1, <4>1
    <3> QED  BY <3>1, <3>2 DEF QStep
  <2>4. ASSUME NEW u \in Threads, u # t PROVE mynode'[u] <= calls' /\ ptr'[u] <= calls'
    <3>1. mynode'[u] = mynode[u] /\ ptr'[u] = ptr[u] /\ mynode[u] <= calls /\ ptr[u] <= calls
      BY <1>1, <2>4, Moves
    <3>2. calls' \in Nat /\ mynode[u] \in Nat /\ ptr[u] \in Nat  BY <1>1, <1>5
    <3> QED  BY <1>1, <2>1, <3>1, <3>2
  <2> QED  BY <2>2, <2>3, <2>4
<1>7. next_writer' \in 0 .. calls'
  <2>1. CASE Joins(t)  BY <1>1, <2>1, NodesStay
  <2>2. CASE ReadPass(t)
    <3>1. mynode[t] \in 1 .. Calls  BY <2>2, InPlace DEF ReadPass
    <3>2. qnode[mynode[t]].next \in 0 .. calls
      BY <1>1, <2>2, <3>1, InPlace DEF QInv, Links, ReadPass
    <3> QED  BY <1>1, <2>2, <3>2 DEF ReadPass
  <2>3. CASE WriteAnnounce(t)  BY <1>1, <2>3 DEF WriteAnnounce
  <2>4. CASE (Opens(t) \/ Ties(t) \/ Quiet(t)) /\ ~ReadPass(t) /\ ~WriteAnnounce(t)
    <3>1. (next_writer' = next_writer \/ next_writer' = 0) /\ calls' = calls
      BY <2>4 DEF Quiet, WriteCount, WriteGranted, WriteUnlock, ReadUnlock,
          LeaveTail, AwaitNext, WritePass, ReadGranted, ReadCount, ReadIn, ReadAdmit, ReadExit, ExitLoad, ExitCount,
          ExitClaim, queued, Opens, WriteClaim, WriteWake, ReadUnblock, ReadWake, ExitWake,
          Ties, WriteClass, WriteLink, ReadLook, ReadLink, ReadFollow, kNullPtr
    <3> QED  BY <1>1, <3>1
  <2> QED  BY <2>1, <2>2, <2>3, <2>4 DEF QStep
<1>8. reader_count' \in Nat
  <2>1. CASE ReadExit(t)
    <3>1. In(t)  BY <2>1 DEF ReadExit, In, Inside
    <3> QED  BY <2>1, <3>1, CountFacts DEF ReadExit
  <2>2. CASE ~ReadExit(t)
    BY <1>1, <2>2 DEF QStep, Quiet, WriteAnnounce, WriteCount, WriteGranted, WriteUnlock, ReadUnlock,
          LeaveTail, AwaitNext, WritePass, ReadGranted, ReadCount, ReadIn, ReadAdmit, ReadPass, ExitLoad, ExitCount,
          ExitClaim, Opens, WriteClaim, WriteWake, ReadUnblock, ReadWake, ExitWake,
          Ties, WriteClass, WriteLink, ReadLook, ReadLink, ReadFollow, Joins, WriteExchange, ReadExchange
  <2> QED  BY <2>1, <2>2
<1> QED  BY <1>2, <1>3, <1>4, <1>5, <1>6, <1>7, <1>8 DEF QTypes

\* A shut gate has somebody before it
LEMMA KeepsOwned ==
  ASSUME QInv, NEW t \in Threads, QStep(t)
  PROVE  Owned'
<1>1. SUFFICES ASSUME NEW n \in 1 .. calls', blocked(n)'
               PROVE  \E u \in Threads : mynode'[u] = n /\ pc'[u] \in Shut \cup Either
  BY DEF Owned
<1>2. CASE n \in 1 .. calls
  <2>1. blocked(n)
    <3>1. qnode[n].blocked \in BOOLEAN  BY <1>2, InPlace DEF QNodes
    <3> QED  BY <1>1, <1>2, <3>1, NodesStay DEF blocked
  <2>2. PICK u \in Threads : mynode[u] = n /\ pc[u] \in Shut \cup Either  BY <1>2, <2>1 DEF QInv, Owned
  <2>3. CASE u # t  BY <2>2, <2>3, Moves
  <2>4. CASE u = t
    <3>1. ~Joins(t)  BY <2>2, <2>4, NodesStay DEF Shut, Either
    <3>2. mynode'[t] = n  BY <2>2, <2>4, <3>1, NodesStay
    <3> QED  BY <1>1, <2>2, <2>4, <3>2, WaysOut DEF blocked
  <2> QED  BY <2>3, <2>4
<1>3. CASE n \notin 1 .. calls
  <2>1. Joins(t) /\ mynode'[t] = n  BY <1>3, NodesStay, InPlace
  <2>2. pc'[t] \in {"w_announce", "w_class", "r_count", "r_look"}
    BY <2>1 DEF Joins, WriteExchange, ReadExchange, Goto, QInv, QTypes
  <2> QED  BY <2>1, <2>2 DEF Shut
<1> QED  BY <1>2, <1>3

\* ... what a thread's place says of its node ...
LEMMA KeepsBlocks ==
  ASSUME QInv, NEW t \in Threads, QStep(t)
  PROVE  Blocks'
<1>1. SUFFICES ASSUME NEW u \in Threads, pc'[u] \notin Out
               PROVE  /\ pc'[u] \in Shut => blocked(mynode[u])'
                      /\ pc'[u] \notin Shut \cup Either => ~blocked(mynode[u])'
                      /\ pc'[u] \in Writing => class(mynode[u])' = "writing"
                      /\ pc'[u] \in Reading => class(mynode[u])' = "reading"
  BY DEF Blocks
<1>2. CASE u # t \/ ~Joins(t)
  <2>1. mynode'[u] = mynode[u]  BY <1>2, Moves, NodesStay
  <2>2. pc[u] \notin Out  BY <1>1, <1>2, Moves, Ways
  <2>3. mynode[u] \in 1 .. calls  BY <2>2, InPlace DEF Out
  <2>4. /\ pc[u] \in Shut => blocked(mynode[u])
        /\ pc[u] \notin Shut \cup Either => ~blocked(mynode[u])
        /\ pc[u] \in Writing => class(mynode[u]) = "writing"
        /\ pc[u] \in Reading => class(mynode[u]) = "reading"
    BY <2>2 DEF QInv, Blocks
  <2>5. class(mynode[u])' = class(mynode[u]) /\ class(mynode[u]) \in {"reading", "writing"}
    BY <2>1, <2>3, NodesStay, InPlace DEF class, QNodes
  <2>6. (pc'[u] \in Writing => class(mynode[u]) = "writing") /\ (pc'[u] \in Reading => class(mynode[u]) = "reading")
    BY <1>2, <2>4, <2>5, Moves, Ways
  <2>7. ASSUME pc'[u] \in Shut PROVE blocked(mynode[u])'
    <3>1. pc[u] \in Shut  BY <1>2, <2>7, Moves, Ways
    <3>2. blocked(mynode[u])  BY <2>4, <3>1
    <3>3. ~Opened(mynode[u])  BY <2>7 DEF Opened
    <3> QED  BY <2>1, <2>3, <3>2, <3>3, Opening DEF blocked
  <2>8. ASSUME pc'[u] \notin Shut \cup Either PROVE ~blocked(mynode[u])'
    <3>1. CASE pc[u] \in Shut \cup Either
      <4>1. u = t  BY <2>8, <3>1, Moves
      <4> QED  BY <2>8, <3>1, <4>1, WaysOut
    <3>2. CASE pc[u] \notin Shut \cup Either  BY <2>1, <2>3, <2>4, <3>2, NodesStay DEF blocked
    <3> QED  BY <3>1, <3>2
  <2> QED  BY <2>5, <2>6, <2>7, <2>8
<1>3. CASE u = t /\ Joins(t)
  <2>1. /\ pc'[t] \in {"w_announce", "w_class", "r_count", "r_look"}
        /\ mynode'[t] = calls + 1 /\ qnode'[calls + 1].blocked
    BY <1>3, NodesStay DEF Joins, WriteExchange, ReadExchange, Goto, QInv, QTypes
  <2>2. /\ pc'[t] \in Writing => qnode'[calls + 1].class = "writing"
        /\ pc'[t] \in Reading => qnode'[calls + 1].class = "reading"
    <3>1. \A c : qnode' = [qnode EXCEPT ![calls + 1] = Node(c)] => qnode'[calls + 1].class = c
      BY <1>3, NodesStay DEF Node, QInv, QTypes
    <3>2. CASE WriteExchange(t)
      BY <3>1, <3>2, Zenon DEF WriteExchange, Join, NewNode, Goto, QInv, QTypes, Assumptions, Reading, Early
    <3>3. CASE ReadExchange(t)
      BY <3>1, <3>3, Zenon DEF ReadExchange, Join, NewNode, Goto, QInv, QTypes, Assumptions, Writing
    <3> QED  BY <1>3, <3>2, <3>3 DEF Joins
  <2> QED  BY <1>3, <2>1, <2>2 DEF blocked, class, Shut
<1> QED  BY <1>2, <1>3

\* ... what a thread has in hand ...
LEMMA KeepsPreds ==
  ASSUME QInv, NEW t \in Threads, QStep(t)
  PROVE  Preds'
<1>1. SUFFICES ASSUME NEW u \in Threads
               PROVE  /\ pc'[u] \in {"w_class", "w_link", "r_look", "r_link", "r_follow"} =>
                            ptr'[u] # 0 /\ ptr'[u] = mynode'[u] - 1
                      /\ pc'[u] = "r_count" => ptr'[u] = 0 \/ ptr'[u] = mynode'[u] - 1
  BY DEF Preds
<1>2. CASE u # t  BY <1>2, Moves DEF QInv, Preds
<1>3. CASE u = t /\ Joins(t)
  <2>1. ptr'[t] = tail /\ mynode'[t] = calls + 1 /\ tail \in {0, calls} /\ calls \in Nat
    BY <1>3, NodesStay DEF QInv, QTypes
  <2>2. pc'[t] \in {"w_class", "r_look"} => tail # 0
    BY <1>3 DEF Joins, WriteExchange, ReadExchange, Goto, QInv, QTypes, kNullPtr
  <2>3. pc'[t] \in {"w_announce", "w_class", "r_count", "r_look"}
    BY <1>3 DEF Joins, WriteExchange, ReadExchange, Goto, QInv, QTypes
  <2>4. ptr'[t] = 0 \/ ptr'[t] = mynode'[t] - 1  BY <2>1
  <2>5. pc'[t] \in {"w_class", "r_look"} => ptr'[t] # 0  BY <2>1, <2>2, Zenon
  <2>6. pc'[t] \notin {"w_link", "r_link", "r_follow"}  BY <2>3
  <2> QED  BY <1>3, <2>4, <2>5, <2>6
<1>4. CASE u = t /\ ~Joins(t)
  <2>1. mynode'[t] = mynode[t]  BY <1>4, NodesStay, Zenon
  <2>2. CASE Ties(t)
    BY <1>4, <2>1, <2>2 DEF Ties, WriteClass, WriteLink, ReadLook, ReadLink, ReadFollow, Goto, QInv, QTypes, Preds
  <2>3. CASE Quiet(t)
    BY <1>4, <2>1, <2>3 DEF Quiet, WriteAnnounce, WriteCount, WriteGranted, WriteUnlock, ReadUnlock,
          LeaveTail, AwaitNext, WritePass, ReadGranted, ReadCount, ReadIn, ReadAdmit, ReadPass, ReadExit, ExitLoad, ExitCount,
          ExitClaim, Goto, Passing, Leaving, queued, QInv, QTypes, Preds, kNullPtr
  <2>4. CASE Opens(t)
    BY <1>4, <2>1, <2>4 DEF Opens, WriteClaim, WriteWake, ReadUnblock, ReadWake, ExitWake, Goto, QInv, QTypes
  <2> QED  BY <1>4, <2>2, <2>3, <2>4, Zenon DEF QStep
<1> QED  BY <1>2, <1>3, <1>4

\* Who writes into the node in front
LEMMA Pointers ==
  ASSUME QInv, NEW t \in Threads, QStep(t), NEW n \in 1 .. Calls
  PROVE  /\ \/ qnode'[n].next = qnode[n].next
            \/ Joins(t) /\ n = calls + 1 /\ qnode'[n].next = 0
            \/ /\ n + 1 = mynode[t] /\ qnode'[n].next = n + 1 /\ pc[t] \in {"w_link", "r_link", "r_follow"}
               /\ pc'[t] \in {"w_wait", "r_wait", "r_unblock"} /\ ~Joins(t)
         /\ \/ qnode'[n].successor = qnode[n].successor
            \/ Joins(t) /\ n = calls + 1 /\ qnode'[n].successor = "none"
            \/ /\ n + 1 = mynode[t] /\ qnode'[n].successor = "writer" /\ ~Joins(t)
               /\ pc[t] = "w_class" /\ pc'[t] = "w_link"
            \/ /\ n + 1 = mynode[t] /\ qnode'[n].successor = "reader" /\ ~Joins(t)
               /\ pc[t] = "r_look" /\ pc'[t] = "r_link"
<1>1. /\ qnode \in [1 .. Calls -> QNodes] /\ qnode[n] \in QNodes /\ pc \in [Threads -> QueuePCs]
      /\ mynode[t] \in Nat /\ calls \in Nat
  BY DEF QInv, QTypes
<1>2. CASE Quiet(t)
  <2>1. UNCHANGED qnode
    BY <1>2, Zenon DEF Quiet, WriteAnnounce, WriteCount, WriteGranted, WriteUnlock, ReadUnlock,
          LeaveTail, AwaitNext, WritePass, ReadGranted, ReadCount, ReadIn, ReadAdmit, ReadPass, ReadExit, ExitLoad, ExitCount,
          ExitClaim, queued
  <2> QED  BY <2>1
<1>3. CASE Opens(t)
  <2>1. UNCHANGED qnode \/ \E m : unblock(m)
    BY <1>3 DEF Opens, WriteClaim, WriteWake, ReadUnblock, ReadWake, ExitWake
  <2>2. ASSUME NEW m, unblock(m) PROVE qnode'[n].next = qnode[n].next /\ qnode'[n].successor = qnode[n].successor
    <3>1. qnode'[n] = IF n = m THEN [qnode[n] EXCEPT !.blocked = FALSE] ELSE qnode[n]
      BY <1>1, <2>2, Zenon DEF unblock
    <3> QED  BY <1>1, <3>1, NodeUpdates
  <2>3. qnode'[n].next = qnode[n].next /\ qnode'[n].successor = qnode[n].successor  BY <2>1, <2>2
  <2> QED  BY <2>3, Zenon
<1>4. CASE Ties(t)
  <2>1. ptr[t] = mynode[t] - 1 /\ ~Joins(t) /\ (n = ptr[t] <=> n + 1 = mynode[t])
    BY <1>1, <1>4 DEF Ties, WriteClass, WriteLink, ReadLook, ReadLink, ReadFollow, Joins, WriteExchange, ReadExchange, QInv, Preds
  <2>2. CASE WriteLink(t) \/ ReadLink(t) \/ ReadFollow(t)
    <3>1. /\ qnode' = [qnode EXCEPT ![ptr[t]].next = mynode[t]]
          /\ pc[t] \in {"w_link", "r_link", "r_follow"} /\ pc'[t] \in {"w_wait", "r_wait", "r_unblock"}
      BY <1>1, <2>2 DEF WriteLink, ReadLink, ReadFollow, Goto
    <3>2. qnode'[n] = IF n = ptr[t] THEN [qnode[n] EXCEPT !.next = mynode[t]] ELSE qnode[n]
      BY <1>1, <3>1
    <3> QED  BY <1>1, <2>1, <3>1, <3>2, NodeUpdates
  <2>3. CASE WriteClass(t)
    <3>1. qnode' = [qnode EXCEPT ![ptr[t]].successor = "writer"] /\ pc[t] = "w_class" /\ pc'[t] = "w_link"
      BY <1>1, <2>3 DEF WriteClass, Goto
    <3>2. qnode'[n] = IF n = ptr[t] THEN [qnode[n] EXCEPT !.successor = "writer"] ELSE qnode[n]
      BY <1>1, <3>1
    <3> QED  BY <1>1, <2>1, <3>1, <3>2, NodeUpdates
  <2>4. CASE ReadLook(t)
    <3>1. \/ UNCHANGED qnode
          \/ qnode' = [qnode EXCEPT ![ptr[t]].successor = "reader"] /\ pc[t] = "r_look" /\ pc'[t] = "r_link"
      BY <1>1, <2>4 DEF ReadLook, Goto
    <3>2. ASSUME qnode' = [qnode EXCEPT ![ptr[t]].successor = "reader"]
          PROVE  qnode'[n] = IF n = ptr[t] THEN [qnode[n] EXCEPT !.successor = "reader"] ELSE qnode[n]
      BY <1>1, <3>2
    <3>3. CASE UNCHANGED qnode  BY <3>3
    <3>4. CASE qnode' = [qnode EXCEPT ![ptr[t]].successor = "reader"] /\ pc[t] = "r_look" /\ pc'[t] = "r_link"
      BY <1>1, <2>1, <3>2, <3>4, NodeUpdates
    <3> QED  BY <3>1, <3>3, <3>4
  <2> QED  BY <1>4, <2>2, <2>3, <2>4, Zenon DEF Ties
<1>5. CASE Joins(t)  BY <1>5, NodesStay
<1> QED  BY <1>2, <1>3, <1>4, <1>5 DEF QStep

\* ... the links ...
LEMMA KeepsLinks ==
  ASSUME QInv, NEW t \in Threads, QStep(t)
  PROVE  Links'
<1>0. calls \in Nat /\ Calls \in Nat /\ (calls' = calls \/ calls' = calls + 1)
  BY InPlace, NodesStay
<1>1. ASSUME NEW n \in 1 .. Calls, qnode'[n].next # 0
      PROVE  /\ qnode'[n].next = n + 1 /\ n + 1 <= calls'
             /\ \A u \in Threads : mynode'[u] = n + 1 => pc'[u] \notin Unlinked
  <2>1. CASE qnode'[n].next = qnode[n].next
    <3>1. /\ qnode[n].next = n + 1 /\ n + 1 <= calls
          /\ \A u \in Threads : mynode[u] = n + 1 => pc[u] \notin Unlinked
      BY <1>1, <2>1 DEF QInv, Links
    <3>2. ASSUME NEW u \in Threads, mynode'[u] = n + 1 PROVE pc'[u] \notin Unlinked
      <4>1. CASE u # t  BY <3>1, <3>2, <4>1, Moves
      <4>2. CASE u = t
        <5>1. ~Joins(t)  BY <1>0, <3>1, <3>2, <4>2, NodesStay
        <5> QED  BY <3>1, <3>2, <4>2, <5>1, NodesStay, Ways
      <4> QED  BY <4>1, <4>2
    <3> QED  BY <1>0, <2>1, <3>1, <3>2
  <2>2. CASE qnode'[n].next # qnode[n].next
    <3>1. /\ n + 1 = mynode[t] /\ qnode'[n].next = n + 1 /\ pc[t] \in {"w_link", "r_link", "r_follow"}
          /\ pc'[t] \in {"w_wait", "r_wait", "r_unblock"} /\ ~Joins(t)
      BY <1>1, <2>2, Pointers
    <3>2. mynode' = mynode /\ calls' = calls /\ mynode[t] <= calls
      BY <3>1, NodesStay DEF QInv, QTypes
    <3>3. \A u \in Threads : mynode[u] = n + 1 => u = t  BY <1>1, <3>1 DEF QInv, OwnNodes
    <3> QED  BY <1>0, <3>1, <3>2, <3>3 DEF Unlinked
  <2> QED  BY <2>1, <2>2
<1>2. ASSUME NEW u \in Threads, pc'[u] \in {"w_pass", "r_pass", "w_wake", "r_wake"} PROVE qnode'[mynode'[u]].next # 0
  <2>1. ~Joins(t) \/ u # t
    BY <1>2 DEF Joins, WriteExchange, ReadExchange, Goto, QInv, QTypes
  <2>2. mynode'[u] = mynode[u]  BY <2>1, NodesStay, Moves
  <2>3. pc[u] # "idle"  BY <1>2, <2>1, NodesStay, Moves
  <2>4. mynode[u] \in 1 .. calls /\ mynode[u] \in 1 .. Calls /\ mynode[u] # calls + 1  BY <2>3, InPlace
  <2>5. qnode[mynode[u]].next # 0
    <3>1. CASE u # t  BY <1>2, <3>1, Moves DEF QInv, Links
    <3>2. CASE u = t
      <4>1. CASE Quiet(t)
        BY <1>2, <3>2, <4>1 DEF Quiet, WriteAnnounce, WriteCount, WriteGranted, WriteUnlock, ReadUnlock,
          LeaveTail, AwaitNext, WritePass, ReadGranted, ReadCount, ReadIn, ReadAdmit, ReadPass, ReadExit, ExitLoad, ExitCount,
          ExitClaim, Goto, Passing, Leaving, QInv, QTypes, Links, kNullPtr
      <4>2. CASE Opens(t) \/ Ties(t)
        BY <1>2, <3>2, <4>2 DEF Opens, WriteClaim, WriteWake, ReadUnblock, ReadWake, ExitWake, Goto, QInv, QTypes,
           Ties, WriteClass, WriteLink, ReadLook, ReadLink, ReadFollow
      <4> QED  BY <2>1, <3>2, <4>1, <4>2 DEF QStep
    <3> QED  BY <3>1, <3>2
  <2> QED  BY <2>2, <2>4, <2>5, Pointers
<1> QED  BY <1>1, <1>2 DEF Links

\* ... the classes told to the nodes in front ...
LEMMA KeepsSuccessors ==
  ASSUME QInv, NEW t \in Threads, QStep(t)
  PROVE  Successors'
<1>0. calls \in Nat /\ Calls \in Nat /\ (calls' = calls \/ calls' = calls + 1)
  BY InPlace, NodesStay
<1>1. SUFFICES ASSUME NEW n \in 1 .. Calls, qnode'[n].successor # "none"
               PROVE  /\ n + 1 <= calls'
                      /\ \A u \in Threads : mynode'[u] = n + 1 => pc'[u] \notin {"w_class", "r_look"}
                      /\ qnode'[n].successor = "writer" => class(n + 1)' = "writing"
                      /\ qnode'[n].successor = "reader" => class(n + 1)' = "reading"
  BY DEF Successors
<1>2. CASE qnode'[n].successor = qnode[n].successor
  <2>1. /\ n + 1 <= calls
        /\ \A u \in Threads : mynode[u] = n + 1 => pc[u] \notin {"w_class", "r_look"}
        /\ qnode[n].successor = "writer" => class(n + 1) = "writing"
        /\ qnode[n].successor = "reader" => class(n + 1) = "reading"
    BY <1>1, <1>2 DEF QInv, Successors
  <2>2. ASSUME NEW u \in Threads, mynode'[u] = n + 1 PROVE pc'[u] \notin {"w_class", "r_look"}
    <3>1. CASE u # t  BY <2>1, <2>2, <3>1, Moves
    <3>2. CASE u = t
      <4>1. ~Joins(t)  BY <1>0, <2>1, <2>2, <3>2, NodesStay
      <4> QED  BY <3>2, <4>1, Ways
    <3> QED  BY <3>1, <3>2
  <2>3. n + 1 \in 1 .. calls  BY <1>0, <2>1
  <2>4. class(n + 1)' = class(n + 1)  BY <2>3, NodesStay
  <2> QED  BY <1>0, <1>2, <2>1, <2>2, <2>4
<1>3. CASE qnode'[n].successor # qnode[n].successor
  <2>1. /\ n + 1 = mynode[t] /\ ~Joins(t)
        /\ \/ qnode'[n].successor = "writer" /\ pc[t] = "w_class" /\ pc'[t] = "w_link"
           \/ qnode'[n].successor = "reader" /\ pc[t] = "r_look" /\ pc'[t] = "r_link"
    BY <1>1, <1>3, Pointers
  <2>2. mynode' = mynode /\ calls' = calls /\ mynode[t] <= calls
    BY <2>1, NodesStay DEF QInv, QTypes
  <2>3. \A u \in Threads : mynode[u] = n + 1 => u = t  BY <1>1, <2>1 DEF QInv, OwnNodes
  <2>4. n + 1 \in 1 .. calls  BY <1>0, <2>1, <2>2
  <2>5. class(n + 1)' = class(n + 1)  BY <2>4, NodesStay
  <2>6. /\ pc[t] = "w_class" => class(mynode[t]) = "writing"
        /\ pc[t] = "r_look" => class(mynode[t]) = "reading"
    BY DEF QInv, Blocks, Out, Writing, Reading, Early
  <2> QED  BY <1>0, <2>1, <2>2, <2>3, <2>5, <2>6
<1> QED  BY <1>2, <1>3

\* ... the readers that wait to be let in by a reader ...
LEMMA KeepsBehind ==
  ASSUME QInv, NEW t \in Threads, QStep(t)
  PROVE  Behind'
<1>0. calls \in Nat /\ Calls \in Nat /\ (calls' = calls \/ calls' = calls + 1)
  BY InPlace, NodesStay
<1>1. SUFFICES ASSUME NEW v \in Threads
               PROVE  /\ pc'[v] \in {"r_next", "r_wake"} => qnode'[mynode'[v]].successor = "reader"
                      /\ pc'[v] \in Early /\ qnode'[mynode'[v]].successor = "reader"
                          => /\ qnode'[mynode'[v] + 1].blocked
                             /\ \A u \in Threads : mynode'[u] = mynode'[v] + 1 => pc'[u] \in {"r_link", "r_wait"}
  BY DEF Behind, blocked
<1>2. CASE v = t /\ Joins(t)
  <2>1. qnode'[mynode'[v]].successor = "none"  BY <1>2, NodesStay
  <2>2. pc'[t] \in {"w_announce", "w_class", "r_count", "r_look"}
    BY <1>2 DEF Joins, WriteExchange, ReadExchange, Goto, QInv, QTypes
  <2> QED  BY <1>2, <2>1, <2>2
<1>3. CASE v # t \/ ~Joins(t)
  <2> DEFINE m == mynode[v]
  <2>1. mynode'[v] = m  BY <1>3, NodesStay, Moves
  <2>2. ASSUME pc'[v] \in Early
        PROVE  pc[v] \in Early /\ m \in 1 .. calls /\ m \in 1 .. Calls /\ m # calls + 1
    <3>1. pc[v] \in Early  BY <1>3, <2>2, Ways, Moves
    <3> QED  BY <3>1, InPlace DEF Early
  <2>3. ASSUME pc'[v] \in {"r_next", "r_wake"} PROVE qnode'[m].successor = "reader"
    <3>1. pc[v] \in Early /\ m \in 1 .. calls /\ m \in 1 .. Calls /\ m # calls + 1  BY <2>2, <2>3 DEF Early
    <3>2. qnode[m].successor = "reader"
      <4>1. CASE v # t  BY <2>3, <4>1, Moves DEF QInv, Behind
      <4>2. CASE v = t
        <5>1. CASE Quiet(t)
          BY <2>3, <4>2, <5>1 DEF Quiet, WriteAnnounce, WriteCount, WriteGranted, WriteUnlock, ReadUnlock,
          LeaveTail, AwaitNext, WritePass, ReadGranted, ReadCount, ReadIn, ReadAdmit, ReadPass, ReadExit, ExitLoad, ExitCount,
          ExitClaim, Goto, Passing, Leaving, QInv, QTypes, Behind
        <5>2. CASE Opens(t) \/ Ties(t)
          BY <2>3, <4>2, <5>2 DEF Opens, WriteClaim, WriteWake, ReadUnblock, ReadWake, ExitWake, Goto, QInv, QTypes,
           Ties, WriteClass, WriteLink, ReadLook, ReadLink, ReadFollow
        <5> QED  BY <1>3, <4>2, <5>1, <5>2 DEF QStep
      <4> QED  BY <4>1, <4>2
    <3>3. \A u \in Threads : mynode[u] = m + 1 => pc[u] # "w_class"
      BY <3>1, <3>2 DEF QInv, Behind
    <3> QED  BY <3>1, <3>2, <3>3, Pointers
  <2>4. ASSUME pc'[v] \in Early, qnode'[m].successor = "reader"
        PROVE  qnode'[m + 1].blocked /\ \A u \in Threads : mynode'[u] = m + 1 => pc'[u] \in {"r_link", "r_wait"}
    <3>1. pc[v] \in Early /\ m \in 1 .. calls /\ m \in 1 .. Calls /\ m # calls + 1  BY <2>2, <2>4
    <3>2. CASE qnode[m].successor = "reader"
      <4>1. /\ blocked(m + 1) /\ m + 1 \in 1 .. calls /\ class(m + 1) = "reading"
            /\ \A u \in Threads : mynode[u] = m + 1 => pc[u] \in {"r_link", "r_wait"}
        BY <1>0, <3>1, <3>2 DEF QInv, Behind, Successors
      <4>2. qnode'[m + 1].blocked
        <5>1. SUFFICES ASSUME ~qnode'[m + 1].blocked PROVE FALSE  OBVIOUS
        <5>2. Opens(t)  BY <4>1, <5>1, NodesStay DEF blocked
        <5>3. ASSUME NEW n, Opened(n) PROVE n = m + 1
          BY <4>1, <5>1, <5>3 DEF Opened, blocked
        <5>4. \A u \in Threads : mynode[u] = m + 1 /\ m # 0 => pc[u] # "r_unblock" /\ class(mynode[u]) = "reading"
          BY <4>1
        <5>5. CASE WriteClaim(t)
          <6>1. next_writer = mynode[t]  BY <4>1, <5>1, <5>5 DEF WriteClaim, blocked
          <6>2. mynode[t] = m + 1  BY <5>3, <5>5, <6>1, OpenClaim
          <6> QED  BY <4>1, <5>5, <6>2 DEF WriteClaim
        <5>6. CASE WriteWake(t)
          <6>1. mynode[t] + 1 = m + 1  BY <5>3, <5>6, OpenWriteWake
          <6>2. t = v  BY <3>1, <6>1, InPlace DEF QInv, OwnNodes, QTypes
          <6> QED  BY <3>1, <5>6, <6>2 DEF WriteWake, Early
        <5>7. CASE ReadUnblock(t)
          <6>1. mynode[t] = m + 1  BY <5>3, <5>7, OpenUnblock
          <6>2. pc[t] \in {"r_link", "r_wait"}  BY <4>1, <6>1
          <6> QED  BY <5>7, <6>2 DEF ReadUnblock
        <5>8. CASE ReadWake(t)
          <6>1. mynode[t] + 1 = m + 1  BY <5>3, <5>8, OpenReadWake
          <6>2. t = v  BY <3>1, <6>1, InPlace DEF QInv, OwnNodes, QTypes
          <6> QED  BY <2>4, <5>8, <6>2 DEF ReadWake, Early, Goto, QInv, QTypes
        <5>9. CASE ExitWake(t)
          <6>1. ptr[t] = m + 1 /\ class(ptr[t]) = "writing"  BY <5>3, <5>9, OpenExitWake
          <6> QED  BY <4>1, <6>1
        <5> QED  BY <5>2, <5>5, <5>6, <5>7, <5>8, <5>9 DEF Opens
      <4>3. ASSUME NEW u \in Threads, mynode'[u] = m + 1 PROVE pc'[u] \in {"r_link", "r_wait"}
        <5>1. ~(u = t /\ Joins(t))  BY <1>0, <4>1, <4>3, NodesStay
        <5>2. mynode[u] = m + 1  BY <4>3, <5>1, NodesStay, Moves
        <5>3. pc[u] \in {"r_link", "r_wait"}  BY <4>1, <5>2
        <5>4. CASE u # t  BY <5>3, <5>4, Moves, Zenon
        <5>5. CASE u = t
          <6>1. blocked(mynode[t])  BY <4>1, <5>2, <5>5
          <6> QED
            BY <5>1, <5>3, <5>5, <6>1
            DEF QStep, Quiet, WriteAnnounce, WriteCount, WriteGranted, WriteUnlock, ReadUnlock,
              LeaveTail, AwaitNext, WritePass, ReadGranted, ReadCount, ReadIn, ReadAdmit, ReadPass, ReadExit, ExitLoad,
              ExitCount, ExitClaim, Goto, Leaving, QInv, QTypes,
              Opens, WriteClaim, WriteWake, ReadUnblock, ReadWake, ExitWake,
              Ties, WriteClass, WriteLink, ReadLook, ReadLink, ReadFollow, blocked
        <5> QED  BY <5>4, <5>5
      <4> QED  BY <4>2, <4>3
    <3>3. CASE qnode[m].successor # "reader"
      <4>1. m + 1 = mynode[t] /\ ~Joins(t) /\ pc[t] = "r_look" /\ pc'[t] = "r_link"
        BY <2>4, <3>1, <3>3, Pointers
      <4>2. \A u \in Threads : mynode[u] = m + 1 => u = t  BY <3>1, <4>1 DEF QInv, OwnNodes
      <4>3. mynode' = mynode /\ m + 1 \in 1 .. calls  BY <4>1, NodesStay, InPlace
      <4>4. blocked(m + 1)  BY <4>1 DEF QInv, Blocks, Shut, Out
      <4>5. ~Opens(t)
        BY <4>1 DEF Opens, WriteClaim, WriteWake, ReadUnblock, ReadWake, ExitWake
      <4> QED  BY <4>1, <4>2, <4>3, <4>4, <4>5, NodesStay DEF blocked
    <3> QED  BY <3>2, <3>3
  <2> QED  BY <2>1, <2>3, <2>4
<1> QED  BY <1>2, <1>3

\* ... the order of opening ...
LEMMA KeepsInOrder ==
  ASSUME QInv, NEW t \in Threads, QStep(t)
  PROVE  InOrder'
<1>0. calls \in Nat /\ (calls' = calls \/ (calls' = calls + 1 /\ qnode'[calls + 1].blocked))
  BY InPlace, NodesStay
<1>1. SUFFICES ASSUME NEW m \in 1 .. calls', NEW n \in 1 .. calls', m < n, blocked(m)', ~blocked(n)' PROVE FALSE
  BY DEF InOrder
<1>2. n \in 1 .. calls /\ m \in 1 .. calls /\ m \in 1 .. n - 1  BY <1>0, <1>1 DEF blocked
<1>3. blocked(m)  BY <1>1, <1>2, NodesStay
<1>4. blocked(n)  BY <1>1, <1>2, <1>3 DEF QInv, InOrder
<1>5. Opened(n)  BY <1>1, <1>2, <1>4, Opening
<1> QED  BY <1>2, <1>3, <1>5 DEF Opened

\* ... the exclusion of open writers' nodes ...
LEMMA KeepsExcludes ==
  ASSUME QInv, NEW t \in Threads, QStep(t)
  PROVE  Excludes'
<1>0. calls \in Nat /\ (calls' = calls \/ (calls' = calls + 1 /\ qnode'[calls + 1].blocked))
  BY InPlace, NodesStay
<1>1. SUFFICES ASSUME NEW m \in 1 .. calls', class(m)' = "writing", ~blocked(m)'
               PROVE  (\A k \in 1 .. m - 1 : Left(k)') /\ (InW(m)' => \A k \in m + 1 .. calls' : blocked(k)')
  BY DEF Excludes, InW
<1>2. m \in 1 .. calls  BY <1>0, <1>1 DEF blocked
<1>3. class(m) = "writing"  BY <1>1, <1>2, NodesStay
<1>4. CASE blocked(m)
  <2>1. Opened(m)  BY <1>1, <1>2, <1>4, Opening
  <2>2. ASSUME NEW k \in m + 1 .. calls' PROVE blocked(k)'
    <3>1. CASE k \in 1 .. calls
      <4>1. blocked(k)  BY <1>2, <1>4, <3>1 DEF QInv, InOrder
      <4>2. qnode'[k] = qnode[k]  BY <1>2, <2>1, <3>1 DEF Opened
      <4> QED  BY <4>1, <4>2 DEF blocked
    <3>2. CASE k \notin 1 .. calls  BY <1>0, <1>2, <3>2 DEF blocked
    <3> QED  BY <3>1, <3>2
  <2> QED  BY <1>3, <2>1, <2>2 DEF Opened
<1>5. CASE ~blocked(m)
  <2>1. \A k \in 1 .. m - 1 : Left(k)
    BY <1>2, <1>3, <1>5 DEF QInv, Excludes
  <2>2. ASSUME NEW k \in 1 .. m - 1 PROVE Left(k)'
    <3>1. k \in 1 .. calls  BY <1>0, <1>2
    <3> QED  BY <2>1, <3>1, LeftStays
  <2>3. ASSUME InW(m)', NEW k \in m + 1 .. calls' PROVE blocked(k)'
    <3>1. CASE k \in 1 .. calls
      <4>1. InW(m)  BY <1>2, <1>5, <2>3, InWStays
      <4>2. blocked(k)  BY <1>0, <1>2, <3>1, <4>1 DEF QInv, Excludes
      <4>3. ASSUME ~blocked(k)' PROVE FALSE
        <5>1. Opened(k)  BY <3>1, <4>2, <4>3, Opening
        <5>2. m \in 1 .. k - 1  BY <1>0, <1>2
        <5>3. class(k) \in {"reading", "writing"}  BY <3>1, InPlace DEF class, QNodes
        <5> QED  BY <2>3, <5>1, <5>2, <5>3 DEF Opened, InW
      <4> QED  BY <4>3
    <3>2. CASE k \notin 1 .. calls  BY <1>0, <1>2, <3>2 DEF blocked
    <3> QED  BY <3>1, <3>2
  <2> QED  BY <2>2, <2>3
<1> QED  BY <1>4, <1>5

\* Who announces a writer
LEMMA NextWriter ==
  ASSUME QInv, NEW t \in Threads, QStep(t)
  PROVE  \/ next_writer' = next_writer
         \/ next_writer' = 0
         \/ WriteAnnounce(t)
         \/ ReadPass(t) /\ qnode[mynode[t]].successor = "writer"
BY DEF QStep, Quiet, WriteAnnounce, WriteCount, WriteGranted, WriteUnlock, ReadUnlock,
       LeaveTail, AwaitNext, WritePass, ReadGranted, ReadCount, ReadIn, ReadAdmit, ReadPass, ReadExit, ExitLoad,
       ExitCount, ExitClaim, queued, kNullPtr,
       Opens, WriteClaim, WriteWake, ReadUnblock, ReadWake, ExitWake,
       Ties, WriteClass, WriteLink, ReadLook, ReadLink, ReadFollow, Joins, WriteExchange, ReadExchange

\* ... who is at the front ...
LEMMA KeepsFronts ==
  ASSUME QInv, NEW t \in Threads, QStep(t)
  PROVE  Fronts'
<1>0. calls \in Nat /\ Calls \in Nat  BY InPlace
<1>a. tail = 0 => Front(calls + 1) /\ Passed(calls + 1)  BY DEF QInv, Fronts
<1>b. Joins(t) /\ pc'[t] \in AtFront => tail = 0
  BY DEF Joins, WriteExchange, ReadExchange, Goto, QInv, QTypes, AtFront, kNullPtr
<1>1. ASSUME NEW u \in Threads, pc'[u] \in AtFront PROVE Front(mynode[u])'
  <2>1. CASE u = t /\ Joins(t)
    <3>1. PICK n \in 1 .. calls + 1 : n = calls + 1  BY <1>0
    <3>2. Front(n)'  BY <1>1, <1>a, <1>b, <2>1, <3>1, FrontStays
    <3>3. mynode'[u] = n  BY <2>1, <3>1, NodesStay
    <3> QED  BY <3>2, <3>3 DEF Front
  <2>2. CASE (u # t \/ ~Joins(t)) /\ pc[u] \in AtFront
    <3>1. PICK n \in 1 .. calls : n = mynode[u]  BY <2>2, InPlace DEF AtFront
    <3>2. Front(n)  BY <2>2, <3>1 DEF QInv, Fronts, AtFront
    <3>3. Front(n)'  BY <1>0, <3>2, FrontStays
    <3>4. mynode'[u] = n  BY <2>2, <3>1, NodesStay, Moves
    <3> QED  BY <3>3, <3>4 DEF Front
  <2>3. CASE (u # t \/ ~Joins(t)) /\ pc[u] \notin AtFront
    <3>1. u = t /\ ~Joins(t)  BY <1>1, <2>3, Moves
    <3>2. ReadLook(t) /\ pc'[t] = "r_count"
      BY <1>1, <2>3, <3>1 DEF QStep, Quiet, WriteAnnounce, WriteCount, WriteGranted, WriteUnlock, ReadUnlock,
              LeaveTail, AwaitNext, WritePass, ReadGranted, ReadCount, ReadIn, ReadAdmit, ReadPass, ReadExit, ExitLoad,
              ExitCount, ExitClaim, Goto, Leaving, Passing, QInv, QTypes, AtFront,
              Opens, WriteClaim, WriteWake, ReadUnblock, ReadWake, ExitWake,
              Ties, WriteClass, WriteLink, ReadLook, ReadLink, ReadFollow
    <3>3. PICK p \in 1 .. calls : p = ptr[t] /\ p + 1 = mynode[t]
      BY <1>0, <3>2 DEF ReadLook, QInv, QTypes, Preds
    <3>4. PICK n \in 1 .. calls : n = mynode[t]  BY <3>2, InPlace DEF ReadLook
    <3>5. qnode[p] \in QNodes /\ qnode[p].successor = "none"
      <4>1. p \in 1 .. Calls /\ qnode[p] \in QNodes  BY <3>3, InPlace
      <4> QED  BY <3>2, <3>3, <4>1 DEF ReadLook, QInv, Successors
    <3>6. ~blocked(p) /\ class(p) = "reading"
      BY <3>2, <3>3, <3>5 DEF ReadLook, Goto, QInv, QTypes, blocked, class, QNodes
    <3>7. Front(n)
      <4>1. SUFFICES ASSUME NEW k \in 1 .. n - 1 PROVE ~blocked(k) /\ ~InW(k)  BY DEF Front
      <4>2. k \in 1 .. calls /\ (k = p \/ k < p)  BY <1>0, <3>3, <3>4
      <4>3. ~blocked(k)  BY <3>3, <3>6, <4>2 DEF QInv, InOrder
      <4>4. InW(k) => k = p  BY <1>0, <3>3, <3>6, <4>2 DEF QInv, Excludes
      <4> QED  BY <3>6, <4>3, <4>4 DEF InW
    <3>8. Front(n)'  BY <1>0, <3>7, FrontStays
    <3>9. mynode'[u] = n  BY <3>1, <3>4, NodesStay
    <3> QED  BY <3>8, <3>9 DEF Front
  <2> QED  BY <2>1, <2>2, <2>3
<1>2. ASSUME tail' = 0 PROVE Front(calls + 1)' /\ Passed(calls + 1)'
  <2>1. ~Joins(t) /\ calls' = calls /\ mynode' = mynode  BY <1>0, <1>2, NodesStay
  <2>2. PICK n \in 1 .. calls + 1 : n = calls + 1  BY <1>0
  <2>3. CASE tail = 0
    <3>1. Front(n)' /\ Passed(n)'  BY <1>a, <2>2, <2>3, FrontStays, PassedStays
    <3> QED  BY <2>1, <2>2, <3>1 DEF Front, Passed
  <2>4. CASE tail # 0
    <3>1. LeaveTail(t) /\ tail = mynode[t]
      BY <1>2, <2>1, <2>4 DEF QStep, Quiet, WriteAnnounce, WriteCount, WriteGranted, WriteUnlock, ReadUnlock,
              LeaveTail, AwaitNext, WritePass, ReadGranted, ReadCount, ReadIn, ReadAdmit, ReadPass, ReadExit, ExitLoad,
              ExitCount, ExitClaim, queued, kNullPtr,
              Opens, WriteClaim, WriteWake, ReadUnblock, ReadWake, ExitWake,
              Ties, WriteClass, WriteLink, ReadLook, ReadLink, ReadFollow
    <3>2. tail = calls /\ mynode[t] = calls /\ calls \in 1 .. calls  BY <1>0, <2>4, <3>1 DEF QInv, QTypes
    <3>3. pc[t] \in {"w_leave", "r_leave"} /\ pc'[t] = IF pc[t] = "w_leave" THEN "idle" ELSE "r_exit"
      BY <3>1 DEF LeaveTail, Leaving, Goto, QInv, QTypes
    <3>4. ~blocked(calls) /\ (pc[t] = "r_leave" => class(calls) = "reading")
      BY <3>2, <3>3 DEF QInv, Blocks, Out, Shut, Either, Reading, Early
    <3>5. \A u \in Threads : mynode[u] = calls => u = t  BY <2>4, <3>2 DEF QInv, OwnNodes
    <3>6. ASSUME NEW k \in 1 .. calls PROVE ~blocked(k)' /\ ~InW(k)'
      <4>1. ~blocked(k)  BY <1>0, <3>2, <3>4 DEF QInv, InOrder
      <4>2. ~blocked(k)'  BY <4>1, NodesStay
      <4>3. CASE k = calls
        <5>1. CASE pc[t] = "w_leave"
          <6>1. Left(k)'  BY <2>1, <3>3, <3>5, <4>3, <5>1 DEF Left, Out
          <6> QED  BY <4>2, <6>1 DEF InW
        <5>2. CASE pc[t] = "r_leave"  BY <3>4, <4>2, <4>3, <5>2, NodesStay DEF InW
        <5> QED  BY <3>3, <5>1, <5>2
      <4>4. CASE k # calls
        <5>1. pc[t] \notin Out /\ ~blocked(mynode[t]) /\ mynode[t] # k  BY <3>2, <3>3, <3>4, <4>4 DEF Out
        <5>2. ~InW(k)  BY <5>1, WriterAlone
        <5> QED  BY <4>1, <4>2, <5>2, InWStays
      <4> QED  BY <4>3, <4>4
    <3>7. Front(calls + 1)'  BY <1>0, <2>1, <3>6 DEF Front
    <3>8. Passed(calls + 1)'
      <4>1. \A u \in Threads : mynode[u] + 1 = calls + 1 => u = t  BY <1>0, <3>5 DEF QInv, QTypes
      <4> QED  BY <2>1, <3>3, <4>1 DEF Passed, Gone, Out
    <3> QED  BY <3>7, <3>8
  <2> QED  BY <2>3, <2>4
<1>3. ASSUME next_writer' # 0 PROVE Front(next_writer)' /\ Passed(next_writer)'
  <2>1. CASE next_writer' = next_writer
    <3>1. PICK n \in 1 .. calls + 1 : n = next_writer  BY <1>0, <1>3, <2>1 DEF QInv, QTypes
    <3>2. Front(n) /\ Passed(n)  BY <1>3, <2>1, <3>1 DEF QInv, Fronts
    <3>3. Front(n)' /\ Passed(n)'  BY <3>2, FrontStays, PassedStays
    <3> QED  BY <2>1, <3>1, <3>3 DEF Front, Passed
  <2>2. CASE WriteAnnounce(t)
    <3>1. pc[t] = "w_announce" /\ next_writer' = mynode[t]  BY <2>2 DEF WriteAnnounce
    <3>2. PICK n \in 1 .. calls + 1 : n = mynode[t]  BY <1>0, <3>1, InPlace
    <3>3. Front(n) /\ Passed(n)  BY <3>1, <3>2 DEF QInv, Fronts
    <3>4. Front(n)' /\ Passed(n)'  BY <3>3, FrontStays, PassedStays
    <3> QED  BY <3>1, <3>2, <3>4 DEF Front, Passed
  <2>3. CASE ReadPass(t) /\ qnode[mynode[t]].successor = "writer"
    <3>1. /\ pc[t] = "r_pass" /\ next_writer' = qnode[mynode[t]].next /\ mynode' = mynode /\ pc'[t] = "r_exit"
      BY <2>3 DEF ReadPass, Goto, QInv, QTypes
    <3>2. PICK m \in 1 .. calls : m = mynode[t] /\ m \in 1 .. Calls  BY <3>1, InPlace
    <3>3. next_writer' = m + 1 /\ m + 1 <= calls  BY <3>1, <3>2 DEF QInv, Links
    <3>4. ~blocked(m) /\ class(m) = "reading" /\ pc[t] \notin Out
      BY <3>1, <3>2 DEF QInv, Blocks, Out, Shut, Either, Reading
    <3>5. PICK n \in 1 .. calls + 1 : n = m + 1  BY <1>0, <3>2
    <3>6. Front(n)
      <4>1. SUFFICES ASSUME NEW k \in 1 .. n - 1 PROVE ~blocked(k) /\ ~InW(k)  BY DEF Front
      <4>2. k \in 1 .. calls /\ (k = m \/ k < m)  BY <1>0, <3>2, <3>5
      <4>3. ~blocked(k)  BY <3>2, <3>4, <4>2 DEF QInv, InOrder
      <4>4. ~InW(k)  BY <3>2, <3>4, <4>2, ReaderBars
      <4> QED  BY <4>3, <4>4
    <3>7. Front(n)'  BY <3>6, FrontStays
    <3>8. \A u \in Threads : mynode[u] + 1 = n => u = t  BY <3>2, <3>5 DEF QInv, OwnNodes, QTypes
    <3>9. Passed(n)'  BY <3>1, <3>8 DEF Passed, Gone
    <3> QED  BY <3>3, <3>5, <3>7, <3>9 DEF Front, Passed
  <2> QED  BY <1>3, <2>1, <2>2, <2>3, NextWriter
<1>4. ASSUME NEW u \in Threads, pc'[u] = "w_announce" PROVE Passed(mynode[u])'
  <2>1. CASE u = t /\ Joins(t)
    <3>1. PICK n \in 1 .. calls + 1 : n = calls + 1  BY <1>0
    <3>2. Passed(n)'  BY <1>4, <1>a, <1>b, <2>1, <3>1, PassedStays DEF AtFront
    <3>3. mynode'[u] = n  BY <2>1, <3>1, NodesStay
    <3> QED  BY <3>2, <3>3 DEF Passed
  <2>2. CASE ~(u = t /\ Joins(t))
    <3>1. u # t /\ pc[u] = "w_announce"  BY <1>4, <2>2, Moves, Ways
    <3>2. PICK n \in 1 .. calls + 1 : n = mynode[u]  BY <1>0, <3>1, InPlace
    <3>3. Passed(n)  BY <3>1, <3>2 DEF QInv, Fronts
    <3>4. Passed(n)'  BY <3>3, PassedStays
    <3> QED  BY <3>1, <3>2, <3>4, Moves DEF Passed
  <2> QED  BY <2>1, <2>2
<1> QED  BY <1>1, <1>2, <1>3, <1>4 DEF Fronts, AtFront

\* The writer that a reader announces waits.
LEMMA PassWaits ==
  ASSUME QInv, NEW t \in Threads, ReadPass(t), qnode[mynode[t]].successor = "writer"
  PROVE  /\ next_writer' = mynode[t] + 1 /\ mynode[t] \in 1 .. calls /\ mynode[t] + 1 \in 1 .. calls
         /\ blocked(mynode[t] + 1)
         /\ \A u \in Threads : mynode[u] = mynode[t] + 1 => pc[u] = "w_wait" /\ u # t
<1>1. pc[t] = "r_pass" /\ next_writer' = qnode[mynode[t]].next
  BY DEF ReadPass
<1>2. PICK m \in 1 .. calls : m = mynode[t] /\ m \in 1 .. Calls  BY <1>1, InPlace
<1>3. /\ next_writer' = m + 1 /\ m + 1 \in 1 .. calls
      /\ \A u \in Threads : mynode[u] = m + 1 => pc[u] \notin Unlinked
  BY <1>1, <1>2, InPlace DEF QInv, Links
<1>4. class(m + 1) = "writing"  BY <1>2 DEF QInv, Successors
<1>5. pc[t] \notin Out /\ ~Left(m) /\ m \in 1 .. (m + 1) - 1  BY <1>1, <1>2 DEF Left, Out
<1>6. blocked(m + 1)  BY <1>3, <1>4, <1>5 DEF QInv, Excludes
<1>7. \A u \in Threads : mynode[u] = m + 1 => pc[u] = "w_wait" /\ u # t
  <2>1. SUFFICES ASSUME NEW u \in Threads, mynode[u] = m + 1 PROVE pc[u] = "w_wait" /\ u # t  OBVIOUS
  <2>2. PICK v \in Threads : mynode[v] = m + 1 /\ pc[v] \in Shut \cup Either
    BY <1>3, <1>6 DEF QInv, Owned
  <2>3. u = v  BY <1>3, <2>1, <2>2 DEF QInv, OwnNodes
  <2>4. pc[u] \notin Reading  BY <1>4, <2>1, <2>2, <2>3 DEF QInv, Blocks, Out, Shut, Either
  <2> QED  BY <1>2, <1>3, <2>1, <2>2, <2>3, <2>4 DEF Shut, Either, Unlinked, Reading, Early
<1> QED  BY <1>2, <1>3, <1>6, <1>7

\* ... the announced writer ...
LEMMA KeepsAnnounced ==
  ASSUME QInv, NEW t \in Threads, QStep(t)
  PROVE  Announced'
<1>0. calls \in Nat /\ Calls \in Nat  BY InPlace
<1>1. SUFFICES ASSUME next_writer' # 0
               PROVE  /\ qnode'[next_writer'].blocked
                      /\ \A u \in Threads : mynode'[u] = next_writer' => pc'[u] \in {"w_count", "w_claim", "w_wait"}
  BY DEF Announced, blocked
<1>2. CASE next_writer' = next_writer
  <2>1. PICK w \in 1 .. calls : w = next_writer  BY <1>0, <1>1, <1>2 DEF QInv, QTypes
  <2>2. blocked(w) /\ \A u \in Threads : mynode[u] = w => pc[u] \in {"w_count", "w_claim", "w_wait"}
    BY <1>1, <1>2, <2>1 DEF QInv, Announced
  <2>3. class(w) = "writing"
    <3>1. PICK u \in Threads : mynode[u] = w  BY <2>2 DEF QInv, Owned
    <3> QED  BY <2>2, <3>1 DEF QInv, Blocks, Out, Writing
  <2>4. blocked(w)'
    <3>1. ASSUME ~blocked(w)' PROVE FALSE
      <4>1. Opened(w)  BY <2>2, <3>1, Opening
      <4> QED  BY <1>1, <2>3, <4>1 DEF Opened
    <3> QED  BY <3>1
  <2>5. ASSUME NEW u \in Threads, mynode'[u] = w PROVE pc'[u] \in {"w_count", "w_claim", "w_wait"}
    <3>1. ~(u = t /\ Joins(t))  BY <1>0, <2>5, NodesStay
    <3>2. mynode[u] = w  BY <2>5, <3>1, NodesStay, Moves
    <3>3. CASE u # t  BY <2>2, <3>2, <3>3, Moves
    <3>4. CASE u = t
      <4>1. pc[t] \in Either  BY <2>2, <3>2, <3>4 DEF Either
      <4>2. blocked(mynode[t])'  BY <2>4, <2>5, <3>4 DEF blocked
      <4>3. pc'[t] \in Shut \cup Either  BY <4>1, <4>2, WaysOut
      <4>4. pc'[t] \notin Shut  BY <3>1, <3>4, <4>1, Ways DEF Shut, Either
      <4>5. pc'[t] \notin Early
        BY <2>2, <3>1, <3>2, <3>4, Ways DEF Early
      <4>6. pc'[t] \in Either  BY <4>3, <4>4
      <4> QED  BY <3>4, <4>5, <4>6 DEF Either, Early
    <3> QED  BY <3>3, <3>4
  <2> QED  BY <1>2, <2>1, <2>4, <2>5 DEF blocked
<1>3. CASE WriteAnnounce(t)
  <2>1. /\ pc[t] = "w_announce" /\ next_writer' = mynode[t] /\ mynode' = mynode /\ qnode' = qnode
        /\ pc'[t] = "w_count"
    BY <1>3 DEF WriteAnnounce, Goto, QInv, QTypes
  <2>2. \A u \in Threads : mynode[u] = mynode[t] => u = t  BY <2>1 DEF QInv, OwnNodes
  <2>3. blocked(mynode[t])  BY <2>1 DEF QInv, Blocks, Shut, Out
  <2> QED  BY <2>1, <2>2, <2>3 DEF blocked
<1>4. CASE ReadPass(t) /\ qnode[mynode[t]].successor = "writer"
  <2>1. mynode' = mynode /\ qnode' = qnode  BY <1>4 DEF ReadPass
  <2> QED  BY <1>4, <2>1, PassWaits, Moves DEF blocked
<1> QED  BY <1>1, <1>2, <1>3, <1>4, NextWriter

\* ... what the last reader out has in hand ...
LEMMA KeepsExits ==
  ASSUME QInv, NEW t \in Threads, QStep(t)
  PROVE  Exits'
<1>0. calls \in Nat /\ Calls \in Nat  BY InPlace
<1>1. SUFFICES ASSUME NEW v \in Threads, pc'[v] \in {"x_count", "x_claim", "x_wake"}
               PROVE  /\ ptr'[v] # 0 /\ Passed(ptr[v])'
                      /\ \A u \in Threads : mynode'[u] = ptr'[v] => pc'[u] # "w_announce"
                      /\ pc'[v] = "x_wake" =>
                           /\ qnode'[ptr'[v]].blocked /\ next_writer' = 0
                           /\ \A k \in 1 .. ptr'[v] - 1 : Left(k)' /\ ~blocked(k)'
                           /\ \A u \in Threads : mynode'[u] = ptr'[v] => pc'[u] \in {"w_count", "w_claim", "w_wait"}
                           /\ \A u \in Threads : pc'[u] = "x_wake" => u = v
  BY DEF Exits, blocked
<1>2. ~(v = t /\ Joins(t))
  BY <1>1 DEF Joins, WriteExchange, ReadExchange, Goto, QInv, QTypes
<1>3. PICK w \in 1 .. calls : /\ w = ptr'[v] /\ Passed(w)
                              /\ \A u \in Threads : mynode[u] = w => pc[u] # "w_announce"
  <2>1. CASE v = t /\ ExitLoad(t)
    <3>1. ptr'[t] = next_writer /\ next_writer # 0
      BY <1>1, <2>1 DEF ExitLoad, Hand, Goto, QInv, QTypes, kNullPtr
    <3>2. next_writer \in 1 .. calls  BY <1>0, <3>1 DEF QInv, QTypes
    <3>3. Passed(next_writer)  BY <3>1 DEF QInv, Fronts
    <3>4. \A u \in Threads : mynode[u] = next_writer => pc[u] # "w_announce"  BY <3>1 DEF QInv, Announced
    <3> QED  BY <2>1, <3>1, <3>2, <3>3, <3>4
  <2>2. CASE ~(v = t /\ ExitLoad(t))
    <3>1. ptr'[v] = ptr[v] /\ pc[v] \in {"x_count", "x_claim", "x_wake"}
      <4>1. CASE v # t  BY <1>1, <4>1, Moves, Zenon
      <4>2. CASE v = t
        BY <1>1, <1>2, <2>2, <4>2
        DEF QStep, Quiet, WriteAnnounce, WriteCount, WriteGranted, WriteUnlock, ReadUnlock,
              LeaveTail, AwaitNext, WritePass, ReadGranted, ReadCount, ReadIn, ReadAdmit, ReadPass, ReadExit,
              ExitCount, ExitClaim, Goto, Leaving, Passing, queued, QInv, QTypes,
              Opens, WriteClaim, WriteWake, ReadUnblock, ReadWake, ExitWake,
              Ties, WriteClass, WriteLink, ReadLook, ReadLink, ReadFollow
      <4> QED  BY <4>1, <4>2
    <3> QED  BY <1>0, <3>1 DEF QInv, QTypes, Exits
  <2> QED  BY <2>1, <2>2
<1>4. Passed(ptr[v])'
  <2>1. w \in 1 .. calls + 1  BY <1>0
  <2>2. Passed(w)'  BY <1>3, <2>1, PassedStays
  <2> QED  BY <1>3, <2>2 DEF Passed
<1>5. \A u \in Threads : mynode'[u] = w => pc'[u] # "w_announce"
  <2>1. SUFFICES ASSUME NEW u \in Threads, mynode'[u] = w PROVE pc'[u] # "w_announce"  OBVIOUS
  <2>2. ~(u = t /\ Joins(t))  BY <1>0, <2>1, NodesStay
  <2> QED  BY <1>3, <2>1, <2>2, Moves, Ways
<1>6. ASSUME pc'[v] = "x_wake"
      PROVE  /\ blocked(w)' /\ next_writer' = 0
             /\ \A k \in 1 .. w - 1 : Left(k)' /\ ~blocked(k)'
             /\ \A u \in Threads : mynode'[u] = w => pc'[u] \in {"w_count", "w_claim", "w_wait"}
             /\ \A u \in Threads : pc'[u] = "x_wake" => u = v
  <2>1. CASE v = t
    <3>1. ExitClaim(t) /\ next_writer = ptr[t] /\ ptr'[t] = ptr[t] /\ next_writer' = 0 /\ pc[t] = "x_claim"
          /\ mynode' = mynode /\ qnode' = qnode
      BY <1>2, <1>6, <2>1
      DEF QStep, Quiet, WriteAnnounce, WriteCount, WriteGranted, WriteUnlock, ReadUnlock,
              LeaveTail, AwaitNext, WritePass, ReadGranted, ReadCount, ReadIn, ReadAdmit, ReadPass, ReadExit, ExitLoad,
              ExitCount, ExitClaim, Goto, Leaving, Passing, queued, QInv, QTypes, kNullPtr,
              Opens, WriteClaim, WriteWake, ReadUnblock, ReadWake, ExitWake,
              Ties, WriteClass, WriteLink, ReadLook, ReadLink, ReadFollow
    <3>2. w = next_writer /\ reader_count = 0  BY <1>3, <2>1, <3>1 DEF QInv, Claims
    <3>3. /\ blocked(w) /\ Front(w)
          /\ \A u \in Threads : mynode[u] = w => pc[u] \in {"w_count", "w_claim", "w_wait"}
      BY <1>0, <3>2 DEF QInv, Announced, Fronts
    <3>4. ASSUME NEW k \in 1 .. w - 1 PROVE Left(k)' /\ ~blocked(k)'
      <4>1. k \in 1 .. calls /\ ~blocked(k)  BY <1>0, <3>3 DEF Front
      <4>2. Left(k)  BY <3>2, <3>3, AllLeft
      <4> QED  BY <3>1, <4>1, <4>2, LeftStays DEF blocked
    <3>5. ASSUME NEW u \in Threads, pc'[u] = "x_wake" PROVE u = v
      <4>1. SUFFICES ASSUME u # t PROVE FALSE  BY <2>1
      <4>2. pc[u] = "x_wake"  BY <3>5, <4>1, Moves
      <4>3. next_writer = 0  BY <4>2 DEF QInv, Exits
      <4> QED  BY <1>0, <3>2, <4>3
    <3>6. ASSUME NEW u \in Threads, mynode'[u] = w PROVE pc'[u] \in {"w_count", "w_claim", "w_wait"}
      <4>1. mynode[u] = w  BY <3>1, <3>6
      <4>2. pc[u] \in {"w_count", "w_claim", "w_wait"}  BY <3>3, <4>1
      <4>3. u # t  BY <3>1, <4>2
      <4> QED  BY <4>2, <4>3, Moves
    <3> QED  BY <3>1, <3>3, <3>4, <3>5, <3>6 DEF blocked
  <2>2. CASE v # t
    <3>1. pc[v] = "x_wake" /\ ptr[v] = w  BY <1>3, <1>6, <2>2, Moves
    <3>2. /\ blocked(w) /\ next_writer = 0
          /\ \A k \in 1 .. w - 1 : Left(k) /\ ~blocked(k)
          /\ \A u \in Threads : mynode[u] = w => pc[u] \in {"w_count", "w_claim", "w_wait"}
          /\ \A u \in Threads : pc[u] = "x_wake" => u = v
      BY <3>1 DEF QInv, Exits
    <3>3. blocked(w)'
      <4>1. ASSUME ~blocked(w)' PROVE FALSE
        <5>1. Opened(w)  BY <3>2, <4>1, Opening
        <5> QED  BY <1>6, <5>1 DEF Opened
      <4> QED  BY <4>1
    <3>4. next_writer' = 0
      <4>1. ASSUME WriteAnnounce(t) PROVE FALSE
        BY <3>1, <4>1, WakeAlone DEF WriteAnnounce, AtFront, Out
      <4>2. ASSUME ReadPass(t) PROVE FALSE
        BY <3>1, <4>2, WakeAlone DEF ReadPass, Out, QInv, Blocks, Shut, Either
      <4> QED  BY <3>2, <4>1, <4>2, NextWriter
    <3>5. ASSUME NEW k \in 1 .. w - 1 PROVE Left(k)' /\ ~blocked(k)'
      <4>1. k \in 1 .. calls  BY <1>0
      <4> QED  BY <3>2, <4>1, LeftStays, NodesStay, Zenon
    <3>6. ASSUME NEW u \in Threads, mynode'[u] = w PROVE pc'[u] \in {"w_count", "w_claim", "w_wait"}
      <4>1. ~(u = t /\ Joins(t))  BY <1>0, <3>6, NodesStay
      <4>2. mynode[u] = w  BY <3>6, <4>1, NodesStay, Moves
      <4>3. CASE u # t  BY <3>2, <4>2, <4>3, Moves
      <4>4. CASE u = t
        <5>1. pc[t] \in Either  BY <3>2, <4>2, <4>4 DEF Either
        <5>2. blocked(mynode[t])'  BY <3>3, <3>6, <4>4 DEF blocked
        <5>3. pc'[t] \in Shut \cup Either  BY <5>1, <5>2, WaysOut
        <5>4. pc'[t] \notin Shut  BY <4>1, <4>4, <5>1, Ways DEF Shut, Either
        <5>5. pc'[t] \notin Early
          BY <3>2, <4>1, <4>2, <4>4, Ways DEF Early
        <5>6. pc'[t] \in Either  BY <5>3, <5>4
        <5> QED  BY <4>4, <5>5, <5>6 DEF Either, Early
      <4> QED  BY <4>3, <4>4
    <3>7. ASSUME NEW u \in Threads, pc'[u] = "x_wake" PROVE u = v
      <4>1. CASE u # t  BY <3>2, <3>7, <4>1, Moves
      <4>2. CASE u = t
        <5>1. pc[t] = "x_claim" /\ next_writer = ptr[t]
          BY <3>7, <4>2, Zenon
          DEF QStep, Quiet, WriteAnnounce, WriteCount, WriteGranted, WriteUnlock, ReadUnlock,
              LeaveTail, AwaitNext, WritePass, ReadGranted, ReadCount, ReadIn, ReadAdmit, ReadPass, ReadExit, ExitLoad,
              ExitCount, ExitClaim, Goto, Leaving, Passing, queued, QInv, QTypes, kNullPtr,
              Opens, WriteClaim, WriteWake, ReadUnblock, ReadWake, ExitWake,
              Ties, WriteClass, WriteLink, ReadLook, ReadLink, ReadFollow, Joins, WriteExchange, ReadExchange
        <5>2. ptr[t] # 0  BY <5>1 DEF QInv, Exits
        <5> QED  BY <3>2, <5>1, <5>2
      <4> QED  BY <4>1, <4>2
    <3> QED  BY <3>3, <3>4, <3>5, <3>6, <3>7
  <2> QED  BY <2>1, <2>2
<1>7. ptr'[v] # 0 /\ Passed(ptr[v])'  BY <1>0, <1>3, <1>4
<1>8. \A u \in Threads : mynode'[u] = ptr'[v] => pc'[u] # "w_announce"  BY <1>3, <1>5
<1>9. ASSUME pc'[v] = "x_wake"
      PROVE  /\ qnode'[ptr'[v]].blocked /\ next_writer' = 0
             /\ \A k \in 1 .. ptr'[v] - 1 : Left(k)' /\ ~blocked(k)'
             /\ \A u \in Threads : mynode'[u] = ptr'[v] => pc'[u] \in {"w_count", "w_claim", "w_wait"}
             /\ \A u \in Threads : pc'[u] = "x_wake" => u = v
  <2>1. qnode'[w].blocked  BY <1>6, <1>9 DEF blocked
  <2> QED  BY <1>3, <1>6, <1>9, <2>1
<1> QED  BY <1>7, <1>8, <1>9, Zenon

\* While a writer is announced nobody is counted in.
LEMMA NoneComesIn ==
  ASSUME QInv, NEW t \in Threads, QStep(t), next_writer # 0, reader_count = 0
  PROVE  reader_count' = 0
<1>0. calls \in Nat /\ Calls \in Nat  BY InPlace
<1>1. PICK w \in 1 .. calls : w = next_writer  BY <1>0 DEF QInv, QTypes
<1>2. /\ blocked(w) /\ Front(w)
      /\ \A u \in Threads : mynode[u] = w => pc[u] \in {"w_count", "w_claim", "w_wait"}
  BY <1>1 DEF QInv, Announced, Fronts
<1>3. ASSUME ReadCount(t) PROVE FALSE
  <2>1. pc[t] = "r_count"  BY <1>3 DEF ReadCount
  <2>2. PICK n \in 1 .. calls : n = mynode[t]  BY <2>1, InPlace
  <2>3. blocked(n) /\ Front(n)  BY <2>1, <2>2 DEF QInv, Blocks, Fronts, Shut, Out
  <2>4. n = w  BY <1>2, <2>3, FirstShut
  <2> QED  BY <1>2, <2>1, <2>2, <2>4, Zenon
<1>4. ASSUME ReadAdmit(t) PROVE FALSE
  <2>1. pc[t] = "r_next"  BY <1>4 DEF ReadAdmit
  <2>2. In(t)  BY <2>1 DEF In, Inside
  <2> QED  BY <2>2, NobodyIn
<1>5. ASSUME WritePass(t) PROVE FALSE
  <2>1. pc[t] = "w_pass"  BY <1>5 DEF WritePass
  <2>2. PICK m \in 1 .. calls : m = mynode[t]  BY <2>1, InPlace
  <2>3. InW(m)  BY <2>1, <2>2 DEF QInv, Blocks, InW, Left, Out, Shut, Either, Writing
  <2> QED  BY <2>3, WriterAlone
<1>6. ASSUME ReadExit(t) PROVE FALSE
  <2>1. In(t)  BY <1>6 DEF ReadExit, In, Inside
  <2> QED  BY <2>1, NobodyIn
<1> QED
  BY <1>3, <1>4, <1>5, <1>6
  DEF QStep, Quiet, WriteAnnounce, WriteCount, WriteGranted, WriteUnlock, ReadUnlock,
      LeaveTail, AwaitNext, ReadGranted, ReadIn, ReadPass, ExitLoad, ExitCount, ExitClaim,
      Opens, WriteClaim, WriteWake, ReadUnblock, ReadWake, ExitWake,
      Ties, WriteClass, WriteLink, ReadLook, ReadLink, ReadFollow, Joins, WriteExchange, ReadExchange

\* ... that a claim which will succeed finds no reader ...
LEMMA KeepsClaims ==
  ASSUME QInv, NEW t \in Threads, QStep(t)
  PROVE  Claims'
<1>0. calls \in Nat /\ Calls \in Nat  BY InPlace
<1>1. ASSUME NEW u \in Threads, pc'[u] = "w_claim", next_writer' = mynode'[u] PROVE reader_count' = 0
  <2>1. ~(u = t /\ Joins(t))
    BY <1>1 DEF Joins, WriteExchange, ReadExchange, Goto, QInv, QTypes
  <2>2. mynode'[u] = mynode[u]  BY <2>1, NodesStay, Moves
  <2>3. pc[u] \in {"w_count", "w_claim"} /\ (u = t => WriteCount(t) /\ pc[t] = "w_count")
    BY <1>1, <2>1, Moves, Zenon
    DEF QStep, Quiet, WriteAnnounce, WriteCount, WriteGranted, WriteUnlock, ReadUnlock,
              LeaveTail, AwaitNext, WritePass, ReadGranted, ReadCount, ReadIn, ReadAdmit, ReadPass, ReadExit, ExitLoad,
              ExitCount, ExitClaim, Goto, Leaving, Passing, queued, QInv, QTypes,
              Opens, WriteClaim, WriteWake, ReadUnblock, ReadWake, ExitWake,
              Ties, WriteClass, WriteLink, ReadLook, ReadLink, ReadFollow
  <2>4. mynode[u] # 0  BY <2>3 DEF QInv, OwnNodes
  <2>5. next_writer = mynode[u]
    <3>1. ASSUME WriteAnnounce(t) PROVE FALSE
      <4>1. pc[t] = "w_announce" /\ next_writer' = mynode[t]  BY <3>1 DEF WriteAnnounce
      <4>2. u = t  BY <1>1, <2>2, <2>4, <4>1 DEF QInv, OwnNodes
      <4> QED  BY <2>3, <4>1, <4>2
    <3>2. ASSUME ReadPass(t), qnode[mynode[t]].successor = "writer" PROVE FALSE
      <4>1. pc[u] = "w_wait"  BY <1>1, <2>2, <3>2, PassWaits
      <4> QED  BY <2>3, <4>1
    <3> QED  BY <1>1, <2>2, <2>4, <3>1, <3>2, NextWriter
  <2>6. CASE u = t
    BY <1>1, <2>3, <2>6 DEF WriteCount, Goto, QInv, QTypes
  <2>7. CASE u # t
    <3>1. reader_count = 0  BY <1>1, <2>5, <2>7, Moves DEF QInv, Claims
    <3> QED  BY <2>4, <2>5, <3>1, NoneComesIn
  <2> QED  BY <2>6, <2>7
<1>2. ASSUME NEW u \in Threads, pc'[u] = "x_claim", next_writer' = ptr'[u] PROVE reader_count' = 0
  <2>1. /\ pc[u] \in {"x_count", "x_claim"} /\ ptr'[u] = ptr[u]
        /\ u = t => ExitCount(t) /\ reader_count = 0 /\ reader_count' = reader_count
    BY <1>2, Moves, Zenon
    DEF QStep, Quiet, WriteAnnounce, WriteCount, WriteGranted, WriteUnlock, ReadUnlock,
              LeaveTail, AwaitNext, WritePass, ReadGranted, ReadCount, ReadIn, ReadAdmit, ReadPass, ReadExit, ExitLoad,
              ExitCount, ExitClaim, Goto, Leaving, Passing, queued, QInv, QTypes,
              Opens, WriteClaim, WriteWake, ReadUnblock, ReadWake, ExitWake,
              Ties, WriteClass, WriteLink, ReadLook, ReadLink, ReadFollow, Joins, WriteExchange, ReadExchange
  <2>2. /\ ptr[u] # 0 /\ Passed(ptr[u])
        /\ \A v \in Threads : mynode[v] = ptr[u] => pc[v] # "w_announce"
    BY <2>1 DEF QInv, Exits
  <2>3. next_writer = ptr[u]
    <3>1. ASSUME WriteAnnounce(t) PROVE FALSE
      BY <1>2, <2>1, <2>2, <3>1 DEF WriteAnnounce
    <3>2. ASSUME ReadPass(t), qnode[mynode[t]].successor = "writer" PROVE FALSE
      <4>1. mynode[t] + 1 = ptr[u] /\ mynode[t] # 0  BY <1>2, <2>1, <3>2, PassWaits
      <4> QED  BY <2>2, <3>2, <4>1 DEF Passed, ReadPass, Gone, Out
    <3> QED  BY <1>2, <2>1, <2>2, <3>1, <3>2, NextWriter
  <2>4. CASE u = t  BY <2>1, <2>4
  <2>5. CASE u # t
    <3>1. reader_count = 0  BY <1>2, <2>3, <2>5, Moves DEF QInv, Claims
    <3> QED  BY <2>2, <2>3, <3>1, NoneComesIn
  <2> QED  BY <2>4, <2>5
<1> QED  BY <1>1, <1>2 DEF Claims

\* Somebody has counted the waiting reader u in and is about to wake it.
Woken(u) == \E v \in Threads : pc[v] \in {"w_wake", "r_wake"} /\ mynode[v] + 1 = mynode[u]

\* The steps that change reader_count_.
Counts(t) == ReadCount(t) \/ ReadAdmit(t) \/ WritePass(t) \/ ReadExit(t)

\* The steps that do not touch the count leave who is counted.
LEMMA CountStays ==
  ASSUME QInv, NEW t \in Threads, QStep(t), ~Counts(t)
  PROVE  Count' = Count /\ reader_count' = reader_count
<1>0. calls \in Nat /\ Calls \in Nat  BY InPlace
<1>1. reader_count' = reader_count
  BY DEF QStep, Counts, Quiet, WriteAnnounce, WriteCount, WriteGranted, WriteUnlock, ReadUnlock,
      LeaveTail, AwaitNext, ReadGranted, ReadIn, ReadPass, ExitLoad, ExitCount, ExitClaim,
      Opens, WriteClaim, WriteWake, ReadUnblock, ReadWake, ExitWake,
      Ties, WriteClass, WriteLink, ReadLook, ReadLink, ReadFollow, Joins, WriteExchange, ReadExchange
<1>2. ASSUME NEW u \in Threads, u # t PROVE In(u)' <=> In(u)
  <2>1. pc'[u] = pc[u] /\ mynode'[u] = mynode[u]  BY <1>2, Moves
  <2>2. CASE pc[u] = "await"
    <3>1. mynode[u] \in 1 .. calls  BY <2>2, InPlace
    <3> QED  BY <2>1, <2>2, <3>1, NodesStay DEF In, class
  <2>3. CASE pc[u] = "r_wait"
    <3>1. PICK n \in 1 .. calls : n = mynode[u]  BY <2>3, InPlace
    <3>2. class(n) = "reading"  BY <2>3, <3>1 DEF QInv, Blocks, Out, Reading, Early
    <3>3. ASSUME ~blocked(n)' PROVE ~blocked(n) \/ Woken(u)
      <4>1. SUFFICES ASSUME blocked(n) PROVE Woken(u)  OBVIOUS
      <4>2. Opens(t)  BY <3>3, <4>1, NodesStay
      <4>3. ASSUME NEW k, Opened(k) PROVE k = n  BY <3>1, <3>3, <4>1, <4>3 DEF Opened, blocked
      <4>4. n # mynode[t]  BY <1>2, <3>1 DEF QInv, OwnNodes
      <4>5. CASE WriteClaim(t)
        <5>1. next_writer = mynode[t]  BY <3>3, <4>1, <4>5, Zenon DEF WriteClaim, blocked
        <5> QED  BY <4>3, <4>4, <4>5, <5>1, OpenClaim
      <4>6. CASE WriteWake(t)  BY <3>1, <4>3, <4>6, OpenWriteWake DEF Woken, WriteWake
      <4>7. CASE ReadUnblock(t)  BY <4>3, <4>4, <4>7, OpenUnblock
      <4>8. CASE ReadWake(t)  BY <3>1, <4>3, <4>8, OpenReadWake DEF Woken, ReadWake
      <4>9. CASE ExitWake(t)  BY <3>2, <4>3, <4>9, OpenExitWake
      <4> QED  BY <4>2, <4>5, <4>6, <4>7, <4>8, <4>9 DEF Opens
    <3>4. ASSUME Woken(u)' PROVE Woken(u)
      <4>1. PICK v \in Threads : pc'[v] \in {"w_wake", "r_wake"} /\ mynode'[v] + 1 = mynode'[u]
        BY <3>4 DEF Woken
      <4>2. v # t
        BY <4>1 DEF QStep, Counts, Quiet, WriteAnnounce, WriteCount, WriteGranted, WriteUnlock, ReadUnlock,
          LeaveTail, AwaitNext, ReadGranted, ReadIn, ReadPass, ExitLoad, ExitCount, ExitClaim, Goto, Passing, QInv, QTypes,
          Opens, WriteClaim, WriteWake, ReadUnblock, ReadWake, ExitWake,
          Ties, WriteClass, WriteLink, ReadLook, ReadLink, ReadFollow, Joins, WriteExchange, ReadExchange
      <4> QED  BY <2>1, <4>1, <4>2, Moves DEF Woken
    <3>5. ASSUME Woken(u) PROVE ~blocked(n)' \/ Woken(u)'
      <4>1. PICK v \in Threads : pc[v] \in {"w_wake", "r_wake"} /\ mynode[v] + 1 = mynode[u]
        BY <3>5 DEF Woken
      <4>2. CASE v # t  BY <2>1, <4>1, <4>2, Moves DEF Woken
      <4>3. CASE v = t
        <5>1. CASE WriteWake(t)
          <6>1. unblock(n)  BY <3>1, <4>1, <4>3, <5>1, OpenWriteWake
          <6>2. n \in 1 .. Calls  BY InPlace
          <6> QED  BY <6>1, <6>2, Unblocks DEF blocked
        <5>2. CASE ReadWake(t)
          <6>1. unblock(n)  BY <3>1, <4>1, <4>3, <5>2, OpenReadWake
          <6>2. n \in 1 .. Calls  BY InPlace
          <6> QED  BY <6>1, <6>2, Unblocks DEF blocked
        <5>3. WriteWake(t) \/ ReadWake(t)
          BY <4>1, <4>3 DEF QStep, Quiet, WriteAnnounce, WriteCount, WriteGranted, WriteUnlock, ReadUnlock,
            LeaveTail, AwaitNext, WritePass, ReadGranted, ReadCount, ReadIn, ReadAdmit, ReadPass, ReadExit,
            ExitLoad, ExitCount, ExitClaim, Leaving,
            Opens, WriteClaim, ReadUnblock, ExitWake,
            Ties, WriteClass, WriteLink, ReadLook, ReadLink, ReadFollow, Joins, WriteExchange, ReadExchange
        <5> QED  BY <5>1, <5>2, <5>3
      <4> QED  BY <4>2, <4>3
    <3>6. ~blocked(n) => ~blocked(n)'  BY NodesStay
    <3>7. In(u) <=> ~blocked(n) \/ Woken(u)  BY <2>3, <3>1 DEF In, Woken, Inside
    <3>8. In(u)' <=> ~blocked(n)' \/ Woken(u)'  BY <2>1, <2>3, <3>1 DEF In, Woken, Inside, blocked
    <3> QED  BY <3>3, <3>4, <3>5, <3>6, <3>7, <3>8
  <2>4. CASE pc[u] \notin {"await", "r_wait"}  BY <2>1, <2>4 DEF In
  <2> QED  BY <2>2, <2>3, <2>4
<1>3. In(t)' <=> In(t)
  <2>1. CASE Joins(t)
    <3>1. pc[t] = "idle" /\ pc'[t] \in {"w_announce", "w_class", "r_count", "r_look"}
      BY <2>1 DEF Joins, WriteExchange, ReadExchange, Goto, QInv, QTypes
    <3> QED  BY <3>1 DEF In, Inside
  <2>2. CASE ReadLink(t)
    <3>1. pc[t] = "r_link" /\ pc'[t] = "r_wait" /\ mynode' = mynode /\ Ties(t)
      BY <2>2 DEF ReadLink, Goto, QInv, QTypes, Ties
    <3>2. PICK n \in 1 .. calls : n = mynode[t]  BY <3>1, InPlace
    <3>3. blocked(n)  BY <3>1, <3>2 DEF QInv, Blocks, Shut, Out
    <3>4. ~Opens(t)  BY <3>1, Zenon DEF Opens, WriteClaim, WriteWake, ReadUnblock, ReadWake, ExitWake
    <3>5. blocked(n)'  BY <3>3, <3>4, NodesStay
    <3>6. ASSUME NEW v \in Threads, pc'[v] \in {"w_wake", "r_wake"}, mynode'[v] + 1 = mynode'[t] PROVE FALSE
      <4>1. pc[v] \in {"w_wake", "r_wake"} /\ mynode[v] + 1 = mynode[t]  BY <3>1, <3>6, Moves
      <4>2. mynode[v] \in 1 .. Calls /\ qnode[mynode[v]].next # 0
        BY <4>1, InPlace DEF QInv, Links
      <4> QED  BY <3>1, <4>1, <4>2 DEF QInv, Links, Unlinked
    <3> QED  BY <3>1, <3>2, <3>5, <3>6 DEF In, Inside, blocked
  <2>3. CASE ReadGranted(t)
    BY <2>3 DEF ReadGranted, Goto, QInv, QTypes, In, Inside, blocked
  <2>4. CASE LeaveTail(t) \/ AwaitNext(t)
    <3>1. mynode' = mynode /\ qnode' = qnode /\ pc[t] \in {"w_leave", "r_leave", "await"}
      BY <2>4 DEF LeaveTail, AwaitNext, Leaving, queued
    <3>2. class(mynode[t]) \in {"reading", "writing"}
      BY <3>1, InPlace DEF class, QNodes
    <3>3. /\ pc[t] = "w_leave" => class(mynode[t]) = "writing"
          /\ pc[t] = "r_leave" => class(mynode[t]) = "reading"
      BY DEF QInv, Blocks, Out, Writing, Reading
    <3>4. /\ pc[t] = "w_leave" => pc'[t] \in {"idle", "await"}
          /\ pc[t] = "r_leave" => pc'[t] \in {"r_exit", "await"}
          /\ pc[t] = "await" => pc'[t] = IF class(mynode[t]) = "writing" THEN "w_pass" ELSE "r_pass"
      BY <2>4 DEF LeaveTail, AwaitNext, Leaving, Goto, Passing, class, QInv, QTypes
    <3>5. class(mynode[t])' = class(mynode[t])  BY <3>1 DEF class
    <3> QED  BY <3>1, <3>2, <3>3, <3>4, <3>5 DEF In, Inside
  <2>5. CASE Quiet(t) /\ ~ReadGranted(t) /\ ~LeaveTail(t) /\ ~AwaitNext(t)
    BY <2>5 DEF Counts, Quiet, WriteAnnounce, WriteCount, WriteGranted, WriteUnlock, ReadUnlock,
          ReadIn, ReadPass, ExitLoad, ExitCount, ExitClaim, Goto, QInv, QTypes, In, Inside
  <2>6. CASE Opens(t)
    BY <2>6 DEF Opens, WriteClaim, WriteWake, ReadUnblock, ReadWake, ExitWake, Goto, QInv, QTypes, In, Inside
  <2>7. CASE Ties(t) /\ ~ReadLink(t)
    BY <2>7 DEF Ties, WriteClass, WriteLink, ReadLook, ReadFollow, Goto, QInv, QTypes, In, Inside
  <2> QED  BY <2>1, <2>2, <2>3, <2>4, <2>5, <2>6, <2>7 DEF QStep
<1> QED  BY <1>1, <1>2, <1>3 DEF Count

\* A step that wakes nobody new changes the count only of the thread itself.
LEMMA CountOthers ==
  ASSUME QInv, NEW t \in Threads, UNCHANGED <<qnode, mynode>>, NEW u \in Threads, pc'[u] = pc[u],
         pc[u] = "r_wait" => (Woken(u)' <=> Woken(u))
  PROVE  In(u)' <=> In(u)
BY Zenon DEF In, Woken, Inside, blocked, class

\* ... and the count.
LEMMA KeepsCounted ==
  ASSUME QInv, NEW t \in Threads, QStep(t)
  PROVE  Counted'
<1>0. Sizes /\ Count \in SUBSET Threads /\ reader_count = Cardinality(Count) /\ reader_count \in Nat
  BY CountFacts
<1>1. CASE ~Counts(t)  BY <1>0, <1>1, CountStays DEF Counted
<1>2. CASE Counts(t)
  <2>1. /\ UNCHANGED <<qnode, mynode>> /\ \A u \in Threads : u # t => pc'[u] = pc[u]
        /\ pc[t] \in {"r_count", "r_next", "w_pass", "r_exit"}
    BY <1>2, Moves, Zenon DEF Counts, ReadCount, ReadAdmit, WritePass, ReadExit, queued
  <2>2. CASE ReadCount(t) \/ ReadExit(t)
    <3>1. /\ pc[t] \in {"r_count", "r_exit"} /\ pc'[t] \in {"r_follow", "r_unblock", "x_load", "idle"}
          /\ pc[t] = "r_count" => pc'[t] \in {"r_follow", "r_unblock"} /\ reader_count' = reader_count + 1
          /\ pc[t] = "r_exit" => pc'[t] \in {"x_load", "idle"} /\ reader_count' = reader_count - 1
      BY <2>2 DEF ReadCount, ReadExit, Goto, QInv, QTypes
    <3>2. ASSUME NEW u \in Threads, u # t PROVE In(u)' <=> In(u)
      <4>1. Woken(u)' <=> Woken(u)  BY <2>1, <3>1 DEF Woken
      <4> QED  BY <2>1, <3>2, <4>1, CountOthers, Zenon
    <3>3. CASE pc[t] = "r_count"
      <4>1. ~In(t) /\ In(t)'  BY <3>1, <3>3 DEF In, Inside
      <4>2. Count' = Count \cup {t} /\ t \notin Count  BY <3>2, <4>1 DEF Count
      <4>3. Cardinality(Count') = Cardinality(Count) + 1  BY <1>0, <4>2 DEF Sizes
      <4> QED  BY <1>0, <3>1, <3>3, <4>3, Zenon DEF Counted
    <3>4. CASE pc[t] = "r_exit"
      <4>1. In(t) /\ ~In(t)'  BY <3>1, <3>4 DEF In, Inside
      <4>2. Count' = Count \ {t} /\ t \in Count  BY <3>2, <4>1 DEF Count
      <4>3. Cardinality(Count') = Cardinality(Count) - 1  BY <1>0, <4>2 DEF Sizes
      <4> QED  BY <1>0, <3>1, <3>4, <4>3 DEF Counted
    <3> QED  BY <3>1, <3>3, <3>4
  <2>3. CASE ReadAdmit(t) \/ WritePass(t)
    <3> DEFINE n == mynode[t] + 1
    <3>1. /\ pc[t] \in {"r_next", "w_pass"} /\ (In(t)' <=> In(t)) /\ pc'[t] \in {"r_wake", "w_wake"}
      BY <2>3 DEF ReadAdmit, WritePass, Goto, QInv, QTypes, In, Inside
    <3>2. PICK v \in Threads : mynode[v] = n /\ pc[v] \in {"r_wait", "w_wait"}
      <4>1. CASE pc[t] = "w_pass"  BY <4>1, WriterBefore
      <4>2. CASE pc[t] = "r_next"
        <5>1. mynode[t] \in 1 .. calls /\ mynode[t] \in 1 .. Calls  BY <4>2, InPlace
        <5>2. qnode[mynode[t]].next # 0  BY <2>3, <4>2 DEF ReadAdmit, WritePass, kNullPtr
        <5>3. n \in 1 .. calls /\ \A u \in Threads : mynode[u] = n => pc[u] \notin Unlinked
          <6>1. Links /\ calls \in Nat  BY InPlace DEF QInv
          <6>2. /\ qnode[mynode[t]].next = n /\ n <= calls
                /\ \A u \in Threads : mynode[u] = n => pc[u] \notin Unlinked
            BY <5>1, <5>2, <6>1 DEF Links
          <6> QED  BY <5>1, <6>1, <6>2
        <5>4. blocked(n) /\ \A u \in Threads : mynode[u] = n => pc[u] \in {"r_link", "r_wait"}
          BY <4>2, Zenon DEF QInv, Behind, Early
        <5>5. PICK v \in Threads : mynode[v] = n  BY <5>3, <5>4 DEF QInv, Owned
        <5> QED  BY <5>3, <5>4, <5>5 DEF Unlinked
      <4> QED  BY <3>1, <4>1, <4>2
    <3>3. n \in Nat /\ n # 0 /\ v # t /\ pc'[v] = pc[v]
      BY <2>1, <3>1, <3>2 DEF QInv, QTypes
    <3>4. \A u \in Threads : mynode[u] = n => u = v  BY <3>2, <3>3 DEF QInv, OwnNodes
    <3>5. \A u \in Threads : mynode[u] + 1 = n => u = t
      <4>1. mynode[t] # 0 /\ mynode \in [Threads -> Nat]  BY <3>1 DEF QInv, OwnNodes, QTypes
      <4> QED  BY <4>1 DEF QInv, OwnNodes
    <3>6. ASSUME NEW u \in Threads, u # t, u # v PROVE In(u)' <=> In(u)
      <4>1. mynode[u] # n  BY <3>4, <3>6
      <4>2. Woken(u)' <=> Woken(u)  BY <2>1, <3>1, <4>1 DEF Woken
      <4> QED  BY <2>1, <3>6, <4>2, CountOthers
    <3>7. blocked(n)
      <4>1. CASE pc[t] = "w_pass"  BY <4>1, WriterBefore
      <4>2. CASE pc[t] = "r_next"  BY <4>2 DEF QInv, Behind, Early
      <4> QED  BY <3>1, <4>1, <4>2
    <3>8. CASE pc[v] = "r_wait"
      <4>1. class(n) = "reading"  BY <3>2, <3>8 DEF QInv, Blocks, Out, Reading, Early
      <4>2. reader_count' = reader_count + 1
        <5>1. CASE ReadAdmit(t)  BY <5>1 DEF ReadAdmit
        <5>2. CASE WritePass(t)
          <6>1. qnode[mynode[t]].next = n  BY <5>2, WriterBefore DEF WritePass
          <6> QED  BY <4>1, <5>2, <6>1 DEF WritePass, class
        <5> QED  BY <2>3, <5>1, <5>2
      <4>3. ~In(v)  BY <3>1, <3>2, <3>5, <3>7, <3>8 DEF In, Inside
      <4>4. In(v)'  BY <2>1, <3>1, <3>2, <3>3, <3>8, Zenon DEF In
      <4>5. Count' = Count \cup {v} /\ v \notin Count  BY <3>1, <3>6, <4>3, <4>4 DEF Count
      <4>6. Cardinality(Count') = Cardinality(Count) + 1  BY <1>0, <4>5 DEF Sizes
      <4> QED  BY <1>0, <4>2, <4>6 DEF Counted
    <3>9. CASE pc[v] = "w_wait"
      <4>1. class(n) = "writing"  BY <3>2, <3>9 DEF QInv, Blocks, Out, Writing
      <4>2. WritePass(t)
        <5>1. SUFFICES ASSUME pc[t] = "r_next" PROVE FALSE  BY <2>3 DEF ReadAdmit
        <5> QED  BY <3>2, <3>9, <5>1 DEF QInv, Behind, Early
      <4>3. reader_count' = reader_count
        <5>1. qnode[mynode[t]].next = n  BY <4>2, WriterBefore DEF WritePass
        <5> QED  BY <1>0, <4>1, <4>2, <5>1 DEF WritePass, class
      <4>4. In(v)' <=> In(v)  BY <3>3, <3>9 DEF In, Inside
      <4>5. Count' = Count  BY <3>1, <3>6, <4>4 DEF Count
      <4> QED  BY <1>0, <4>3, <4>5 DEF Counted
    <3> QED  BY <3>2, <3>8, <3>9
  <2> QED  BY <1>2, <2>2, <2>3 DEF Counts
<1> QED  BY <1>1, <1>2
-----------------------------------------------------------------------------
(* The centralised locks *)

\* The readers that the word of a centralised lock counts.
Adders == {t \in Threads : pc[t] \in {"c_clear", "reading"}}

\* The inductive invariant of the centralised locks: flag and count are exact.
CInv == /\ Sizes /\ kind \in {"writer_preference", "reader_preference"}
        /\ pc \in [Threads -> CentralPCs]
        /\ reader_count = Cardinality(Adders)
        /\ flag \in BOOLEAN
        /\ \A t \in Threads : pc[t] = "writing" => flag
        /\ \A t, u \in Threads : pc[t] = "writing" /\ pc[u] = "writing" => t = u
        /\ \A t \in Threads : pc[t] = "reading" => ~flag

\* The steps of the centralised locks.
CStep(t) == Request(t) \/ AwaitTurn(t) \/ TakeFlag(t) \/ DropFlag(t) \/ Complete(t)
            \/ LoadRequests(t) \/ LoadCompletions(t) \/ AddReader(t) \/ AwaitNoWriter(t) \/ SubReader(t)

\* Every step of a centralised lock keeps its invariant: the exchange that sets
\* the flag sees no reader, and a reader that counted itself in waits for the flag.
LEMMA KeepsCInv ==
  ASSUME CInv, NEW t \in Threads, Step(t)
  PROVE  CInv'
<1>1. pc \in [Threads -> CentralPCs] /\ kind # "queue" /\ Sizes /\ flag \in BOOLEAN
  BY DEF CInv
<1>2. CStep(t)
  BY <1>1 DEF Step, CStep, CentralPCs,
       WriteAnnounce, WriteCount, WriteGranted, WriteUnlock, ReadUnlock,
       LeaveTail, AwaitNext, WritePass, ReadGranted, ReadCount, ReadIn, ReadAdmit, ReadPass, ReadExit, ExitLoad,
       ExitCount, ExitClaim, Leaving, WriteClaim, WriteWake, ReadUnblock, ReadWake, ExitWake,
       WriteClass, WriteLink, ReadLook, ReadLink, ReadFollow, WriteExchange, ReadExchange
<1>3. /\ kind' = kind /\ pc' = [pc EXCEPT ![t] = pc'[t]] /\ pc'[t] \in CentralPCs
      /\ flag' \in BOOLEAN
  BY <1>1, <1>2, Zenon DEF CStep, Request, AwaitTurn, TakeFlag, DropFlag, Complete, LoadRequests, LoadCompletions,
       AddReader, AwaitNoWriter, SubReader, Goto, CentralPCs, central
<1>4. /\ \A u \in Threads : u # t => pc'[u] = pc[u]
      /\ pc' \in [Threads -> CentralPCs]
  BY <1>1, <1>3
<1>5. /\ Adders \in SUBSET Threads /\ reader_count = Cardinality(Adders) /\ Cardinality(Adders) \in Nat
      /\ reader_count = 0 => Adders = {}
  <2>1. Adders \in SUBSET Threads  BY DEF Adders
  <2> QED  BY <1>1, <2>1 DEF CInv, Sizes
<1>6. reader_count' = Cardinality(Adders')
  <2>1. CASE AddReader(t)
    <3>1. Adders' = Adders \cup {t} /\ t \notin Adders
      BY <1>1, <1>4, <2>1 DEF AddReader, Goto, Adders
    <3>2. Cardinality(Adders') = Cardinality(Adders) + 1  BY <1>1, <1>5, <3>1 DEF Sizes
    <3> QED  BY <1>5, <2>1, <3>2 DEF AddReader
  <2>2. CASE SubReader(t)
    <3>1. Adders' = Adders \ {t} /\ t \in Adders
      BY <1>1, <1>4, <2>2 DEF SubReader, Goto, Adders
    <3>2. Cardinality(Adders') = Cardinality(Adders) - 1  BY <1>1, <1>5, <3>1 DEF Sizes
    <3> QED  BY <1>5, <2>2, <3>2 DEF SubReader
  <2>3. CASE CStep(t) /\ ~AddReader(t) /\ ~SubReader(t)
    <3>1. reader_count' = reader_count /\ (pc'[t] \in {"c_clear", "reading"} <=> pc[t] \in {"c_clear", "reading"})
      BY <1>1, <2>3 DEF CStep, Request, AwaitTurn, TakeFlag, DropFlag, Complete, LoadRequests, LoadCompletions,
         AwaitNoWriter, Goto
    <3>2. Adders' = Adders  BY <1>4, <3>1 DEF Adders
    <3> QED  BY <1>5, <3>1, <3>2
  <2> QED  BY <1>2, <2>1, <2>2, <2>3
<1>7. /\ \A u \in Threads : pc'[u] = "writing" => flag'
      /\ \A u, v \in Threads : pc'[u] = "writing" /\ pc'[v] = "writing" => u = v
      /\ \A u \in Threads : pc'[u] = "reading" => ~flag'
  <2>1. /\ \A u \in Threads : pc[u] = "writing" => flag
        /\ \A u, v \in Threads : pc[u] = "writing" /\ pc[v] = "writing" => u = v
        /\ \A u \in Threads : pc[u] = "reading" => ~flag
    BY DEF CInv
  <2>2. CASE TakeFlag(t)
    <3>1. ~flag /\ reader_count = 0 /\ pc'[t] = "writing" /\ flag' = TRUE
      BY <1>1, <2>2 DEF TakeFlag, Goto
    <3>2. \A u \in Threads : pc[u] # "reading"  BY <1>5, <3>1 DEF Adders
    <3> QED  BY <1>4, <2>1, <3>1, <3>2
  <2>3. CASE DropFlag(t)
    <3>1. pc[t] = "writing" /\ flag' = FALSE /\ pc'[t] \in {"c_complete", "idle"}
      BY <1>1, <2>3 DEF DropFlag, Goto
    <3> QED  BY <1>4, <2>1, <3>1
  <2>4. CASE AwaitNoWriter(t)
    <3>1. ~flag /\ flag' = flag /\ pc'[t] = "reading"  BY <1>1, <2>4 DEF AwaitNoWriter, Goto, central
    <3> QED  BY <1>4, <2>1, <3>1
  <2>5. CASE CStep(t) /\ ~TakeFlag(t) /\ ~DropFlag(t) /\ ~AwaitNoWriter(t)
    <3>1. flag' = flag /\ pc'[t] \notin {"writing", "reading"}
      BY <1>1, <2>5 DEF CStep, Request, AwaitTurn, Complete, LoadRequests, LoadCompletions,
         AddReader, SubReader, Goto, central
    <3> QED  BY <1>4, <2>1, <3>1
  <2> QED  BY <1>2, <2>2, <2>3, <2>4, <2>5
<1> QED  BY <1>1, <1>3, <1>4, <1>6, <1>7 DEF CInv

\* The inductive invariant of the three builds.
IInv == QInv \/ CInv

\* It holds of a new lock.
LEMMA InitIInv == Assumptions /\ Init => IInv
<1> SUFFICES ASSUME Assumptions, Init PROVE IInv  OBVIOUS
<1>1. Threads # {} \/ Threads = {}  OBVIOUS
<1>2. CASE kind = "queue"
  <2>1. QTypes
    <3>1. Nodes = 1 .. Calls  BY DEF Nodes, Assumptions
    <3>2. Node("reading") \in QNodes  BY DEF Node, QNodes, kNullPtr
    <3> QED  BY <3>1, <3>2 DEF Init, QTypes, QueuePCs, Out, kNullPtr, Assumptions
  <2>2. OwnNodes  BY DEF Init, OwnNodes, kNullPtr
  <2>3. Owned /\ InOrder /\ Excludes  BY DEF Init, Owned, InOrder, Excludes
  <2>4. Blocks /\ Preds /\ Announced /\ Exits /\ Claims /\ Behind
    BY DEF Init, Blocks, Preds, Announced, Exits, Claims, Behind, Out, Early, kNullPtr
  <2>5. Links /\ Successors
    <3>1. Nodes = 1 .. Calls  BY DEF Nodes, Assumptions
    <3>2. \A n \in 1 .. Calls : qnode[n].next = 0 /\ qnode[n].successor = "none"
      BY <3>1 DEF Init, Node, kNullPtr
    <3> QED  BY <3>2 DEF Init, Links, Successors
  <2>6. Fronts
    BY DEF Init, Fronts, Front, Passed, kNullPtr
  <2>7. Counted
    <3>1. Count = {}  BY DEF Init, Count, In, Inside
    <3> QED  BY <3>1 DEF Counted, Init, Assumptions, Sizes
  <2> QED  BY <1>2, <2>1, <2>2, <2>3, <2>4, <2>5, <2>6, <2>7 DEF IInv, QInv
<1>3. CASE kind # "queue"
  <2>1. Adders = {}  BY DEF Init, Adders
  <2>2. reader_count = Cardinality(Adders)  BY <2>1 DEF Init, Assumptions, Sizes
  <2> QED  BY <1>3, <2>2, Zenon DEF Init, IInv, CInv, CentralPCs, Assumptions
<1> QED  BY <1>2, <1>3

\* It says nothing of what a step of another lock changes.
LEMMA SameIInv == IInv /\ UNCHANGED vars => IInv'
<1> SUFFICES ASSUME IInv, UNCHANGED vars PROVE IInv'  OBVIOUS
<1>1. UNCHANGED <<kind, reader_count, pc, tail, next_writer, qnode, ptr, calls, mynode, flag>>
  BY DEF vars, queued, central
<1>2. CASE CInv  BY <1>1, <1>2 DEF CInv, IInv, Adders
<1>3. CASE QInv
  <2>1. \A n : Left(n)' <=> Left(n)  BY <1>1 DEF Left
  <2>2. \A n : InW(n)' <=> InW(n)  BY <1>1, <2>1 DEF InW, class, blocked
  <2>3. Excludes' /\ Fronts' /\ Exits'
    BY <1>1, <1>3, <2>1, <2>2, Zenon DEF QInv, Excludes, Fronts, Exits, Front, Passed, class, blocked
  <2>4. Counted'
    <3>1. \A t \in Threads : In(t)' <=> In(t)  BY <1>1 DEF In, class, blocked
    <3>2. Count' = Count  BY <3>1 DEF Count
    <3> QED  BY <1>1, <1>3, <3>2 DEF QInv, Counted
  <2>5. /\ QTypes' /\ OwnNodes' /\ Owned' /\ Blocks' /\ Preds' /\ Links' /\ Successors' /\ Behind'
        /\ InOrder' /\ Announced' /\ Claims'
    BY <1>1, <1>3, Zenon DEF QInv, QTypes, OwnNodes, Owned, Blocks, Preds, Links, Successors, Behind, InOrder, Announced,
       Claims, class, blocked
  <2> QED  BY <1>1, <1>3, <2>3, <2>4, <2>5 DEF QInv, IInv
<1> QED  BY <1>2, <1>3 DEF IInv

\* Every step keeps it.
LEMMA StepIInv == IInv /\ [Next]_vars => IInv'
<1> SUFFICES ASSUME IInv, Next PROVE IInv'  BY SameIInv
<1>1. PICK t \in Threads : Step(t)  BY DEF Next
<1>2. CASE CInv  BY <1>1, <1>2, KeepsCInv DEF IInv
<1>3. CASE QInv
  <2>1. QStep(t) /\ kind' = kind  BY <1>1, <1>3, IsQStep
  <2>2. Assumptions /\ kind = "queue"  BY <1>3 DEF QInv
  <2> QED
    BY <1>3, <2>1, <2>2, KeepsTypes, KeepsOwned, KeepsBlocks, KeepsPreds, KeepsLinks, KeepsSuccessors, KeepsBehind,
       KeepsInOrder, KeepsExcludes, KeepsFronts, KeepsAnnounced, KeepsExits, KeepsClaims, KeepsCounted
    DEF QInv, IInv, Assumptions
<1> QED  BY <1>2, <1>3 DEF IInv

\* Of two threads in the critical section neither is a writer.
LEMMA InvAlone == IInv => WriterIsAlone
<1> SUFFICES ASSUME IInv, Writers # {} PROVE Cardinality(Writers) = 1 /\ Readers = {}
  BY DEF WriterIsAlone
<1>1. PICK t \in Threads : pc[t] = "writing"  BY DEF Writers
<1>2. \A u \in Threads : pc[u] \in {"writing", "reading"} => u = t
  <2>1. CASE CInv  BY <1>1, <2>1 DEF CInv
  <2>2. CASE QInv
    <3>1. PICK m \in 1 .. calls : m = mynode[t]  BY <1>1, <2>2, InPlace
    <3>2. InW(m)  BY <1>1, <2>2, <3>1 DEF QInv, Blocks, InW, Left, Out, Shut, Either, Writing
    <3>3. ASSUME NEW u \in Threads, pc[u] \in {"writing", "reading"} PROVE u = t
      <4>1. pc[u] \notin Out /\ ~blocked(mynode[u])  BY <2>2, <3>3 DEF QInv, Blocks, Out, Shut, Either
      <4>2. mynode[u] = m  BY <2>2, <3>2, <4>1, WriterAlone
      <4> QED  BY <2>2, <3>1, <4>2 DEF QInv, OwnNodes
    <3> QED  BY <3>3
  <2> QED  BY <2>1, <2>2 DEF IInv
<1>3. Writers = {t}  BY <1>1, <1>2 DEF Writers
<1>4. Readers = {}  BY <1>1, <1>2 DEF Readers
<1>5. Sizes  BY DEF IInv, QInv, CInv, Assumptions
<1>6. Cardinality({} \cup {t}) = 0 + 1  BY <1>5 DEF Sizes
<1> QED  BY <1>3, <1>4, <1>6
=============================================================================
