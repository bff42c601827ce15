---------------------------- MODULE RWQueueLock ----------------------------
(***************************************************************************)
(* MCSRWLock of OptiQL/latches/MCSRW.h, a reader-writer lock in three      *)
(* builds: a fair queue of readers and writers ("queue"), and two          *)
(* centralised locks that prefer writers or readers (RWLOCK_WRITER_        *)
(* PREFERENCE, RWLOCK_READER_PREFERENCE).                                  *)
(*                                                                         *)
(* In the queue a reader behind an active reader goes in at once, one      *)
(* behind a waiting reader is let in by it, and everybody else waits for   *)
(* the node in front.  The last reader out wakes next_writer_.  Every      *)
(* access to a shared word is a step of its own.                           *)
(***************************************************************************)
EXTENDS Naturals, FiniteSets

CONSTANTS Threads,   \* the threads, numbers from 1
          Calls,     \* bound: calls of the queue's lock functions
          Reuse,     \* whether a thread's calls all use the same queue node
          Wrap       \* what write_requests_ and write_completions_ wrap at

VARIABLES kind,          \* which build
          tail,          \* tail_
          next_writer,   \* next_writer_
          reader_count,  \* reader_count_, or the readers of reader_count_and_flag_
          flag,          \* kWriterActiveFlag of reader_count_and_flag_
          requests,      \* write_requests_
          completions,   \* write_completions_
          qnode,         \* class_, blocked_, successor_class_ and next_
          calls,         \* calls made so far
          mynode,        \* the queue node of each thread's call
          pc,            \* where each thread is
          ptr,           \* the queue node each thread has in hand
          mine           \* what each thread has loaded of the request counters

central == <<flag, requests, completions, mine>>
queued == <<tail, next_writer, qnode, ptr, calls, mynode>>
vars == <<kind, reader_count, pc, queued, central>>

\* Queue nodes are numbers; the caller brings one, its own or a new one.
kNullPtr == 0
Nodes == IF Reuse THEN Threads ELSE 1 .. Calls
NewNode(t) == IF Reuse THEN t ELSE calls + 1

Goto(t, l) == pc' = [pc EXCEPT ![t] = l]
Hand(t, n) == ptr' = [ptr EXCEPT ![t] = n]
unblock(n) == qnode' = [qnode EXCEPT ![n].blocked = FALSE]

Node(c) == [class |-> c, blocked |-> TRUE, successor |-> "none", next |-> kNullPtr]

Init == /\ kind \in {"queue", "writer_preference", "reader_preference"}
        /\ tail = kNullPtr /\ next_writer = kNullPtr
        /\ reader_count = 0 /\ flag = FALSE
        /\ requests = 0 /\ completions = 0
        /\ qnode = [n \in Nodes |-> Node("reading")]
        /\ pc = [t \in Threads |-> "idle"]
        /\ ptr = [t \in Threads |-> kNullPtr]
        /\ calls = 0 /\ mynode = [t \in Threads |-> kNullPtr]
        /\ mine = [t \in Threads |-> 0]
-----------------------------------------------------------------------------
\* The queue node is reset before anybody can point to it; then the exchange.
Join(t, class) ==
  /\ calls < Calls /\ calls' = calls + 1
  /\ mynode' = [mynode EXCEPT ![t] = NewNode(t)]
  /\ qnode' = [qnode EXCEPT ![NewNode(t)] = Node(class)]
  /\ tail' = NewNode(t)
  /\ Hand(t, tail)

(* lock(qnode) *)

WriteExchange(t) ==
  /\ kind = "queue" /\ pc[t] = "idle"
  /\ Join(t, "writing")
  /\ Goto(t, IF tail = kNullPtr THEN "w_announce" ELSE "w_class")
  /\ UNCHANGED <<kind, reader_count, next_writer, central>>

WriteAnnounce(t) ==
  /\ pc[t] = "w_announce"
  /\ next_writer' = mynode[t]
  /\ Goto(t, "w_count")
  /\ UNCHANGED <<kind, reader_count, tail, qnode, ptr, calls, mynode, central>>

WriteCount(t) ==
  /\ pc[t] = "w_count"
  /\ Goto(t, IF reader_count = 0 THEN "w_claim" ELSE "w_wait")
  /\ UNCHANGED <<kind, reader_count, queued, central>>

\* Whoever takes the announcement back, this writer or the last reader, lets
\* the writer in.
WriteClaim(t) ==
  /\ pc[t] = "w_claim"
  /\ next_writer' = kNullPtr
  /\ IF next_writer = mynode[t]
     THEN unblock(mynode[t]) /\ Goto(t, "writing")
     ELSE UNCHANGED qnode /\ Goto(t, "w_wait")
  /\ UNCHANGED <<kind, reader_count, tail, ptr, calls, mynode, central>>

WriteClass(t) ==
  /\ pc[t] = "w_class"
  /\ qnode' = [qnode EXCEPT ![ptr[t]].successor = "writer"]
  /\ Goto(t, "w_link")
  /\ UNCHANGED <<kind, reader_count, tail, next_writer, ptr, calls, mynode, central>>

WriteLink(t) ==
  /\ pc[t] = "w_link"
  /\ qnode' = [qnode EXCEPT ![ptr[t]].next = mynode[t]]
  /\ Goto(t, "w_wait")
  /\ UNCHANGED <<kind, reader_count, tail, next_writer, ptr, calls, mynode, central>>

WriteGranted(t) ==
  /\ pc[t] = "w_wait" /\ ~qnode[mynode[t]].blocked
  /\ Goto(t, "writing")
  /\ UNCHANGED <<kind, reader_count, queued, central>>

(* unlock(qnode), and the first half of read_unlock(qnode), which is the same *)

Leaving == {"w_leave", "r_leave"}
Passing(t) == IF qnode[mynode[t]].class = "writing" THEN "w_pass" ELSE "r_pass"

WriteUnlock(t) ==
  /\ kind = "queue" /\ pc[t] = "writing"
  /\ Goto(t, IF qnode[mynode[t]].next = kNullPtr THEN "w_leave" ELSE "w_pass")
  /\ UNCHANGED <<kind, reader_count, queued, central>>

ReadUnlock(t) ==
  /\ kind = "queue" /\ pc[t] = "reading"
  /\ Goto(t, IF qnode[mynode[t]].next = kNullPtr THEN "r_leave" ELSE "r_pass")
  /\ UNCHANGED <<kind, reader_count, queued, central>>

\* No successor in sight: take the tail back, or wait for it to link itself.
LeaveTail(t) ==
  /\ pc[t] \in Leaving
  /\ IF tail = mynode[t]
     THEN tail' = kNullPtr /\ Goto(t, IF pc[t] = "w_leave" THEN "idle" ELSE "r_exit")
     ELSE UNCHANGED tail /\ Goto(t, "await")
  /\ UNCHANGED <<kind, reader_count, next_writer, qnode, ptr, calls, mynode, central>>

AwaitNext(t) ==
  /\ pc[t] = "await" /\ qnode[mynode[t]].next # kNullPtr
  /\ Goto(t, Passing(t))
  /\ UNCHANGED <<kind, reader_count, queued, central>>

\* A writer that is followed by a reader counts the reader in, then wakes it.
WritePass(t) ==
  /\ pc[t] = "w_pass"
  /\ reader_count' = reader_count + (IF qnode[qnode[mynode[t]].next].class = "reading" THEN 1 ELSE 0)
  /\ Goto(t, "w_wake")
  /\ UNCHANGED <<kind, queued, central>>

WriteWake(t) ==
  /\ pc[t] = "w_wake"
  /\ unblock(qnode[mynode[t]].next)
  /\ Goto(t, "idle")
  /\ UNCHANGED <<kind, reader_count, tail, next_writer, ptr, calls, mynode, central>>
-----------------------------------------------------------------------------
(* read_lock(qnode) *)

ReadExchange(t) ==
  /\ kind = "queue" /\ pc[t] = "idle"
  /\ Join(t, "reading")
  /\ Goto(t, IF tail = kNullPtr THEN "r_count" ELSE "r_look")
  /\ UNCHANGED <<kind, reader_count, next_writer, central>>

\* Behind a writer, or behind a reader that waits itself: the state of that
\* reader is exchanged as a whole, so it will see that it must wake this one.
ReadLook(t) ==
  /\ pc[t] = "r_look"
  /\ LET pred == ptr[t]
         waits == qnode[pred].blocked /\ qnode[pred].successor = "none" IN
     CASE qnode[pred].class = "writing" -> Goto(t, "r_link") /\ UNCHANGED qnode
       [] qnode[pred].class = "reading" /\ waits ->
            /\ qnode' = [qnode EXCEPT ![pred].successor = "reader"]
            /\ Goto(t, "r_link")
       [] OTHER -> Goto(t, "r_count") /\ UNCHANGED qnode
  /\ UNCHANGED <<kind, reader_count, tail, next_writer, ptr, calls, mynode, central>>

ReadLink(t) ==
  /\ pc[t] = "r_link"
  /\ qnode' = [qnode EXCEPT ![ptr[t]].next = mynode[t]]
  /\ Goto(t, "r_wait")
  /\ UNCHANGED <<kind, reader_count, tail, next_writer, ptr, calls, mynode, central>>

ReadGranted(t) ==
  /\ pc[t] = "r_wait" /\ ~qnode[mynode[t]].blocked
  /\ Goto(t, "r_in")
  /\ UNCHANGED <<kind, reader_count, queued, central>>

\* Alone, or behind an active reader: count in, link, and go in.
ReadCount(t) ==
  /\ pc[t] = "r_count"
  /\ reader_count' = reader_count + 1
  /\ Goto(t, IF ptr[t] = kNullPtr THEN "r_unblock" ELSE "r_follow")
  /\ UNCHANGED <<kind, queued, central>>

ReadFollow(t) ==
  /\ pc[t] = "r_follow"
  /\ qnode' = [qnode EXCEPT ![ptr[t]].next = mynode[t]]
  /\ Goto(t, "r_unblock")
  /\ UNCHANGED <<kind, reader_count, tail, next_writer, ptr, calls, mynode, central>>

ReadUnblock(t) ==
  /\ pc[t] = "r_unblock"
  /\ unblock(mynode[t])
  /\ Goto(t, "r_in")
  /\ UNCHANGED <<kind, reader_count, tail, next_writer, ptr, calls, mynode, central>>

\* A reader that was let in lets the reader behind it in.
ReadIn(t) ==
  /\ pc[t] = "r_in"
  /\ Goto(t, IF qnode[mynode[t]].successor = "reader" THEN "r_next" ELSE "reading")
  /\ UNCHANGED <<kind, reader_count, queued, central>>

ReadAdmit(t) ==
  /\ pc[t] = "r_next" /\ qnode[mynode[t]].next # kNullPtr
  /\ reader_count' = reader_count + 1
  /\ Goto(t, "r_wake")
  /\ UNCHANGED <<kind, queued, central>>

ReadWake(t) ==
  /\ pc[t] = "r_wake"
  /\ unblock(qnode[mynode[t]].next)
  /\ Goto(t, "reading")
  /\ UNCHANGED <<kind, reader_count, tail, next_writer, ptr, calls, mynode, central>>

(* the second half of read_unlock(qnode) *)

ReadPass(t) ==
  /\ pc[t] = "r_pass"
  /\ IF qnode[mynode[t]].successor = "writer"
     THEN next_writer' = qnode[mynode[t]].next
     ELSE UNCHANGED next_writer
  /\ Goto(t, "r_exit")
  /\ UNCHANGED <<kind, reader_count, tail, qnode, ptr, calls, mynode, central>>

\* reader_exit: only the reader that brings the count to zero goes on.
ReadExit(t) ==
  /\ pc[t] = "r_exit"
  /\ reader_count' = reader_count - 1
  /\ Goto(t, IF reader_count = 1 THEN "x_load" ELSE "idle")
  /\ UNCHANGED <<kind, queued, central>>

ExitLoad(t) ==
  /\ pc[t] = "x_load"
  /\ Hand(t, next_writer)
  /\ Goto(t, IF next_writer = kNullPtr THEN "idle" ELSE "x_count")
  /\ UNCHANGED <<kind, reader_count, tail, next_writer, qnode, calls, mynode, central>>

\* the second look at the count left out
ExitCountSkip(t) ==
  /\ pc[t] = "x_count"
  /\ Goto(t, "x_claim")
  /\ UNCHANGED <<kind, reader_count, queued, central>>

\* Readers may have come in since the count was zero.
ExitCount(t) ==
  /\ pc[t] = "x_count"
  /\ Goto(t, IF reader_count = 0 THEN "x_claim" ELSE "idle")
  /\ UNCHANGED <<kind, reader_count, queued, central>>

ExitClaim(t) ==
  /\ pc[t] = "x_claim"
  /\ IF next_writer = ptr[t]
     THEN next_writer' = kNullPtr /\ Goto(t, "x_wake")
     ELSE UNCHANGED next_writer /\ Goto(t, "idle")
  /\ UNCHANGED <<kind, reader_count, tail, qnode, ptr, calls, mynode, central>>

ExitWake(t) ==
  /\ pc[t] = "x_wake"
  /\ unblock(ptr[t])
  /\ Goto(t, "idle")
  /\ UNCHANGED <<kind, reader_count, tail, next_writer, ptr, calls, mynode, central>>
-----------------------------------------------------------------------------
(* The centralised locks: one word with the readers' count and the flag of  *)
(* the active writer, and tickets for the writers if they are preferred.    *)

Request(t) ==
  /\ kind = "writer_preference" /\ pc[t] = "idle"
  /\ requests' = (requests + 1) % Wrap
  /\ mine' = [mine EXCEPT ![t] = requests]
  /\ Goto(t, "c_turn")
  /\ UNCHANGED <<kind, reader_count, queued, flag, completions>>

\* a writer that does not wait for its ticket
AwaitTurnSkip(t) ==
  /\ pc[t] = "c_turn"
  /\ Goto(t, "c_cas")
  /\ UNCHANGED <<kind, reader_count, queued, central>>

AwaitTurn(t) ==
  /\ pc[t] = "c_turn" /\ completions = mine[t]
  /\ Goto(t, "c_cas")
  /\ UNCHANGED <<kind, reader_count, queued, central>>

\* compare_exchange_strong(kFree, kWriterActiveFlag), until it succeeds
TakeFlag(t) ==
  /\ \/ pc[t] = "c_cas"
     \/ kind = "reader_preference" /\ pc[t] = "idle"
  /\ reader_count = 0 /\ ~flag
  /\ flag' = TRUE
  /\ Goto(t, "writing")
  /\ UNCHANGED <<kind, reader_count, queued, requests, completions, mine>>

DropFlag(t) ==
  /\ kind # "queue" /\ pc[t] = "writing"
  /\ flag' = FALSE
  /\ Goto(t, IF kind = "writer_preference" THEN "c_complete" ELSE "idle")
  /\ UNCHANGED <<kind, reader_count, queued, requests, completions, mine>>

Complete(t) ==
  /\ pc[t] = "c_complete"
  /\ completions' = (completions + 1) % Wrap
  /\ Goto(t, "idle")
  /\ UNCHANGED <<kind, reader_count, queued, flag, requests, mine>>

\* A reader of the lock that prefers writers loads the two counters one after
\* the other and starts over until they agree.
LoadRequests(t) ==
  /\ kind = "writer_preference" /\ pc[t] \in {"idle", "c_spin"}
  /\ mine' = [mine EXCEPT ![t] = requests]
  /\ Goto(t, "c_finished")
  /\ UNCHANGED <<kind, reader_count, queued, flag, requests, completions>>

LoadCompletions(t) ==
  /\ pc[t] = "c_finished"
  /\ Goto(t, IF completions = mine[t] THEN "c_add" ELSE "c_spin")
  /\ UNCHANGED <<kind, reader_count, queued, central>>

AddReader(t) ==
  /\ \/ pc[t] = "c_add"
     \/ kind = "reader_preference" /\ pc[t] = "idle"
  /\ reader_count' = reader_count + 1
  /\ Goto(t, "c_clear")
  /\ UNCHANGED <<kind, queued, central>>

AwaitNoWriter(t) ==
  /\ pc[t] = "c_clear" /\ ~flag
  /\ Goto(t, "reading")
  /\ UNCHANGED <<kind, reader_count, queued, central>>

SubReader(t) ==
  /\ kind # "queue" /\ pc[t] = "reading"
  /\ reader_count' = reader_count - 1
  /\ Goto(t, "idle")
  /\ UNCHANGED <<kind, queued, central>>

Step(t) ==
  \/ WriteExchange(t) \/ WriteAnnounce(t) \/ WriteCount(t) \/ WriteClaim(t)
  \/ WriteClass(t) \/ WriteLink(t) \/ WriteGranted(t) \/ WriteUnlock(t)
  \/ WritePass(t) \/ WriteWake(t) \/ LeaveTail(t) \/ AwaitNext(t)
  \/ ReadExchange(t) \/ ReadLook(t) \/ ReadLink(t) \/ ReadGranted(t) \/ ReadCount(t)
  \/ ReadFollow(t) \/ ReadUnblock(t) \/ ReadIn(t) \/ ReadAdmit(t) \/ ReadWake(t)
  \/ ReadUnlock(t) \/ ReadPass(t) \/ ReadExit(t)
  \/ ExitLoad(t) \/ ExitCount(t) \/ ExitClaim(t) \/ ExitWake(t)
  \/ Request(t) \/ AwaitTurn(t) \/ TakeFlag(t) \/ DropFlag(t) \/ Complete(t)
  \/ LoadRequests(t) \/ LoadCompletions(t) \/ AddReader(t) \/ AwaitNoWriter(t) \/ SubReader(t)

Next == \E t \in Threads : Step(t)

Spec == Init /\ [][Next]_vars

\* A thread inside a call keeps running and a holder lets go.
FairSpec == Spec /\ \A t \in Threads : WF_vars(pc[t] # "idle" /\ Step(t))
-----------------------------------------------------------------------------
Readers == {t \in Threads : pc[t] = "reading"}
Writers == {t \in Threads : pc[t] = "writing"}

\* A writer is alone.  In the queue the lock reaches a writer along three
\* ways, from the writer in front, from the last reader out, or from its own
\* claim, and readers count themselves in along three others
\* (MCSRW.h:271-278, 305-313, 336-358, 386-395).
WriterIsAlone == Writers = {} \/ (Cardinality(Writers) = 1 /\ Readers = {})

WaitsToWrite(t) == pc[t] \in {"w_announce", "w_count", "w_claim", "w_class", "w_link", "w_wait",
                              "c_turn", "c_cas"}
WaitsToRead(t) == pc[t] \in {"r_look", "r_link", "r_wait", "r_count", "r_follow", "r_unblock", "r_in",
                             "r_next", "r_wake", "c_clear"}

\* Nobody starves for ever in the queue, writers do not in the lock that
\* prefers them, and readers that have counted themselves in do not in any:
\* no wake-up is lost between the last reader out, the writer that announces
\* itself, and the threads that are linking themselves.
WritersGetIn == \A t \in Threads :
                  (kind # "reader_preference" /\ WaitsToWrite(t)) ~> (pc[t] = "writing")
ReadersGetIn == \A t \in Threads : WaitsToRead(t) ~> (pc[t] = "reading")
=============================================================================
