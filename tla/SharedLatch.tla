---------------------------- MODULE SharedLatch ----------------------------
(***************************************************************************)
(* RSpinSharedLatch of BLinkTree/latch.h: the reader-writer spin latch of  *)
(* every B-link-tree node.  One atomic word, flag_, holds both halves of   *)
(* the latch: the most significant bit is the writer, the bits below it    *)
(* count the readers.  A reader adds itself first and looks afterwards, so *)
(* the count also holds readers that found a writer and have still to take *)
(* themselves out again.                                                   *)
(***************************************************************************)
EXTENDS Naturals, FiniteSets

CONSTANTS Threads,   \* the threads that use the latch
          WLatch     \* w_latch, the value of the most significant bit (2^63)

\* The count must not run into the writer bit.
ASSUME LatchAssumption == /\ IsFiniteSet(Threads)
                          /\ WLatch \in Nat
                          /\ Cardinality(Threads) < WLatch

VARIABLES flag,      \* flag_
          pc         \* where each thread is in its call

vars == <<flag, pc>>

PCs == {"idle",                                  \* outside the latch
        "r_spin", "r_undo", "reading",           \* latch_shared
        "w_spin", "w_cas", "writing"}            \* latch_exclusive

w_latched(f) == f >= WLatch
none_latched(f) == f = 0

\* fetch_add and fetch_sub of an unsigned word of which WLatch is the top bit.
FetchAdd(f, n) == (f + n) % (2 * WLatch)
FetchSub(f, n) == (f + 2 * WLatch - n) % (2 * WLatch)

Goto(t, l) == pc' = [pc EXCEPT ![t] = l]

Init == /\ flag = 0
        /\ pc = [t \in Threads |-> "idle"]
-----------------------------------------------------------------------------
\* latch_shared with the test of the writer bit left out
SharedAddNoTest(t) ==
  /\ pc[t] \in {"idle", "r_spin"}
  /\ flag' = FetchAdd(flag, 1)
  /\ Goto(t, "reading")

\* One turn of latch_shared's loop: add, then look at the value before.
SharedAdd(t) ==
  /\ pc[t] \in {"idle", "r_spin"}
  /\ flag' = FetchAdd(flag, 1)
  /\ Goto(t, IF w_latched(flag) THEN "r_undo" ELSE "reading")

\* latch_shared that forgets to take its count back
SharedUndoLeak(t) ==
  /\ pc[t] = "r_undo"
  /\ Goto(t, "r_spin")
  /\ UNCHANGED flag

\* A writer was there: the reader takes its count back and spins.
SharedUndo(t) ==
  /\ pc[t] = "r_undo"
  /\ flag' = FetchSub(flag, 1)
  /\ Goto(t, "r_spin")

UnlatchShared(t) ==
  /\ pc[t] = "reading"
  /\ flag' = FetchSub(flag, 1)
  /\ Goto(t, "idle")

\* latch_exclusive loads the word and goes on only if nobody has latched.
ExclusiveLoad(t) ==
  /\ pc[t] \in {"idle", "w_spin"}
  /\ Goto(t, IF none_latched(flag) THEN "w_cas" ELSE "w_spin")
  /\ UNCHANGED flag

\* a store of w_latch where the code compares and exchanges
ExclusiveStore(t) ==
  /\ pc[t] = "w_cas"
  /\ flag' = WLatch
  /\ Goto(t, "writing")

ExclusiveCas(t) ==
  /\ pc[t] = "w_cas"
  /\ IF none_latched(flag)
     THEN /\ flag' = WLatch
          /\ Goto(t, "writing")
     ELSE /\ Goto(t, "w_spin")
          /\ UNCHANGED flag

UnlatchExclusive(t) ==
  /\ pc[t] = "writing"
  /\ flag' = FetchSub(flag, WLatch)
  /\ Goto(t, "idle")

Step(t) == \/ SharedAdd(t) \/ SharedUndo(t) \/ UnlatchShared(t)
           \/ ExclusiveLoad(t) \/ ExclusiveCas(t) \/ UnlatchExclusive(t)

Next == \E t \in Threads : Step(t)

Spec == Init /\ [][Next]_vars

\* A thread that has called the latch keeps running, and a holder lets go:
\* the code's spinning never blocks and no holder waits for the same latch.
Called(t) == pc[t] # "idle"
FairSpec == Spec /\ \A t \in Threads : WF_vars(Called(t) /\ Step(t))
-----------------------------------------------------------------------------
Readers == {t \in Threads : pc[t] = "reading"}
Writers == {t \in Threads : pc[t] = "writing"}
Counted == {t \in Threads : pc[t] \in {"reading", "r_undo"}}

\* The count below the writer bit never exceeds the number of threads.
TypeOK == /\ flag \in 0 .. WLatch + Cardinality(Threads)
          /\ pc \in [Threads -> PCs]

\* A writer is alone: no second writer and no reader inside, whatever the
\* transient counts of readers that are backing out (latch.h:72-74, 98).
Exclusion == /\ \A t, u \in Writers : t = u
             /\ Writers = {} \/ Readers = {}

\* The word is exactly the writer bit plus the readers inside and backing
\* out, so no fetch_sub underflows and no reader is lost (latch.h:47).
FlagExact == flag = (IF Writers = {} THEN 0 ELSE WLatch) + Cardinality(Counted)

\* The latch does not jam: while somebody waits for it, somebody gets it.
\* Spinning readers count themselves in while a writer holds the latch; this
\* says they cannot keep it from being taken again (latch.h:72-74, 96-98).
SomeoneEnters == (\E t \in Threads : pc[t] \in {"r_spin", "r_undo", "w_spin", "w_cas"})
                    ~> (Readers \cup Writers # {})
=============================================================================
