--------------------------- MODULE MCLocksProofs ---------------------------
(***************************************************************************)
(* The locks for any number of threads, calls and versions: the latch of   *)
(* the B-link tree, and the version locks, the queue locks and the reader- *)
(* writer locks as they stand side by side in the composition.             *)
(*                                                                         *)
(* The version locks: one holder, validated reads are snapshots, upgrades  *)
(* keep what was read, and an obsolete word is final.  None of these is    *)
(* inductive.  What a reader's check means depends on every word between   *)
(* the one it remembered and the one it sees: the invariant says that the  *)
(* word never falls below a remembered one, and that a reader whose word   *)
(* still stands, or stands with only the lock bit raised by a holder that  *)
(* has not written yet, has read the present cells.                        *)
(*                                                                         *)
(* The queue locks and the reader-writer locks: what QueueLockProofs and   *)
(* RWQueueLockProofs show of them.                                         *)
(***************************************************************************)
EXTENDS MCLocks, FiniteSetTheorems, TLAPS

-----------------------------------------------------------------------------
(***************************************************************************)
(* The latch of the B-link tree's nodes.  The inductive invariant says     *)
(* that flag_ counts exactly the threads that have added themselves;       *)
(* exclusion alone is not inductive, because what a thread learns from the *)
(* word depends on that count being exact.                                 *)
(***************************************************************************)

\* The count must not run into the writer bit.
LatchAssumptions == IsFiniteSet(LatchThreads) /\ WLatch \in Nat /\ Cardinality(LatchThreads) < WLatch

\* Every thread is somewhere.
LatchPlaces == lpc \in [LatchThreads -> L!PCs]

\* The inductive invariant.
LatchInv == LatchPlaces /\ L!FlagExact /\ L!Exclusion

\* The number of readers that the word counts.
LatchCount == L!Cardinality(L!Counted)

\* Cardinality is the same in the instance.
LEMMA LatchCardinality == \A S : L!Cardinality(S) = Cardinality(S)
BY DEF L!Cardinality, Cardinality

\* The readers the word counts are some of the threads: fewer than WLatch.
LEMMA CountBound ==
  ASSUME LatchAssumptions
  PROVE  /\ IsFiniteSet(L!Counted)
         /\ LatchCount \in Nat
         /\ LatchCount <= Cardinality(LatchThreads)
         /\ LatchCount < WLatch
         /\ Cardinality(LatchThreads) \in Nat
         /\ (LatchCount = 0) <=> (L!Counted = {})
<1>1. L!Counted \subseteq LatchThreads  BY DEF L!Counted
<1>2. IsFiniteSet(L!Counted) /\ Cardinality(L!Counted) <= Cardinality(LatchThreads)
  BY <1>1, FS_Subset DEF LatchAssumptions
<1>3. Cardinality(LatchThreads) \in Nat /\ Cardinality(L!Counted) \in Nat
  BY <1>2, FS_CardinalityType DEF LatchAssumptions
<1>4. (Cardinality(L!Counted) = 0) <=> (L!Counted = {})
  BY <1>2, FS_EmptySet
<1> QED  BY <1>2, <1>3, <1>4, LatchCardinality DEF LatchCount, LatchAssumptions

\* The wrapped arithmetic of the word is ordinary arithmetic inside the range
\* that the count and one writer bit span.
LEMMA FetchArithmetic ==
  ASSUME LatchAssumptions, NEW f \in Nat, NEW n \in Nat
  PROVE  /\ f + n < 2 * WLatch => L!FetchAdd(f, n) = f + n
         /\ n <= f /\ f < 2 * WLatch => L!FetchSub(f, n) = f - n
<1>0. WLatch \in Nat  BY DEF LatchAssumptions
<1>1. ASSUME NEW a \in Nat, a < 2 * WLatch PROVE a % (2 * WLatch) = a
  BY <1>0, <1>1
<1>2. ASSUME NEW a \in Nat, a < 2 * WLatch PROVE (a + 2 * WLatch) % (2 * WLatch) = a
  BY <1>0, <1>2
<1>3. ASSUME n <= f, f < 2 * WLatch PROVE L!FetchSub(f, n) = f - n
  <2>1. f - n \in Nat /\ f - n < 2 * WLatch  BY <1>0, <1>3
  <2>2. f + 2 * WLatch - n = (f - n) + 2 * WLatch  BY <1>0
  <2> QED  BY <1>2, <2>1, <2>2 DEF L!FetchSub
<1> QED  BY <1>0, <1>1, <1>3 DEF L!FetchAdd

\* The invariant bounds the word as the type invariant says.
LEMMA LatchWord == ASSUME LatchAssumptions PROVE LatchInv => L!TypeOK
BY CountBound, LatchCardinality DEF LatchAssumptions, LatchInv, L!FlagExact, L!TypeOK, LatchPlaces, LatchCount

\* At first the word is zero and nobody is inside.
LEMMA LatchInit == ASSUME LatchAssumptions PROVE L!Init => LatchInv
<1> SUFFICES ASSUME L!Init PROVE LatchInv  OBVIOUS
<1>1. LatchPlaces  BY DEF L!Init, LatchPlaces, L!PCs
<1>2. L!Counted = {} /\ L!Writers = {}  BY DEF L!Init, L!Counted, L!Writers
<1>3. L!FlagExact  BY <1>2, CountBound DEF L!FlagExact, L!Init, LatchCount
<1> QED  BY <1>1, <1>2, <1>3 DEF LatchInv, L!Exclusion

\* Every step of a thread keeps the count exact and the writer alone.
LEMMA LatchStep == ASSUME LatchAssumptions PROVE LatchInv /\ [L!Next]_(L!vars) => LatchInv'
<1> SUFFICES ASSUME LatchInv, [L!Next]_(L!vars) PROVE LatchInv'  OBVIOUS
<1> USE DEF LatchCount
<1>0. /\ WLatch \in Nat /\ LatchCount \in Nat /\ LatchCount < WLatch /\ IsFiniteSet(L!Counted)
      /\ (LatchCount = 0) <=> (L!Counted = {})
      /\ Cardinality(LatchThreads) < WLatch
  BY CountBound DEF LatchAssumptions
<1>a. /\ LatchPlaces
      /\ lflag = (IF L!Writers = {} THEN 0 ELSE WLatch) + LatchCount
      /\ L!Writers = {} \/ L!Readers = {}
      /\ \A t, u \in L!Writers : t = u
  BY DEF LatchInv, L!FlagExact, L!Exclusion
<1>b. lflag \in Nat /\ lflag < 2 * WLatch  BY <1>0, <1>a
<1>c. L!Writers # {} => LatchCount + WLatch = lflag  BY <1>0, <1>a
<1>d. L!w_latched(lflag) <=> L!Writers # {}  BY <1>0, <1>a DEF L!w_latched
<1>e. \A t \in LatchThreads : t \in L!Counted => LatchCount >= 1
  BY <1>0
<1>1. ASSUME NEW t \in LatchThreads, L!SharedAdd(t) PROVE LatchInv'
  <2>1. LatchPlaces'  BY <1>1, <1>a DEF L!SharedAdd, L!Goto, LatchPlaces, L!PCs
  <2>2. L!Writers' = L!Writers  BY <1>1, <1>a DEF L!SharedAdd, L!Goto, LatchPlaces, L!Writers
  <2>3. t \notin L!Counted /\ L!Counted' = L!Counted \cup {t}
    BY <1>1, <1>a DEF L!SharedAdd, L!Goto, LatchPlaces, L!Counted
  <2>4. LatchCount' = LatchCount + 1  BY <1>0, <2>3, FS_AddElement, LatchCardinality
  <2>5. LatchCount' < WLatch
    <3>1. L!Counted' \subseteq LatchThreads  BY <2>3 DEF L!Counted
    <3>2. Cardinality(L!Counted') <= Cardinality(LatchThreads)
      BY <3>1, FS_Subset, LatchCardinality DEF LatchAssumptions
    <3>3. Cardinality(LatchThreads) \in Nat  BY FS_CardinalityType DEF LatchAssumptions
    <3> QED  BY <1>0, <2>4, <3>2, <3>3, LatchCardinality
  <2>6. lflag' = lflag + 1
    <3>1. lflag + 1 < 2 * WLatch  BY <1>0, <1>a, <2>4, <2>5
    <3> QED  BY <1>1, <1>b, <3>1, FetchArithmetic DEF L!SharedAdd
  <2>7. L!FlagExact'  BY <1>0, <1>a, <2>2, <2>4, <2>6 DEF L!FlagExact
  <2>8. L!Readers' # {} => L!Writers = {}
    <3>1. CASE L!w_latched(lflag)
      <4>1. L!Readers' = L!Readers
        BY <1>1, <1>a, <3>1 DEF L!SharedAdd, L!Goto, LatchPlaces, L!Readers
      <4> QED  BY <4>1, <1>a
    <3>2. CASE ~ L!w_latched(lflag)  BY <3>2, <1>d
    <3> QED  BY <3>1, <3>2
  <2> QED  BY <1>a, <2>1, <2>2, <2>7, <2>8 DEF LatchInv, L!Exclusion
<1>2. ASSUME NEW t \in LatchThreads, L!SharedUndo(t) \/ L!UnlatchShared(t) PROVE LatchInv'
  <2>1. LatchPlaces'  BY <1>2, <1>a DEF L!SharedUndo, L!UnlatchShared, L!Goto, LatchPlaces, L!PCs
  <2>2. L!Writers' = L!Writers /\ L!Readers' \subseteq L!Readers
    BY <1>2, <1>a DEF L!SharedUndo, L!UnlatchShared, L!Goto, LatchPlaces, L!Writers, L!Readers
  <2>3. t \in L!Counted /\ L!Counted' = L!Counted \ {t}
    BY <1>2, <1>a DEF L!SharedUndo, L!UnlatchShared, L!Goto, LatchPlaces, L!Counted
  <2>4. LatchCount' = LatchCount - 1 /\ LatchCount >= 1  BY <1>0, <1>e, <2>3, FS_RemoveElement, LatchCardinality
  <2>5. lflag' = lflag - 1
    <3>1. 1 <= lflag  BY <1>0, <1>a, <2>4
    <3> QED  BY <1>2, <1>b, <3>1, FetchArithmetic DEF L!SharedUndo, L!UnlatchShared
  <2>6. L!FlagExact'  BY <1>0, <1>a, <2>2, <2>4, <2>5 DEF L!FlagExact
  <2> QED  BY <1>a, <2>1, <2>2, <2>6 DEF LatchInv, L!Exclusion
<1>3. ASSUME NEW t \in LatchThreads, L!ExclusiveLoad(t) PROVE LatchInv'
  <2>1. LatchPlaces'  BY <1>3, <1>a DEF L!ExclusiveLoad, L!Goto, LatchPlaces, L!PCs
  <2>2. L!Writers' = L!Writers /\ L!Readers' = L!Readers /\ L!Counted' = L!Counted /\ lflag' = lflag
    BY <1>3, <1>a DEF L!ExclusiveLoad, L!Goto, LatchPlaces, L!Writers, L!Readers, L!Counted
  <2> QED  BY <1>a, <2>1, <2>2 DEF LatchInv, L!FlagExact, L!Exclusion
<1>4. ASSUME NEW t \in LatchThreads, L!ExclusiveCas(t) PROVE LatchInv'
  <2>1. LatchPlaces'  BY <1>4, <1>a DEF L!ExclusiveCas, L!Goto, LatchPlaces, L!PCs
  <2>2. L!Readers' = L!Readers /\ L!Counted' = L!Counted
    BY <1>4, <1>a DEF L!ExclusiveCas, L!Goto, LatchPlaces, L!Readers, L!Counted
  <2>3. CASE lflag = 0
    <3>1. L!Writers = {} /\ LatchCount = 0  BY <2>3, <1>0, <1>a
    <3>2. L!Writers' = {t}
      BY <1>4, <1>a, <2>3, <3>1 DEF L!ExclusiveCas, L!none_latched, L!Goto, LatchPlaces, L!Writers
    <3>3. L!Readers = {}  BY <3>1, <1>0 DEF L!Readers, L!Counted
    <3>4. lflag' = WLatch  BY <1>4, <2>3 DEF L!ExclusiveCas, L!none_latched
    <3> QED  BY <1>0, <2>1, <2>2, <3>1, <3>2, <3>3, <3>4 DEF LatchInv, L!FlagExact, L!Exclusion
  <2>4. CASE lflag # 0
    <3>1. L!Writers' = L!Writers /\ lflag' = lflag
      BY <1>4, <1>a, <2>4 DEF L!ExclusiveCas, L!none_latched, L!Goto, LatchPlaces, L!Writers
    <3> QED  BY <1>a, <2>1, <2>2, <3>1 DEF LatchInv, L!FlagExact, L!Exclusion
  <2> QED  BY <2>3, <2>4
<1>5. ASSUME NEW t \in LatchThreads, L!UnlatchExclusive(t) PROVE LatchInv'
  <2>1. LatchPlaces'  BY <1>5, <1>a DEF L!UnlatchExclusive, L!Goto, LatchPlaces, L!PCs
  <2>2. t \in L!Writers  BY <1>5 DEF L!UnlatchExclusive, L!Writers
  <2>3. L!Writers' = {} /\ L!Readers' = L!Readers /\ L!Counted' = L!Counted
    BY <1>5, <1>a, <2>2 DEF L!UnlatchExclusive, L!Goto, LatchPlaces, L!Writers, L!Readers, L!Counted
  <2>4. lflag' = LatchCount
    <3>1. WLatch <= lflag /\ lflag - WLatch = LatchCount  BY <1>0, <1>c, <2>2
    <3> QED  BY <1>0, <1>5, <1>b, <3>1, FetchArithmetic DEF L!UnlatchExclusive
  <2> QED  BY <1>0, <2>1, <2>3, <2>4 DEF LatchInv, L!FlagExact, L!Exclusion
<1>6. CASE UNCHANGED L!vars
  BY <1>6, <1>a DEF L!vars, LatchInv, LatchPlaces, L!FlagExact, L!Exclusion, L!Writers, L!Readers, L!Counted
<1> QED  BY <1>1, <1>2, <1>3, <1>4, <1>5, <1>6 DEF L!Next, L!Step

\* The latch of the composition starts with the invariant ...
LEMMA LatchInitMC == ASSUME LatchAssumptions PROVE MCInit => LatchInv
BY LatchInit DEF MCInit

\* ... and every step of the composition keeps it.
LEMMA LatchStepMC == ASSUME LatchAssumptions PROVE LatchInv /\ [MCNext]_allvars => LatchInv'
<1>1. [MCNext]_allvars => [L!Next]_(L!vars)
  BY DEF MCNext, VersionNext, QueueNext, RWNext, LatchNext, Over, allvars, lvars, L!vars
<1> QED  BY <1>1, LatchStep

\* A writer holds the latch alone, for any number of threads: latch_exclusive
\* gets in from zero only, and a reader that has added itself and seen a writer
\* backs out (latch.h:72-74, 96-98).
THEOREM LatchExclusion == ASSUME LatchAssumptions PROVE MCSpec => []Exclusion
<1>1. LatchInv => Exclusion  BY DEF LatchInv, Exclusion
<1> QED  BY LatchInitMC, LatchStepMC, <1>1, PTL DEF MCSpec

\* flag_ is the writer bit plus the readers inside or backing out, for any
\* number of threads: no unlatch underflows, no reader is lost (latch.h:47).
THEOREM LatchFlagExact == ASSUME LatchAssumptions PROVE MCSpec => []FlagExact
<1>1. LatchInv => FlagExact  BY DEF LatchInv, FlagExact
<1> QED  BY LatchInitMC, LatchStepMC, <1>1, PTL DEF MCSpec

\* The word of the latch stays within one writer bit and one count per thread.
THEOREM LatchTypeOK == ASSUME LatchAssumptions PROVE MCSpec => []L!TypeOK
BY LatchInitMC, LatchStepMC, LatchWord, PTL DEF MCSpec
-----------------------------------------------------------------------------
(* The version locks *)

\* Where a thread is while it reads without the lock.
Reading == {"read_x", "read_y", "read", "cas"}

\* Nothing has been written since t remembered the word.
Fresh(t) == \/ code = version[t]
            \/ code = version[t] + kLockBit /\ \E u \in Threads : pc[u] = "locked"

\* The cells differ exactly while a holder is between its two writes.
CellsAgree == IF \E t \in Threads : pc[t] = "half" THEN x = y + 1 ELSE x = y

\* A reader remembers a word that was neither locked nor obsolete, no newer than now.
Remembered == \A t \in Threads : pc[t] \in Reading =>
                /\ version[t] <= code
                /\ ~isLocked(version[t]) /\ ~isObsolete(version[t])

\* As long as nothing has been written, what a reader has got is what the cells hold.
FreshReads == \A t \in Threads : Fresh(t) =>
                /\ pc[t] \in {"read_y", "read"} => rx[t] = x
                /\ pc[t] = "read" => ry[t] = y

\* writeUnlockObsolete clears the lock bit as it sets the other.
LockedIsNotObsolete == isLocked(code) => ~isObsolete(code)

\* The inductive invariant.
IInv == /\ TypeOK /\ OneHolder /\ LockedIsNotObsolete
        /\ CellsAgree /\ Remembered /\ FreshReads /\ ValidReadIsSnapshot

\* The word's arithmetic: raising the lock bit of a free word locks it, adding
\* it again or taking it back frees it, and two units leave the bit alone.
LEMMA LockArithmetic ==
  ASSUME NEW k \in {"OptLock", "VerLock"}, NEW c \in Nat
  PROVE  /\ LockBit(k) \in {1, 2}
         /\ ~LockedWord(k, c) => LockedWord(k, c + LockBit(k))
         /\ LockedWord(k, c) => ~LockedWord(k, c + LockBit(k))
         /\ LockedWord(k, c) => ~LockedWord(k, c - LockBit(k)) /\ c - LockBit(k) \in Nat
         /\ ObsoleteWord(k, c + LockBit(k)) <=> ObsoleteWord(k, c)
         /\ k = "OptLock" /\ LockedWord(k, c) /\ ~ObsoleteWord(k, c)
               => ~LockedWord(k, c + 3) /\ ObsoleteWord(k, c + 3)
         /\ k = "VerLock" => ~ObsoleteWord(k, c) /\ (LockedWord(k, c + 2) <=> LockedWord(k, c))
<1>1. CASE k = "OptLock"
  <2>1. LockBit(k) = 2  BY <1>1 DEF LockBit
  <2>2. \A d \in Nat : LockedWord(k, d) <=> (d \div 2) % 2 = 1  BY <2>1 DEF LockedWord
  <2>3. \A d \in Nat : ObsoleteWord(k, d) <=> d % 2 = 1  BY <1>1 DEF ObsoleteWord
  <2>4. /\ (c \div 2) % 2 # 1 => ((c + 2) \div 2) % 2 = 1
        /\ (c \div 2) % 2 = 1 => ((c + 2) \div 2) % 2 # 1
        /\ (c \div 2) % 2 = 1 => c >= 2 /\ ((c - 2) \div 2) % 2 # 1
        /\ (c + 2) % 2 = 1 <=> c % 2 = 1
        /\ (c \div 2) % 2 = 1 /\ c % 2 # 1 => ((c + 3) \div 2) % 2 # 1 /\ (c + 3) % 2 = 1
    OBVIOUS
  <2> QED  BY <1>1, <2>1, <2>2, <2>3, <2>4
<1>2. CASE k = "VerLock"
  <2>1. LockBit(k) = 1  BY <1>2 DEF LockBit
  <2>2. \A d \in Nat : LockedWord(k, d) <=> d % 2 = 1  BY <2>1 DEF LockedWord
  <2>3. \A d \in Nat : ~ObsoleteWord(k, d)  BY <1>2 DEF ObsoleteWord
  <2>4. /\ c % 2 # 1 => (c + 1) % 2 = 1
        /\ c % 2 = 1 => (c + 1) % 2 # 1
        /\ c % 2 = 1 => c >= 1 /\ (c - 1) % 2 # 1
        /\ (c + 2) % 2 = 1 <=> c % 2 = 1
    OBVIOUS
  <2> QED  BY <1>2, <2>1, <2>2, <2>3, <2>4
<1> QED  BY <1>1, <1>2

\* It holds of a new lock.
LEMMA InitInv == Init => IInv
<1> SUFFICES ASSUME Init PROVE IInv  OBVIOUS
<1>1. TypeOK  BY DEF Init, TypeOK, PCs, kInitCode
<1>2. ~isLocked(code) /\ ~isObsolete(code)
  <2>1. CASE kind = "OptLock"
    BY <2>1 DEF Init, isLocked, isObsolete, kInitCode, LockBit, LockedWord, ObsoleteWord
  <2>2. CASE kind = "VerLock"
    BY <2>2 DEF Init, isLocked, isObsolete, kInitCode, LockBit, LockedWord, ObsoleteWord
  <2> QED  BY <2>1, <2>2 DEF Init
<1>3. Holders = {}  BY DEF Init, Holders
<1> QED  BY <1>1, <1>2, <1>3 DEF Init, IInv, OneHolder, LockedIsNotObsolete, CellsAgree,
            Remembered, Reading, FreshReads, ValidReadIsSnapshot

\* Steps that change neither the word nor the cells nor who holds: the reader's.
LEMMA ReaderStep ==
  ASSUME IInv, NEW t \in Threads,
         readLock(t) \/ ReadX(t) \/ ReadY(t) \/ readUnlockOrRestart(t) \/ unlock_shared(t)
           \/ Leave(t) \/ lockLoad(t)
  PROVE  IInv'
<1> USE DEF isLocked, isObsolete, kLockBit
<1>1. /\ UNCHANGED <<kind, code, x, y>>
      /\ \A u \in Threads : u # t =>
           pc'[u] = pc[u] /\ version'[u] = version[u] /\ rx'[u] = rx[u] /\ ry'[u] = ry[u]
      /\ pc[t] \notin {"locked", "half", "done"} /\ pc'[t] \notin {"locked", "half", "done"}
  BY DEF IInv, TypeOK, readLock, ReadX, ReadY, readUnlockOrRestart, unlock_shared, Leave,
         lockLoad, Goto
<1>2. TypeOK'
  BY DEF IInv, TypeOK, PCs, readLock, ReadX, ReadY, readUnlockOrRestart, unlock_shared, Leave,
         lockLoad, Goto
<1>3. Holders' = Holders  BY <1>1 DEF Holders
<1>4. OneHolder' /\ LockedIsNotObsolete'
  BY <1>1, <1>3 DEF IInv, OneHolder, LockedIsNotObsolete
<1>5. CellsAgree'  BY <1>1 DEF IInv, CellsAgree
<1>6. Remembered'
  BY <1>1 DEF IInv, TypeOK, Remembered, Reading, readLock, ReadX, ReadY, readUnlockOrRestart,
              unlock_shared, Leave, lockLoad, Goto
<1>7. \A u \in Threads : pc'[u] = "locked" <=> pc[u] = "locked"  BY <1>1
<1>8. \A u \in Threads : version'[u] = version[u] => (Fresh(u)' <=> Fresh(u))
  BY <1>1, <1>7 DEF Fresh
<1>9. FreshReads'
  BY <1>1, <1>8 DEF IInv, TypeOK, FreshReads, readLock, ReadX, ReadY, readUnlockOrRestart,
              unlock_shared, Leave, lockLoad, Goto
<1>10. ValidReadIsSnapshot'
  <2> SUFFICES ASSUME NEW u \in Threads, pc'[u] = "valid" PROVE rx'[u] = ry'[u]
    BY DEF ValidReadIsSnapshot
  <2>1. CASE u # t  BY <1>1, <2>1 DEF IInv, ValidReadIsSnapshot
  <2>2. CASE u = t
    <3>1. pc[t] = "read" /\ code = version[t] /\ UNCHANGED <<rx, ry>>
      BY <2>2 DEF IInv, TypeOK, readLock, ReadX, ReadY, readUnlockOrRestart, unlock_shared, Leave,
                  lockLoad, Goto
    <3>2. rx[t] = x /\ ry[t] = y  BY <3>1 DEF IInv, FreshReads, Fresh
    <3>3. Holders = {}  BY <3>1 DEF IInv, OneHolder, Remembered, Reading
    <3>4. x = y  BY <3>3 DEF IInv, CellsAgree, Holders
    <3> QED  BY <2>2, <3>1, <3>2, <3>4
  <2> QED  BY <2>1, <2>2
<1> QED  BY <1>2, <1>4, <1>5, <1>6, <1>9, <1>10 DEF IInv

\* A failed exchange changes nothing but the thread's place; a successful one
\* starts from a free word, so nobody held, and makes its thread the holder.
LEMMA UpgradeStep ==
  ASSUME IInv, NEW t \in Threads, upgrade(t)
  PROVE  IInv'
<1> USE DEF isLocked, isObsolete, kLockBit
<1>0. kind \in {"OptLock", "VerLock"} /\ code \in Nat /\ version \in [Threads -> Nat]
  BY DEF IInv, TypeOK
<1>1. /\ UNCHANGED <<kind, version, x, y, rx, ry>>
      /\ \A u \in Threads : u # t => pc'[u] = pc[u]
      /\ pc[t] \in Reading
  BY DEF IInv, TypeOK, upgrade, Goto, Reading
<1>2. LockBit(kind) \in {1, 2}  BY <1>0, LockArithmetic
<1>3. TypeOK'  BY <1>2 DEF IInv, TypeOK, PCs, upgrade, Goto
<1>4. CASE code # version[t]
  <2>1. code' = code /\ pc'[t] = "idle"  BY <1>4 DEF IInv, TypeOK, upgrade, Goto
  <2>2. \A u \in Threads : pc'[u] \in {"locked", "half", "done"} => pc'[u] = pc[u]
    BY <1>1, <2>1
  <2>3. \A u \in Threads : pc[u] \in {"locked", "half", "done"} => pc'[u] = pc[u]
    BY <1>1 DEF Reading
  <2>4. Holders' = Holders  BY <2>2, <2>3 DEF Holders
  <2>5. OneHolder' /\ LockedIsNotObsolete'
    BY <1>1, <2>1, <2>4 DEF IInv, OneHolder, LockedIsNotObsolete
  <2>6. CellsAgree'  BY <1>1, <2>2, <2>3 DEF IInv, CellsAgree
  <2>7. Remembered'  BY <1>1, <2>1 DEF IInv, Remembered, Reading
  <2>8. FreshReads'  BY <1>1, <2>1, <2>2 DEF IInv, FreshReads, Fresh
  <2>9. ValidReadIsSnapshot'  BY <1>1, <2>1 DEF IInv, ValidReadIsSnapshot
  <2> QED  BY <1>3, <2>5, <2>6, <2>7, <2>8, <2>9 DEF IInv
<1>5. CASE code = version[t]
  <2>1. code' = code + LockBit(kind) /\ pc'[t] = "locked"
    BY <1>5 DEF IInv, TypeOK, upgrade, Goto
  <2>2. ~LockedWord(kind, code) /\ ~ObsoleteWord(kind, code)
    BY <1>1, <1>5 DEF IInv, Remembered
  <2>3. LockedWord(kind, code') /\ ~ObsoleteWord(kind, code')
    BY <1>0, <2>1, <2>2, LockArithmetic
  <2>4. Holders = {}  BY <2>2 DEF IInv, OneHolder
  <2>5. Holders' = {t}  BY <1>1, <2>1, <2>4 DEF Holders
  <2>6. OneHolder' /\ LockedIsNotObsolete'
    BY <1>1, <2>3, <2>5 DEF OneHolder, LockedIsNotObsolete
  <2>7. CellsAgree'  BY <1>1, <2>1, <2>4 DEF IInv, CellsAgree, Holders
  <2>8. Remembered'
    BY <1>0, <1>1, <1>2, <2>1 DEF IInv, Remembered, Reading
  <2>9. \A u \in Threads : u # t /\ pc[u] \in Reading => (Fresh(u)' => Fresh(u))
    BY <1>0, <1>1, <1>2, <2>1 DEF IInv, Remembered, Fresh
  <2>10. FreshReads'  BY <1>1, <2>1, <2>9 DEF IInv, FreshReads, Reading
  <2>11. ValidReadIsSnapshot'  BY <1>1, <2>1 DEF IInv, ValidReadIsSnapshot
  <2> QED  BY <1>3, <2>6, <2>7, <2>8, <2>10, <2>11 DEF IInv
<1> QED  BY <1>4, <1>5

\* A holder writes: its first write makes every remembered word stale.
LEMMA WriteStep ==
  ASSUME IInv, NEW t \in Threads, WriteX(t) \/ WriteY(t)
  PROVE  IInv'
<1> USE DEF isLocked, isObsolete, kLockBit
<1>0. /\ kind \in {"OptLock", "VerLock"} /\ code \in Nat /\ version \in [Threads -> Nat]
      /\ x \in Nat /\ y \in Nat
  BY DEF IInv, TypeOK
<1>1. /\ UNCHANGED <<kind, code, version, rx, ry>>
      /\ \A u \in Threads : u # t => pc'[u] = pc[u]
      /\ pc[t] \in {"locked", "half"} /\ pc'[t] \in {"half", "done"}
  BY DEF IInv, TypeOK, WriteX, WriteY, Goto
<1>2. TypeOK'  BY DEF IInv, TypeOK, PCs, WriteX, WriteY, Goto
<1>3. t \in Holders /\ Holders' = Holders  BY <1>1 DEF Holders
<1>4. OneHolder' /\ LockedIsNotObsolete'
  BY <1>1, <1>3 DEF IInv, OneHolder, LockedIsNotObsolete
<1>5. \A u \in Threads : u # t => pc[u] \notin {"locked", "half", "done"}
  BY <1>3 DEF IInv, OneHolder, Holders
<1>6. CellsAgree'
  <2>1. CASE WriteX(t)
    BY <1>0, <1>1, <1>5, <2>1 DEF IInv, TypeOK, CellsAgree, WriteX, Goto
  <2>2. CASE WriteY(t)
    BY <1>0, <1>1, <1>5, <2>2 DEF IInv, TypeOK, CellsAgree, WriteY, Goto
  <2> QED  BY <2>1, <2>2
<1>7. Remembered'  BY <1>1 DEF IInv, Remembered, Reading
<1>8. LockedWord(kind, code)  BY <1>3 DEF IInv, OneHolder
<1>9. \A u \in Threads : pc[u] \in Reading => ~Fresh(u)'
  BY <1>1, <1>5, <1>8 DEF IInv, Remembered, Fresh
<1>10. FreshReads'  BY <1>1, <1>9 DEF FreshReads, Reading
<1>11. ValidReadIsSnapshot'  BY <1>1 DEF IInv, ValidReadIsSnapshot
<1> QED  BY <1>2, <1>4, <1>6, <1>7, <1>10, <1>11 DEF IInv

\* A holder lets go.  Unless it has changed nothing and takes its bit back, the
\* word rises above every remembered one.
LEMMA UnlockStep ==
  ASSUME IInv, NEW t \in Threads, writeUnlock(t) \/ writeUnlockObsolete(t) \/ unlockUnchanged(t)
  PROVE  IInv'
<1> USE DEF isLocked, isObsolete, kLockBit
<1>0. kind \in {"OptLock", "VerLock"} /\ code \in Nat /\ version \in [Threads -> Nat]
  BY DEF IInv, TypeOK
<1>1. /\ UNCHANGED <<kind, version, x, y, rx, ry>>
      /\ \A u \in Threads : u # t => pc'[u] = pc[u]
      /\ pc[t] \in {"locked", "done"} /\ pc'[t] = "idle"
  BY DEF IInv, TypeOK, writeUnlock, writeUnlockObsolete, unlockUnchanged, Goto
<1>2. t \in Holders  BY <1>1 DEF Holders
<1>3. \A u \in Threads : u # t => pc[u] \notin {"locked", "half", "done"}
  BY <1>2 DEF IInv, OneHolder, Holders
<1>4. Holders' = {}  BY <1>1, <1>3 DEF Holders
<1>5. LockedWord(kind, code) /\ ~ObsoleteWord(kind, code)
  BY <1>2 DEF IInv, OneHolder, LockedIsNotObsolete
<1>6. code' \in Nat /\ ~LockedWord(kind, code')
  <2>1. CASE writeUnlock(t)  BY <1>0, <1>5, <2>1, LockArithmetic DEF writeUnlock
  <2>2. CASE writeUnlockObsolete(t)
    BY <1>0, <1>5, <2>2, LockArithmetic DEF writeUnlockObsolete
  <2>3. CASE unlockUnchanged(t)  BY <1>0, <1>5, <2>3, LockArithmetic DEF unlockUnchanged
  <2> QED  BY <2>1, <2>2, <2>3
<1>7. TypeOK'
  BY <1>6 DEF IInv, TypeOK, PCs, writeUnlock, writeUnlockObsolete, unlockUnchanged, Goto
<1>8. OneHolder' /\ LockedIsNotObsolete'
  BY <1>1, <1>4, <1>6 DEF OneHolder, LockedIsNotObsolete
<1>9. CellsAgree'  BY <1>1, <1>3 DEF IInv, CellsAgree
<1>10. \A u \in Threads : pc[u] \in Reading =>
         /\ version[u] <= code'
         /\ Fresh(u)' => Fresh(u)
  <2> SUFFICES ASSUME NEW u \in Threads, pc[u] \in Reading
               PROVE  version[u] <= code' /\ (Fresh(u)' => Fresh(u))
    OBVIOUS
  <2>1. version[u] <= code /\ version[u] # code /\ version[u] \in Nat
    BY <1>0, <1>5 DEF IInv, Remembered
  <2>2. Fresh(u)' <=> code' = version[u]  BY <1>1, <1>3 DEF Fresh
  <2>3. CASE unlockUnchanged(t)
    <3>1. kind = "VerLock" /\ LockBit(kind) = 1 /\ code' = code - 1 /\ pc[t] = "locked"
      BY <2>3 DEF unlockUnchanged, LockBit
    <3> QED  BY <1>0, <2>1, <2>2, <3>1 DEF Fresh
  <2>4. CASE writeUnlock(t) \/ writeUnlockObsolete(t)
    <3>1. LockBit(kind) \in {1, 2}  BY <1>0, LockArithmetic
    <3>2. code' > code  BY <1>0, <2>4, <3>1 DEF writeUnlock, writeUnlockObsolete
    <3> QED  BY <1>0, <1>6, <2>1, <2>2, <3>2
  <2> QED  BY <2>3, <2>4
<1>11. Remembered'  BY <1>1, <1>10 DEF IInv, Remembered, Reading
<1>12. FreshReads'  BY <1>1, <1>10 DEF IInv, FreshReads, Reading
<1>13. ValidReadIsSnapshot'  BY <1>1 DEF IInv, ValidReadIsSnapshot
<1> QED  BY <1>7, <1>8, <1>9, <1>11, <1>12, <1>13 DEF IInv

\* update_version raises the word by one version, locked or not.
LEMMA UpdateStep ==
  ASSUME IInv, NEW t \in Threads, update_version(t)
  PROVE  IInv'
<1> USE DEF isLocked, isObsolete, kLockBit
<1>0. kind \in {"OptLock", "VerLock"} /\ code \in Nat /\ version \in [Threads -> Nat]
  BY DEF IInv, TypeOK
<1>1. UNCHANGED <<kind, pc, version, x, y, rx, ry>> /\ kind = "VerLock" /\ code' = code + 2
  BY DEF update_version
<1>2. /\ LockBit(kind) = 1
      /\ LockedWord(kind, code') <=> LockedWord(kind, code)
      /\ ~ObsoleteWord(kind, code')
  BY <1>0, <1>1, LockArithmetic DEF LockBit
<1>3. TypeOK'  BY <1>1 DEF IInv, TypeOK
<1>4. Holders' = Holders  BY <1>1 DEF Holders
<1>5. OneHolder' /\ LockedIsNotObsolete'
  BY <1>1, <1>2, <1>4 DEF IInv, OneHolder, LockedIsNotObsolete
<1>6. CellsAgree' /\ ValidReadIsSnapshot'  BY <1>1 DEF IInv, CellsAgree, ValidReadIsSnapshot
<1>7. Remembered'  BY <1>0, <1>1 DEF IInv, Remembered, Reading
<1>8. \A u \in Threads : pc[u] \in Reading => ~Fresh(u)'
  BY <1>0, <1>1, <1>2 DEF IInv, Remembered, Fresh
<1>9. FreshReads'  BY <1>1, <1>8 DEF FreshReads, Reading
<1> QED  BY <1>3, <1>5, <1>6, <1>7, <1>9 DEF IInv

\* Every step keeps it.
LEMMA NextInv == IInv /\ [Next]_vars => IInv'
<1> SUFFICES ASSUME IInv, [Next]_vars PROVE IInv'  OBVIOUS
<1>1. CASE Next
  <2>1. PICK t \in Threads : Step(t)  BY <1>1 DEF Next
  <2> QED  BY <2>1, ReaderStep, UpgradeStep, WriteStep, UnlockStep, UpdateStep DEF Step
<1>2. CASE UNCHANGED vars
  BY <1>2 DEF vars, IInv, TypeOK, OneHolder, Holders, LockedIsNotObsolete, CellsAgree, Remembered,
              FreshReads, Fresh, ValidReadIsSnapshot, isLocked, isObsolete, kLockBit
<1> QED  BY <1>1, <1>2

\* It holds of every reachable state.
LEMMA Invariant == Spec => []IInv
BY InitInv, NextInv, PTL DEF Spec

\* One writer at a time, and the lock bit of the word says whether there is
\* one (BTreeOLC.h:40-51, util/lock.h:121-148), for any number of threads.
THEOREM HolderIsAlone == Spec => []OneHolder
<1>1. IInv => OneHolder  BY DEF IInv
<1> QED  BY <1>1, Invariant, PTL

\* A read that the version check lets through saw both cells of one version,
\* whatever happened between the reads, for any number of threads and versions.
THEOREM ValidatedReads == Spec => []ValidReadIsSnapshot
<1>1. IInv => ValidReadIsSnapshot  BY DEF IInv
<1> QED  BY <1>1, Invariant, PTL

\* A reader that upgrades holds the lock over the cells it has read
\* (BTreeOLC.h:40-47).
THEOREM UpgradesKeepReads == Spec => UpgradeKeepsRead
<1>1. IInv /\ [Next]_vars =>
        [\A t \in Threads : (pc[t] = "read" /\ pc'[t] = "locked") => rx[t] = x /\ ry[t] = y]_vars
  <2> SUFFICES ASSUME IInv, Next, NEW t \in Threads, pc[t] = "read", pc'[t] = "locked"
               PROVE  rx[t] = x /\ ry[t] = y
    BY DEF vars
  <2>1. PICK u \in Threads : Step(u)  BY DEF Next
  <2>2. upgrade(t) /\ code = version[t]
    BY <2>1 DEF IInv, TypeOK, Step, readLock, ReadX, ReadY, readUnlockOrRestart, unlock_shared,
         Leave, lockLoad, upgrade, WriteX, WriteY, writeUnlock, writeUnlockObsolete,
         unlockUnchanged, update_version, Goto
  <2> QED  BY <2>2 DEF IInv, FreshReads, Fresh
<1> QED  BY <1>1, Invariant, PTL DEF Spec, UpgradeKeepsRead

\* Once a holder has unlocked the word as obsolete nothing changes any more
\* and no reader is let through (BTreeOLC.h:20-27, 65-67).
THEOREM ObsoleteStays == Spec => ObsoleteIsFinal
<1>1. IInv /\ [Next]_vars =>
        [isObsolete(code) => /\ code' = code /\ x' = x /\ y' = y
                             /\ \A t \in Threads : pc'[t] = "valid" => pc[t] = "valid"]_vars
  <2> SUFFICES ASSUME IInv, Next, isObsolete(code)
               PROVE  /\ code' = code /\ x' = x /\ y' = y
                      /\ \A t \in Threads : pc'[t] = "valid" => pc[t] = "valid"
    BY DEF vars
  <2>1. PICK u \in Threads : Step(u)  BY DEF Next
  <2>2. kind = "OptLock"  BY DEF isObsolete, ObsoleteWord
  <2>3. \A t \in Threads : pc[t] \notin {"locked", "half", "done"}
    BY DEF IInv, LockedIsNotObsolete, OneHolder, Holders
  <2>4. \A t \in Threads : pc[t] \in Reading => code # version[t]
    BY DEF IInv, Remembered
  <2> QED
    BY <2>1, <2>2, <2>3, <2>4
       DEF IInv, TypeOK, Step, readLock, ReadX, ReadY, readUnlockOrRestart, unlock_shared,
         Leave, lockLoad, upgrade, WriteX, WriteY, writeUnlock, writeUnlockObsolete,
         unlockUnchanged, update_version, Goto, Reading
<1> QED  BY <1>1, Invariant, PTL DEF Spec, ObsoleteIsFinal

\* The other locks of the composition leave the version lock alone: it is one
\* of the version locks above, and what they guarantee holds of it.
THEOREM VersionLockBeside == MCSpec => Spec
<1>1. MCInit => Init  BY DEF MCInit
<1>2. [MCNext]_allvars => [Next]_vars
  BY DEF MCNext, VersionNext, QueueNext, RWNext, LatchNext, Over, allvars
<1> QED  BY <1>1, <1>2, PTL DEF MCSpec, Spec
-----------------------------------------------------------------------------
(* The queue locks *)

\* The theorems about the queue lock, for the one of the composition.
QP == INSTANCE QueueLockProofs
        WITH NoThread <- 0, Calls <- QueueCalls, kLockedBit <- 100,
             UpgradeOpen <- Upgrades, kind <- qkind, tail <- qtail, th <- qth

\* 0 is no thread, and clients upgrade only what they read of a free lock.
QueueAssumptions == 0 \notin Threads /\ QueueCalls \in Nat /\ ~Upgrades

\* The queue lock of the composition starts with its invariant ...
LEMMA QueueInit == ASSUME QueueAssumptions PROVE MCInit => QP!IInv
BY QP!InitInv
DEF QueueAssumptions, MCInit, Q!Init, QP!Init, Q!Free, QP!Free, Q!Outside, QP!Outside,
    Q!kInvalidVersion, QP!kInvalidVersion

\* A step of the composition is a step of the queue lock or leaves it alone.
LEMMA QueueStep == [MCNext]_allvars => [QP!Next]_(QP!vars)
<1> SUFFICES ASSUME [MCNext]_allvars PROVE [QP!Next]_(QP!vars)  OBVIOUS
<1>1. CASE QueueNext
  BY <1>1
  DEF QueueNext, Q!Next, QP!Next, Q!Step, QP!Step, Q!Exchange, QP!Exchange, Q!Link, QP!Link, Q!Granted,
      QP!Granted, Q!CloseToReaders, QP!CloseToReaders, Q!Write, QP!Write, Q!Unlock, QP!Unlock,
      Q!UnlockLast, QP!UnlockLast, Q!OpenToReaders, QP!OpenToReaders, Q!AwaitNext, QP!AwaitNext, Q!Grant,
      QP!Grant, Q!begin_read, QP!begin_read, Q!Read, QP!Read, Q!validate_read, QP!validate_read, Q!Leave,
      QP!Leave, Q!TryLock, QP!TryLock, Q!TryLockMCS, QP!TryLockMCS, Q!TryCas, QP!TryCas, Q!Call, QP!Call,
      Q!Goto, QP!Goto, Q!Load, QP!Load, Q!Return, QP!Return, Q!Outside, QP!Outside, Q!Free, QP!Free,
      Q!Released, QP!Released, Q!make_qnode_ptr, QP!make_qnode_ptr, Q!has_locked_bit, QP!has_locked_bit,
      Q!kInvalidVersion, QP!kInvalidVersion, Q!kVersionStride, QP!kVersionStride, Q!AsVersion,
      QP!AsVersion, Q!next_version, QP!next_version, Q!op_read, QP!op_read
<1>2. CASE VersionNext \/ RWNext \/ LatchNext  BY <1>2 DEF VersionNext, RWNext, LatchNext, qvars, QP!vars
<1>3. CASE Over \/ UNCHANGED allvars  BY <1>3 DEF Over, allvars, qvars, QP!vars
<1> QED  BY <1>1, <1>2, <1>3 DEF MCNext

\* ... and keeps it.
LEMMA QueueInv == ASSUME QueueAssumptions PROVE QP!IInv /\ [MCNext]_allvars => QP!IInv'
BY QueueStep, QP!StepInv DEF QueueAssumptions, QP!Assumptions

\* In every mix of joining, linking, granting and giving back, the threads
\* hold a queue lock one at a time and in the order in which they exchanged
\* its tail (OMCSImpl.h:297-417, MCS.h:69-125).
THEOREM QueueLockOrder == ASSUME QueueAssumptions PROVE MCSpec => []HeldInQueueOrder
<1>1. MCInit => QP!IInv  BY QueueInit
<1>2. QP!IInv => HeldInQueueOrder
  BY QP!InvImplies DEF HeldInQueueOrder, Q!HeldInQueueOrder, QP!HeldInQueueOrder, Q!Holders, QP!Holders,
                       Q!Holding, QP!Holding
<1>3. QP!IInv /\ [MCNext]_allvars => QP!IInv'  BY QueueInv
<1> QED  BY <1>1, <1>2, <1>3, PTL DEF MCSpec

\* What a thread validates after reading beside a queue lock is one version,
\* also when it began on a tail that was open to readers while the lock was
\* passed on, and a try_lock that succeeds finds the cells as they were read
\* (OMCSImpl.h:330-370, 386-410, 442-448).
THEOREM QueueLockReads == ASSUME QueueAssumptions PROVE MCSpec => QueueReads
<1>1. MCInit => QP!IInv  BY QueueInit
<1>2. QP!IInv => Q!TypeOK /\ Q!ValidReadIsSnapshot
  BY QP!InvImplies DEF Q!TypeOK, QP!TypeOK, Q!ValidReadIsSnapshot, QP!ValidReadIsSnapshot,
                       Q!has_locked_bit, QP!has_locked_bit
<1>3. QP!IInv /\ [MCNext]_allvars => QP!IInv'  BY QueueInv
<1>4. QP!IInv /\ [MCNext]_allvars =>
        [\A t \in Threads : (qth[t].pc = "try_cas" /\ qth'[t].pc = "locked" /\ qkind # "mcs")
                               => qth[t].got = cell]_(Q!vars)
  BY QueueStep, QP!UpgradeStep DEF QueueAssumptions, QP!Assumptions, Q!vars, QP!vars
<1> QED  BY <1>1, <1>2, <1>3, <1>4, PTL DEF MCSpec, QueueReads, Q!UpgradeKeepsRead
-----------------------------------------------------------------------------
(* The reader-writer locks *)

\* The theorems about the reader-writer locks, for the one of the composition.
RP == INSTANCE RWQueueLockProofs
        WITH Calls <- RWCalls, Reuse <- ReuseNodes, Wrap <- 4, kind <- rkind,
             tail <- rtail, flag <- rflag, qnode <- rnode, pc <- rpc

\* There are finitely many threads, and each call brings a queue node of its own.
RWAssumptions == IsFiniteSet(Threads) /\ RWCalls \in Nat /\ ~ReuseNodes

\* Sets of threads have sizes, since there are finitely many threads.
LEMMA ThreadsCount == ASSUME RWAssumptions PROVE RP!Sizes
<1>1. \A S : RP!Cardinality(S) = Cardinality(S)  BY DEF RP!Cardinality, Cardinality
<1>2. ASSUME NEW S \in SUBSET Threads
      PROVE  /\ Cardinality(S) \in Nat /\ (Cardinality(S) = 0 <=> S = {})
             /\ \A t \in Threads \ S : Cardinality(S \cup {t}) = Cardinality(S) + 1
             /\ \A t \in S : Cardinality(S \ {t}) = Cardinality(S) - 1
  <2>1. IsFiniteSet(S)  BY FS_Subset DEF RWAssumptions
  <2> QED  BY <2>1, FS_CardinalityType, FS_EmptySet, FS_AddElement, FS_RemoveElement
<1> QED  BY <1>1, <1>2 DEF RP!Sizes

\* The reader-writer lock of the composition starts with its invariant ...
LEMMA RWInit == ASSUME RWAssumptions PROVE MCInit => RP!IInv
<1>1. RP!Assumptions  BY ThreadsCount DEF RWAssumptions, RP!Assumptions
<1>2. MCInit => RP!Init
  BY DEF MCInit, R!Init, RP!Init, R!Nodes, RP!Nodes, R!Node, RP!Node, R!kNullPtr, RP!kNullPtr
<1> QED  BY <1>1, <1>2, RP!InitIInv

\* A step of the composition is a step of the reader-writer lock or leaves it
\* alone.
LEMMA RWStep == [MCNext]_allvars => [RP!Next]_(RP!vars)
<1> SUFFICES ASSUME [MCNext]_allvars PROVE [RP!Next]_(RP!vars)  OBVIOUS
<1>1. CASE RWNext
  <2>1. PICK t \in Threads : R!Step(t)  BY <1>1 DEF RWNext, R!Next
  <2>2. SUFFICES RP!Step(t)  BY DEF RP!Next
  <2>3. CASE R!WriteExchange(t) \/ R!WriteAnnounce(t) \/ R!WriteCount(t) \/ R!WriteClaim(t) \/ R!WriteClass(t)
            \/ R!WriteLink(t) \/ R!WriteGranted(t) \/ R!WriteUnlock(t) \/ R!WritePass(t) \/ R!WriteWake(t)
    BY <2>3
    DEF RP!Step, R!WriteExchange, RP!WriteExchange, R!WriteAnnounce, RP!WriteAnnounce, R!WriteCount,
    RP!WriteCount, R!WriteClaim, RP!WriteClaim, R!WriteClass, RP!WriteClass, R!WriteLink, RP!WriteLink,
    R!WriteGranted, RP!WriteGranted, R!WriteUnlock, RP!WriteUnlock, R!WritePass, RP!WritePass, R!WriteWake,
    RP!WriteWake, R!Join, RP!Join, R!NewNode, RP!NewNode, R!Node, RP!Node, R!Goto, RP!Goto, R!Hand, RP!Hand,
    R!unblock, RP!unblock, R!kNullPtr, RP!kNullPtr, R!central, RP!central, R!queued, RP!queued, R!Leaving,
    RP!Leaving, R!Passing, RP!Passing
  <2>4. CASE R!LeaveTail(t) \/ R!AwaitNext(t) \/ R!ReadExchange(t) \/ R!ReadLook(t) \/ R!ReadLink(t) \/
            R!ReadGranted(t) \/ R!ReadCount(t) \/ R!ReadFollow(t) \/ R!ReadUnblock(t) \/ R!ReadIn(t) \/
            R!ReadAdmit(t)
    BY <2>4
    DEF RP!Step, R!LeaveTail, RP!LeaveTail, R!AwaitNext, RP!AwaitNext, R!ReadExchange, RP!ReadExchange,
    R!ReadLook, RP!ReadLook, R!ReadLink, RP!ReadLink, R!ReadGranted, RP!ReadGranted, R!ReadCount,
    RP!ReadCount, R!ReadFollow, RP!ReadFollow, R!ReadUnblock, RP!ReadUnblock, R!ReadIn, RP!ReadIn,
    R!ReadAdmit, RP!ReadAdmit, R!Join, RP!Join, R!NewNode, RP!NewNode, R!Node, RP!Node, R!Goto, RP!Goto,
    R!Hand, RP!Hand, R!unblock, RP!unblock, R!kNullPtr, RP!kNullPtr, R!central, RP!central, R!queued,
    RP!queued, R!Leaving, RP!Leaving, R!Passing, RP!Passing
  <2>5. CASE R!ReadWake(t) \/ R!ReadUnlock(t) \/ R!ReadPass(t) \/ R!ReadExit(t) \/ R!ExitLoad(t) \/
            R!ExitCount(t) \/ R!ExitClaim(t) \/ R!ExitWake(t)
    BY <2>5
    DEF RP!Step, R!ReadWake, RP!ReadWake, R!ReadUnlock, RP!ReadUnlock, R!ReadPass, RP!ReadPass, R!ReadExit,
    RP!ReadExit, R!ExitLoad, RP!ExitLoad, R!ExitCount, RP!ExitCount, R!ExitClaim, RP!ExitClaim, R!ExitWake,
    RP!ExitWake, R!Join, RP!Join, R!NewNode, RP!NewNode, R!Node, RP!Node, R!Goto, RP!Goto, R!Hand, RP!Hand,
    R!unblock, RP!unblock, R!kNullPtr, RP!kNullPtr, R!central, RP!central, R!queued, RP!queued, R!Leaving,
    RP!Leaving, R!Passing, RP!Passing
  <2>6. CASE R!Request(t) \/ R!AwaitTurn(t) \/ R!TakeFlag(t) \/ R!DropFlag(t) \/ R!Complete(t) \/
            R!LoadRequests(t) \/ R!LoadCompletions(t) \/ R!AddReader(t) \/ R!AwaitNoWriter(t) \/
            R!SubReader(t)
    BY <2>6
    DEF RP!Step, R!Request, RP!Request, R!AwaitTurn, RP!AwaitTurn, R!TakeFlag, RP!TakeFlag, R!DropFlag,
    RP!DropFlag, R!Complete, RP!Complete, R!LoadRequests, RP!LoadRequests, R!LoadCompletions,
    RP!LoadCompletions, R!AddReader, RP!AddReader, R!AwaitNoWriter, RP!AwaitNoWriter, R!SubReader,
    RP!SubReader, R!Join, RP!Join, R!NewNode, RP!NewNode, R!Node, RP!Node, R!Goto, RP!Goto, R!Hand, RP!Hand,
    R!unblock, RP!unblock, R!kNullPtr, RP!kNullPtr, R!central, RP!central, R!queued, RP!queued, R!Leaving,
    RP!Leaving, R!Passing, RP!Passing
  <2> QED  BY <2>1, <2>3, <2>4, <2>5, <2>6 DEF R!Step
<1>2. CASE VersionNext \/ QueueNext \/ LatchNext
  BY <1>2 DEF VersionNext, QueueNext, LatchNext, rvars, RP!vars, RP!queued, RP!central
<1>3. CASE Over \/ UNCHANGED allvars  BY <1>3 DEF Over, allvars, rvars, RP!vars, RP!queued, RP!central
<1> QED  BY <1>1, <1>2, <1>3 DEF MCNext

\* In every mix of readers and writers that join, link, count, claim, wake and
\* leave, a writer is alone: in each of the three builds, for any number of
\* threads and calls, each call with a queue node of its own
\* (MCSRW.h:271-278, 305-313, 336-358, 386-395).
THEOREM RWLockExclusion == ASSUME RWAssumptions PROVE MCSpec => []WriterIsAlone
<1>1. MCInit => RP!IInv  BY RWInit
<1>2. RP!IInv => WriterIsAlone
  <2>1. \A S : R!Cardinality(S) = RP!Cardinality(S)  BY DEF R!Cardinality, RP!Cardinality
  <2> QED
    BY <2>1, RP!InvAlone
    DEF WriterIsAlone, R!WriterIsAlone, RP!WriterIsAlone, R!Writers, RP!Writers, R!Readers, RP!Readers
<1>3. RP!IInv /\ [MCNext]_allvars => RP!IInv'  BY RWStep, RP!StepIInv
<1> QED  BY <1>1, <1>2, <1>3, PTL DEF MCSpec
=============================================================================
