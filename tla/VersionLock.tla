---------------------------- MODULE VersionLock ----------------------------
(***************************************************************************)
(* The optimistic version locks: OptLock of BTreeOLC_child_layout.h, which *)
(* is also the lock word of every ARTOLC node (N.cpp), and VerLock of      *)
(* util/lock.h.  Both keep a lock bit below a version in one atomic word.  *)
(* A reader remembers the word, reads without a lock and looks at the word *)
(* again; a writer raises the lock bit by a compare-and-exchange and gives *)
(* it back by an addition that carries into the version.                   *)
(*                                                                         *)
(* The threads are clients that read or write two cells, x and y, which    *)
(* only a holder changes and which are equal whenever nobody holds.        *)
(***************************************************************************)
EXTENDS Integers

CONSTANTS Threads,   \* the threads that share the lock
          MaxVersion \* bound: nobody starts to write above this version

VARIABLES kind,      \* which of the two locks
          code,      \* typeVersionLockObsolete, or code_ in units of kLockBit
          pc,        \* where each thread is
          version,   \* the word each thread has remembered
          x, y,      \* the cells the lock protects
          rx, ry     \* what each thread has read of them

vars == <<kind, code, pc, version, x, y, rx, ry>>

PCs == {"idle", "read_x", "read_y", "read",  \* between read lock and check
        "valid",                             \* the check has succeeded
        "cas", "locked", "half", "done"}     \* a writer

\* The two layouts: version above lock above obsolete, version above lock.
LockBit(k) == IF k = "OptLock" THEN 2 ELSE 1
LockedWord(k, c) == (c \div LockBit(k)) % 2 = 1
ObsoleteWord(k, c) == k = "OptLock" /\ c % 2 = 1

kLockBit == LockBit(kind)
kInitCode == IF kind = "OptLock" THEN 4 ELSE 0
isLocked(c) == LockedWord(kind, c)
isObsolete(c) == ObsoleteWord(kind, c)
\* versions since the first
Version(c) == (c - kInitCode) \div (2 * kLockBit)

Goto(t, l) == pc' = [pc EXCEPT ![t] = l]

Init == /\ kind \in {"OptLock", "VerLock"}
        /\ code = kInitCode
        /\ pc = [t \in Threads |-> "idle"]
        /\ version = [t \in Threads |-> 0]
        /\ x = 0 /\ y = 0
        /\ rx = [t \in Threads |-> 0] /\ ry = [t \in Threads |-> 0]
-----------------------------------------------------------------------------
\* a read lock that does not look at the lock bit
readLockBlind(t) ==
  /\ pc[t] = "idle" /\ ~isObsolete(code)
  /\ version' = [version EXCEPT ![t] = code]
  /\ Goto(t, "read_x")
  /\ UNCHANGED <<kind, code, x, y, rx, ry>>

\* readLockOrRestart, lock_shared: remember the word once it is free.  OptLock
\* restarts the caller and VerLock spins; either way the thread is back here.
readLock(t) ==
  /\ pc[t] = "idle" /\ ~isLocked(code) /\ ~isObsolete(code)
  /\ version' = [version EXCEPT ![t] = code]
  /\ Goto(t, "read_x")
  /\ UNCHANGED <<kind, code, x, y, rx, ry>>

ReadX(t) == /\ pc[t] = "read_x"
            /\ rx' = [rx EXCEPT ![t] = x]
            /\ Goto(t, "read_y")
            /\ UNCHANGED <<kind, code, version, x, y, ry>>

ReadY(t) == /\ pc[t] = "read_y"
            /\ ry' = [ry EXCEPT ![t] = y]
            /\ Goto(t, "read")
            /\ UNCHANGED <<kind, code, version, x, y, rx>>

\* readUnlockOrRestart: the word must not have changed at all.
readUnlockOrRestart(t) ==
  /\ pc[t] = "read" /\ kind = "OptLock"
  /\ Goto(t, IF code = version[t] THEN "valid" ELSE "idle")
  /\ UNCHANGED <<kind, code, version, x, y, rx, ry>>

\* unlock_shared: wait for a writer to leave, then compare the version.
unlock_shared(t) ==
  /\ pc[t] = "read" /\ kind = "VerLock" /\ ~isLocked(code)
  /\ Goto(t, IF code = version[t] THEN "valid" ELSE "idle")
  /\ UNCHANGED <<kind, code, version, x, y, rx, ry>>

\* The reader uses what it has read and goes away.
Leave(t) == /\ pc[t] = "valid"
            /\ Goto(t, "idle")
            /\ UNCHANGED <<kind, code, version, x, y, rx, ry>>

\* lock_exclusive, and writeLockOrRestart: load a free word to exchange.
lockLoad(t) ==
  /\ pc[t] = "idle" /\ ~isLocked(code) /\ ~isObsolete(code)
  /\ Version(code) < MaxVersion
  /\ version' = [version EXCEPT ![t] = code]
  /\ Goto(t, "cas")
  /\ UNCHANGED <<kind, code, x, y, rx, ry>>

\* a store of the locked word where the code compares and exchanges
upgradeStore(t) ==
  /\ \/ pc[t] = "cas"
     \/ pc[t] = "read" /\ kind = "OptLock" /\ Version(version[t]) < MaxVersion
  /\ code' = version[t] + kLockBit
  /\ Goto(t, "locked")
  /\ UNCHANGED <<kind, version, x, y, rx, ry>>

\* upgradeToWriteLockOrRestart, by a thread that has read the cells or by one
\* that wants only to write, and the exchange of lock_exclusive.
upgrade(t) ==
  /\ \/ pc[t] = "cas"
     \/ pc[t] = "read" /\ kind = "OptLock" /\ Version(version[t]) < MaxVersion
  /\ IF code = version[t]
     THEN code' = code + kLockBit /\ Goto(t, "locked")
     ELSE UNCHANGED code /\ Goto(t, "idle")
  /\ UNCHANGED <<kind, version, x, y, rx, ry>>

WriteX(t) == /\ pc[t] = "locked"
             /\ x' = x + 1
             /\ Goto(t, "half")
             /\ UNCHANGED <<kind, code, version, y, rx, ry>>

WriteY(t) == /\ pc[t] = "half"
             /\ y' = y + 1
             /\ Goto(t, "done")
             /\ UNCHANGED <<kind, code, version, x, rx, ry>>

\* writeUnlock that only takes the lock bit back
unlockSub(t) ==
  /\ pc[t] \in {"locked", "done"}
  /\ code' = code - kLockBit
  /\ Goto(t, "idle")
  /\ UNCHANGED <<kind, version, x, y, rx, ry>>

\* writeUnlock, unlock_exclusive(true): the carry is the next version.
writeUnlock(t) ==
  /\ pc[t] \in {"locked", "done"}
  /\ code' = code + kLockBit
  /\ Goto(t, "idle")
  /\ UNCHANGED <<kind, version, x, y, rx, ry>>

\* writeUnlockObsolete: the holder has taken the node out of the tree.
writeUnlockObsolete(t) ==
  /\ pc[t] \in {"locked", "done"} /\ kind = "OptLock"
  /\ code' = code + 3
  /\ Goto(t, "idle")
  /\ UNCHANGED <<kind, version, x, y, rx, ry>>

\* unlock_exclusive(false) is for a holder that has changed nothing.
unlockUnchanged(t) ==
  /\ pc[t] = "locked" /\ kind = "VerLock"
  /\ code' = code - kLockBit
  /\ Goto(t, "idle")
  /\ UNCHANGED <<kind, version, x, y, rx, ry>>

\* update_version, which takes no lock and may come in under another's.
update_version(t) ==
  /\ pc[t] = "idle" /\ kind = "VerLock" /\ Version(code) < MaxVersion
  /\ code' = code + 2
  /\ UNCHANGED <<kind, pc, version, x, y, rx, ry>>

Step(t) == \/ readLock(t) \/ ReadX(t) \/ ReadY(t)
           \/ readUnlockOrRestart(t) \/ unlock_shared(t) \/ Leave(t)
           \/ lockLoad(t) \/ upgrade(t) \/ WriteX(t) \/ WriteY(t)
           \/ writeUnlock(t) \/ writeUnlockObsolete(t)
           \/ unlockUnchanged(t) \/ update_version(t)

Next == \E t \in Threads : Step(t)

Spec == Init /\ [][Next]_vars
-----------------------------------------------------------------------------
Holders == {t \in Threads : pc[t] \in {"locked", "half", "done"}}

\* The word never falls below what the locks start with, and a thread has
\* remembered a word the lock once held.
TypeOK == /\ kind \in {"OptLock", "VerLock"}
          /\ code \in Nat
          /\ pc \in [Threads -> PCs]
          /\ version \in [Threads -> Nat]
          /\ x \in Nat /\ y \in Nat
          /\ rx \in [Threads -> Nat] /\ ry \in [Threads -> Nat]

\* One writer at a time, and the lock bit says whether there is one: an
\* addition in place of an exchange never carries a bit too far
\* (BTreeOLC_child_layout.h:42-62, util/lock.h:127-154).
OneHolder == /\ \A t, u \in Holders : t = u
             /\ isLocked(code) <=> Holders # {}

\* A read the check has let through saw both cells of one version, however
\* many writers came and went between the two reads (BTreeOLC_child_layout.h:32-40,
\* 68-74, util/lock.h:160-192).
ValidReadIsSnapshot == \A t \in Threads : pc[t] = "valid" => rx[t] = ry[t]

\* A reader that gets the lock by upgrading still knows the cells: nobody has
\* written since it read them (BTreeOLC_child_layout.h:51-58).
UpgradeKeepsRead == [][\A t \in Threads :
                         (pc[t] = "read" /\ pc'[t] = "locked") => rx[t] = x /\ ry[t] = y]_vars

\* A node that was unlocked as obsolete is never written or validated again:
\* no later reader gets past the read lock (BTreeOLC_child_layout.h:32-40, 76-78).
ObsoleteIsFinal == [][isObsolete(code) =>
                        /\ code' = code /\ x' = x /\ y' = y
                        /\ \A t \in Threads : pc'[t] = "valid" => pc[t] = "valid"]_vars
=============================================================================
