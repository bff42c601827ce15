------------------------------ MODULE MCEpoch ------------------------------
(* Small instances of Epoch. *)
EXTENDS Epoch, TLC
CONSTANTS t1, t2, t3, b1, b2, b3
One == {t1}
Two == {t1, t2}
Three == {t1, t2, t3}
TwoBlocks == {b1, b2}
ThreeBlocks == {b1, b2, b3}
Symmetry == Permutations(Three) \cup Permutations(ThreeBlocks)

\* For liveness: one thread takes blocks out, and what the others hold, which
\* no step but Reach and endop looks at, is left out.
LiveNext == /\ Next
            /\ \A t \in Threads : held'[t] = {} /\ (t # t1 => unlinked'[t] = {} /\ doomed'[t] = {})
LiveSpec == Init /\ [][LiveNext]_vars /\ Fairness
=============================================================================
