---------------------------- MODULE ByteStrings ----------------------------
(* Keys as sequences of bytes, and what memcmp, compare and common_prefix of  *)
(* util/strutil.h say of two of them.                                         *)
EXTENDS Integers, Sequences, SequencesExt, FiniteSetsExt

\* common_prefix: the length of the longest common prefix.
common_prefix(s, t) ==
  CHOOSE n \in 0 .. Len(s) : /\ n <= Len(t) /\ SubSeq(s, 1, n) = SubSeq(t, 1, n)
                             /\ n < Len(s) /\ n < Len(t) => s[n + 1] # t[n + 1]

\* compare: the bytes decide, then the length.
Below(s, t) == LET n == common_prefix(s, t)
               IN n < Len(t) /\ (n < Len(s) => s[n + 1] < t[n + 1])
compare(s, t) == IF s = t THEN 0 ELSE IF Below(s, t) THEN -1 ELSE 1

\* How many of the keys of a set are below k, and the greatest of them.
Rank(S, k) == Cardinality({s \in S : Below(s, k)})
Greatest(S) == CHOOSE s \in S : \A t \in S : ~ Below(s, t)
=============================================================================
