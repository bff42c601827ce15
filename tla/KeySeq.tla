------------------------------- MODULE KeySeq -------------------------------
(***************************************************************************)
(* What the trees do with sequences of keys and links.  All but Place have *)
(* the names and meanings of module SequencesExt, whose many other         *)
(* definitions would slow down the proofs about the trees.                 *)
(***************************************************************************)
EXTENDS Integers, Sequences, FiniteSetsExt

Last(s) == s[Len(s)]
Front(s) == SubSeq(s, 1, Len(s) - 1)
ToSet(s) == {s[i] : i \in DOMAIN s}
InsertAt(s, i, e) == SubSeq(s, 1, i - 1) \o <<e>> \o SubSeq(s, i, Len(s))

\* The place of the first element not below k, or the one behind the last.
Place(s, k) == Min({i \in 1 .. Len(s) + 1 : i <= Len(s) => s[i] >= k})
=============================================================================
