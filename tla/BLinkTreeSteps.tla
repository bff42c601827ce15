--------------------------- MODULE BLinkTreeSteps ---------------------------
(***************************************************************************)
(* Proofs about the lock-based B-link-tree, part 1: sequences of keys, what *)
(* holds of every step, and that the invariant survives a step that makes  *)
(* a new root (Raised) and one that adds an entry to a node (Grows).       *)
(***************************************************************************)
EXTENDS BLinkTreeInvariant, TLAPS
-----------------------------------------------------------------------------
(* Sequences of keys *)

\* A sequence with something in it has a length above zero.
LEMMA NonEmpty ==
  ASSUME NEW T, NEW s \in Seq(T), s # <<>>
  PROVE  Len(s) \in Nat \ {0}
OBVIOUS

\* A sequence over a set is one over a larger set.
LEMMA Widened ==
  ASSUME NEW S, NEW T, NEW s \in Seq(S), S \subseteq T
  PROVE  s \in Seq(T)
OBVIOUS

\* A sequence with one element replaced.
LEMMA Replaced ==
  ASSUME NEW T, NEW s \in Seq(T), NEW i \in 1 .. Len(s), NEW e \in T
  PROVE  LET r == [s EXCEPT ![i] = e] IN
         /\ r \in Seq(T) /\ Len(r) = Len(s) /\ r[i] = e
         /\ \A j \in 1 .. Len(s) : j # i => r[j] = s[j]
OBVIOUS

\* Two sequences, one behind the other.
LEMMA Joined ==
  ASSUME NEW T, NEW s \in Seq(T), NEW r \in Seq(T)
  PROVE  /\ s \o r \in Seq(T) /\ Len(s \o r) = Len(s) + Len(r)
         /\ \A i \in 1 .. Len(s) : (s \o r)[i] = s[i]
         /\ \A i \in 1 .. Len(r) : (s \o r)[Len(s) + i] = r[i]
         /\ r = <<>> => s \o r = s
OBVIOUS

\* A stretch of a sequence; nothing if it ends before it begins.
LEMMA Sliced ==
  ASSUME NEW T, NEW s, NEW a \in Int, NEW b \in Int, \A i \in a .. b : s[i] \in T
  PROVE  /\ SubSeq(s, a, b) \in Seq(T)
         /\ Len(SubSeq(s, a, b)) = IF a <= b THEN b - a + 1 ELSE 0
         /\ \A i \in 1 .. b - a + 1 : SubSeq(s, a, b)[i] = s[a + i - 1]
         /\ a > b => SubSeq(s, a, b) = <<>>
OBVIOUS

\* The first element, and the rest.
LEMMA FirstAndRest ==
  ASSUME NEW T, NEW s \in Seq(T), s # <<>>
  PROVE  Head(s) \in T /\ Tail(s) \in Seq(T)
OBVIOUS

\* A sequence and one element behind it ...
LEMMA Added ==
  ASSUME NEW T, NEW s \in Seq(T), NEW e \in T
  PROVE  /\ Append(s, e) \in Seq(T) /\ Append(s, e) # <<>> /\ Len(Append(s, e)) = Len(s) + 1
         /\ \A i \in 1 .. Len(s) : Append(s, e)[i] = s[i]
         /\ Append(s, e)[Len(s) + 1] = e
OBVIOUS

\* ... however it is written.
LEMMA OneMore ==
  ASSUME NEW T, NEW s \in Seq(T), NEW e \in T
  PROVE  /\ s \o <<e>> \in Seq(T) /\ Len(s \o <<e>>) = Len(s) + 1 /\ (s \o <<e>>)[Len(s) + 1] = e
         /\ \A i \in 1 .. Len(s) : (s \o <<e>>)[i] = s[i]
<1>1. s \o <<e>> = Append(s, e)  OBVIOUS
<1> QED  BY <1>1, Added

\* The lesser of two numbers.
LEMMA LeastOfTwo ==
  ASSUME NEW a \in Int, NEW b \in Int
  PROVE  Min({a, b}) = IF a <= b THEN a ELSE b
<1>1. CASE a <= b
  <2>1. \E x \in {a, b} : \A y \in {a, b} : x <= y  BY <1>1
  <2> QED  BY <1>1, <2>1 DEF Min
<1>2. CASE ~ (a <= b)
  <2>1. \E x \in {a, b} : \A y \in {a, b} : x <= y  BY <1>2
  <2> QED  BY <1>2, <2>1 DEF Min
<1> QED  BY <1>1, <1>2

\* A sequence is its front and its last element.
LEMMA FrontLast ==
  ASSUME NEW T, NEW s \in Seq(T), s # <<>>
  PROVE  /\ Len(s) \in Nat \ {0} /\ Last(s) = s[Len(s)] /\ Last(s) \in T
         /\ Front(s) \in Seq(T) /\ Len(Front(s)) = Len(s) - 1 /\ DOMAIN Front(s) = 1 .. Len(s) - 1
         /\ \A i \in 1 .. Len(s) - 1 : Front(s)[i] = s[i]
<1>1. Len(s) \in Nat \ {0}  BY NonEmpty
<1>2. \A i \in 1 .. Len(s) - 1 : s[i] \in T  BY <1>1
<1>3. Front(s) \in Seq(T) /\ Len(Front(s)) = Len(s) - 1 /\ \A i \in 1 .. Len(s) - 1 : Front(s)[i] = s[i]
  <2> DEFINE m == Len(s) - 1
  <2>0. \A l \in Nat \ {0} : /\ l - 1 \in Nat /\ (l - 1) - 1 + 1 = l - 1 /\ (1 <= l - 1 \/ l - 1 = 0)
                              /\ \A i \in 1 .. l - 1 : 1 + i - 1 = i
    OBVIOUS
  <2>1. m \in Nat /\ m - 1 + 1 = m /\ (1 <= m \/ m = 0) /\ \A i \in 1 .. m : 1 + i - 1 = i  BY <1>1, <2>0, Zenon
  <2>2. /\ SubSeq(s, 1, m) \in Seq(T) /\ Len(SubSeq(s, 1, m)) = IF 1 <= m THEN m - 1 + 1 ELSE 0
        /\ \A i \in 1 .. m - 1 + 1 : SubSeq(s, 1, m)[i] = s[1 + i - 1]
    BY <1>2, <2>1, Sliced
  <2>3. Front(s) = SubSeq(s, 1, m)  BY DEF Front
  <2> HIDE DEF m
  <2>4. Front(s) \in Seq(T) /\ Len(Front(s)) = m /\ \A i \in 1 .. m : Front(s)[i] = s[i]  BY <2>1, <2>2, <2>3
  <2> QED  BY <2>4 DEF m
<1> QED  BY <1>1, <1>3 DEF Last

\* What InsertAt makes of a sequence.
LEMMA Inserted ==
  ASSUME NEW T, NEW s \in Seq(T), NEW i \in 1 .. Len(s) + 1, NEW e \in T
  PROVE  /\ InsertAt(s, i, e) \in Seq(T)
         /\ Len(InsertAt(s, i, e)) = Len(s) + 1
         /\ InsertAt(s, i, e)[i] = e
         /\ \A j \in 1 .. i - 1 : InsertAt(s, i, e)[j] = s[j]
         /\ \A j \in i + 1 .. Len(s) + 1 : InsertAt(s, i, e)[j] = s[j - 1]
<1> DEFINE a == SubSeq(s, 1, i - 1)
           b == SubSeq(s, i, Len(s))
<1>1. Len(s) \in Nat /\ i \in Nat  OBVIOUS
<1>2. a \in Seq(T) /\ Len(a) = i - 1 /\ \A j \in 1 .. i - 1 : a[j] = s[j]
  BY <1>1, Sliced
<1>3. b \in Seq(T) /\ Len(b) = Len(s) - i + 1 /\ \A j \in 1 .. Len(s) - i + 1 : b[j] = s[i + j - 1]
  BY <1>1, Sliced
<1>4. InsertAt(s, i, e) = (a \o <<e>>) \o b  BY DEF InsertAt
<1> HIDE DEF a, b
<1>5. a \o <<e>> \in Seq(T) /\ Len(a \o <<e>>) = i /\ \A j \in 1 .. i : (a \o <<e>>)[j] = IF j < i THEN s[j] ELSE e
  BY <1>1, <1>2
<1>6. DEFINE c == a \o <<e>>
<1>7. c \in Seq(T) /\ Len(c) = i /\ \A j \in 1 .. i : c[j] = IF j < i THEN s[j] ELSE e  BY <1>5
<1>8. InsertAt(s, i, e) = c \o b  BY <1>4
<1> HIDE DEF c
<1>9. c \o b \in Seq(T) /\ Len(c \o b) = Len(s) + 1
  <2>1. c \o b \in Seq(T) /\ Len(c \o b) = Len(c) + Len(b)  BY <1>3, <1>7, Joined, Zenon
  <2> QED  BY <2>1, <1>1, <1>3, <1>7
<1>10. \A j \in 1 .. Len(s) + 1 : j <= i => (c \o b)[j] = c[j]  BY <1>1, <1>3, <1>7
<1>11. \A j \in 1 .. Len(s) + 1 : j > i => (c \o b)[j] = s[j - 1]
  <2> SUFFICES ASSUME NEW j \in 1 .. Len(s) + 1, j > i PROVE (c \o b)[j] = s[j - 1]  BY Zenon
  <2>1. (c \o b)[j] = b[j - i]  BY <1>1, <1>3, <1>7
  <2>2. j - i \in 1 .. Len(s) - i + 1 /\ i + (j - i) - 1 = j - 1  BY <1>1
  <2> QED  BY <2>1, <2>2, <1>3
<1> QED  BY <1>1, <1>7, <1>8, <1>9, <1>10, <1>11

\* A sequence with one element more.
LEMMA Appended ==
  ASSUME NEW T, NEW s \in Seq(T), NEW e \in T
  PROVE  /\ Append(s, e) \in Seq(T) /\ DOMAIN Append(s, e) = 1 .. Len(s) + 1
         /\ Append(s, e)[Len(s) + 1] = e
         /\ \A i \in 1 .. Len(s) : Append(s, e)[i] = s[i]
         /\ \A i \in DOMAIN Append(s, e) : i \in DOMAIN s \/ i = Len(s) + 1
<1>1. /\ Append(s, e) \in Seq(T) /\ Len(Append(s, e)) = Len(s) + 1 /\ Append(s, e)[Len(s) + 1] = e
      /\ \A i \in 1 .. Len(s) : Append(s, e)[i] = s[i]
  BY Added
<1>2. Len(s) \in Nat /\ DOMAIN s = 1 .. Len(s)  OBVIOUS
<1>3. DOMAIN Append(s, e) = 1 .. Len(s) + 1  BY <1>1
<1>4. \A l \in Nat : \A i \in 1 .. l + 1 : i \in 1 .. l \/ i = l + 1  OBVIOUS
<1>5. \A i \in DOMAIN Append(s, e) : i \in DOMAIN s \/ i = Len(s) + 1  BY <1>2, <1>3, <1>4, Zenon
<1> QED  BY <1>1, <1>3, <1>5

\* InsertAt with a key.
LEMMA InsertedKey ==
  ASSUME NEW s \in Seq(Nat), NEW i \in 1 .. Len(s) + 1, NEW e \in Nat
  PROVE  /\ InsertAt(s, i, e) \in Seq(Nat)
         /\ Len(InsertAt(s, i, e)) = Len(s) + 1
         /\ InsertAt(s, i, e)[i] = e
         /\ \A j \in 1 .. i - 1 : InsertAt(s, i, e)[j] = s[j]
         /\ \A j \in i + 1 .. Len(s) + 1 : InsertAt(s, i, e)[j] = s[j - 1]
<1>1. PICK T : T = Nat  OBVIOUS
<1>2. s \in Seq(T) /\ e \in T  BY <1>1
<1>3. \A j \in 1 .. i - 1 : InsertAt(s, i, e)[j] = s[j]  BY <1>2, Inserted
<1>4. \A j \in i + 1 .. Len(s) + 1 : InsertAt(s, i, e)[j] = s[j - 1]  BY <1>2, Inserted
<1>5. InsertAt(s, i, e) \in Seq(T) /\ Len(InsertAt(s, i, e)) = Len(s) + 1 /\ InsertAt(s, i, e)[i] = e  BY <1>2, Inserted
<1> QED  BY <1>1, <1>3, <1>4, <1>5, Zenon

\* A key that goes to its place keeps the order, and what is not below the
\* last element does not become the last one.
LEMMA PlacedInOrder ==
  ASSUME PlaceIsFirst, NEW s \in Seq(Nat), NEW k \in Nat, \A i, j \in DOMAIN s : i < j => s[i] <= s[j]
  PROVE  LET r == InsertAt(s, Place(s, k), k) IN
         /\ \A i, j \in DOMAIN r : i < j => r[i] <= r[j]
         /\ /\ \A i, j \in DOMAIN s : i < j => s[i] < s[j]
            /\ ~ (Place(s, k) <= Len(s) /\ s[Place(s, k)] = k)
            => \A i, j \in DOMAIN r : i < j => r[i] < r[j]
         /\ s # <<>> /\ k <= Last(s) => Last(r) = Last(s)
<1> DEFINE p == Place(s, k)
           L == Len(s)
           r == InsertAt(s, p, k)
<1>1. /\ p \in 1 .. L + 1 /\ (p <= L => s[p] >= k) /\ \A i \in 1 .. L : i < p => s[i] < k
      /\ L \in Nat /\ DOMAIN s = 1 .. L /\ \A i \in 1 .. L : s[i] \in Nat
  <2>1. L \in Nat /\ DOMAIN s = 1 .. L /\ \A i \in 1 .. L : s[i] \in Nat  OBVIOUS
  <2>2. /\ p \in 1 .. Len(s) + 1 /\ (p <= Len(s) => s[p] >= k) /\ \A i \in 1 .. Len(s) : i < p => s[i] < k
    BY Zenon DEF PlaceIsFirst
  <2> QED  BY <2>1, <2>2, Zenon
<1>2. /\ r \in Seq(Nat) /\ Len(r) = L + 1
      /\ r[p] = k
      /\ \A j \in 1 .. p - 1 : r[j] = s[j]
      /\ \A j \in p + 1 .. L + 1 : r[j] = s[j - 1]
  <2>1. p \in 1 .. Len(s) + 1  BY <1>1
  <2> HIDE DEF p
  <2>2. InsertAt(s, p, k) \in Seq(Nat) /\ Len(InsertAt(s, p, k)) = Len(s) + 1 /\ InsertAt(s, p, k)[p] = k  BY <2>1, InsertedKey
  <2>3. \A j \in 1 .. p - 1 : InsertAt(s, p, k)[j] = s[j]  BY <2>1, InsertedKey
  <2>4. \A j \in p + 1 .. Len(s) + 1 : InsertAt(s, p, k)[j] = s[j - 1]  BY <2>1, InsertedKey
  <2> QED  BY <2>2, <2>3, <2>4, Zenon
<1>3. DOMAIN r = 1 .. L + 1  BY <1>1, <1>2
<1> HIDE DEF p, L, r
<1>4. /\ \A j \in 1 .. L + 1 : j < p => r[j] = s[j] /\ j \in 1 .. L
      /\ r[p] = k /\ p \in Nat
      /\ \A j \in 1 .. L + 1 : j > p => r[j] = s[j - 1] /\ j - 1 \in 1 .. L /\ j - 1 >= p
  BY <1>1, <1>2
<1>5. \A i, j \in 1 .. L : i <= j => s[i] <= s[j]  BY <1>1
<1>6. ASSUME NEW i \in DOMAIN r, NEW j \in DOMAIN r, i < j PROVE r[i] <= r[j]
  <2>0. i \in 1 .. L + 1 /\ j \in 1 .. L + 1 /\ i \in Nat /\ j \in Nat  BY <1>1, <1>3
  <2>1. CASE j < p  BY <1>1, <1>4, <1>5, <1>6, <2>0, <2>1
  <2>2. CASE j = p  BY <1>1, <1>4, <1>6, <2>0, <2>2
  <2>3. CASE j > p /\ i < p
    <3>1. i \in 1 .. L /\ j - 1 \in 1 .. L /\ i <= j - 1 /\ r[i] = s[i] /\ r[j] = s[j - 1]  BY <1>4, <2>0, <2>3
    <3> QED  BY <1>5, <3>1
  <2>4. CASE j > p /\ i = p
    <3>1. j - 1 \in 1 .. L /\ p <= j - 1 /\ r[i] = k /\ r[j] = s[j - 1]  BY <1>4, <2>0, <2>4
    <3>2. p \in 1 .. L /\ p <= L  BY <1>1, <3>1
    <3>3. s[p] >= k /\ s[p] <= s[j - 1]  BY <1>1, <1>5, <3>1, <3>2
    <3> QED  BY <1>1, <3>1, <3>2, <3>3
  <2>5. CASE j > p /\ i > p
    <3>1. i - 1 \in 1 .. L /\ j - 1 \in 1 .. L /\ i - 1 <= j - 1 /\ r[i] = s[i - 1] /\ r[j] = s[j - 1]
      BY <1>4, <1>6, <2>0, <2>5
    <3> QED  BY <1>5, <3>1
  <2> QED  BY <1>4, <2>0, <2>1, <2>2, <2>3, <2>4, <2>5
<1>7. ASSUME \A i, j \in DOMAIN s : i < j => s[i] < s[j], ~ (p <= L /\ s[p] = k),
             NEW i \in DOMAIN r, NEW j \in DOMAIN r, i < j
      PROVE  r[i] < r[j]
  <2>0. i \in 1 .. L + 1 /\ j \in 1 .. L + 1 /\ i \in Nat /\ j \in Nat  BY <1>1, <1>3
  <2>1. CASE j < p  BY <1>1, <1>4, <1>7, <2>0, <2>1
  <2>2. CASE j = p  BY <1>1, <1>4, <1>7, <2>0, <2>2
  <2>3. CASE j > p /\ i < p
    <3>1. i \in 1 .. L /\ j - 1 \in 1 .. L /\ i < j - 1 /\ r[i] = s[i] /\ r[j] = s[j - 1]  BY <1>4, <2>0, <2>3
    <3> QED  BY <1>1, <1>7, <3>1
  <2>4. CASE j > p /\ i = p
    <3>1. j - 1 \in 1 .. L /\ p <= j - 1 /\ r[i] = k /\ r[j] = s[j - 1]  BY <1>4, <2>0, <2>4
    <3>2. p \in 1 .. L /\ p <= L  BY <1>1, <3>1
    <3>3. s[p] > k /\ s[p] <= s[j - 1]  BY <1>1, <1>5, <1>7, <3>1, <3>2
    <3> QED  BY <1>1, <3>1, <3>2, <3>3
  <2>5. CASE j > p /\ i > p
    <3>1. i - 1 \in 1 .. L /\ j - 1 \in 1 .. L /\ i - 1 < j - 1 /\ r[i] = s[i - 1] /\ r[j] = s[j - 1]
      BY <1>4, <1>7, <2>0, <2>5
    <3> QED  BY <1>1, <1>7, <3>1
  <2> QED  BY <1>4, <2>0, <2>1, <2>2, <2>3, <2>4, <2>5
<1>8. ASSUME s # <<>>, k <= Last(s) PROVE Last(r) = Last(s)
  <2>1. L \in 1 .. L /\ Last(s) = s[L]
    <3>1. L \in Nat \ {0} /\ Last(s) = s[L]  BY <1>8, FrontLast, Zenon DEF L
    <3> QED  BY <3>1
  <2>2. p <= L
    <3> SUFFICES ASSUME ~ (p <= L) PROVE FALSE  OBVIOUS
    <3>1. L < p  BY <1>1
    <3>2. s[L] < k  BY <1>1, <2>1, <3>1
    <3> QED  BY <1>1, <1>8, <2>1, <3>2
  <2>3. L + 1 > p /\ L + 1 \in 1 .. L + 1 /\ (L + 1) - 1 = L  BY <1>1, <2>2
  <2>4. r[L + 1] = s[L]  BY <1>4, <2>3
  <2>5. Last(r) = r[L + 1]  BY <1>2 DEF Last
  <2> QED  BY <2>1, <2>4, <2>5
<1> QED  BY <1>6, <1>7, <1>8 DEF p, L, r

\* The elements of a sequence with one more.
LEMMA InsertedSet ==
  ASSUME NEW T, NEW s \in Seq(T), NEW i \in 1 .. Len(s) + 1, NEW e \in T
  PROVE  ToSet(InsertAt(s, i, e)) = ToSet(s) \cup {e}
<1> DEFINE r == InsertAt(s, i, e)
           L == Len(s)
<1>1. /\ r \in Seq(T) /\ Len(r) = L + 1
      /\ r[i] = e
      /\ \A j \in 1 .. i - 1 : r[j] = s[j]
      /\ \A j \in i + 1 .. L + 1 : r[j] = s[j - 1]
  <2>1. InsertAt(s, i, e) \in Seq(T)  BY Inserted
  <2>2. Len(InsertAt(s, i, e)) = Len(s) + 1  BY Inserted
  <2>3. InsertAt(s, i, e)[i] = e  BY Inserted
  <2>4. \A j \in 1 .. i - 1 : InsertAt(s, i, e)[j] = s[j]  BY Inserted
  <2>5. \A j \in i + 1 .. Len(s) + 1 : InsertAt(s, i, e)[j] = s[j - 1]  BY Inserted
  <2> QED  BY <2>1, <2>2, <2>3, <2>4, <2>5, Zenon
<1>2. L \in Nat /\ DOMAIN s = 1 .. L /\ DOMAIN r = 1 .. L + 1 /\ i \in 1 .. L + 1  BY <1>1
<1> HIDE DEF r, L
<1>3. ASSUME NEW j \in 1 .. L + 1 PROVE r[j] = e \/ \E m \in 1 .. L : r[j] = s[m]
  <2>1. CASE j < i  BY <1>1, <1>2, <2>1
  <2>2. CASE j = i  BY <1>1, <1>2, <2>2
  <2>3. CASE j > i
    <3>1. j - 1 \in 1 .. L /\ r[j] = s[j - 1]  BY <1>1, <1>2, <2>3
    <3> QED  BY <3>1
  <2> QED  BY <1>2, <2>1, <2>2, <2>3
<1>4. \E j \in 1 .. L + 1 : r[j] = e  BY <1>1, <1>2
<1>5. ASSUME NEW m \in 1 .. L PROVE \E j \in 1 .. L + 1 : r[j] = s[m]
  <2>1. CASE m < i  BY <1>1, <1>2, <2>1
  <2>2. CASE ~ (m < i)
    <3>1. m + 1 \in 1 .. L + 1 /\ m + 1 > i /\ (m + 1) - 1 = m  BY <1>2, <2>2
    <3>2. r[m + 1] = s[m]  BY <1>1, <1>2, <3>1
    <3> QED  BY <3>1, <3>2
  <2> QED  BY <2>1, <2>2
<1>6. ToSet(r) = {r[j] : j \in 1 .. L + 1} /\ ToSet(s) = {s[j] : j \in 1 .. L}  BY <1>2 DEF ToSet
<1>7. ToSet(r) = ToSet(s) \cup {e}  BY <1>3, <1>4, <1>5, <1>6
<1> QED  BY <1>7 DEF r

\* A sequence is cut in two, behind its element at cut.
LEMMA Halves ==
  ASSUME NEW T, NEW s \in Seq(T), NEW cut \in 1 .. Len(s) - 1
  PROVE  LET l == SubSeq(s, 1, cut)
             r == SubSeq(s, cut + 1, Len(s)) IN
         /\ l \in Seq(T) /\ Len(l) = cut /\ DOMAIN l = 1 .. cut /\ l # <<>> /\ Last(l) = s[cut]
         /\ r \in Seq(T) /\ Len(r) = Len(s) - cut /\ DOMAIN r = 1 .. Len(s) - cut /\ r # <<>> /\ Last(r) = Last(s)
         /\ \A j \in 1 .. cut : l[j] = s[j]
         /\ \A j \in 1 .. Len(s) - cut : r[j] = s[cut + j]
         /\ ToSet(l) \cup ToSet(r) = ToSet(s)
<1> DEFINE l == SubSeq(s, 1, cut)
           r == SubSeq(s, cut + 1, Len(s))
           L == Len(s)
<1>1. L \in Nat /\ cut \in Nat /\ cut >= 1 /\ cut < L /\ DOMAIN s = 1 .. L
  <2>1. L \in Nat /\ cut \in 1 .. L - 1 /\ DOMAIN s = 1 .. L  OBVIOUS
  <2> HIDE DEF L
  <2> QED  BY <2>1
<1>2. l \in Seq(T) /\ Len(l) = cut /\ \A j \in 1 .. cut : l[j] = s[j]
  BY <1>1, Sliced
<1>3. r \in Seq(T) /\ Len(r) = L - cut /\ \A j \in 1 .. L - cut : r[j] = s[cut + j]
  <2>1. cut + 1 \in 1 .. L + 1 /\ L - (cut + 1) + 1 = L - cut /\ L \in (cut + 1) - 1 .. L  BY <1>1
  <2>2. /\ r \in Seq(T) /\ Len(r) = L - (cut + 1) + 1
        /\ \A j \in 1 .. L - (cut + 1) + 1 : r[j] = s[(cut + 1) + j - 1]
    BY <1>1, <2>1, Sliced
  <2> HIDE DEF r, L
  <2>3. \A j \in 1 .. L - cut : (cut + 1) + j - 1 = cut + j  BY <1>1
  <2> QED  BY <2>1, <2>2, <2>3
<1>4. DOMAIN l = 1 .. cut /\ DOMAIN r = 1 .. L - cut  BY <1>2, <1>3
<1>5. l # <<>> /\ r # <<>>
  <2>1. Len(<<>>) = 0  OBVIOUS
  <2> HIDE DEF l, r, L
  <2>2. Len(l) # 0 /\ Len(r) # 0  BY <1>1, <1>2, <1>3
  <2> QED  BY <2>1, <2>2, Zenon
<1>6. Last(l) = s[cut] /\ Last(r) = Last(s)
  <2>0. Last(s) = s[L]  BY DEF Last
  <2> HIDE DEF l, r, L
  <2>1. cut \in 1 .. cut /\ L - cut \in 1 .. L - cut /\ cut + (L - cut) = L  BY <1>1
  <2> QED  BY <1>2, <1>3, <2>0, <2>1 DEF Last
<1>7. ToSet(l) \cup ToSet(r) = ToSet(s)
  <2> HIDE DEF l, r, L
  <2>1. ToSet(l) = {l[j] : j \in 1 .. cut} /\ ToSet(r) = {r[j] : j \in 1 .. L - cut} /\ ToSet(s) = {s[j] : j \in 1 .. L}
    BY <1>1, <1>4 DEF ToSet
  <2>2. ASSUME NEW j \in 1 .. L PROVE s[j] \in ToSet(l) \cup ToSet(r)
    <3>1. CASE j <= cut
      <4>1. j \in 1 .. cut  BY <1>1, <3>1
      <4> QED  BY <1>2, <2>1, <4>1
    <3>2. CASE ~ (j <= cut)
      <4>1. j - cut \in 1 .. L - cut /\ cut + (j - cut) = j  BY <1>1, <3>2
      <4>2. r[j - cut] = s[j]  BY <1>3, <4>1
      <4> QED  BY <2>1, <4>1, <4>2
    <3> QED  BY <3>1, <3>2
  <2>3. ASSUME NEW j \in 1 .. cut PROVE l[j] \in ToSet(s)
    <3>1. j \in 1 .. L  BY <1>1
    <3> QED  BY <1>2, <2>1, <3>1
  <2>4. ASSUME NEW j \in 1 .. L - cut PROVE r[j] \in ToSet(s)
    <3>1. cut + j \in 1 .. L  BY <1>1
    <3> QED  BY <1>3, <2>1, <3>1
  <2>5. ToSet(s) \subseteq ToSet(l) \cup ToSet(r)  BY <2>1, <2>2
  <2>6. ToSet(l) \subseteq ToSet(s) /\ ToSet(r) \subseteq ToSet(s)  BY <2>1, <2>3, <2>4
  <2> QED  BY <2>5, <2>6
<1> HIDE DEF l, r
<1>8. /\ l \in Seq(T) /\ Len(l) = cut /\ DOMAIN l = 1 .. cut /\ l # <<>> /\ Last(l) = s[cut]
      /\ r \in Seq(T) /\ Len(r) = Len(s) - cut /\ DOMAIN r = 1 .. Len(s) - cut /\ r # <<>> /\ Last(r) = Last(s)
      /\ \A j \in 1 .. cut : l[j] = s[j]
      /\ \A j \in 1 .. Len(s) - cut : r[j] = s[cut + j]
      /\ ToSet(l) \cup ToSet(r) = ToSet(s)
  BY <1>2, <1>3, <1>4, <1>5, <1>6, <1>7, Zenon
<1> QED  BY <1>8, Zenon DEF l, r
-----------------------------------------------------------------------------
(* What holds of every step *)

\* A step writes the registers of its own thread only.
LEMMA Others ==
  ASSUME NEW t \in Threads, Step(t), NEW u \in Threads \ {t}, Types
  PROVE  th'[u] = th[u]
<1>1. \A r : Reg(t, r) => th'[u] = th[u]  BY DEF Reg, Types
<1>2. CASE Begin(t)  BY <1>1, <1>2 DEF Begin
<1>3. CASE Descend(t)  BY <1>1, <1>3 DEF Descend
<1>4. CASE LatchLeaf(t) \/ MoveRight(t) \/ LatchSibling(t) \/ UnlatchLeft(t)
  BY <1>1, <1>4 DEF LatchLeaf, MoveRight, LatchSibling, UnlatchLeft, Go
<1>5. CASE FoundOrNot(t) \/ InsertRefused(t) \/ InsertKey(t)
  BY <1>1, <1>5 DEF FoundOrNot, InsertRefused, InsertKey, Go
<1>6. CASE NewRoot(t) \/ PopPath(t) \/ TrackUpper(t) \/ LatchUpper(t) \/ LatchUpperSibling(t)
  BY <1>1, <1>6, Zenon DEF NewRoot, PopPath, TrackUpper, LatchUpper, LatchUpperSibling, Go
<1>7. CASE UnlatchUpper(t) \/ UnlatchChild(t) \/ InsertChild(t) \/ UnlatchLast(t)
  BY <1>1, <1>7 DEF UnlatchUpper, UnlatchChild, InsertChild, UnlatchLast, Go
<1>8. CASE ScanEmpty(t) \/ ScanStart(t) \/ ScanLeaf(t) \/ ScanNext(t) \/ ScanEnd(t) \/ Release(t) \/ Return(t)
  BY <1>1, <1>8 DEF ScanEmpty, ScanStart, ScanLeaf, ScanNext, ScanEnd, Release, Return, Go
<1> QED  BY <1>2, <1>3, <1>4, <1>5, <1>6, <1>7, <1>8 DEF Step

\* Facts about the nodes in the form the proofs below use them.
LEMMA NodeFacts ==
  ASSUME Types
  PROVE  /\ NodeIds = 1 .. Len(node) /\ Len(node) \in Nat /\ DOMAIN latch = NodeIds
         /\ \A n \in NodeIds : /\ node[n] \in Nodes /\ latch[n] \in Latches
                               /\ node[n].leaf \in BOOLEAN /\ node[n].keys \in Seq(Keys) /\ node[n].keys \in Seq(Nat)
                               /\ node[n].kids \in Seq(Nat) /\ node[n].sib \in Nat /\ node[n].upper \in Nat
                               /\ DOMAIN node[n].keys = 1 .. Len(node[n].keys) /\ Len(node[n].keys) \in Nat
                               /\ DOMAIN node[n].kids = 1 .. Len(node[n].kids) /\ Len(node[n].kids) \in Nat
                               /\ node[n].keys # <<>> => Len(node[n].keys) > 0 /\ Last(node[n].keys) \in Keys
                               /\ latch[n].excl \in Threads \cup {nullptr} /\ latch[n].shared \in SUBSET Threads
<1>1. NodeIds = 1 .. Len(node) /\ Len(node) \in Nat /\ DOMAIN latch = NodeIds
  BY DEF Types, NodeIds
<1>2. \A n \in NodeIds : node[n] \in Nodes /\ latch[n] \in Latches  BY <1>1 DEF Types
<1> SUFFICES ASSUME NEW n \in NodeIds
             PROVE  /\ node[n].leaf \in BOOLEAN /\ node[n].keys \in Seq(Keys) /\ node[n].keys \in Seq(Nat)
                    /\ node[n].kids \in Seq(Nat) /\ node[n].sib \in Nat /\ node[n].upper \in Nat
                    /\ DOMAIN node[n].keys = 1 .. Len(node[n].keys) /\ Len(node[n].keys) \in Nat
                    /\ DOMAIN node[n].kids = 1 .. Len(node[n].kids) /\ Len(node[n].kids) \in Nat
                    /\ node[n].keys # <<>> => Len(node[n].keys) > 0 /\ Last(node[n].keys) \in Keys
                    /\ latch[n].excl \in Threads \cup {nullptr} /\ latch[n].shared \in SUBSET Threads
  BY <1>1, <1>2
<1>3. /\ node[n].leaf \in BOOLEAN /\ node[n].keys \in Seq(Keys) /\ node[n].kids \in Seq(Nat)
      /\ node[n].sib \in Nat /\ node[n].upper \in Nat
  BY <1>2 DEF Nodes
<1>4. node[n].keys \in Seq(Nat)  BY <1>3, BLinkTreeAssumption, Widened, Zenon
<1>5. latch[n].excl \in Threads \cup {nullptr} /\ latch[n].shared \in SUBSET Threads  BY <1>2 DEF Latches
<1>6. node[n].keys # <<>> => Len(node[n].keys) > 0 /\ Last(node[n].keys) \in Keys
  <2> HAVE node[n].keys # <<>>
  <2>1. Len(node[n].keys) \in Nat \ {0}  BY <1>3, NonEmpty
  <2> QED  BY <1>3, <2>1 DEF Last
<1> QED  BY <1>3, <1>4, <1>5, <1>6

\* A link is null or names a node.
LEMMA LinksAre ==
  ASSUME Types
  PROVE  Links = NodeIds \cup {nullptr} /\ nullptr \notin NodeIds
<1>1. NodeIds = 1 .. Len(node) /\ Len(node) \in Nat  BY NodeFacts
<1> QED  BY <1>1 DEF nullptr, Links

\* The types of the registers of one thread.
LEMMA RegisterFacts ==
  ASSUME Types, NEW u \in Threads
  PROVE  /\ th[u] \in Registers
         /\ th[u].pc \in Labels /\ th[u].op \in {"Insert", "Update", "Search", "none"} \cup Scans
         /\ th[u].key \in Nat /\ th[u].arg \in Nat /\ th[u].done \in Nat
         /\ th[u].cur \in Nat /\ th[u].work \in Nat /\ th[u].new \in Nat
         /\ th[u].path \in Seq(Nat) /\ th[u].stack \in Seq(Nat) /\ th[u].pairs \in Seq(Keys)
         /\ th[u].ret \in BOOLEAN
         /\ DOMAIN th[u].path = 1 .. Len(th[u].path) /\ Len(th[u].path) \in Nat
         /\ DOMAIN th[u].stack = 1 .. Len(th[u].stack) /\ Len(th[u].stack) \in Nat
<1>1. th[u] \in Registers  BY DEF Types
<1>2. /\ th[u].pc \in Labels /\ th[u].op \in {"Insert", "Update", "Search", "none"} \cup Scans
      /\ th[u].key \in Nat /\ th[u].arg \in Nat /\ th[u].done \in Nat
      /\ th[u].cur \in Nat /\ th[u].work \in Nat /\ th[u].new \in Nat
      /\ th[u].path \in Seq(Nat) /\ th[u].stack \in Seq(Nat) /\ th[u].pairs \in Seq(Keys)
      /\ th[u].ret \in BOOLEAN
  BY <1>1 DEF Registers
<1> QED  BY <1>1, <1>2

\* Where a search in a node stops: node_scan and leaf_scan find the first
\* element that is not below the key.
LEMMA PlaceFacts ==
  ASSUME NEW low, J(low)
  PROVE  \A s \in Seq(Nat), k \in Nat :
    /\ Place(s, k) \in 1 .. Len(s) + 1
    /\ Place(s, k) <= Len(s) => s[Place(s, k)] >= k
    /\ \A i \in 1 .. Len(s) : i < Place(s, k) => s[i] < k
BY DEF J, PlaceIsFirst

\* A key that is not beyond an inner node leads to one of its kids, and no
\* further right than the key.
LEMMA Child ==
  ASSUME NEW low, J(low), NEW n \in NodeIds, ~ node[n].leaf, ~ Empty(n), NEW k \in Nat,
         ~ beyond(node[n], k), low[n] < k
  PROVE  LET i == NodeScan(node[n], k) IN
         i \in DOMAIN node[n].kids /\ node[n].kids[i] \in NodeIds /\ low[node[n].kids[i]] < k
<1> DEFINE i == NodeScan(node[n], k)
           keys == node[n].keys
           kids == node[n].kids
<1>0. Types /\ Linked /\ NodeOK(low, n) /\ low \in [NodeIds -> Nat]  BY DEF J
<1>1. keys \in Seq(Nat) /\ kids \in Seq(Nat) /\ Len(keys) \in Nat /\ DOMAIN kids = 1 .. Len(kids) /\ DOMAIN keys = 1 .. Len(keys)
      /\ keys # <<>>
  BY <1>0, NodeFacts DEF Empty
<1>2. /\ i \in 1 .. Len(keys) + 1
      /\ \A j \in 1 .. Len(keys) : j < i => keys[j] < k
  <2>1. i = Place(keys, k)  BY DEF NodeScan
  <2> QED  BY <1>1, <2>1, PlaceFacts, Zenon
<1>3. Len(kids) = IF node[n].sib = nullptr THEN Len(keys) + 1 ELSE Len(keys)
  BY <1>0, <1>1 DEF NodeOK, Routes
<1> HIDE DEF i
<1>a. i \in Nat /\ i >= 1 /\ (i <= Len(keys) \/ i = Len(keys) + 1)
  <2>1. Len(keys) \in Nat /\ i \in 1 .. Len(keys) + 1  BY <1>1, <1>2
  <2> HIDE DEF keys
  <2> QED  BY <2>1
<1>4. node[n].sib # nullptr => i <= Len(keys)
  <2> SUFFICES ASSUME node[n].sib # nullptr, i = Len(keys) + 1 PROVE FALSE  BY <1>a
  <2>1. Len(keys) > 0  BY <1>1, NonEmpty
  <2>2. Len(keys) \in 1 .. Len(keys) /\ Len(keys) < i
    <3>1. Len(keys) \in Nat  BY <1>1
    <3> HIDE DEF keys
    <3> QED  BY <2>1, <3>1
  <2>3. keys[Len(keys)] < k  BY <2>2, <1>2
  <2> QED  BY <2>3 DEF beyond, Last
<1>5. i \in DOMAIN kids  BY <1>1, <1>2, <1>3, <1>4
<1>6. kids[i] \in NodeIds  BY <1>5, <1>0 DEF Linked
<1>7. (i = 1 => low[kids[i]] <= low[n]) /\ (i > 1 => low[kids[i]] <= keys[i - 1])
  BY <1>5, <1>0 DEF NodeOK, Routes
<1>8. i # 1 => keys[i - 1] < k /\ keys[i - 1] \in Nat
  <2> HAVE i # 1
  <2>1. i - 1 \in 1 .. Len(keys) /\ i - 1 < i
    <3>1. Len(keys) \in Nat  BY <1>1
    <3> HIDE DEF keys
    <3> QED  BY <3>1, <1>a
  <2> QED  BY <2>1, <1>1, <1>2
<1>9. low[kids[i]] \in Nat /\ low[n] \in Nat  BY <1>0, <1>6
<1>10. low[kids[i]] < k  BY <1>a, <1>7, <1>8, <1>9
<1> QED  BY <1>5, <1>6, <1>10 DEF i

\* The largest key of a node is in the tree.
LEMMA LastIsThere ==
  ASSUME NEW low, J(low), NEW n \in NodeIds, node[n].keys # <<>>
  PROVE  Last(node[n].keys) \in content /\ Last(node[n].keys) \in Nat
<1>0. Types /\ NodeOK(low, n)  BY DEF J
<1>1. Len(node[n].keys) \in DOMAIN node[n].keys /\ node[n].keys \in Seq(Nat)  BY <1>0, NodeFacts
<1>2. CASE node[n].leaf
  <2>1. Last(node[n].keys) \in ToSet(node[n].keys)  BY <1>1 DEF Last, ToSet
  <2> QED  BY <1>1, <1>2, <2>1 DEF content, Last
<1>3. CASE ~ node[n].leaf  BY <1>0, <1>1, <1>3 DEF NodeOK, Routes, Last
<1> QED  BY <1>2, <1>3

\* What taking and giving up a latch does to the latches.
LEMMA LatchMoves ==
  ASSUME Types, NEW t \in Threads, NEW n \in NodeIds
  PROVE  /\ Shared(t, n) \/ Exclusive(t, n) \/ Unlatch(t, n) =>
              /\ latch' \in Seq(Latches) /\ Len(latch') = Len(latch)
              /\ \A m \in NodeIds \ {n} : latch'[m] = latch[m]
         /\ Shared(t, n) => latch'[n].excl = latch[n].excl /\ latch'[n].shared = latch[n].shared \cup {t}
         /\ Exclusive(t, n) => latch'[n].excl = t /\ latch'[n].shared = latch[n].shared
         /\ Unlatch(t, n) => latch'[n].excl = nullptr /\ latch'[n].shared = latch[n].shared \ {t}
<1>1. latch \in Seq(Latches) /\ n \in 1 .. Len(latch) /\ NodeIds = 1 .. Len(latch)  BY NodeFacts DEF Types
<1>2. latch[n] \in Latches /\ latch[n].shared \in SUBSET Threads /\ latch[n].excl \in Threads \cup {nullptr}
  BY NodeFacts
<1>3. ASSUME NEW l \in Latches, latch' = [latch EXCEPT ![n] = l]
      PROVE  /\ latch' \in Seq(Latches) /\ Len(latch') = Len(latch) /\ latch'[n] = l
             /\ \A m \in NodeIds \ {n} : latch'[m] = latch[m]
  BY <1>1, <1>3, Replaced
<1>4. \A e \in Threads \cup {nullptr}, s \in SUBSET Threads : [excl |-> e, shared |-> s] \in Latches
  BY DEF Latches
<1>5. ASSUME Shared(t, n)
      PROVE  latch' = [latch EXCEPT ![n] = [excl |-> latch[n].excl, shared |-> latch[n].shared \cup {t}]]
  <2>1. [latch[n] EXCEPT !.shared = @ \cup {t}] = [excl |-> latch[n].excl, shared |-> latch[n].shared \cup {t}]
    BY <1>2 DEF Latches
  <2> QED  BY <1>5, <2>1, Zenon DEF Shared
<1>6. ASSUME Exclusive(t, n)
      PROVE  latch' = [latch EXCEPT ![n] = [excl |-> t, shared |-> latch[n].shared]]
  <2>1. [latch[n] EXCEPT !.excl = t] = [excl |-> t, shared |-> latch[n].shared]
    BY <1>2 DEF Latches
  <2> QED  BY <1>6, <2>1, Zenon DEF Exclusive
<1>7. ASSUME Unlatch(t, n)
      PROVE  latch' = [latch EXCEPT ![n] = [excl |-> nullptr, shared |-> latch[n].shared \ {t}]]
  <2>1. PICK e, s : latch[n] = [excl |-> e, shared |-> s]  BY <1>2, Zenon DEF Latches
  <2>2. [latch[n] EXCEPT !.excl = nullptr] = [excl |-> nullptr, shared |-> s]  BY <2>1
  <2>3. [[excl |-> nullptr, shared |-> s] EXCEPT !.shared = @ \ {t}] = [excl |-> nullptr, shared |-> s \ {t}]
    OBVIOUS
  <2>4. PICK f : f = [latch EXCEPT ![n] = [excl |-> nullptr, shared |-> s]]  BY Zenon
  <2>5. f[n] = [excl |-> nullptr, shared |-> s]  BY <1>1, <2>4
  <2>6. latch' = [f EXCEPT ![n] = [f[n] EXCEPT !.shared = @ \ {t}]]  BY <1>7, <2>2, <2>4, Zenon DEF Unlatch
  <2>7. latch' = [f EXCEPT ![n] = [excl |-> nullptr, shared |-> s \ {t}]]  BY <2>3, <2>5, <2>6, Zenon
  <2>8. latch[n].shared = s  BY <2>1
  <2> QED  BY <2>4, <2>7, <2>8, Zenon
<1>8. ASSUME Shared(t, n)
      PROVE  /\ latch' \in Seq(Latches) /\ Len(latch') = Len(latch) /\ \A m \in NodeIds \ {n} : latch'[m] = latch[m]
             /\ latch'[n].excl = latch[n].excl /\ latch'[n].shared = latch[n].shared \cup {t}
  <2>1. [excl |-> latch[n].excl, shared |-> latch[n].shared \cup {t}] \in Latches  BY <1>2, <1>4
  <2>2. latch'[n] = [excl |-> latch[n].excl, shared |-> latch[n].shared \cup {t}]  BY <1>8, <1>5, <1>3, <2>1
  <2> QED  BY <1>8, <1>5, <1>3, <2>1, <2>2
<1>9. ASSUME Exclusive(t, n)
      PROVE  /\ latch' \in Seq(Latches) /\ Len(latch') = Len(latch) /\ \A m \in NodeIds \ {n} : latch'[m] = latch[m]
             /\ latch'[n].excl = t /\ latch'[n].shared = latch[n].shared
  <2>1. [excl |-> t, shared |-> latch[n].shared] \in Latches  BY <1>2, <1>4
  <2> QED  BY <1>9, <1>6, <1>3, <2>1
<1>10. ASSUME Unlatch(t, n)
      PROVE  /\ latch' \in Seq(Latches) /\ Len(latch') = Len(latch) /\ \A m \in NodeIds \ {n} : latch'[m] = latch[m]
             /\ latch'[n].excl = nullptr /\ latch'[n].shared = latch[n].shared \ {t}
  <2>1. [excl |-> nullptr, shared |-> latch[n].shared \ {t}] \in Latches  BY <1>2, <1>4
  <2>2. latch'[n] = [excl |-> nullptr, shared |-> latch[n].shared \ {t}]  BY <1>10, <1>7, <1>3, <2>1, Zenon
  <2> QED  BY <1>10, <1>7, <1>3, <2>1, <2>2
<1> QED  BY <1>8, <1>9, <1>10
-----------------------------------------------------------------------------
(* What a step writes into the registers of its thread *)

\* The registers of t after a step, but for done.
Becomes(t, pc, op, key, arg, cur, work, path, new, ret, pairs, stack) ==
  /\ th'[t].pc = pc /\ th'[t].op = op /\ th'[t].key = key /\ th'[t].arg = arg
  /\ th'[t].cur = cur /\ th'[t].work = work /\ th'[t].path = path /\ th'[t].new = new
  /\ th'[t].ret = ret /\ th'[t].pairs = pairs /\ th'[t].stack = stack

\* What the steps write that do not depend on a search.
LEMMA Effects ==
  ASSUME Types, NEW t \in Threads
  PROVE  LET g == th[t] IN
         /\ LatchLeaf(t) => Becomes(t, "leaf", g.op, g.key, g.arg, g.cur, g.work, g.path, g.new, g.ret, g.pairs, g.stack)
         /\ MoveRight(t) => Becomes(t, "descend", g.op, g.key, g.arg, Cur(t).sib, g.work, g.path, g.new, g.ret, g.pairs, g.stack)
         /\ LatchSibling(t) => Becomes(t, "unlatch_left", g.op, g.key, g.arg, g.cur, Cur(t).sib, g.path, g.new, g.ret, g.pairs, g.stack)
         /\ UnlatchLeft(t) => Becomes(t, "leaf", g.op, g.key, g.arg, g.work, g.work, g.path, g.new, g.ret, g.pairs, g.stack)
         /\ FoundOrNot(t) => Becomes(t, "return", g.op, g.key, g.arg, g.cur, g.work, g.path, g.new, holds(Cur(t), g.key), g.pairs, g.stack)
         /\ InsertRefused(t) => Becomes(t, "return", g.op, g.key, g.arg, g.cur, g.work, g.path, g.new, g.ret, g.pairs, g.stack)
         /\ NewRoot(t) => Becomes(t, "latch_upper", g.op, g.key, g.arg, g.cur, NewId, g.path, g.new, g.ret, g.pairs, g.stack)
         /\ PopPath(t) => Becomes(t, "latch_upper", g.op, g.key, g.arg, g.cur, Last(g.path), Front(g.path), g.new, g.ret, g.pairs, g.stack)
         /\ TrackUpper(t) => Becomes(t, "latch_upper", g.op, g.key, g.arg, g.cur, Cur(t).upper, g.path, g.new, g.ret, g.pairs, g.stack)
         /\ LatchUpper(t) => Becomes(t, "find", g.op, g.key, g.arg, g.cur, g.work, g.path, g.new, g.ret, g.pairs, g.stack)
         /\ LatchUpperSibling(t) => Becomes(t, "unlatch_upper", g.op, g.key, g.arg, g.cur, g.work, g.path, g.new, g.ret, g.pairs, g.stack)
         /\ UnlatchUpper(t) => Becomes(t, "find", g.op, g.key, g.arg, g.cur, Work(t).sib, g.path, g.new, g.ret, g.pairs, g.stack)
         /\ UnlatchChild(t) => Becomes(t, "insert", g.op, g.key, left_max_key(t), g.cur, g.work, g.path, g.new, g.ret, g.pairs, g.stack)
         /\ UnlatchLast(t) => Becomes(t, "return", g.op, g.key, g.arg, g.cur, g.work, g.path, g.new, g.ret, g.pairs, g.stack)
         /\ ScanEmpty(t) => Becomes(t, "return", g.op, g.key, g.arg, g.cur, g.work, g.path, g.new, g.ret, g.pairs, g.stack)
         /\ ScanStart(t) => Becomes(t, "scan", g.op, g.key, g.arg, g.cur, g.work, g.path, g.new, TRUE, g.pairs, <<g.cur>>)
         /\ ScanLeaf(t) => Becomes(t, "scan_next", g.op, g.key, g.arg, Cur(t).sib, g.work, g.path, g.new, g.ret, taken(t), g.stack)
         /\ ScanNext(t) => Becomes(t, "scan", g.op, g.key, g.arg, g.cur, g.work, g.path, g.new, g.ret, g.pairs, Append(g.stack, g.cur))
         /\ ScanEnd(t) => Becomes(t, "release", g.op, g.key, g.arg, g.cur, g.work, g.path, g.new, g.ret, taken(t), g.stack)
<1>1. \A r : Reg(t, r) => th'[t] = r  BY DEF Types, Reg
<1>2. th[t] \in Registers  BY RegisterFacts
<1> DEFINE g == th[t]
<1>3. /\ LatchLeaf(t) => Becomes(t, "leaf", g.op, g.key, g.arg, g.cur, g.work, g.path, g.new, g.ret, g.pairs, g.stack)
      /\ MoveRight(t) => Becomes(t, "descend", g.op, g.key, g.arg, Cur(t).sib, g.work, g.path, g.new, g.ret, g.pairs, g.stack)
      /\ LatchSibling(t) => Becomes(t, "unlatch_left", g.op, g.key, g.arg, g.cur, Cur(t).sib, g.path, g.new, g.ret, g.pairs, g.stack)
      /\ UnlatchLeft(t) => Becomes(t, "leaf", g.op, g.key, g.arg, g.work, g.work, g.path, g.new, g.ret, g.pairs, g.stack)
  BY <1>1, <1>2, ZenonT(40) DEF Becomes, Registers, Go, LatchLeaf, MoveRight, LatchSibling, UnlatchLeft
<1>4. /\ FoundOrNot(t) => Becomes(t, "return", g.op, g.key, g.arg, g.cur, g.work, g.path, g.new, holds(Cur(t), g.key), g.pairs, g.stack)
      /\ InsertRefused(t) => Becomes(t, "return", g.op, g.key, g.arg, g.cur, g.work, g.path, g.new, g.ret, g.pairs, g.stack)
      /\ NewRoot(t) => Becomes(t, "latch_upper", g.op, g.key, g.arg, g.cur, NewId, g.path, g.new, g.ret, g.pairs, g.stack)
      /\ PopPath(t) => Becomes(t, "latch_upper", g.op, g.key, g.arg, g.cur, Last(g.path), Front(g.path), g.new, g.ret, g.pairs, g.stack)
  BY <1>1, <1>2, ZenonT(40) DEF Becomes, Registers, Go, FoundOrNot, InsertRefused, NewRoot, PopPath
<1>5. /\ TrackUpper(t) => Becomes(t, "latch_upper", g.op, g.key, g.arg, g.cur, Cur(t).upper, g.path, g.new, g.ret, g.pairs, g.stack)
      /\ LatchUpper(t) => Becomes(t, "find", g.op, g.key, g.arg, g.cur, g.work, g.path, g.new, g.ret, g.pairs, g.stack)
      /\ LatchUpperSibling(t) => Becomes(t, "unlatch_upper", g.op, g.key, g.arg, g.cur, g.work, g.path, g.new, g.ret, g.pairs, g.stack)
      /\ UnlatchUpper(t) => Becomes(t, "find", g.op, g.key, g.arg, g.cur, Work(t).sib, g.path, g.new, g.ret, g.pairs, g.stack)
  BY <1>1, <1>2, ZenonT(40) DEF Becomes, Registers, Go, TrackUpper, LatchUpper, LatchUpperSibling, UnlatchUpper
<1>6. /\ UnlatchChild(t) => Becomes(t, "insert", g.op, g.key, left_max_key(t), g.cur, g.work, g.path, g.new, g.ret, g.pairs, g.stack)
      /\ UnlatchLast(t) => Becomes(t, "return", g.op, g.key, g.arg, g.cur, g.work, g.path, g.new, g.ret, g.pairs, g.stack)
      /\ ScanEmpty(t) => Becomes(t, "return", g.op, g.key, g.arg, g.cur, g.work, g.path, g.new, g.ret, g.pairs, g.stack)
      /\ ScanStart(t) => Becomes(t, "scan", g.op, g.key, g.arg, g.cur, g.work, g.path, g.new, TRUE, g.pairs, <<g.cur>>)
  BY <1>1, <1>2, ZenonT(40) DEF Becomes, Registers, Go, UnlatchChild, UnlatchLast, ScanEmpty, ScanStart
<1>7. /\ ScanLeaf(t) => Becomes(t, "scan_next", g.op, g.key, g.arg, Cur(t).sib, g.work, g.path, g.new, g.ret, taken(t), g.stack)
      /\ ScanNext(t) => Becomes(t, "scan", g.op, g.key, g.arg, g.cur, g.work, g.path, g.new, g.ret, g.pairs, Append(g.stack, g.cur))
      /\ ScanEnd(t) => Becomes(t, "release", g.op, g.key, g.arg, g.cur, g.work, g.path, g.new, g.ret, taken(t), g.stack)
  BY <1>1, <1>2, ZenonT(40) DEF Becomes, Registers, Go, ScanLeaf, ScanNext, ScanEnd
<1> QED  BY <1>3, <1>4, <1>5, <1>6, <1>7, Zenon
-----------------------------------------------------------------------------
(* Neighbours and holders *)

\* The right sibling of a node, where a thread that is beyond it goes on.
LEMMA Sibling ==
  ASSUME NEW low, J(low), NEW n \in NodeIds, node[n].sib # nullptr
  PROVE  /\ node[n].sib \in NodeIds /\ low[node[n].sib] = Last(node[n].keys)
         /\ node[node[n].sib].leaf = node[n].leaf /\ node[node[n].sib].keys # <<>> /\ ~ Empty(node[n].sib)
         /\ node[n].leaf => low[n] < low[node[n].sib] /\ node[n].sib # n
<1>0. Types /\ Linked /\ NodeOK(low, n) /\ low \in [NodeIds -> Nat]  BY DEF J
<1>1. node[n].sib \in NodeIds  BY <1>0, LinksAre DEF Linked
<1>2. /\ node[n].keys # <<>> /\ low[node[n].sib] = Last(node[n].keys)
      /\ node[node[n].sib].leaf = node[n].leaf /\ node[node[n].sib].keys # <<>>
  BY <1>0 DEF NodeOK, Continued
<1>3. ASSUME node[n].leaf PROVE low[n] < low[node[n].sib]
  <2>1. Len(node[n].keys) \in DOMAIN node[n].keys  BY <1>0, <1>2, NodeFacts
  <2> QED  BY <1>0, <1>2, <1>3, <2>1 DEF NodeOK, Ordered, Last
<1>4. low[n] \in Nat  BY <1>0
<1> QED  BY <1>1, <1>2, <1>3, <1>4 DEF Empty

\* No thread but its owner holds a latch, and nobody takes it.
LEMMA OwnedAlone ==
  ASSUME NEW low, J(low), NEW t \in Threads, NEW n \in NodeIds, Owns(t, n)
  PROVE  /\ ~ CanHold(n) /\ ~ CanShare(n)
         /\ \A u \in Threads : (Owns(u, n) => u = t) /\ ~ Reads(u, n)
<1>1. Latched /\ nullptr \notin Threads  BY BLinkTreeAssumption DEF J, nullptr
<1>2. latch[n].excl = t /\ latch[n].shared = {}  BY <1>1 DEF Latched
<1> QED  BY <1>1, <1>2 DEF Latched, CanHold, CanShare, Free
-----------------------------------------------------------------------------
(* The step that makes a new root *)

\* What NewRoot does: id is a new empty node above the halves x and y.
Raised(low, lw, t, x, y, id) ==
  /\ th[t].pc = "split" /\ x = th[t].cur /\ y = th[t].new /\ x = root /\ x \in NodeIds /\ y \in NodeIds /\ x # y
  /\ id = NewId /\ id \notin Links /\ id # nullptr /\ Links = NodeIds \cup {nullptr}
  /\ NodeIds' = NodeIds \cup {id} /\ Links' = Links \cup {id} /\ root' = root
  /\ node'[id] = NewNode(FALSE) /\ latch'[id] = Free
  /\ \A n \in NodeIds : /\ node'[n].leaf = node[n].leaf /\ node'[n].keys = node[n].keys /\ node'[n].kids = node[n].kids
                        /\ node'[n].sib = node[n].sib /\ latch'[n] = latch[n]
                        /\ n \in {x, y} => node'[n].upper = id
                        /\ n \notin {x, y} => node'[n].upper = node[n].upper
  /\ content' = content
  /\ lw \in [NodeIds' -> Nat] /\ lw[id] = low[x] /\ \A n \in NodeIds : lw[n] = low[n]
  /\ \A u \in Threads \ {t} : th'[u] = th[u]
  /\ Becomes(t, "latch_upper", "Insert", th[t].key, th[t].arg, x, id, th[t].path, y, TRUE, th[t].pairs, th[t].stack)
  /\ Types'

\* setUpper: the new parent of a node.
SetUpper(s, n, id) == [s EXCEPT ![n].upper = id]

\* Setting the upper link of a node leaves everything else as it is.
LEMMA SetsUpper ==
  ASSUME NEW s \in Seq(Nodes), NEW n \in 1 .. Len(s), NEW id \in Nat
  PROVE  LET r == SetUpper(s, n, id) IN
         /\ r \in Seq(Nodes) /\ Len(r) = Len(s)
         /\ r[n].leaf = s[n].leaf /\ r[n].keys = s[n].keys /\ r[n].kids = s[n].kids /\ r[n].sib = s[n].sib
         /\ r[n].upper = id
         /\ \A m \in 1 .. Len(s) : m # n => r[m] = s[m]
<1>1. s[n] \in Nodes  OBVIOUS
<1>2. PICK v : v = [s[n] EXCEPT !.upper = id]  BY Zenon
<1>3. v \in Nodes /\ v.leaf = s[n].leaf /\ v.keys = s[n].keys /\ v.kids = s[n].kids /\ v.sib = s[n].sib /\ v.upper = id
  BY <1>1, <1>2, Zenon DEF Nodes
<1>4. PICK r : r = SetUpper(s, n, id)  OBVIOUS
<1>5. r = [s EXCEPT ![n] = v]  BY <1>2, <1>4 DEF SetUpper
<1>6. r \in Seq(Nodes) /\ Len(r) = Len(s) /\ r[n] = v /\ \A m \in 1 .. Len(s) : m # n => r[m] = s[m]
  BY <1>3, <1>5, Replaced
<1> QED  BY <1>3, <1>4, <1>6

\* NewRoot is such a step.
LEMMA Raises ==
  ASSUME NEW low, J(low), NEW t \in Threads, NewRoot(t), UNCHANGED ops
  PROVE  \E lw, x, y, id : Raised(low, lw, t, x, y, id)
<1>0. Types /\ low \in [NodeIds -> Nat] /\ Calls(t) /\ Climbs(low, t) /\ Private(t) /\ th[t].pc = "split" /\ th[t].cur = root
  BY DEF J, NewRoot, At
<1>1. PICK x, y, id : x = th[t].cur /\ y = th[t].new /\ id = NewId  OBVIOUS
<1>2. /\ x \in NodeIds /\ y \in NodeIds /\ x # y /\ th[t].op = "Insert" /\ th[t].ret = TRUE
  BY <1>0, <1>1, RegisterFacts, Zenon DEF Climbs, Calls, Private, Splitting
<1>3. /\ node \in Seq(Nodes) /\ latch \in Seq(Latches) /\ NodeIds = 1 .. Len(node) /\ Len(node) \in Nat /\ Len(latch) = Len(node)
      /\ id = Len(node) + 1
  BY <1>0, <1>1, NodeFacts DEF Types, NewId
<1>4. id \notin Links /\ id # nullptr /\ Links = NodeIds \cup {nullptr} /\ id \notin NodeIds /\ id \in Nat
  BY <1>3 DEF Links, nullptr
<1>5. PICK f : f = SetUpper(node, x, id)  OBVIOUS
<1>6. PICK g : g = SetUpper(f, y, id)  OBVIOUS
<1>8. /\ f \in Seq(Nodes) /\ Len(f) = Len(node)
      /\ f[x].leaf = node[x].leaf /\ f[x].keys = node[x].keys /\ f[x].kids = node[x].kids /\ f[x].sib = node[x].sib
      /\ f[x].upper = id /\ \A m \in 1 .. Len(node) : m # x => f[m] = node[m]
  BY <1>2, <1>3, <1>4, <1>5, SetsUpper
<1>9. /\ g \in Seq(Nodes) /\ Len(g) = Len(node)
      /\ g[y].leaf = f[y].leaf /\ g[y].keys = f[y].keys /\ g[y].kids = f[y].kids /\ g[y].sib = f[y].sib
      /\ g[y].upper = id /\ \A m \in 1 .. Len(f) : m # y => g[m] = f[m]
  BY <1>2, <1>3, <1>4, <1>6, <1>8, SetsUpper
<1>10. ASSUME NEW n \in NodeIds
       PROVE  /\ g[n].leaf = node[n].leaf /\ g[n].keys = node[n].keys /\ g[n].kids = node[n].kids /\ g[n].sib = node[n].sib
              /\ n \in {x, y} => g[n].upper = id
              /\ n \notin {x, y} => g[n].upper = node[n].upper
  <2>1. CASE n = x
    <3>1. g[x] = f[x]  BY <1>2, <1>3, <1>8, <1>9
    <3> QED  BY <1>8, <2>1, <3>1
  <2>2. CASE n = y
    <3>1. f[y] = node[y]  BY <1>2, <1>3, <1>8
    <3> QED  BY <1>9, <2>2, <3>1
  <2>3. CASE n \notin {x, y}
    <3>1. g[n] = node[n]  BY <1>3, <1>8, <1>9, <2>3
    <3> QED  BY <2>3, <3>1
  <2> QED  BY <2>1, <2>2, <2>3
<1>11. node' = Append(g, NewNode(FALSE)) /\ latch' = Append(latch, Free) /\ depth' = depth + 1 /\ UNCHANGED <<root, load>>
  BY <1>1, <1>5, <1>6, Zenon DEF NewRoot, SetUpper
<1>12. NewNode(FALSE) \in Nodes /\ Free \in Latches  BY DEF NewNode, Nodes, Free, Latches, nullptr
<1>13. /\ node' \in Seq(Nodes) /\ Len(node') = Len(node) + 1 /\ DOMAIN node' = 1 .. Len(node) + 1
       /\ node'[id] = NewNode(FALSE) /\ \A n \in NodeIds : node'[n] = g[n]
  <2>1. PICK T : T = Nodes  OBVIOUS
  <2>2. g \in Seq(T) /\ NewNode(FALSE) \in T  BY <1>9, <1>12, <2>1, Zenon
  <2>3. PICK v : v = NewNode(FALSE)  BY Zenon
  <2>4. node' = Append(g, v) /\ v \in T  BY <1>11, <2>2, <2>3, Zenon
  <2>5. /\ node' \in Seq(T) /\ Len(node') = Len(g) + 1 /\ node'[Len(g) + 1] = v
        /\ \A n \in 1 .. Len(g) : node'[n] = g[n]
    BY <2>2, <2>4, Added
  <2>6. DOMAIN node' = 1 .. Len(node')  BY <2>5
  <2> QED  BY <1>3, <1>9, <2>1, <2>3, <2>5, <2>6
<1>14. /\ latch' \in Seq(Latches) /\ Len(latch') = Len(latch) + 1
       /\ latch'[id] = Free /\ \A n \in NodeIds : latch'[n] = latch[n]
  BY <1>3, <1>11, <1>12, Added
<1>15. NodeIds' = NodeIds \cup {id} /\ Links' = Links \cup {id}
  BY <1>3, <1>13 DEF NodeIds, Links
<1>16. content' = content
  <2>1. \A n \in NodeIds : node'[n].leaf = node[n].leaf /\ node'[n].keys = node[n].keys  BY <1>10, <1>13
  <2>2. ~ node'[id].leaf  BY <1>13 DEF NewNode
  <2>3. {m \in NodeIds' : node'[m].leaf} = {m \in NodeIds : node[m].leaf}  BY <1>15, <2>1, <2>2
  <2> QED  BY <2>1, <2>3 DEF content
<1>17. Becomes(t, "latch_upper", "Insert", th[t].key, th[t].arg, x, id, th[t].path, y, TRUE, th[t].pairs, th[t].stack)
  BY <1>0, <1>1, <1>2, Effects, Zenon
<1>18. \A u \in Threads \ {t} : th'[u] = th[u]  BY <1>0, Others, Zenon DEF Step
<1>19. th' \in [Threads -> Registers]
  <2>1. PICK r : r = [th[t] EXCEPT !.work = id, !.pc = "latch_upper"]  OBVIOUS
  <2>2. Reg(t, r)  BY <1>1, <2>1, Zenon DEF NewRoot
  <2>3. th[t] \in Registers  BY <1>0, RegisterFacts, Zenon
  <2>4. r \in Registers  BY <1>4, <2>1, <2>3, Zenon DEF Registers, Labels
  <2> QED  BY <1>0, <2>2, <2>4 DEF Reg, Types
<1>20. Types'
  <2>1. root' \in NodeIds' /\ depth' \in Nat \ {0} /\ load' \in Seq(Operations)  BY <1>0, <1>11, <1>15 DEF Types
  <2>2. \A u \in Threads : ops'[u] \in Seq(SUBSET Operations)  BY <1>0 DEF Types
  <2> QED  BY <1>3, <1>13, <1>14, <1>19, <2>1, <2>2 DEF Types
<1>21. PICK lw : lw = [n \in NodeIds' |-> IF n = id THEN low[x] ELSE low[n]]  BY Zenon
<1>22. lw \in [NodeIds' -> Nat] /\ lw[id] = low[x] /\ \A n \in NodeIds : lw[n] = low[n]
  BY <1>0, <1>2, <1>4, <1>15, <1>21
<1>23. \A n \in NodeIds : /\ node'[n].leaf = node[n].leaf /\ node'[n].keys = node[n].keys /\ node'[n].kids = node[n].kids
                          /\ node'[n].sib = node[n].sib /\ latch'[n] = latch[n]
                          /\ n \in {x, y} => node'[n].upper = id
                          /\ n \notin {x, y} => node'[n].upper = node[n].upper
  BY <1>10, <1>13, <1>14
<1>24. root' = root /\ x = root  BY <1>0, <1>1, <1>11
<1>25. Raised(low, lw, t, x, y, id)
  BY <1>0, <1>1, <1>2, <1>4, <1>13, <1>14, <1>15, <1>16, <1>17, <1>18, <1>20, <1>22, <1>23, <1>24, Zenon DEF Raised
<1> QED  BY <1>25

\* What the proofs below use of a new root.
LEMMA RaisedFacts ==
  ASSUME NEW low, J(low), NEW t \in Threads, NEW lw, NEW x, NEW y, NEW id, Raised(low, lw, t, x, y, id)
  PROVE  /\ id \notin NodeIds /\ \A n \in NodeIds : ~ Empty(n)' <=> ~ Empty(n)
         /\ node'[id].leaf = FALSE /\ node'[id].keys = <<>> /\ node'[id].kids = <<>>
         /\ node'[id].sib = nullptr /\ node'[id].upper = nullptr /\ Empty(id)'
         /\ \A n \in NodeIds : Filling(n) => Filling(n)'
         /\ \A u \in Threads : ~ Creates(u)
         /\ \A u \in Threads \ {t} : th[u].pc \in Splitting => th[u].cur # root
<1>1. id \notin NodeIds  BY DEF Raised
<1>2. /\ node'[id].leaf = FALSE /\ node'[id].keys = <<>> /\ node'[id].kids = <<>>
      /\ node'[id].sib = nullptr /\ node'[id].upper = nullptr
  BY DEF Raised, NewNode
<1>3. Empty(id)'  BY <1>2 DEF Empty
<1>4. \A n \in NodeIds : ~ Empty(n)' <=> ~ Empty(n)
  <2> TAKE n \in NodeIds
  <2>1. node'[n].leaf = node[n].leaf /\ node'[n].keys = node[n].keys  BY DEF Raised
  <2> QED  BY <2>1, Zenon DEF Empty
<1>5. ASSUME NEW n \in NodeIds, Filling(n) PROVE Filling(n)'
  <2>1. PICK v \in Threads : th[v].pc \in {"find", "insert"} /\ th[v].work = n  BY <1>5 DEF Filling
  <2>2. v # t  BY <2>1 DEF Raised
  <2>3. th'[v] = th[v]  BY <2>2 DEF Raised
  <2> QED  BY <2>1, <2>3 DEF Filling
<1>6. Owns(t, root) /\ root \in NodeIds /\ th[t].pc = "split"  BY DEF Raised, Owns, Splitting
<1>7. \A u \in Threads \ {t} : ~ Owns(u, root)  BY <1>6, OwnedAlone, Zenon
<1>8. \A u \in Threads \ {t} : th[u].pc \in Splitting => th[u].cur # root  BY <1>7, Zenon DEF Owns
<1>9. \A u \in Threads : ~ Creates(u)  BY <1>6, <1>8 DEF Creates, Splitting
<1> QED  BY <1>1, <1>2, <1>3, <1>4, <1>5, <1>8, <1>9, Zenon

\* Its links are links to nodes.
LEMMA RaisedLinked ==
  ASSUME NEW low, J(low), NEW t \in Threads, NEW lw, NEW x, NEW y, NEW id, Raised(low, lw, t, x, y, id)
  PROVE  Linked'
<1>0. Linked /\ NodeIds' = NodeIds \cup {id} /\ Links' = Links \cup {id} /\ Links = NodeIds \cup {nullptr}
  BY Zenon DEF J, Raised
<1>1. ASSUME NEW n \in NodeIds'
      PROVE  /\ node'[n].sib \in Links' /\ node'[n].upper \in Links'
             /\ \A i \in DOMAIN node'[n].kids : node'[n].kids[i] \in NodeIds'
  <2>1. CASE n = id
    <3>1. node'[id].sib = nullptr /\ node'[id].upper = nullptr /\ node'[id].kids = <<>>  BY RaisedFacts, Zenon
    <3> QED  BY <1>0, <2>1, <3>1
  <2>2. CASE n \in NodeIds
    <3>1. /\ node'[n].sib = node[n].sib /\ node'[n].kids = node[n].kids /\ node'[n].upper \in {node[n].upper, id}
      BY <2>2 DEF Raised
    <3> QED  BY <1>0, <2>2, <3>1 DEF Linked
  <2> QED  BY <1>0, <2>1, <2>2, Zenon
<1>2. ASSUME NEW u \in Threads PROVE Named(th[u])'
  <2>1. Named(th[u])  BY <1>0, Zenon DEF Linked
  <2>2. CASE u # t
    <3>1. th'[u] = th[u]  BY <2>2 DEF Raised
    <3> QED  BY <1>0, <2>1, <3>1, Zenon DEF Named
  <2>3. CASE u = t
    <3>1. /\ th'[t].cur = th[t].cur /\ th'[t].work = id /\ th'[t].path = th[t].path /\ th'[t].stack = th[t].stack
          /\ th'[t].new = th[t].new
      BY DEF Raised, Becomes
    <3> QED  BY <1>0, <2>1, <2>3, <3>1 DEF Named
  <2> QED  BY <2>2, <2>3
<1> QED  BY <1>1, <1>2 DEF Linked

\* Every node stays as it should be; the new one is empty.
LEMMA RaisedNodes ==
  ASSUME NEW low, J(low), NEW t \in Threads, NEW lw, NEW x, NEW y, NEW id, Raised(low, lw, t, x, y, id), NEW n \in NodeIds'
  PROVE  NodeOK(lw, n)'
<1>0. /\ Types /\ Linked /\ NodeIds' = NodeIds \cup {id} /\ Links = NodeIds \cup {nullptr}
      /\ content' = content /\ \A m \in NodeIds : NodeOK(low, m) /\ lw[m] = low[m]
  BY Zenon DEF J, Raised
<1>1. \A m \in NodeIds : /\ node'[m].leaf = node[m].leaf /\ node'[m].keys = node[m].keys /\ node'[m].kids = node[m].kids
                         /\ node'[m].sib = node[m].sib
                         /\ node'[m].upper \in {node[m].upper, id}
  BY DEF Raised
<1>2. CASE n = id
  <2>1. /\ node'[id].leaf = FALSE /\ node'[id].keys = <<>> /\ node'[id].kids = <<>>
        /\ node'[id].sib = nullptr /\ node'[id].upper = nullptr
    BY RaisedFacts, Zenon
  <2>2. DOMAIN node'[id].keys = {} /\ DOMAIN node'[id].kids = {}  BY <2>1
  <2>3. Ordered(lw, id)'  BY <2>1, <2>2 DEF Ordered
  <2>4. Continued(lw, id)'  BY <2>1 DEF Continued
  <2>5. Routes(lw, id)'  BY <2>1, <2>2 DEF Routes
  <2> QED  BY <1>2, <2>1, <2>3, <2>4, <2>5, Zenon DEF NodeOK
<1>3. CASE n \in NodeIds
  <2>1. /\ node'[n].leaf = node[n].leaf /\ node'[n].keys = node[n].keys /\ node'[n].kids = node[n].kids
        /\ node'[n].sib = node[n].sib /\ node'[n].upper \in {node[n].upper, id}
    BY <1>1, <1>3
  <2>2. NodeOK(low, n) /\ lw[n] = low[n]  BY <1>0, <1>3
  <2>3. Ordered(lw, n)'  BY <2>1, <2>2, Zenon DEF NodeOK, Ordered
  <2>4. Continued(lw, n)'
    <3> SUFFICES ASSUME node[n].sib # nullptr
                 PROVE  /\ node[n].keys # <<>> /\ lw[node[n].sib] = Last(node[n].keys)
                        /\ node'[node[n].sib].leaf = node[n].leaf /\ node'[node[n].sib].keys # <<>>
      BY <2>1, Zenon DEF Continued
    <3>1. node[n].sib \in NodeIds  BY <1>0, <1>3, Zenon DEF Linked
    <3> QED  BY <1>0, <1>1, <2>2, <3>1, Zenon DEF NodeOK, Continued
  <2>5. Routes(lw, n)'
    <3> SUFFICES ASSUME ~ node[n].leaf
                 PROVE  /\ node[n].keys = <<>> => node[n].kids = <<>>
                        /\ node[n].keys # <<>> /\ node[n].sib = nullptr => Len(node[n].kids) = Len(node[n].keys) + 1
                        /\ node[n].keys # <<>> /\ node[n].sib # nullptr => Len(node[n].kids) = Len(node[n].keys)
                        /\ \A i \in DOMAIN node[n].kids : /\ ~ Empty(node[n].kids[i])'
                                                          /\ i = 1 => lw[node[n].kids[i]] <= lw[n]
                                                          /\ i > 1 => lw[node[n].kids[i]] <= node[n].keys[i - 1]
                        /\ \A i \in DOMAIN node[n].keys : node[n].keys[i] \in content'
      BY <2>1, Zenon DEF Routes, Empty
    <3>1. Routes(low, n)  BY <2>2, Zenon DEF NodeOK
    <3>2. ASSUME NEW i \in DOMAIN node[n].kids
          PROVE  /\ ~ Empty(node[n].kids[i])'
                 /\ i = 1 => lw[node[n].kids[i]] <= lw[n]
                 /\ i > 1 => lw[node[n].kids[i]] <= node[n].keys[i - 1]
      <4>1. PICK d : d = node[n].kids[i]  OBVIOUS
      <4>2. d \in NodeIds  BY <1>0, <1>3, <4>1 DEF Linked
      <4>3. ~ Empty(d) /\ (i = 1 => low[d] <= low[n]) /\ (i > 1 => low[d] <= node[n].keys[i - 1])
        BY <3>1, <4>1, Zenon DEF Routes
      <4>4. ~ Empty(d)' /\ lw[d] = low[d]  BY <1>0, <4>2, <4>3, RaisedFacts, Zenon
      <4>5. node'[n].kids[i] = d  BY <2>1, <4>1
      <4>6. ~ Empty(node[n].kids[i])'  BY <4>4, <4>5 DEF Empty
      <4> QED  BY <2>2, <4>1, <4>3, <4>4, <4>6, Zenon
    <3>3. \A i \in DOMAIN node[n].keys : node[n].keys[i] \in content'  BY <1>0, <3>1 DEF Routes
    <3> QED  BY <3>1, <3>2, <3>3 DEF Routes
  <2>6. node'[n].upper # nullptr => ~ node'[node'[n].upper].leaf
    <3>1. CASE node'[n].upper = id  BY <3>1, RaisedFacts, Zenon
    <3>2. CASE node'[n].upper = node[n].upper
      <4> SUFFICES ASSUME node[n].upper # nullptr PROVE ~ node'[node[n].upper].leaf  BY <3>2
      <4>1. node[n].upper \in NodeIds /\ ~ node[node[n].upper].leaf  BY <1>0, <1>3, <2>2, Zenon DEF Linked, NodeOK
      <4> QED  BY <1>1, <4>1
    <3> QED  BY <2>1, <3>1, <3>2
  <2> QED  BY <2>3, <2>4, <2>5, <2>6 DEF NodeOK
<1> QED  BY <1>0, <1>2, <1>3

\* It makes no leaf.
LEMMA RaisedDisjoint ==
  ASSUME NEW low, J(low), NEW t \in Threads, NEW lw, NEW x, NEW y, NEW id, Raised(low, lw, t, x, y, id)
  PROVE  Disjoint(lw)'
<1> SUFFICES ASSUME NEW m \in NodeIds', NEW n \in NodeIds', node'[m].leaf, node'[n].leaf, m # n
             PROVE  LeftOf(lw, m, n)' \/ LeftOf(lw, n, m)'
  BY DEF Disjoint
<1>1. m \in NodeIds /\ n \in NodeIds
  <2>1. node'[id].leaf = FALSE  BY RaisedFacts, Zenon
  <2>2. NodeIds' = NodeIds \cup {id}  BY DEF Raised
  <2> QED  BY <2>1, <2>2
<1>2. \A k \in NodeIds : node'[k].leaf = node[k].leaf /\ node'[k].keys = node[k].keys /\ node'[k].sib = node[k].sib /\ lw[k] = low[k]
  BY DEF Raised
<1>3. LeftOf(low, m, n) \/ LeftOf(low, n, m)  BY <1>1, <1>2, Zenon DEF J, Disjoint
<1> QED  BY <1>1, <1>2, <1>3, Zenon DEF LeftOf

\* It takes no latch.
LEMMA RaisedLatched ==
  ASSUME NEW low, J(low), NEW t \in Threads, NEW lw, NEW x, NEW y, NEW id, Raised(low, lw, t, x, y, id)
  PROVE  Latched'
<1>0. Types /\ Latched /\ Linked /\ NodeIds' = NodeIds \cup {id} /\ \A n \in NodeIds : latch'[n] = latch[n]
  BY Zenon DEF J, Raised
<1>1. id \notin Links /\ Links = NodeIds \cup {nullptr}  BY DEF Raised
<1>3. ASSUME NEW u \in Threads \ {t}, NEW n PROVE (Owns(u, n)' => Owns(u, n)) /\ (Reads(u, n)' => Reads(u, n))
  <2>1. th'[u] = th[u]  BY DEF Raised
  <2>2. th[u].pc = "unlatch_upper" => node'[th[u].work].sib = node[th[u].work].sib
    <3> HAVE th[u].pc = "unlatch_upper"
    <3>1. th[u].work \in NodeIds  BY Zenon DEF J, Climbs
    <3> QED  BY <3>1 DEF Raised
  <2> QED  BY <2>1, <2>2, Zenon DEF Owns, Reads, Writes, Work
<1>4. ASSUME NEW u \in Threads PROVE ~ Owns(u, id) /\ ~ Reads(u, id)
  <2>1. Named(th[u]) /\ Climbs(low, u)  BY <1>0, Zenon DEF Linked, J
  <2>2. id \notin {th[u].cur, th[u].work} /\ \A i \in DOMAIN th[u].stack : th[u].stack[i] # id  BY <1>1, <2>1, Zenon DEF Named
  <2>3. th[u].pc = "unlatch_upper" => Work(u).sib # id
    <3> HAVE th[u].pc = "unlatch_upper"
    <3>1. th[u].work \in NodeIds  BY <2>1, Zenon DEF Climbs
    <3> QED  BY <1>0, <1>1, <3>1 DEF Linked, Work
  <2> QED  BY <2>2, <2>3, Zenon DEF Owns, Reads
<1>5. ASSUME NEW n PROVE (Owns(t, n)' => n = x) /\ ~ Reads(t, n)'
  <2>1. th'[t].pc = "latch_upper" /\ th'[t].cur = x  BY DEF Raised, Becomes
  <2> QED  BY <2>1, Zenon DEF Owns, Reads, Splitting
<1>6. ASSUME NEW u \in Threads, NEW n \in NodeIds'
      PROVE  (Owns(u, n)' => latch'[n].excl = u) /\ (Reads(u, n)' => u \in latch'[n].shared)
  <2>1. CASE u = t
    <3>1. Owns(t, x) /\ x \in NodeIds  BY DEF Raised, Owns, Splitting
    <3>2. latch'[x].excl = t  BY <1>0, <3>1 DEF Latched
    <3> QED  BY <1>5, <2>1, <3>2
  <2>2. CASE u # t /\ n \in NodeIds  BY <1>0, <1>3, <2>2 DEF Latched
  <2>3. CASE u # t /\ n = id  BY <1>3, <1>4, <2>3
  <2> QED  BY <1>0, <2>1, <2>2, <2>3, Zenon
<1>7. ASSUME NEW n \in NodeIds', latch'[n].excl # nullptr PROVE latch'[n].shared = {}
  <2>1. CASE n \in NodeIds  BY <1>0, <1>7, <2>1 DEF Latched
  <2>2. CASE n = id  BY <1>7, <2>2 DEF Raised, Free
  <2> QED  BY <1>0, <2>1, <2>2
<1> QED  BY <1>6, <1>7 DEF Latched

\* Every thread finds what it knew, and the thread itself holds the two halves
\* that the new root is to get.
LEMMA RaisedThreads ==
  ASSUME NEW low, J(low), NEW t \in Threads, NEW lw, NEW x, NEW y, NEW id, Raised(low, lw, t, x, y, id), NEW u \in Threads
  PROVE  Calls(u)' /\ Descends(lw, u)' /\ Climbs(lw, u)' /\ Scanning(lw, u)'
<1> DEFINE g == th[u]
<1>0. /\ Types /\ Linked /\ \A m \in NodeIds : lw[m] = low[m]
      /\ Named(th[u]) /\ Calls(u) /\ Descends(low, u) /\ Climbs(low, u) /\ Scanning(low, u)
  BY Zenon DEF J, Raised, Linked
<1>1. /\ NodeIds' = NodeIds \cup {id} /\ content' = content /\ id # nullptr
      /\ \A m \in NodeIds : /\ node'[m].leaf = node[m].leaf /\ node'[m].keys = node[m].keys /\ node'[m].sib = node[m].sib
  BY Zenon DEF Raised
<1>2. \A m \in NodeIds : (Empty(m)' <=> Empty(m)) /\ (Filling(m) => Filling(m)')  BY RaisedFacts, Zenon
<1>3. /\ u # t => th'[u] = th[u]
      /\ u = t => /\ th[t].pc = "split"
                  /\ Becomes(t, "latch_upper", "Insert", g.key, g.arg, g.cur, id, g.path, g.new, TRUE, g.pairs, g.stack)
  BY Zenon DEF Raised
<1>4. /\ th'[u].key = g.key /\ th'[u].arg = g.arg /\ th'[u].cur = g.cur /\ th'[u].path = g.path
      /\ th'[u].new = g.new /\ th'[u].stack = g.stack
      /\ u = t => g.pc = "split" /\ th'[u].pc = "latch_upper" /\ th'[u].work = id /\ th'[u].op = "Insert" /\ th'[u].ret = TRUE
  BY <1>3, Zenon DEF Becomes
<1>5. \A i \in DOMAIN g.path : g.path[i] \in NodeIds  BY <1>0, Zenon DEF Named
<1>6. \A i \in DOMAIN g.stack : g.stack[i] \in NodeIds  BY <1>0 DEF Named
<1>7. Calls(u)'
  <2>1. CASE u # t  BY <1>0, <1>3, <2>1, Zenon DEF Calls
  <2>2. CASE u = t
    <3>1. g.key \in Keys  BY <1>0, <1>4, <2>2, Zenon DEF Calls
    <3> QED  BY <1>4, <2>2, <3>1 DEF Calls, Scans
  <2> QED  BY <2>1, <2>2
<1>8. Descends(lw, u)'
  <2>1. \A i \in DOMAIN g.path : ~ node'[g.path[i]].leaf /\ ~ Empty(g.path[i])'
    <3> SUFFICES ASSUME NEW i \in DOMAIN g.path PROVE ~ node'[g.path[i]].leaf /\ ~ Empty(g.path[i])'
      OBVIOUS
    <3>1. PICK m : m = g.path[i]  OBVIOUS
    <3>2. m \in NodeIds /\ ~ node[m].leaf /\ ~ Empty(m)  BY <1>0, <1>5, <3>1, Zenon DEF Descends
    <3>3. ~ node'[m].leaf /\ ~ Empty(m)'  BY <1>1, <1>2, <3>2, Zenon
    <3>4. Empty(g.path[i])' => Empty(m)'  BY <1>4, <3>1, Zenon DEF Empty
    <3> QED  BY <3>1, <3>3, <3>4, Zenon
  <2>2. CASE u = t  BY <1>4, <2>1, <2>2, Zenon DEF Descends
  <2>3. CASE u # t
    <3>1. g.pc \in {"descend", "leaf", "unlatch_left"} => g.cur \in NodeIds' /\ lw[g.cur] < g.key
      BY <1>0, <1>1, Zenon DEF Descends
    <3>2. g.pc = "descend" => (Empty(g.cur)' => Filling(g.cur)')
      <4> HAVE g.pc = "descend"
      <4>1. PICK m : m = g.cur  BY Zenon
      <4>2. m \in NodeIds /\ (Empty(m) => Filling(m))  BY <1>0, <4>1, Zenon DEF Descends
      <4>3. (Empty(g.cur)' => Empty(m)') /\ (Filling(m)' => Filling(g.cur)')  BY <1>4, <4>1 DEF Empty, Filling
      <4> QED  BY <1>2, <4>2, <4>3, Zenon
    <3>3. g.pc \in {"leaf", "unlatch_left"} => node'[g.cur].leaf
      <4> HAVE g.pc \in {"leaf", "unlatch_left"}
      <4>1. g.cur \in NodeIds /\ node[g.cur].leaf  BY <1>0, Zenon DEF Descends
      <4> QED  BY <1>1, <4>1
    <3>4. g.pc = "unlatch_left" => g.work \in NodeIds' /\ node'[g.work].leaf /\ lw[g.work] < g.key /\ g.work # g.cur
      BY <1>0, <1>1, Zenon DEF Descends
    <3> QED  BY <1>3, <2>1, <2>3, <3>1, <3>2, <3>3, <3>4, Zenon DEF Descends
  <2> QED  BY <2>2, <2>3
<1>9. Scanning(lw, u)'
  <2>1. \A i \in DOMAIN g.stack : node'[g.stack[i]].leaf  BY <1>0, <1>1, <1>6, Zenon DEF Scanning
  <2>2. \A i, j \in DOMAIN g.stack : i < j => lw[g.stack[i]] < lw[g.stack[j]]  BY <1>0, <1>6, Zenon DEF Scanning
  <2>3. CASE u = t  BY <1>4, <2>1, <2>2, <2>3, Zenon DEF Scanning
  <2>4. CASE u # t
    <3>1. g.pc = "scan_next" => g.cur \in NodeIds' /\ node'[g.cur].leaf /\ lw[Last(g.stack)] < lw[g.cur]
      <4> HAVE g.pc = "scan_next"
      <4>1. g.stack # <<>> /\ g.cur \in NodeIds /\ node[g.cur].leaf /\ low[Last(g.stack)] < low[g.cur]
        BY <1>0, Zenon DEF Scanning
      <4>2. g.stack \in Seq(Nat)  BY <1>0, RegisterFacts
      <4>3. Len(g.stack) \in DOMAIN g.stack  BY <4>1, <4>2, NonEmpty
      <4>4. Last(g.stack) \in NodeIds  BY <1>6, <4>3 DEF Last
      <4> QED  BY <1>0, <1>1, <4>1, <4>4, Zenon
    <3> QED  BY <1>0, <1>3, <2>1, <2>2, <2>4, <3>1, Zenon DEF Scanning
  <2> QED  BY <2>3, <2>4
<1>10. Climbs(lw, u)'
  <2>1. ASSUME g.pc \in Splitting \cup {"insert"}
        PROVE  g.cur \in NodeIds' /\ node'[g.cur].keys # <<>> /\ g.new \in NodeIds' /\ node'[g.new].keys # <<>>
    <3>1. g.cur \in NodeIds /\ node[g.cur].keys # <<>> /\ g.new \in NodeIds /\ node[g.new].keys # <<>>
      BY <1>0, <2>1, Zenon DEF Climbs
    <3> QED  BY <1>1, <3>1
  <2>2. ASSUME g.pc \in Splitting PROVE node'[g.cur].sib = g.new /\ Last(node'[g.cur].keys) <= Last(node'[g.new].keys)
    <3>1. g.cur \in NodeIds /\ g.new \in NodeIds /\ node[g.cur].sib = g.new /\ Last(node[g.cur].keys) <= Last(node[g.new].keys)
      BY <1>0, <2>2, Zenon DEF Climbs
    <3> QED  BY <1>1, <3>1, Zenon
  <2>3. CASE u = t
    <3>1. ~ node'[id].leaf  BY RaisedFacts, Zenon
    <3> QED  BY <1>1, <1>4, <2>1, <2>2, <2>3, <3>1, Zenon DEF Climbs, Splitting
  <2>4. CASE u # t
    <3>1. g.pc \in {"latch_upper", "find", "unlatch_upper", "insert"} => g.work \in NodeIds' /\ ~ node'[g.work].leaf
      BY <1>0, <1>1, Zenon DEF Climbs
    <3>2. g.pc = "unlatch" => g.work \in NodeIds' /\ ~ Empty(g.work)'
      <4> HAVE g.pc = "unlatch"
      <4>1. PICK m : m = g.work  OBVIOUS
      <4>2. m \in NodeIds /\ ~ Empty(m)  BY <1>0, <4>1, Zenon DEF Climbs
      <4>3. Empty(g.work)' => Empty(m)'  BY <1>3, <2>4, <4>1, Zenon DEF Empty
      <4> QED  BY <1>1, <1>2, <4>1, <4>2, <4>3, Zenon
    <3>3. g.pc \in {"find", "unlatch_upper"} => g.work # g.cur  BY <1>0, Zenon DEF Climbs
    <3>4. g.pc = "unlatch_upper" => node'[g.work].sib \notin {nullptr, g.cur, g.work}  BY <1>0, <1>1, Zenon DEF Climbs
    <3>5. g.pc \in {"find", "insert"} => (Empty(g.work)' => lw[g.work] = lw[g.cur])
      <4> HAVE g.pc \in {"find", "insert"}
      <4> HAVE Empty(g.work)'
      <4>1. PICK m : m = g.work  OBVIOUS
      <4>2. m \in NodeIds /\ g.cur \in NodeIds  BY <1>0, <4>1, Zenon DEF Climbs, Splitting
      <4>3. Empty(m)'  BY <1>3, <2>4, <4>1, Zenon DEF Empty
      <4>4. low[m] = low[g.cur]  BY <1>0, <1>2, <4>1, <4>2, <4>3, Zenon DEF Climbs
      <4> QED  BY <1>0, <4>1, <4>2, <4>4
    <3>6. g.pc = "insert" => /\ lw[g.new] = g.arg /\ g.arg \in content'
                             /\ node'[g.work].sib # nullptr => g.arg <= Last(node'[g.work].keys)
      <4> HAVE g.pc = "insert"
      <4>1. /\ g.new \in NodeIds /\ low[g.new] = g.arg /\ g.arg \in content /\ g.work \in NodeIds
            /\ node[g.work].sib # nullptr => g.arg <= Last(node[g.work].keys)
        BY <1>0, Zenon DEF Climbs
      <4> QED  BY <1>0, <1>1, <4>1, Zenon
    <3> QED  BY <1>3, <2>1, <2>2, <2>4, <3>1, <3>2, <3>3, <3>4, <3>5, <3>6, Zenon DEF Climbs
  <2> QED  BY <2>3, <2>4
<1> QED  BY <1>7, <1>8, <1>9, <1>10

\* No right half becomes known: not its own, nor that of another thread.
LEMMA RaisedPrivate ==
  ASSUME NEW low, J(low), NEW t \in Threads, NEW lw, NEW x, NEW y, NEW id, Raised(low, lw, t, x, y, id), NEW u \in Threads
  PROVE  Private(u)'
<1>0. /\ Types /\ Linked /\ NodeIds' = NodeIds \cup {id} /\ root' = root /\ id \notin Links /\ Links = NodeIds \cup {nullptr}
      /\ \A v \in Threads : Named(th[v])
  BY Zenon DEF J, Raised, Linked
<1>1. \A n \in NodeIds : /\ node'[n].kids = node[n].kids /\ node'[n].sib = node[n].sib /\ node'[n].upper \in {node[n].upper, id}
  BY Zenon DEF Raised
<1>2. /\ \A v \in Threads \ {t} : th'[v] = th[v]
      /\ th[t].pc = "split" /\ th'[t].pc = "latch_upper" /\ th'[t].cur = th[t].cur /\ th'[t].work = id
      /\ th'[t].path = th[t].path /\ th'[t].new = th[t].new /\ th'[t].stack = th[t].stack
  BY DEF Raised, Becomes
<1>3. node'[id].sib = nullptr /\ node'[id].upper = nullptr /\ node'[id].kids = <<>>  BY RaisedFacts, Zenon
<1> SUFFICES ASSUME th'[u].pc \in Splitting PROVE Private(u)'  BY Zenon DEF Private
<1>4. th[u].pc \in Splitting  BY <1>2 DEF Splitting
<1>5. Private(u) /\ Climbs(low, u)  BY DEF J
<1>6. PICK z : z = th[u].new  OBVIOUS
<1>7. z \in NodeIds /\ z # id /\ z # nullptr  BY <1>0, <1>4, <1>5, <1>6, LinksAre, Zenon DEF Climbs
<1>8. /\ z # root /\ z # th[u].cur /\ z # th[u].work
      /\ \A i \in DOMAIN th[u].path : th[u].path[i] # z
      /\ \A n \in NodeIds : /\ n # th[u].cur => node[n].sib # z
                            /\ node[n].upper # z
                            /\ \A i \in DOMAIN node[n].kids : node[n].kids[i] # z
      /\ \A v \in Threads \ {u} : ~ Uses(v, z)
  BY <1>4, <1>5, <1>6, Zenon DEF Private
<1>9. ASSUME NEW n \in NodeIds'
      PROVE  /\ n # th[u].cur => node'[n].sib # z
             /\ node'[n].upper # z
             /\ \A i \in DOMAIN node'[n].kids : node'[n].kids[i] # z
  <2>1. CASE n \in NodeIds  BY <1>1, <1>7, <1>8, <2>1
  <2>2. CASE n = id  BY <1>3, <1>7, <2>2
  <2> QED  BY <1>0, <2>1, <2>2, Zenon
<1>10. th'[u].cur = th[u].cur /\ th'[u].path = th[u].path /\ th'[u].new = z /\ th'[u].work \in {th[u].work, id}
  BY <1>2, <1>6
<1>11. ASSUME NEW v \in Threads \ {u} PROVE ~ Uses(v, th[u].new)'
  <2>1. ~ Uses(v, z)  BY <1>8
  <2>2. CASE v # t
    <3>1. th'[v] = th[v]  BY <1>2, <2>2
    <3> QED  BY <1>10, <2>1, <3>1, Zenon DEF Uses
  <2>3. CASE v = t  BY <1>2, <1>7, <1>10, <2>1, <2>3, Zenon DEF Uses
  <2> QED  BY <2>2, <2>3
<1>12. z # th'[u].work  BY <1>7, <1>8, <1>10
<1> QED  BY <1>0, <1>8, <1>9, <1>10, <1>11, <1>12, Zenon DEF Private

\* The new root is empty and known to its maker only, through the halves.
LEMMA RaisedRoots ==
  ASSUME NEW low, J(low), NEW t \in Threads, NEW lw, NEW x, NEW y, NEW id, Raised(low, lw, t, x, y, id)
  PROVE  Roots(lw)'
<1>0. /\ Types /\ Linked /\ Roots(low) /\ root \in NodeIds /\ root' = root /\ NodeIds' = NodeIds \cup {id}
      /\ id \notin Links /\ id # nullptr /\ Links = NodeIds \cup {nullptr} /\ id \notin NodeIds
      /\ \A m \in NodeIds : lw[m] = low[m]
      /\ \A v \in Threads : Climbs(low, v) /\ Named(th[v])
  BY Zenon DEF J, Raised, Types, Linked
<1>1. /\ x = root /\ x \in NodeIds /\ y \in NodeIds /\ x = th[t].cur /\ y = th[t].new /\ lw[id] = low[x]
      /\ \A n \in NodeIds : /\ n \in {x, y} => node'[n].upper = id
                            /\ n \notin {x, y} => node'[n].upper = node[n].upper
  BY Zenon DEF Raised
<1>2. /\ \A v \in Threads \ {t} : th'[v] = th[v]
      /\ th[t].pc = "split" /\ th'[t].pc = "latch_upper" /\ th'[t].cur = x /\ th'[t].work = id /\ th'[t].new = y
  BY DEF Raised, Becomes
<1>3. /\ node'[id].upper = nullptr /\ Empty(id)' /\ \A v \in Threads : ~ Creates(v)
      /\ \A v \in Threads \ {t} : th[v].pc \in Splitting => th[v].cur # root
  BY RaisedFacts, Zenon
<1>4. \A m \in NodeIds : (Empty(m)' <=> Empty(m)) /\ (Filling(m) => Filling(m)')  BY RaisedFacts, Zenon
<1>5. Creates(t)' /\ \A v \in Threads \ {t} : ~ Creates(v)'
  BY <1>0, <1>1, <1>2, <1>3, Zenon DEF Creates, Splitting
<1>6. lw[root] = 0 /\ (Empty(root)' => Filling(root)')
  <2>1. PICK m : m = root  OBVIOUS
  <2>2. m \in NodeIds /\ low[m] = 0 /\ (Empty(m) => Filling(m))  BY <1>0, <2>1, Zenon DEF Roots
  <2>3. (Empty(root)' => Empty(m)') /\ (Filling(m)' => Filling(root)')  BY <1>0, <2>1 DEF Empty, Filling
  <2> QED  BY <1>0, <1>4, <2>1, <2>2, <2>3, Zenon
<1>7. /\ Empty(th[t].work)' /\ lw[th'[t].work] = lw[th'[t].cur] /\ th'[t].work # root'
      /\ node'[th'[t].cur].upper = th'[t].work
  <2>1. Empty(th[t].work)'  BY <1>2, <1>3 DEF Empty
  <2> QED  BY <1>0, <1>1, <1>2, <2>1
<1>8. \A w \in Threads \ {t} : th'[w].pc \in {"latch_upper", "find", "unlatch_upper", "insert"} => th'[w].work # th'[t].work
  <2> TAKE w \in Threads \ {t}
  <2>1. th'[w] = th[w] /\ th[w].work \in Links  BY <1>0, <1>2 DEF Named
  <2> QED  BY <1>0, <1>2, <2>1, Zenon
<1>9. \A v \in Threads : Creates(v)' =>
         /\ Empty(th[v].work)' /\ lw[th'[v].work] = lw[th'[v].cur] /\ th'[v].work # root'
         /\ node'[th'[v].cur].upper = th'[v].work
         /\ \A w \in Threads \ {v} : th'[w].pc \in {"latch_upper", "find", "unlatch_upper", "insert"} => th'[w].work # th'[v].work
  BY <1>5, <1>7, <1>8, Zenon
<1>10. ASSUME NEW v \in Threads, th'[v].pc = "latch_upper", th'[v].cur # root', Empty(th[v].work)'
       PROVE  Filling(th[v].work)'
  <2>1. v # t /\ th'[v] = th[v]  BY <1>0, <1>1, <1>2, <1>10
  <2>2. PICK m : m = th[v].work  OBVIOUS
  <2>3. m \in NodeIds /\ (Empty(m) => Filling(m))  BY <1>0, <1>10, <2>1, <2>2, Zenon DEF Roots, Climbs
  <2>4. Empty(m)' /\ (Filling(m)' => Filling(th[v].work)')  BY <1>10, <2>1, <2>2, Zenon DEF Empty, Filling
  <2> QED  BY <1>4, <2>3, <2>4
<1>11. ASSUME NEW n \in NodeIds', node'[n].upper # nullptr, Empty(node[n].upper)'
       PROVE  \/ Filling(node[n].upper)'
              \/ \E v \in Threads : Creates(v)' /\ th'[v].work = node'[n].upper /\ n \in {th'[v].cur, th'[v].new}
  <2>1. PICK z : z = node'[n].upper  OBVIOUS
  <2>2. Empty(z)' /\ (Filling(z)' => Filling(node[n].upper)') /\ z # nullptr  BY <1>11, <2>1 DEF Empty, Filling
  <2>3. n \in NodeIds  BY <1>0, <1>3, <1>11
  <2>4. CASE n \in {x, y}
    <3>1. node'[n].upper = id  BY <1>1, <2>3, <2>4
    <3> QED  BY <1>2, <1>5, <2>4, <3>1
  <2>5. CASE n \notin {x, y}
    <3>1. z = node[n].upper  BY <1>1, <2>1, <2>3, <2>5
    <3>2. z \in NodeIds  BY <1>0, <2>2, <2>3, <3>1, Zenon DEF Linked
    <3>3. Empty(z)  BY <1>4, <2>2, <3>2
    <3>4. Filling(z)  BY <1>0, <1>3, <2>2, <2>3, <3>1, <3>3, Zenon DEF Roots
    <3> QED  BY <1>4, <2>2, <3>2, <3>4
  <2> QED  BY <2>4, <2>5
<1>12. ASSUME NEW n \in NodeIds', node'[n].upper = nullptr
       PROVE  n = root' \/ \E v \in Threads : \/ Creates(v)' /\ n = th'[v].work
                                              \/ th'[v].pc = "split" /\ th'[v].cur = root' /\ n = th'[v].new
  <2>1. CASE n = id  BY <1>2, <1>5, <2>1
  <2>2. CASE n \in NodeIds
    <3>1. n \notin {x, y} /\ node[n].upper = nullptr  BY <1>0, <1>1, <1>12, <2>2
    <3>2. n = root \/ \E v \in Threads : \/ Creates(v) /\ n = th[v].work
                                         \/ th[v].pc = "split" /\ th[v].cur = root /\ n = th[v].new
      BY <1>0, <2>2, <3>1, Zenon DEF Roots
    <3>3. FALSE  BY <1>1, <1>3, <3>1, <3>2 DEF Splitting
    <3> QED  BY <3>3
  <2> QED  BY <1>0, <2>1, <2>2, Zenon
<1> QED  BY <1>0, <1>6, <1>9, <1>10, <1>11, <1>12, Zenon DEF Roots

\* Making a new root keeps the invariant.
LEMMA RaisedInv ==
  ASSUME NEW low, J(low), NEW t \in Threads, NEW lw, NEW x, NEW y, NEW id, Raised(low, lw, t, x, y, id)
  PROVE  J(lw)'
<1>1. lw \in [NodeIds' -> Nat] /\ Types'  BY Zenon DEF Raised
<1>2. Linked' /\ Latched' /\ Disjoint(lw)' /\ Roots(lw)'  BY RaisedLinked, RaisedLatched, RaisedDisjoint, RaisedRoots
<1>3. \A n \in NodeIds' : NodeOK(lw, n)'  BY RaisedNodes
<1>4. \A u \in Threads : Calls(u)' /\ Descends(lw, u)' /\ Climbs(lw, u)' /\ Scanning(lw, u)' /\ Private(u)'
  BY RaisedThreads, RaisedPrivate
<1>p. PlaceIsFirst'  BY DEF J, PlaceIsFirst
<1> QED  BY <1>1, <1>2, <1>3, <1>4, <1>p DEF J
-----------------------------------------------------------------------------
(* What the steps on the way down do *)

\* The steps that write no node.
Walk(t) == \/ Begin(t) \/ Descend(t) \/ LatchLeaf(t) \/ MoveRight(t) \/ LatchSibling(t) \/ UnlatchLeft(t)
           \/ FoundOrNot(t) \/ InsertRefused(t)
           \/ PopPath(t) \/ TrackUpper(t) \/ LatchUpper(t) \/ LatchUpperSibling(t)
           \/ UnlatchUpper(t) \/ UnlatchChild(t) \/ UnlatchLast(t)
           \/ ScanEmpty(t) \/ ScanStart(t) \/ ScanLeaf(t) \/ ScanNext(t) \/ ScanEnd(t)
           \/ Release(t) \/ Return(t)
\* An inner node that a thread may read has entries.
LEMMA NotEmpty ==
  ASSUME NEW low, J(low), NEW t \in Threads, At(t, "descend"), ~ Cur(t).leaf, CanShare(th[t].cur)
  PROVE  th[t].cur \in NodeIds /\ low[th[t].cur] < th[t].key /\ ~ Empty(th[t].cur)
<1>1. Descends(low, t) /\ Latched /\ Linked /\ Types  BY DEF J
<1>2. th[t].cur \in NodeIds /\ low[th[t].cur] < th[t].key  BY <1>1 DEF Descends, At
<1>3. ASSUME Empty(th[t].cur) PROVE FALSE
  <2>1. PICK u \in Threads : th[u].pc \in {"find", "insert"} /\ th[u].work = th[t].cur
    BY <1>1, <1>3 DEF Descends, At, Filling
  <2>2. latch[th[t].cur].excl = u  BY <1>1, <1>2, <2>1 DEF Latched, Owns
  <2> QED  BY <2>2, BLinkTreeAssumption DEF CanShare, nullptr
<1> QED  BY <1>2, <1>3

\* The next node of a descent.
PathOn(t) == IF th[t].op = "Insert" THEN Append(th[t].path, th[t].cur) ELSE th[t].path
\* The ways on from an inner node: to the sibling, ...
Right(low, t) == /\ beyond(Cur(t), th[t].key) /\ Cur(t).sib \in NodeIds /\ low[Cur(t).sib] < th[t].key
                 /\ ~ Empty(Cur(t).sib)
\* ... back to the caller of an Insert whose key is a separator, ...
Found(t) == ~ beyond(Cur(t), th[t].key) /\ th[t].op = "Insert" /\ holds(Cur(t), th[t].key)
\* ... or down to a child.
Under(low, t, c) == /\ low[c] < th[t].key /\ ~ Empty(c)
                    /\ \E i \in DOMAIN Cur(t).kids : c = Cur(t).kids[i]
\* Descend goes one of these ways, and to a node that starts below the key.
LEMMA NextNode ==
  ASSUME NEW low, J(low), NEW t \in Threads, Descend(t)
  PROVE  /\ th[t].cur \in NodeIds /\ ~ Empty(th[t].cur) /\ ~ Cur(t).leaf
         /\ \/ Right(low, t) /\ Reg(t, [th[t] EXCEPT !.cur = Cur(t).sib])
            \/ Found(t) /\ Reg(t, [th[t] EXCEPT !.pc = "return"])
            \/ \E c \in NodeIds : Under(low, t, c) /\ Reg(t, [th[t] EXCEPT !.cur = c, !.path = PathOn(t)])
<1> DEFINE n == Cur(t)
           k == th[t].key
<1>1. th[t].cur \in NodeIds /\ low[th[t].cur] < k /\ ~ Empty(th[t].cur) /\ ~ n.leaf
  BY NotEmpty DEF Descend
<1>2. Types /\ Linked /\ NodeOK(low, th[t].cur)  BY <1>1 DEF J
<1>3. ASSUME beyond(n, k) PROVE Right(low, t) /\ Reg(t, [th[t] EXCEPT !.cur = Cur(t).sib])
  <2>1. n.sib # nullptr /\ Last(n.keys) < k  BY <1>3 DEF beyond
  <2>2. n.sib \in NodeIds  BY <1>1, <1>2, <2>1, LinksAre DEF Linked, Cur
  <2>3. low[n.sib] < k /\ ~ Empty(n.sib)  BY <1>2, <2>1 DEF NodeOK, Continued, Cur, Empty
  <2> QED  BY <1>3, <2>2, <2>3, Zenon DEF Descend, Right
<1>4. ASSUME Found(t) PROVE Reg(t, [th[t] EXCEPT !.pc = "return"])
  BY <1>4, Zenon DEF Descend, Found
<1>5. ASSUME ~ beyond(n, k), ~ Found(t)
      PROVE  \E c \in NodeIds : Under(low, t, c) /\ Reg(t, [th[t] EXCEPT !.cur = c, !.path = PathOn(t)])
  <2> DEFINE i == NodeScan(n, k)
  <2>1. i \in DOMAIN n.kids /\ n.kids[i] \in NodeIds /\ low[n.kids[i]] < k
    BY <1>1, <1>2, <1>5, Child, RegisterFacts DEF Cur
  <2>2. Routes(low, th[t].cur)  BY <1>2 DEF NodeOK
  <2>3. ~ Empty(n.kids[i])  BY <1>1, <2>1, <2>2, Zenon DEF Routes, Cur
  <2>4. Under(low, t, n.kids[i])  BY <2>1, <2>3, Zenon DEF Under
  <2>5. Reg(t, [th[t] EXCEPT !.cur = n.kids[i], !.path = PathOn(t)])  BY <1>5, Zenon DEF Descend, Found, PathOn
  <2> QED  BY <2>1, <2>4, <2>5, Zenon
<1> QED  BY <1>1, <1>3, <1>4, <1>5, Zenon

\* A thread begins an operation of the workload.
LEMMA NextIsOperation ==
  ASSUME Types, NEW t \in Threads, NEW o \in NextOp(t)
  PROVE  o \in Operations
<1>0. load \in Seq(Operations)  BY DEF Types
<1>1. CASE Loading  BY <1>0, <1>1, FirstAndRest DEF NextOp, Loading
<1>2. CASE ~ Loading
  <2>1. ops[t] \in Seq(SUBSET Operations) /\ th[t].done \in Nat  BY RegisterFacts DEF Types
  <2>2. CASE th[t].done < Len(ops[t])
    <3>1. th[t].done + 1 \in 1 .. Len(ops[t])  BY <2>1, <2>2
    <3>2. ops[t][th[t].done + 1] \in SUBSET Operations  BY <2>1, <3>1
    <3> QED  BY <1>2, <2>2, <3>2 DEF NextOp
  <2> QED  BY <1>2, <2>2 DEF NextOp
<1> QED  BY <1>1, <1>2

\* The steps that Effects leaves out.
Calling(t, o) ==
  LET g == th[t] IN
  /\ o \in Operations
  /\ Becomes(t, "descend", o[1], o[2], o[3], root, g.work, g.path, g.new, g.ret, g.pairs, g.stack)
\* The registers of t after a step on the way down.
Moving(t, l, c, s) ==
  LET g == th[t] IN
  Becomes(t, l, g.op, g.key, g.arg, c, g.work, s, g.new, g.ret, g.pairs, g.stack)
\* What the steps write that do depend on a search.
LEMMA MoreEffects ==
  ASSUME NEW low, J(low), NEW t \in Threads
  PROVE  LET g == th[t] IN
         /\ Begin(t) => \E o : Calling(t, o)
         /\ Descend(t) => \/ Right(low, t) /\ Moving(t, "descend", Cur(t).sib, g.path)
                          \/ Found(t) /\ Moving(t, "return", g.cur, g.path)
                          \/ \E c \in NodeIds : Under(low, t, c) /\ Moving(t, "descend", c, PathOn(t))
         /\ Release(t) => Becomes(t, IF Len(g.stack) = 1 THEN "return" ELSE "release", g.op, g.key, g.arg, g.cur, g.work,
                                  g.path, g.new, g.ret, g.pairs, Front(g.stack))
         /\ Return(t) => Becomes(t, "idle", "none", 0, 0, nullptr, nullptr, <<>>, nullptr, FALSE, <<>>, <<>>)
<1>0. Types  BY DEF J
<1>1. \A r : Reg(t, r) => th'[t] = r  BY <1>0 DEF Types, Reg
<1>2. th[t] \in Registers  BY <1>0, RegisterFacts
<1>3. ASSUME Begin(t) PROVE \E o : Calling(t, o)
  <2>1. PICK o \in NextOp(t) :
          Reg(t, [th[t] EXCEPT !.pc = "descend", !.op = o[1], !.key = o[2], !.arg = o[3],
                               !.cur = root, !.done = IF Loading THEN 0 ELSE @ + 1])
    BY <1>3, Zenon DEF Begin
  <2>2. o \in Operations  BY <1>0, NextIsOperation
  <2>3. Calling(t, o)  BY <1>1, <1>2, <2>1, <2>2, ZenonT(30) DEF Calling, Becomes, Registers
  <2> QED  BY <2>3
<1>4. ASSUME Descend(t)
      PROVE  \/ Right(low, t) /\ Moving(t, "descend", Cur(t).sib, th[t].path)
             \/ Found(t) /\ Moving(t, "return", th[t].cur, th[t].path)
             \/ \E c \in NodeIds : Under(low, t, c) /\ Moving(t, "descend", c, PathOn(t))
  <2>0. th[t].pc = "descend"  BY <1>4 DEF Descend, At
  <2>1. \A c, s : /\ Reg(t, [th[t] EXCEPT !.cur = c]) => Moving(t, "descend", c, th[t].path)
                  /\ Reg(t, [th[t] EXCEPT !.cur = c, !.path = s]) => Moving(t, "descend", c, s)
                  /\ Reg(t, [th[t] EXCEPT !.pc = "return"]) => Moving(t, "return", th[t].cur, th[t].path)
    BY <1>1, <1>2, <2>0, ZenonT(30) DEF Becomes, Moving, Registers
  <2> QED  BY <1>4, <2>1, NextNode, Zenon
<1>5. Release(t) => Becomes(t, IF Len(th[t].stack) = 1 THEN "return" ELSE "release", th[t].op, th[t].key, th[t].arg,
                            th[t].cur, th[t].work, th[t].path, th[t].new, th[t].ret, th[t].pairs, Front(th[t].stack))
  BY <1>1, <1>2, ZenonT(30) DEF Release, Becomes, Registers, At
<1>6. Return(t) => Becomes(t, "idle", "none", 0, 0, nullptr, nullptr, <<>>, nullptr, FALSE, <<>>, <<>>)
  BY <1>1, <1>2, ZenonT(30) DEF Return, Becomes, Idle
<1> QED  BY <1>3, <1>4, <1>5, <1>6, Zenon

\* What a scan takes are keys.
LEMMA Taken ==
  ASSUME NEW low, J(low), NEW t \in Threads, At(t, "scan")
  PROVE  /\ th[t].cur \in NodeIds /\ taken(t) \in Seq(Keys)
         /\ start(t) \in Nat \ {0} /\ stop(t) \in Int /\ stop(t) <= Len(Cur(t).keys)
<1>1. Types /\ Linked /\ Scanning(low, t)  BY DEF J
<1>2. th[t].stack \in Seq(Nat) /\ th[t].stack # <<>> /\ th[t].cur = Last(th[t].stack)
  BY <1>1, RegisterFacts DEF Scanning, At
<1>3. th[t].cur \in NodeIds
  BY <1>1, <1>2, FrontLast, RegisterFacts DEF Linked, Named
<1>4. Cur(t).keys \in Seq(Keys) /\ Cur(t).keys \in Seq(Nat) /\ Len(Cur(t).keys) \in Nat
  BY <1>1, <1>3, NodeFacts DEF Cur
<1>5. th[t].key \in Nat /\ th[t].arg \in Nat /\ th[t].pairs \in Seq(Keys) /\ Len(th[t].pairs) \in Nat
  BY <1>1, RegisterFacts
<1>6. \A k \in Nat : NodeScan(Cur(t), k) \in 1 .. Len(Cur(t).keys) + 1  BY <1>4, PlaceFacts DEF NodeScan
<1>7. start(t) \in Nat \ {0}
  <2>1. NodeScan(Cur(t), th[t].key) \in 1 .. Len(Cur(t).keys) + 1  BY <1>5, <1>6, Zenon
  <2>2. NodeScan(Cur(t), th[t].key) \in Nat \ {0}  BY <2>1, <1>4
  <2> QED  BY <2>2 DEF start
<1>8. stop(t) \in Int /\ stop(t) <= Len(Cur(t).keys)
  <2>1. CASE th[t].op = "ScanFixed"
    <3>1. start(t) + th[t].arg - Len(th[t].pairs) - 1 \in Int  BY <1>5, <1>7
    <3> QED  BY <2>1, <3>1, <1>4, LeastOfTwo DEF stop
  <2>2. CASE th[t].op # "ScanFixed"
    <3>1. NodeScan(Cur(t), th[t].arg) \in 1 .. Len(Cur(t).keys) + 1  BY <1>5, <1>6
    <3>2. stop(t) = NodeScan(Cur(t), th[t].arg) - 1  BY <2>2 DEF stop
    <3> QED  BY <3>1, <3>2, <1>4
  <2> QED  BY <2>1, <2>2
<1>9. SubSeq(Cur(t).keys, start(t), stop(t)) \in Seq(Keys)
  <2>1. \A i \in start(t) .. stop(t) : Cur(t).keys[i] \in Keys  BY <1>4, <1>7, <1>8
  <2> QED  BY <2>1, <1>7, <1>8, Sliced
<1> QED  BY <1>3, <1>5, <1>7, <1>8, <1>9, Joined DEF taken
-----------------------------------------------------------------------------
(* The steps that add to the nodes *)

\* The node that gets the entry is held by the thread.
Fills(t, c) == \/ th[t].pc = "leaf" /\ c = th[t].cur /\ node[c].leaf
               \/ th[t].pc = "insert" /\ c = th[t].work
\* Node m, the old node c or its right half, after the step.
Half(lw, t, c, m) ==
  /\ node'[m].leaf = node[c].leaf /\ node'[m].upper = node[c].upper /\ node'[m].keys # <<>>
  /\ Ordered(lw, m)' /\ Routes(lw, m)'
  /\ \A i \in DOMAIN node'[m].kids :
       /\ node'[m].kids[i] \in NodeIds
       /\ node'[m].kids[i] \in {th[t].cur, th[t].new} \/ \E j \in DOMAIN node[c].kids : node'[m].kids[i] = node[c].kids[j]
\* The registers of t when its entry is in c; new is the right half, if there is one.
Adds(l, t, c, new) ==
  Becomes(t, l, "Insert", th[t].key, th[t].arg, c, c, th[t].path, new, TRUE, th[t].pairs, th[t].stack)
\* The entry fits in.
FitsIn(t, c) ==
  /\ NodeIds' = NodeIds /\ node'[c].sib = node[c].sib
  /\ node[c].sib # nullptr => Last(node'[c].keys) = Last(node[c].keys)
  /\ Adds("unlatch", t, c, nullptr)
\* The node is split: id is its new right half.
IsSplit(lw, t, c, id) ==
  /\ NodeIds' = NodeIds \cup {id} /\ latch'[id] = Free
  /\ Half(lw, t, c, id) /\ node'[c].sib = id /\ node'[id].sib = node[c].sib
  /\ lw[id] = Last(node'[c].keys) /\ lw[id] <= Last(node'[id].keys)
  /\ node[c].leaf => lw[c] < lw[id]
  /\ node[c].sib # nullptr => Last(node'[id].keys) = Last(node[c].keys)
  /\ Adds("split", t, c, id)
\* What InsertKey and InsertChild do, with or without a split: c keeps its bound,
\* and a right half starts where c now ends.
Grows(low, lw, t, c, id) ==
  /\ c \in NodeIds /\ Fills(t, c) /\ th[t].op = "Insert"
  /\ Types' /\ root' = root
  /\ lw \in [NodeIds' -> Nat] /\ \A n \in NodeIds : lw[n] = low[n]
  /\ \A n \in NodeIds \ {c} : node'[n] = node[n]
  /\ \A n \in NodeIds : latch'[n] = latch[n]
  /\ \A u \in Threads \ {t} : th'[u] = th[u]
  /\ content \subseteq content'
  /\ Half(lw, t, c, c)
  /\ id = NewId /\ (FitsIn(t, c) \/ IsSplit(lw, t, c, id))
\* What the proofs below use of such a step.
LEMMA GrowthFacts ==
  ASSUME NEW low, J(low), NEW t \in Threads, NEW lw, NEW c, NEW id, Grows(low, lw, t, c, id)
  PROVE  /\ Owns(t, c) /\ Uses(t, c) /\ c \in NodeIds
         /\ \A u \in Threads \ {t} : ~ Owns(u, c) /\ ~ Reads(u, c)
         /\ id \notin Links /\ id \notin NodeIds /\ id # nullptr /\ NodeIds \subseteq Links /\ Links = NodeIds \cup {nullptr}
         /\ NodeIds \subseteq NodeIds' /\ Links \subseteq Links'
         /\ \A n \in NodeIds' : n \in NodeIds \/ (n = id /\ IsSplit(lw, t, c, id))
         /\ \A n \in NodeIds : /\ node'[n].leaf = node[n].leaf /\ node'[n].upper = node[n].upper
                               /\ node[n].keys # <<>> => node'[n].keys # <<>>
         /\ \A n \in NodeIds' : Empty(n)' => n \in NodeIds /\ n # c /\ Empty(n)
         /\ \A n \in NodeIds : Empty(n)' /\ Filling(n) => Filling(n)'
<1>0. Types /\ Types' /\ c \in NodeIds  BY DEF J, Grows
<1>1. Owns(t, c) /\ Uses(t, c)  BY DEF Grows, Fills, Owns, Uses, Writes
<1>2. \A u \in Threads \ {t} : ~ Owns(u, c) /\ ~ Reads(u, c)  BY <1>0, <1>1, OwnedAlone
<1>3. id \notin Links /\ id \notin NodeIds /\ id # nullptr /\ NodeIds \subseteq Links /\ Links = NodeIds \cup {nullptr}
  <2>1. id = Len(node) + 1  BY Zenon DEF Grows, NewId
  <2>2. NodeIds = 1 .. Len(node) /\ Len(node) \in Nat  BY <1>0, NodeFacts, Zenon
  <2> QED  BY <2>1, <2>2 DEF Links, nullptr
<1>4. NodeIds \subseteq NodeIds' /\ \A n \in NodeIds' : n \in NodeIds \/ (n = id /\ IsSplit(lw, t, c, id))
  BY Zenon DEF Grows, FitsIn, IsSplit
<1>5. Links \subseteq Links'
  <2>1. NodeIds' = 1 .. Len(node') /\ Len(node') \in Nat /\ NodeIds = 1 .. Len(node) /\ Len(node) \in Nat
    BY <1>0, NodeFacts DEF Types, NodeIds
  <2>2. Links' = NodeIds' \cup {0}  BY <2>1 DEF Links
  <2> QED  BY <1>3, <1>4, <2>2 DEF nullptr
<1>6. \A n \in NodeIds : /\ node'[n].leaf = node[n].leaf /\ node'[n].upper = node[n].upper
                         /\ node[n].keys # <<>> => node'[n].keys # <<>>
  BY Zenon DEF Grows, Half
<1>7. ASSUME NEW n \in NodeIds', Empty(n)' PROVE n \in NodeIds /\ n # c /\ Empty(n)
  <2>1. n # c  BY <1>7 DEF Grows, Half, Empty
  <2>2. n \in NodeIds  BY <1>3, <1>4, <1>7 DEF IsSplit, Half, Empty
  <2> QED  BY <1>6, <1>7, <2>1, <2>2 DEF Empty
<1>8. ASSUME NEW n \in NodeIds, Empty(n)', Filling(n) PROVE Filling(n)'
  <2>1. n # c  BY <1>4, <1>7, <1>8
  <2>2. PICK v \in Threads : th[v].pc \in {"find", "insert"} /\ th[v].work = n  BY <1>8 DEF Filling
  <2>3. v # t  BY <2>1, <2>2 DEF Grows, Fills
  <2>4. th'[v] = th[v]  BY <2>3 DEF Grows
  <2> QED  BY <2>2, <2>4 DEF Filling
<1> QED  BY <1>0, <1>1, <1>2, <1>3, <1>4, <1>5, <1>6, <1>7, <1>8

\* Links still name nodes.
LEMMA GrowsLinked ==
  ASSUME NEW low, J(low), NEW t \in Threads, NEW lw, NEW c, NEW id, Grows(low, lw, t, c, id)
  PROVE  Linked'
<1>0. Linked /\ c \in NodeIds  BY Zenon DEF J, Grows
<1>1. /\ NodeIds \subseteq NodeIds' /\ Links \subseteq Links' /\ NodeIds \subseteq Links /\ nullptr \in Links
      /\ \A n \in NodeIds' : n \in NodeIds \/ (n = id /\ IsSplit(lw, t, c, id))
      /\ \A n \in NodeIds : node'[n].upper = node[n].upper
  BY GrowthFacts, Zenon
<1>2. IsSplit(lw, t, c, id) => id \in NodeIds' /\ id \in Links'
  <2>1. Types'  BY Zenon DEF Grows
  <2>2. NodeIds' = 1 .. Len(node')  BY <2>1 DEF Types, NodeIds
  <2>3. NodeIds' \subseteq Links'  BY <2>1, <2>2 DEF Links, Types
  <2> QED  BY <2>3 DEF IsSplit
<1>3. ASSUME NEW n \in NodeIds'
      PROVE  /\ node'[n].sib \in Links' /\ node'[n].upper \in Links'
             /\ \A i \in DOMAIN node'[n].kids : node'[n].kids[i] \in NodeIds'
  <2>1. CASE n \in NodeIds \ {c}
    <3>1. node'[n] = node[n]  BY <2>1 DEF Grows
    <3> QED  BY <1>0, <1>1, <2>1, <3>1, Zenon DEF Linked
  <2>2. CASE n = c
    <3>1. node'[c].upper \in Links'  BY <1>0, <1>1 DEF Linked
    <3>2. node'[c].sib \in Links'
      <4>1. node'[c].sib = node[c].sib \/ (node'[c].sib = id /\ IsSplit(lw, t, c, id))  BY Zenon DEF Grows, FitsIn, IsSplit
      <4> QED  BY <1>0, <1>1, <1>2, <4>1 DEF Linked
    <3>3. \A i \in DOMAIN node'[c].kids : node'[c].kids[i] \in NodeIds'  BY <1>1 DEF Grows, Half
    <3> QED  BY <2>2, <3>1, <3>2, <3>3
  <2>3. CASE n = id /\ IsSplit(lw, t, c, id)
    <3>1. node'[id].sib = node[c].sib /\ Half(lw, t, c, id)  BY <2>3 DEF IsSplit
    <3>2. node'[id].upper = node[c].upper /\ \A i \in DOMAIN node'[id].kids : node'[id].kids[i] \in NodeIds
      BY <3>1 DEF Half
    <3> QED  BY <1>0, <1>1, <2>3, <3>1, <3>2 DEF Linked
  <2> QED  BY <1>1, <2>1, <2>2, <2>3
<1>4. ASSUME NEW u \in Threads PROVE Named(th[u])'
  <2>1. Named(th[u])  BY <1>0 DEF Linked
  <2>2. CASE u # t
    <3>1. th'[u] = th[u]  BY <2>2 DEF Grows
    <3> QED  BY <1>1, <2>1, <3>1, Zenon DEF Named
  <2>3. CASE u = t
    <3>1. /\ th'[t].cur = c /\ th'[t].work = c /\ th'[t].path = th[t].path /\ th'[t].stack = th[t].stack
          /\ th'[t].new = nullptr \/ (th'[t].new = id /\ IsSplit(lw, t, c, id))
      BY Zenon DEF Grows, FitsIn, IsSplit, Adds, Becomes
    <3>2. th'[t].new \in Links'  BY <1>1, <1>2, <3>1, Zenon
    <3>3. c \in Links'  BY <1>0, <1>1
    <3>4. \A i \in DOMAIN th[t].path : th[t].path[i] \in NodeIds'  BY <1>1, <2>1, <2>3 DEF Named
    <3>5. \A i \in DOMAIN th[t].stack : th[t].stack[i] \in NodeIds'  BY <1>1, <2>1, <2>3 DEF Named
    <3> QED  BY <2>3, <3>1, <3>2, <3>3, <3>4, <3>5 DEF Named
  <2> QED  BY <2>2, <2>3
<1> QED  BY <1>3, <1>4 DEF Linked

\* Every node is in order, ends where its sibling starts, and routes.
LEMMA GrowsNodes ==
  ASSUME NEW low, J(low), NEW t \in Threads, NEW lw, NEW c, NEW id, Grows(low, lw, t, c, id), NEW n \in NodeIds'
  PROVE  NodeOK(lw, n)'
<1>0. Types /\ Linked /\ c \in NodeIds /\ \A m \in NodeIds : NodeOK(low, m) /\ lw[m] = low[m]  BY DEF J, Grows
<1>1. /\ NodeIds \subseteq NodeIds' /\ NodeIds \subseteq Links /\ Links = NodeIds \cup {nullptr}
      /\ \A m \in NodeIds' : m \in NodeIds \/ (m = id /\ IsSplit(lw, t, c, id))
      /\ id # nullptr
  BY GrowthFacts
<1>2. \A m \in NodeIds : /\ node'[m].leaf = node[m].leaf /\ node'[m].upper = node[m].upper
                         /\ node[m].keys # <<>> => node'[m].keys # <<>>
  BY GrowthFacts
<1>3. \A m \in NodeIds : ~ Empty(m) => ~ Empty(m)'  BY <1>1, GrowthFacts
<1>4. content \subseteq content'  BY DEF Grows
<1>5. ASSUME NEW m \in NodeIds PROVE node[m].upper # nullptr => ~ node'[node[m].upper].leaf
  <2> HAVE node[m].upper # nullptr
  <2>1. node[m].upper \in NodeIds /\ ~ node[node[m].upper].leaf  BY <1>0, <1>1 DEF Linked, NodeOK
  <2> QED  BY <1>2, <2>1
\* The old sibling of a node.
<1>6. ASSUME NEW m \in NodeIds, node[m].sib # nullptr
      PROVE  /\ lw[node[m].sib] = Last(node[m].keys)
             /\ node'[node[m].sib].leaf = node[m].leaf /\ node'[node[m].sib].keys # <<>>
  BY <1>0, <1>2, <1>6, Sibling
<1>7. CASE n \in NodeIds \ {c}
  <2>1. node'[n] = node[n]  BY <1>7 DEF Grows
  <2>2. NodeOK(low, n) /\ lw[n] = low[n]  BY <1>0, <1>7
  <2>3. Ordered(lw, n)'  BY <2>1, <2>2, Zenon DEF NodeOK, Ordered
  <2>4. Continued(lw, n)'
    <3>1. node[n].sib # nullptr => node[n].keys # <<>>  BY <2>2 DEF NodeOK, Continued
    <3> QED  BY <1>6, <1>7, <2>1, <3>1, Zenon DEF Continued
  <2>5. Routes(lw, n)'
    <3> SUFFICES ASSUME ~ node[n].leaf
                 PROVE  /\ node[n].keys = <<>> => node[n].kids = <<>>
                        /\ node[n].keys # <<>> /\ node[n].sib = nullptr => Len(node[n].kids) = Len(node[n].keys) + 1
                        /\ node[n].keys # <<>> /\ node[n].sib # nullptr => Len(node[n].kids) = Len(node[n].keys)
                        /\ \A i \in DOMAIN node[n].kids : /\ ~ Empty(node[n].kids[i])'
                                                          /\ i = 1 => lw[node[n].kids[i]] <= lw[n]
                                                          /\ i > 1 => lw[node[n].kids[i]] <= node[n].keys[i - 1]
                        /\ \A i \in DOMAIN node[n].keys : node[n].keys[i] \in content'
      BY <2>1, Zenon DEF Routes, Empty
    <3>1. Routes(low, n)  BY <2>2 DEF NodeOK
    <3>2. ASSUME NEW i \in DOMAIN node[n].kids
          PROVE  /\ ~ Empty(node[n].kids[i])'
                 /\ i = 1 => lw[node[n].kids[i]] <= lw[n]
                 /\ i > 1 => lw[node[n].kids[i]] <= node[n].keys[i - 1]
      <4>1. PICK d : d = node[n].kids[i]  OBVIOUS
      <4>2. d \in NodeIds  BY <1>0, <1>7, <4>1 DEF Linked
      <4>3. ~ Empty(d) /\ (i = 1 => low[d] <= low[n]) /\ (i > 1 => low[d] <= node[n].keys[i - 1])
        BY <3>1, <4>1, Zenon DEF Routes
      <4>4. ~ Empty(d)' /\ lw[d] = low[d]  BY <1>0, <1>3, <4>2, <4>3
      <4>5. node'[n].kids[i] = d  BY <2>1, <4>1
      <4>6. ~ Empty(node[n].kids[i])'  BY <4>4, <4>5 DEF Empty
      <4> QED  BY <2>2, <4>1, <4>3, <4>4, <4>6, Zenon
    <3>3. \A i \in DOMAIN node[n].keys : node[n].keys[i] \in content'  BY <1>4, <3>1 DEF Routes
    <3> QED  BY <3>1, <3>2, <3>3 DEF Routes
  <2>6. node'[n].upper # nullptr => ~ node'[node'[n].upper].leaf  BY <1>5, <1>7, <2>1
  <2> QED  BY <2>3, <2>4, <2>5, <2>6 DEF NodeOK
<1>8. CASE n = c
  <2>1. Half(lw, t, c, c)  BY DEF Grows
  <2>2. Ordered(lw, c)' /\ Routes(lw, c)' /\ node'[c].keys # <<>> /\ node'[c].leaf = node[c].leaf  BY <2>1 DEF Half
  <2>3. Continued(lw, c)'
    <3>1. CASE FitsIn(t, c)
      <4>1. node'[c].sib = node[c].sib /\ (node[c].sib # nullptr => Last(node'[c].keys) = Last(node[c].keys))
        BY <3>1 DEF FitsIn
      <4> QED  BY <1>0, <1>6, <2>2, <4>1 DEF Continued
    <3>2. CASE IsSplit(lw, t, c, id)  BY <2>2, <3>2 DEF Continued, IsSplit, Half
    <3> QED  BY <3>1, <3>2, Zenon DEF Grows
  <2>4. node'[c].upper # nullptr => ~ node'[node'[c].upper].leaf  BY <1>0, <1>2, <1>5
  <2> QED  BY <1>8, <2>2, <2>3, <2>4 DEF NodeOK
<1>9. CASE n = id /\ IsSplit(lw, t, c, id)
  <2>1. Half(lw, t, c, id) /\ node'[id].sib = node[c].sib
        /\ (node[c].sib # nullptr => Last(node'[id].keys) = Last(node[c].keys))
    BY <1>9 DEF IsSplit
  <2>2. /\ Ordered(lw, id)' /\ Routes(lw, id)' /\ node'[id].keys # <<>> /\ node'[id].leaf = node[c].leaf
        /\ node'[id].upper = node[c].upper
    BY <2>1 DEF Half
  <2>3. Continued(lw, id)'  BY <1>0, <1>6, <2>1, <2>2 DEF Continued
  <2>4. node'[id].upper # nullptr => ~ node'[node'[id].upper].leaf  BY <1>0, <1>5, <2>2
  <2> QED  BY <1>9, <2>2, <2>3, <2>4 DEF NodeOK
<1> QED  BY <1>1, <1>7, <1>8, <1>9

\* The leaves stay apart.
LEMMA GrowsDisjoint ==
  ASSUME NEW low, J(low), NEW t \in Threads, NEW lw, NEW c, NEW id, Grows(low, lw, t, c, id)
  PROVE  Disjoint(lw)'
<1>0. Types /\ Types' /\ Disjoint(low) /\ c \in NodeIds /\ \A m \in NodeIds : lw[m] = low[m]  BY Zenon DEF J, Grows
<1>1. /\ NodeIds \subseteq NodeIds' /\ id # nullptr /\ id \notin NodeIds
      /\ \A m \in NodeIds' : m \in NodeIds \/ (m = id /\ IsSplit(lw, t, c, id))
      /\ \A m \in NodeIds : node'[m].leaf = node[m].leaf
  BY GrowthFacts, Zenon
<1>2. \A m \in NodeIds \ {c} : node'[m] = node[m]  BY Zenon DEF Grows
<1>a. low \in [NodeIds -> Nat] /\ lw \in [NodeIds' -> Nat]  BY Zenon DEF J, Grows
<1>b. \A m \in NodeIds : node[m].sib # nullptr => Last(node[m].keys) \in Nat
  <2> TAKE m \in NodeIds
  <2> HAVE node[m].sib # nullptr
  <2>1. low[node[m].sib] = Last(node[m].keys) /\ node[m].sib \in NodeIds  BY Sibling
  <2> QED  BY <1>a, <2>1
\* An old leaf left of another one is so still.
<1>3. ASSUME NEW m \in NodeIds, NEW n \in NodeIds, m # n, LeftOf(low, m, n) PROVE LeftOf(lw, m, n)'
  <2>0. node[m].sib # nullptr /\ Last(node[m].keys) <= low[n] /\ lw[n] = low[n]  BY <1>0, <1>3 DEF LeftOf
  <2>1. CASE m # c  BY <1>2, <2>0, <2>1 DEF LeftOf
  <2>2. CASE m = c /\ FitsIn(t, c)  BY <2>0, <2>2 DEF LeftOf, FitsIn
  <2>3. CASE m = c /\ IsSplit(lw, t, c, id)
    <3>1. /\ node'[c].sib = id /\ lw[id] = Last(node'[c].keys) /\ lw[id] <= Last(node[c].keys)
      BY <2>0, <2>3 DEF IsSplit
    <3>2. id \in NodeIds'  BY <2>3 DEF IsSplit
    <3>3. lw[id] \in Nat /\ Last(node[c].keys) \in Nat /\ low[n] \in Nat  BY <1>0, <1>a, <1>b, <2>0, <2>3, <3>2
    <3>4. Last(node'[c].keys) <= lw[n]  BY <2>0, <2>3, <3>1, <3>3
    <3> QED  BY <1>1, <2>3, <3>1, <3>4 DEF LeftOf
  <2> QED  BY <2>1, <2>2, <2>3 DEF Grows
\* The new leaf is right of its left half and of what was left of that, and
\* left of what was right of it.
<1>4. ASSUME IsSplit(lw, t, c, id), node[c].leaf, NEW n \in NodeIds, node[n].leaf
      PROVE  LeftOf(lw, n, id)' \/ LeftOf(lw, id, n)'
  <2>0. /\ node'[c].sib = id /\ node'[id].sib = node[c].sib /\ id \in NodeIds'
        /\ lw[id] = Last(node'[c].keys) /\ lw[id] <= Last(node'[id].keys) /\ lw[c] < lw[id]
        /\ (node[c].sib # nullptr => Last(node'[id].keys) = Last(node[c].keys))
    BY <1>4 DEF IsSplit
  <2>1. lw[id] \in Nat /\ low[c] \in Nat /\ lw[c] = low[c] /\ low[n] \in Nat /\ lw[n] = low[n]  BY <1>0, <1>a, <2>0
  <2>2. CASE n = c  BY <1>1, <2>0, <2>1, <2>2 DEF LeftOf
  <2>3. CASE n # c /\ LeftOf(low, c, n)  BY <2>0, <2>1, <2>3 DEF LeftOf
  <2>4. CASE n # c /\ LeftOf(low, n, c)
    <3>1. node'[n] = node[n] /\ node[n].sib # nullptr /\ Last(node[n].keys) <= low[c]  BY <1>2, <2>4 DEF LeftOf
    <3>2. Last(node[n].keys) \in Nat  BY <1>b, <3>1
    <3>3. Last(node[n].keys) <= lw[id]  BY <2>0, <2>1, <3>1, <3>2
    <3> QED  BY <3>1, <3>3 DEF LeftOf
  <2> QED  BY <1>0, <1>4, <2>2, <2>3, <2>4 DEF Disjoint
<1> SUFFICES ASSUME NEW m \in NodeIds', NEW n \in NodeIds', node'[m].leaf, node'[n].leaf, m # n
             PROVE  LeftOf(lw, m, n)' \/ LeftOf(lw, n, m)'
  BY DEF Disjoint
<1>5. CASE m \in NodeIds /\ n \in NodeIds
  <2>1. LeftOf(low, m, n) \/ LeftOf(low, n, m)  BY <1>0, <1>1, <1>5 DEF Disjoint
  <2> QED  BY <1>3, <1>5, <2>1
<1>6. IsSplit(lw, t, c, id) /\ node'[id].leaf => node[c].leaf  BY DEF IsSplit, Half
<1>7. CASE m \in NodeIds /\ n = id /\ IsSplit(lw, t, c, id)  BY <1>1, <1>4, <1>6, <1>7
<1>8. CASE n \in NodeIds /\ m = id /\ IsSplit(lw, t, c, id)  BY <1>1, <1>4, <1>6, <1>8
<1> QED  BY <1>1, <1>5, <1>7, <1>8

\* The latches stay with their holders; the new node's is free.
LEMMA GrowsLatched ==
  ASSUME NEW low, J(low), NEW t \in Threads, NEW lw, NEW c, NEW id, Grows(low, lw, t, c, id)
  PROVE  Latched'
<1>0. Types /\ Latched /\ Linked /\ c \in NodeIds  BY DEF J, Grows
<1>1. /\ Owns(t, c) /\ \A u \in Threads \ {t} : ~ Owns(u, c) /\ ~ Reads(u, c)
      /\ \A n \in NodeIds' : n \in NodeIds \/ (n = id /\ IsSplit(lw, t, c, id))
      /\ id \notin Links /\ NodeIds \subseteq Links /\ id \notin NodeIds
  BY GrowthFacts
<1>2. \A n \in NodeIds : latch'[n] = latch[n]  BY DEF Grows
<1>3. ASSUME NEW u \in Threads \ {t}, NEW n PROVE (Owns(u, n)' => Owns(u, n)) /\ (Reads(u, n)' => Reads(u, n))
  <2>1. th'[u] = th[u]  BY DEF Grows
  <2>2. th[u].pc = "unlatch_upper" => node'[th[u].work] = node[th[u].work]
    <3> HAVE th[u].pc = "unlatch_upper"
    <3>1. th[u].work # c  BY <1>1 DEF Owns
    <3>2. th[u].work \in NodeIds  BY Zenon DEF J, Climbs
    <3> QED  BY <3>1, <3>2 DEF Grows
  <2> QED  BY <2>1, <2>2, Zenon DEF Owns, Reads, Writes, Work
<1>4. ASSUME NEW u \in Threads PROVE ~ Owns(u, id) /\ ~ Reads(u, id)
  <2>1. Named(th[u]) /\ Climbs(low, u) /\ Descends(low, u)  BY <1>0, Zenon DEF Linked, J
  <2>2. id \notin {th[u].cur, th[u].work} /\ \A i \in DOMAIN th[u].stack : th[u].stack[i] # id  BY <1>1, <2>1, Zenon DEF Named
  <2>3. th[u].pc = "unlatch_upper" => Work(u).sib # id
    <3> HAVE th[u].pc = "unlatch_upper"
    <3>1. th[u].work \in NodeIds  BY <2>1 DEF Climbs
    <3> QED  BY <1>0, <1>1, <3>1 DEF Linked, Work
  <2> QED  BY <2>2, <2>3, Zenon DEF Owns, Reads
<1>5. ASSUME NEW n PROVE (Owns(t, n)' => n = c) /\ ~ Reads(t, n)'
  <2>1. th'[t].pc \in {"unlatch", "split"} /\ th'[t].cur = c /\ th'[t].work = c
    BY Zenon DEF Grows, FitsIn, IsSplit, Adds, Becomes
  <2> QED  BY <2>1 DEF Owns, Reads, Splitting
<1>6. ASSUME NEW u \in Threads, NEW n \in NodeIds'
      PROVE  (Owns(u, n)' => latch'[n].excl = u) /\ (Reads(u, n)' => u \in latch'[n].shared)
  <2>1. CASE u = t
    <3>1. latch'[c].excl = t  BY <1>0, <1>1, <1>2 DEF Latched
    <3> QED  BY <1>5, <2>1, <3>1
  <2>2. CASE u # t /\ n \in NodeIds  BY <1>0, <1>2, <1>3, <2>2 DEF Latched
  <2>3. CASE u # t /\ n = id  BY <1>3, <1>4, <2>3
  <2> QED  BY <1>1, <2>1, <2>2, <2>3, Zenon
<1>7. ASSUME NEW n \in NodeIds', latch'[n].excl # nullptr PROVE latch'[n].shared = {}
  <2>1. CASE n \in NodeIds  BY <1>0, <1>2, <1>7, <2>1 DEF Latched
  <2>2. CASE n = id /\ IsSplit(lw, t, c, id)  BY <1>7, <2>2 DEF IsSplit, Free
  <2> QED  BY <1>1, <2>1, <2>2
<1> QED  BY <1>6, <1>7 DEF Latched

\* The other threads find what they knew.
LEMMA GrowsOthers ==
  ASSUME NEW low, J(low), NEW t \in Threads, NEW lw, NEW c, NEW id, Grows(low, lw, t, c, id), NEW u \in Threads \ {t}
  PROVE  Calls(u)' /\ Descends(lw, u)' /\ Climbs(lw, u)' /\ Scanning(lw, u)'
<1>0. /\ Types /\ Linked /\ c \in NodeIds /\ \A m \in NodeIds : lw[m] = low[m]
      /\ Named(th[u]) /\ Calls(u) /\ Descends(low, u) /\ Climbs(low, u) /\ Scanning(low, u) /\ Private(u)
  BY Zenon DEF J, Grows, Linked
<1>1. /\ NodeIds \subseteq NodeIds' /\ Uses(t, c) /\ ~ Owns(u, c)
      /\ \A m \in NodeIds : /\ node'[m].leaf = node[m].leaf
                            /\ node[m].keys # <<>> => node'[m].keys # <<>>
  BY GrowthFacts, Zenon
<1>2. \A m \in NodeIds : Empty(m)' => Empty(m) /\ (Filling(m) => Filling(m)')  BY <1>1, GrowthFacts, Zenon
<1>3. \A m \in NodeIds \ {c} : node'[m] = node[m]  BY DEF Grows
<1>4. th'[u] = th[u] /\ content \subseteq content'  BY DEF Grows
<1>5. \A i \in DOMAIN th[u].path : th[u].path[i] \in NodeIds  BY <1>0 DEF Named
<1>6. \A i \in DOMAIN th[u].stack : th[u].stack[i] \in NodeIds  BY <1>0 DEF Named
<1>7. Calls(u)'  BY <1>0, <1>4, Zenon DEF Calls
<1>8. Descends(lw, u)'
  <2>1. th[u].pc \in {"descend", "leaf", "unlatch_left"} => th[u].cur \in NodeIds' /\ lw[th[u].cur] < th[u].key
    BY <1>0, <1>1, Zenon DEF Descends
  <2>2. ASSUME th[u].pc = "descend", NEW m, m = th[u].cur, Empty(m)' PROVE Filling(m)'
    <3>1. m \in NodeIds /\ (Empty(m) => Filling(m))  BY <1>0, <2>2, Zenon DEF Descends
    <3> QED  BY <1>2, <2>2, <3>1, Zenon
  <2>3. th[u].pc = "descend" => (Empty(th[u].cur)' => Filling(th[u].cur)')
    <3>1. PICK m : m = th[u].cur  OBVIOUS
    <3>2. (Empty(th[u].cur)' => Empty(m)') /\ (Filling(m)' => Filling(th[u].cur)')  BY <1>4, <3>1 DEF Empty, Filling
    <3> QED  BY <2>2, <3>1, <3>2
  <2>4. th[u].pc \in {"leaf", "unlatch_left"} => node'[th[u].cur].leaf
    <3> HAVE th[u].pc \in {"leaf", "unlatch_left"}
    <3>1. th[u].cur \in NodeIds /\ node[th[u].cur].leaf  BY <1>0 DEF Descends
    <3> QED  BY <1>1, <3>1
  <2>5. th[u].pc = "unlatch_left" => th[u].work \in NodeIds' /\ node'[th[u].work].leaf /\ lw[th[u].work] < th[u].key /\ th[u].work # th[u].cur
    BY <1>0, <1>1, Zenon DEF Descends
  <2>6. \A i \in DOMAIN th[u].path : ~ node'[th[u].path[i]].leaf /\ ~ Empty(th[u].path[i])'
    <3> SUFFICES ASSUME NEW i \in DOMAIN th[u].path PROVE ~ node'[th[u].path[i]].leaf /\ ~ Empty(th[u].path[i])'
      OBVIOUS
    <3>1. PICK m : m = th[u].path[i]  OBVIOUS
    <3>2. m \in NodeIds /\ ~ node[m].leaf /\ ~ Empty(m)  BY <1>0, <1>5, <3>1, Zenon DEF Descends
    <3>3. ~ node'[m].leaf /\ ~ Empty(m)'  BY <1>1, <1>2, <3>2, Zenon
    <3>4. Empty(th[u].path[i])' => Empty(m)'  BY <1>4, <3>1, Zenon DEF Empty
    <3> QED  BY <3>1, <3>3, <3>4
  <2> QED  BY <1>4, <2>1, <2>3, <2>4, <2>5, <2>6, Zenon DEF Descends
<1>9. Scanning(lw, u)'
  <2>1. th[u].pc \in {"scan", "scan_next", "release"} => th[u].stack # <<>>  BY <1>0 DEF Scanning
  <2>2. th[u].pc = "scan" => th[u].cur = Last(th[u].stack)  BY <1>0 DEF Scanning
  <2>3. th[u].pc = "scan_next" => th[u].cur \in NodeIds' /\ node'[th[u].cur].leaf /\ lw[Last(th[u].stack)] < lw[th[u].cur]
    <3> HAVE th[u].pc = "scan_next"
    <3>1. th[u].stack # <<>> /\ th[u].cur \in NodeIds /\ node[th[u].cur].leaf /\ low[Last(th[u].stack)] < low[th[u].cur]
      BY <1>0 DEF Scanning
    <3>2. th[u].stack \in Seq(Nat)  BY <1>0, RegisterFacts, Zenon
    <3>3. Len(th[u].stack) \in DOMAIN th[u].stack  BY <3>1, <3>2, NonEmpty
    <3>4. Last(th[u].stack) \in NodeIds  BY <1>6, <3>3 DEF Last
    <3> QED  BY <1>0, <1>1, <3>1, <3>4, Zenon
  <2>4. \A i \in DOMAIN th[u].stack : node'[th[u].stack[i]].leaf  BY <1>0, <1>1, <1>6, Zenon DEF Scanning
  <2>5. \A i, j \in DOMAIN th[u].stack : i < j => lw[th[u].stack[i]] < lw[th[u].stack[j]]  BY <1>0, <1>6, Zenon DEF Scanning
  <2> QED  BY <1>4, <2>1, <2>2, <2>3, <2>4, <2>5, Zenon DEF Scanning
<1>10. Climbs(lw, u)'
  <2> DEFINE g == th[u]
  <2>1. ASSUME g.pc \in Splitting \cup {"insert"}
        PROVE  g.cur \in NodeIds' /\ node'[g.cur].keys # <<>> /\ g.new \in NodeIds' /\ node'[g.new].keys # <<>>
    <3>1. g.cur \in NodeIds /\ node[g.cur].keys # <<>> /\ g.new \in NodeIds /\ node[g.new].keys # <<>>
      BY <1>0, <2>1, Zenon DEF Climbs
    <3> QED  BY <1>1, <3>1, Zenon
  <2>2. ASSUME g.pc \in Splitting PROVE node'[g.cur].sib = g.new /\ Last(node'[g.cur].keys) <= Last(node'[g.new].keys)
    <3>1. g.cur \in NodeIds /\ g.new \in NodeIds /\ node[g.cur].sib = g.new /\ Last(node[g.cur].keys) <= Last(node[g.new].keys)
      BY <1>0, <2>2, Zenon DEF Climbs
    <3>2. g.cur # c  BY <1>1, <2>2, Zenon DEF Owns
    <3>3. g.new # c  BY <1>0, <1>1, <2>2, Zenon DEF Private
    <3> QED  BY <1>3, <3>1, <3>2, <3>3
  <2>3. g.pc \in {"latch_upper", "find", "unlatch_upper", "insert"} => g.work \in NodeIds' /\ ~ node'[g.work].leaf
    BY <1>0, <1>1, Zenon DEF Climbs
  <2>4. g.pc = "unlatch" => g.work \in NodeIds' /\ ~ Empty(g.work)'
    <3> HAVE g.pc = "unlatch"
    <3>1. PICK m : m = g.work  OBVIOUS
    <3>2. m \in NodeIds /\ ~ Empty(m)  BY <1>0, <3>1, Zenon DEF Climbs
    <3>3. Empty(g.work)' => Empty(m)'  BY <1>4, <3>1 DEF Empty
    <3> QED  BY <1>1, <1>2, <3>1, <3>2, <3>3, Zenon
  <2>5. g.pc \in {"find", "unlatch_upper"} => g.work # g.cur  BY <1>0, Zenon DEF Climbs
  <2>6. g.pc \in {"find", "unlatch_upper", "insert"} => node'[g.work] = node[g.work]
    <3> HAVE g.pc \in {"find", "unlatch_upper", "insert"}
    <3>1. g.work # c  BY <1>1 DEF Owns
    <3>2. g.work \in NodeIds  BY <1>0, Zenon DEF Climbs
    <3> QED  BY <1>3, <3>1, <3>2
  <2>7. g.pc = "unlatch_upper" => node'[g.work].sib \notin {nullptr, g.cur, g.work}  BY <1>0, <2>6, Zenon DEF Climbs
  <2>8. g.pc \in {"find", "insert"} => (Empty(g.work)' => lw[g.work] = lw[g.cur])
    <3> HAVE g.pc \in {"find", "insert"}
    <3> HAVE Empty(g.work)'
    <3>1. Empty(g.work)  BY <1>4, <2>6 DEF Empty
    <3>2. g.work \in NodeIds /\ g.cur \in NodeIds /\ low[g.work] = low[g.cur]  BY <1>0, <3>1, Zenon DEF Climbs, Splitting
    <3> QED  BY <1>0, <3>2
  <2>9. g.pc = "insert" => /\ lw[g.new] = g.arg /\ g.arg \in content'
                           /\ node'[g.work].sib # nullptr => g.arg <= Last(node'[g.work].keys)
    <3> HAVE g.pc = "insert"
    <3>1. /\ g.new \in NodeIds /\ low[g.new] = g.arg /\ g.arg \in content
          /\ node[g.work].sib # nullptr => g.arg <= Last(node[g.work].keys)
      BY <1>0, Zenon DEF Climbs
    <3> QED  BY <1>0, <1>4, <2>6, <3>1, Zenon
  <2> QED  BY <1>4, <2>1, <2>2, <2>3, <2>4, <2>5, <2>7, <2>8, <2>9, Zenon DEF Climbs
<1> QED  BY <1>7, <1>8, <1>9, <1>10

\* The thread itself goes on to the level above or ends.
LEMMA GrowsThread ==
  ASSUME NEW low, J(low), NEW t \in Threads, NEW lw, NEW c, NEW id, Grows(low, lw, t, c, id)
  PROVE  Calls(t)' /\ Descends(lw, t)' /\ Climbs(lw, t)' /\ Scanning(lw, t)'
<1>0. /\ Types /\ Linked /\ c \in NodeIds /\ \A m \in NodeIds : lw[m] = low[m]
      /\ Named(th[t]) /\ Calls(t) /\ Descends(low, t) /\ Climbs(low, t) /\ Scanning(low, t)
  BY Zenon DEF J, Grows, Linked
<1>1. /\ NodeIds \subseteq NodeIds' 
      /\ \A m \in NodeIds : node'[m].leaf = node[m].leaf
      /\ \A m \in NodeIds : Empty(m)' => Empty(m)
  BY GrowthFacts, Zenon
<1>2. \/ Adds("unlatch", t, c, nullptr)
      \/ Adds("split", t, c, id) /\ IsSplit(lw, t, c, id)
  BY DEF Grows, FitsIn, IsSplit
<1>3. /\ th'[t].op = "Insert" /\ th'[t].key = th[t].key /\ th'[t].cur = c /\ th'[t].work = c /\ th'[t].ret
      /\ th'[t].path = th[t].path /\ th'[t].stack = th[t].stack
      /\ th'[t].pc \in {"unlatch", "split"}
      /\ th'[t].pc = "split" => IsSplit(lw, t, c, id) /\ th'[t].new = id
  BY <1>2 DEF Adds, Becomes
<1>4. th[t].pc \in {"leaf", "insert"}  BY DEF Grows, Fills
<1>5. Calls(t)'
  <2>1. th[t].key \in Keys  BY <1>0, <1>4 DEF Calls
  <2> QED  BY <1>3, <2>1 DEF Calls, Splitting, Scans
<1>6. Descends(lw, t)'
  <2>1. ASSUME NEW i \in DOMAIN th[t].path PROVE ~ node'[th'[t].path[i]].leaf /\ ~ Empty(th[t].path[i])'
    <3>1. PICK m : m = th[t].path[i]  OBVIOUS
    <3>2. m \in NodeIds /\ ~ node[m].leaf /\ ~ Empty(m)  BY <1>0, <3>1, Zenon DEF Descends, Named
    <3>3. ~ node'[m].leaf /\ ~ Empty(m)'  BY <1>1, <3>2
    <3>4. Empty(th[t].path[i])' => Empty(m)'  BY <1>3, <3>1 DEF Empty
    <3> QED  BY <1>3, <3>1, <3>3, <3>4
  <2> QED  BY <1>3, <2>1 DEF Descends
<1>7. Climbs(lw, t)'
  <2>1. node'[c].keys # <<>>  BY Zenon DEF Grows, Half
  <2>2. th'[t].pc = "split" => /\ id \in NodeIds' /\ node'[id].keys # <<>> /\ node'[c].sib = id
                               /\ Last(node'[c].keys) <= Last(node'[id].keys)
    BY <1>3, Zenon DEF IsSplit, Half
  <2>3. ~ Empty(th[t].work)'  BY <1>3, <2>1 DEF Empty
  <2> QED  BY <1>0, <1>1, <1>3, <2>1, <2>2, <2>3, Zenon DEF Climbs, Splitting
<1>8. Scanning(lw, t)'
  <2>1. \A i \in DOMAIN th[t].stack : th[t].stack[i] \in NodeIds  BY <1>0, Zenon DEF Named
  <2>2. \A i \in DOMAIN th[t].stack : node'[th[t].stack[i]].leaf  BY <1>0, <1>1, <2>1, Zenon DEF Scanning
  <2>3. \A i, j \in DOMAIN th[t].stack : i < j => lw[th[t].stack[i]] < lw[th[t].stack[j]]  BY <1>0, <2>1, Zenon DEF Scanning
  <2> QED  BY <1>3, <2>2, <2>3, Zenon DEF Scanning
<1> QED  BY <1>5, <1>6, <1>7, <1>8

\* Nobody else gets to know a new right half.
LEMMA GrowsPrivate ==
  ASSUME NEW low, J(low), NEW t \in Threads, NEW lw, NEW c, NEW id, Grows(low, lw, t, c, id), NEW u \in Threads
  PROVE  Private(u)'
<1>0. Types /\ Linked /\ c \in NodeIds /\ root \in NodeIds /\ root' = root /\ \A v \in Threads : Named(th[v])
  BY Zenon DEF J, Grows, Linked, Types
<1>1. /\ NodeIds \subseteq NodeIds' /\ Uses(t, c) /\ \A v \in Threads \ {t} : ~ Owns(v, c)
      /\ id \notin Links /\ id \notin NodeIds /\ id # nullptr /\ NodeIds \subseteq Links
      /\ \A n \in NodeIds' : n \in NodeIds \/ (n = id /\ IsSplit(lw, t, c, id))
      /\ \A m \in NodeIds : node'[m].upper = node[m].upper
  BY GrowthFacts, Zenon
<1>2. \A m \in NodeIds \ {c} : node'[m] = node[m]  BY Zenon DEF Grows
<1>3. \A v \in Threads \ {t} : th'[v] = th[v]  BY DEF Grows
<1>4. /\ th'[t].cur = c /\ th'[t].work = c /\ th'[t].path = th[t].path /\ th'[t].stack = th[t].stack
      /\ th'[t].pc \in {"unlatch", "split"} /\ th'[t].new \in {nullptr, id}
      /\ th'[t].pc = "split" => IsSplit(lw, t, c, id) /\ th'[t].new = id
  BY Zenon DEF Grows, FitsIn, IsSplit, Adds, Becomes
<1>5. /\ node'[c].sib = node[c].sib \/ (IsSplit(lw, t, c, id) /\ node'[c].sib = id)
      /\ \A i \in DOMAIN node'[c].kids :
           /\ node'[c].kids[i] \in NodeIds
           /\ node'[c].kids[i] \in {th[t].cur, th[t].new} \/ \E j \in DOMAIN node[c].kids : node'[c].kids[i] = node[c].kids[j]
  BY Zenon DEF Grows, FitsIn, IsSplit, Half
<1>6. IsSplit(lw, t, c, id) =>
        /\ node'[id].sib = node[c].sib /\ node'[id].upper = node[c].upper
        /\ \A i \in DOMAIN node'[id].kids :
             /\ node'[id].kids[i] \in NodeIds
             /\ node'[id].kids[i] \in {th[t].cur, th[t].new} \/ \E j \in DOMAIN node[c].kids : node'[id].kids[i] = node[c].kids[j]
  BY Zenon DEF IsSplit, Half
<1>7. CASE u = t
  <2> SUFFICES ASSUME th'[t].pc = "split" PROVE Private(t)'  BY <1>4, <1>7, Zenon DEF Private, Splitting
  <2>0. IsSplit(lw, t, c, id) /\ th'[t].new = id  BY <1>4
  <2>1. id # root /\ id # c  BY <1>0, <1>1
  <2>2. \A i \in DOMAIN th[t].path : th[t].path[i] # id  BY <1>0, <1>1 DEF Named
  <2>3. ASSUME NEW n \in NodeIds'
        PROVE  /\ n # c => node'[n].sib # id
               /\ node'[n].upper # id
               /\ \A i \in DOMAIN node'[n].kids : node'[n].kids[i] # id
    <3>1. CASE n \in NodeIds \ {c}  BY <1>0, <1>1, <1>2, <3>1 DEF Linked
    <3>2. CASE n = c
      <4>1. node'[c].upper # id  BY <1>0, <1>1, Zenon DEF Linked
      <4>2. \A i \in DOMAIN node'[c].kids : node'[c].kids[i] # id  BY <1>1, <1>5, Zenon
      <4> QED  BY <3>2, <4>1, <4>2, Zenon
    <3>3. CASE n = id  BY <1>0, <1>1, <1>6, <2>0, <3>3, Zenon DEF Linked
    <3> QED  BY <1>1, <3>1, <3>2, <3>3, Zenon
  <2>4. \A v \in Threads \ {t} : ~ Uses(v, id)'
    <3> TAKE v \in Threads \ {t}
    <3>1. Named(th[v]) /\ th'[v] = th[v]  BY <1>0, <1>3
    <3> QED  BY <1>1, <3>1 DEF Named, Uses
  <2>5. \A v \in Threads \ {t} : ~ Uses(v, th[t].new)'
    BY <2>0, <2>4, Zenon DEF Uses
  <2> QED  BY <1>0, <1>4, <2>0, <2>1, <2>2, <2>3, <2>5, Zenon DEF Private
<1>8. CASE u # t
  <2> SUFFICES ASSUME th[u].pc \in Splitting PROVE Private(u)'  BY <1>3, <1>8 DEF Private
  <2>0. th'[u] = th[u] /\ Private(u) /\ Climbs(low, u)  BY <1>3, <1>8, Zenon DEF J
  <2> DEFINE x == th[u].new
  <2>1. x \in NodeIds /\ x # id /\ x # nullptr
    <3>1. x \in NodeIds  BY <2>0, Zenon DEF Climbs
    <3>2. NodeIds = 1 .. Len(node)  BY <1>0, NodeFacts, Zenon
    <3>3. x # id  BY <1>1, <3>1, Zenon
    <3>4. x # 0  BY <3>1, <3>2, SMT
    <3> QED  BY <3>1, <3>3, <3>4, Zenon DEF nullptr
  <2>2. /\ x # root /\ x # th[u].cur /\ x # th[u].work
        /\ \A i \in DOMAIN th[u].path : th[u].path[i] # x
        /\ \A n \in NodeIds : /\ n # th[u].cur => node[n].sib # x
                              /\ node[n].upper # x
                              /\ \A i \in DOMAIN node[n].kids : node[n].kids[i] # x
        /\ \A v \in Threads \ {u} : ~ Uses(v, x)
    BY <2>0, Zenon DEF Private
  <2>3. th[u].cur # c  BY <1>1, <1>8, Zenon DEF Owns
  <2>4. x # c /\ x # th[t].cur /\ x # th[t].new  BY <1>1, <1>8, <2>2, Zenon DEF Uses
  <2> HIDE DEF x
  <2>5. ASSUME NEW n \in NodeIds'
        PROVE  /\ n # th[u].cur => node'[n].sib # x
               /\ node'[n].upper # x
               /\ \A i \in DOMAIN node'[n].kids : node'[n].kids[i] # x
    <3>1. CASE n \in NodeIds \ {c}  BY <1>2, <2>2, <3>1, Zenon
    <3>2. CASE n = c
      <4>1. node'[c].sib # x /\ node'[c].upper # x  BY <1>0, <1>1, <1>5, <2>1, <2>2, <2>3, Zenon
      <4>2. \A i \in DOMAIN node'[c].kids : node'[c].kids[i] # x  BY <1>0, <1>5, <2>2, <2>4
      <4> QED  BY <3>2, <4>1, <4>2
    <3>3. CASE n = id /\ IsSplit(lw, t, c, id)
      <4>1. node'[id].sib # x /\ node'[id].upper # x  BY <1>0, <1>6, <2>2, <2>3, <3>3, Zenon
      <4>2. \A i \in DOMAIN node'[id].kids : node'[id].kids[i] # x  BY <1>0, <1>6, <2>2, <2>4, <3>3, Zenon
      <4> QED  BY <3>3, <4>1, <4>2
    <3> QED  BY <1>1, <3>1, <3>2, <3>3, Zenon
  <2>6. ASSUME NEW v \in Threads \ {u} PROVE ~ Uses(v, th[u].new)'
    <3>0. ~ Uses(v, x)  BY <2>2
    <3>1. CASE v # t
      <4>1. th'[v] = th[v]  BY <1>3, <3>1
      <4> QED  BY <2>0, <3>0, <4>1, Zenon DEF Uses, x
    <3>2. CASE v = t
      <4>1. x \notin {th'[t].cur, th'[t].work, th'[t].new}  BY <1>4, <2>1, <2>4
      <4> QED  BY <1>4, <2>0, <3>0, <3>2, <4>1, Zenon DEF Uses, x
    <3> QED  BY <3>1, <3>2
  <2> QED  BY <1>0, <2>0, <2>2, <2>5, <2>6, Zenon DEF Private, x
<1> QED  BY <1>7, <1>8

\* Roots: no new root is known to the thread, and a right half inherits the
\* node above.
LEMMA GrowsRoots ==
  ASSUME NEW low, J(low), NEW t \in Threads, NEW lw, NEW c, NEW id, Grows(low, lw, t, c, id)
  PROVE  Roots(lw)'
<1>0. /\ Types /\ Linked /\ Roots(low) /\ c \in NodeIds /\ root \in NodeIds /\ root' = root
      /\ \A m \in NodeIds : lw[m] = low[m]
      /\ \A v \in Threads : Climbs(low, v) /\ Private(v) /\ Named(th[v])
  BY Zenon DEF J, Grows, Types, Linked
<1>1. /\ NodeIds \subseteq NodeIds' /\ Uses(t, c) /\ \A v \in Threads \ {t} : ~ Owns(v, c)
      /\ id # nullptr /\ Links = NodeIds \cup {nullptr}
      /\ \A n \in NodeIds' : n \in NodeIds \/ (n = id /\ IsSplit(lw, t, c, id))
      /\ \A m \in NodeIds : node'[m].upper = node[m].upper
  BY GrowthFacts, Zenon
<1>2. \A m \in NodeIds : Empty(m)' => Empty(m) /\ (Filling(m) => Filling(m)')  BY <1>1, GrowthFacts, Zenon
<1>3. \A v \in Threads \ {t} : th'[v] = th[v]  BY Zenon DEF Grows
<1>4. /\ th'[t].cur = c /\ th'[t].pc \in {"unlatch", "split"}
      /\ IsSplit(lw, t, c, id) => th'[t].pc = "split" /\ th'[t].new = id
  BY Zenon DEF Grows, FitsIn, IsSplit, Adds, Becomes
<1>5. th[t].pc \in {"leaf", "insert"}  BY DEF Grows, Fills
<1>6. \A v \in Threads : (Creates(v)' <=> Creates(v)) /\ (Creates(v) => v # t)
  BY <1>0, <1>3, <1>4, <1>5, Zenon DEF Creates
<1>7. ASSUME NEW v \in Threads, Creates(v) PROVE th[v].work \in NodeIds /\ th[v].work # c
  <2>1. th[v].work \in NodeIds  BY <1>0, <1>7, Zenon DEF Climbs, Creates
  <2>2. /\ Empty(th[v].work)
        /\ \A w \in Threads \ {v} : th[w].pc \in {"latch_upper", "find", "unlatch_upper", "insert"} => th[w].work # th[v].work
    BY <1>0, <1>7, Zenon DEF Roots
  <2> QED  BY <1>6, <1>7, <2>1, <2>2, Zenon DEF Grows, Fills, Empty
\* Nobody but its thread knows a half that has no entry yet.
<1>8. ASSUME NEW v \in Threads, th[v].pc \in Splitting PROVE th[v].cur # c /\ th[v].new # c
  <2>1. v # t  BY <1>5, <1>8 DEF Splitting
  <2> QED  BY <1>0, <1>1, <1>8, <2>1, Zenon DEF Owns, Private
<1>9. lw[root] = 0 /\ (Empty(root)' => Filling(root)')
  <2>1. PICK m : m = root  OBVIOUS
  <2>2. m \in NodeIds /\ low[m] = 0 /\ (Empty(m) => Filling(m))  BY <1>0, <2>1, Zenon DEF Roots
  <2>3. (Empty(root)' => Empty(m)') /\ (Filling(m)' => Filling(root)')  BY <1>0, <2>1, Zenon DEF Empty, Filling
  <2> QED  BY <1>0, <1>2, <2>1, <2>2, <2>3, Zenon
<1>10. ASSUME NEW v \in Threads, Creates(v)
       PROVE  /\ Empty(th[v].work)' /\ lw[th[v].work] = lw[th[v].cur] /\ th[v].work # root
              /\ node'[th[v].cur].upper = th[v].work
              /\ \A w \in Threads \ {v} : th'[w].pc \in {"latch_upper", "find", "unlatch_upper", "insert"} => th'[w].work # th[v].work
  <2>0. /\ Empty(th[v].work) /\ low[th[v].work] = low[th[v].cur] /\ th[v].work # root
        /\ node[th[v].cur].upper = th[v].work
        /\ \A w \in Threads \ {v} : th[w].pc \in {"latch_upper", "find", "unlatch_upper", "insert"} => th[w].work # th[v].work
    BY <1>0, <1>10, Zenon DEF Roots
  <2>1. th[v].work \in NodeIds /\ th[v].work # c /\ th[v].cur \in NodeIds /\ v # t /\ th'[v] = th[v]
    BY <1>0, <1>3, <1>6, <1>7, <1>10, Zenon DEF Creates
  <2>2. node'[th[v].work] = node[th[v].work]  BY <2>1 DEF Grows
  <2>3. Empty(th[v].work)'  BY <2>0, <2>1, <2>2 DEF Empty
  <2>4. \A w \in Threads \ {v} : th'[w].pc \in {"latch_upper", "find", "unlatch_upper", "insert"} => th'[w].work # th[v].work
    BY <1>3, <1>4, <2>0
  <2> QED  BY <1>0, <1>1, <2>0, <2>1, <2>3, <2>4, Zenon
<1>11. ASSUME NEW v \in Threads, th'[v].pc = "latch_upper", th'[v].cur # root', Empty(th[v].work)'
       PROVE  Filling(th[v].work)'
  <2>1. v # t /\ th'[v] = th[v]  BY <1>3, <1>4, <1>11
  <2>2. PICK m : m = th[v].work  OBVIOUS
  <2>3. m \in NodeIds /\ (Empty(m) => Filling(m))  BY <1>0, <1>11, <2>1, <2>2, Zenon DEF Roots, Climbs
  <2>4. Empty(m)' /\ (Filling(m)' => Filling(th[v].work)')  BY <1>11, <2>1, <2>2 DEF Empty, Filling
  <2> QED  BY <1>2, <2>3, <2>4
\* The node above an old node.
<1>12. ASSUME NEW n \in NodeIds, NEW y, y = node[n].upper, y # nullptr, Empty(y)'
       PROVE  \/ Filling(y)'
              \/ \E v \in Threads : Creates(v) /\ th[v].work = y /\ n \in {th[v].cur, th[v].new}
  <2>1. y \in NodeIds  BY <1>0, <1>1, <1>12, Zenon DEF Linked
  <2>2. Empty(y)  BY <1>2, <1>12, <2>1, Zenon
  <2>3. Filling(y) \/ \E v \in Threads : Creates(v) /\ th[v].work = y /\ n \in {th[v].cur, th[v].new}
    BY <1>0, <1>12, <2>2, Zenon DEF Roots
  <2> QED  BY <1>2, <1>12, <2>1, <2>3
<1>13. ASSUME NEW n \in NodeIds', node'[n].upper # nullptr, Empty(node[n].upper)'
       PROVE  \/ Filling(node[n].upper)'
              \/ \E v \in Threads : Creates(v)' /\ th'[v].work = node'[n].upper /\ n \in {th'[v].cur, th'[v].new}
  <2>1. PICK y : y = node'[n].upper  OBVIOUS
  <2>2. Empty(y)' /\ (Filling(y)' => Filling(node[n].upper)') /\ y # nullptr  BY <1>13, <2>1 DEF Empty, Filling
  <2>3. CASE n \in NodeIds
    <3>1. y = node[n].upper  BY <1>1, <2>1, <2>3
    <3>2. Filling(y)' \/ \E v \in Threads : Creates(v) /\ th[v].work = y /\ n \in {th[v].cur, th[v].new}
      BY <1>12, <2>2, <2>3, <3>1
    <3> QED  BY <1>3, <1>6, <2>1, <2>2, <3>2, Zenon
  <2>4. CASE n = id /\ IsSplit(lw, t, c, id)
    <3>1. y = node[c].upper  BY <2>1, <2>4, Zenon DEF IsSplit, Half
    <3>2. Filling(y)' \/ \E v \in Threads : Creates(v) /\ th[v].work = y /\ c \in {th[v].cur, th[v].new}
      BY <1>0, <1>12, <2>2, <3>1, Zenon
    <3>3. \A v \in Threads : Creates(v) => c \notin {th[v].cur, th[v].new}  BY <1>8 DEF Creates, Splitting
    <3> QED  BY <2>2, <3>2, <3>3
  <2> QED  BY <1>1, <2>3, <2>4, Zenon
<1>14. ASSUME NEW n \in NodeIds', node'[n].upper = nullptr
       PROVE  n = root' \/ \E v \in Threads : \/ Creates(v)' /\ n = th'[v].work
                                              \/ th'[v].pc = "split" /\ th'[v].cur = root' /\ n = th'[v].new
  <2>1. CASE n \in NodeIds
    <3>1. node[n].upper = nullptr  BY <1>1, <1>14, <2>1
    <3>2. n = root \/ \E v \in Threads : \/ Creates(v) /\ n = th[v].work
                                         \/ th[v].pc = "split" /\ th[v].cur = root /\ n = th[v].new
      BY <1>0, <2>1, <3>1, Zenon DEF Roots
    <3>3. ASSUME NEW v \in Threads, Creates(v) \/ th[v].pc = "split" PROVE th'[v] = th[v]
      BY <1>3, <1>5, <3>3 DEF Creates
    <3> QED  BY <1>0, <1>6, <3>2, <3>3
  <2>2. CASE n = id /\ IsSplit(lw, t, c, id)
    <3>1. node[c].upper = nullptr  BY <1>14, <2>2, Zenon DEF IsSplit, Half
    <3>2. c = root \/ \E v \in Threads : \/ Creates(v) /\ c = th[v].work
                                         \/ th[v].pc = "split" /\ th[v].cur = root /\ c = th[v].new
      BY <1>0, <3>1, Zenon DEF Roots
    <3>3. c = root  BY <1>7, <1>8, <3>2 DEF Splitting
    <3> QED  BY <1>0, <1>4, <2>2, <3>3, Zenon
  <2> QED  BY <1>1, <2>1, <2>2, Zenon
<1>15. \A v \in Threads : Creates(v)' =>
         /\ Empty(th[v].work)' /\ lw[th'[v].work] = lw[th'[v].cur] /\ th'[v].work # root'
         /\ node'[th'[v].cur].upper = th'[v].work
         /\ \A w \in Threads \ {v} : th'[w].pc \in {"latch_upper", "find", "unlatch_upper", "insert"} => th'[w].work # th'[v].work
  <2> TAKE v \in Threads
  <2> HAVE Creates(v)'
  <2>1. Creates(v) /\ th'[v] = th[v]  BY <1>3, <1>6
  <2> QED  BY <1>0, <1>10, <2>1
<1> QED  BY <1>0, <1>9, <1>11, <1>13, <1>14, <1>15, Zenon DEF Roots

\* Adding an entry keeps the invariant; the new node has the bound in lw.
LEMMA GrowsInv ==
  ASSUME NEW low, J(low), NEW t \in Threads, NEW lw, NEW c, NEW id, Grows(low, lw, t, c, id)
  PROVE  J(lw)'
<1>1. lw \in [NodeIds' -> Nat] /\ Types'  BY Zenon DEF Grows
<1>2. Linked' /\ Latched' /\ Disjoint(lw)' /\ Roots(lw)'  BY GrowsLinked, GrowsLatched, GrowsDisjoint, GrowsRoots
<1>3. \A n \in NodeIds' : NodeOK(lw, n)'  BY GrowsNodes
<1>4. \A u \in Threads : Calls(u)' /\ Descends(lw, u)' /\ Climbs(lw, u)' /\ Scanning(lw, u)' /\ Private(u)'
  BY GrowsThread, GrowsOthers, GrowsPrivate
<1>p. PlaceIsFirst'  BY DEF J, PlaceIsFirst
<1> QED  BY <1>1, <1>2, <1>3, <1>4, <1>p DEF J
=============================================================================
