---------------------------- MODULE BasicLemmas ---------------------------
(***************************************************************************)
(* Facts about lists and numbers that the proofs of several modules use.   *)
(*                                                                         *)
(* First what the list operations of the kernel do to the elements of a    *)
(* list without duplicates. A linked list of tasks is a sequence; Contains *)
(* and IsInjective are all that the invariants of module Kernel say of one.*)
(***************************************************************************)
EXTENDS Integers, Sequences, SequencesExt, SequenceTheorems, WellFoundedInduction, TLAPS

(* Append: linking a task behind the last one (enqueue_task, message_send).*)
LEMMA AppendList ==
    ASSUME NEW S, NEW s \in Seq(S), NEW e \in S
    PROVE  /\ Append(s, e) \in Seq(S)
           /\ \A x : Contains(Append(s, e), x) <=> Contains(s, x) \/ x = e
           /\ IsInjective(s) /\ ~Contains(s, e) => IsInjective(Append(s, e))
  BY DEF Contains, IsInjective

(* RemoveAt: unlinking the i-th task (message_receive).                    *)
LEMMA RemoveAtElements ==
    ASSUME NEW S, NEW s \in Seq(S), NEW i \in 1 .. Len(s)
    PROVE  /\ RemoveAt(s, i) \in Seq(S)
           /\ Len(RemoveAt(s, i)) = Len(s) - 1
           /\ \A j \in 1 .. Len(s) - 1 :
                 RemoveAt(s, i)[j] = IF j < i THEN s[j] ELSE s[j + 1]
  <1> DEFINE a == SubSeq(s, 1, i - 1)
             b == SubSeq(s, i + 1, Len(s))
  <1>1. /\ a \in Seq(S)
        /\ Len(a) = i - 1
        /\ \A j \in 1 .. i - 1 : a[j] = s[j]
    BY SubSeqProperties, SMT
  <1>2. /\ b \in Seq(S)
        /\ Len(b) = Len(s) - i
        /\ \A j \in 1 .. Len(s) - i : b[j] = s[i + j]
    BY SubSeqProperties, SMT
  <1>3. RemoveAt(s, i) = a \o b
    BY DEF RemoveAt
  <1> HIDE DEF a, b
  <1>4. /\ a \o b \in Seq(S)
        /\ Len(a \o b) = Len(a) + Len(b)
        /\ \A j \in 1 .. Len(a) + Len(b) :
              (a \o b)[j] = IF j <= Len(a) THEN a[j] ELSE b[j - Len(a)]
    BY <1>1, <1>2, ConcatProperties
  <1>5. ASSUME NEW j \in 1 .. Len(s) - 1
        PROVE  RemoveAt(s, i)[j] = IF j < i THEN s[j] ELSE s[j + 1]
    <2>1. CASE j < i
      BY <2>1, <1>1, <1>2, <1>3, <1>4
    <2>2. CASE ~(j < i)
      <3>1. j - Len(a) \in 1 .. Len(s) - i /\ i + (j - Len(a)) = j + 1
        BY <2>2, <1>1
      <3>2. b[j - Len(a)] = s[j + 1]
        BY <3>1, <1>2
      <3>3. j \in 1 .. Len(a) + Len(b) /\ ~(j <= Len(a))
        BY <2>2, <1>1, <1>2
      <3>4. (a \o b)[j] = b[j - Len(a)]
        BY <3>3, <1>4
      <3> QED
        BY <2>2, <3>2, <3>4, <1>3
    <2> QED
      BY <2>1, <2>2
  <1> QED
    BY <1>1, <1>2, <1>3, <1>4, <1>5

(* RemoveAt removes one element of a list without duplicates.              *)
LEMMA RemoveAtList ==
    ASSUME NEW S, NEW s \in Seq(S), NEW i \in 1 .. Len(s), IsInjective(s)
    PROVE  /\ RemoveAt(s, i) \in Seq(S)
           /\ \A x : Contains(RemoveAt(s, i), x) <=> Contains(s, x) /\ x # s[i]
           /\ IsInjective(RemoveAt(s, i))
  <1> DEFINE r == RemoveAt(s, i)
  <1>1. /\ r \in Seq(S)
        /\ Len(r) = Len(s) - 1
        /\ \A j \in 1 .. Len(s) - 1 : r[j] = IF j < i THEN s[j] ELSE s[j + 1]
    BY RemoveAtElements
  <1> HIDE DEF r
  <1>2. \A j, k \in 1 .. Len(s) : s[j] = s[k] => j = k
    BY DEF IsInjective
  <1>3. ASSUME NEW x, Contains(r, x)
        PROVE  Contains(s, x) /\ x # s[i]
    <2>1. PICK j \in 1 .. Len(s) - 1 : r[j] = x
      BY <1>3, <1>1 DEF Contains
    <2>2. CASE j < i
      BY <2>1, <2>2, <1>1, <1>2 DEF Contains
    <2>3. CASE ~(j < i)
      <3>1. j + 1 \in 1 .. Len(s) /\ j + 1 # i
        BY <2>3
      <3> QED
        BY <2>1, <2>3, <3>1, <1>1, <1>2 DEF Contains
    <2> QED
      BY <2>2, <2>3
  <1>4. ASSUME NEW x, Contains(s, x), x # s[i]
        PROVE  Contains(r, x)
    <2>1. PICK j \in 1 .. Len(s) : s[j] = x
      BY <1>4 DEF Contains
    <2>2. CASE j < i
      BY <2>1, <2>2, <1>1 DEF Contains
    <2>3. CASE j > i
      <3>1. j - 1 \in 1 .. Len(s) - 1 /\ ~(j - 1 < i) /\ (j - 1) + 1 = j
        BY <2>3
      <3> QED
        BY <2>1, <3>1, <1>1 DEF Contains
    <2> QED
      BY <1>4, <2>1, <2>2, <2>3
  <1>5. ASSUME NEW j \in 1 .. Len(s) - 1, NEW k \in 1 .. Len(s) - 1, r[j] = r[k]
        PROVE  j = k
    <2>1. r[j] = IF j < i THEN s[j] ELSE s[j + 1]
      BY <1>1
    <2>2. r[k] = IF k < i THEN s[k] ELSE s[k + 1]
      BY <1>1
    <2>3. j + 1 \in 1 .. Len(s) /\ k + 1 \in 1 .. Len(s) /\ j \in 1 .. Len(s) /\ k \in 1 .. Len(s)
      OBVIOUS
    <2> QED
      BY <2>1, <2>2, <2>3, <1>2, <1>5
  <1>6. IsInjective(r)
    BY <1>1, <1>5 DEF IsInjective
  <1> QED
    BY <1>1, <1>3, <1>4, <1>6 DEF r

(* RemoveFirst finds the only place of its element.                        *)
LEMMA RemoveFirstAt ==
    ASSUME NEW S, NEW s \in Seq(S), NEW i \in 1 .. Len(s), IsInjective(s)
    PROVE  RemoveFirst(s, s[i]) = RemoveAt(s, i)
  <1> DEFINE I == {j \in 1 .. Len(s) : s[j] = s[i]}
  <1>1. I = {i}
    BY DEF IsInjective
  <1>2. Min(I) = i
    BY <1>1 DEF Min
  <1>3. SelectInSeq(s, LAMBDA v : v = s[i]) = i
    BY <1>1, <1>2 DEF SelectInSeq
  <1> QED
    BY <1>3 DEF RemoveFirst

(* RemoveFirst: looking for a task and unlinking it (dequeue_task).        *)
LEMMA RemoveFirstList ==
    ASSUME NEW S, NEW s \in Seq(S), NEW e, IsInjective(s)
    PROVE  /\ RemoveFirst(s, e) \in Seq(S)
           /\ \A x : Contains(RemoveFirst(s, e), x) <=> Contains(s, x) /\ x # e
           /\ IsInjective(RemoveFirst(s, e))
           /\ ~Contains(s, e) => RemoveFirst(s, e) = s
  <1>1. CASE ~Contains(s, e)
    BY <1>1 DEF RemoveFirst, Contains
  <1>2. CASE Contains(s, e)
    <2>1. PICK i \in 1 .. Len(s) : s[i] = e
      BY <1>2 DEF Contains
    <2>2. RemoveFirst(s, e) = RemoveAt(s, i)
      BY <2>1, RemoveFirstAt
    <2> QED
      BY <1>2, <2>1, <2>2, RemoveAtList
  <1> QED
    BY <1>1, <1>2

(* Tail: unlinking the first task (timer_callback).                        *)
LEMMA TailElements ==
    ASSUME NEW S, NEW s \in Seq(S), s # <<>>
    PROVE  /\ Head(s) \in S
           /\ Head(s) = s[1]
           /\ 1 \in DOMAIN s
           /\ DOMAIN Tail(s) = 1 .. Len(s) - 1
           /\ Tail(s) \in Seq(S)
           /\ \A i \in 1 .. Len(s) - 1 : Tail(s)[i] = s[i + 1]
  OBVIOUS

(* InsertAt: linking a task before the i-th one (sleep_ms).                *)
Inserted(r, S, s, i, e) ==
    /\ r \in Seq(S)
    /\ Len(r) = Len(s) + 1
    /\ \A j \in 1 .. Len(s) + 1 :
          r[j] = IF j < i THEN s[j] ELSE IF j = i THEN e ELSE s[j - 1]

LEMMA InsertAtElements ==
    ASSUME NEW S, NEW s \in Seq(S), NEW e \in S, NEW i \in 1 .. Len(s) + 1
    PROVE  Inserted(InsertAt(s, i, e), S, s, i, e)
  <1> DEFINE a == SubSeq(s, 1, i - 1)
             b == SubSeq(s, i, Len(s))
             c == a \o <<e>>
  <1>1. /\ a \in Seq(S)
        /\ Len(a) = i - 1
        /\ \A j \in 1 .. i - 1 : a[j] = s[j]
    BY SubSeqProperties, SMT
  <1>2. /\ b \in Seq(S)
        /\ Len(b) = Len(s) - i + 1
        /\ \A j \in 1 .. Len(s) - i + 1 : b[j] = s[i + j - 1]
    BY SubSeqProperties, SMT
  <1>3. InsertAt(s, i, e) = c \o b
    BY DEF InsertAt
  <1> HIDE DEF a, b
  <1>4. /\ c \in Seq(S)
        /\ Len(c) = i
        /\ \A j \in 1 .. i - 1 : c[j] = s[j]
        /\ c[i] = e
    <2> DEFINE u == <<e>>
    <2>1. u \in Seq(S) /\ Len(u) = 1 /\ u[1] = e
      OBVIOUS
    <2>2. c = a \o u
      OBVIOUS
    <2> HIDE DEF c, u
    <2>3. /\ a \o u \in Seq(S)
          /\ Len(a \o u) = Len(a) + Len(u)
          /\ \A j \in 1 .. Len(a) + Len(u) :
                (a \o u)[j] = IF j <= Len(a) THEN a[j] ELSE u[j - Len(a)]
      BY <2>1, <1>1, ConcatProperties
    <2>4. ASSUME NEW j \in 1 .. i
          PROVE  c[j] = IF j <= i - 1 THEN a[j] ELSE u[j - (i - 1)]
      BY <2>1, <2>2, <2>3, <1>1
    <2>5. c \in Seq(S) /\ Len(c) = i
      BY <2>1, <2>2, <2>3, <1>1
    <2>6. c[i] = e
      <3>1. i \in 1 .. i /\ ~(i <= i - 1) /\ i - (i - 1) = 1
        OBVIOUS
      <3> QED
        BY <3>1, <2>1, <2>4
    <2>7. ASSUME NEW j \in 1 .. i - 1
          PROVE  c[j] = s[j]
      <3>1. j \in 1 .. i /\ j <= i - 1 /\ a[j] = s[j]
        BY <1>1
      <3> QED
        BY <3>1, <2>4
    <2> QED
      BY <2>5, <2>6, <2>7
  <1> HIDE DEF c
  <1>5. /\ c \o b \in Seq(S)
        /\ Len(c \o b) = Len(c) + Len(b)
        /\ \A j \in 1 .. Len(c) + Len(b) :
              (c \o b)[j] = IF j <= Len(c) THEN c[j] ELSE b[j - Len(c)]
    BY <1>2, <1>4, ConcatProperties
  <1>6. ASSUME NEW j \in 1 .. Len(s) + 1
        PROVE  InsertAt(s, i, e)[j] = IF j < i THEN s[j]
                                      ELSE IF j = i THEN e ELSE s[j - 1]
    <2>1. CASE j <= i
      BY <2>1, <1>2, <1>3, <1>4, <1>5
    <2>2. CASE j > i
      <3>1. j - Len(c) \in 1 .. Len(s) - i + 1 /\ i + (j - Len(c)) - 1 = j - 1
        BY <2>2, <1>4
      <3> QED
        BY <2>2, <3>1, <1>2, <1>3, <1>4, <1>5
    <2> QED
      BY <2>1, <2>2
  <1> QED
    BY <1>2, <1>3, <1>4, <1>5, <1>6 DEF Inserted

---------------------------------------------------------------------------
(* A set of natural numbers has a least element.                           *)
LEMMA LeastNat ==
    ASSUME NEW N, N \subseteq Nat, N # {}
    PROVE  \E x \in N : \A y \in N : x <= y
  <1> DEFINE Less == {ss \in Nat \X Nat : ss[1] < ss[2]}
  <1>1. OpToRel(<, Nat) = Less
    BY Zenon DEF OpToRel
  <1>2. IsWellFoundedOn(Less, Nat)
    BY <1>1, NatLessThanWellFounded
  <1>3. PICK x \in N : \A y \in N : ~ (<<y, x>> \in Less)
    BY <1>2, WFMin
  <1>4. ASSUME NEW y \in N, y < x
        PROVE  <<y, x>> \in Less
    BY <1>4
  <1> HIDE DEF Less
  <1>5. \A y \in N : ~(y < x)
    BY <1>3, <1>4
  <1>6. \A y \in N : y \in Nat
    OBVIOUS
  <1> QED
    BY <1>5, <1>6

(* Arithmetic of pages: quotients by a positive number.                    *)
LEMMA TimesMonotone ==
    ASSUME NEW a \in Int, NEW b \in Int, NEW s \in Nat \ {0}, a < b
    PROVE  a * s + s <= b * s
  <1>1. PICK n \in Nat : b = (a + 1) + n
    <2>1. b - a - 1 \in Nat /\ b = (a + 1) + (b - a - 1)
      OBVIOUS
    <2> QED
      BY <2>1
  <1>2. b * s = a * s + s + n * s
    BY <1>1
  <1>3. n * s \in Nat
    BY <1>1
  <1> QED
    BY <1>2, <1>3

LEMMA DivBounds ==
    ASSUME NEW k \in Nat, NEW s \in Nat \ {0}
    PROVE  /\ k \div s \in Nat
           /\ (k \div s) * s <= k /\ k < (k \div s) * s + s
           /\ k % s = k - (k \div s) * s
  OBVIOUS

(* A quotient is the only number with its bounds.                          *)
LEMMA DivUnique ==
    ASSUME NEW k \in Nat, NEW s \in Nat \ {0}, NEW q \in Int,
           q * s <= k, k < q * s + s
    PROVE  k \div s = q
  <1> DEFINE d == k \div s
  <1>1. d \in Nat /\ d * s <= k /\ k < d * s + s
    BY DivBounds
  <1> HIDE DEF d
  <1>2. d * s \in Int /\ q * s \in Int
    BY <1>1
  <1>3. ~(d < q)
    <2> SUFFICES ASSUME d < q PROVE FALSE
      OBVIOUS
    <2>1. d * s + s <= q * s
      BY <1>1, TimesMonotone
    <2> QED
      BY <1>1, <1>2, <2>1
  <1>4. ~(q < d)
    <2> SUFFICES ASSUME q < d PROVE FALSE
      OBVIOUS
    <2>1. q * s + s <= d * s
      BY <1>1, TimesMonotone
    <2> QED
      BY <1>1, <1>2, <2>1
  <1>5. d = q
    BY <1>1, <1>3, <1>4
  <1> QED
    BY <1>5 DEF d

(* The quotient of a smaller number, and of a multiple.                    *)
LEMMA DivLess ==
    ASSUME NEW k \in Nat, NEW n \in Int, NEW s \in Nat \ {0}
    PROVE  k < n * s <=> k \div s < n
  <1> DEFINE d == k \div s
  <1>1. d \in Nat /\ d * s <= k /\ k < d * s + s
    BY DivBounds
  <1> HIDE DEF d
  <1>2. d * s \in Int /\ n * s \in Int
    BY <1>1
  <1>3. ASSUME d < n PROVE k < n * s
    <2>1. d * s + s <= n * s
      BY <1>1, <1>3, TimesMonotone
    <2> QED
      BY <1>1, <1>2, <2>1
  <1>4. ASSUME n < d PROVE ~(k < n * s)
    <2>1. n * s + s <= d * s
      BY <1>1, <1>4, TimesMonotone
    <2> QED
      BY <1>1, <1>2, <2>1
  <1>5. ASSUME n = d PROVE ~(k < n * s)
    BY <1>1, <1>2, <1>5
  <1>6. k < n * s <=> d < n
    BY <1>1, <1>3, <1>4, <1>5
  <1> QED
    BY <1>6 DEF d

LEMMA DivExact ==
    ASSUME NEW k \in Nat, NEW s \in Nat \ {0}, k % s = 0
    PROVE  (k \div s) * s = k
  <1>1. k \div s \in Nat /\ k % s = k - (k \div s) * s
    BY DivBounds
  <1> DEFINE d == k \div s
  <1>2. d \in Nat /\ k % s = k - d * s
    BY <1>1
  <1> HIDE DEF d
  <1>3. d * s = k
    BY <1>2
  <1> QED
    BY <1>3 DEF d

LEMMA DivMonotone ==
    ASSUME NEW a \in Nat, NEW b \in Nat, NEW s \in Nat \ {0}, a <= b
    PROVE  a \div s <= b \div s
  <1> DEFINE n == a \div s
             m == b \div s
  <1>1. n \in Nat /\ m \in Nat /\ n * s <= a
    BY DivBounds
  <1>2. b < n * s <=> m < n
    <2> HIDE DEF n
    <2> QED
      BY <1>1, DivLess
  <1> HIDE DEF n, m
  <1>3. n * s \in Int
    BY <1>1
  <1>4. ~(m < n)
    BY <1>1, <1>2, <1>3
  <1>5. n <= m
    BY <1>1, <1>4
  <1> QED
    BY <1>5 DEF n, m
============================================================================
