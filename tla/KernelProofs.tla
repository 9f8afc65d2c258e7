---------------------------- MODULE KernelProofs ----------------------------
(***************************************************************************)
(* The queues of Kernel, for any threads, priorities, message queues and     *)
(* events.                                                                    *)
(*                                                                         *)
(* First the lists of threads by themselves: __osEnqueueThread,               *)
(* __osDequeueThread and __osPopThread keep a list in the order of its        *)
(* priorities, with each thread in it once.  Then what a scheduler looks like *)
(* between two of their calls, Sched, which each of them preserves or changes *)
(* in a known way.  Then KernelInv, which holds between any two system calls: *)
(* it says where every thread is, what a thread in the middle of a call waits *)
(* for, and that each message and each place that is waited for has woken     *)
(* somebody who has yet to look.  The last holds because whoever takes a      *)
(* message or a place was woken, or found nobody waiting.                     *)
(***************************************************************************)
EXTENDS Kernel, SequenceTheorems, FiniteSetTheorems, TLAPS

-----------------------------------------------------------------------------
(* Lists of threads in the order of their priorities. *)

InOrder(s, pri) == \A i, j \in 1 .. Len(s) : i < j => pri[s[i]] >= pri[s[j]]

In(t, s) == \E i \in 1 .. Len(s) : s[i] = t

\* Each thread once, the highest first.
Ordered(s, pri) == s \in Seq(Threads) /\ IsInjective(s) /\ InOrder(s, pri)

\* A list that t has entered.
PutIn(s, pri, t) == InsertAt(s, Place(pri, s, t), t)

\* list, with t in list[l] too.
Filed(list, l, pri, t) == [list EXCEPT ![l] = PutIn(@, pri, t)]

\* list, with t no more in list[l].
Unfiled(list, l, t) == [list EXCEPT ![l] = RemoveFirst(@, t)]

LEMMA LeastExists ==
    ASSUME NEW S, S \subseteq Nat, S # {}
    PROVE  \E x \in S : \A y \in S : x <= y
<1>1. PICK x \in S : \A y \in S : ~ (<<y, x>> \in OpToRel(<, Nat))
  BY NatLessThanWellFounded, WFMin, Zenon
<1>2. \A y \in S : x <= y
  <2> SUFFICES ASSUME NEW y \in S
               PROVE  ~ (y < x)
    BY SMT
  <2>1. y \in Nat /\ x \in Nat
    OBVIOUS
  <2>2. y < x => <<y, x>> \in OpToRel(<, Nat)
    BY <2>1 DEF OpToRel
  <2> QED
    BY <1>1, <2>2
<1> QED
  BY <1>2

(* There is a place for t in every list. *)
LEMMA PlaceExists ==
    ASSUME NEW pri \in [Threads -> Int], NEW s \in Seq(Threads), NEW t \in Threads
    PROVE  /\ Place(pri, s, t) \in 1 .. Len(s) + 1
           /\ Place(pri, s, t) <= Len(s) => pri[s[Place(pri, s, t)]] < pri[t]
           /\ \A j \in 1 .. Place(pri, s, t) - 1 : pri[s[j]] >= pri[t]
<1> DEFINE P(i) == /\ i <= Len(s) => pri[s[i]] < pri[t]
                   /\ \A j \in 1 .. i - 1 : pri[s[j]] >= pri[t]
           Lower == {i \in 1 .. Len(s) : pri[s[i]] < pri[t]}
<1>1. Len(s) \in Nat /\ \A i \in 1 .. Len(s) : s[i] \in Threads
  BY ElementOfSeq
<1>2. \E i \in 1 .. Len(s) + 1 : P(i)
  <2>1. CASE Lower = {}
    <3>1. P(Len(s) + 1)
      BY <1>1, <2>1
    <3> QED
      BY <1>1, <3>1
  <2>2. CASE Lower # {}
    <3>1. Lower \subseteq Nat
      OBVIOUS
    <3>2. PICK i \in Lower : \A j \in Lower : i <= j
      BY <2>2, <3>1, LeastExists
    <3>3. P(i)
      BY <1>1, <3>2
    <3> QED
      BY <1>1, <3>2, <3>3
  <2> QED
    BY <2>1, <2>2
<1>3. Place(pri, s, t) = CHOOSE i \in 1 .. Len(s) + 1 : P(i)
  BY DEF Place
<1>4. Place(pri, s, t) \in 1 .. Len(s) + 1 /\ P(Place(pri, s, t))
  BY <1>2, <1>3
<1> QED
  BY <1>4

(* What InsertAt and RemoveAt return. *)
LEMMA InsertedAt ==
    ASSUME NEW S, NEW s \in Seq(S), NEW e \in S, NEW i \in 1 .. Len(s) + 1
    PROVE  /\ InsertAt(s, i, e) \in Seq(S)
           /\ Len(InsertAt(s, i, e)) = Len(s) + 1
           /\ \A j \in 1 .. Len(s) + 1 :
                InsertAt(s, i, e)[j] = IF j < i THEN s[j] ELSE IF j = i THEN e ELSE s[j - 1]
<1> DEFINE a == SubSeq(s, 1, i - 1)
           b == SubSeq(s, i, Len(s))
<1>1. Len(s) \in Nat /\ \A j \in 1 .. Len(s) : s[j] \in S
  BY ElementOfSeq
<1>2. a \in Seq(S) /\ Len(a) = i - 1 /\ \A j \in 1 .. i - 1 : a[j] = s[j]
  BY <1>1, SubSeqProperties
<1>3. b \in Seq(S) /\ Len(b) = Len(s) - i + 1
      /\ \A j \in 1 .. Len(s) - i + 1 : b[j] = s[i + j - 1]
  BY <1>1, SubSeqProperties
<1>4. <<e>> \in Seq(S) /\ Len(<<e>>) = 1 /\ <<e>>[1] = e
  OBVIOUS
<1>5. /\ a \o <<e>> \in Seq(S) /\ Len(a \o <<e>>) = i
      /\ \A j \in 1 .. i : (a \o <<e>>)[j] = IF j < i THEN s[j] ELSE e
  BY <1>2, <1>4, ConcatProperties
<1> HIDE DEF a, b
<1> DEFINE c == a \o <<e>>
<1>6. c \in Seq(S) /\ Len(c) = i /\ \A j \in 1 .. i : c[j] = IF j < i THEN s[j] ELSE e
  BY <1>5
<1> HIDE DEF c
<1>7. /\ c \o b \in Seq(S) /\ Len(c \o b) = Len(c) + Len(b)
      /\ \A j \in 1 .. Len(c) + Len(b) :
           (c \o b)[j] = IF j <= Len(c) THEN c[j] ELSE b[j - Len(c)]
  BY <1>3, <1>6, ConcatProperties
<1>8. \A j \in 1 .. Len(s) + 1 : j > i => b[j - i] = s[j - 1]
  BY <1>1, <1>3
<1>9. InsertAt(s, i, e) = c \o b
  BY DEF InsertAt, a, b, c
<1> QED
  BY <1>1, <1>3, <1>6, <1>7, <1>8, <1>9

LEMMA RemovedAt ==
    ASSUME NEW S, NEW s \in Seq(S), NEW i \in 1 .. Len(s)
    PROVE  /\ RemoveAt(s, i) \in Seq(S)
           /\ Len(RemoveAt(s, i)) = Len(s) - 1
           /\ \A j \in 1 .. Len(s) - 1 :
                RemoveAt(s, i)[j] = IF j < i THEN s[j] ELSE s[j + 1]
<1> DEFINE a == SubSeq(s, 1, i - 1)
           b == SubSeq(s, i + 1, Len(s))
<1>1. Len(s) \in Nat /\ \A j \in 1 .. Len(s) : s[j] \in S
  BY ElementOfSeq
<1>2. a \in Seq(S) /\ Len(a) = i - 1 /\ \A j \in 1 .. i - 1 : a[j] = s[j]
  BY <1>1, SubSeqProperties
<1>3. b \in Seq(S) /\ Len(b) = Len(s) - i
      /\ \A j \in 1 .. Len(s) - i : b[j] = s[i + j]
  BY <1>1, SubSeqProperties
<1> HIDE DEF a, b
<1>4. /\ a \o b \in Seq(S) /\ Len(a \o b) = Len(a) + Len(b)
      /\ \A j \in 1 .. Len(a) + Len(b) :
           (a \o b)[j] = IF j <= Len(a) THEN a[j] ELSE b[j - Len(a)]
  BY <1>1, <1>2, <1>3, ConcatProperties
<1>5. RemoveAt(s, i) = a \o b
  BY DEF RemoveAt, a, b
<1>6. \A j \in i .. Len(s) - 1 : b[j - (i - 1)] = s[j + 1]
  <2> SUFFICES ASSUME NEW j \in i .. Len(s) - 1
               PROVE  b[j - (i - 1)] = s[j + 1]
    OBVIOUS
  <2>1. j - (i - 1) \in 1 .. Len(s) - i /\ i + (j - (i - 1)) = j + 1
    BY <1>1
  <2> QED
    BY <1>3, <2>1
<1>7. Len(a) + Len(b) = Len(s) - 1
  BY <1>1, <1>2, <1>3
<1>8. ASSUME NEW j \in 1 .. Len(s) - 1
      PROVE  (a \o b)[j] = IF j < i THEN s[j] ELSE s[j + 1]
  <2>1. CASE j < i
    BY <1>1, <1>2, <1>4, <1>7, <2>1
  <2>2. CASE j >= i
    <3>1. Len(a) = i - 1 /\ ~(j <= Len(a)) /\ j \in 1 .. Len(a) + Len(b)
      BY <1>1, <1>2, <1>7, <2>2
    <3>2. (a \o b)[j] = b[j - Len(a)]
      BY <1>4, <3>1
    <3>3. b[j - (i - 1)] = s[j + 1] /\ ~(j < i)
      BY <1>1, <1>6, <2>2
    <3> QED
      BY <3>1, <3>2, <3>3
  <2>3. j < i \/ j >= i
    OBVIOUS
  <2> QED
    BY <2>1, <2>2, <2>3
<1> QED
  BY <1>4, <1>5, <1>7, <1>8

LEMMA InjectiveSeq ==
    ASSUME NEW S, NEW s \in Seq(S)
    PROVE  IsInjective(s) <=> \A i, j \in 1 .. Len(s) : s[i] = s[j] => i = j
BY LenProperties DEF IsInjective

(* __osEnqueueThread keeps a list in order and adds t to it. *)
LEMMA Inserting ==
    ASSUME NEW pri \in [Threads -> Int], NEW s, Ordered(s, pri), NEW t \in Threads, ~In(t, s)
    PROVE  LET n == PutIn(s, pri, t)
           IN  /\ Ordered(n, pri) /\ n # <<>>
               /\ \A u : In(u, n) <=> In(u, s) \/ u = t
<1> DEFINE i == Place(pri, s, t)
           n == InsertAt(s, i, t)
<1>1. s \in Seq(Threads) /\ Len(s) \in Nat /\ \A j \in 1 .. Len(s) : s[j] \in Threads
  BY ElementOfSeq DEF Ordered
<1>2. /\ i \in 1 .. Len(s) + 1
      /\ i <= Len(s) => pri[s[i]] < pri[t]
      /\ \A j \in 1 .. i - 1 : pri[s[j]] >= pri[t]
  BY <1>1, PlaceExists
<1> HIDE DEF i
<1>3. /\ n \in Seq(Threads) /\ Len(n) = Len(s) + 1
      /\ \A j \in 1 .. Len(s) + 1 :
           n[j] = IF j < i THEN s[j] ELSE IF j = i THEN t ELSE s[j - 1]
  BY <1>1, <1>2, InsertedAt
<1> HIDE DEF n
<1>4. Len(s) \in Nat /\ i \in 1 .. Len(s) + 1
  BY <1>1, <1>2
<1>5. \A j \in 1 .. Len(s) + 1 : j < i => n[j] = s[j] /\ j \in 1 .. Len(s)
  BY <1>4, <1>3
<1>6. \A j \in 1 .. Len(s) + 1 : j > i => n[j] = s[j - 1] /\ j - 1 \in 1 .. Len(s)
  BY <1>4, <1>3
<1>7. \A j, k \in 1 .. Len(s) : j < k => pri[s[j]] >= pri[s[k]]
  BY DEF Ordered, InOrder
<1>8. \A j \in 1 .. Len(s) : j >= i => pri[s[j]] < pri[t]
  <2> SUFFICES ASSUME NEW j \in 1 .. Len(s), j >= i
               PROVE  pri[s[j]] < pri[t]
    OBVIOUS
  <2>1. CASE j = i
    BY <1>2, <2>1
  <2>2. CASE j > i
    <3>1. i \in 1 .. Len(s) /\ pri[s[i]] >= pri[s[j]] /\ pri[s[i]] < pri[t]
      BY <1>1, <1>2, <1>7, <2>2
    <3> QED
      BY <1>1, <3>1
  <2> QED
    BY <1>1, <1>2, <2>1, <2>2
<1>9. InOrder(n, pri)
  <2> SUFFICES ASSUME NEW j \in 1 .. Len(n), NEW k \in 1 .. Len(n), j < k
               PROVE  pri[n[j]] >= pri[n[k]]
    BY DEF InOrder
  <2>1. j \in 1 .. Len(s) + 1 /\ k \in 1 .. Len(s) + 1
    BY <1>3
  <2>2. CASE k < i
    <3>1. n[j] = s[j] /\ n[k] = s[k] /\ j \in 1 .. Len(s) /\ k \in 1 .. Len(s)
      BY <1>4, <1>5, <2>1, <2>2
    <3> QED
      BY <1>7, <3>1
  <2>3. CASE k = i
    <3>1. n[j] = s[j] /\ n[k] = t /\ j \in 1 .. i - 1
      BY <1>4, <1>5, <1>3, <2>1, <2>3
    <3> QED
      BY <1>2, <3>1
  <2>4. CASE k > i /\ j < i
    <3>1. n[j] = s[j] /\ n[k] = s[k - 1] /\ k - 1 \in 1 .. Len(s) /\ j \in 1 .. Len(s)
      BY <1>4, <1>5, <1>6, <2>1, <2>4
    <3>2. j < k - 1 \/ j = k - 1
      BY <1>4, <2>1, <2>4
    <3> QED
      BY <1>1, <1>7, <3>1, <3>2
  <2>5. CASE j = i
    <3>1. n[j] = t /\ n[k] = s[k - 1] /\ k - 1 \in 1 .. Len(s) /\ k - 1 >= i
      BY <1>4, <1>6, <1>3, <2>1, <2>5
    <3>2. pri[s[k - 1]] < pri[t]
      BY <1>8, <3>1
    <3> QED
      BY <1>1, <3>1, <3>2
  <2>6. CASE j > i
    <3>1. /\ n[j] = s[j - 1] /\ n[k] = s[k - 1]
          /\ k - 1 \in 1 .. Len(s) /\ j - 1 \in 1 .. Len(s) /\ j - 1 < k - 1
      BY <1>4, <1>6, <2>1, <2>6
    <3> QED
      BY <1>7, <3>1
  <2> QED
    BY <1>2, <2>1, <2>2, <2>3, <2>4, <2>5, <2>6
<1>10. \A j \in 1 .. Len(s) : s[j] # t
  BY DEF In
<1>11. IsInjective(n)
  <2>1. \A j, k \in 1 .. Len(s) : s[j] = s[k] => j = k
    BY <1>1, InjectiveSeq DEF Ordered
  <2>2. SUFFICES ASSUME NEW j \in 1 .. Len(n), NEW k \in 1 .. Len(n), j < k
                 PROVE  n[j] # n[k]
    <3>1. \A j, k \in 1 .. Len(n) : n[j] = n[k] => j = k
      BY <1>1, <1>3, <2>2
    <3> QED
      BY <1>3, <3>1, InjectiveSeq
  <2>3. j \in 1 .. Len(s) + 1 /\ k \in 1 .. Len(s) + 1
    BY <1>3
  <2>4. CASE k < i
    <3>1. n[j] = s[j] /\ j \in 1 .. Len(s) /\ n[k] = s[k] /\ k \in 1 .. Len(s) /\ j # k
      BY <1>4, <1>5, <2>3, <2>2, <2>4
    <3> QED
      BY <2>1, <3>1
  <2>5. CASE k = i
    <3>1. n[j] = s[j] /\ n[k] = t /\ j \in 1 .. Len(s)
      BY <1>1, <1>2, <1>3, <2>3, <2>2, <2>5
    <3> QED
      BY <1>10, <3>1
  <2>6. CASE k > i
    <3>1. n[k] = s[k - 1] /\ k - 1 \in 1 .. Len(s)
      BY <1>1, <1>2, <1>3, <2>3, <2>6
    <3>2. CASE j < i
      <4>1. n[j] = s[j] /\ j \in 1 .. Len(s) /\ j # k - 1
        BY <1>4, <1>5, <2>3, <2>6, <3>2
      <4> QED
        BY <2>1, <3>1, <4>1
    <3>3. CASE j = i
      BY <1>3, <1>10, <2>3, <3>1, <3>3
    <3>4. CASE j > i
      <4>1. n[j] = s[j - 1] /\ j - 1 \in 1 .. Len(s) /\ j - 1 # k - 1
        BY <1>1, <1>2, <1>3, <2>3, <2>2, <3>4
      <4> QED
        BY <2>1, <3>1, <4>1
    <3> QED
      BY <1>2, <2>3, <3>2, <3>3, <3>4
  <2> QED
    BY <1>2, <2>3, <2>4, <2>5, <2>6
<1>12. ASSUME NEW u
       PROVE  In(u, n) <=> In(u, s) \/ u = t
  <2>1. ASSUME In(u, n), u # t
        PROVE  In(u, s)
    <3>1. PICK j \in 1 .. Len(s) + 1 : n[j] = u
      BY <1>3, <2>1 DEF In
    <3>2. j # i
      BY <1>3, <2>1, <3>1
    <3>3. CASE j < i
      BY <1>5, <3>1, <3>3 DEF In
    <3>4. CASE j > i
      <4>1. j - 1 \in 1 .. Len(s) /\ s[j - 1] = u
        BY <1>6, <3>1, <3>4
      <4> QED
        BY <4>1 DEF In
    <3> QED
      BY <1>2, <3>2, <3>3, <3>4
  <2>2. n[i] = t /\ i \in 1 .. Len(n)
    BY <1>2, <1>3
  <2>3. ASSUME In(u, s)
        PROVE  In(u, n)
    <3>1. PICK j \in 1 .. Len(s) : s[j] = u
      BY <2>3 DEF In
    <3>2. CASE j < i
      <4>1. n[j] = u /\ j \in 1 .. Len(n)
        BY <1>1, <1>2, <1>3, <3>1, <3>2
      <4> QED
        BY <4>1 DEF In
    <3>3. CASE j >= i
      <4>1. j + 1 \in 1 .. Len(s) + 1 /\ ~(j + 1 < i) /\ j + 1 # i /\ (j + 1) - 1 = j
        BY <1>1, <1>2, <3>3
      <4>2. n[j + 1] = s[j]
        BY <1>3, <4>1
      <4> QED
        BY <1>3, <3>1, <4>1, <4>2 DEF In
    <3> QED
      BY <1>2, <3>2, <3>3
  <2> QED
    BY <2>1, <2>2, <2>3 DEF In
<1>13. n # <<>>
  BY <1>1, <1>3
<1> QED
  BY <1>3, <1>9, <1>11, <1>12, <1>13 DEF Ordered, n, i, PutIn

(* __osDequeueThread takes t out and leaves the others in order. *)
LEMMA Removing ==
    ASSUME NEW pri \in [Threads -> Int], NEW s, Ordered(s, pri), NEW t \in Threads, In(t, s)
    PROVE  LET n == RemoveFirst(s, t)
           IN  /\ Ordered(n, pri)
               /\ \A u : In(u, n) <=> In(u, s) /\ u # t
<1>1. s \in Seq(Threads) /\ Len(s) \in Nat
  BY DEF Ordered
<1>2. \A j, k \in 1 .. Len(s) : s[j] = s[k] => j = k
  BY <1>1, InjectiveSeq DEF Ordered
<1>3. PICK i \in 1 .. Len(s) : s[i] = t
  BY DEF In
<1>4. RemoveFirst(s, t) = RemoveAt(s, i)
  <2> DEFINE I == {j \in 1 .. Len(s) : s[j] = t}
  <2>1. I = {i}
    BY <1>2, <1>3
  <2>2. Min(I) = i
    BY <2>1 DEF Min
  <2>3. SelectInSeq(s, LAMBDA v : v = t) = IF I # {} THEN Min(I) ELSE 0
    BY DEF SelectInSeq
  <2>4. \E j \in 1 .. Len(s) : s[j] = t
    BY <1>3
  <2> HIDE DEF I
  <2>5. SelectInSeq(s, LAMBDA v : v = t) = i
    BY <2>1, <2>2, <2>3
  <2> QED
    BY <2>4, <2>5 DEF RemoveFirst
<1> DEFINE n == RemoveAt(s, i)
<1>5. /\ n \in Seq(Threads) /\ Len(n) = Len(s) - 1
      /\ \A j \in 1 .. Len(s) - 1 : n[j] = IF j < i THEN s[j] ELSE s[j + 1]
  BY <1>1, RemovedAt
<1> HIDE DEF n
<1> DEFINE f(j) == IF j < i THEN j ELSE j + 1
<1>6. \A j \in 1 .. Len(n) : f(j) \in 1 .. Len(s) /\ f(j) # i
  BY <1>1, <1>5
<1>7. \A j \in 1 .. Len(n) : n[j] = s[f(j)]
  BY <1>1, <1>5
<1>8. \A j, k \in Int : j < k => f(j) < f(k)
  OBVIOUS
<1> HIDE DEF f
<1>9. InOrder(n, pri)
  <2> SUFFICES ASSUME NEW j \in 1 .. Len(n), NEW k \in 1 .. Len(n), j < k
               PROVE  pri[n[j]] >= pri[n[k]]
    BY DEF InOrder
  <2>1. f(j) \in 1 .. Len(s) /\ f(k) \in 1 .. Len(s) /\ f(j) < f(k)
    BY <1>6, <1>8
  <2> QED
    BY <1>7, <2>1 DEF Ordered, InOrder
<1>10. IsInjective(n)
  <2>1. ASSUME NEW j \in 1 .. Len(n), NEW k \in 1 .. Len(n), j < k
        PROVE  n[j] # n[k]
    <3>1. f(j) \in 1 .. Len(s) /\ f(k) \in 1 .. Len(s) /\ f(j) < f(k)
      BY <1>6, <1>8, <2>1
    <3>2. f(j) # f(k)
      BY <3>1
    <3> QED
      BY <1>2, <1>7, <3>1, <3>2
  <2>2. \A j, k \in 1 .. Len(n) : n[j] = n[k] => j = k
    BY <1>5, <2>1
  <2> QED
    BY <1>5, <2>2, InjectiveSeq
<1>11. ASSUME NEW u
       PROVE  In(u, n) <=> In(u, s) /\ u # t
  <2>1. ASSUME In(u, n)
        PROVE  In(u, s) /\ u # t
    <3>1. PICK j \in 1 .. Len(n) : n[j] = u
      BY <2>1 DEF In
    <3>2. f(j) \in 1 .. Len(s) /\ s[f(j)] = u /\ f(j) # i
      BY <1>6, <1>7, <3>1
    <3> QED
      BY <1>2, <1>3, <3>2 DEF In
  <2>2. ASSUME In(u, s), u # t
        PROVE  In(u, n)
    <3>1. PICK j \in 1 .. Len(s) : s[j] = u
      BY <2>2 DEF In
    <3>2. j # i
      BY <1>3, <2>2, <3>1
    <3>3. CASE j < i
      <4>1. j \in 1 .. Len(n) /\ f(j) = j
        BY <1>1, <1>5, <3>3 DEF f
      <4> QED
        BY <1>7, <3>1, <4>1 DEF In
    <3>4. CASE j > i
      <4>1. j - 1 \in 1 .. Len(n) /\ f(j - 1) = j
        BY <1>1, <1>5, <3>4 DEF f
      <4> QED
        BY <1>7, <3>1, <4>1 DEF In
    <3> QED
      BY <3>2, <3>3, <3>4
  <2> QED
    BY <2>1, <2>2
<1> QED
  BY <1>4, <1>5, <1>9, <1>10, <1>11 DEF Ordered, n

(* __osPopThread takes the first, than whom none is higher. *)
LEMMA Popping ==
    ASSUME NEW pri \in [Threads -> Int], NEW s, Ordered(s, pri), s # <<>>
    PROVE  /\ Ordered(Tail(s), pri)
           /\ Head(s) \in Threads /\ In(Head(s), s)
           /\ \A u : In(u, Tail(s)) <=> In(u, s) /\ u # Head(s)
           /\ \A u : In(u, s) => pri[u] <= pri[Head(s)]
<1>1. s \in Seq(Threads) /\ Len(s) \in Nat /\ \A j \in 1 .. Len(s) : s[j] \in Threads
  BY ElementOfSeq DEF Ordered
<1>2. Len(s) > 0 /\ Head(s) = s[1] /\ s[1] \in Threads
  BY <1>1, EmptySeq
<1>3. \A j, k \in 1 .. Len(s) : s[j] = s[k] => j = k
  BY <1>1, InjectiveSeq DEF Ordered
<1> DEFINE n == Tail(s)
<1>4. /\ n \in Seq(Threads) /\ Len(n) = Len(s) - 1
      /\ \A j \in 1 .. Len(n) : n[j] = s[j + 1] /\ j + 1 \in 2 .. Len(s)
  BY <1>1, <1>2, HeadTailProperties
<1> HIDE DEF n
<1>5. InOrder(n, pri)
  <2> SUFFICES ASSUME NEW j \in 1 .. Len(n), NEW k \in 1 .. Len(n), j < k
               PROVE  pri[n[j]] >= pri[n[k]]
    BY DEF InOrder
  <2>1. j + 1 \in 1 .. Len(s) /\ k + 1 \in 1 .. Len(s) /\ j + 1 < k + 1
    BY <1>1, <1>4
  <2> QED
    BY <1>4, <2>1 DEF Ordered, InOrder
<1>6. IsInjective(n)
  <2> SUFFICES ASSUME NEW j \in 1 .. Len(n), NEW k \in 1 .. Len(n), n[j] = n[k]
               PROVE  j = k
    BY <1>4, InjectiveSeq
  <2>1. j + 1 \in 1 .. Len(s) /\ k + 1 \in 1 .. Len(s)
    BY <1>1, <1>4
  <2>2. s[j + 1] = s[k + 1]
    BY <1>4
  <2>3. j + 1 = k + 1
    BY <1>3, <2>1, <2>2
  <2> QED
    BY <2>3
<1>7. ASSUME NEW u
      PROVE  In(u, n) <=> In(u, s) /\ u # s[1]
  <2>1. ASSUME In(u, n)
        PROVE  In(u, s) /\ u # s[1]
    <3>1. PICK j \in 1 .. Len(n) : n[j] = u
      BY <2>1 DEF In
    <3>2. j + 1 \in 1 .. Len(s) /\ s[j + 1] = u /\ j + 1 # 1 /\ 1 \in 1 .. Len(s)
      BY <1>1, <1>2, <1>4, <3>1
    <3> QED
      BY <1>3, <3>2 DEF In
  <2>2. ASSUME In(u, s), u # s[1]
        PROVE  In(u, n)
    <3>1. PICK j \in 1 .. Len(s) : s[j] = u
      BY <2>2 DEF In
    <3>2. j - 1 \in 1 .. Len(n) /\ (j - 1) + 1 = j
      BY <1>1, <1>4, <2>2, <3>1
    <3>3. n[j - 1] = u
      BY <1>4, <3>1, <3>2
    <3> QED
      BY <3>2, <3>3 DEF In
  <2> QED
    BY <2>1, <2>2
<1>8. ASSUME NEW u, In(u, s)
      PROVE  pri[u] <= pri[s[1]]
  <2>1. PICK j \in 1 .. Len(s) : s[j] = u
    BY <1>8 DEF In
  <2>2. CASE j = 1
    BY <1>1, <1>2, <2>1, <2>2
  <2>3. CASE j > 1
    <3>1. pri[s[1]] >= pri[s[j]]
      BY <1>1, <1>2, <2>3 DEF Ordered, InOrder
    <3> QED
      BY <1>1, <1>2, <2>1, <3>1
  <2> QED
    BY <2>2, <2>3
<1>9. In(s[1], s)
  BY <1>1, <1>2 DEF In
<1> QED
  BY <1>2, <1>4, <1>5, <1>6, <1>7, <1>8, <1>9 DEF Ordered, n

-----------------------------------------------------------------------------
(* The lists and the threads, by the fields of the scheduler; those in out are
   on their way from one list to another, or run.                            *)

Typed(state, pri, onq, list) ==
    /\ state \in [Threads -> States]
    /\ pri \in [Threads -> Pris \cup {IdlePri}]
    /\ onq \in [Threads -> Lists \cup {NoList}]
    /\ list \in [Lists -> Seq(Threads)]

\* A thread that is not in out: where it is follows from its state and its call.
Placed(t, state, onq, list, c) ==
    /\ state[t] # "running"
    /\ state[t] \in {"runnable", "waiting"} => onq[t] \in Lists /\ In(t, list[onq[t]])
    /\ c[t] # NoCall => onq[t] \in {RunQueue, WaitsIn(c[t])}
    /\ onq[t] \notin {NoList, RunQueue} => c[t] # NoCall
    /\ state[t] = "none" => c[t] = NoCall /\ onq[t] = NoList

\* A thread in list l.
Belongs(t, l, state, onq, out) ==
    /\ t \in Threads \ out /\ onq[t] = l
    /\ state[t] \in {"runnable", "waiting"}
    /\ l # RunQueue => state[t] = "waiting"

Queued(state, pri, onq, list, c, out) ==
    /\ Typed(state, pri, onq, list)
    /\ \A l \in Lists : Ordered(list[l], pri)
    /\ \A l \in Lists : \A t : In(t, list[l]) => Belongs(t, l, state, onq, out)
    /\ \A t \in Threads \ out : Placed(t, state, onq, list, c)

LEMMA Priorities ==
    ASSUME NEW pri \in [Threads -> Pris \cup {IdlePri}]
    PROVE  pri \in [Threads -> Int]
<1>1. Pris \cup {IdlePri} \subseteq Int
  BY KernelAssumption
<1> QED
  BY <1>1

LEMMA Enqueued ==
    ASSUME NEW state, NEW pri, NEW onq, NEW list, NEW c, NEW out,
           Queued(state, pri, onq, list, c, out),
           NEW t \in Threads, t \in out, NEW l \in Lists,
           state[t] \in {"runnable", "waiting"},
           l # RunQueue => state[t] = "waiting" /\ c[t] # NoCall,
           c[t] # NoCall => l \in {RunQueue, WaitsIn(c[t])}
    PROVE  LET n == Filed(list, l, pri, t)
           IN  /\ Queued(state, pri, [onq EXCEPT ![t] = l], n, c, out \ {t})
               /\ \A m \in Lists : \A u : In(u, n[m]) <=> In(u, list[m]) \/ (m = l /\ u = t)
<1> DEFINE s == PutIn(list[l], pri, t)
           n == Filed(list, l, pri, t)
           q == [onq EXCEPT ![t] = l]
<1>1. Typed(state, pri, onq, list)
  BY DEF Queued
<1>2. \A k \in Lists : ~In(t, list[k])
  BY DEF Queued, Belongs
<1>3. Ordered(list[l], pri)
  BY DEF Queued
<1>4. pri \in [Threads -> Int]
  BY <1>1, Priorities DEF Typed
<1>5. /\ Ordered(s, pri) /\ s # <<>>
      /\ \A u : In(u, s) <=> In(u, list[l]) \/ u = t
  BY <1>2, <1>3, <1>4, Inserting
<1>6. n = [k \in Lists |-> IF k = l THEN s ELSE list[k]]
  BY <1>1 DEF Typed, Filed
<1>7. s \in Seq(Threads)
  BY <1>5 DEF Ordered
<1> HIDE DEF s, n
<1>8. q = [u \in Threads |-> IF u = t THEN l ELSE onq[u]]
  BY <1>1 DEF Typed
<1> HIDE DEF q
<1>9. Typed(state, pri, q, n)
  BY <1>1, <1>6, <1>7, <1>8 DEF Typed
<1>10. \A k \in Lists : Ordered(n[k], pri)
  BY <1>5, <1>6 DEF Queued
<1>11. ASSUME NEW k \in Lists, NEW u, In(u, n[k])
       PROVE  Belongs(u, k, state, q, out \ {t})
  <2>1. CASE u = t
    <3>1. k = l
      BY <1>2, <1>6, <1>11, <2>1
    <3> QED
      BY <1>8, <2>1, <3>1 DEF Belongs
  <2>2. CASE u # t
    <3>1. In(u, list[k])
      BY <1>5, <1>6, <1>11, <2>2
    <3>2. Belongs(u, k, state, onq, out)
      BY <3>1 DEF Queued
    <3> QED
      BY <1>8, <2>2, <3>2 DEF Belongs
  <2> QED
    BY <2>1, <2>2
<1>12. ASSUME NEW u \in Threads \ (out \ {t})
       PROVE  Placed(u, state, q, n, c)
  <2>1. CASE u = t
    <3>1. q[u] = l /\ In(u, n[l])
      BY <1>5, <1>6, <1>8, <2>1
    <3>2. l # NoList
      BY KernelAssumption DEF Lists, RunQueue, MtQueue, FullQueue, NoList
    <3> QED
      BY <2>1, <3>1, <3>2 DEF Placed
  <2>2. CASE u # t
    <3>1. Placed(u, state, onq, list, c)
      BY <2>2 DEF Queued
    <3>2. q[u] = onq[u]
      BY <1>8, <2>2
    <3>3. \A k \in Lists : In(u, list[k]) => In(u, n[k])
      BY <1>5, <1>6
    <3> QED
      BY <3>1, <3>2, <3>3 DEF Placed
  <2> QED
    BY <2>1, <2>2
<1>13. ASSUME NEW m \in Lists, NEW u
       PROVE  In(u, n[m]) <=> In(u, list[m]) \/ (m = l /\ u = t)
  BY <1>5, <1>6
<1> QED
  BY <1>5, <1>9, <1>10, <1>11, <1>12, <1>13 DEF Queued, n, q

LEMMA Dequeued ==
    ASSUME NEW state, NEW pri, NEW onq, NEW list, NEW c, NEW out,
           Queued(state, pri, onq, list, c, out),
           NEW t \in Threads, t \notin out, state[t] \in {"runnable", "waiting"}
    PROVE  LET n == Unfiled(list, onq[t], t)
           IN  /\ Queued(state, pri, onq, n, c, out \cup {t})
               /\ \A l \in Lists : \A u : In(u, n[l]) <=> In(u, list[l]) /\ u # t
<1> DEFINE l == onq[t]
           s == RemoveFirst(list[l], t)
           n == Unfiled(list, l, t)
<1>1. Typed(state, pri, onq, list)
  BY DEF Queued
<1>2. Placed(t, state, onq, list, c)
  BY DEF Queued
<1>3. l \in Lists /\ In(t, list[l]) /\ Ordered(list[l], pri)
  BY <1>2 DEF Queued, Placed
<1>4. Ordered(s, pri) /\ \A u : In(u, s) <=> In(u, list[l]) /\ u # t
  BY <1>1, <1>3, Removing, Priorities DEF Typed
<1>5. n = [k \in Lists |-> IF k = l THEN s ELSE list[k]]
  BY <1>1 DEF Typed, Unfiled
<1>6. s \in Seq(Threads)
  BY <1>4 DEF Ordered
<1>7. \A k \in Lists : In(t, list[k]) => k = l
  BY DEF Queued, Belongs
<1> HIDE DEF s, n, l
<1>8. Typed(state, pri, onq, n)
  BY <1>1, <1>3, <1>5, <1>6 DEF Typed
<1>9. \A k \in Lists : Ordered(n[k], pri)
  BY <1>4, <1>5 DEF Queued
<1>10. ASSUME NEW k \in Lists, NEW u
       PROVE  In(u, n[k]) <=> In(u, list[k]) /\ u # t
  BY <1>4, <1>5, <1>7
<1>11. ASSUME NEW k \in Lists, NEW u, In(u, n[k])
       PROVE  Belongs(u, k, state, onq, out \cup {t})
  <2>1. In(u, list[k]) /\ u # t
    BY <1>10, <1>11
  <2> QED
    BY <2>1 DEF Queued, Belongs
<1>12. ASSUME NEW u \in Threads \ (out \cup {t})
       PROVE  Placed(u, state, onq, n, c)
  BY <1>10 DEF Queued, Placed
<1> QED
  BY <1>8, <1>9, <1>10, <1>11, <1>12 DEF Queued, n, l

LEMMA Popped ==
    ASSUME NEW state, NEW pri, NEW onq, NEW list, NEW c, NEW out,
           Queued(state, pri, onq, list, c, out),
           NEW l \in Lists, list[l] # <<>>
    PROVE  LET t == Head(list[l])
               n == [list EXCEPT ![l] = Tail(@)]
           IN  /\ Queued(state, pri, onq, n, c, out \cup {t})
               /\ Belongs(t, l, state, onq, out)
               /\ Placed(t, state, onq, list, c)
               /\ \A k \in Lists : \A u : In(u, n[k]) <=> In(u, list[k]) /\ u # t
               /\ \A u : In(u, list[l]) => pri[u] <= pri[t]
<1> DEFINE t == Head(list[l])
           s == Tail(list[l])
           n == [list EXCEPT ![l] = Tail(@)]
<1>1. Typed(state, pri, onq, list)
  BY DEF Queued
<1>2. Ordered(list[l], pri)
  BY DEF Queued
<1>3. /\ Ordered(s, pri) /\ t \in Threads /\ In(t, list[l])
      /\ \A u : In(u, s) <=> In(u, list[l]) /\ u # t
      /\ \A u : In(u, list[l]) => pri[u] <= pri[t]
  BY <1>1, <1>2, Popping, Priorities DEF Typed
<1>4. Belongs(t, l, state, onq, out)
  BY <1>3 DEF Queued
<1>5. n = [k \in Lists |-> IF k = l THEN s ELSE list[k]]
  BY <1>1 DEF Typed
<1>6. s \in Seq(Threads)
  BY <1>3 DEF Ordered
<1> HIDE DEF s, n, t
<1>7. \A k \in Lists : In(t, list[k]) => k = l
  BY <1>4 DEF Queued, Belongs
<1>8. Typed(state, pri, onq, n)
  BY <1>1, <1>5, <1>6 DEF Typed
<1>9. \A k \in Lists : Ordered(n[k], pri)
  BY <1>3, <1>5 DEF Queued
<1>10. ASSUME NEW k \in Lists, NEW u
       PROVE  In(u, n[k]) <=> In(u, list[k]) /\ u # t
  BY <1>3, <1>5, <1>7
<1>11. ASSUME NEW k \in Lists, NEW u, In(u, n[k])
       PROVE  Belongs(u, k, state, onq, out \cup {t})
  <2>1. In(u, list[k]) /\ u # t
    BY <1>10, <1>11
  <2> QED
    BY <2>1 DEF Queued, Belongs
<1>12. ASSUME NEW u \in Threads \ (out \cup {t})
       PROVE  Placed(u, state, onq, n, c)
  BY <1>10 DEF Queued, Placed
<1>13. Placed(t, state, onq, list, c)
  BY <1>4 DEF Queued, Belongs
<1> QED
  BY <1>4, <1>3, <1>8, <1>9, <1>10, <1>11, <1>12, <1>13 DEF Queued, n, t

(* Whoever is out may change. *)
LEMMA Changed ==
    ASSUME NEW state, NEW pri, NEW onq, NEW list, NEW c, NEW out,
           Queued(state, pri, onq, list, c, out),
           NEW state2, NEW pri2, NEW onq2, NEW c2, Typed(state2, pri2, onq2, list),
           \A t \in Threads \ out : /\ state2[t] = state[t] /\ pri2[t] = pri[t]
                                   /\ onq2[t] = onq[t] /\ c2[t] = c[t]
    PROVE  Queued(state2, pri2, onq2, list, c2, out)
<1>1. ASSUME NEW l \in Lists, NEW t, In(t, list[l])
      PROVE  t \in Threads \ out /\ Belongs(t, l, state2, onq2, out)
  BY <1>1 DEF Queued, Belongs
<1>2. ASSUME NEW l \in Lists
      PROVE  Ordered(list[l], pri2)
  <2> DEFINE s == list[l]
  <2>1. Ordered(s, pri)
    BY DEF Queued
  <2>2. \A i \in 1 .. Len(s) : pri2[s[i]] = pri[s[i]]
    BY <1>1 DEF In
  <2> QED
    BY <2>1, <2>2 DEF Ordered, InOrder
<1>3. ASSUME NEW t \in Threads \ out
      PROVE  Placed(t, state2, onq2, list, c2)
  BY DEF Queued, Placed
<1> QED
  BY <1>1, <1>2, <1>3 DEF Queued

(* Whoever is out may stay out of the lists. *)
LEMMA Left ==
    ASSUME NEW state, NEW pri, NEW onq, NEW list, NEW c, NEW out,
           Queued(state, pri, onq, list, c, out),
           NEW t \in out, Placed(t, state, onq, list, c)
    PROVE  Queued(state, pri, onq, list, c, out \ {t})
BY DEF Queued, Belongs

(* A thread that was stopped is in no list. *)
LEMMA Entered ==
    ASSUME NEW state, NEW pri, NEW onq, NEW list, NEW c, NEW out,
           Queued(state, pri, onq, list, c, out),
           NEW t, state[t] \notin {"runnable", "waiting"}
    PROVE  Queued(state, pri, onq, list, c, out \cup {t})
<1>1. ASSUME NEW l \in Lists, NEW u, In(u, list[l])
      PROVE  Belongs(u, l, state, onq, out \cup {t})
  BY <1>1 DEF Queued, Belongs
<1> QED
  BY <1>1 DEF Queued

-----------------------------------------------------------------------------
(* The same of a scheduler, and what each of its operations does to it. *)

IsSched(k) == k = [running |-> k.running, state |-> k.state, pri |-> k.pri,
                   onq |-> k.onq, list |-> k.list]

Sched(k, c, out) == IsSched(k) /\ Queued(k.state, k.pri, k.onq, k.list, c, out)

LEMMA ListFields ==
    ASSUME NEW k, IsSched(k), NEW l, NEW s
    PROVE  LET e == [k EXCEPT !.list[l] = s]
           IN  /\ IsSched(e) /\ e.running = k.running /\ e.state = k.state /\ e.pri = k.pri
               /\ e.onq = k.onq /\ e.list = [k.list EXCEPT ![l] = s]
BY DEF IsSched

LEMMA OnqFields ==
    ASSUME NEW k, IsSched(k), NEW t, NEW l
    PROVE  LET e == [k EXCEPT !.onq[t] = l]
           IN  /\ IsSched(e) /\ e.running = k.running /\ e.state = k.state /\ e.pri = k.pri
               /\ e.list = k.list /\ e.onq = [k.onq EXCEPT ![t] = l]
BY DEF IsSched

LEMMA StateFields ==
    ASSUME NEW k, IsSched(k), NEW t, NEW s
    PROVE  LET e == [k EXCEPT !.state[t] = s]
           IN  /\ IsSched(e) /\ e.running = k.running /\ e.pri = k.pri
               /\ e.onq = k.onq /\ e.list = k.list /\ e.state = [k.state EXCEPT ![t] = s]
BY DEF IsSched

LEMMA PriFields ==
    ASSUME NEW k, IsSched(k), NEW t, NEW p
    PROVE  LET e == [k EXCEPT !.pri[t] = p]
           IN  /\ IsSched(e) /\ e.running = k.running /\ e.state = k.state
               /\ e.onq = k.onq /\ e.list = k.list /\ e.pri = [k.pri EXCEPT ![t] = p]
BY DEF IsSched

LEMMA RunningFields ==
    ASSUME NEW k, IsSched(k), NEW t
    PROVE  LET e == [k EXCEPT !.running = t]
           IN  /\ IsSched(e) /\ e.running = t /\ e.state = k.state /\ e.pri = k.pri
               /\ e.onq = k.onq /\ e.list = k.list
BY DEF IsSched

LEMMA EnqueueFields ==
    ASSUME NEW k, IsSched(k), NEW l, NEW t
    PROVE  LET e == EnqueueThread(k, l, t)
           IN  /\ IsSched(e) /\ e.running = k.running /\ e.state = k.state /\ e.pri = k.pri
               /\ e.onq = [k.onq EXCEPT ![t] = l]
               /\ e.list = Filed(k.list, l, k.pri, t)
<1> DEFINE s == PutIn(k.list[l], k.pri, t)
           d == [k EXCEPT !.list[l] = s]
           e == [d EXCEPT !.onq[t] = l]
<1>1. Filed(k.list, l, k.pri, t) = [k.list EXCEPT ![l] = s]
  BY DEF Filed
<1>2. EnqueueThread(k, l, t) = [k EXCEPT !.list[l] = s, !.onq[t] = l]
  BY DEF EnqueueThread, PutIn
<1> HIDE DEF s
<1>3. [k EXCEPT !.list[l] = s, !.onq[t] = l] = e
  OBVIOUS
<1>4. /\ IsSched(d) /\ d.running = k.running /\ d.state = k.state /\ d.pri = k.pri
      /\ d.onq = k.onq /\ d.list = [k.list EXCEPT ![l] = s]
  BY ListFields
<1> HIDE DEF d
<1>5. /\ IsSched(e) /\ e.running = d.running /\ e.state = d.state /\ e.pri = d.pri
      /\ e.list = d.list /\ e.onq = [d.onq EXCEPT ![t] = l]
  BY <1>4, OnqFields
<1> HIDE DEF e
<1> QED
  BY <1>1, <1>2, <1>3, <1>4, <1>5

LEMMA DequeueFields ==
    ASSUME NEW k, IsSched(k), NEW l, NEW t
    PROVE  LET e == DequeueThread(k, l, t)
           IN  /\ IsSched(e) /\ e.running = k.running /\ e.state = k.state /\ e.pri = k.pri
               /\ e.onq = k.onq /\ e.list = Unfiled(k.list, l, t)
<1> DEFINE s == RemoveFirst(k.list[l], t)
           e == [k EXCEPT !.list[l] = s]
<1>1. DequeueThread(k, l, t) = e
  BY DEF DequeueThread
<1>2. Unfiled(k.list, l, t) = [k.list EXCEPT ![l] = s]
  BY DEF Unfiled
<1> HIDE DEF s
<1>3. /\ IsSched(e) /\ e.running = k.running /\ e.state = k.state /\ e.pri = k.pri
      /\ e.onq = k.onq /\ e.list = [k.list EXCEPT ![l] = s]
  BY ListFields
<1> HIDE DEF e
<1> QED
  BY <1>1, <1>2, <1>3

LEMMA PopFields ==
    ASSUME NEW k, IsSched(k), NEW l
    PROVE  LET e == PopThread(k, l)
           IN  /\ IsSched(e) /\ e.running = k.running /\ e.state = k.state /\ e.pri = k.pri
               /\ e.onq = k.onq /\ e.list = [k.list EXCEPT ![l] = Tail(@)]
<1> DEFINE s == Tail(k.list[l])
           e == [k EXCEPT !.list[l] = s]
<1>1. PopThread(k, l) = e
  BY DEF PopThread
<1>2. [k.list EXCEPT ![l] = Tail(@)] = [k.list EXCEPT ![l] = s]
  OBVIOUS
<1> HIDE DEF s
<1>3. /\ IsSched(e) /\ e.running = k.running /\ e.state = k.state /\ e.pri = k.pri
      /\ e.onq = k.onq /\ e.list = [k.list EXCEPT ![l] = s]
  BY ListFields
<1> HIDE DEF e
<1> QED
  BY <1>1, <1>2, <1>3

LEMMA DispatchFields ==
    ASSUME NEW k, IsSched(k)
    PROVE  LET e == DispatchThread(k)
               t == Head(k.list[RunQueue])
           IN  /\ IsSched(e) /\ e.running = t /\ e.pri = k.pri
               /\ e.onq = k.onq /\ e.list = [k.list EXCEPT ![RunQueue] = Tail(@)]
               /\ e.state = [k.state EXCEPT ![t] = "running"]
<1> DEFINE t == Head(k.list[RunQueue])
           p == PopThread(k, RunQueue)
           d == [p EXCEPT !.running = t]
           e == [d EXCEPT !.state[t] = "running"]
<1>1. /\ IsSched(p) /\ p.running = k.running /\ p.state = k.state /\ p.pri = k.pri
      /\ p.onq = k.onq /\ p.list = [k.list EXCEPT ![RunQueue] = Tail(@)]
  BY PopFields
<1>2. DispatchThread(k) = [p EXCEPT !.running = t, !.state[t] = "running"]
  BY DEF DispatchThread, Top
<1> HIDE DEF p, t
<1>3. [p EXCEPT !.running = t, !.state[t] = "running"] = e
  OBVIOUS
<1>4. /\ IsSched(d) /\ d.running = t /\ d.state = p.state /\ d.pri = p.pri
      /\ d.onq = p.onq /\ d.list = p.list
  BY <1>1, RunningFields
<1> HIDE DEF d
<1>5. /\ IsSched(e) /\ e.running = d.running /\ e.pri = d.pri /\ e.onq = d.onq
      /\ e.list = d.list /\ e.state = [d.state EXCEPT ![t] = "running"]
  BY <1>4, StateFields
<1> HIDE DEF e
<1> QED
  BY <1>1, <1>2, <1>3, <1>4, <1>5 DEF t

\* From k to e, t has entered l.
AfterEnqueue(k, e, l, t) ==
    /\ e.running = k.running /\ e.state = k.state /\ e.pri = k.pri
    /\ e.onq = [k.onq EXCEPT ![t] = l]
    /\ \A m \in Lists : \A u : In(u, e.list[m]) <=> In(u, k.list[m]) \/ (m = l /\ u = t)
    /\ \A m \in Lists \ {l} : e.list[m] = k.list[m]
    /\ e.list[l] # <<>>

\* From k to e, t has left the list it was in.
AfterDequeue(k, e, t) ==
    /\ e.running = k.running /\ e.state = k.state /\ e.pri = k.pri /\ e.onq = k.onq
    /\ \A l \in Lists : \A u : In(u, e.list[l]) <=> In(u, k.list[l]) /\ u # t

\* From k to e, t has left l, where it was the first.
AfterPop(k, e, l, t) ==
    /\ AfterDequeue(k, e, t)
    /\ \A m \in Lists \ {l} : e.list[m] = k.list[m]
    /\ In(t, k.list[l])
    /\ \A u : In(u, k.list[l]) => k.pri[u] <= k.pri[t]

LEMMA EnqueueSched ==
    ASSUME NEW k, NEW c, NEW out, Sched(k, c, out),
           NEW t \in Threads, t \in out, NEW l \in Lists,
           k.state[t] \in {"runnable", "waiting"},
           l # RunQueue => k.state[t] = "waiting" /\ c[t] # NoCall,
           c[t] # NoCall => l \in {RunQueue, WaitsIn(c[t])}
    PROVE  LET e == EnqueueThread(k, l, t)
           IN  Sched(e, c, out \ {t}) /\ AfterEnqueue(k, e, l, t)
<1> DEFINE e == EnqueueThread(k, l, t)
           n == Filed(k.list, l, k.pri, t)
<1>1. IsSched(k)
  BY DEF Sched
<1>2. /\ IsSched(e) /\ e.running = k.running /\ e.state = k.state /\ e.pri = k.pri
      /\ e.onq = [k.onq EXCEPT ![t] = l] /\ e.list = n
  BY <1>1, EnqueueFields
<1>3. Queued(k.state, k.pri, k.onq, k.list, c, out)
  BY DEF Sched
<1>4. /\ Queued(k.state, k.pri, [k.onq EXCEPT ![t] = l], n, c, out \ {t})
      /\ \A m \in Lists : \A u : In(u, n[m]) <=> In(u, k.list[m]) \/ (m = l /\ u = t)
  BY <1>3, Enqueued, SMTT(20)
<1>5. \A m \in Lists \ {l} : n[m] = k.list[m]
  BY <1>3 DEF Queued, Typed, Filed
<1>6. n[l] # <<>>
  <2>1. In(t, n[l])
    BY <1>4
  <2> QED
    BY <2>1 DEF In
<1> HIDE DEF n, e
<1> QED
  BY <1>2, <1>4, <1>5, <1>6 DEF Sched, AfterEnqueue, e

LEMMA DequeueSched ==
    ASSUME NEW k, NEW c, NEW out, Sched(k, c, out),
           NEW t \in Threads, t \notin out, k.state[t] \in {"runnable", "waiting"}
    PROVE  LET e == DequeueThread(k, k.onq[t], t)
           IN  Sched(e, c, out \cup {t}) /\ AfterDequeue(k, e, t)
<1> DEFINE l == k.onq[t]
           e == DequeueThread(k, l, t)
           n == Unfiled(k.list, l, t)
<1>1. /\ IsSched(e) /\ e.running = k.running /\ e.state = k.state /\ e.pri = k.pri
      /\ e.onq = k.onq /\ e.list = n
  BY DequeueFields DEF Sched
<1>2. Queued(k.state, k.pri, k.onq, k.list, c, out)
  BY DEF Sched
<1>3. /\ Queued(k.state, k.pri, k.onq, n, c, out \cup {t})
      /\ \A m \in Lists : \A u : In(u, n[m]) <=> In(u, k.list[m]) /\ u # t
  BY <1>2, Dequeued
<1> HIDE DEF n, e
<1> QED
  BY <1>1, <1>3 DEF Sched, AfterDequeue, e

LEMMA PopSched ==
    ASSUME NEW k, NEW c, NEW out, Sched(k, c, out),
           NEW l \in Lists, k.list[l] # <<>>
    PROVE  LET t == Top(k, l)
               e == PopThread(k, l)
           IN  /\ Sched(e, c, out \cup {t}) /\ AfterPop(k, e, l, t)
               /\ t \in Threads \ out
               /\ Belongs(t, l, k.state, k.onq, out)
               /\ Placed(t, k.state, k.onq, k.list, c)
<1> DEFINE t == Top(k, l)
           e == PopThread(k, l)
           n == [k.list EXCEPT ![l] = Tail(@)]
<1>1. /\ IsSched(e) /\ e.running = k.running /\ e.state = k.state /\ e.pri = k.pri
      /\ e.onq = k.onq /\ e.list = n
  BY PopFields DEF Sched
<1>2. Queued(k.state, k.pri, k.onq, k.list, c, out)
  BY DEF Sched
<1>3. /\ Queued(k.state, k.pri, k.onq, n, c, out \cup {t})
      /\ Belongs(t, l, k.state, k.onq, out)
      /\ Placed(t, k.state, k.onq, k.list, c)
      /\ \A m \in Lists : \A u : In(u, n[m]) <=> In(u, k.list[m]) /\ u # t
      /\ \A u : In(u, k.list[l]) => k.pri[u] <= k.pri[t]
  BY <1>2, Popped DEF Top
<1>4. \A m \in Lists \ {l} : n[m] = k.list[m]
  BY <1>2 DEF Queued, Typed
<1>5. t \in Threads \ out /\ In(t, k.list[l])
  <2>1. t \in Threads \ out /\ k.onq[t] = l /\ k.state[t] \in {"runnable", "waiting"}
    BY <1>3 DEF Belongs
  <2> QED
    BY <1>3, <2>1 DEF Placed
<1> HIDE DEF n, e, t
<1> QED
  BY <1>1, <1>3, <1>4, <1>5 DEF Sched, AfterPop, AfterDequeue, e, t

LEMMA ChangeSched ==
    ASSUME NEW k, NEW c, NEW out, Sched(k, c, out),
           NEW k2, NEW c2, IsSched(k2), k2.list = k.list,
           Typed(k2.state, k2.pri, k2.onq, k2.list),
           \A t \in Threads \ out : /\ k2.state[t] = k.state[t] /\ k2.pri[t] = k.pri[t]
                                   /\ k2.onq[t] = k.onq[t] /\ c2[t] = c[t]
    PROVE  Sched(k2, c2, out)
<1>1. Queued(k.state, k.pri, k.onq, k.list, c, out)
  BY DEF Sched
<1>2. Queued(k2.state, k2.pri, k2.onq, k.list, c2, out)
  BY <1>1, Changed
<1> QED
  BY <1>2 DEF Sched

LEMMA StateSched ==
    ASSUME NEW k, NEW c, NEW out, Sched(k, c, out), NEW t \in out, NEW s \in States
    PROVE  LET e == [k EXCEPT !.state[t] = s]
           IN  /\ Sched(e, c, out)
               /\ e.running = k.running /\ e.pri = k.pri /\ e.onq = k.onq
               /\ e.list = k.list /\ e.state = [k.state EXCEPT ![t] = s]
<1> DEFINE e == [k EXCEPT !.state[t] = s]
<1>1. /\ IsSched(e) /\ e.running = k.running /\ e.pri = k.pri /\ e.onq = k.onq
      /\ e.list = k.list /\ e.state = [k.state EXCEPT ![t] = s]
  BY StateFields DEF Sched
<1> HIDE DEF e
<1>2. Typed(k.state, k.pri, k.onq, k.list)
  BY DEF Sched, Queued
<1>3. Typed(e.state, e.pri, e.onq, e.list)
  BY <1>1, <1>2 DEF Typed
<1>4. Sched(e, c, out)
  <2>1. \A u \in Threads \ out : e.state[u] = k.state[u]
    BY <1>1, <1>2 DEF Typed
  <2> QED
    BY <1>1, <1>3, <2>1, ChangeSched
<1> QED
  BY <1>1, <1>4 DEF e

LEMMA LeftSched ==
    ASSUME NEW k, NEW c, NEW out, Sched(k, c, out),
           NEW t \in out, Placed(t, k.state, k.onq, k.list, c)
    PROVE  Sched(k, c, out \ {t})
BY Left DEF Sched

LEMMA EnteredSched ==
    ASSUME NEW k, NEW c, NEW out, Sched(k, c, out),
           NEW t, k.state[t] \notin {"runnable", "waiting"}
    PROVE  Sched(k, c, out \cup {t})
BY Entered DEF Sched

-----------------------------------------------------------------------------
(* The scheduler between two calls, and in the middle of one. *)

\* Whoever runs is in no list, and somebody can run: the idle thread.
Goes(k, c) ==
    /\ Sched(k, c, {k.running})
    /\ k.running \in Threads /\ k.state[k.running] = "running" /\ k.onq[k.running] = RunQueue
    /\ k.running = Idle \/ In(Idle, k.list[RunQueue])

Highest(k) == \A t : In(t, k.list[RunQueue]) => k.pri[t] <= k.pri[k.running]

Runs(k, c) == Goes(k, c) /\ Highest(k)

\* Nobody runs, but somebody could.
Ready(k, c) == Sched(k, c, {}) /\ In(Idle, k.list[RunQueue])

\* From k to k2 nobody began to wait in a queue, and nobody who was woken in the
\* call c[t] was put back.
Calm(k, k2, c) ==
    /\ \A l \in Lists \ {RunQueue} : Waiting(k2, l) => Waiting(k, l)
    /\ \A t \in Threads : k.onq[t] = RunQueue /\ c[t] # NoCall => k2.onq[t] = RunQueue

LEMMA CalmTwice ==
    ASSUME NEW k1, NEW k2, NEW k3, NEW c, Calm(k1, k2, c), Calm(k2, k3, c)
    PROVE  Calm(k1, k3, c)
BY DEF Calm

LEMMA DispatchRuns ==
    ASSUME NEW k, NEW c, Ready(k, c)
    PROVE  LET e == DispatchThread(k)
           IN  /\ Runs(e, c) /\ Calm(k, e, c) /\ e.onq = k.onq
               /\ \A l \in Lists \ {RunQueue} : e.list[l] = k.list[l]
<1> DEFINE t == Top(k, RunQueue)
           p == PopThread(k, RunQueue)
           e == DispatchThread(k)
<1>1. Sched(k, c, {}) /\ In(Idle, k.list[RunQueue]) /\ RunQueue \in Lists /\ IsSched(k)
  BY DEF Ready, Lists, Sched
<1>2. k.list[RunQueue] # <<>>
  BY <1>1 DEF In
<1>3. /\ Sched(p, c, {t}) /\ AfterPop(k, p, RunQueue, t)
     /\ t \in Threads /\ Belongs(t, RunQueue, k.state, k.onq, {})
  <2> DEFINE none == {}
  <2>1. Sched(k, c, none)
    BY <1>1
  <2> HIDE DEF none
  <2>2. /\ Sched(p, c, none \cup {t}) /\ AfterPop(k, p, RunQueue, t)
        /\ t \in Threads \ none /\ Belongs(t, RunQueue, k.state, k.onq, none)
    BY <1>1, <1>2, <2>1, PopSched
  <2>3. none \cup {t} = {t}
    BY DEF none
  <2> QED
    BY <2>2, <2>3 DEF none
<1>4. /\ p.state = k.state /\ p.pri = k.pri /\ p.onq = k.onq
      /\ \A m \in Lists : \A u : In(u, p.list[m]) <=> In(u, k.list[m]) /\ u # t
      /\ \A m \in Lists \ {RunQueue} : p.list[m] = k.list[m]
      /\ \A u : In(u, k.list[RunQueue]) => k.pri[u] <= k.pri[t]
  BY <1>3 DEF AfterPop, AfterDequeue
<1> DEFINE o == {t}
<1>5. t \in Threads /\ k.onq[t] = RunQueue
  BY <1>3 DEF Belongs
<1>6. /\ IsSched(e) /\ e.running = t /\ e.pri = k.pri /\ e.onq = k.onq
      /\ e.list = [k.list EXCEPT ![RunQueue] = Tail(@)]
      /\ e.state = [k.state EXCEPT ![t] = "running"]
  BY <1>1, DispatchFields DEF Top
<1>7. p.list = [k.list EXCEPT ![RunQueue] = Tail(@)]
  BY <1>1, PopFields
<1> HIDE DEF t, p, e
<1> HIDE DEF o
<1>8. Sched(p, c, o)
  BY <1>3 DEF o
<1>9. Typed(p.state, p.pri, p.onq, p.list) /\ e.list = p.list
  BY <1>8, <1>6, <1>7 DEF Sched, Queued
<1>10. IsSched(e) /\ e.list = p.list /\ e.pri = p.pri /\ e.onq = p.onq
  BY <1>4, <1>6, <1>9
<1>11. e.state = [p.state EXCEPT ![t] = "running"]
  BY <1>4, <1>6
<1>12. Typed(e.state, e.pri, e.onq, e.list) /\ e.state[t] = "running"
  BY <1>9, <1>5, <1>10, <1>11 DEF Typed, States
<1>13. \A u \in Threads \ o : e.state[u] = p.state[u]
  BY <1>9, <1>11 DEF Typed, o
<1>14. Sched(e, c, o)
  BY <1>8, <1>10, <1>12, <1>13, ChangeSched
<1>15. Goes(e, c)
  <2>1. o = {e.running}
    BY <1>6 DEF o
  <2> QED
    BY <1>1, <1>4, <1>6, <1>9, <1>12, <1>14, <1>5, <2>1 DEF Goes
<1>16. Highest(e)
  BY <1>1, <1>4, <1>6, <1>9 DEF Highest
<1>17. Calm(k, e, c)
  BY <1>4, <1>6, <1>9 DEF Calm, Waiting
<1> QED
  BY <1>4, <1>6, <1>9, <1>15, <1>16, <1>17 DEF Runs, e

LEMMA YieldRuns ==
    ASSUME NEW k, NEW c, Goes(k, c), NEW s, NEW l \in Lists,
           \/ s = "runnable" /\ l = RunQueue
           \/ /\ s = "waiting" /\ l # RunQueue /\ k.running # Idle
              /\ c[k.running] # NoCall /\ l = WaitsIn(c[k.running])
    PROVE  LET e == EnqueueAndYield(k, s, l)
           IN  /\ Runs(e, c) /\ e.onq = [k.onq EXCEPT ![k.running] = l]
               /\ \A m \in Lists \ {l, RunQueue} : e.list[m] = k.list[m]
<1> DEFINE t == k.running
           k1 == [k EXCEPT !.state[t] = s]
           k2 == EnqueueThread(k1, l, t)
           e == DispatchThread(k2)
<1>1. EnqueueAndYield(k, s, l) = e
  BY DEF EnqueueAndYield
<1>2. /\ Sched(k, c, {t}) /\ t \in Threads /\ k.onq[t] = RunQueue
      /\ t = Idle \/ In(Idle, k.list[RunQueue])
  BY DEF Goes
<1> HIDE DEF t
<1>3. s \in States /\ s \in {"runnable", "waiting"} /\ RunQueue \in Lists
  BY DEF States, Lists
<1>4. /\ Sched(k1, c, {t}) /\ k1.onq = k.onq
      /\ k1.list = k.list /\ k1.state = [k.state EXCEPT ![t] = s]
  BY <1>2, <1>3, StateSched
<1> HIDE DEF k1
<1>5. k1.state[t] = s
  <2>1. Typed(k.state, k.pri, k.onq, k.list)
    BY <1>2 DEF Sched, Queued
  <2> QED
    BY <1>2, <1>4, <2>1 DEF Typed
<1>6. /\ l # RunQueue => k1.state[t] = "waiting" /\ c[t] # NoCall
      /\ c[t] # NoCall => l \in {RunQueue, WaitsIn(c[t])}
      /\ k1.state[t] \in {"runnable", "waiting"}
  BY <1>3, <1>5 DEF t
<1> DEFINE o == {t}
<1> HIDE DEF o
<1>7. Sched(k2, c, o \ {t}) /\ AfterEnqueue(k1, k2, l, t)
  <2>1. Sched(k1, c, o) /\ t \in o
    BY <1>4 DEF o
  <2> QED
    BY <1>2, <1>6, <2>1, EnqueueSched
<1> HIDE DEF k2
<1>8. /\ k2.onq = [k1.onq EXCEPT ![t] = l]
      /\ \A m \in Lists : \A u : In(u, k2.list[m]) <=> In(u, k1.list[m]) \/ (m = l /\ u = t)
      /\ \A m \in Lists \ {l} : k2.list[m] = k1.list[m]
  BY <1>7 DEF AfterEnqueue
<1>9. In(Idle, k2.list[RunQueue])
  BY <1>2, <1>3, <1>4, <1>8 DEF t
<1>10. Ready(k2, c)
  <2>1. o \ {t} = {}
    BY DEF o
  <2> QED
    BY <1>7, <1>9, <2>1 DEF Ready
<1>11. /\ Runs(e, c) /\ e.onq = k2.onq
       /\ \A m \in Lists \ {RunQueue} : e.list[m] = k2.list[m]
  BY <1>10, DispatchRuns
<1> HIDE DEF e
<1> QED
  BY <1>1, <1>4, <1>8, <1>11 DEF t

(* What it does to those who wait, when the thread that ran is ready. *)
LEMMA YieldCalm ==
    ASSUME NEW k, NEW c, Goes(k, c)
    PROVE  /\ Runs(EnqueueAndYield(k, "runnable", RunQueue), c)
           /\ Calm(k, EnqueueAndYield(k, "runnable", RunQueue), c)
<1> DEFINE e == EnqueueAndYield(k, "runnable", RunQueue)
<1>1. /\ Runs(e, c) /\ e.onq = [k.onq EXCEPT ![k.running] = RunQueue]
      /\ \A m \in Lists \ {RunQueue, RunQueue} : e.list[m] = k.list[m]
  <2>1. RunQueue \in Lists
    BY DEF Lists
  <2> QED
    BY <2>1, YieldRuns
<1> HIDE DEF e
<1>2. Typed(k.state, k.pri, k.onq, k.list)
  BY DEF Goes, Sched, Queued
<1>3. Calm(k, e, c)
  BY <1>1, <1>2 DEF Calm, Waiting, Typed
<1> QED
  BY <1>1, <1>3 DEF e

LEMMA PreemptRuns ==
    ASSUME NEW k, NEW c, Goes(k, c)
    PROVE  Runs(Preempt(k), c) /\ Calm(k, Preempt(k), c)
<1>1. CASE Waiting(k, RunQueue) /\ k.pri[k.running] < k.pri[Top(k, RunQueue)]
  BY <1>1, YieldCalm DEF Preempt
<1>2. CASE ~(Waiting(k, RunQueue) /\ k.pri[k.running] < k.pri[Top(k, RunQueue)])
  <2>1. Preempt(k) = k
    BY <1>2 DEF Preempt
  <2>2. ASSUME NEW t, In(t, k.list[RunQueue])
        PROVE  k.pri[t] <= k.pri[k.running]
    <3>1. k.list[RunQueue] # <<>> /\ RunQueue \in Lists
      BY <2>2 DEF In, Lists
    <3>2. /\ Top(k, RunQueue) \in Threads
          /\ \A u : In(u, k.list[RunQueue]) => k.pri[u] <= k.pri[Top(k, RunQueue)]
      <4> DEFINE o == {k.running}
      <4>1. Sched(k, c, o)
        BY DEF Goes
      <4> HIDE DEF o
      <4>2. /\ Top(k, RunQueue) \in Threads \ o
            /\ AfterPop(k, PopThread(k, RunQueue), RunQueue, Top(k, RunQueue))
        BY <3>1, <4>1, PopSched
      <4> QED
        BY <4>2 DEF AfterPop
    <3>3. k.pri \in [Threads -> Int] /\ k.running \in Threads
      BY Priorities DEF Goes, Sched, Queued, Typed
    <3>4. k.pri[Top(k, RunQueue)] <= k.pri[k.running]
      BY <1>2, <3>1, <3>2, <3>3 DEF Waiting
    <3>5. t \in Threads
      BY <2>2, <3>1 DEF Goes, Sched, Queued, Belongs
    <3> QED
      BY <2>2, <3>2, <3>3, <3>4, <3>5
  <2> QED
    BY <2>1, <2>2 DEF Runs, Highest, Calm
<1> QED
  BY <1>1, <1>2

LEMMA SomebodyIn ==
    ASSUME NEW k, NEW c, NEW out, Sched(k, c, out), NEW l \in Lists
    PROVE  Waiting(k, l) <=> \E t : In(t, k.list[l])
<1>1. k.list[l] \in Seq(Threads)
  BY DEF Sched, Queued, Ordered
<1>2. ASSUME k.list[l] # <<>>
      PROVE  In(k.list[l][1], k.list[l])
  <2>1. Len(k.list[l]) \in Nat /\ Len(k.list[l]) >= 1
    BY <1>1, <1>2, EmptySeq, LenProperties
  <2> QED
    BY <2>1 DEF In
<1>3. ASSUME NEW t, In(t, k.list[l])
      PROVE  k.list[l] # <<>>
  BY <1>3 DEF In
<1> QED
  BY <1>2, <1>3 DEF Waiting

\* From k to e, t has left l for the run queue.
Roused(k, e, l, t) ==
    /\ e.running = k.running /\ e.state = k.state /\ e.pri = k.pri
    /\ e.onq = [k.onq EXCEPT ![t] = RunQueue]
    /\ k.onq[t] = l /\ k.state[t] = "waiting"
    /\ \A u : In(u, e.list[RunQueue]) <=> In(u, k.list[RunQueue]) \/ u = t
    /\ \A u : In(u, e.list[l]) <=> In(u, k.list[l]) /\ u # t
    /\ \A m \in Lists \ {l, RunQueue} : e.list[m] = k.list[m]

LEMMA PlacedCall ==
    ASSUME NEW t, NEW state, NEW onq, NEW list, NEW c, Placed(t, state, onq, list, c),
           onq[t] \notin {NoList, RunQueue}
    PROVE  c[t] # NoCall /\ WaitsIn(c[t]) = onq[t]
BY DEF Placed

LEMMA RouseSched ==
    ASSUME NEW k, NEW c, NEW out, Sched(k, c, out), NEW l \in Lists \ {RunQueue}, Waiting(k, l)
    PROVE  LET t == Top(k, l)
               e == EnqueueThread(PopThread(k, l), RunQueue, t)
           IN  /\ Sched(e, c, out) /\ Roused(k, e, l, t)
               /\ t \in Threads \ out
               /\ c[t] # NoCall /\ WaitsIn(c[t]) = l
<1> DEFINE t == Top(k, l)
           p == PopThread(k, l)
           e == EnqueueThread(p, RunQueue, t)
           o == out \cup {t}
<1>1. k.list[l] # <<>>
  BY DEF Waiting
<1>2. /\ Sched(p, c, o) /\ AfterPop(k, p, l, t)
      /\ t \in Threads \ out
      /\ Belongs(t, l, k.state, k.onq, out)
      /\ Placed(t, k.state, k.onq, k.list, c)
  BY <1>1, PopSched
<1> HIDE DEF t, p
<1>3. k.onq[t] = l /\ k.state[t] = "waiting" /\ l \notin {NoList, RunQueue}
  <2>1. l # NoList
    BY KernelAssumption DEF Lists, RunQueue, MtQueue, FullQueue, NoList
  <2> QED
    BY <1>2, <2>1 DEF Belongs
<1>4. c[t] # NoCall /\ WaitsIn(c[t]) = l
  BY <1>2, <1>3, PlacedCall
<1>5. p.state[t] = "waiting" /\ t \in o /\ RunQueue \in Lists
  BY <1>2, <1>3 DEF AfterPop, AfterDequeue, Lists
<1> HIDE DEF o
<1>6. Sched(e, c, o \ {t}) /\ AfterEnqueue(p, e, RunQueue, t)
  BY <1>2, <1>5, EnqueueSched
<1>7. o \ {t} = out
  BY <1>2 DEF o
<1> HIDE DEF e
<1>8. Roused(k, e, l, t)
  BY <1>2, <1>3, <1>5, <1>6 DEF Roused, AfterPop, AfterDequeue, AfterEnqueue
<1> QED
  BY <1>2, <1>4, <1>6, <1>7, <1>8 DEF t, p, e

LEMMA RouseCalm ==
    ASSUME NEW k, NEW c, NEW out, Sched(k, c, out), NEW l \in Lists \ {RunQueue}, Waiting(k, l),
           NEW e, NEW t \in Threads, Roused(k, e, l, t)
    PROVE  Calm(k, e, c) /\ e.onq[t] = RunQueue
<1>1. Typed(k.state, k.pri, k.onq, k.list)
  BY DEF Sched, Queued
<1> QED
  BY <1>1 DEF Calm, Waiting, Roused, Typed

\* As Goes, with t in no list either.
GoesWithout(k, c, t) ==
    /\ Sched(k, c, {k.running, t}) /\ t \in Threads \ {k.running}
    /\ k.running \in Threads /\ k.state[k.running] = "running" /\ k.onq[k.running] = RunQueue
    /\ k.running = Idle \/ In(Idle, k.list[RunQueue]) \/ t = Idle

\* From k to e, t has become runnable.
MadeRunnable(k, e, t) ==
    /\ e.running = k.running /\ e.pri = k.pri
    /\ e.state = [k.state EXCEPT ![t] = "runnable"]
    /\ e.onq = [k.onq EXCEPT ![t] = RunQueue]
    /\ \A u : In(u, e.list[RunQueue]) <=> In(u, k.list[RunQueue]) \/ u = t
    /\ \A m \in Lists \ {RunQueue} : e.list[m] = k.list[m]

LEMMA MakeRunnableSched ==
    ASSUME NEW k, NEW c, NEW out, Sched(k, c, out), NEW t \in Threads, t \in out
    PROVE  LET e == MakeRunnable(k, t)
           IN  Sched(e, c, out \ {t}) /\ MadeRunnable(k, e, t)
<1> DEFINE k1 == [k EXCEPT !.state[t] = "runnable"]
           e == EnqueueThread(k1, RunQueue, t)
<1>1. MakeRunnable(k, t) = e
  BY DEF MakeRunnable
<1>2. "runnable" \in States /\ RunQueue \in Lists
  BY DEF States, Lists
<1>3. /\ Sched(k1, c, out)
      /\ k1.running = k.running /\ k1.pri = k.pri /\ k1.onq = k.onq
      /\ k1.list = k.list /\ k1.state = [k.state EXCEPT ![t] = "runnable"]
  BY <1>2, StateSched
<1> HIDE DEF k1
<1>4. k1.state[t] = "runnable"
  <2>1. Typed(k.state, k.pri, k.onq, k.list)
    BY DEF Sched, Queued
  <2> QED
    BY <1>3, <2>1 DEF Typed
<1>5. Sched(e, c, out \ {t}) /\ AfterEnqueue(k1, e, RunQueue, t)
  BY <1>2, <1>3, <1>4, EnqueueSched
<1> HIDE DEF e
<1>6. MadeRunnable(k, e, t)
  BY <1>2, <1>3, <1>5 DEF MadeRunnable, AfterEnqueue
<1> QED
  BY <1>1, <1>5, <1>6

LEMMA StartOut ==
    ASSUME NEW k, NEW c, NEW t, GoesWithout(k, c, t),
           \/ k.state[t] = "waiting"
           \/ k.state[t] = "stopped" /\ k.onq[t] \in {NoList, RunQueue}
    PROVE  LET e == StartThread(k, t)
           IN  /\ Runs(e, c) /\ Calm(k, e, c)
               /\ c[t] # NoCall => e.onq[t] = RunQueue
<1> DEFINE s == MakeRunnable(k, t)
           o == {k.running, t}
<1>1. k.running # NoThread /\ t \in Threads /\ t # k.running /\ Sched(k, c, o) /\ t \in o
  BY KernelAssumption DEF GoesWithout
<1>2. StartThread(k, t) = Preempt(s)
  BY <1>1 DEF StartThread
<1> HIDE DEF o
<1>3. Sched(s, c, o \ {t}) /\ MadeRunnable(k, s, t)
  BY <1>1, MakeRunnableSched
<1>4. o \ {t} = {k.running}
  BY <1>1 DEF o
<1> HIDE DEF s
<1>5. Typed(k.state, k.pri, k.onq, k.list)
  BY <1>1 DEF Sched, Queued
<1>6. Goes(s, c)
  <2>1. s.running = k.running /\ Sched(s, c, {s.running})
    BY <1>3, <1>4 DEF MadeRunnable
  <2>2. s.state[k.running] = "running" /\ s.onq[k.running] = RunQueue
    BY <1>1, <1>3, <1>5 DEF MadeRunnable, GoesWithout, Typed
  <2>3. k.running = Idle \/ In(Idle, s.list[RunQueue])
    BY <1>3 DEF MadeRunnable, GoesWithout
  <2> QED
    BY <2>1, <2>2, <2>3 DEF Goes, GoesWithout
<1>7. Calm(k, s, c) /\ s.onq[t] = RunQueue
  BY <1>1, <1>3, <1>5 DEF Calm, Waiting, MadeRunnable, Typed
<1>8. Runs(Preempt(s), c) /\ Calm(s, Preempt(s), c)
  BY <1>6, PreemptRuns
<1>9. Calm(k, Preempt(s), c)
  BY <1>7, <1>8, CalmTwice
<1>10. c[t] # NoCall => Preempt(s).onq[t] = RunQueue
  BY <1>1, <1>7, <1>8 DEF Calm
<1> QED
  BY <1>2, <1>8, <1>9, <1>10

LEMMA WaitAgainGoes ==
    ASSUME NEW k, NEW c, Goes(k, c), NEW t \in Threads, k.state[t] = "stopped",
           k.onq[t] \notin {NoList, RunQueue}
    PROVE  LET e == WaitAgain(k, t)
           IN  Goes(e, c) /\ Calm(k, e, c)
<1> DEFINE l == k.onq[t]
           k1 == [k EXCEPT !.state[t] = "waiting"]
           w == EnqueueThread(k1, l, t)
           u == Top(w, l)
           e == EnqueueThread(PopThread(w, l), RunQueue, u)
           a == {k.running}
           o == a \cup {t}
<1>1. WaitAgain(k, t) = e
  BY DEF WaitAgain
<1>2. Sched(k, c, a)
  BY DEF Goes
<1>3. t # k.running /\ "waiting" \in States /\ RunQueue \in Lists
  BY DEF Goes, States, Lists
<1> HIDE DEF a
<1>4. Sched(k, c, o)
  BY <1>2, EnteredSched
<1>5. Typed(k.state, k.pri, k.onq, k.list)
  BY <1>2 DEF Sched, Queued
<1>6. l \in Lists \ {RunQueue}
  BY <1>5 DEF Typed
<1>7. c[t] # NoCall /\ l = WaitsIn(c[t])
  <2>1. Placed(t, k.state, k.onq, k.list, c)
    BY <1>2, <1>3 DEF a, Sched, Queued
  <2> QED
    BY <2>1, PlacedCall
<1>8. t \in o
  OBVIOUS
<1> HIDE DEF o
<1>9. /\ Sched(k1, c, o)
      /\ k1.running = k.running /\ k1.pri = k.pri /\ k1.onq = k.onq
      /\ k1.list = k.list /\ k1.state = [k.state EXCEPT ![t] = "waiting"]
  BY <1>3, <1>4, <1>8, StateSched
<1> HIDE DEF k1
<1>10. k1.state[t] = "waiting"
  BY <1>5, <1>9 DEF Typed
<1> HIDE DEF l
<1>11. Sched(w, c, o \ {t}) /\ AfterEnqueue(k1, w, l, t)
  BY <1>6, <1>7, <1>8, <1>9, <1>10, EnqueueSched
<1>12. o \ {t} = a
  BY <1>3 DEF o, a
<1>13. Waiting(w, l)
  BY <1>11 DEF AfterEnqueue, Waiting
<1> HIDE DEF w
<1>14. /\ Sched(e, c, a) /\ Roused(w, e, l, u) /\ u \in Threads \ a
  BY <1>6, <1>11, <1>12, <1>13, RouseSched
<1> HIDE DEF e, u
<1>15. e.running = k.running /\ k.running \in Threads
  BY <1>9, <1>11, <1>14 DEF AfterEnqueue, Roused, Goes
<1>16. e.state[k.running] = "running" /\ e.onq[k.running] = RunQueue
  <2>1. k1.state[k.running] = "running" /\ k1.onq[k.running] = RunQueue
    BY <1>3, <1>5, <1>9, <1>15 DEF Goes, Typed
  <2>2. Typed(k1.state, k1.pri, k1.onq, k1.list) /\ Typed(w.state, w.pri, w.onq, w.list)
    BY <1>9, <1>11 DEF Sched, Queued
  <2>3. w.state[k.running] = "running" /\ w.onq[k.running] = RunQueue
    BY <1>3, <1>11, <2>1, <2>2, <1>15 DEF AfterEnqueue, Typed
  <2> QED
    BY <1>14, <1>15, <2>2, <2>3 DEF Roused, Typed
<1>17. k.running = Idle \/ In(Idle, e.list[RunQueue])
  BY <1>3, <1>9, <1>11, <1>14 DEF Goes, AfterEnqueue, Roused
<1>18. Goes(e, c)
  BY <1>14, <1>15, <1>16, <1>17 DEF Goes, a
<1>19. ASSUME NEW m \in Lists \ {RunQueue}, Waiting(e, m)
       PROVE  Waiting(k, m)
  <2>1. CASE m # l
    BY <1>9, <1>11, <1>14, <1>19, <2>1 DEF AfterEnqueue, Roused, Waiting
  <2>2. CASE m = l
    <3>1. PICK x : In(x, e.list[l])
      BY <1>14, <1>19, <2>2, SomebodyIn
    <3>2. In(x, w.list[l]) /\ x # u
      BY <1>14, <3>1 DEF Roused
    <3>3. In(u, w.list[l])
      BY <1>6, <1>11, <1>13, PopSched DEF AfterPop, Waiting, u
    <3>4. In(x, k.list[l]) \/ In(u, k.list[l])
      BY <1>6, <1>9, <1>11, <3>2, <3>3 DEF AfterEnqueue
    <3> QED
      BY <1>2, <1>6, <2>2, <3>4, SomebodyIn
  <2> QED
    BY <2>1, <2>2
<1>20. ASSUME NEW x \in Threads, k.onq[x] = RunQueue
       PROVE  e.onq[x] = RunQueue
  <2>1. x # t
    BY <1>6, <1>20 DEF l
  <2>2. Typed(w.state, w.pri, w.onq, w.list)
    BY <1>11 DEF Sched, Queued
  <2>3. w.onq[x] = RunQueue
    BY <1>5, <1>9, <1>11, <1>20, <2>1 DEF AfterEnqueue, Typed
  <2> QED
    BY <1>14, <2>2, <2>3 DEF Roused, Typed
<1> QED
  BY <1>1, <1>18, <1>19, <1>20 DEF Calm

(* osStartThread of a thread that was stopped. *)
LEMMA StartStoppedRuns ==
    ASSUME NEW k, NEW c, Goes(k, c), NEW t \in Threads, k.state[t] = "stopped"
    PROVE  LET e == StartThread(k, t)
           IN  Runs(e, c) /\ Calm(k, e, c)
<1>1. CASE k.onq[t] \in {NoList, RunQueue}
  <2> DEFINE a == {k.running}
  <2>1. Sched(k, c, a) /\ t # k.running
    BY DEF Goes
  <2> HIDE DEF a
  <2>2. Sched(k, c, a \cup {t})
    BY <2>1, EnteredSched
  <2>3. a \cup {t} = {k.running, t}
    BY DEF a
  <2>4. GoesWithout(k, c, t)
    BY <2>1, <2>2, <2>3 DEF Goes, GoesWithout
  <2> QED
    BY <1>1, <2>4, StartOut
<1>2. CASE k.onq[t] \notin {NoList, RunQueue}
  <2> DEFINE w == WaitAgain(k, t)
  <2>1. Goes(w, c) /\ Calm(k, w, c)
    BY <1>2, WaitAgainGoes
  <2>2. StartThread(k, t) = Preempt(w)
    <3>1. k.running # NoThread
      BY KernelAssumption DEF Goes
    <3> QED
      BY <1>2, <3>1 DEF StartThread
  <2> HIDE DEF w
  <2>3. Runs(Preempt(w), c) /\ Calm(w, Preempt(w), c)
    BY <2>1, PreemptRuns
  <2> QED
    BY <2>1, <2>2, <2>3, CalmTwice
<1> QED
  BY <1>1, <1>2

(* The first of a message queue's threads is woken, when there is one: one more
   of those that wait in l looks again.                                       *)
WokenOne(k, e, c, l) ==
    Waiting(k, l) => \E t \in Threads : /\ c[t] # NoCall /\ WaitsIn(c[t]) = l
                                        /\ k.onq[t] = l /\ e.onq[t] = RunQueue

LEMMA WakeFirstRuns ==
    ASSUME NEW k, NEW c, Runs(k, c), NEW l \in Lists \ {RunQueue}
    PROVE  LET e == WakeFirst(k, l)
           IN  Runs(e, c) /\ Calm(k, e, c) /\ WokenOne(k, e, c, l)
<1>1. CASE ~Waiting(k, l)
  BY <1>1 DEF WakeFirst, Calm, WokenOne
<1>2. CASE Waiting(k, l)
  <2> DEFINE t == Top(k, l)
             p == PopThread(k, l)
             e == StartThread(p, t)
             a == {k.running}
  <2>1. WakeFirst(k, l) = e
    BY <1>2 DEF WakeFirst
  <2>2. Sched(k, c, a) /\ Goes(k, c)
    BY DEF Runs, Goes
  <2> HIDE DEF a
  <2>3. /\ Sched(p, c, a \cup {t}) /\ AfterPop(k, p, l, t)
        /\ t \in Threads \ a
        /\ Belongs(t, l, k.state, k.onq, a)
        /\ Placed(t, k.state, k.onq, k.list, c)
    BY <1>2, <2>2, PopSched DEF Waiting
  <2> HIDE DEF p, t
  <2>4. k.onq[t] = l /\ k.state[t] = "waiting" /\ l \notin {NoList, RunQueue}
    <3>1. l # NoList
      BY KernelAssumption DEF Lists, RunQueue, MtQueue, FullQueue, NoList
    <3> QED
      BY <2>3, <3>1 DEF Belongs
  <2>5. c[t] # NoCall /\ WaitsIn(c[t]) = l
    BY <2>3, <2>4, PlacedCall
  <2>6. /\ p.running = k.running /\ p.state = k.state /\ p.onq = k.onq
        /\ \A m \in Lists \ {l} : p.list[m] = k.list[m]
    BY <2>3 DEF AfterPop, AfterDequeue
  <2>7. GoesWithout(p, c, t)
    <3>1. a \cup {t} = {p.running, t}
      BY <2>6 DEF a
    <3>2. RunQueue \in Lists
      BY DEF Lists
    <3>3. p.list[RunQueue] = k.list[RunQueue]
      BY <2>6, <3>2
    <3> QED
      BY <2>2, <2>3, <2>6, <3>1, <3>3 DEF GoesWithout, Goes, a
  <2>8. Calm(k, p, c)
    BY <1>2, <2>6 DEF Calm, Waiting
  <2>9. Runs(e, c) /\ Calm(p, e, c) /\ e.onq[t] = RunQueue
    BY <2>4, <2>5, <2>6, <2>7, StartOut
  <2> HIDE DEF e
  <2>10. Calm(k, e, c)
    BY <2>8, <2>9, CalmTwice
  <2>11. WokenOne(k, e, c, l)
    BY <2>3, <2>4, <2>5, <2>9 DEF WokenOne
  <2> QED
    BY <2>1, <2>9, <2>10, <2>11
<1> QED
  BY <1>1, <1>2

-----------------------------------------------------------------------------
(* Exceptions. *)

\* What an event does to the threads that do not run.
AfterPosted(k, e) ==
    /\ e.running = k.running /\ e.state = k.state /\ e.pri = k.pri
    /\ \A u : In(u, k.list[RunQueue]) => In(u, e.list[RunQueue])

LEMMA PostedSched ==
    ASSUME NEW k, NEW c, NEW out, Sched(k, c, out), event \in Queues \cup {NoQueue}
    PROVE  LET e == Posted(k)
           IN  /\ Sched(e, c, out) /\ AfterPosted(k, e)
               /\ \A u \in Threads : u \in out => e.onq[u] = k.onq[u]
               /\ Calm(k, e, c)
               /\ Taken => WokenOne(k, e, c, MtQueue(event))
<1> DEFINE l == MtQueue(event)
           t == Top(k, l)
           e == EnqueueThread(PopThread(k, l), RunQueue, t)
<1>1. CASE Taken /\ Waiting(k, l)
  <2>1. Posted(k) = e
    BY <1>1 DEF Posted
  <2>2. l \in Lists \ {RunQueue}
    BY <1>1 DEF Taken, Lists, MtQueue, RunQueue
  <2> HIDE DEF l
  <2>3. /\ Sched(e, c, out) /\ Roused(k, e, l, t)
        /\ t \in Threads \ out
        /\ c[t] # NoCall /\ WaitsIn(c[t]) = l
    BY <1>1, <2>2, RouseSched
  <2> HIDE DEF e, t
  <2>4. Calm(k, e, c) /\ e.onq[t] = RunQueue
    BY <1>1, <2>2, <2>3, RouseCalm
  <2>5. AfterPosted(k, e)
    BY <2>3 DEF AfterPosted, Roused
  <2>6. Typed(k.state, k.pri, k.onq, k.list)
    BY DEF Sched, Queued
  <2>7. ASSUME NEW u \in Threads, u \in out
        PROVE  e.onq[u] = k.onq[u]
    BY <2>3, <2>6, <2>7 DEF Roused, Typed
  <2>8. WokenOne(k, e, c, l)
    BY <2>3, <2>4 DEF WokenOne, Roused
  <2> QED
    BY <2>1, <2>3, <2>4, <2>5, <2>7, <2>8 DEF l
<1>2. CASE ~(Taken /\ Waiting(k, l))
  <2>1. Posted(k) = k
    BY <1>2 DEF Posted
  <2> QED
    BY <1>2, <2>1 DEF AfterPosted, Calm, WokenOne
<1> QED
  BY <1>1, <1>2

\* The running thread, put off: it is ready, but in no list yet.
PutOff(k, c) ==
    /\ Sched(k, c, {k.running})
    /\ k.running \in Threads /\ k.state[k.running] = "runnable" /\ k.onq[k.running] = RunQueue
    /\ k.running = Idle \/ In(Idle, k.list[RunQueue])

LEMMA RedispatchRuns ==
    ASSUME NEW k, NEW c, PutOff(k, c)
    PROVE  LET e == Redispatch(k)
           IN  Runs(e, c) /\ Calm(k, e, c)
<1> DEFINE t == k.running
           s == k.list[RunQueue]
           a == {t}
<1>1. /\ Sched(k, c, a) /\ t \in Threads /\ t \in a /\ k.state[t] = "runnable"
      /\ k.onq[t] = RunQueue /\ RunQueue \in Lists
      /\ t = Idle \/ In(Idle, s)
  BY DEF PutOff, Lists
<1> HIDE DEF a
<1>2. Typed(k.state, k.pri, k.onq, k.list) /\ IsSched(k)
  BY <1>1 DEF Sched, Queued
<1>3. CASE Waiting(k, RunQueue) /\ k.pri[t] < k.pri[Top(k, RunQueue)]
  <2> DEFINE w == EnqueueThread(k, RunQueue, t)
             e == DispatchThread(w)
  <2>1. Redispatch(k) = e
    BY <1>3 DEF Redispatch
  <2>2. Sched(w, c, a \ {t}) /\ AfterEnqueue(k, w, RunQueue, t)
    BY <1>1, EnqueueSched
  <2> HIDE DEF w
  <2>3. Ready(w, c)
    <3>1. a \ {t} = {}
      BY DEF a
    <3>2. In(Idle, w.list[RunQueue])
      BY <1>1, <2>2 DEF AfterEnqueue
    <3> QED
      BY <2>2, <3>1, <3>2 DEF Ready
  <2>4. Calm(k, w, c)
    BY <1>2, <2>2 DEF AfterEnqueue, Calm, Waiting, Typed
  <2>5. Runs(e, c) /\ Calm(w, e, c)
    BY <2>3, DispatchRuns
  <2> HIDE DEF e
  <2> QED
    BY <2>1, <2>4, <2>5, CalmTwice
<1>4. CASE ~(Waiting(k, RunQueue) /\ k.pri[t] < k.pri[Top(k, RunQueue)])
  <2> DEFINE q == <<t>> \o s
             w == [k EXCEPT !.list[RunQueue] = q]
             e == DispatchThread(w)
  <2>1. Redispatch(k) = e
    BY <1>4 DEF Redispatch
  <2>2. s \in Seq(Threads)
    BY <1>1, <1>2 DEF Typed
  <2>3. q \in Seq(Threads) /\ Head(q) = t /\ Tail(q) = s
    BY <1>1, <2>2
  <2> HIDE DEF q
  <2>4. /\ IsSched(w) /\ w.running = t /\ w.state = k.state /\ w.pri = k.pri
        /\ w.onq = k.onq /\ w.list = [k.list EXCEPT ![RunQueue] = q]
    BY <1>2, ListFields
  <2> HIDE DEF w
  <2>5. /\ IsSched(e) /\ e.running = Head(w.list[RunQueue]) /\ e.pri = w.pri
        /\ e.onq = w.onq /\ e.list = [w.list EXCEPT ![RunQueue] = Tail(@)]
        /\ e.state = [w.state EXCEPT ![Head(w.list[RunQueue])] = "running"]
    BY <2>4, DispatchFields
  <2> HIDE DEF e
  <2>6. w.list[RunQueue] = q
    BY <1>1, <1>2, <2>4 DEF Typed
  <2>7. /\ e.running = t /\ e.pri = k.pri /\ e.onq = k.onq
        /\ e.state = [k.state EXCEPT ![t] = "running"]
    BY <2>3, <2>4, <2>5, <2>6
  <2>8. e.list = [w.list EXCEPT ![RunQueue] = s]
    BY <2>3, <2>5, <2>6
  <2> HIDE DEF t
  <2>9. e.list = k.list
    BY <1>2, <2>4, <2>8 DEF Typed
  <2>10. Typed(e.state, e.pri, e.onq, e.list)
    BY <1>2, <2>7, <2>9 DEF Typed, States
  <2>11. \A u \in Threads \ a : e.state[u] = k.state[u]
    BY <1>2, <2>7 DEF Typed, a
  <2>12. Sched(e, c, a)
    <3>1. IsSched(e) /\ e.pri = k.pri /\ e.onq = k.onq
      BY <2>5, <2>7
    <3> QED
      BY <1>1, <2>9, <2>10, <2>11, <3>1, ChangeSched
  <2>13. Goes(e, c)
    <3>1. e.state[t] = "running"
      BY <1>1, <1>2, <2>7 DEF Typed
    <3> QED
      BY <1>1, <2>7, <2>9, <2>12, <3>1 DEF Goes, a
  <2>14. ASSUME NEW u, In(u, k.list[RunQueue])
         PROVE  k.pri[u] <= k.pri[t]
    <3>1. Waiting(k, RunQueue)
      BY <1>1, <2>14, SomebodyIn
    <3>2. /\ Top(k, RunQueue) \in Threads \ a
          /\ AfterPop(k, PopThread(k, RunQueue), RunQueue, Top(k, RunQueue))
      BY <1>1, <3>1, PopSched DEF Waiting
    <3>3. k.pri[u] <= k.pri[Top(k, RunQueue)]
      BY <2>14, <3>2 DEF AfterPop
    <3>4. k.pri \in [Threads -> Int] /\ u \in Threads
      <4>1. u \in Threads
        BY <1>1, <2>14 DEF Sched, Queued, Belongs
      <4> QED
        BY <1>2, <4>1, Priorities DEF Typed
    <3> QED
      BY <1>1, <1>4, <3>1, <3>2, <3>3, <3>4
  <2>15. Highest(e)
    BY <2>7, <2>9, <2>14 DEF Highest
  <2>16. Calm(k, e, c)
    BY <2>7, <2>9 DEF Calm, Waiting
  <2> QED
    BY <2>1, <2>13, <2>15, <2>16 DEF Runs
<1> QED
  BY <1>3, <1>4

LEMMA InterruptRuns ==
    ASSUME NEW k, NEW c, Runs(k, c), event \in Queues \cup {NoQueue}
    PROVE  LET e == Redispatch(Posted([k EXCEPT !.state[k.running] = "runnable"]))
           IN  /\ Runs(e, c) /\ Calm(k, e, c)
               /\ Taken => WokenOne(k, e, c, MtQueue(event))
<1> DEFINE t == k.running
           a == {t}
           w == [k EXCEPT !.state[t] = "runnable"]
           p == Posted(w)
           e == Redispatch(p)
<1>1. /\ Sched(k, c, a) /\ t \in Threads /\ t \in a /\ "runnable" \in States
      /\ k.onq[t] = RunQueue /\ (t = Idle \/ In(Idle, k.list[RunQueue]))
  BY DEF Runs, Goes, States
<1> HIDE DEF a, t
<1>2. /\ Sched(w, c, a)
      /\ w.running = k.running /\ w.pri = k.pri /\ w.onq = k.onq
      /\ w.list = k.list /\ w.state = [k.state EXCEPT ![t] = "runnable"]
  BY <1>1, StateSched
<1> HIDE DEF w
<1>3. w.state[t] = "runnable"
  BY <1>1, <1>2 DEF Sched, Queued, Typed
<1>4. /\ Sched(p, c, a) /\ AfterPosted(w, p)
      /\ \A u \in Threads : u \in a => p.onq[u] = w.onq[u]
      /\ Calm(w, p, c)
      /\ Taken => WokenOne(w, p, c, MtQueue(event))
  BY <1>2, PostedSched
<1> HIDE DEF p
<1>5. PutOff(p, c)
  BY <1>1, <1>2, <1>3, <1>4 DEF PutOff, AfterPosted, a, t
<1>6. Runs(e, c) /\ Calm(p, e, c)
  BY <1>5, RedispatchRuns
<1> HIDE DEF e
<1>7. Calm(w, e, c)
  BY <1>4, <1>6, CalmTwice
<1>8. Calm(k, e, c)
  BY <1>2, <1>7 DEF Calm, Waiting
<1>9. ASSUME Taken
      PROVE  WokenOne(k, e, c, MtQueue(event))
  BY <1>2, <1>4, <1>6, <1>9 DEF WokenOne, Waiting, Calm
<1> QED
  BY <1>6, <1>8, <1>9 DEF e, p, w, t

-----------------------------------------------------------------------------
(* Threads that stop, go, come or change their priority. *)

LEMMA LeaveRuns ==
    ASSUME NEW k, NEW c, NEW t, Sched(k, c, {t}), In(Idle, k.list[RunQueue]),
           Placed(t, k.state, k.onq, k.list, c)
    PROVE  LET e == DispatchThread(k)
           IN  Runs(e, c) /\ Calm(k, e, c)
<1> DEFINE a == {t}
<1>1. Sched(k, c, a) /\ t \in a
  OBVIOUS
<1>2. a \ {t} = {}
  OBVIOUS
<1> HIDE DEF a
<1>3. Sched(k, c, a \ {t})
  BY <1>1, LeftSched
<1>4. Ready(k, c)
  BY <1>2, <1>3 DEF Ready
<1> QED
  BY <1>4, DispatchRuns

LEMMA StopSelfRuns ==
    ASSUME NEW k, NEW c, Runs(k, c), k.running # Idle, c[k.running] = NoCall
    PROVE  LET e == DispatchThread([k EXCEPT !.state[k.running] = "stopped"])
           IN  Runs(e, c) /\ Calm(k, e, c)
<1> DEFINE t == k.running
           a == {t}
           w == [k EXCEPT !.state[t] = "stopped"]
           e == DispatchThread(w)
<1>1. /\ Sched(k, c, a) /\ t \in Threads /\ t \in a /\ "stopped" \in States
      /\ k.onq[t] = RunQueue /\ In(Idle, k.list[RunQueue])
  BY DEF Runs, Goes, States
<1> HIDE DEF a
<1>2. /\ Sched(w, c, a)
      /\ w.running = k.running /\ w.pri = k.pri /\ w.onq = k.onq
      /\ w.list = k.list /\ w.state = [k.state EXCEPT ![t] = "stopped"]
  BY <1>1, StateSched
<1> HIDE DEF w
<1>3. w.state[t] = "stopped"
  BY <1>1, <1>2 DEF Sched, Queued, Typed
<1>4. Placed(t, w.state, w.onq, w.list, c)
  BY <1>1, <1>2, <1>3 DEF Placed
<1> HIDE DEF t
<1>5. Runs(e, c) /\ Calm(w, e, c)
  BY <1>1, <1>2, <1>4, LeaveRuns DEF a
<1> HIDE DEF e
<1>6. Calm(k, e, c)
  BY <1>2, <1>5 DEF Calm, Waiting
<1> QED
  BY <1>5, <1>6 DEF e, w, t

LEMMA PanicRuns ==
    ASSUME NEW k, NEW c, Runs(k, c), k.running # Idle, c[k.running] = NoCall,
           event \in Queues \cup {NoQueue}
    PROVE  LET e == DispatchThread(Posted([k EXCEPT !.state[k.running] = "stopped"]))
           IN  /\ Runs(e, c) /\ Calm(k, e, c)
               /\ Taken => WokenOne(k, e, c, MtQueue(event))
<1> DEFINE t == k.running
           a == {t}
           w == [k EXCEPT !.state[t] = "stopped"]
           p == Posted(w)
           e == DispatchThread(p)
<1>1. /\ Sched(k, c, a) /\ t \in Threads /\ t \in a /\ "stopped" \in States
      /\ k.onq[t] = RunQueue /\ In(Idle, k.list[RunQueue])
  BY DEF Runs, Goes, States
<1> HIDE DEF a
<1>2. /\ Sched(w, c, a)
      /\ w.running = k.running /\ w.pri = k.pri /\ w.onq = k.onq
      /\ w.list = k.list /\ w.state = [k.state EXCEPT ![t] = "stopped"]
  BY <1>1, StateSched
<1> HIDE DEF w
<1>3. w.state[t] = "stopped"
  BY <1>1, <1>2 DEF Sched, Queued, Typed
<1>4. /\ Sched(p, c, a) /\ AfterPosted(w, p)
      /\ \A u \in Threads : u \in a => p.onq[u] = w.onq[u]
      /\ Calm(w, p, c)
      /\ Taken => WokenOne(w, p, c, MtQueue(event))
  BY <1>2, PostedSched
<1> HIDE DEF p
<1>5. p.state[t] = "stopped" /\ p.onq[t] = RunQueue /\ In(Idle, p.list[RunQueue])
  BY <1>1, <1>2, <1>3, <1>4 DEF AfterPosted
<1>6. Placed(t, p.state, p.onq, p.list, c)
  BY <1>5 DEF Placed
<1> HIDE DEF t
<1>7. Runs(e, c) /\ Calm(p, e, c)
  BY <1>4, <1>5, <1>6, LeaveRuns DEF a
<1> HIDE DEF e
<1>8. Calm(w, e, c)
  BY <1>4, <1>7, CalmTwice
<1>9. Calm(k, e, c)
  BY <1>2, <1>8 DEF Calm, Waiting
<1>10. ASSUME Taken
       PROVE  WokenOne(k, e, c, MtQueue(event))
  BY <1>2, <1>4, <1>7, <1>10 DEF WokenOne, Waiting, Calm
<1> QED
  BY <1>7, <1>9, <1>10 DEF e, p, w, t

\* From k to e the same thread runs and nobody came into a list.
Remains(k, e, c) ==
    /\ Sched(e, c, {k.running}) /\ e.running = k.running
    /\ e.state[k.running] = k.state[k.running] /\ e.onq[k.running] = k.onq[k.running]
    /\ \A l \in Lists : \A u : In(u, e.list[l]) => In(u, k.list[l])
    /\ In(Idle, k.list[RunQueue]) => In(Idle, e.list[RunQueue])
    /\ \A u \in Threads : k.onq[u] = RunQueue /\ c[u] # NoCall => e.onq[u] = RunQueue

LEMMA RemainsGoes ==
    ASSUME NEW k, NEW e, NEW c, Goes(k, c), Remains(k, e, c)
    PROVE  Goes(e, c) /\ Calm(k, e, c)
<1> DEFINE a == {k.running}
<1>1. Sched(k, c, a) /\ Sched(e, c, a)
  BY DEF Goes, Remains
<1> HIDE DEF a
<1>2. ASSUME NEW l \in Lists, Waiting(e, l)
      PROVE  Waiting(k, l)
  <2>1. PICK u : In(u, e.list[l])
    BY <1>1, <1>2, SomebodyIn
  <2>2. In(u, k.list[l])
    BY <2>1 DEF Remains
  <2> QED
    BY <1>1, <2>2, SomebodyIn
<1>3. Goes(e, c)
  BY DEF Goes, Remains
<1> QED
  BY <1>2, <1>3 DEF Calm, Remains

LEMMA RemainsRuns ==
    ASSUME NEW k, NEW e, NEW c, Runs(k, c), Remains(k, e, c),
           \A u \in Threads : e.pri[u] = k.pri[u] \/ (u # k.running /\ ~In(u, e.list[RunQueue]))
    PROVE  Runs(e, c) /\ Calm(k, e, c)
<1>1. Goes(e, c) /\ Calm(k, e, c)
  BY RemainsGoes DEF Runs
<1>2. ASSUME NEW u, In(u, e.list[RunQueue])
      PROVE  e.pri[u] <= e.pri[e.running]
  <2>1. u \in Threads /\ RunQueue \in Lists
    BY <1>1, <1>2 DEF Goes, Sched, Queued, Belongs, Lists
  <2>2. In(u, k.list[RunQueue])
    BY <1>2, <2>1 DEF Remains
  <2>3. k.pri[u] <= k.pri[k.running] /\ k.running \in Threads /\ e.running = k.running
    BY <2>2 DEF Runs, Highest, Goes, Remains
  <2> QED
    BY <1>2, <2>1, <2>3
<1> QED
  BY <1>1, <1>2 DEF Runs, Highest

\* A thread that does not run, taken out of the list it is in.
TakenOut(k, t) ==
    IF k.state[t] \in {"runnable", "waiting"} THEN DequeueThread(k, k.onq[t], t) ELSE k

LEMMA TakenOutSched ==
    ASSUME NEW k, NEW c, NEW a, Sched(k, c, a), NEW t \in Threads, t \notin a
    PROVE  LET d == TakenOut(k, t)
           IN  Sched(d, c, a \cup {t}) /\ AfterDequeue(k, d, t)
<1>1. CASE k.state[t] \in {"runnable", "waiting"}
  BY <1>1, DequeueSched DEF TakenOut
<1>2. CASE k.state[t] \notin {"runnable", "waiting"}
  <2>1. Sched(k, c, a \cup {t})
    BY <1>2, EnteredSched
  <2>2. AfterDequeue(k, k, t)
    <3>1. ASSUME NEW l \in Lists, NEW u, In(u, k.list[l])
          PROVE  u # t
      BY <1>2, <3>1 DEF Sched, Queued, Belongs
    <3> QED
      BY <3>1 DEF AfterDequeue
  <2> QED
    BY <1>2, <2>1, <2>2 DEF TakenOut
<1> QED
  BY <1>1, <1>2

LEMMA ReleaseFields ==
    ASSUME NEW k, IsSched(k), NEW t
    PROVE  LET e == Release(k, t)
           IN  /\ IsSched(e) /\ e.running = k.running /\ e.list = k.list
               /\ e.state = [k.state EXCEPT ![t] = "none"]
               /\ e.pri = [k.pri EXCEPT ![t] = IdlePri]
               /\ e.onq = [k.onq EXCEPT ![t] = NoList]
<1> DEFINE d1 == [k EXCEPT !.state[t] = "none"]
           d2 == [d1 EXCEPT !.pri[t] = IdlePri]
           e == [d2 EXCEPT !.onq[t] = NoList]
           n == NoList
<1> HIDE DEF n
<1>1. Release(k, t) = [k EXCEPT !.state[t] = "none", !.pri[t] = IdlePri, !.onq[t] = n]
  BY DEF Release, n
<1>2. [k EXCEPT !.state[t] = "none", !.pri[t] = IdlePri, !.onq[t] = n]
        = [d2 EXCEPT !.onq[t] = n]
  OBVIOUS
<1>3. /\ IsSched(d1) /\ d1.running = k.running /\ d1.pri = k.pri
      /\ d1.onq = k.onq /\ d1.list = k.list /\ d1.state = [k.state EXCEPT ![t] = "none"]
  BY StateFields
<1> HIDE DEF d1
<1>4. /\ IsSched(d2) /\ d2.running = d1.running /\ d2.state = d1.state
      /\ d2.onq = d1.onq /\ d2.list = d1.list /\ d2.pri = [d1.pri EXCEPT ![t] = IdlePri]
  BY <1>3, PriFields
<1> HIDE DEF d2
<1>5. /\ IsSched(e) /\ e.running = d2.running /\ e.state = d2.state /\ e.pri = d2.pri
      /\ e.list = d2.list /\ e.onq = [d2.onq EXCEPT ![t] = NoList]
  BY <1>4, OnqFields
<1>6. Release(k, t) = e
  BY <1>1, <1>2 DEF n
<1> HIDE DEF e
<1> QED
  BY <1>3, <1>4, <1>5, <1>6

LEMMA ReleaseSched ==
    ASSUME NEW k, NEW c, NEW a, Sched(k, c, a), NEW t \in Threads, t \in a, c[t] = NoCall
    PROVE  LET e == Release(k, t)
           IN  Sched(e, c, a) /\ Placed(t, e.state, e.onq, e.list, c)
<1> DEFINE e == Release(k, t)
<1>1. IsSched(k) /\ Typed(k.state, k.pri, k.onq, k.list)
  BY DEF Sched, Queued
<1>2. /\ IsSched(e) /\ e.running = k.running /\ e.list = k.list
      /\ e.state = [k.state EXCEPT ![t] = "none"]
      /\ e.pri = [k.pri EXCEPT ![t] = IdlePri]
      /\ e.onq = [k.onq EXCEPT ![t] = NoList]
  BY <1>1, ReleaseFields
<1> HIDE DEF e
<1>3. Typed(e.state, e.pri, e.onq, e.list)
  BY <1>1, <1>2 DEF Typed, States
<1>4. \A u \in Threads \ a : /\ e.state[u] = k.state[u] /\ e.pri[u] = k.pri[u]
                            /\ e.onq[u] = k.onq[u]
  BY <1>1, <1>2 DEF Typed
<1>5. IsSched(e) /\ e.list = k.list
  BY <1>2
<1>6. Sched(e, c, a)
  BY <1>3, <1>4, <1>5, ChangeSched
<1>7. e.state[t] = "none" /\ e.onq[t] = NoList
  BY <1>1, <1>2 DEF Typed
<1>8. Placed(t, e.state, e.onq, e.list, c)
  BY <1>7 DEF Placed
<1> QED
  BY <1>6, <1>8 DEF e

LEMMA DestroySelfRuns ==
    ASSUME NEW k, NEW c, Runs(k, c), k.running # Idle, c[k.running] = NoCall
    PROVE  LET e == DispatchThread(Release(k, k.running))
           IN  Runs(e, c) /\ Calm(k, e, c)
<1> DEFINE t == k.running
           a == {t}
           w == Release(k, t)
           e == DispatchThread(w)
<1>1. /\ Sched(k, c, a) /\ t \in Threads /\ t \in a /\ c[t] = NoCall
      /\ In(Idle, k.list[RunQueue])
  BY DEF Runs, Goes
<1> HIDE DEF a
<1>2. Sched(w, c, a) /\ Placed(t, w.state, w.onq, w.list, c)
  BY <1>1, ReleaseSched
<1>3. w.list = k.list /\ w.onq = [k.onq EXCEPT ![t] = NoList]
  BY <1>1, ReleaseFields DEF Sched
<1>4. Typed(k.state, k.pri, k.onq, k.list)
  BY <1>1 DEF Sched, Queued
<1> HIDE DEF w, t
<1>5. Runs(e, c) /\ Calm(w, e, c)
  BY <1>1, <1>2, <1>3, LeaveRuns DEF a
<1>6. Calm(k, w, c)
  BY <1>1, <1>3, <1>4 DEF Calm, Waiting, Typed
<1> HIDE DEF e
<1>7. Calm(k, e, c)
  BY <1>5, <1>6, CalmTwice
<1> QED
  BY <1>5, <1>7 DEF e, w, t

LEMMA DestroyRuns ==
    ASSUME NEW k, NEW c, Runs(k, c), NEW t \in Threads, t \notin {k.running, Idle},
           c[t] = NoCall
    PROVE  LET e == Release(IF k.state[t] = "stopped" THEN k
                                                      ELSE DequeueThread(k, k.onq[t], t), t)
           IN  k.state[t] # "none" => Runs(e, c) /\ Calm(k, e, c)
<1> SUFFICES ASSUME k.state[t] # "none"
             PROVE  LET e == Release(IF k.state[t] = "stopped" THEN k
                                     ELSE DequeueThread(k, k.onq[t], t), t)
                    IN  Runs(e, c) /\ Calm(k, e, c)
  OBVIOUS
<1> DEFINE d == TakenOut(k, t)
           e == Release(d, t)
           a == {k.running}
           o == a \cup {t}
<1>1. Sched(k, c, a) /\ t \notin a
  BY DEF Runs, Goes
<1>2. Placed(t, k.state, k.onq, k.list, c) /\ Typed(k.state, k.pri, k.onq, k.list)
  BY <1>1 DEF Sched, Queued
<1>3. d = IF k.state[t] = "stopped" THEN k ELSE DequeueThread(k, k.onq[t], t)
  BY <1>2 DEF Placed, Typed, States, TakenOut
<1> HIDE DEF a
<1>4. Sched(d, c, o) /\ AfterDequeue(k, d, t)
  BY <1>1, TakenOutSched
<1>5. t \in o /\ o \ {t} = a
  BY <1>1
<1> HIDE DEF d, o
<1>6. Sched(e, c, o) /\ Placed(t, e.state, e.onq, e.list, c)
  BY <1>4, <1>5, ReleaseSched
<1>7. Sched(e, c, o \ {t})
  BY <1>5, <1>6, LeftSched
<1>8. /\ e.running = d.running /\ e.list = d.list
      /\ e.state = [d.state EXCEPT ![t] = "none"]
      /\ e.pri = [d.pri EXCEPT ![t] = IdlePri]
      /\ e.onq = [d.onq EXCEPT ![t] = NoList]
  BY <1>4, ReleaseFields DEF Sched
<1> HIDE DEF e
<1>9. \A u \in Threads \ {t} : /\ e.state[u] = k.state[u] /\ e.pri[u] = k.pri[u]
                              /\ e.onq[u] = k.onq[u]
  BY <1>2, <1>4, <1>8 DEF AfterDequeue, Typed
<1>10. \A l \in Lists : \A u : In(u, e.list[l]) <=> In(u, k.list[l]) /\ u # t
  BY <1>4, <1>8 DEF AfterDequeue
<1>11. RunQueue \in Lists /\ k.running \in Threads \ {t} /\ e.running = k.running
  BY <1>4, <1>8 DEF Lists, Runs, Goes, AfterDequeue
<1>12. Remains(k, e, c)
  BY <1>5, <1>7, <1>9, <1>10, <1>11 DEF Remains, a
<1>13. Runs(e, c) /\ Calm(k, e, c)
  BY <1>9, <1>10, <1>11, <1>12, RemainsRuns
<1> QED
  BY <1>3, <1>13 DEF e

LEMMA StopRuns ==
    ASSUME NEW k, NEW c, Runs(k, c), NEW t \in Threads, t # Idle,
           k.state[t] \in {"runnable", "waiting"}
    PROVE  LET e == DequeueThread([k EXCEPT !.state[t] = "stopped"], k.onq[t], t)
           IN  Runs(e, c) /\ Calm(k, e, c)
<1> DEFINE l == k.onq[t]
           d == DequeueThread(k, l, t)
           w == [k EXCEPT !.state[t] = "stopped"]
           e == DequeueThread(w, l, t)
           a == {k.running}
           o == a \cup {t}
<1>1. Sched(k, c, a) /\ t \notin a /\ IsSched(k)
  BY DEF Runs, Goes, Sched
<1>2. Placed(t, k.state, k.onq, k.list, c) /\ Typed(k.state, k.pri, k.onq, k.list)
  BY <1>1 DEF Sched, Queued
<1> HIDE DEF a
<1>3. Sched(d, c, o) /\ AfterDequeue(k, d, t)
  BY <1>1, DequeueSched
<1>4. d.list = Unfiled(k.list, l, t)
  BY <1>1, DequeueFields
<1>5. /\ IsSched(w) /\ w.running = k.running /\ w.pri = k.pri
      /\ w.onq = k.onq /\ w.list = k.list /\ w.state = [k.state EXCEPT ![t] = "stopped"]
  BY <1>1, StateFields
<1> HIDE DEF w
<1>6. /\ IsSched(e) /\ e.running = w.running /\ e.state = w.state /\ e.pri = w.pri
      /\ e.onq = w.onq /\ e.list = Unfiled(w.list, l, t)
  BY <1>5, DequeueFields
<1>7. t \in o /\ o \ {t} = a
  BY <1>1
<1> HIDE DEF d, e, o
<1>8. IsSched(e) /\ e.list = d.list
  BY <1>4, <1>5, <1>6
<1>9. /\ d.running = k.running /\ d.state = k.state /\ d.pri = k.pri /\ d.onq = k.onq
      /\ Typed(d.state, d.pri, d.onq, d.list)
  BY <1>3 DEF AfterDequeue, Sched, Queued
<1>10. /\ e.state = [k.state EXCEPT ![t] = "stopped"]
       /\ e.pri = k.pri /\ e.onq = k.onq /\ e.running = k.running
  BY <1>5, <1>6
<1>11. Typed(e.state, e.pri, e.onq, e.list)
  BY <1>8, <1>9, <1>10 DEF Typed, States
<1>12. \A u \in Threads \ o : e.state[u] = d.state[u] /\ e.pri[u] = d.pri[u] /\ e.onq[u] = d.onq[u]
  BY <1>2, <1>7, <1>9, <1>10 DEF Typed
<1>13. Sched(e, c, o)
  BY <1>3, <1>8, <1>11, <1>12, ChangeSched
<1>14. e.state[t] = "stopped"
  BY <1>2, <1>10 DEF Typed
<1>15. Placed(t, e.state, e.onq, e.list, c)
  BY <1>2, <1>10, <1>14 DEF Placed
<1>16. Sched(e, c, o \ {t})
  BY <1>7, <1>13, <1>15, LeftSched
<1>17. \A m \in Lists : \A u : In(u, e.list[m]) <=> In(u, k.list[m]) /\ u # t
  BY <1>3, <1>8 DEF AfterDequeue
<1>18. RunQueue \in Lists /\ k.running # t /\ e.state[k.running] = k.state[k.running]
  BY <1>1, <1>2, <1>10 DEF Lists, a, Typed, Runs, Goes
<1>19. Remains(k, e, c)
  BY <1>7, <1>10, <1>16, <1>17, <1>18 DEF Remains, a
<1>20. Runs(e, c) /\ Calm(k, e, c)
  BY <1>10, <1>19, RemainsRuns
<1> QED
  BY <1>20 DEF e, w

LEMMA PriSched ==
    ASSUME NEW k, NEW c, NEW a, Sched(k, c, a), NEW t \in a, NEW p \in Pris \cup {IdlePri}
    PROVE  LET e == [k EXCEPT !.pri[t] = p]
           IN  /\ Sched(e, c, a)
               /\ e.running = k.running /\ e.state = k.state /\ e.onq = k.onq
               /\ e.list = k.list /\ e.pri = [k.pri EXCEPT ![t] = p]
<1> DEFINE e == [k EXCEPT !.pri[t] = p]
<1>1. /\ IsSched(e) /\ e.running = k.running /\ e.state = k.state /\ e.onq = k.onq
      /\ e.list = k.list /\ e.pri = [k.pri EXCEPT ![t] = p]
  BY PriFields DEF Sched
<1> HIDE DEF e
<1>2. Typed(k.state, k.pri, k.onq, k.list)
  BY DEF Sched, Queued
<1>3. Typed(e.state, e.pri, e.onq, e.list)
  BY <1>1, <1>2 DEF Typed
<1>4. \A u \in Threads \ a : e.pri[u] = k.pri[u]
  BY <1>1, <1>2 DEF Typed
<1>5. Sched(e, c, a)
  BY <1>1, <1>3, <1>4, ChangeSched
<1> QED
  BY <1>1, <1>5 DEF e

(* A thread that is in a list moves to the place of its new priority. *)
LEMMA ReorderGoes ==
    ASSUME NEW k, NEW c, Goes(k, c), NEW t \in Threads, NEW p \in Pris \cup {IdlePri},
           k.state[t] \in {"runnable", "waiting"}
    PROVE  LET e == Reorder([k EXCEPT !.pri[t] = p], t)
           IN  Goes(e, c) /\ Calm(k, e, c)
<1> DEFINE l == k.onq[t]
           w == [k EXCEPT !.pri[t] = p]
           d == DequeueThread(k, l, t)
           d1 == [d EXCEPT !.pri[t] = p]
           d2 == DequeueThread(w, l, t)
           e == EnqueueThread(d2, l, t)
           a == {k.running}
           o == a \cup {t}
<1>1. Sched(k, c, a) /\ t \notin a /\ IsSched(k)
  BY DEF Goes, Sched
<1>2. Placed(t, k.state, k.onq, k.list, c) /\ Typed(k.state, k.pri, k.onq, k.list)
  BY <1>1 DEF Sched, Queued
<1>3. l \in Lists /\ In(t, k.list[l])
  BY <1>2 DEF Placed
<1>4. /\ l # RunQueue => k.state[t] = "waiting" /\ c[t] # NoCall
      /\ c[t] # NoCall => l \in {RunQueue, WaitsIn(c[t])}
  <2>1. l # NoList
    BY <1>3, KernelAssumption DEF Lists, RunQueue, MtQueue, FullQueue, NoList
  <2>2. Belongs(t, l, k.state, k.onq, a)
    BY <1>1, <1>3 DEF Sched, Queued
  <2> QED
    BY <1>2, <2>1, <2>2 DEF Placed, Belongs
<1>5. t \in o /\ o \ {t} = a
  BY <1>1
<1> HIDE DEF a
<1>6. Sched(d, c, o) /\ AfterDequeue(k, d, t)
  BY <1>1, DequeueSched
<1>7. d.list = Unfiled(k.list, l, t)
  BY <1>1, DequeueFields
<1> HIDE DEF d, o
<1>8. /\ Sched(d1, c, o)
      /\ d1.running = d.running /\ d1.state = d.state /\ d1.onq = d.onq
      /\ d1.list = d.list /\ d1.pri = [d.pri EXCEPT ![t] = p]
  BY <1>5, <1>6, PriSched
<1>9. /\ IsSched(w) /\ w.running = k.running /\ w.state = k.state /\ w.onq = k.onq
      /\ w.list = k.list /\ w.pri = [k.pri EXCEPT ![t] = p]
  BY <1>1, PriFields
<1>10. Reorder(w, t) = e
  BY <1>9 DEF Reorder
<1> HIDE DEF d1, w
<1>11. /\ IsSched(d2) /\ d2.running = w.running /\ d2.state = w.state /\ d2.pri = w.pri
       /\ d2.onq = w.onq /\ d2.list = Unfiled(w.list, l, t)
  BY <1>9, DequeueFields
<1>12. d2 = d1
  <2>1. /\ d2.running = d1.running /\ d2.state = d1.state /\ d2.onq = d1.onq
        /\ d2.list = d1.list
    BY <1>6, <1>7, <1>8, <1>9, <1>11 DEF AfterDequeue
  <2>2. d2.pri = d1.pri
    BY <1>6, <1>8, <1>9, <1>11 DEF AfterDequeue
  <2>3. IsSched(d2) /\ IsSched(d1)
    BY <1>8, <1>11 DEF Sched
  <2> HIDE DEF d2
  <2> QED
    BY <2>1, <2>2, <2>3 DEF IsSched
<1> HIDE DEF d2, l
<1>13. Sched(d2, c, o) /\ d2.state = k.state /\ d2.onq = k.onq /\ d2.running = k.running
  BY <1>6, <1>8, <1>12 DEF AfterDequeue
<1>14. Sched(e, c, o \ {t}) /\ AfterEnqueue(d2, e, l, t)
  BY <1>3, <1>4, <1>5, <1>13, EnqueueSched
<1> HIDE DEF e
<1>15. \A m \in Lists : \A u : In(u, e.list[m]) <=> (In(u, k.list[m]) /\ u # t) \/ (m = l /\ u = t)
  BY <1>6, <1>8, <1>12, <1>14 DEF AfterDequeue, AfterEnqueue
<1>16. \A m \in Lists : In(t, k.list[m]) => m = l
  BY <1>1 DEF Sched, Queued, Belongs, l
<1>17. \A m \in Lists : \A u : In(u, e.list[m]) <=> In(u, k.list[m])
  BY <1>3, <1>15, <1>16
<1>18. e.onq = k.onq /\ e.state = k.state /\ e.running = k.running
  BY <1>2, <1>13, <1>14 DEF AfterEnqueue, Typed, l
<1>19. Remains(k, e, c)
  <2>1. RunQueue \in Lists
    BY DEF Lists
  <2> QED
    BY <1>5, <1>14, <1>17, <1>18, <2>1 DEF Remains, a
<1>20. Goes(e, c) /\ Calm(k, e, c)
  BY <1>19, RemainsGoes
<1> QED
  BY <1>10, <1>20 DEF w

(* osSetThreadPri. *)
LEMMA SetThreadPriRuns ==
    ASSUME NEW k, NEW c, Goes(k, c), NEW t \in Threads, NEW p \in Pris \cup {IdlePri},
           k.state[t] # "none"
    PROVE  LET w == [k EXCEPT !.pri[t] = p]
               e == Preempt(IF t # k.running /\ k.state[t] # "stopped" THEN Reorder(w, t) ELSE w)
           IN  Runs(e, c) /\ Calm(k, e, c)
<1> DEFINE w == [k EXCEPT !.pri[t] = p]
           x == IF t # k.running /\ k.state[t] # "stopped" THEN Reorder(w, t) ELSE w
           e == Preempt(x)
           a == {k.running}
<1>1. Sched(k, c, a)
  BY DEF Goes
<1>2. Typed(k.state, k.pri, k.onq, k.list)
  BY <1>1 DEF Sched, Queued
<1>3. Goes(x, c) /\ Calm(k, x, c)
  <2>1. CASE t # k.running /\ k.state[t] # "stopped"
    <3>1. k.state[t] \in {"runnable", "waiting"}
      BY <1>1, <1>2, <2>1 DEF Sched, Queued, Placed, Typed, States
    <3> QED
      BY <2>1, <3>1, ReorderGoes
  <2>2. CASE ~(t # k.running /\ k.state[t] # "stopped")
    <3> DEFINE o == a \cup {t}
    <3> HIDE DEF a
    <3>1. k.state[t] \notin {"runnable", "waiting"}
      BY <2>2 DEF Goes
    <3>2. Sched(k, c, o) /\ t \in o
      BY <1>1, <3>1, EnteredSched
    <3> HIDE DEF o
    <3>3. /\ Sched(w, c, o)
          /\ w.running = k.running /\ w.state = k.state /\ w.onq = k.onq
          /\ w.list = k.list /\ w.pri = [k.pri EXCEPT ![t] = p]
      BY <3>2, PriSched
    <3> HIDE DEF w
    <3>4. Sched(w, c, a)
      <4>1. CASE t = k.running
        <5>1. o = a
          BY <4>1 DEF o, a
        <5> QED
          BY <3>3, <5>1
      <4>2. CASE t # k.running
        <5>1. Placed(t, k.state, k.onq, k.list, c) /\ o \ {t} = a
          BY <1>1, <4>2 DEF Sched, Queued, o, a
        <5>2. Placed(t, w.state, w.onq, w.list, c)
          BY <3>3, <5>1
        <5> QED
          BY <3>2, <3>3, <5>1, <5>2, LeftSched
      <4> QED
        BY <4>1, <4>2
    <3>5. Remains(k, w, c)
      BY <3>3, <3>4 DEF Remains, a
    <3>6. Goes(w, c) /\ Calm(k, w, c)
      BY <3>5, RemainsGoes
    <3> QED
      BY <2>2, <3>6
  <2> QED
    BY <2>1, <2>2
<1> HIDE DEF x
<1>4. Runs(e, c) /\ Calm(x, e, c)
  BY <1>3, PreemptRuns
<1>5. Calm(k, e, c)
  BY <1>3, <1>4, CalmTwice
<1> QED
  BY <1>4, <1>5 DEF x

LEMMA CreateFields ==
    ASSUME NEW k, IsSched(k), NEW t, NEW p
    PROVE  LET e == [k EXCEPT !.state[t] = "stopped", !.pri[t] = p, !.onq[t] = NoList]
           IN  /\ IsSched(e) /\ e.running = k.running /\ e.list = k.list
               /\ e.state = [k.state EXCEPT ![t] = "stopped"]
               /\ e.pri = [k.pri EXCEPT ![t] = p]
               /\ e.onq = [k.onq EXCEPT ![t] = NoList]
<1> DEFINE d1 == [k EXCEPT !.state[t] = "stopped"]
           d2 == [d1 EXCEPT !.pri[t] = p]
           e == [d2 EXCEPT !.onq[t] = NoList]
           n == NoList
           x == [k EXCEPT !.state[t] = "stopped", !.pri[t] = p, !.onq[t] = n]
<1> HIDE DEF n
<1>1. x = [d2 EXCEPT !.onq[t] = n]
  OBVIOUS
<1>2. /\ IsSched(d1) /\ d1.running = k.running /\ d1.pri = k.pri
      /\ d1.onq = k.onq /\ d1.list = k.list /\ d1.state = [k.state EXCEPT ![t] = "stopped"]
  BY StateFields
<1> HIDE DEF d1
<1>3. /\ IsSched(d2) /\ d2.running = d1.running /\ d2.state = d1.state
      /\ d2.onq = d1.onq /\ d2.list = d1.list /\ d2.pri = [d1.pri EXCEPT ![t] = p]
  BY <1>2, PriFields
<1> HIDE DEF d2
<1>4. /\ IsSched(e) /\ e.running = d2.running /\ e.state = d2.state /\ e.pri = d2.pri
      /\ e.list = d2.list /\ e.onq = [d2.onq EXCEPT ![t] = NoList]
  BY <1>3, OnqFields
<1>5. x = e
  BY <1>1 DEF n
<1> HIDE DEF e
<1>6. /\ IsSched(x) /\ x.running = k.running /\ x.list = k.list
      /\ x.state = [k.state EXCEPT ![t] = "stopped"]
      /\ x.pri = [k.pri EXCEPT ![t] = p]
      /\ x.onq = [k.onq EXCEPT ![t] = NoList]
  BY <1>2, <1>3, <1>4, <1>5
<1> QED
  BY <1>6 DEF x, n

LEMMA CreateRuns ==
    ASSUME NEW k, NEW c, Runs(k, c), NEW t \in Threads, k.state[t] = "none", NEW p \in Pris
    PROVE  LET e == [k EXCEPT !.state[t] = "stopped", !.pri[t] = p, !.onq[t] = NoList]
           IN  Runs(e, c) /\ Calm(k, e, c)
<1> DEFINE e == [k EXCEPT !.state[t] = "stopped", !.pri[t] = p, !.onq[t] = NoList]
           a == {k.running}
           o == a \cup {t}
<1>1. Sched(k, c, a) /\ t \notin a /\ IsSched(k)
  BY DEF Runs, Goes, Sched
<1>2. /\ Typed(k.state, k.pri, k.onq, k.list)
      /\ c[t] = NoCall /\ k.onq[t] = NoList
  BY <1>1 DEF Sched, Queued, Placed
<1>3. t \in o /\ o \ {t} = a
  BY <1>1
<1> HIDE DEF a
<1>4. Sched(k, c, o)
  BY <1>1, EnteredSched
<1> HIDE DEF o
<1>5. /\ IsSched(e) /\ e.running = k.running /\ e.list = k.list
      /\ e.state = [k.state EXCEPT ![t] = "stopped"]
      /\ e.pri = [k.pri EXCEPT ![t] = p]
      /\ e.onq = [k.onq EXCEPT ![t] = NoList]
  BY <1>1, CreateFields
<1> HIDE DEF e
<1>6. IsSched(e) /\ e.list = k.list
  BY <1>5
<1>7. Typed(e.state, e.pri, e.onq, e.list)
  BY <1>2, <1>5 DEF Typed, States
<1>8. \A u \in Threads \ {t} : /\ e.state[u] = k.state[u] /\ e.pri[u] = k.pri[u]
                              /\ e.onq[u] = k.onq[u]
  BY <1>2, <1>5 DEF Typed
<1>9. Sched(e, c, o)
  BY <1>3, <1>4, <1>6, <1>7, <1>8, ChangeSched
<1>10. e.state[t] = "stopped" /\ e.onq[t] = NoList
  BY <1>2, <1>5 DEF Typed
<1>11. Placed(t, e.state, e.onq, e.list, c)
  BY <1>2, <1>10 DEF Placed
<1>12. Sched(e, c, a)
  BY <1>3, <1>9, <1>11, LeftSched
<1>13. \A l \in Lists : ~In(t, k.list[l])
  BY <1>4, <1>3 DEF Sched, Queued, Belongs
<1>14. k.running \in Threads \ {t} /\ RunQueue \in Lists /\ e.running = k.running
  BY <1>1, <1>5 DEF Runs, Goes, a, Lists
<1>15. Remains(k, e, c)
  BY <1>2, <1>6, <1>8, <1>12, <1>14 DEF Remains, a
<1>16. Runs(e, c) /\ Calm(k, e, c)
  BY <1>6, <1>8, <1>13, <1>14, <1>15, RemainsRuns
<1> QED
  BY <1>16 DEF e

(* The first osStartThread. *)
LEMMA BootRuns ==
    ASSUME NEW k, NEW c, Sched(k, c, {NoThread}), k.running = NoThread,
           k.state[Idle] = "stopped", k.onq[Idle] = NoList
    PROVE  LET e == StartThread(k, Idle)
           IN  Runs(e, c) /\ Calm(k, e, c)
<1> DEFINE s == MakeRunnable(k, Idle)
           e == DispatchThread(s)
           a == {NoThread}
           o == a \cup {Idle}
<1>1. StartThread(k, Idle) = e
  BY DEF StartThread
<1>2. Sched(k, c, a) /\ Idle \in Threads /\ Typed(k.state, k.pri, k.onq, k.list)
  BY KernelAssumption DEF Sched, Queued
<1>3. Idle \in o /\ o \ {Idle} = a
  BY KernelAssumption
<1> HIDE DEF a
<1>4. Sched(k, c, o)
  BY <1>2, EnteredSched
<1> HIDE DEF o
<1>5. Sched(s, c, o \ {Idle}) /\ MadeRunnable(k, s, Idle)
  BY <1>2, <1>3, <1>4, MakeRunnableSched
<1> HIDE DEF s
<1>6. Sched(s, c, {})
  BY <1>3, <1>5, KernelAssumption DEF a, Sched, Queued, Belongs
<1>7. Ready(s, c)
  BY <1>5, <1>6 DEF Ready, MadeRunnable
<1>8. Calm(k, s, c)
  BY <1>2, <1>5 DEF Calm, Waiting, MadeRunnable, Typed
<1>9. Runs(e, c) /\ Calm(s, e, c)
  BY <1>7, DispatchRuns
<1> HIDE DEF e
<1>10. Calm(k, e, c)
  BY <1>8, <1>9, CalmTwice
<1> QED
  BY <1>1, <1>9, <1>10

(* The running thread blocks in l, in a call that waits there. *)
LEMMA BlockRuns ==
    ASSUME NEW k, NEW c, Runs(k, c), NEW c2, NEW l \in Lists \ {RunQueue}, k.running # Idle,
           c2[k.running] # NoCall, WaitsIn(c2[k.running]) = l,
           \A t \in Threads \ {k.running} : c2[t] = c[t]
    PROVE  LET e == EnqueueAndYield(k, "waiting", l)
           IN  /\ Runs(e, c2)
               /\ \A m \in Lists \ {l, RunQueue} : e.list[m] = k.list[m]
               /\ \A t \in Threads \ {k.running} : e.onq[t] = k.onq[t]
<1> DEFINE e == EnqueueAndYield(k, "waiting", l)
           a == {k.running}
<1>1. Sched(k, c, a) /\ IsSched(k) /\ Typed(k.state, k.pri, k.onq, k.list)
  BY DEF Runs, Goes, Sched, Queued
<1> HIDE DEF a
<1>2. Sched(k, c2, a)
  <2>1. \A t \in Threads \ a : c2[t] = c[t]
    BY DEF a
  <2> QED
    BY <1>1, <2>1, ChangeSched
<1>3. Goes(k, c2)
  BY <1>2 DEF Runs, Goes, a
<1>4. /\ Runs(e, c2) /\ e.onq = [k.onq EXCEPT ![k.running] = l]
      /\ \A m \in Lists \ {l, RunQueue} : e.list[m] = k.list[m]
  BY <1>3, YieldRuns
<1> HIDE DEF e
<1>5. \A t \in Threads \ {k.running} : e.onq[t] = k.onq[t]
  BY <1>1, <1>4 DEF Typed
<1> QED
  BY <1>4, <1>5 DEF e

(* The running thread is done with its call. *)
LEMMA DoneRuns ==
    ASSUME NEW k, NEW c, Runs(k, c), NEW c2,
           \A t \in Threads \ {k.running} : c2[t] = c[t]
    PROVE  Runs(k, c2)
<1> DEFINE a == {k.running}
<1>1. Sched(k, c, a) /\ IsSched(k) /\ Typed(k.state, k.pri, k.onq, k.list)
  BY DEF Runs, Goes, Sched, Queued
<1>2. \A t \in Threads \ a : c2[t] = c[t]
  OBVIOUS
<1> HIDE DEF a
<1>3. Sched(k, c2, a)
  BY <1>1, <1>2, ChangeSched
<1> QED
  BY <1>3 DEF Runs, Goes, a

-----------------------------------------------------------------------------
(* Counting those that were woken and have yet to look. *)

Looking(k, c, l) == {t \in Threads : c[t] # NoCall /\ WaitsIn(c[t]) = l /\ k.onq[t] = RunQueue}

\* While a thread waits in l, as many are looking as there are reasons to.
Enough(k, c, l, n) == Waiting(k, l) => n <= Cardinality(Looking(k, c, l))

LEMMA CountLooking ==
    ASSUME NEW S, NEW T, S \subseteq Threads, T \subseteq Threads
    PROVE  /\ Cardinality(S) \in Nat /\ Cardinality(T) \in Nat
           /\ S \subseteq T => Cardinality(S) <= Cardinality(T)
           /\ \A t : S \subseteq T /\ t \in T \ S => Cardinality(S) + 1 <= Cardinality(T)
           /\ \A t : S \ {t} \subseteq T => Cardinality(S) - 1 <= Cardinality(T)
<1>1. IsFiniteSet(S) /\ IsFiniteSet(T)
  BY FS_Subset, KernelAssumption
<1>2. Cardinality(S) \in Nat /\ Cardinality(T) \in Nat
  BY <1>1, FS_CardinalityType
<1>3. ASSUME S \subseteq T
      PROVE  Cardinality(S) <= Cardinality(T)
  BY <1>1, <1>3, FS_Subset
<1>4. ASSUME NEW t, S \subseteq T, t \in T \ S
      PROVE  Cardinality(S) + 1 <= Cardinality(T)
  <2>1. Cardinality(S \cup {t}) = Cardinality(S) + 1
    BY <1>1, <1>4, FS_AddElement
  <2>2. S \cup {t} \subseteq T
    BY <1>4
  <2> QED
    BY <1>1, <2>1, <2>2, FS_Subset
<1>5. ASSUME NEW t, S \ {t} \subseteq T
      PROVE  Cardinality(S) - 1 <= Cardinality(T)
  <2>1. CASE t \in S
    <3>1. Cardinality(S \ {t}) = Cardinality(S) - 1
      BY <1>1, <2>1, FS_RemoveElement
    <3>2. Cardinality(S \ {t}) <= Cardinality(T)
      BY <1>1, <1>5, FS_Subset
    <3> QED
      BY <3>1, <3>2
  <2>2. CASE t \notin S
    <3>1. S \subseteq T
      BY <1>5, <2>2
    <3> QED
      BY <1>2, <1>3, <3>1
  <2> QED
    BY <2>1, <2>2
<1> QED
  BY <1>2, <1>3, <1>4, <1>5

LEMMA EnoughKept ==
    ASSUME NEW k, NEW e, NEW c, NEW c2, NEW l \in Lists \ {RunQueue}, Calm(k, e, c2),
           NEW n \in Int, NEW n2 \in Int, n2 <= n, Enough(k, c, l, n),
           \A t \in Looking(k, c, l) : c2[t] = c[t]
    PROVE  Enough(e, c2, l, n2)
<1> SUFFICES ASSUME Waiting(e, l)
             PROVE  n2 <= Cardinality(Looking(e, c2, l))
  BY DEF Enough
<1> DEFINE S == Looking(k, c, l)
           T == Looking(e, c2, l)
<1>1. n <= Cardinality(S)
  BY DEF Enough, Calm
<1>2. S \subseteq T
  BY DEF Looking, Calm
<1>3. S \subseteq Threads /\ T \subseteq Threads
  BY DEF Looking
<1> HIDE DEF S, T
<1>4. Cardinality(S) \in Nat /\ Cardinality(T) \in Nat /\ Cardinality(S) <= Cardinality(T)
  BY <1>2, <1>3, CountLooking
<1> QED
  BY <1>1, <1>4 DEF T

LEMMA EnoughWoken ==
    ASSUME NEW k, NEW e, NEW c, NEW c2, NEW l \in Lists \ {RunQueue}, Calm(k, e, c2),
           WokenOne(k, e, c2, l),
           NEW n \in Int, Enough(k, c, l, n),
           \A t \in Looking(k, c, l) : c2[t] = c[t]
    PROVE  Enough(e, c2, l, n + 1)
<1> SUFFICES ASSUME Waiting(e, l)
             PROVE  n + 1 <= Cardinality(Looking(e, c2, l))
  BY DEF Enough
<1> DEFINE S == Looking(k, c, l)
           T == Looking(e, c2, l)
<1>1. Waiting(k, l) /\ n <= Cardinality(S)
  BY DEF Enough, Calm
<1>2. S \subseteq T
  BY DEF Looking, Calm
<1>3. S \subseteq Threads /\ T \subseteq Threads
  BY DEF Looking
<1>4. PICK t \in Threads : /\ c2[t] # NoCall /\ WaitsIn(c2[t]) = l
                           /\ k.onq[t] = l /\ e.onq[t] = RunQueue
  BY <1>1 DEF WokenOne
<1>5. t \in T \ S
  BY <1>4 DEF Looking
<1> HIDE DEF S, T
<1>6. /\ Cardinality(S) \in Nat /\ Cardinality(T) \in Nat
      /\ Cardinality(S) + 1 <= Cardinality(T)
  BY <1>2, <1>3, <1>5, CountLooking
<1> QED
  BY <1>1, <1>6 DEF T

LEMMA EnoughLess ==
    ASSUME NEW k, NEW e, NEW c, NEW c2, NEW l \in Lists \ {RunQueue}, Calm(k, e, c2),
           NEW n \in Int, Enough(k, c, l, n), NEW x,
           \A t \in Looking(k, c, l) \ {x} : c2[t] = c[t]
    PROVE  Enough(e, c2, l, n - 1)
<1> SUFFICES ASSUME Waiting(e, l)
             PROVE  n - 1 <= Cardinality(Looking(e, c2, l))
  BY DEF Enough
<1> DEFINE S == Looking(k, c, l)
           T == Looking(e, c2, l)
<1>1. n <= Cardinality(S)
  BY DEF Enough, Calm
<1>2. S \ {x} \subseteq T
  BY DEF Looking, Calm
<1>3. S \subseteq Threads /\ T \subseteq Threads
  BY DEF Looking
<1> HIDE DEF S, T
<1>4. /\ Cardinality(S) \in Nat /\ Cardinality(T) \in Nat
      /\ Cardinality(S) - 1 <= Cardinality(T)
  BY <1>2, <1>3, CountLooking
<1> QED
  BY <1>1, <1>4 DEF T

-----------------------------------------------------------------------------
(* The inductive invariant. *)

Rings ==
    /\ slot = [q \in Queues |-> slot[q]]
    /\ first \in [Queues -> Nat] /\ valid \in [Queues -> Nat]
    /\ \A q \in Queues : /\ slot[q] \in [0 .. Count[q] - 1 -> Msgs \cup {EventMsg}]
                         /\ first[q] \in 0 .. Count[q] - 1
                         /\ valid[q] \in 0 .. Count[q]

Calling ==
    /\ call \in [Threads -> Calls \cup {NoCall}]
    /\ call[Idle] = NoCall
    /\ event \in Queues \cup {NoQueue}

\* Before the first osStartThread nobody runs.
Booting ==
    /\ r = NoThread
    /\ Sched(os, call, {NoThread})
    /\ os.state[Idle] = "stopped" /\ os.onq[Idle] = NoList

NobodyForgotten == \A q \in Queues :
    /\ Enough(os, call, MtQueue(q), valid[q])
    /\ Enough(os, call, FullQueue(q), Count[q] - valid[q])

KernelInv ==
    /\ Rings
    /\ Calling
    /\ Booting \/ Runs(os, call)
    /\ NobodyForgotten

LEMMA ListNames ==
    ASSUME NEW q \in Queues
    PROVE  /\ MtQueue(q) \in Lists \ {RunQueue} /\ FullQueue(q) \in Lists \ {RunQueue}
           /\ \A p \in Queues : /\ MtQueue(q) # FullQueue(p)
                                /\ MtQueue(q) = MtQueue(p) => q = p
                                /\ FullQueue(q) = FullQueue(p) => q = p
BY DEF Lists, MtQueue, FullQueue, RunQueue

(* A step that neither begins nor ends a call and leaves the queues alone. *)
LEMMA ControlStep ==
    ASSUME KernelInv, Runs(os', call), Calm(os, os', call), UNCHANGED <<call, mesgs>>,
           event' \in Queues \cup {NoQueue}
    PROVE  KernelInv'
<1>1. Rings' /\ Calling'
  BY DEF KernelInv, Rings, Calling, mesgs
<1>2. NobodyForgotten'
  <2> SUFFICES ASSUME NEW q \in Queues
               PROVE  /\ Enough(os', call, MtQueue(q), valid[q])
                      /\ Enough(os', call, FullQueue(q), Count[q] - valid[q])
    BY DEF NobodyForgotten, mesgs
  <2> DEFINE n == Count[q] - valid[q]
             v == valid[q]
  <2>1. n \in Int /\ v \in Int
    BY KernelAssumption DEF KernelInv, Rings
  <2>2. Enough(os, call, MtQueue(q), v) /\ Enough(os, call, FullQueue(q), n)
    BY DEF KernelInv, NobodyForgotten
  <2> HIDE DEF n, v
  <2>3. ASSUME NEW l \in Lists \ {RunQueue}, NEW m \in Int, Enough(os, call, l, m)
        PROVE  Enough(os', call, l, m)
    <3>1. m <= m /\ \A t \in Looking(os, call, l) : call[t] = call[t]
      OBVIOUS
    <3> QED
      BY <2>3, <3>1, EnoughKept
  <2>4. /\ Enough(os', call, MtQueue(q), v)
        /\ Enough(os', call, FullQueue(q), n)
    BY <2>1, <2>2, <2>3, ListNames
  <2> QED
    BY <2>4 DEF n, v
<1>3. (Runs(os, call))'
  OBVIOUS
<1> QED
  BY <1>1, <1>2, <1>3 DEF KernelInv

(* The running thread blocks: nobody else is concerned. *)
LEMMA BlockStep ==
    ASSUME KernelInv, NEW c \in Calls, NEW q \in Queues, NEW l,
           l = WaitsIn(c), r # NoThread, call[r] \in {NoCall, c},
           \/ l = MtQueue(q) /\ valid[q] <= 0
           \/ l = FullQueue(q) /\ Count[q] - valid[q] <= 0,
           Block(c, l)
    PROVE  KernelInv'
<1>1. l \in Lists \ {RunQueue} /\ c # NoCall
  BY ListNames DEF Calls, NoCall
<1>2. Runs(os, call)
  BY DEF KernelInv, Booting
<1>3. r \in Threads /\ r # Idle /\ call \in [Threads -> Calls \cup {NoCall}]
  BY <1>2 DEF Runs, Goes, Block, KernelInv, Calling, r
<1>4. call' = [call EXCEPT ![r] = c] /\ os' = EnqueueAndYield(os, "waiting", l)
  BY DEF Block
<1>5. /\ call'[r] = c /\ \A t \in Threads \ {r} : call'[t] = call[t]
      /\ call' \in [Threads -> Calls \cup {NoCall}]
  BY <1>3, <1>4
<1>6. /\ Runs(os', call')
      /\ \A m \in Lists \ {l, RunQueue} : os'.list[m] = os.list[m]
      /\ \A t \in Threads \ {r} : os'.onq[t] = os.onq[t]
  <2> DEFINE c2 == call'
             k == os
             e == EnqueueAndYield(k, "waiting", l)
  <2>1. /\ Runs(k, call) /\ k.running # Idle
        /\ c2[k.running] # NoCall /\ WaitsIn(c2[k.running]) = l
        /\ \A t \in Threads \ {k.running} : c2[t] = call[t]
    BY <1>1, <1>2, <1>3, <1>5 DEF r
  <2> HIDE DEF c2, k
  <2>2. /\ Runs(e, c2)
        /\ \A m \in Lists \ {l, RunQueue} : e.list[m] = k.list[m]
        /\ \A t \in Threads \ {k.running} : e.onq[t] = k.onq[t]
    BY <1>1, <2>1, BlockRuns
  <2> HIDE DEF e
  <2>3. os' = e
    BY <1>4 DEF e, k
  <2> QED
    BY <2>2, <2>3 DEF c2, k, r
<1>7. Rings' /\ Calling'
  BY <1>3, <1>5, KernelAssumption DEF KernelInv, Rings, Calling, Block, mesgs
<1>8. ASSUME NEW m \in Lists \ {l, RunQueue}, NEW n \in Int, Enough(os, call, m, n)
      PROVE  Enough(os', call', m, n)
  <2> SUFFICES ASSUME Waiting(os', m)
               PROVE  n <= Cardinality(Looking(os', call', m))
    BY DEF Enough
  <2> DEFINE S == Looking(os, call, m)
             T == Looking(os', call', m)
  <2>1. n <= Cardinality(S)
    BY <1>6, <1>8 DEF Enough, Waiting
  <2>2. S \subseteq T
    <3>1. ASSUME NEW t \in S
          PROVE  t \in Threads \ {r}
      BY <1>8 DEF Looking
    <3> QED
      BY <1>5, <1>6, <3>1 DEF Looking
  <2>3. S \subseteq Threads /\ T \subseteq Threads
    BY DEF Looking
  <2> HIDE DEF S, T
  <2>4. Cardinality(S) \in Nat /\ Cardinality(T) \in Nat /\ Cardinality(S) <= Cardinality(T)
    BY <2>2, <2>3, CountLooking
  <2> QED
    BY <2>1, <2>4 DEF T
<1>9. ASSUME NEW n \in Int, n <= 0
      PROVE  Enough(os', call', l, n)
  <2>1. Cardinality(Looking(os', call', l)) \in Nat
    BY CountLooking DEF Looking
  <2> QED
    BY <1>9, <2>1 DEF Enough
<1>10. NobodyForgotten'
  <2> SUFFICES ASSUME NEW p \in Queues
               PROVE  /\ Enough(os', call', MtQueue(p), valid[p])
                      /\ Enough(os', call', FullQueue(p), Count[p] - valid[p])
    BY DEF NobodyForgotten, Block, mesgs
  <2> DEFINE n == Count[p] - valid[p]
             v == valid[p]
  <2>1. n \in Int /\ v \in Int
    BY KernelAssumption DEF KernelInv, Rings
  <2>2. Enough(os, call, MtQueue(p), v) /\ Enough(os, call, FullQueue(p), n)
    BY DEF KernelInv, NobodyForgotten
  <2>3. MtQueue(p) = l => v <= 0
    BY ListNames
  <2>4. FullQueue(p) = l => n <= 0
    BY ListNames
  <2> HIDE DEF n, v
  <2>5. Enough(os', call', MtQueue(p), v)
    BY <1>8, <1>9, <2>1, <2>2, <2>3, ListNames
  <2>6. Enough(os', call', FullQueue(p), n)
    BY <1>8, <1>9, <2>1, <2>2, <2>4, ListNames
  <2> QED
    BY <2>5, <2>6 DEF n, v
<1>11. (Runs(os, call))'
  BY <1>6
<1> QED
  BY <1>7, <1>10, <1>11 DEF KernelInv

(* A message more or less: who waits in la is woken, and of those that looked
   from lb at most the one that came is gone.                                *)
LEMMA Counted ==
    ASSUME NEW k, NEW e, NEW c, NEW c2, NEW x,
           NEW la \in Lists \ {RunQueue}, NEW lb \in Lists \ {RunQueue}, la # lb,
           Calm(k, e, c2), WokenOne(k, e, c2, la),
           \A t \in Threads \ {x} : c2[t] = c[t], c[x] = NoCall \/ WaitsIn(c[x]) = lb
    PROVE  \A n \in Int :
             /\ Enough(k, c, la, n) => Enough(e, c2, la, n + 1)
             /\ Enough(k, c, lb, n) => Enough(e, c2, lb, n - 1)
             /\ \A l \in Lists \ {RunQueue, lb} : Enough(k, c, l, n) => Enough(e, c2, l, n)
<1>1. ASSUME NEW l \in Lists \ {RunQueue, lb}, NEW t \in Looking(k, c, l)
      PROVE  c2[t] = c[t]
  BY <1>1 DEF Looking
<1>2. ASSUME NEW n \in Int, NEW l \in Lists \ {RunQueue, lb}, Enough(k, c, l, n)
      PROVE  Enough(e, c2, l, n)
  <2>1. n <= n /\ \A t \in Looking(k, c, l) : c2[t] = c[t]
    BY <1>1
  <2> QED
    BY <1>2, <2>1, EnoughKept
<1>3. ASSUME NEW n \in Int, Enough(k, c, la, n)
      PROVE  Enough(e, c2, la, n + 1)
  <2>1. \A t \in Looking(k, c, la) : c2[t] = c[t]
    BY <1>1
  <2> QED
    BY <1>3, <2>1, EnoughWoken
<1>4. ASSUME NEW n \in Int, Enough(k, c, lb, n)
      PROVE  Enough(e, c2, lb, n - 1)
  <2>1. \A t \in Looking(k, c, lb) \ {x} : c2[t] = c[t]
    BY DEF Looking
  <2> QED
    BY <1>4, <2>1, EnoughLess
<1> QED
  BY <1>2, <1>3, <1>4

LEMMA OneMore ==
    ASSUME KernelInv, NEW q \in Queues, NEW x,
           Calm(os, os', call'), WokenOne(os, os', call', MtQueue(q)),
           \A t \in Threads \ {x} : call'[t] = call[t],
           call[x] = NoCall \/ WaitsIn(call[x]) = FullQueue(q),
           valid' = [valid EXCEPT ![q] = @ + 1]
    PROVE  NobodyForgotten'
<1>1. \A n \in Int :
        /\ Enough(os, call, MtQueue(q), n) => Enough(os', call', MtQueue(q), n + 1)
        /\ Enough(os, call, FullQueue(q), n) => Enough(os', call', FullQueue(q), n - 1)
        /\ \A l \in Lists \ {RunQueue, FullQueue(q)} :
             Enough(os, call, l, n) => Enough(os', call', l, n)
  <2> DEFINE la == MtQueue(q)
             lb == FullQueue(q)
  <2>1. la \in Lists \ {RunQueue} /\ lb \in Lists \ {RunQueue} /\ la # lb
    BY ListNames
  <2> HIDE DEF la, lb
  <2>2. \A n \in Int :
          /\ Enough(os, call, la, n) => Enough(os', call', la, n + 1)
          /\ Enough(os, call, lb, n) => Enough(os', call', lb, n - 1)
          /\ \A l \in Lists \ {RunQueue, lb} :
               Enough(os, call, l, n) => Enough(os', call', l, n)
    BY <2>1, Counted DEF la, lb
  <2> QED
    BY <2>2 DEF la, lb
<1>2. valid \in [Queues -> Nat] /\ Count[q] \in Int
  <2>1. valid \in [Queues -> Nat]
    BY DEF KernelInv, Rings
  <2>2. Count[q] \in Int
    BY KernelAssumption
  <2> QED
    BY <2>1, <2>2
<1> SUFFICES ASSUME NEW p \in Queues
             PROVE  /\ Enough(os', call', MtQueue(p), valid'[p])
                    /\ Enough(os', call', FullQueue(p), Count[p] - valid'[p])
  BY DEF NobodyForgotten
<1> DEFINE n == Count[p] - valid[p]
           v == valid[p]
<1>3. n \in Int /\ v \in Int
  BY <1>2, KernelAssumption
<1>4. Enough(os, call, MtQueue(p), v) /\ Enough(os, call, FullQueue(p), n)
  BY DEF KernelInv, NobodyForgotten
<1>5. CASE p = q
  <2>1. valid'[p] = v + 1 /\ Count[p] - valid'[p] = n - 1
    BY <1>2, <1>5, KernelAssumption
  <2> HIDE DEF n, v
  <2> QED
    BY <1>1, <1>3, <1>4, <1>5, <2>1
<1>6. CASE p # q
  <2>1. valid'[p] = v /\ Count[p] - valid'[p] = n
    BY <1>2, <1>6
  <2>2. MtQueue(p) \in Lists \ {RunQueue, FullQueue(q)}
    BY ListNames
  <2>3. FullQueue(p) \in Lists \ {RunQueue, FullQueue(q)}
    BY <1>6, ListNames
  <2> HIDE DEF n, v
  <2> QED
    BY <1>1, <1>3, <1>4, <2>1, <2>2, <2>3
<1> QED
  BY <1>5, <1>6

LEMMA OneLess ==
    ASSUME KernelInv, NEW q \in Queues, NEW x,
           Calm(os, os', call'), WokenOne(os, os', call', FullQueue(q)),
           \A t \in Threads \ {x} : call'[t] = call[t],
           call[x] = NoCall \/ WaitsIn(call[x]) = MtQueue(q),
           valid' = [valid EXCEPT ![q] = @ - 1]
    PROVE  NobodyForgotten'
<1>1. \A n \in Int :
        /\ Enough(os, call, FullQueue(q), n) => Enough(os', call', FullQueue(q), n + 1)
        /\ Enough(os, call, MtQueue(q), n) => Enough(os', call', MtQueue(q), n - 1)
        /\ \A l \in Lists \ {RunQueue, MtQueue(q)} :
             Enough(os, call, l, n) => Enough(os', call', l, n)
  <2> DEFINE la == FullQueue(q)
             lb == MtQueue(q)
  <2>1. la \in Lists \ {RunQueue} /\ lb \in Lists \ {RunQueue} /\ la # lb
    BY ListNames
  <2> HIDE DEF la, lb
  <2>2. \A n \in Int :
          /\ Enough(os, call, la, n) => Enough(os', call', la, n + 1)
          /\ Enough(os, call, lb, n) => Enough(os', call', lb, n - 1)
          /\ \A l \in Lists \ {RunQueue, lb} :
               Enough(os, call, l, n) => Enough(os', call', l, n)
    BY <2>1, Counted DEF la, lb
  <2> QED
    BY <2>2 DEF la, lb
<1>2. valid \in [Queues -> Nat] /\ Count[q] \in Int
  <2>1. valid \in [Queues -> Nat]
    BY DEF KernelInv, Rings
  <2>2. Count[q] \in Int
    BY KernelAssumption
  <2> QED
    BY <2>1, <2>2
<1> SUFFICES ASSUME NEW p \in Queues
             PROVE  /\ Enough(os', call', MtQueue(p), valid'[p])
                    /\ Enough(os', call', FullQueue(p), Count[p] - valid'[p])
  BY DEF NobodyForgotten
<1> DEFINE n == Count[p] - valid[p]
           v == valid[p]
<1>3. n \in Int /\ v \in Int
  BY <1>2, KernelAssumption
<1>4. Enough(os, call, MtQueue(p), v) /\ Enough(os, call, FullQueue(p), n)
  BY DEF KernelInv, NobodyForgotten
<1>5. CASE p = q
  <2>1. valid'[p] = v - 1 /\ Count[p] - valid'[p] = n + 1
    BY <1>2, <1>5, KernelAssumption
  <2> HIDE DEF n, v
  <2> QED
    BY <1>1, <1>3, <1>4, <1>5, <2>1
<1>6. CASE p # q
  <2>1. valid'[p] = v /\ Count[p] - valid'[p] = n
    BY <1>2, <1>6
  <2>2. FullQueue(p) \in Lists \ {RunQueue, MtQueue(q)}
    BY ListNames
  <2>3. MtQueue(p) \in Lists \ {RunQueue, MtQueue(q)}
    BY <1>6, ListNames
  <2> HIDE DEF n, v
  <2> QED
    BY <1>1, <1>3, <1>4, <2>1, <2>2, <2>3
<1> QED
  BY <1>5, <1>6

LEMMA DoneStep ==
    ASSUME KernelInv, r # NoThread, NEW l \in Lists \ {RunQueue}, Done(l)
    PROVE  /\ Runs(os', call') /\ Calm(os, os', call') /\ WokenOne(os, os', call', l)
           /\ Calling'
           /\ \A t \in Threads \ {r} : call'[t] = call[t]
<1>1. Runs(os, call)
  BY DEF KernelInv, Booting
<1>2. r \in Threads /\ call \in [Threads -> Calls \cup {NoCall}] /\ call[Idle] = NoCall
  BY <1>1 DEF Runs, Goes, KernelInv, Calling, r
<1>3. call' = [call EXCEPT ![r] = NoCall] /\ os' = WakeFirst(os, l) /\ event' = event
  BY DEF Done
<1>4. \A t \in Threads \ {r} : call'[t] = call[t]
  BY <1>2, <1>3
<1>5. Calling'
  BY <1>2, <1>3 DEF KernelInv, Calling
<1>6. Runs(os, call')
  <2> DEFINE c2 == call'
  <2>1. \A t \in Threads \ {os.running} : c2[t] = call[t]
    BY <1>4 DEF r
  <2> HIDE DEF c2
  <2>2. Runs(os, c2)
    BY <1>1, <2>1, DoneRuns
  <2> QED
    BY <2>2 DEF c2
<1>7. /\ Runs(WakeFirst(os, l), call') /\ Calm(os, WakeFirst(os, l), call')
      /\ WokenOne(os, WakeFirst(os, l), call', l)
  BY <1>6, WakeFirstRuns
<1> QED
  BY <1>3, <1>4, <1>5, <1>7

(* What the calls do to a ring. *)
LEMMA RingTypes ==
    ASSUME Rings, NEW q \in Queues
    PROVE  /\ Count[q] \in Nat /\ Count[q] > 0 /\ first[q] \in Nat /\ valid[q] \in Nat
           /\ valid[q] <= Count[q] /\ first[q] < Count[q]
           /\ valid \in [Queues -> Nat] /\ first \in [Queues -> Nat]
           /\ slot = [p \in Queues |-> slot[p]]
           /\ \A p \in Queues : /\ slot[p] \in [0 .. Count[p] - 1 -> Msgs \cup {EventMsg}]
                                /\ first[p] \in 0 .. Count[p] - 1
                                /\ valid[p] \in 0 .. Count[p]
<1>1. Count[q] \in Nat /\ Count[q] > 0
  BY KernelAssumption
<1>2. /\ valid \in [Queues -> Nat] /\ first \in [Queues -> Nat]
      /\ slot = [p \in Queues |-> slot[p]]
      /\ \A p \in Queues : /\ slot[p] \in [0 .. Count[p] - 1 -> Msgs \cup {EventMsg}]
                           /\ first[p] \in 0 .. Count[p] - 1
                           /\ valid[p] \in 0 .. Count[p]
  BY DEF Rings
<1> QED
  BY <1>1, <1>2

LEMMA RingAdd ==
    ASSUME Rings, NEW q \in Queues, NEW m \in Msgs \cup {EventMsg}, ~IsFull(q), UNCHANGED first,
           slot' = [slot EXCEPT ![q][Rear(q)] = m], valid' = [valid EXCEPT ![q] = @ + 1]
    PROVE  Rings' /\ Rear(q) \in 0 .. Count[q] - 1
<1>1. /\ Count[q] \in Nat /\ Count[q] > 0 /\ first[q] \in Nat /\ valid[q] \in Nat
      /\ valid[q] < Count[q] /\ valid \in [Queues -> Nat] /\ first \in [Queues -> Nat]
      /\ slot = [p \in Queues |-> slot[p]]
      /\ \A p \in Queues : /\ slot[p] \in [0 .. Count[p] - 1 -> Msgs \cup {EventMsg}]
                           /\ first[p] \in 0 .. Count[p] - 1
                           /\ valid[p] \in 0 .. Count[p]
  BY RingTypes DEF IsFull
<1>2. Rear(q) \in 0 .. Count[q] - 1
  BY <1>1 DEF Rear
<1>3. /\ valid' \in [Queues -> Nat] /\ valid'[q] = valid[q] + 1
      /\ \A p \in Queues \ {q} : valid'[p] = valid[p]
  BY <1>1
<1> DEFINE n == [slot[q] EXCEPT ![Rear(q)] = m]
<1>4. n \in [0 .. Count[q] - 1 -> Msgs \cup {EventMsg}]
  BY <1>1
<1>5. slot' = [p \in Queues |-> IF p = q THEN n ELSE slot[p]]
  BY <1>1
<1> HIDE DEF n
<1>6. slot' = [p \in Queues |-> slot'[p]]
  BY <1>5
<1>7. \A p \in Queues : slot'[p] \in [0 .. Count[p] - 1 -> Msgs \cup {EventMsg}]
  BY <1>1, <1>4, <1>5
<1>8. \A p \in Queues : valid'[p] \in 0 .. Count[p]
  BY <1>1, <1>3
<1> QED
  BY <1>1, <1>2, <1>3, <1>6, <1>7, <1>8 DEF Rings

LEMMA RingJam ==
    ASSUME Rings, NEW q \in Queues, NEW m \in Msgs, ~IsFull(q),
           first' = [first EXCEPT ![q] = (@ + Count[q] - 1) % Count[q]],
           slot' = [slot EXCEPT ![q][first'[q]] = m], valid' = [valid EXCEPT ![q] = @ + 1]
    PROVE  Rings'
<1>1. /\ Count[q] \in Nat /\ Count[q] > 0 /\ first[q] \in Nat /\ valid[q] \in Nat
      /\ valid[q] < Count[q] /\ valid \in [Queues -> Nat] /\ first \in [Queues -> Nat]
      /\ slot = [p \in Queues |-> slot[p]]
      /\ \A p \in Queues : /\ slot[p] \in [0 .. Count[p] - 1 -> Msgs \cup {EventMsg}]
                           /\ first[p] \in 0 .. Count[p] - 1
                           /\ valid[p] \in 0 .. Count[p]
  BY RingTypes DEF IsFull
<1>2. (first[q] + Count[q] - 1) % Count[q] \in 0 .. Count[q] - 1
  BY <1>1
<1>3. /\ first' \in [Queues -> Nat] /\ first'[q] \in 0 .. Count[q] - 1
      /\ \A p \in Queues \ {q} : first'[p] = first[p]
  BY <1>1, <1>2
<1>4. /\ valid' \in [Queues -> Nat] /\ valid'[q] = valid[q] + 1
      /\ \A p \in Queues \ {q} : valid'[p] = valid[p]
  BY <1>1
<1> DEFINE f == first'
           n == [slot[q] EXCEPT ![f[q]] = m]
<1>5. n \in [0 .. Count[q] - 1 -> Msgs \cup {EventMsg}]
  BY <1>1
<1>6. slot' = [p \in Queues |-> IF p = q THEN n ELSE slot[p]]
  BY <1>1
<1> HIDE DEF n
<1>7. slot' = [p \in Queues |-> slot'[p]]
  BY <1>6
<1>8. \A p \in Queues : slot'[p] \in [0 .. Count[p] - 1 -> Msgs \cup {EventMsg}]
  BY <1>1, <1>5, <1>6
<1>9. \A p \in Queues : valid'[p] \in 0 .. Count[p] /\ first'[p] \in 0 .. Count[p] - 1
  BY <1>1, <1>3, <1>4
<1> QED
  BY <1>3, <1>4, <1>7, <1>8, <1>9 DEF Rings

LEMMA RingTake ==
    ASSUME Rings, NEW q \in Queues, ~IsEmpty(q), UNCHANGED slot,
           first' = [first EXCEPT ![q] = (@ + 1) % Count[q]],
           valid' = [valid EXCEPT ![q] = @ - 1]
    PROVE  Rings'
<1>1. /\ Count[q] \in Nat /\ Count[q] > 0 /\ first[q] \in Nat /\ valid[q] \in Nat
      /\ valid[q] # 0 /\ valid \in [Queues -> Nat] /\ first \in [Queues -> Nat]
      /\ \A p \in Queues : /\ first[p] \in 0 .. Count[p] - 1
                           /\ valid[p] \in 0 .. Count[p]
  BY RingTypes DEF IsEmpty
<1>2. (first[q] + 1) % Count[q] \in 0 .. Count[q] - 1
  BY <1>1
<1>3. /\ first' \in [Queues -> Nat] /\ first'[q] \in 0 .. Count[q] - 1
      /\ \A p \in Queues \ {q} : first'[p] = first[p]
  BY <1>1, <1>2
<1>4. /\ valid' \in [Queues -> Nat] /\ valid'[q] = valid[q] - 1
      /\ \A p \in Queues \ {q} : valid'[p] = valid[p]
  BY <1>1
<1>5. \A p \in Queues : valid'[p] \in 0 .. Count[p] /\ first'[p] \in 0 .. Count[p] - 1
  BY <1>1, <1>3, <1>4
<1> QED
  BY <1>3, <1>4, <1>5 DEF Rings

-----------------------------------------------------------------------------
(* The actions. *)

LEMMA SendStep ==
    ASSUME KernelInv, NEW q \in Queues, NEW m \in Msgs, SendMesg(q, m)
    PROVE  KernelInv'
<1> DEFINE c == [op |-> "send", q |-> q, msg |-> m]
<1>1. c \in Calls /\ WaitsIn(c) = FullQueue(q) /\ InCall(c)
  BY DEF SendMesg, Calls, WaitsIn
<1>2. r # NoThread /\ call[r] \in {NoCall, c}
  BY <1>1 DEF InCall
<1>3. Rings
  BY DEF KernelInv
<1>4. CASE IsFull(q) /\ Block(c, FullQueue(q))
  <2>1. Count[q] - valid[q] <= 0
    BY <1>3, <1>4, RingTypes DEF IsFull
  <2> HIDE DEF c
  <2> QED
    BY <1>1, <1>2, <1>4, <2>1, BlockStep
<1>5. CASE /\ ~IsFull(q)
           /\ slot' = [slot EXCEPT ![q][Rear(q)] = m]
           /\ valid' = [valid EXCEPT ![q] = @ + 1]
           /\ Done(MtQueue(q))
           /\ UNCHANGED first
  <2>1. Rings'
    BY <1>3, <1>5, RingAdd
  <2>2. /\ Runs(os', call') /\ Calm(os, os', call') /\ WokenOne(os, os', call', MtQueue(q))
        /\ Calling'
        /\ \A t \in Threads \ {r} : call'[t] = call[t]
    BY <1>2, <1>5, DoneStep, ListNames
  <2>3. call[r] = NoCall \/ WaitsIn(call[r]) = FullQueue(q)
    BY <1>1, <1>2
  <2>4. NobodyForgotten'
    BY <1>5, <2>2, <2>3, OneMore
  <2>5. (Runs(os, call))'
    BY <2>2
  <2> QED
    BY <2>1, <2>2, <2>4, <2>5 DEF KernelInv
<1> QED
  BY <1>4, <1>5 DEF SendMesg

LEMMA JamStep ==
    ASSUME KernelInv, NEW q \in Queues, NEW m \in Msgs, JamMesg(q, m)
    PROVE  KernelInv'
<1> DEFINE c == [op |-> "jam", q |-> q, msg |-> m]
<1>1. c \in Calls /\ WaitsIn(c) = FullQueue(q) /\ InCall(c)
  BY DEF JamMesg, Calls, WaitsIn
<1>2. r # NoThread /\ call[r] \in {NoCall, c}
  BY <1>1 DEF InCall
<1>3. Rings
  BY DEF KernelInv
<1>4. CASE IsFull(q) /\ Block(c, FullQueue(q))
  <2>1. Count[q] - valid[q] <= 0
    BY <1>3, <1>4, RingTypes DEF IsFull
  <2> HIDE DEF c
  <2> QED
    BY <1>1, <1>2, <1>4, <2>1, BlockStep
<1>5. CASE /\ ~IsFull(q)
           /\ first' = [first EXCEPT ![q] = (@ + Count[q] - 1) % Count[q]]
           /\ slot' = [slot EXCEPT ![q][first'[q]] = m]
           /\ valid' = [valid EXCEPT ![q] = @ + 1]
           /\ Done(MtQueue(q))
  <2>1. Rings'
    BY <1>3, <1>5, RingJam
  <2>2. /\ Runs(os', call') /\ Calm(os, os', call') /\ WokenOne(os, os', call', MtQueue(q))
        /\ Calling'
        /\ \A t \in Threads \ {r} : call'[t] = call[t]
    BY <1>2, <1>5, DoneStep, ListNames
  <2>3. call[r] = NoCall \/ WaitsIn(call[r]) = FullQueue(q)
    BY <1>1, <1>2
  <2>4. NobodyForgotten'
    BY <1>5, <2>2, <2>3, OneMore
  <2>5. (Runs(os, call))'
    BY <2>2
  <2> QED
    BY <2>1, <2>2, <2>4, <2>5 DEF KernelInv
<1> QED
  BY <1>4, <1>5 DEF JamMesg

LEMMA RecvStep ==
    ASSUME KernelInv, NEW q \in Queues, RecvMesg(q)
    PROVE  KernelInv'
<1> DEFINE c == [op |-> "recv", q |-> q]
<1>1. c \in Calls /\ WaitsIn(c) = MtQueue(q) /\ InCall(c)
  BY DEF RecvMesg, Calls, WaitsIn
<1>2. r # NoThread /\ call[r] \in {NoCall, c}
  BY <1>1 DEF InCall
<1>3. Rings
  BY DEF KernelInv
<1>4. CASE IsEmpty(q) /\ Block(c, MtQueue(q))
  <2>1. valid[q] <= 0
    BY <1>4 DEF IsEmpty
  <2> HIDE DEF c
  <2> QED
    BY <1>1, <1>2, <1>4, <2>1, BlockStep
<1>5. CASE /\ ~IsEmpty(q)
           /\ first' = [first EXCEPT ![q] = (@ + 1) % Count[q]]
           /\ valid' = [valid EXCEPT ![q] = @ - 1]
           /\ Done(FullQueue(q))
           /\ UNCHANGED slot
  <2>1. Rings'
    BY <1>3, <1>5, RingTake
  <2>2. /\ Runs(os', call') /\ Calm(os, os', call') /\ WokenOne(os, os', call', FullQueue(q))
        /\ Calling'
        /\ \A t \in Threads \ {r} : call'[t] = call[t]
    BY <1>2, <1>5, DoneStep, ListNames
  <2>3. call[r] = NoCall \/ WaitsIn(call[r]) = MtQueue(q)
    BY <1>1, <1>2
  <2>4. NobodyForgotten'
    BY <1>5, <2>2, <2>3, OneLess
  <2>5. (Runs(os, call))'
    BY <2>2
  <2> QED
    BY <2>1, <2>2, <2>4, <2>5 DEF KernelInv
<1> QED
  BY <1>4, <1>5 DEF RecvMesg

(* An exception that posts an event. *)
LEMMA EventStep ==
    ASSUME KernelInv, r # NoThread, call[r] = NoCall, SendEvent, UNCHANGED <<call, event>>,
           Runs(os', call), Calm(os, os', call),
           Taken => WokenOne(os, os', call, MtQueue(event))
    PROVE  KernelInv'
<1>1. Calling' /\ Rings
  BY DEF KernelInv, Calling
<1>2. CASE Taken
  <2>1. event \in Queues /\ ~IsFull(event)
    BY <1>2 DEF Taken, KernelInv, Calling
  <2>2. /\ slot' = [slot EXCEPT ![event][Rear(event)] = EventMsg]
        /\ valid' = [valid EXCEPT ![event] = @ + 1] /\ UNCHANGED first
    BY <1>2 DEF SendEvent
  <2>3. Rings'
    BY <1>1, <2>1, <2>2, RingAdd
  <2>4. /\ Calm(os, os', call') /\ WokenOne(os, os', call', MtQueue(event))
        /\ \A t \in Threads \ {r} : call'[t] = call[t]
    BY <1>2
  <2>5. NobodyForgotten'
    BY <2>1, <2>2, <2>4, OneMore
  <2>6. (Runs(os, call))'
    OBVIOUS
  <2> QED
    BY <1>1, <2>3, <2>5, <2>6 DEF KernelInv
<1>3. CASE ~Taken
  <2>1. UNCHANGED <<call, mesgs>>
    BY <1>3 DEF SendEvent, mesgs
  <2>2. event' \in Queues \cup {NoQueue}
    BY <1>1 DEF Calling
  <2> QED
    BY <2>1, <2>2, ControlStep
<1> QED
  BY <1>2, <1>3

LEMMA KernelStep ==
    ASSUME KernelInv, [Next]_vars
    PROVE  KernelInv'
<1>1. event \in Queues \cup {NoQueue} /\ call[Idle] = NoCall
  BY DEF KernelInv, Calling
<1>2. ASSUME Enabled
      PROVE  Runs(os, call) /\ r # NoThread /\ call[r] = NoCall
  BY <1>2 DEF Enabled, KernelInv, Booting
<1>3. ASSUME NEW k, Control(k), Runs(k, call), Calm(os, k, call)
      PROVE  KernelInv'
  <2>1. os' = k /\ UNCHANGED <<call, mesgs>> /\ event' = event
    BY <1>3 DEF Control
  <2> QED
    BY <1>1, <1>3, <2>1, ControlStep
<1>4. CASE Boot
  <2>1. /\ Sched(os, call, {NoThread}) /\ os.running = NoThread
        /\ os.state[Idle] = "stopped" /\ os.onq[Idle] = NoList
    <3>1. ~Runs(os, call)
      BY <1>4, KernelAssumption DEF Boot, Runs, Goes, r
    <3> QED
      BY <3>1 DEF KernelInv, Booting, r
  <2>2. Runs(StartThread(os, Idle), call) /\ Calm(os, StartThread(os, Idle), call)
    BY <2>1, BootRuns
  <2>3. os' = StartThread(os, Idle) /\ UNCHANGED <<call, mesgs>> /\ event' = event
    BY <1>4 DEF Boot
  <2> QED
    BY <1>1, <2>2, <2>3, ControlStep
<1>5. ASSUME NEW q \in Queues, NEW m \in Msgs, SendMesg(q, m) \/ JamMesg(q, m)
      PROVE  KernelInv'
  BY <1>5, SendStep, JamStep
<1>6. ASSUME NEW q \in Queues, RecvMesg(q)
      PROVE  KernelInv'
  BY <1>6, RecvStep
<1>7. ASSUME NEW q \in Queues, SetEventMesg(q)
      PROVE  KernelInv'
  <2>1. Runs(os, call) /\ UNCHANGED <<os, call, mesgs>> /\ event' = q
    BY <1>2, <1>7 DEF SetEventMesg
  <2>2. Runs(os', call) /\ Calm(os, os', call)
    BY <2>1 DEF Calm
  <2> QED
    BY <2>1, <2>2, ControlStep
<1>8. ASSUME NEW t \in Threads, StartStopped(t)
      PROVE  KernelInv'
  <2>1. Enabled /\ os.state[t] = "stopped" /\ Control(StartThread(os, t))
    BY <1>8 DEF StartStopped, Control
  <2>2. Goes(os, call)
    BY <1>2, <2>1 DEF Runs
  <2>3. Runs(StartThread(os, t), call) /\ Calm(os, StartThread(os, t), call)
    BY <2>1, <2>2, StartStoppedRuns
  <2> QED
    BY <1>3, <2>1, <2>3
<1>9. ASSUME NEW t \in Threads, StopThread(t)
      PROVE  KernelInv'
  <2>1. CASE t = r /\ Control(DispatchThread([os EXCEPT !.state[t] = "stopped"]))
    <3> DEFINE k == DispatchThread([os EXCEPT !.state[os.running] = "stopped"])
    <3>1. Enabled /\ t # Idle /\ Control(k)
      BY <1>9, <2>1 DEF StopThread, Control, r
    <3>2. Runs(k, call) /\ Calm(os, k, call)
      BY <1>2, <2>1, <3>1, StopSelfRuns DEF r
    <3> QED
      BY <1>3, <3>1, <3>2
  <2>2. CASE /\ os.state[t] \in {"runnable", "waiting"}
             /\ Control(DequeueThread([os EXCEPT !.state[t] = "stopped"], os.onq[t], t))
    <3> DEFINE k == DequeueThread([os EXCEPT !.state[t] = "stopped"], os.onq[t], t)
    <3>1. Enabled /\ t # Idle
      BY <1>9, <2>2 DEF StopThread, Control
    <3>2. Runs(k, call) /\ Calm(os, k, call)
      BY <1>2, <2>2, <3>1, StopRuns
    <3> QED
      BY <1>3, <2>2, <3>2
  <2> QED
    BY <1>9, <2>1, <2>2 DEF StopThread
<1>10. ASSUME NEW t \in Threads, DestroyThread(t)
       PROVE  KernelInv'
  <2> DEFINE k == Release(IF os.state[t] = "stopped" THEN os
                          ELSE DequeueThread(os, os.onq[t], t), t)
  <2>1. /\ t \notin {os.running, Idle} /\ os.state[t] # "none" /\ call[t] = NoCall
        /\ Control(k) /\ Enabled
    BY <1>10 DEF DestroyThread, Control, r
  <2>2. Runs(k, call) /\ Calm(os, k, call)
    BY <1>2, <2>1, DestroyRuns
  <2> QED
    BY <1>3, <2>1, <2>2
<1>11. ASSUME NEW t \in Threads, NEW p \in Pris \cup {IdlePri}, SetThreadPri(t, p)
       PROVE  KernelInv'
  <2> DEFINE w == [os EXCEPT !.pri[t] = p]
             k == Preempt(IF t # os.running /\ os.state[t] # "stopped" THEN Reorder(w, t) ELSE w)
  <2>1. os.state[t] # "none" /\ Control(k) /\ Enabled
    BY <1>11 DEF SetThreadPri, Control, r
  <2>2. Goes(os, call)
    BY <1>2, <2>1 DEF Runs
  <2>3. Runs(k, call) /\ Calm(os, k, call)
    BY <2>1, <2>2, SetThreadPriRuns
  <2> QED
    BY <1>3, <2>1, <2>3
<1>12. ASSUME NEW t \in Threads, NEW p \in Pris, CreateThread(t, p)
       PROVE  KernelInv'
  <2> DEFINE k == [os EXCEPT !.state[t] = "stopped", !.pri[t] = p, !.onq[t] = NoList]
  <2>1. os.state[t] = "none" /\ Control(k) /\ Enabled
    BY <1>12 DEF CreateThread, Control
  <2>2. Runs(k, call) /\ Calm(os, k, call)
    BY <1>2, <2>1, CreateRuns
  <2> HIDE DEF k
  <2> QED
    BY <1>3, <2>1, <2>2
<1>13. CASE DestroySelf
  <2> DEFINE k == DispatchThread(Release(os, os.running))
  <2>1. Enabled /\ os.running # Idle /\ Control(k)
    BY <1>13 DEF DestroySelf, Control, r
  <2>2. Runs(k, call) /\ Calm(os, k, call)
    BY <1>2, <2>1, DestroySelfRuns DEF r
  <2> QED
    BY <1>3, <2>1, <2>2
<1>14. CASE YieldThread
  <2>1. Enabled /\ Control(EnqueueAndYield(os, "runnable", RunQueue))
    BY <1>14 DEF YieldThread, Control
  <2>2. Goes(os, call)
    BY <1>2, <2>1 DEF Runs
  <2> QED
    BY <1>3, <2>1, <2>2, YieldCalm
<1>15. CASE Interrupt
  <2> DEFINE k == Redispatch(Posted([os EXCEPT !.state[os.running] = "runnable"]))
  <2>1. Enabled /\ SendEvent /\ os' = k /\ UNCHANGED <<call, event>>
    BY <1>15 DEF Interrupt, r
  <2>2. Runs(k, call) /\ Calm(os, k, call) /\ (Taken => WokenOne(os, k, call, MtQueue(event)))
    BY <1>1, <1>2, <2>1, InterruptRuns
  <2> HIDE DEF k
  <2> QED
    BY <1>2, <2>1, <2>2, EventStep
<1>16. CASE Panic
  <2> DEFINE k == DispatchThread(Posted([os EXCEPT !.state[os.running] = "stopped"]))
  <2>1. Enabled /\ os.running # Idle /\ SendEvent /\ os' = k /\ UNCHANGED <<call, event>>
    BY <1>16 DEF Panic, r
  <2>2. Runs(k, call) /\ Calm(os, k, call) /\ (Taken => WokenOne(os, k, call, MtQueue(event)))
    BY <1>1, <1>2, <2>1, PanicRuns DEF r
  <2> HIDE DEF k
  <2> QED
    BY <1>2, <2>1, <2>2, EventStep
<1>17. CASE UNCHANGED vars
  BY <1>17 DEF vars, mesgs, KernelInv, Rings, Calling, Booting, NobodyForgotten, r
<1> QED
  BY <1>4, <1>5, <1>6, <1>7, <1>8, <1>9, <1>10, <1>11, <1>12, <1>13, <1>14, <1>15, <1>16,
     <1>17 DEF Next

-----------------------------------------------------------------------------
(* The theorems. *)

LEMMA InitInv ==
    ASSUME Init
    PROVE  KernelInv
<1>1. PICK p \in Pris :
         os = [running |-> NoThread,
               state   |-> [t \in Threads |-> IF t = Idle THEN "stopped" ELSE "none"],
               pri     |-> [t \in Threads |-> IF t = Idle THEN p ELSE IdlePri],
               onq     |-> [t \in Threads |-> NoList],
               list    |-> [l \in Lists |-> <<>>]]
  BY DEF Init
<1>2. /\ IsSched(os) /\ os.running = NoThread
      /\ os.state = [t \in Threads |-> IF t = Idle THEN "stopped" ELSE "none"]
      /\ os.pri = [t \in Threads |-> IF t = Idle THEN p ELSE IdlePri]
      /\ os.onq = [t \in Threads |-> NoList]
      /\ os.list = [l \in Lists |-> <<>>]
  BY <1>1 DEF IsSched
<1>3. Typed(os.state, os.pri, os.onq, os.list)
  <2>1. os.list \in [Lists -> Seq(Threads)]
    BY <1>2
  <2> QED
    BY <1>2, <2>1 DEF Typed, States
<1>4. call = [t \in Threads |-> NoCall]
  BY DEF Init
<1>5. ASSUME NEW l \in Lists
      PROVE  os.list[l] = <<>>
  BY <1>2
<1>6. \A l \in Lists : ~Waiting(os, l) /\ \A t : ~In(t, os.list[l])
  BY <1>5 DEF Waiting, In
<1>7. Ordered(<<>>, os.pri)
  BY DEF Ordered, InOrder, IsInjective
<1>8. ASSUME NEW t \in Threads
      PROVE  Placed(t, os.state, os.onq, os.list, call)
  BY <1>2, <1>4 DEF Placed
<1>9. Booting
  <2>1. Queued(os.state, os.pri, os.onq, os.list, call, {NoThread})
    BY <1>3, <1>5, <1>6, <1>7, <1>8 DEF Queued
  <2>2. os.state[Idle] = "stopped" /\ os.onq[Idle] = NoList
    BY <1>2, KernelAssumption
  <2> QED
    BY <1>2, <2>1, <2>2 DEF Booting, Sched, r
<1>10. Rings
  <2>1. PICK m \in Msgs : slot = [q \in Queues |-> [i \in 0 .. Count[q] - 1 |-> m]]
    BY DEF Init
  <2>2. \A q \in Queues : slot[q] \in [0 .. Count[q] - 1 -> Msgs \cup {EventMsg}]
    BY <2>1
  <2>3. slot = [q \in Queues |-> slot[q]]
    BY <2>1
  <2>4. first = [q \in Queues |-> 0] /\ valid = [q \in Queues |-> 0]
    BY DEF Init
  <2> QED
    BY <2>2, <2>3, <2>4, KernelAssumption DEF Rings
<1>11. Calling
  BY <1>4, KernelAssumption DEF Init, Calling
<1>12. NobodyForgotten
  <2>1. \A q \in Queues : MtQueue(q) \in Lists /\ FullQueue(q) \in Lists
    BY ListNames
  <2> QED
    BY <1>6, <2>1 DEF NobodyForgotten, Enough
<1> QED
  BY <1>9, <1>10, <1>11, <1>12 DEF KernelInv

(* Between any two steps: the queues of threads are in order and hold exactly
   those that are ready or wait, the one with the highest priority runs, and
   nobody waits for what is already there.                                    *)
THEOREM KernelInvariant == Spec => []KernelInv
<1>1. Init => KernelInv
  BY InitInv
<1>2. KernelInv /\ [Next]_vars => KernelInv'
  BY KernelStep
<1> QED
  BY <1>1, <1>2, PTL DEF Spec

LEMMA SchedOfInv ==
    ASSUME KernelInv
    PROVE  /\ Sched(os, call, {r}) /\ os \in Scheduler
           /\ r # NoThread => Runs(os, call)
<1>1. Sched(os, call, {r})
  BY DEF KernelInv, Booting, Runs, Goes, r
<1>2. IsSched(os) /\ Typed(os.state, os.pri, os.onq, os.list) /\ os.running \in Threads \cup {NoThread}
  BY <1>1 DEF Sched, Queued, KernelInv, Booting, Runs, Goes, r
<1>3. os \in Scheduler
  <2> DEFINE e == [running |-> os.running, state |-> os.state, pri |-> os.pri,
                   onq |-> os.onq, list |-> os.list]
  <2>1. e \in Scheduler
    BY <1>2 DEF Scheduler, Typed
  <2> QED
    BY <1>2, <2>1 DEF IsSched
<1> QED
  BY <1>1, <1>3 DEF KernelInv, Booting

(* thread.c, exceptasm.s, startthread.c, stopthread.c: ThreadsQueued, whatever
   the threads, their priorities and the queues.                              *)
THEOREM KernelThreadsQueued == Spec => []ThreadsQueued
<1>1. KernelInv => ThreadsQueued
  <2> SUFFICES ASSUME KernelInv
               PROVE  ThreadsQueued
    OBVIOUS
  <2>1. /\ Sched(os, call, {r}) /\ os \in Scheduler
        /\ r # NoThread => Runs(os, call)
    BY SchedOfInv
  <2>2. Queued(os.state, os.pri, os.onq, os.list, call, {r})
    BY <2>1 DEF Sched
  <2>3. TypeOK
    BY <2>1 DEF KernelInv, Rings, Calling, TypeOK
  <2>4. \A l \in Lists : IsInjective(os.list[l])
    BY <2>2 DEF Queued, Ordered
  <2>5. ASSUME NEW t \in Threads, NEW l \in Lists, Member(t, l)
        PROVE  /\ os.onq[t] = l
               /\ os.state[t] \in {"runnable", "waiting"}
               /\ l # RunQueue => os.state[t] = "waiting" /\ l = WaitsIn(call[t])
    <3>1. In(t, os.list[l])
      BY <2>5 DEF Member, In
    <3>2. Belongs(t, l, os.state, os.onq, {r})
      BY <2>2, <3>1 DEF Queued
    <3>3. Placed(t, os.state, os.onq, os.list, call)
      BY <2>2, <3>2 DEF Queued, Belongs
    <3>4. l # NoList
      BY KernelAssumption DEF Lists, RunQueue, MtQueue, FullQueue, NoList
    <3> QED
      BY <3>2, <3>3, <3>4 DEF Belongs, Placed
  <2>6. ASSUME NEW t \in Threads, os.state[t] \in {"runnable", "waiting"}
        PROVE  Member(t, os.onq[t])
    <3>1. t # r
      BY <2>1, <2>6, KernelAssumption DEF Runs, Goes, r
    <3>2. Placed(t, os.state, os.onq, os.list, call)
      BY <2>2, <3>1 DEF Queued
    <3> QED
      BY <2>6, <3>2 DEF Placed, In, Member
  <2>7. r # NoThread => os.state[r] = "running" /\ os.onq[r] = RunQueue
    BY <2>1 DEF Runs, Goes, r
  <2> QED
    BY <2>3, <2>4, <2>5, <2>6, <2>7 DEF ThreadsQueued
<1> QED
  BY <1>1, KernelInvariant, PTL

(* setthreadpri.c, startthread.c, exceptasm.s: HighestRuns, for any number of
   threads and queues.                                                        *)
THEOREM KernelHighestRuns == Spec => []HighestRuns
<1>1. KernelInv => HighestRuns
  <2> SUFFICES ASSUME KernelInv
               PROVE  HighestRuns
    OBVIOUS
  <2>1. /\ Sched(os, call, {r}) /\ (r # NoThread => Runs(os, call))
    BY SchedOfInv
  <2>2. ASSUME NEW l \in Lists, NEW i \in 1 .. Len(os.list[l]) - 1
        PROVE  os.pri[os.list[l][i]] >= os.pri[os.list[l][i + 1]]
    <3> DEFINE s == os.list[l]
    <3>1. s \in Seq(Threads) /\ InOrder(s, os.pri)
      BY <2>1 DEF Sched, Queued, Ordered
    <3> HIDE DEF s
    <3>2. Len(s) \in Nat /\ i \in 1 .. Len(s) - 1
      BY <3>1, LenProperties DEF s
    <3>3. i \in 1 .. Len(s) /\ i + 1 \in 1 .. Len(s) /\ i < i + 1
      BY <3>2
    <3>4. os.pri[s[i]] >= os.pri[s[i + 1]]
      BY <3>1, <3>3 DEF InOrder
    <3> QED
      BY <3>4 DEF s
  <2>3. ASSUME r # NoThread, NEW t \in Threads, Member(t, RunQueue)
        PROVE  os.pri[t] <= os.pri[r]
    BY <2>1, <2>3 DEF Runs, Highest, Member, In, r
  <2> QED
    BY <2>2, <2>3 DEF HighestRuns
<1> QED
  BY <1>1, KernelInvariant, PTL

(* recvmesg.c, sendmesg.c, jammesg.c, exceptasm.s: NoLostWakeup, however long the
   queues and whoever stops, starts or destroys whom.                         *)
THEOREM KernelNoLostWakeup == Spec => []NoLostWakeup
<1>1. KernelInv => NoLostWakeup
  BY DEF KernelInv, NobodyForgotten, NoLostWakeup, Enough, Looking, Woken
<1> QED
  BY <1>1, KernelInvariant, PTL

-----------------------------------------------------------------------------
(* What a ring holds. *)

Ring(s, f, v, n) == [i \in 1 .. v |-> s[(f + i - 1) % n]]

\* A ring of n places: v messages from place f on.
IsRing(s, f, v, n) ==
    /\ n \in Nat /\ n > 0
    /\ s \in [0 .. n - 1 -> Msgs \cup {EventMsg}] /\ f \in 0 .. n - 1 /\ v \in 0 .. n

\* s, with m in place i.
Written(s, i, m) == [s EXCEPT ![i] = m]

LEMMA Around ==
    ASSUME NEW n \in Nat, n > 0, NEW x \in Nat
    PROVE  /\ x < n => x % n = x
           /\ x >= n /\ x < 2 * n => x % n = x - n
OBVIOUS

LEMMA RingSeq ==
    ASSUME NEW s, NEW f, NEW v, NEW n, IsRing(s, f, v, n)
    PROVE  /\ Ring(s, f, v, n) \in Seq(Msgs \cup {EventMsg})
           /\ Len(Ring(s, f, v, n)) = v
<1> DEFINE M == Msgs \cup {EventMsg}
           x == Ring(s, f, v, n)
<1>1. ASSUME NEW i \in 1 .. v
      PROVE  s[(f + i - 1) % n] \in M
  <2>1. (f + i - 1) % n \in 0 .. n - 1
    BY DEF IsRing
  <2> QED
    BY <2>1 DEF IsRing
<1>2. x \in [1 .. v -> M] /\ v \in Nat
  BY <1>1 DEF Ring, IsRing
<1> HIDE DEF x
<1>3. x \in Seq(M) /\ Len(x) = v
  BY <1>2
<1> QED
  BY <1>3 DEF x

LEMMA RingAppend ==
    ASSUME NEW s, NEW f, NEW v, NEW n, IsRing(s, f, v, n), v < n, NEW m \in Msgs \cup {EventMsg}
    PROVE  Ring(Written(s, (f + v) % n, m), f, v + 1, n) = Append(Ring(s, f, v, n), m)
<1> DEFINE e == (f + v) % n
           s2 == [s EXCEPT ![e] = m]
           x == Ring(s, f, v, n)
<1>1. /\ n \in Nat /\ n > 0 /\ f \in Nat /\ f < n /\ v \in Nat
      /\ s \in [0 .. n - 1 -> Msgs \cup {EventMsg}]
  BY DEF IsRing
<1>2. x \in Seq(Msgs \cup {EventMsg}) /\ Len(x) = v
  BY RingSeq
<1>3. e \in 0 .. n - 1 /\ e = IF f + v < n THEN f + v ELSE f + v - n
  BY <1>1, Around
<1>4. ASSUME NEW i \in 1 .. v
      PROVE  (f + i - 1) % n \in 0 .. n - 1 /\ (f + i - 1) % n # e
  <2> DEFINE y == f + i - 1
  <2>1. y \in Nat /\ y < 2 * n /\ y < f + v /\ f + v < n + y
    BY <1>1
  <2> HIDE DEF y
  <2>2. y % n = IF y < n THEN y ELSE y - n
    BY <1>1, <2>1, Around
  <2> QED
    BY <1>1, <1>3, <2>1, <2>2 DEF y
<1>5. \A i \in 1 .. v : s2[(f + i - 1) % n] = s[(f + i - 1) % n]
  BY <1>1, <1>4
<1>6. s2[(f + (v + 1) - 1) % n] = m
  <2>1. f + (v + 1) - 1 = f + v
    BY <1>1
  <2>2. s2[e] = m
    BY <1>1, <1>3
  <2> QED
    BY <2>1, <2>2
<1>7. \A i \in 1 .. v : x[i] = s[(f + i - 1) % n]
  BY DEF Ring
<1> HIDE DEF x, s2
<1>8. Append(x, m) = [i \in 1 .. v + 1 |-> IF i = v + 1 THEN m ELSE x[i]]
  <2> DEFINE z == Append(x, m)
  <2>1. z \in Seq(Msgs \cup {EventMsg}) /\ Len(z) = v + 1
    BY <1>2
  <2>2. z[v + 1] = m /\ \A i \in 1 .. v : z[i] = x[i]
    BY <1>2
  <2> HIDE DEF z
  <2>3. z = [i \in 1 .. v + 1 |-> z[i]]
    BY <2>1, LenProperties
  <2>4. \A i \in 1 .. v + 1 : z[i] = IF i = v + 1 THEN m ELSE x[i]
    BY <1>1, <2>2
  <2> QED
    BY <2>3, <2>4 DEF z
<1>9. ASSUME NEW i \in 1 .. v + 1
      PROVE  s2[(f + i - 1) % n] = IF i = v + 1 THEN m ELSE x[i]
  <2>1. CASE i = v + 1
    BY <1>6, <2>1
  <2>2. CASE i # v + 1
    <3>1. i \in 1 .. v
      BY <1>1, <2>2
    <3> QED
      BY <1>5, <1>7, <2>2, <3>1
  <2> QED
    BY <2>1, <2>2
<1>10. Ring(s2, f, v + 1, n) = [i \in 1 .. v + 1 |-> IF i = v + 1 THEN m ELSE x[i]]
  BY <1>9 DEF Ring
<1> QED
  BY <1>8, <1>10 DEF s2, x, Written

LEMMA RingPrepend ==
    ASSUME NEW s, NEW f, NEW v, NEW n, IsRing(s, f, v, n), v < n, NEW m \in Msgs \cup {EventMsg}
    PROVE  LET g == (f + n - 1) % n
           IN  Ring(Written(s, g, m), g, v + 1, n) = <<m>> \o Ring(s, f, v, n)
<1> DEFINE g == (f + n - 1) % n
           s2 == [s EXCEPT ![g] = m]
           x == Ring(s, f, v, n)
           z == <<m>> \o x
<1>1. /\ n \in Nat /\ n > 0 /\ f \in Nat /\ f < n /\ v \in Nat
      /\ s \in [0 .. n - 1 -> Msgs \cup {EventMsg}]
  BY DEF IsRing
<1>2. x \in Seq(Msgs \cup {EventMsg}) /\ Len(x) = v
  BY RingSeq
<1>3. g \in 0 .. n - 1 /\ g = IF f = 0 THEN n - 1 ELSE f - 1
  <2> DEFINE y == f + n - 1
  <2>1. y \in Nat /\ y < 2 * n
    BY <1>1
  <2>2. y % n = IF y < n THEN y ELSE y - n
    BY <1>1, <2>1, Around
  <2> QED
    BY <1>1, <2>2
<1> HIDE DEF g
<1>4. ASSUME NEW i \in 1 .. v
      PROVE  /\ (g + (i + 1) - 1) % n = (f + i - 1) % n
             /\ (f + i - 1) % n \in 0 .. n - 1 /\ (f + i - 1) % n # g
  <2> DEFINE y == f + i - 1
             w == g + (i + 1) - 1
  <2>1. y \in Nat /\ y < 2 * n /\ w \in Nat /\ w < 2 * n /\ w = g + i
    BY <1>1, <1>3
  <2>2. w = IF f = 0 THEN n + y ELSE y
    BY <1>1, <1>3
  <2>3. y < f + n - 1 /\ y >= f
    BY <1>1
  <2> HIDE DEF y, w
  <2>4. y % n = IF y < n THEN y ELSE y - n
    BY <1>1, <2>1, Around
  <2>5. w % n = IF w < n THEN w ELSE w - n
    BY <1>1, <2>1, Around
  <2> QED
    BY <1>1, <1>3, <2>1, <2>2, <2>3, <2>4, <2>5 DEF y, w
<1>5. \A i \in 1 .. v : s2[(g + (i + 1) - 1) % n] = s[(f + i - 1) % n]
  BY <1>1, <1>4
<1>6. s2[(g + 1 - 1) % n] = m
  <2>1. (g + 1 - 1) % n = g
    <3>1. g + 1 - 1 = g /\ g \in Nat /\ g < n
      BY <1>1, <1>3
    <3> QED
      BY <1>1, <3>1, Around
  <2> QED
    BY <1>1, <1>3, <2>1
<1>7. \A i \in 1 .. v : x[i] = s[(f + i - 1) % n]
  BY DEF Ring
<1> HIDE DEF x, s2
<1>8. /\ Len(z) = v + 1 /\ z = [i \in 1 .. v + 1 |-> z[i]]
      /\ z[1] = m /\ \A i \in 1 .. v : z[i + 1] = x[i]
  <2>1. z \in Seq(Msgs \cup {EventMsg}) /\ Len(z) = v + 1
    BY <1>2
  <2>2. z = [i \in 1 .. v + 1 |-> z[i]]
    BY <2>1
  <2>3. z[1] = m
    BY <1>2
  <2>4. ASSUME NEW i \in 1 .. v
        PROVE  z[i + 1] = x[i]
    BY <1>2
  <2> QED
    BY <2>1, <2>2, <2>3, <2>4
<1> HIDE DEF z
<1>9. ASSUME NEW i \in 1 .. v + 1
      PROVE  s2[(g + i - 1) % n] = z[i]
  <2>1. CASE i = 1
    BY <1>6, <1>8, <2>1
  <2>2. CASE i # 1
    <3> DEFINE j == i - 1
    <3>1. j \in 1 .. v /\ j + 1 = i
      BY <1>1, <2>2
    <3> HIDE DEF j
    <3>2. s2[(g + (j + 1) - 1) % n] = z[j + 1]
      BY <1>5, <1>7, <1>8, <3>1
    <3> QED
      BY <3>1, <3>2
  <2> QED
    BY <2>1, <2>2
<1>10. Ring(s2, g, v + 1, n) = z
  BY <1>8, <1>9 DEF Ring
<1> QED
  BY <1>10 DEF s2, x, z, g, Written

LEMMA RingTail ==
    ASSUME NEW s, NEW f, NEW v, NEW n, IsRing(s, f, v, n), v # 0
    PROVE  /\ Ring(s, (f + 1) % n, v - 1, n) = Tail(Ring(s, f, v, n))
           /\ Ring(s, f, v, n) # <<>>
<1> DEFINE g == (f + 1) % n
           x == Ring(s, f, v, n)
<1>1. n \in Nat /\ n > 0 /\ f \in Nat /\ f < n /\ v \in Nat /\ v > 0 /\ v <= n
  BY DEF IsRing
<1>2. x \in Seq(Msgs \cup {EventMsg}) /\ Len(x) = v
  BY RingSeq
<1>3. g \in 0 .. n - 1 /\ g = IF f + 1 < n THEN f + 1 ELSE 0
  <2>1. f + 1 \in Nat /\ (f + 1 < 2 * n \/ n = 1)
    BY <1>1
  <2>2. (f + 1) % n = IF f + 1 < n THEN f + 1 ELSE f + 1 - n
    BY <1>1, <2>1, Around
  <2> QED
    BY <1>1, <2>2
<1> HIDE DEF g
<1>4. ASSUME NEW i \in 1 .. v - 1
      PROVE  (g + i - 1) % n = (f + (i + 1) - 1) % n
  <2> DEFINE y == f + (i + 1) - 1
             w == g + i - 1
  <2>1. y \in Nat /\ y < 2 * n /\ w \in Nat /\ w < 2 * n
    BY <1>1, <1>3
  <2>2. w = IF f + 1 < n THEN y ELSE y - n
    BY <1>1, <1>3
  <2> HIDE DEF y, w
  <2>3. y % n = IF y < n THEN y ELSE y - n
    BY <1>1, <2>1, Around
  <2>4. w % n = IF w < n THEN w ELSE w - n
    BY <1>1, <2>1, Around
  <2> QED
    BY <1>1, <1>3, <2>1, <2>2, <2>3, <2>4 DEF y, w
<1>5. \A i \in 1 .. v : x[i] = s[(f + i - 1) % n]
  BY DEF Ring
<1> HIDE DEF x
<1>6. x # <<>> /\ Tail(x) = [i \in 1 .. v - 1 |-> x[i + 1]]
  <2> DEFINE z == Tail(x)
  <2>1. x # <<>>
    BY <1>1, <1>2
  <2>2. z \in Seq(Msgs \cup {EventMsg}) /\ Len(z) = v - 1
    BY <1>2, <2>1
  <2>3. \A i \in 1 .. v - 1 : z[i] = x[i + 1]
    BY <1>2, <2>1
  <2> HIDE DEF z
  <2>4. z = [i \in 1 .. v - 1 |-> z[i]]
    BY <2>2, LenProperties
  <2> QED
    BY <2>1, <2>4, <2>3 DEF z
<1>7. ASSUME NEW i \in 1 .. v - 1
      PROVE  s[(g + i - 1) % n] = x[i + 1]
  <2>1. i + 1 \in 1 .. v
    BY <1>1
  <2> QED
    BY <1>4, <1>5, <2>1
<1>8. Ring(s, g, v - 1, n) = [i \in 1 .. v - 1 |-> x[i + 1]]
  BY <1>7 DEF Ring
<1> QED
  BY <1>6, <1>8 DEF g, x

LEMMA ContentsRing ==
    ASSUME Rings, NEW q \in Queues
    PROVE  /\ IsRing(slot[q], first[q], valid[q], Count[q])
           /\ Contents[q] = Ring(slot[q], first[q], valid[q], Count[q])
           /\ Len(Contents[q]) = valid[q]
<1>1. IsRing(slot[q], first[q], valid[q], Count[q])
  BY RingTypes DEF IsRing
<1>2. Contents[q] = Ring(slot[q], first[q], valid[q], Count[q])
  BY DEF Contents, Ring
<1> QED
  BY <1>1, <1>2, RingSeq

(* A step that only changes the ring of q. *)
LEMMA ContentsOf ==
    ASSUME NEW q \in Queues, NEW x,
           \A p \in Queues \ {q} : /\ slot'[p] = slot[p] /\ first'[p] = first[p]
                                  /\ valid'[p] = valid[p],
           Ring(slot'[q], first'[q], valid'[q], Count[q]) = x
    PROVE  Contents' = [Contents EXCEPT ![q] = x]
<1>1. Contents'[q] = x
  BY DEF Contents, Ring
<1>2. \A p \in Queues \ {q} : Contents'[p] = Contents[p]
  BY DEF Contents
<1> DEFINE c == Contents
           d == Contents'
<1>3. c = [p \in Queues |-> c[p]] /\ d = [p \in Queues |-> d[p]]
  BY DEF Contents
<1> HIDE DEF c, d
<1>4. d = [c EXCEPT ![q] = x]
  BY <1>1, <1>2, <1>3 DEF c, d
<1> QED
  BY <1>4 DEF c, d

LEMMA AddContents ==
    ASSUME Rings, NEW q \in Queues, NEW m \in Msgs \cup {EventMsg}, ~IsFull(q), UNCHANGED first,
           slot' = [slot EXCEPT ![q][Rear(q)] = m], valid' = [valid EXCEPT ![q] = @ + 1]
    PROVE  Bounded!Next
<1> DEFINE s == slot[q]
           n == Count[q]
           f == first[q]
           v == valid[q]
<1>1. IsRing(s, f, v, n) /\ Contents[q] = Ring(s, f, v, n) /\ Len(Contents[q]) = v
  BY ContentsRing
<1>2. /\ first'[q] = f /\ valid'[q] = v + 1
      /\ \A p \in Queues \ {q} : /\ slot'[p] = slot[p] /\ first'[p] = first[p]
                                /\ valid'[p] = valid[p]
  BY RingTypes
<1>3. slot'[q] = Written(s, (f + v) % n, m) /\ v < n
  BY RingTypes DEF Rear, IsFull, Written
<1> HIDE DEF s, n, f, v
<1>4. Ring(Written(s, (f + v) % n, m), f, v + 1, n) = Append(Contents[q], m)
  BY <1>1, <1>3, RingAppend
<1>5. Ring(slot'[q], first'[q], valid'[q], n) = Append(Contents[q], m)
  BY <1>2, <1>3, <1>4
<1>6. Contents' = [Contents EXCEPT ![q] = Append(Contents[q], m)]
  BY <1>2, <1>5, ContentsOf DEF n
<1>7. Bounded!Add(q, Append(Contents[q], m))
  BY <1>1, <1>3, <1>6 DEF Bounded!Add, n
<1> QED
  BY <1>7 DEF Bounded!Next

LEMMA JamContents ==
    ASSUME Rings, NEW q \in Queues, NEW m \in Msgs \cup {EventMsg}, ~IsFull(q),
           first' = [first EXCEPT ![q] = (@ + Count[q] - 1) % Count[q]],
           slot' = [slot EXCEPT ![q][first'[q]] = m], valid' = [valid EXCEPT ![q] = @ + 1]
    PROVE  Bounded!Next
<1> DEFINE s == slot[q]
           n == Count[q]
           f == first[q]
           v == valid[q]
           g == (f + n - 1) % n
<1>1. IsRing(s, f, v, n) /\ Contents[q] = Ring(s, f, v, n) /\ Len(Contents[q]) = v
  BY ContentsRing
<1>2. /\ first'[q] = g /\ valid'[q] = v + 1
      /\ \A p \in Queues \ {q} : /\ slot'[p] = slot[p] /\ first'[p] = first[p]
                                /\ valid'[p] = valid[p]
  BY RingTypes
<1>3. slot'[q] = Written(s, g, m) /\ v < n
  <2>1. slot' = [slot EXCEPT ![q] = [s EXCEPT ![g] = m]]
    BY <1>2
  <2>2. slot'[q] = [s EXCEPT ![g] = m]
    BY <2>1, RingTypes
  <2> QED
    BY <2>2, RingTypes DEF IsFull, Written
<1> HIDE DEF s, n, f, v
<1>4. Ring(Written(s, g, m), g, v + 1, n) = <<m>> \o Contents[q]
  BY <1>1, <1>3, RingPrepend
<1> HIDE DEF g
<1>5. Ring(slot'[q], first'[q], valid'[q], n) = <<m>> \o Contents[q]
  BY <1>2, <1>3, <1>4
<1>6. Contents' = [Contents EXCEPT ![q] = <<m>> \o Contents[q]]
  BY <1>2, <1>5, ContentsOf DEF n
<1>7. Bounded!Add(q, <<m>> \o Contents[q])
  BY <1>1, <1>3, <1>6 DEF Bounded!Add, n
<1> QED
  BY <1>7 DEF Bounded!Next

LEMMA TakeContents ==
    ASSUME Rings, NEW q \in Queues, ~IsEmpty(q), UNCHANGED slot,
           first' = [first EXCEPT ![q] = (@ + 1) % Count[q]],
           valid' = [valid EXCEPT ![q] = @ - 1]
    PROVE  Bounded!Next
<1> DEFINE s == slot[q]
           n == Count[q]
           f == first[q]
           v == valid[q]
           g == (f + 1) % n
<1>1. IsRing(s, f, v, n) /\ Contents[q] = Ring(s, f, v, n) /\ Len(Contents[q]) = v
  BY ContentsRing
<1>2. /\ first'[q] = g /\ valid'[q] = v - 1 /\ slot'[q] = s /\ v # 0
      /\ \A p \in Queues \ {q} : /\ slot'[p] = slot[p] /\ first'[p] = first[p]
                                /\ valid'[p] = valid[p]
  BY RingTypes DEF IsEmpty
<1> HIDE DEF s, n, f, v
<1>3. /\ Ring(s, g, v - 1, n) = Tail(Contents[q])
      /\ Contents[q] # <<>>
  BY <1>1, <1>2, RingTail
<1> HIDE DEF g
<1>4. Ring(slot'[q], first'[q], valid'[q], n) = Tail(Contents[q])
  BY <1>2, <1>3
<1>5. Contents' = [Contents EXCEPT ![q] = Tail(Contents[q])]
  BY <1>2, <1>4, ContentsOf DEF n
<1> QED
  BY <1>3, <1>5 DEF Bounded!Next

LEMMA SameContents ==
    ASSUME UNCHANGED mesgs
    PROVE  Contents' = Contents
BY DEF mesgs, Contents

LEMMA QueueStep ==
    ASSUME KernelInv, [Next]_vars
    PROVE  Bounded!Next \/ Contents' = Contents
<1>1. Rings
  BY DEF KernelInv
<1>2. ASSUME NEW q \in Queues, NEW m \in Msgs, SendMesg(q, m)
      PROVE  Bounded!Next \/ Contents' = Contents
  BY <1>1, <1>2, AddContents, SameContents DEF SendMesg, Block
<1>3. ASSUME NEW q \in Queues, NEW m \in Msgs, JamMesg(q, m)
      PROVE  Bounded!Next \/ Contents' = Contents
  BY <1>1, <1>3, JamContents, SameContents DEF JamMesg, Block
<1>4. ASSUME NEW q \in Queues, RecvMesg(q)
      PROVE  Bounded!Next \/ Contents' = Contents
  BY <1>1, <1>4, TakeContents, SameContents DEF RecvMesg, Block
<1>5. ASSUME SendEvent
      PROVE  Bounded!Next \/ Contents' = Contents
  <2>1. CASE Taken
    <3>1. event \in Queues /\ ~IsFull(event)
      BY <2>1 DEF Taken, KernelInv, Calling
    <3>2. /\ slot' = [slot EXCEPT ![event][Rear(event)] = EventMsg]
          /\ valid' = [valid EXCEPT ![event] = @ + 1] /\ UNCHANGED first
      BY <1>5, <2>1 DEF SendEvent
    <3> QED
      BY <1>1, <3>1, <3>2, AddContents
  <2>2. CASE ~Taken
    BY <1>5, <2>2, SameContents DEF SendEvent, mesgs
  <2> QED
    BY <2>1, <2>2
<1>6. CASE Interrupt \/ Panic
  BY <1>5, <1>6 DEF Interrupt, Panic
<1>7. CASE UNCHANGED vars
  BY <1>7, SameContents DEF vars, mesgs
<1>8. CASE Boot
  BY <1>8, SameContents DEF Boot
<1>9. ASSUME NEW q \in Queues, SetEventMesg(q)
      PROVE  Contents' = Contents
  BY <1>9, SameContents DEF SetEventMesg
<1>10. ASSUME NEW k, Control(k)
       PROVE  Contents' = Contents
  BY <1>10, SameContents DEF Control
<1>11. CASE YieldThread \/ DestroySelf
  BY <1>10, <1>11 DEF YieldThread, DestroySelf
<1>12. ASSUME NEW t \in Threads, StartStopped(t) \/ StopThread(t) \/ DestroyThread(t)
       PROVE  Contents' = Contents
  BY <1>10, <1>12 DEF StartStopped, StopThread, DestroyThread
<1>13. ASSUME NEW t \in Threads, NEW p, SetThreadPri(t, p) \/ CreateThread(t, p)
       PROVE  Contents' = Contents
  BY <1>10, <1>13 DEF SetThreadPri, CreateThread
<1> QED
  BY <1>2, <1>3, <1>4, <1>6, <1>7, <1>8, <1>9, <1>11, <1>12, <1>13 DEF Next

(* sendmesg.c, recvmesg.c, jammesg.c, send_mesg of exceptasm.s: the rings are
   queues of at most msgCount messages, whatever their sizes and whoever uses
   them.                                                                      *)
THEOREM KernelQueues == Spec => QueueSpec
<1>1. Init => Bounded!Init
  <2> SUFFICES ASSUME Init
               PROVE  Bounded!Init
    OBVIOUS
  <2>1. ASSUME NEW q \in Queues
        PROVE  Contents[q] = <<>>
    <3>1. Rings /\ valid[q] = 0
      BY InitInv DEF KernelInv, Init
    <3>2. Contents[q] \in Seq(Msgs \cup {EventMsg}) /\ Len(Contents[q]) = 0
      BY <3>1, ContentsRing, RingSeq
    <3> QED
      BY <3>2, EmptySeq
  <2>2. Contents = [q \in Queues |-> Contents[q]]
    BY DEF Contents
  <2> QED
    BY <2>1, <2>2 DEF Bounded!Init
<1>2. KernelInv /\ [Next]_vars => [Bounded!Next]_Contents
  BY QueueStep
<1> QED
  BY <1>1, <1>2, KernelInvariant, PTL DEF Spec, QueueSpec, Bounded!Spec

=============================================================================
