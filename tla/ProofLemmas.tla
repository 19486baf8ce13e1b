----------------------------- MODULE ProofLemmas ------------------------------
(***************************************************************************)
(* What several of the proofs rest on: induction on numbers, functions     *)
(* defined by recursion on them, and files that grow at their end or are   *)
(* cut there.                                                              *)
(***************************************************************************)
EXTENDS Integers, Sequences, SequenceTheorems, FiniteSetTheorems, WellFoundedInduction,
        NaturalsInduction, TLAPS

------------------------------------------------------------------------------
(* Induction on numbers, and recursion on them: the sets T below are those *)
(* of the numbers for which a fact holds.                                  *)

LEMMA LeastNumber ==
    ASSUME NEW T, T \subseteq Nat, T # {}
    PROVE  \E x \in T : \A y \in T : x <= y
<1>1. IsWellFoundedOn(OpToRel(<, Nat), Nat)
  BY NatLessThanWellFounded
<1>2. PICK R : R = OpToRel(<, Nat)
  OBVIOUS
<1>3. PICK x \in T : \A y \in T : ~(<<y, x>> \in R)
  BY <1>1, <1>2, WFMin
<1>4. \A y \in T : <<y, x>> \in R <=> y < x
  BY <1>2 DEF OpToRel
<1>5. x \in Nat /\ \A y \in T : y \in Nat /\ ~(y < x)
  BY <1>3, <1>4
<1>6. \A y \in T : x <= y
  BY <1>5
<1>. QED BY <1>6

LEMMA AllNumbers ==
    ASSUME NEW T, T \subseteq Nat, 0 \in T, \A n \in T : n + 1 \in T
    PROVE  T = Nat
<1>1. SUFFICES ASSUME Nat \ T # {} PROVE FALSE
  OBVIOUS
<1>2. PICK x \in Nat \ T : \A y \in Nat \ T : x <= y
  BY <1>1, LeastNumber
<1>3. x # 0 /\ x - 1 \in Nat /\ ~(x <= x - 1)
  BY <1>2
<1>4. x - 1 \in T
  BY <1>2, <1>3
<1>. QED BY <1>2, <1>3, <1>4

(* A value a and a step determine a function on 0..N.                      *)
Follows(f, V, a, N, step) ==
    f \in [0..N -> V] /\ f[0] = a /\ \A n \in 1..N : f[n] = step[<<n, f[n - 1]>>]

LEMMA Recursion ==
    ASSUME NEW V, NEW a \in V, NEW N \in Nat, NEW step \in [(1..N) \X V -> V]
    PROVE  \E f : Follows(f, V, a, N, step)
<1> DEFINE Good(f, n) == f[0] = a /\ \A k \in 1..n : f[k] = step[<<k, f[k - 1]>>]
           T == {n \in Nat : n <= N => \E f \in [0..n -> V] : Good(f, n)}
<1>1. 0 \in T
  <2>1. PICK f : f = [i \in 0..0 |-> a]
    OBVIOUS
  <2>2. f \in [0..0 -> V] /\ f[0] = a /\ 1..0 = {}
    BY <2>1
  <2>. QED BY <2>2
<1>2. ASSUME NEW n \in T PROVE n + 1 \in T
  <2>1. n \in Nat /\ n + 1 \in Nat
    OBVIOUS
  <2>2. SUFFICES ASSUME n + 1 <= N PROVE \E f \in [0..(n + 1) -> V] : Good(f, n + 1)
    BY <2>1
  <2>3. PICK f \in [0..n -> V] : Good(f, n)
    BY <2>1, <2>2
  <2>4. PICK v : v = step[<<n + 1, f[n]>>]
    OBVIOUS
  <2>5. v \in V
    <3>1. f[n] \in V /\ n + 1 \in 1..N
      BY <2>1, <2>2
    <3>. QED BY <2>4, <3>1
  <2>6. PICK h : h = [i \in 0..(n + 1) |-> IF i = n + 1 THEN v ELSE f[i]]
    OBVIOUS
  <2>7. \A i \in 0..n : h[i] = f[i] /\ f[i] \in V /\ i # n + 1
    BY <2>1, <2>6
  <2>8. h[n + 1] = v /\ \A i \in 0..(n + 1) : i \in 0..n \/ i = n + 1
    BY <2>1, <2>6
  <2>9. h \in [0..(n + 1) -> V]
    BY <2>5, <2>6, <2>7, <2>8
  <2>10. h[0] = a
    BY <2>1, <2>3, <2>7
  <2>11. ASSUME NEW k \in 1..(n + 1) PROVE h[k] = step[<<k, h[k - 1]>>]
    <3>1. k - 1 \in 0..n /\ (k \in 1..n \/ k = n + 1)
      BY <2>1
    <3>2. CASE k \in 1..n
      <4>1. k \in 0..n
        BY <2>1, <3>2
      <4>. QED BY <2>3, <2>7, <3>1, <3>2, <4>1
    <3>3. CASE k = n + 1
      <4>1. k - 1 = n /\ h[k - 1] = f[n]
        BY <2>1, <2>7, <3>1, <3>3
      <4>. QED BY <2>4, <2>8, <3>3, <4>1
    <3>. QED BY <3>1, <3>2, <3>3
  <2>. QED BY <2>9, <2>10, <2>11
<1>3. T = Nat
  <2> HIDE DEF T
  <2>1. T \subseteq Nat
    BY DEF T
  <2>. QED BY <1>1, <1>2, <2>1, AllNumbers
<1>4. N \in T /\ N <= N
  <2> HIDE DEF T
  <2>. QED BY <1>3
<1>. QED BY <1>4 DEF Follows

(* It is the only one, and what is defined by the step is that function.   *)
FollowsIn(f, V, a, N, step) ==
    /\ f = [n \in 0..N |-> f[n]]
    /\ f[0] = a
    /\ \A n \in 1..N : f[n - 1] \in V => f[n] = step[<<n, f[n - 1]>>]

LEMMA OneFollows ==
    ASSUME NEW V, NEW a, NEW N \in Nat, NEW step,
           NEW h, Follows(h, V, a, N, step), NEW f, FollowsIn(f, V, a, N, step)
    PROVE  f = h
<1> DEFINE T == {n \in Nat : n <= N => f[n] = h[n]}
<1>1. /\ h \in [0..N -> V] /\ h[0] = a
      /\ \A n \in 1..N : h[n] = step[<<n, h[n - 1]>>]
      /\ f = [n \in 0..N |-> f[n]] /\ f[0] = a
      /\ \A n \in 1..N : f[n - 1] \in V => f[n] = step[<<n, f[n - 1]>>]
  BY DEF Follows, FollowsIn
<1>2. 0 \in T
  BY <1>1
<1>3. ASSUME NEW n \in T PROVE n + 1 \in T
  <2>1. n \in Nat
    OBVIOUS
  <2>2. SUFFICES ASSUME n + 1 <= N PROVE f[n + 1] = h[n + 1]
    BY <2>1
  <2>3. n \in 0..N /\ n + 1 \in 1..N /\ (n + 1) - 1 = n
    BY <2>1, <2>2
  <2>4. f[n] = h[n]
    BY <2>3
  <2> HIDE DEF T
  <2>5. f[(n + 1) - 1] \in V /\ f[(n + 1) - 1] = h[(n + 1) - 1]
    BY <1>1, <2>3, <2>4
  <2>. QED BY <1>1, <2>3, <2>5
<1>4. T = Nat
  <2>1. T \subseteq Nat
    OBVIOUS
  <2> HIDE DEF T
  <2>. QED BY <1>2, <1>3, <2>1, AllNumbers
<1>5. \A n \in 0..N : f[n] = h[n]
  <2>1. \A n \in 0..N : n \in Nat /\ n <= N
    OBVIOUS
  <2>2. \A n \in Nat : n <= N => f[n] = h[n]
    BY <1>4
  <2>. QED BY <2>1, <2>2
<1>. QED BY <1>1, <1>5

------------------------------------------------------------------------------
(* A file to which an entry is appended, or nothing.                       *)
LEMMA Appended ==
    ASSUME NEW S, NEW l \in Seq(S), NEW m, m = l \/ \E e \in S : m = Append(l, e)
    PROVE  /\ m \in Seq(S) /\ Len(l) \in Nat /\ Len(m) \in Nat /\ Len(l) <= Len(m)
           /\ \A i \in 1..Len(l) : i \in 1..Len(m) /\ m[i] = l[i]
<1>1. Len(l) \in Nat
  BY LenProperties
<1>2. CASE m = l
  BY <1>1, <1>2
<1>3. CASE \E e \in S : m = Append(l, e)
  <2>1. /\ m \in Seq(S) /\ Len(m) = Len(l) + 1
        /\ \A i \in 1..Len(l) : m[i] = l[i]
    BY <1>3, AppendProperties
  <2>. QED BY <1>1, <2>1
<1>. QED BY <1>2, <1>3

(* The beginning of a file, which is what a restart may leave of it.       *)
LEMMA TakeProperties ==
    ASSUME NEW S, NEW s \in Seq(S), NEW n \in 0..Len(s)
    PROVE  /\ SubSeq(s, 1, n) \in Seq(S)
           /\ Len(SubSeq(s, 1, n)) = n
           /\ \A i \in 1..n : SubSeq(s, 1, n)[i] = s[i]
<1>1. Len(s) \in Nat /\ n \in Int /\ \A i \in 1..n : s[i] \in S
  BY LenProperties, ElementOfSeq
<1>2. /\ SubSeq(s, 1, n) \in Seq(S)
      /\ Len(SubSeq(s, 1, n)) = IF 1 <= n THEN n - 1 + 1 ELSE 0
      /\ \A i \in 1..n - 1 + 1 : SubSeq(s, 1, n)[i] = s[1 + i - 1]
  BY <1>1, SubSeqProperties
<1>3. QED BY <1>1, <1>2

(* A file that agrees with u as far as u goes begins with u.               *)
LEMMA BeginsWith ==
    ASSUME NEW S, NEW u \in Seq(S), NEW v \in Seq(S), Len(u) <= Len(v),
           \A i \in 1..Len(u) : v[i] = u[i]
    PROVE  SubSeq(u, 1, Len(u)) = SubSeq(v, 1, Len(u))
<1>1. Len(u) \in 0..Len(u) /\ Len(u) \in 0..Len(v)
  BY LenProperties
<1>2. /\ SubSeq(u, 1, Len(u)) \in Seq(S) /\ Len(SubSeq(u, 1, Len(u))) = Len(u)
      /\ \A i \in 1..Len(u) : SubSeq(u, 1, Len(u))[i] = u[i]
  BY <1>1, TakeProperties
<1>3. /\ SubSeq(v, 1, Len(u)) \in Seq(S) /\ Len(SubSeq(v, 1, Len(u))) = Len(u)
      /\ \A i \in 1..Len(u) : SubSeq(v, 1, Len(u))[i] = v[i]
  BY <1>1, TakeProperties
<1>. QED BY <1>2, <1>3, SeqEqual
==============================================================================
