----------------------------- MODULE RecallProofs -----------------------------
(***************************************************************************)
(* Theorems about the selection of cards, whoever writes to the graph in   *)
(* the meantime, for all texts, cards, queries and names, any number of    *)
(* turns and of calls of top_n, and every fault of the archive; and about  *)
(* the way of a fact from the turn that states it to the selection.        *)
(*                                                                         *)
(* The hook and the other writers meet the selection in the graph only:    *)
(* what they do to it is to put a card at its end (GrowsByOne).            *)
(***************************************************************************)
EXTENDS Recall, ProofLemmas

------------------------------------------------------------------------------
(* Sequences as sets.                                                      *)

LEMMA SetOfSeq ==
    ASSUME NEW S, NEW s \in Seq(S)
    PROVE  /\ Len(s) \in Nat /\ DOMAIN s = 1..Len(s)
           /\ \A i \in 1..Len(s) : s[i] \in S
           /\ \A x : x \in C!ToSet(s) <=> \E i \in 1..Len(s) : s[i] = x
           /\ C!ToSet(s) = ToSet(s)
BY LenProperties, ElementOfSeq DEF C!ToSet, ToSet

LEMMA SetOfAppend ==
    ASSUME NEW S, NEW s \in Seq(S), NEW x \in S
    PROVE  /\ Append(s, x) \in Seq(S) /\ Len(Append(s, x)) = Len(s) + 1
           /\ \A i \in 1..Len(s) : Append(s, x)[i] = s[i]
           /\ Append(s, x)[Len(s) + 1] = x
           /\ C!ToSet(Append(s, x)) = C!ToSet(s) \cup {x}
<1>1. /\ Append(s, x) \in Seq(S) /\ Len(Append(s, x)) = Len(s) + 1
      /\ \A i \in 1..Len(s) : Append(s, x)[i] = s[i]
      /\ Append(s, x)[Len(s) + 1] = x
  BY AppendProperties
<1>2. PICK t : t = Append(s, x)
  OBVIOUS
<1>3. t \in Seq(S) /\ Len(s) \in Nat
  BY <1>1, <1>2, LenProperties
<1>4. \A i \in 1..(Len(s) + 1) : i \in 1..Len(s) \/ i = Len(s) + 1
  BY <1>3
<1>5. \A i \in 1..Len(s) : i \in 1..(Len(s) + 1)
  BY <1>3
<1>6. Len(s) + 1 \in 1..(Len(s) + 1)
  BY <1>3
<1>7. /\ \A y : y \in C!ToSet(t) <=> \E i \in 1..Len(t) : t[i] = y
      /\ \A y : y \in C!ToSet(s) <=> \E i \in 1..Len(s) : s[i] = y
  BY <1>3, SetOfSeq
<1>8. \A y : y \in C!ToSet(t) <=> (y \in C!ToSet(s) \/ y = x)
  BY <1>1, <1>2, <1>4, <1>5, <1>6, <1>7
<1>. QED BY <1>1, <1>2, <1>8

------------------------------------------------------------------------------
(* Chosen takes the items that are in the set, and an item once that is    *)
(* there once.                                                             *)

Choosing(f, S, items, set) ==
    /\ f \in [0..Len(items) -> Seq(S)]
    /\ f[0] = <<>>
    /\ \A n \in 1..Len(items) :
          f[n] = IF items[n] \in set THEN Append(f[n - 1], items[n]) ELSE f[n - 1]
    /\ C!Chosen(items, set) = f[Len(items)]

LEMMA ChosenDef ==
    ASSUME NEW S, NEW items \in Seq(S), NEW set
    PROVE  \E f : Choosing(f, S, items, set)
<1> DEFINE N == Len(items)
           Body(f, n) == IF n = 0 THEN <<>>
                         ELSE IF items[n] \in set THEN Append(f[n - 1], items[n])
                         ELSE f[n - 1]
           step == [p \in (1..N) \X Seq(S) |->
                      IF items[p[1]] \in set THEN Append(p[2], items[p[1]]) ELSE p[2]]
<1>1. N \in Nat /\ <<>> \in Seq(S)
  BY LenProperties, EmptySeq
<1>2. step \in [(1..N) \X Seq(S) -> Seq(S)]
  <2>1. ASSUME NEW p \in (1..N) \X Seq(S) PROVE step[p] \in Seq(S)
    <3>1. items[p[1]] \in S /\ p[2] \in Seq(S)
      BY ElementOfSeq
    <3>. QED BY <3>1, AppendProperties
  <2>. QED BY <2>1
<1>3. PICK h : Follows(h, Seq(S), <<>>, N, step)
  <2> HIDE DEF step, N
  <2>. QED BY <1>1, <1>2, Recursion
<1>4. /\ h \in [0..N -> Seq(S)] /\ h[0] = <<>>
      /\ \A n \in 1..N : h[n] = step[<<n, h[n - 1]>>]
      /\ \A n \in 1..N : n - 1 \in 0..N /\ h[n - 1] \in Seq(S)
  <2> HIDE DEF step
  <2>1. /\ h \in [0..N -> Seq(S)] /\ h[0] = <<>>
        /\ \A n \in 1..N : h[n] = step[<<n, h[n - 1]>>]
    BY <1>3 DEF Follows
  <2> HIDE DEF N
  <2>2. \A n \in 1..N : n - 1 \in 0..N
    BY <1>1
  <2>. QED BY <2>1, <2>2
<1>5. \A n \in 1..N : step[<<n, h[n - 1]>>] = Body(h, n)
  BY <1>1, <1>4
<1>6. h = [n \in 0..N |-> Body(h, n)]
  <2>1. ASSUME NEW n \in 0..N PROVE h[n] = Body(h, n)
    <3>1. n = 0 \/ n \in 1..N
      BY <1>1
    <3> HIDE DEF step
    <3>. QED BY <1>4, <1>5, <3>1
  <2> HIDE DEF Body, N, step
  <2>. QED BY <1>4, <2>1
<1>7. C!Chosen(items, set) = (CHOOSE f : f = [n \in 0..N |-> Body(f, n)])[N]
  BY DEF C!Chosen
<1>8. PICK f : f = [n \in 0..N |-> Body(f, n)] /\ C!Chosen(items, set) = f[N]
  <2> HIDE DEF Body
  <2>. QED BY <1>6, <1>7
<1>9. \A n \in 0..N : f[n] = Body(f, n)
  <2> HIDE DEF Body
  <2>. QED BY <1>8
<1>10. 0 \in 0..N /\ \A n \in 1..N : n \in 0..N /\ n # 0
  BY <1>1
<1>11. /\ f[0] = <<>>
       /\ \A n \in 1..N : f[n] = IF items[n] \in set THEN Append(f[n - 1], items[n])
                                 ELSE f[n - 1]
  BY <1>9, <1>10
<1>12. \A n \in 1..N : f[n - 1] \in Seq(S) => f[n] = step[<<n, f[n - 1]>>]
  BY <1>11
<1>13. f = h
  <2>1. f = [n \in 0..N |-> f[n]]
    <3> HIDE DEF Body
    <3>. QED BY <1>8
  <2>2. f[0] = <<>>
    BY <1>11
  <2> HIDE DEF step, N, Body
  <2>3. FollowsIn(f, Seq(S), <<>>, N, step)
    BY <1>12, <2>1, <2>2 DEF FollowsIn
  <2>. QED BY <1>1, <1>3, <2>3, OneFollows
<1>. QED BY <1>4, <1>8, <1>11, <1>13 DEF Choosing

LEMMA OnceAppend ==
    ASSUME NEW S, NEW s \in Seq(S), NEW x \in S,
           C!EachOnce(s), \A y \in C!ToSet(s) : ~C!SameCard(y, x)
    PROVE  C!EachOnce(Append(s, x))
<1>1. PICK t : t = Append(s, x)
  OBVIOUS
<1>2. /\ t \in Seq(S) /\ Len(t) = Len(s) + 1 /\ Len(s) \in Nat
      /\ \A i \in 1..Len(s) : t[i] = s[i]
      /\ t[Len(s) + 1] = x
  BY <1>1, SetOfAppend, SetOfSeq
<1>3. DOMAIN t = 1..(Len(s) + 1) /\ DOMAIN s = 1..Len(s)
  BY <1>2, SetOfSeq
<1>4. ASSUME NEW i \in DOMAIN t, NEW j \in DOMAIN t, i # j
      PROVE  ~C!SameCard(t[i], t[j])
  <2>1. (i \in 1..Len(s) \/ i = Len(s) + 1) /\ (j \in 1..Len(s) \/ j = Len(s) + 1)
    BY <1>2, <1>3
  <2>2. CASE i \in 1..Len(s) /\ j \in 1..Len(s)
    BY <1>2, <1>3, <1>4, <2>2 DEF C!EachOnce
  <2>3. CASE i \in 1..Len(s) /\ j = Len(s) + 1
    <3>1. t[i] \in C!ToSet(s)
      BY <1>2, <2>3, SetOfSeq
    <3>. QED BY <1>2, <2>3, <3>1
  <2>4. CASE i = Len(s) + 1 /\ j \in 1..Len(s)
    <3>1. t[j] \in C!ToSet(s)
      BY <1>2, <2>4, SetOfSeq
    <3>2. ~C!SameCard(t[j], t[i])
      BY <1>2, <2>4, <3>1
    <3>. QED BY <3>2 DEF C!SameCard
  <2>. QED BY <1>4, <2>1, <2>2, <2>3, <2>4
<1>5. C!EachOnce(t)
  BY <1>4 DEF C!EachOnce
<1>. QED BY <1>1, <1>5

LEMMA ChosenFacts ==
    ASSUME NEW S, NEW items \in Seq(S), NEW set
    PROVE  /\ C!Chosen(items, set) \in Seq(S)
           /\ C!ToSet(C!Chosen(items, set)) = C!ToSet(items) \cap set
           /\ C!EachOnce(items) => C!EachOnce(C!Chosen(items, set))
<1> DEFINE N == Len(items)
           First(n) == {items[i] : i \in 1..n}
           Sub(g, n) == /\ C!ToSet(g) = First(n) \cap set
                        /\ C!EachOnce(items) => C!EachOnce(g)
<1>0. PICK f : Choosing(f, S, items, set)
  BY ChosenDef
<1>1. /\ f \in [0..N -> Seq(S)]
      /\ f[0] = <<>>
      /\ \A n \in 1..N : f[n] = IF items[n] \in set THEN Append(f[n - 1], items[n]) ELSE f[n - 1]
      /\ C!Chosen(items, set) = f[N]
  BY <1>0 DEF Choosing
<1>2. N \in Nat /\ DOMAIN items = 1..N /\ \A i \in 1..N : items[i] \in S
  BY SetOfSeq
<1> HIDE DEF N
<1> DEFINE T == {n \in Nat : n <= N => Sub(f[n], n)}
<1>3. 0 \in T
  <2>1. 1..0 = {}
    OBVIOUS
  <2>2. First(0) = {}
    BY <2>1
  <2>3. C!ToSet(f[0]) = {} /\ C!EachOnce(f[0])
    BY <1>1 DEF C!ToSet, C!EachOnce
  <2>. QED BY <2>2, <2>3
<1>4. ASSUME NEW n \in T PROVE n + 1 \in T
  <2>1. n \in Nat
    OBVIOUS
  <2>2. SUFFICES ASSUME n + 1 <= N PROVE Sub(f[n + 1], n + 1)
    BY <2>1
  <2>3. n \in 0..N /\ n + 1 \in 1..N /\ (n + 1) - 1 = n
    BY <1>2, <2>1, <2>2
  <2>4. Sub(f[n], n)
    BY <2>3
  <2> HIDE DEF T
  <2>5. f[n + 1] = IF items[n + 1] \in set THEN Append(f[n], items[n + 1]) ELSE f[n]
    BY <1>1, <2>3
  <2>6. PICK g \in Seq(S) : g = f[n]
    BY <1>1, <2>3
  <2>7. PICK x \in S : x = items[n + 1]
    BY <1>2, <2>3
  <2>8. First(n + 1) = First(n) \cup {x}
    <3>1. \A i : i \in 1..(n + 1) <=> (i \in 1..n \/ i = n + 1)
      BY <2>1
    <3>. QED BY <2>7, <3>1
  <2>9. CASE x \in set
    <3>1. f[n + 1] = Append(g, x)
      BY <2>5, <2>6, <2>7, <2>9
    <3>2. C!ToSet(Append(g, x)) = C!ToSet(g) \cup {x}
      BY SetOfAppend
    <3>3. C!ToSet(Append(g, x)) = First(n + 1) \cap set
      <4>1. C!ToSet(g) = First(n) \cap set
        BY <2>4, <2>6
      <4> HIDE DEF First
      <4>. QED BY <2>8, <2>9, <3>2, <4>1
    <3>4. ASSUME C!EachOnce(items) PROVE C!EachOnce(Append(g, x))
      <4>1. C!EachOnce(g) /\ C!ToSet(g) \subseteq First(n)
        BY <2>4, <2>6, <3>4
      <4>2. ASSUME NEW y \in C!ToSet(g) PROVE ~C!SameCard(y, x)
        <5>1. PICK i \in 1..n : y = items[i]
          BY <4>1
        <5>2. i \in DOMAIN items /\ n + 1 \in DOMAIN items /\ i # n + 1
          BY <1>2, <2>1, <2>3
        <5>. QED BY <2>7, <3>4, <5>1, <5>2 DEF C!EachOnce
      <4>. QED BY <4>1, <4>2, OnceAppend
    <3> HIDE DEF First
    <3>. QED BY <3>1, <3>3, <3>4
  <2>10. CASE x \notin set
    <3>1. f[n + 1] = g
      BY <2>5, <2>6, <2>7, <2>10
    <3> HIDE DEF First
    <3>. QED BY <2>4, <2>6, <2>8, <2>10, <3>1
  <2>. QED BY <2>9, <2>10
<1>5. T = Nat
  <2>1. T \subseteq Nat
    OBVIOUS
  <2> HIDE DEF T
  <2>. QED BY <1>3, <1>4, <2>1, AllNumbers
<1>6. Sub(f[N], N)
  <2>1. N \in T /\ N <= N
    <3> HIDE DEF T
    <3>. QED BY <1>2, <1>5
  <2> HIDE DEF Sub
  <2>. QED BY <2>1
<1>7. First(N) = C!ToSet(items)
  BY <1>2 DEF C!ToSet
<1>8. f[N] \in Seq(S)
  BY <1>1, <1>2
<1> HIDE DEF First
<1>. QED BY <1>1, <1>6, <1>7, <1>8

------------------------------------------------------------------------------
(* AddNew keeps what is held, leaves no new card without one like it among *)
(* those held, adds none that is not new, and none a second time.          *)

Adding(f, S, held, more) ==
    /\ f \in [0..Len(more) -> Seq(S)]
    /\ f[0] = held
    /\ \A n \in 1..Len(more) :
          f[n] = IF \E c \in C!ToSet(f[n - 1]) : C!SameCard(c, more[n]) THEN f[n - 1]
                 ELSE Append(f[n - 1], more[n])
    /\ C!AddNew(held, more) = f[Len(more)]

LEMMA AddNewDef ==
    ASSUME NEW S, NEW held \in Seq(S), NEW more \in Seq(S)
    PROVE  \E f : Adding(f, S, held, more)
<1> DEFINE N == Len(more)
           Known(s, x) == \E c \in C!ToSet(s) : C!SameCard(c, x)
           Body(f, n) == IF n = 0 THEN held
                         ELSE IF Known(f[n - 1], more[n]) THEN f[n - 1]
                         ELSE Append(f[n - 1], more[n])
           step == [p \in (1..N) \X Seq(S) |->
                      IF Known(p[2], more[p[1]]) THEN p[2] ELSE Append(p[2], more[p[1]])]
<1>1. N \in Nat
  BY LenProperties
<1>2. step \in [(1..N) \X Seq(S) -> Seq(S)]
  <2>1. ASSUME NEW p \in (1..N) \X Seq(S) PROVE step[p] \in Seq(S)
    <3>1. more[p[1]] \in S /\ p[2] \in Seq(S)
      BY ElementOfSeq
    <3> HIDE DEF Known
    <3>. QED BY <3>1, AppendProperties
  <2> HIDE DEF Known
  <2>. QED BY <2>1
<1> HIDE DEF Known
<1>3. PICK h : Follows(h, Seq(S), held, N, step)
  <2> HIDE DEF step, N
  <2>. QED BY <1>1, <1>2, Recursion
<1>4. /\ h \in [0..N -> Seq(S)] /\ h[0] = held
      /\ \A n \in 1..N : h[n] = step[<<n, h[n - 1]>>]
      /\ \A n \in 1..N : n - 1 \in 0..N /\ h[n - 1] \in Seq(S)
  <2> HIDE DEF step
  <2>1. /\ h \in [0..N -> Seq(S)] /\ h[0] = held
        /\ \A n \in 1..N : h[n] = step[<<n, h[n - 1]>>]
    BY <1>3 DEF Follows
  <2> HIDE DEF N
  <2>2. \A n \in 1..N : n - 1 \in 0..N
    BY <1>1
  <2>. QED BY <2>1, <2>2
<1>5. \A n \in 1..N : step[<<n, h[n - 1]>>] = Body(h, n)
  BY <1>1, <1>4
<1>6. h = [n \in 0..N |-> Body(h, n)]
  <2>1. ASSUME NEW n \in 0..N PROVE h[n] = Body(h, n)
    <3>1. n = 0 \/ n \in 1..N
      BY <1>1
    <3> HIDE DEF step
    <3>. QED BY <1>4, <1>5, <3>1
  <2> HIDE DEF Body, N, step
  <2>. QED BY <1>4, <2>1
<1>7. C!AddNew(held, more) = (CHOOSE f : f = [n \in 0..N |-> Body(f, n)])[N]
  BY DEF C!AddNew, Known
<1>8. PICK f : f = [n \in 0..N |-> Body(f, n)] /\ C!AddNew(held, more) = f[N]
  <2> HIDE DEF Body
  <2>. QED BY <1>6, <1>7
<1>9. \A n \in 0..N : f[n] = Body(f, n)
  <2> HIDE DEF Body
  <2>. QED BY <1>8
<1>10. 0 \in 0..N /\ \A n \in 1..N : n \in 0..N /\ n # 0
  BY <1>1
<1>11. /\ f[0] = held
       /\ \A n \in 1..N : f[n] = IF Known(f[n - 1], more[n]) THEN f[n - 1]
                                 ELSE Append(f[n - 1], more[n])
  BY <1>9, <1>10
<1>12. \A n \in 1..N : f[n - 1] \in Seq(S) => f[n] = step[<<n, f[n - 1]>>]
  BY <1>11
<1>13. f = h
  <2>1. f = [n \in 0..N |-> f[n]]
    <3> HIDE DEF Body
    <3>. QED BY <1>8
  <2>2. f[0] = held
    BY <1>11
  <2> HIDE DEF step, N, Body
  <2>3. FollowsIn(f, Seq(S), held, N, step)
    BY <1>12, <2>1, <2>2 DEF FollowsIn
  <2>. QED BY <1>1, <1>3, <2>3, OneFollows
<1>. QED BY <1>4, <1>8, <1>11, <1>13 DEF Adding, Known

Added(res, S, held, more) ==
    /\ res \in Seq(S)
    /\ C!ToSet(held) \subseteq C!ToSet(res)
    /\ C!ToSet(res) \subseteq C!ToSet(held) \cup C!ToSet(more)
    /\ \A d \in C!ToSet(more) : \E c \in C!ToSet(res) : C!SameCard(c, d)
    /\ C!EachOnce(held) => C!EachOnce(res)

LEMMA AddNewFacts ==
    ASSUME NEW S, NEW held \in Seq(S), NEW more \in Seq(S)
    PROVE  Added(C!AddNew(held, more), S, held, more)
<1> DEFINE N == Len(more)
           First(n) == {more[i] : i \in 1..n}
           Sub(g, n) == /\ C!ToSet(held) \subseteq C!ToSet(g)
                        /\ C!ToSet(g) \subseteq C!ToSet(held) \cup First(n)
                        /\ \A d \in First(n) : \E c \in C!ToSet(g) : C!SameCard(c, d)
                        /\ C!EachOnce(held) => C!EachOnce(g)
<1>0. PICK f : Adding(f, S, held, more)
  BY AddNewDef
<1>1. /\ f \in [0..N -> Seq(S)]
      /\ f[0] = held
      /\ \A n \in 1..N :
            f[n] = IF \E c \in C!ToSet(f[n - 1]) : C!SameCard(c, more[n]) THEN f[n - 1]
                   ELSE Append(f[n - 1], more[n])
      /\ C!AddNew(held, more) = f[N]
  BY <1>0 DEF Adding
<1>2. N \in Nat /\ \A i \in 1..N : more[i] \in S
  BY SetOfSeq
<1> HIDE DEF N
<1> DEFINE T == {n \in Nat : n <= N => Sub(f[n], n)}
<1>3. 0 \in T
  <2>1. 1..0 = {}
    OBVIOUS
  <2>2. First(0) = {}
    BY <2>1
  <2>. QED BY <1>1, <2>2
<1>4. ASSUME NEW n \in T PROVE n + 1 \in T
  <2>1. n \in Nat
    OBVIOUS
  <2>2. SUFFICES ASSUME n + 1 <= N PROVE Sub(f[n + 1], n + 1)
    <3> HIDE DEF Sub
    <3>. QED BY <2>1
  <2>3. n \in 0..N /\ n + 1 \in 1..N /\ (n + 1) - 1 = n
    BY <1>2, <2>1, <2>2
  <2>4. Sub(f[n], n)
    BY <2>3
  <2> HIDE DEF T
  <2>6. PICK g \in Seq(S) : g = f[n]
    BY <1>1, <2>3
  <2>7. PICK x \in S : x = more[n + 1]
    BY <1>2, <2>3
  <2>5. f[n + 1] = IF \E c \in C!ToSet(g) : C!SameCard(c, x) THEN g ELSE Append(g, x)
    BY <1>1, <2>3, <2>6, <2>7
  <2>8. First(n + 1) = First(n) \cup {x}
    <3>1. \A i : i \in 1..(n + 1) <=> (i \in 1..n \/ i = n + 1)
      BY <2>1
    <3>. QED BY <2>7, <3>1
  <2> HIDE DEF First
  <2>9. CASE \E c \in C!ToSet(g) : C!SameCard(c, x)
    <3>1. f[n + 1] = g
      BY <2>5, <2>9
    <3>. QED BY <2>4, <2>6, <2>8, <2>9, <3>1
  <2>10. CASE ~\E c \in C!ToSet(g) : C!SameCard(c, x)
    <3>1. f[n + 1] = Append(g, x)
      BY <2>5, <2>10
    <3>2. C!ToSet(Append(g, x)) = C!ToSet(g) \cup {x}
      BY SetOfAppend
    <3>3. C!EachOnce(held) => C!EachOnce(Append(g, x))
      <4>1. ASSUME C!EachOnce(g) PROVE C!EachOnce(Append(g, x))
        BY <2>10, <4>1, OnceAppend
      <4>. QED BY <2>4, <2>6, <4>1
    <3>4. C!SameCard(x, x)
      BY DEF C!SameCard
    <3>5. \A d \in First(n + 1) : \E c \in C!ToSet(Append(g, x)) : C!SameCard(c, d)
      BY <2>4, <2>6, <2>8, <3>2, <3>4
    <3>. QED BY <2>4, <2>6, <2>8, <3>1, <3>2, <3>3, <3>5
  <2>. QED BY <2>9, <2>10
<1>5. T = Nat
  <2>1. T \subseteq Nat
    OBVIOUS
  <2> HIDE DEF T
  <2>. QED BY <1>3, <1>4, <2>1, AllNumbers
<1>6. Sub(f[N], N)
  <2>1. N \in T /\ N <= N
    <3> HIDE DEF T
    <3>. QED BY <1>2, <1>5
  <2> HIDE DEF Sub
  <2>. QED BY <2>1
<1>7. First(N) = C!ToSet(more)
  <2>1. DOMAIN more = 1..N
    BY SetOfSeq DEF N
  <2>. QED BY <2>1 DEF C!ToSet
<1>8. f[N] \in Seq(S)
  BY <1>1, <1>2
<1> HIDE DEF First
<1>. QED BY <1>1, <1>6, <1>7, <1>8 DEF Added

------------------------------------------------------------------------------
(* SortBy puts every item in a place of its own, in the order of Precedes. *)

Keys(key, n) == key \in [1..n -> Int \X Int]

LEMMA PrecedesOrders ==
    ASSUME NEW n \in Nat, NEW key, Keys(key, n), NEW i \in 1..n, NEW j \in 1..n
    PROVE  /\ ~C!Precedes(key, i, i)
           /\ C!Precedes(key, i, j) => ~C!Precedes(key, j, i)
           /\ i # j => C!Precedes(key, i, j) \/ C!Precedes(key, j, i)
           /\ \A k \in 1..n :
                 C!Precedes(key, k, i) /\ C!Precedes(key, i, j) => C!Precedes(key, k, j)
<1>1. \A k \in 1..n : /\ key[k][1] \in Int /\ key[k][2] \in Int
                      /\ key[k] = <<key[k][1], key[k][2]>>
  BY DEF Keys
<1>2. \A k, l \in 1..n : key[k] = key[l] <=> key[k][1] = key[l][1] /\ key[k][2] = key[l][2]
  BY <1>1
<1>3. \A k \in 1..n : k \in Int
  OBVIOUS
<1>. QED BY <1>1, <1>2, <1>3 DEF C!Precedes

LEMMA SameCardinality == \A set : C!Cardinality(set) = Cardinality(set)
BY DEF C!Cardinality, Cardinality

(* p[m] is the position before sorting of the item that gets place m.      *)
Sorts(p, n, key) ==
    /\ p \in [1..n -> 1..n]
    /\ \A i \in 1..n : \E m \in 1..n : p[m] = i
    /\ \A k, m \in 1..n : k # m => p[k] # p[m]
    /\ \A k, m \in 1..n : k < m => C!Precedes(key, p[k], p[m])

Sorted(s, items, key) ==
    /\ Len(s) = Len(items)
    /\ \E p : Sorts(p, Len(items), key) /\ \A m \in 1..Len(items) : s[m] = items[p[m]]

LEMMA SortByFacts ==
    ASSUME NEW S, NEW items \in Seq(S), NEW key, Keys(key, Len(items))
    PROVE  C!SortBy(items, key) \in Seq(S) /\ Sorted(C!SortBy(items, key), items, key)
<1> DEFINE n == Len(items)
           D == DOMAIN items
           upto(i) == {j \in D : j = i \/ C!Precedes(key, j, i)}
           place == [i \in D |-> Cardinality(upto(i))]
           pos(m) == CHOOSE i \in D : place[i] = m
           p == [m \in D |-> pos(m)]
<1>1. n \in Nat /\ DOMAIN items = 1..n /\ \A i \in 1..n : items[i] \in S
  BY SetOfSeq
<1>2. C!SortBy(items, key) = [m \in 1..n |-> items[p[m]]]
  <2>1. place = [i \in D |-> C!Cardinality(upto(i))]
    <3> HIDE DEF upto, D
    <3>. QED BY SameCardinality
  <2>2. C!SortBy(items, key) = [m \in D |-> items[pos(m)]]
    <3> HIDE DEF place
    <3>. QED BY <2>1 DEF C!SortBy
  <2>3. C!SortBy(items, key) = [m \in D |-> items[p[m]]]
    <3> HIDE DEF D, pos
    <3>. QED BY <2>2
  <2> HIDE DEF n, p
  <2>. QED BY <1>1, <2>3
<1>3. Keys(key, n) /\ D = 1..n
  BY <1>1
<1> HIDE DEF n, D
<1>4. IsFiniteSet(1..n) /\ Cardinality(1..n) = n
  <2>1. 0 \in Int /\ 1 \in Int /\ n \in Int /\ n - 1 + 1 = n
    BY <1>1
  <2>. QED BY <1>1, <2>1, FS_Interval
<1>5. ASSUME NEW i \in 1..n
      PROVE  IsFiniteSet(upto(i)) /\ Cardinality(upto(i)) \in 1..n /\ i \in upto(i)
  <2>1. upto(i) \in SUBSET (1..n) /\ i \in upto(i)
    BY <1>3
  <2> HIDE DEF upto
  <2>2. IsFiniteSet(upto(i)) /\ Cardinality(upto(i)) <= n
    BY <1>4, <2>1, FS_Subset
  <2>3. Cardinality(upto(i)) \in Nat /\ Cardinality(upto(i)) # 0
    BY <2>1, <2>2, FS_CardinalityType, FS_EmptySet
  <2>. QED BY <1>1, <2>1, <2>2, <2>3
<1>6. ASSUME NEW i \in 1..n, NEW j \in 1..n, C!Precedes(key, i, j)
      PROVE  Cardinality(upto(i)) < Cardinality(upto(j))
  <2>1. upto(i) \in SUBSET upto(j)
    BY <1>1, <1>3, <1>6, PrecedesOrders
  <2>2. j \in upto(j) /\ j \notin upto(i)
    BY <1>1, <1>3, <1>6, PrecedesOrders
  <2> HIDE DEF upto
  <2>3. IsFiniteSet(upto(j)) /\ Cardinality(upto(i)) \in 1..n /\ Cardinality(upto(j)) \in 1..n
    BY <1>5
  <2>4. Cardinality(upto(i)) <= Cardinality(upto(j)) /\ Cardinality(upto(i)) # Cardinality(upto(j))
    BY <2>1, <2>2, <2>3, FS_Subset
  <2>. QED BY <2>3, <2>4
<1>7. /\ place \in [1..n -> 1..n]
      /\ \A i, j \in 1..n : C!Precedes(key, i, j) => place[i] < place[j]
  <2> HIDE DEF upto
  <2>. QED BY <1>3, <1>5, <1>6
<1> HIDE DEF place
<1>8. \A i, j \in 1..n : i # j => place[i] # place[j]
  <2>1. ASSUME NEW i \in 1..n, NEW j \in 1..n, i # j PROVE place[i] # place[j]
    <3>1. C!Precedes(key, i, j) \/ C!Precedes(key, j, i)
      BY <1>1, <1>3, <2>1, PrecedesOrders
    <3>2. place[i] < place[j] \/ place[j] < place[i]
      BY <1>7, <3>1
    <3>3. place[i] \in 1..n /\ place[j] \in 1..n
      BY <1>7
    <3>. QED BY <3>2, <3>3
  <2>. QED BY <2>1
<1>9. \A m \in 1..n : \E i \in 1..n : place[i] = m
  <2>1. place \in Injection(1..n, 1..n)
    BY <1>7, <1>8 DEF Injection, IsInjective
  <2>2. place \in Surjection(1..n, 1..n)
    BY <1>4, <2>1, FS_Injection
  <2>. QED BY <2>2 DEF Surjection
<1>10. \A m \in 1..n : p[m] \in 1..n /\ place[p[m]] = m
  BY <1>3, <1>9
<1>11. p \in [1..n -> 1..n]
  BY <1>3, <1>10
<1> HIDE DEF p
<1>12. \A i \in 1..n : \E m \in 1..n : p[m] = i
  <2>1. ASSUME NEW i \in 1..n PROVE \E m \in 1..n : p[m] = i
    <3>1. place[i] \in 1..n
      BY <1>7
    <3>2. p[place[i]] \in 1..n /\ place[p[place[i]]] = place[i]
      BY <1>10, <3>1
    <3>. QED BY <1>8, <3>1, <3>2
  <2>. QED BY <2>1
<1>13. ASSUME NEW k \in 1..n, NEW m \in 1..n, k # m PROVE p[k] # p[m]
  BY <1>10, <1>13
<1>14. ASSUME NEW k \in 1..n, NEW m \in 1..n, k < m PROVE C!Precedes(key, p[k], p[m])
  <2>1. p[k] \in 1..n /\ p[m] \in 1..n /\ place[p[k]] = k /\ place[p[m]] = m
    BY <1>10
  <2>2. ~(m < k) /\ k # m
    BY <1>14
  <2>3. ~C!Precedes(key, p[m], p[k])
    BY <1>7, <2>1, <2>2
  <2>4. p[k] # p[m]
    BY <1>13, <2>2
  <2>. QED BY <1>1, <1>3, <2>1, <2>3, <2>4, PrecedesOrders
<1>15. Sorts(p, n, key)
  BY <1>11, <1>12, <1>13, <1>14 DEF Sorts
<1>16. PICK s : s = [m \in 1..n |-> items[p[m]]]
  OBVIOUS
<1>17. s \in Seq(S) /\ Len(s) = n /\ \A m \in 1..n : s[m] = items[p[m]]
  <2>1. \A m \in 1..n : items[p[m]] \in S
    BY <1>1, <1>11
  <2>2. s \in [1..n -> S]
    BY <1>16, <2>1
  <2>. QED BY <1>1, <1>16, <2>2, SeqDef, LenProperties
<1>18. Sorted(s, items, key)
  BY <1>15, <1>17 DEF Sorted, n
<1>. QED BY <1>2, <1>16, <1>17, <1>18

------------------------------------------------------------------------------
(* The order of an answer, for cards h and a question a.                   *)

Unrelated(query, c) ==
    /\ ~C!CardMatches(query, c)
    /\ ~C!SlotIntent(query, c)
    /\ ~C!TermsMatch(query, <<c.slot>>)
    /\ ~C!TermsMatch(query, C!LowerAll(c.value))

LEMMA Relevances ==
    ASSUME NEW query, NEW c
    PROVE  /\ C!CardRelevanceScore(query, c) \in Nat
           /\ C!SlotIntent(query, c) => C!CardRelevanceScore(query, c) >= 12
           /\ Unrelated(query, c) => C!CardRelevanceScore(query, c) <= 1
BY DEF C!CardRelevanceScore, C!KindIntentScore, C!Points, Unrelated, C!CardMatches

Cut(a) == IF MaxCards < a.samples THEN MaxCards ELSE a.samples

Best(h, a) ==
    SubSeq(C!SortBy(C!ByRecency(h), C!RankKeys(C!LowerAll(a.query), C!ByRecency(h))),
           1, IF Len(h) < Cut(a) THEN Len(h) ELSE Cut(a))

Ranked(r, h, a) ==
    LET query == C!LowerAll(a.query) IN
    /\ \A i, j \in DOMAIN r : i < j =>
          /\ Unrelated(query, r[i]) => ~C!SlotIntent(query, r[j])
          /\ C!CardRelevanceScore(query, r[i]) = C!CardRelevanceScore(query, r[j]) =>
                r[i].at >= r[j].at
    /\ \A c \in C!ToSet(h) \ C!ToSet(r), d \in C!ToSet(r) :
          C!SlotIntent(query, c) => ~Unrelated(query, d)

(* The cards of h in the order of their age, and then in that of the rank: *)
(* p[m] is the place among the former of the card at place m of the latter.*)
InOrder(r, h, a, byAge, p, k) ==
    LET n == Len(h)
        key == C!RankKeys(C!LowerAll(a.query), byAge)
    IN  /\ DOMAIN byAge = 1..n
        /\ \A i, j \in 1..n : i < j => byAge[i].at >= byAge[j].at
        /\ C!ToSet(h) = C!ToSet(byAge)
        /\ C!EachOnce(h) => C!EachOnce(byAge)
        /\ Sorts(p, n, key)
        /\ k \in 0..n /\ DOMAIN r = 1..k
        /\ \A m \in 1..k : r[m] = byAge[p[m]]

LEMMA SortedSet ==
    ASSUME NEW S, NEW h \in Seq(S), NEW s \in Seq(S), NEW key, Sorted(s, h, key)
    PROVE  C!ToSet(s) = C!ToSet(h) /\ (C!EachOnce(h) => C!EachOnce(s))
<1>1. PICK p : Sorts(p, Len(h), key) /\ \A m \in 1..Len(h) : s[m] = h[p[m]]
  BY DEF Sorted
<1>2. Len(s) = Len(h) /\ DOMAIN s = 1..Len(h) /\ DOMAIN h = 1..Len(h)
  BY SetOfSeq DEF Sorted
<1>3. /\ p \in [1..Len(h) -> 1..Len(h)]
      /\ \A i \in 1..Len(h) : \E m \in 1..Len(h) : p[m] = i
      /\ \A k, m \in 1..Len(h) : k # m => p[k] # p[m]
  BY <1>1 DEF Sorts
<1>4. \A x : x \in C!ToSet(s) <=> x \in C!ToSet(h)
  <2>1. /\ \A x : x \in C!ToSet(s) <=> \E i \in 1..Len(s) : s[i] = x
        /\ \A x : x \in C!ToSet(h) <=> \E i \in 1..Len(h) : h[i] = x
    BY SetOfSeq
  <2>2. ASSUME NEW x \in C!ToSet(s) PROVE x \in C!ToSet(h)
    <3>1. PICK m \in 1..Len(h) : s[m] = x
      BY <1>2, <2>1
    <3>2. p[m] \in 1..Len(h) /\ h[p[m]] = x
      BY <1>1, <1>3, <3>1
    <3>. QED BY <2>1, <3>2
  <2>3. ASSUME NEW x \in C!ToSet(h) PROVE x \in C!ToSet(s)
    <3>1. PICK i \in 1..Len(h) : h[i] = x
      BY <2>1
    <3>2. PICK m \in 1..Len(h) : p[m] = i
      BY <1>3
    <3>3. s[m] = x
      BY <1>1, <3>1, <3>2
    <3>. QED BY <1>2, <2>1, <3>3
  <2>. QED BY <2>2, <2>3
<1>5. ASSUME C!EachOnce(h) PROVE C!EachOnce(s)
  <2>1. ASSUME NEW k \in 1..Len(h), NEW m \in 1..Len(h), k # m PROVE ~C!SameCard(s[k], s[m])
    <3>1. p[k] \in 1..Len(h) /\ p[m] \in 1..Len(h) /\ p[k] # p[m]
      BY <1>3, <2>1
    <3>2. ~C!SameCard(h[p[k]], h[p[m]])
      BY <1>2, <1>5, <3>1 DEF C!EachOnce
    <3>. QED BY <1>1, <2>1, <3>2
  <2>. QED BY <1>2, <2>1 DEF C!EachOnce
<1>. QED BY <1>4, <1>5

LEMMA BestInOrder ==
    ASSUME NEW S, \A c \in S : c.at \in Nat, NEW h \in Seq(S), NEW a, Cut(a) \in Nat
    PROVE  /\ Best(h, a) \in Seq(S)
           /\ \E byAge \in Seq(S) : \E p, k : InOrder(Best(h, a), h, a, byAge, p, k)
<1> DEFINE n == Len(h)
           age == [i \in DOMAIN h |-> <<0, h[i].at>>]
<1>1. n \in Nat /\ DOMAIN h = 1..n /\ \A i \in 1..n : h[i] \in S /\ h[i].at \in Nat
  BY SetOfSeq
<1>2. Keys(age, n)
  <2> HIDE DEF n
  <2>. QED BY <1>1 DEF Keys
<1>3. PICK byAge : byAge = C!ByRecency(h)
  OBVIOUS
<1>4. byAge \in Seq(S) /\ Sorted(byAge, h, age)
  <2>1. byAge = C!SortBy(h, age)
    BY <1>3 DEF C!ByRecency
  <2> HIDE DEF age
  <2>. QED BY <1>2, <2>1, SortByFacts
<1>5. /\ C!ToSet(byAge) = C!ToSet(h) /\ (C!EachOnce(h) => C!EachOnce(byAge))
  BY <1>4, SortedSet
<1>6. Len(byAge) = n /\ DOMAIN byAge = 1..n /\ \A i \in 1..n : byAge[i] \in S /\ byAge[i].at \in Nat
  BY <1>4, SetOfSeq DEF Sorted
<1>7. ASSUME NEW i \in 1..n, NEW j \in 1..n, i < j PROVE byAge[i].at >= byAge[j].at
  <2>1. PICK p : Sorts(p, n, age) /\ \A m \in 1..n : byAge[m] = h[p[m]]
    BY <1>4 DEF Sorted
  <2>2. /\ p[i] \in 1..n /\ p[j] \in 1..n /\ C!Precedes(age, p[i], p[j])
        /\ byAge[i] = h[p[i]] /\ byAge[j] = h[p[j]]
    BY <1>7, <2>1 DEF Sorts
  <2>3. age[p[i]] = <<0, byAge[i].at>> /\ age[p[j]] = <<0, byAge[j].at>>
    BY <1>1, <2>2
  <2> HIDE DEF age, n
  <2>4. byAge[i].at > byAge[j].at \/ byAge[i].at = byAge[j].at
    BY <2>2, <2>3 DEF C!Precedes
  <2>. QED BY <1>6, <2>4
<1>8. PICK key : key = C!RankKeys(C!LowerAll(a.query), byAge)
  OBVIOUS
<1>9. Keys(key, Len(byAge))
  <2>1. ASSUME NEW i \in 1..n
        PROVE  C!Score(C!LowerAll(a.query), byAge, i) \in Int
    <3>1. PICK rel \in Nat : rel = C!CardRelevanceScore(C!LowerAll(a.query), byAge[i])
      BY Relevances
    <3>2. PICK N \in Nat : N = Len(byAge)
      BY <1>1, <1>6
    <3>3. C!Score(C!LowerAll(a.query), byAge, i) = 100 * (N - 1) * rel + 2 * (N - i)
      BY <3>1, <3>2 DEF C!Score
    <3>4. i \in Int
      OBVIOUS
    <3>. QED BY <3>1, <3>2, <3>3, <3>4
  <2> HIDE DEF n
  <2>2. key = [i \in 1..n |-> <<C!Score(C!LowerAll(a.query), byAge, i), byAge[i].at>>]
    BY <1>6, <1>8 DEF C!RankKeys
  <2>. QED BY <1>6, <2>1, <2>2 DEF Keys
<1>10. PICK s : s = C!SortBy(byAge, key)
  OBVIOUS
<1>11. s \in Seq(S) /\ Sorted(s, byAge, key)
  BY <1>4, <1>9, <1>10, SortByFacts
<1>12. PICK p : Sorts(p, n, key) /\ \A m \in 1..n : s[m] = byAge[p[m]]
  BY <1>6, <1>11 DEF Sorted
<1>13. PICK k \in 0..n : k = IF n < Cut(a) THEN n ELSE Cut(a)
  <2> HIDE DEF n
  <2>. QED BY <1>1
<1>14. PICK r : r = Best(h, a)
  OBVIOUS
<1>15. r = SubSeq(s, 1, k)
  BY <1>3, <1>8, <1>10, <1>13, <1>14 DEF Best
<1>16. Len(s) = n
  BY <1>6, <1>11 DEF Sorted
<1>17. r \in Seq(S) /\ DOMAIN r = 1..k /\ \A m \in 1..k : r[m] = s[m]
  <2> HIDE DEF n
  <2>1. r = [m \in 1..k |-> s[m]] /\ k \in Nat
    <3>1. k \in Nat /\ k <= n /\ k - 1 + 1 = k
      BY <1>1
    <3>2. \A m \in 1..k : 1 + m - 1 = m
      BY <3>1
    <3>. QED BY <1>11, <1>15, <3>1, <3>2
  <2>2. \A m \in 1..k : s[m] \in S
    BY <1>1, <1>11, <1>16, SetOfSeq
  <2>3. r \in [1..k -> S]
    BY <2>1, <2>2
  <2>. QED BY <2>1, <2>3, SeqDef
<1>18. \A m \in 1..k : r[m] = byAge[p[m]]
  <2> HIDE DEF n
  <2>1. \A m \in 1..k : m \in 1..n
    BY <1>1
  <2>. QED BY <1>12, <1>17, <2>1
<1>19. InOrder(r, h, a, byAge, p, k)
  BY <1>5, <1>6, <1>7, <1>8, <1>12, <1>13, <1>17, <1>18 DEF InOrder
<1>. QED BY <1>4, <1>14, <1>17, <1>19

(* An earlier place in the order of the rank means no smaller a score.     *)
LEMMA RankedScores ==
    ASSUME NEW n \in Nat, NEW x \in 1..n, NEW y \in 1..n, x # y, NEW u \in Nat, NEW v \in Nat,
           100 * (n - 1) * u + 2 * (n - x) >= 100 * (n - 1) * v + 2 * (n - y)
    PROVE  /\ ~(u <= 1 /\ v >= 12)
           /\ u = v => x < y
<1>1. PICK d \in Nat : d = n - 1
  OBVIOUS
<1>2. d >= 1 /\ n - x <= d /\ n - y >= 0 /\ n - x \in Nat /\ n - y \in Nat
  BY <1>1
<1>3. u <= 1 => 100 * d * u <= 100 * d
  BY <1>1
<1>4. v >= 12 => 100 * d * v >= 1200 * d
  <2>1. ASSUME v >= 12 PROVE 100 * d * v >= 1200 * d
    <3>1. PICK w \in Nat : v = 12 + w
      <4>1. v - 12 \in Nat /\ v = 12 + (v - 12)
        BY <2>1
      <4>. QED BY <4>1
    <3>2. d * w \in Nat /\ 100 * d * v = 1200 * d + 100 * (d * w)
      BY <3>1
    <3>. QED BY <3>2
  <2>. QED BY <2>1
<1>5. 100 * d * u \in Nat /\ 100 * d * v \in Nat
  OBVIOUS
<1>6. 100 * d * u + 2 * (n - x) >= 100 * d * v + 2 * (n - y)
  BY <1>1
<1>7. PICK e \in Nat, f \in Nat : e = 100 * d * u /\ f = 100 * d * v
  BY <1>5
<1>8. e + 2 * (n - x) >= f + 2 * (n - y)
  BY <1>6, <1>7
<1>9. ~(u <= 1 /\ v >= 12)
  BY <1>2, <1>3, <1>4, <1>7, <1>8
<1>10. u = v => x < y
  BY <1>7, <1>8
<1>. QED BY <1>9, <1>10

LEMMA BestIsRanked ==
    ASSUME NEW S, \A c \in S : c.at \in Nat, NEW h \in Seq(S), NEW a, Cut(a) \in Nat
    PROVE  /\ Best(h, a) \in Seq(S)
           /\ C!ToSet(Best(h, a)) \subseteq C!ToSet(h)
           /\ C!EachOnce(h) => C!EachOnce(Best(h, a))
           /\ Ranked(Best(h, a), h, a)
<1>1. PICK r : r = Best(h, a)
  OBVIOUS
<1>2. r \in Seq(S) /\ \E byAge \in Seq(S) : \E p, k : InOrder(r, h, a, byAge, p, k)
  BY <1>1, BestInOrder
<1>3. PICK byAge \in Seq(S) : \E p, k : InOrder(r, h, a, byAge, p, k)
  BY <1>2
<1>4. PICK p, k : InOrder(r, h, a, byAge, p, k)
  BY <1>3
<1>5. PICK n \in Nat : n = Len(h)
  BY LenProperties
<1>6. PICK query : query = C!LowerAll(a.query)
  OBVIOUS
<1>7. PICK key : key = C!RankKeys(query, byAge)
  OBVIOUS
<1>8. /\ DOMAIN byAge = 1..n
      /\ \A i, j \in 1..n : i < j => byAge[i].at >= byAge[j].at
      /\ C!ToSet(h) = C!ToSet(byAge)
      /\ C!EachOnce(h) => C!EachOnce(byAge)
      /\ Sorts(p, n, key)
      /\ k \in 0..n /\ DOMAIN r = 1..k
      /\ \A m \in 1..k : r[m] = byAge[p[m]]
  BY <1>4, <1>5, <1>6, <1>7 DEF InOrder
<1>9. /\ \A m \in 1..n : p[m] \in 1..n
      /\ \A i \in 1..n : \E m \in 1..n : p[m] = i
      /\ \A i, m \in 1..n : i # m => p[i] # p[m]
      /\ \A i, m \in 1..n : i < m => C!Precedes(key, p[i], p[m])
  BY <1>8 DEF Sorts
<1>10. \A m \in 1..k : m \in 1..n
  BY <1>8
<1>11. C!ToSet(r) \subseteq C!ToSet(h)
  <2>1. ASSUME NEW m \in 1..k PROVE r[m] \in C!ToSet(byAge)
    <3>1. r[m] = byAge[p[m]] /\ p[m] \in DOMAIN byAge
      BY <1>8, <1>9, <1>10
    <3>. QED BY <3>1 DEF C!ToSet
  <2>2. C!ToSet(r) = {r[m] : m \in 1..k}
    BY <1>8 DEF C!ToSet
  <2>. QED BY <1>8, <2>1, <2>2
<1>12. ASSUME C!EachOnce(h) PROVE C!EachOnce(r)
  <2>1. ASSUME NEW i \in 1..k, NEW m \in 1..k, i # m PROVE ~C!SameCard(r[i], r[m])
    <3>1. p[i] \in 1..n /\ p[m] \in 1..n /\ p[i] # p[m]
      BY <1>9, <1>10, <2>1
    <3>2. ~C!SameCard(byAge[p[i]], byAge[p[m]])
      BY <1>8, <1>12, <3>1 DEF C!EachOnce
    <3>. QED BY <1>8, <2>1, <3>2
  <2>. QED BY <1>8, <2>1 DEF C!EachOnce
<1>13. ASSUME NEW i \in 1..n, NEW j \in 1..n, i < j
       PROVE  /\ Unrelated(query, byAge[p[i]]) => ~C!SlotIntent(query, byAge[p[j]])
              /\ C!CardRelevanceScore(query, byAge[p[i]]) = C!CardRelevanceScore(query, byAge[p[j]])
                    => p[i] < p[j]
  <2>1. PICK x \in 1..n, y \in 1..n : x = p[i] /\ y = p[j]
    BY <1>9
  <2>2. x # y /\ C!Precedes(key, x, y)
    <3>1. i # j
      BY <1>13
    <3>2. p[i] # p[j] /\ C!Precedes(key, p[i], p[j])
      BY <1>9, <1>13, <3>1
    <3>. QED BY <2>1, <3>2
  <2>3. PICK u \in Nat, v \in Nat : /\ u = C!CardRelevanceScore(query, byAge[x])
                                    /\ v = C!CardRelevanceScore(query, byAge[y])
    BY Relevances
  <2>4. Len(byAge) = n
    BY <1>8, LenProperties
  <2>5. /\ C!Score(query, byAge, x) = 100 * (n - 1) * u + 2 * (n - x)
        /\ C!Score(query, byAge, y) = 100 * (n - 1) * v + 2 * (n - y)
    BY <2>3, <2>4 DEF C!Score
  <2>6. /\ key[x][1] = C!Score(query, byAge, x)
        /\ key[y][1] = C!Score(query, byAge, y)
    BY <1>7, <1>8 DEF C!RankKeys
  <2>7. 100 * (n - 1) * u + 2 * (n - x) >= 100 * (n - 1) * v + 2 * (n - y)
    <3>1. PICK e \in Int, f \in Int : /\ e = 100 * (n - 1) * u + 2 * (n - x)
                                      /\ f = 100 * (n - 1) * v + 2 * (n - y)
      OBVIOUS
    <3>2. key[x][1] = e /\ key[y][1] = f
      BY <2>5, <2>6, <3>1
    <3>3. key[x][1] > key[y][1] \/ key[x][1] = key[y][1]
      BY <2>2 DEF C!Precedes
    <3>4. e >= f
      BY <3>2, <3>3
    <3>. QED BY <3>1, <3>4
  <2>8. ~(u <= 1 /\ v >= 12) /\ (u = v => x < y)
    BY <2>2, <2>7, RankedScores
  <2>9. /\ Unrelated(query, byAge[x]) => u <= 1
        /\ C!SlotIntent(query, byAge[y]) => v >= 12
    BY <2>3, Relevances
  <2>. QED BY <2>1, <2>3, <2>8, <2>9
<1>14. ASSUME NEW i \in DOMAIN r, NEW j \in DOMAIN r, i < j
       PROVE  /\ Unrelated(query, r[i]) => ~C!SlotIntent(query, r[j])
              /\ C!CardRelevanceScore(query, r[i]) = C!CardRelevanceScore(query, r[j]) =>
                    r[i].at >= r[j].at
  <2>1. i \in 1..n /\ j \in 1..n /\ r[i] = byAge[p[i]] /\ r[j] = byAge[p[j]]
    BY <1>8, <1>10
  <2>2. Unrelated(query, r[i]) => ~C!SlotIntent(query, r[j])
    BY <1>13, <1>14, <2>1
  <2>3. ASSUME C!CardRelevanceScore(query, r[i]) = C!CardRelevanceScore(query, r[j])
        PROVE  r[i].at >= r[j].at
    <3>1. p[i] < p[j] /\ p[i] \in 1..n /\ p[j] \in 1..n
      BY <1>9, <1>13, <1>14, <2>1, <2>3
    <3>. QED BY <1>8, <2>1, <3>1
  <2>. QED BY <2>2, <2>3
<1>15. ASSUME NEW c \in C!ToSet(h) \ C!ToSet(r), NEW d \in C!ToSet(r), C!SlotIntent(query, c)
       PROVE  ~Unrelated(query, d)
  <2>1. PICK j \in 1..n : c = byAge[p[j]]
    <3>1. c \in C!ToSet(byAge)
      BY <1>8
    <3>2. PICK l \in 1..n : c = byAge[l]
      BY <1>8, <3>1 DEF C!ToSet
    <3>3. PICK j \in 1..n : p[j] = l
      BY <1>9
    <3>. QED BY <3>2, <3>3
  <2>2. PICK i \in 1..k : d = byAge[p[i]]
    BY <1>8 DEF C!ToSet
  <2>3. j \notin 1..k
    BY <1>8, <1>15, <2>1 DEF C!ToSet
  <2>4. i \in 1..n /\ i < j
    BY <1>8, <1>10, <2>2, <2>3
  <2>. QED BY <1>13, <1>15, <2>1, <2>2, <2>4
<1>16. Ranked(r, h, a)
  BY <1>6, <1>14, <1>15 DEF Ranked
<1>. QED BY <1>1, <1>2, <1>11, <1>12, <1>16

------------------------------------------------------------------------------
(* The graph is made of the entries of the archive that are cards, one by  *)
(* one: an entry that is appended to the archive leaves the graph alone or *)
(* puts a card at its end.                                                 *)

HasCard(e) == "other" \in DOMAIN e \/ "cites" \in DOMAIN e

CardOf(e) == IF "other" \in DOMAIN e THEN Stored(e.other, e.other.frame, e.at)
             ELSE Stored(e.card, e.cites, e.of.turn)

GraphOf(l) ==
    LET put[n \in 0..Len(l)] ==
            IF n = 0 THEN <<>>
            ELSE IF "other" \in DOMAIN l[n]
                 THEN Append(put[n - 1], Stored(l[n].other, l[n].other.frame, l[n].at))
            ELSE IF "cites" \in DOMAIN l[n]
                 THEN Append(put[n - 1], Stored(l[n].card, l[n].cites, l[n].of.turn))
            ELSE put[n - 1]
    IN  put[Len(l)]

LEMMA GraphIs == Graph = GraphOf(log)
BY DEF Graph, GraphOf

Collecting(f, S, l) ==
    /\ f \in [0..Len(l) -> Seq(S)]
    /\ f[0] = <<>>
    /\ \A n \in 1..Len(l) :
          f[n] = IF HasCard(l[n]) THEN Append(f[n - 1], CardOf(l[n])) ELSE f[n - 1]
    /\ GraphOf(l) = f[Len(l)]

LEMMA GraphDef ==
    ASSUME NEW T, NEW l \in Seq(T), NEW S, \A e \in T : HasCard(e) => CardOf(e) \in S
    PROVE  \E f : Collecting(f, S, l)
<1> DEFINE N == Len(l)
           Body(f, n) == IF n = 0 THEN <<>>
                         ELSE IF "other" \in DOMAIN l[n]
                              THEN Append(f[n - 1], Stored(l[n].other, l[n].other.frame, l[n].at))
                         ELSE IF "cites" \in DOMAIN l[n]
                              THEN Append(f[n - 1], Stored(l[n].card, l[n].cites, l[n].of.turn))
                         ELSE f[n - 1]
           Taken(s, n) == IF HasCard(l[n]) THEN Append(s, CardOf(l[n])) ELSE s
           step == [q \in (1..N) \X Seq(S) |-> Taken(q[2], q[1])]
<1>1. N \in Nat /\ <<>> \in Seq(S)
  BY LenProperties, EmptySeq
<1>2. step \in [(1..N) \X Seq(S) -> Seq(S)]
  <2>1. ASSUME NEW q \in (1..N) \X Seq(S) PROVE Taken(q[2], q[1]) \in Seq(S)
    <3>1. l[q[1]] \in T /\ q[2] \in Seq(S)
      BY ElementOfSeq
    <3>. QED BY <3>1, AppendProperties
  <2> HIDE DEF Taken
  <2>. QED BY <2>1
<1>3. PICK h : Follows(h, Seq(S), <<>>, N, step)
  <2> HIDE DEF step, N
  <2>. QED BY <1>1, <1>2, Recursion
<1>4. /\ h \in [0..N -> Seq(S)] /\ h[0] = <<>>
      /\ \A n \in 1..N : h[n] = step[<<n, h[n - 1]>>]
      /\ \A n \in 1..N : n - 1 \in 0..N /\ h[n - 1] \in Seq(S)
  <2> HIDE DEF step
  <2>1. /\ h \in [0..N -> Seq(S)] /\ h[0] = <<>>
        /\ \A n \in 1..N : h[n] = step[<<n, h[n - 1]>>]
    BY <1>3 DEF Follows
  <2> HIDE DEF N
  <2>2. \A n \in 1..N : n - 1 \in 0..N
    BY <1>1
  <2>. QED BY <2>1, <2>2
<1>5. \A s \in Seq(S) : \A n \in 1..N : step[<<n, s>>] = Taken(s, n)
  <2> HIDE DEF Taken
  <2>. QED OBVIOUS
<1>6. \A f : \A n \in 1..N : Body(f, n) = Taken(f[n - 1], n)
  <2>1. \A n \in 1..N : n # 0
    BY <1>1
  <2>. QED BY <2>1 DEF HasCard, CardOf
<1>7. h = [n \in 0..N |-> Body(h, n)]
  <2>1. ASSUME NEW n \in 0..N PROVE h[n] = Body(h, n)
    <3>1. n = 0 \/ n \in 1..N
      BY <1>1
    <3>2. CASE n = 0
      BY <1>4, <3>2
    <3>3. CASE n \in 1..N
      <4> HIDE DEF step, Body, Taken
      <4>. QED BY <1>4, <1>5, <1>6, <3>3
    <3>. QED BY <3>1, <3>2, <3>3
  <2> HIDE DEF Body, N, step
  <2>. QED BY <1>4, <2>1
<1>8. GraphOf(l) = (CHOOSE f : f = [n \in 0..N |-> Body(f, n)])[N]
  BY DEF GraphOf
<1>9. PICK f : f = [n \in 0..N |-> Body(f, n)] /\ GraphOf(l) = f[N]
  <2> HIDE DEF Body
  <2>. QED BY <1>7, <1>8
<1>10. f[0] = <<>> /\ \A n \in 1..N : f[n] = Taken(f[n - 1], n)
  <2>1. 0 \in 0..N /\ \A n \in 1..N : n \in 0..N
    BY <1>1
  <2>2. \A n \in 0..N : f[n] = Body(f, n)
    <3> HIDE DEF Body
    <3>. QED BY <1>9
  <2>3. Body(f, 0) = <<>>
    OBVIOUS
  <2> HIDE DEF Body, Taken, N
  <2>. QED BY <1>6, <2>1, <2>2, <2>3
<1>11. f = h
  <2>1. f = [n \in 0..N |-> f[n]]
    <3> HIDE DEF Body
    <3>. QED BY <1>9
  <2> HIDE DEF step, N, Body, Taken
  <2>2. \A n \in 1..N : f[n - 1] \in Seq(S) => f[n] = step[<<n, f[n - 1]>>]
    BY <1>5, <1>10
  <2>3. FollowsIn(f, Seq(S), <<>>, N, step)
    BY <1>10, <2>1, <2>2 DEF FollowsIn
  <2>. QED BY <1>1, <1>3, <2>3, OneFollows
<1>. QED BY <1>4, <1>9, <1>10, <1>11 DEF Collecting

IsSequence(s) == \E S : s \in Seq(S)

GraphOK(g) == IsSequence(g) /\ \A c \in C!ToSet(g) : c.at \in Nat

EntryOK(e) == HasCard(e) => CardOf(e).at \in Nat

LogOK(l) == IsSequence(l) /\ \A i \in 1..Len(l) : EntryOK(l[i])

LEMMA SequenceOfOwn ==
    ASSUME NEW s, IsSequence(s)
    PROVE  /\ s \in Seq(C!ToSet(s)) /\ Len(s) \in Nat /\ DOMAIN s = 1..Len(s)
           /\ \A x : x \in C!ToSet(s) <=> \E i \in 1..Len(s) : s[i] = x
<1>1. PICK S : s \in Seq(S)
  BY DEF IsSequence
<1>2. /\ Len(s) \in Nat /\ DOMAIN s = 1..Len(s)
      /\ \A x : x \in C!ToSet(s) <=> \E i \in 1..Len(s) : s[i] = x
  BY <1>1, SetOfSeq
<1>3. s = [i \in 1..Len(s) |-> s[i]]
  BY <1>1, <1>2, SeqDef
<1>4. s \in [1..Len(s) -> C!ToSet(s)]
  BY <1>2, <1>3
<1>. QED BY <1>2, <1>4, SeqDef

LEMMA GraphCards ==
    ASSUME NEW l, IsSequence(l)
    PROVE  /\ IsSequence(GraphOf(l))
           /\ \A c \in C!ToSet(GraphOf(l)) :
                 \E i \in 1..Len(l) : HasCard(l[i]) /\ c = CardOf(l[i])
<1>1. l \in Seq(C!ToSet(l)) /\ \A x : x \in C!ToSet(l) <=> \E i \in 1..Len(l) : l[i] = x
  BY SequenceOfOwn
<1> DEFINE S == {CardOf(e) : e \in {e \in C!ToSet(l) : HasCard(e)}}
<1>2. \A e \in C!ToSet(l) : HasCard(e) => CardOf(e) \in S
  OBVIOUS
<1>3. \A c \in S : \E i \in 1..Len(l) : HasCard(l[i]) /\ c = CardOf(l[i])
  BY <1>1
<1> HIDE DEF S
<1>4. PICK f : Collecting(f, S, l)
  BY <1>1, <1>2, GraphDef
<1>5. GraphOf(l) \in Seq(S)
  <2>1. Len(l) \in 0..Len(l)
    BY <1>1, LenProperties
  <2>. QED BY <1>4, <2>1 DEF Collecting
<1>6. \A c \in C!ToSet(GraphOf(l)) : c \in S
  BY <1>5, SetOfSeq
<1>. QED BY <1>3, <1>5, <1>6 DEF IsSequence

LEMMA GraphIsOK ==
    ASSUME NEW l, LogOK(l)
    PROVE  GraphOK(GraphOf(l))
BY GraphCards DEF GraphOK, LogOK, EntryOK

GrowsByOne(g, h) == h = g \/ \E c : c.at \in Nat /\ h = Append(g, c)

LEMMA GraphGrows ==
    ASSUME NEW l, LogOK(l), NEW e, EntryOK(e)
    PROVE  /\ LogOK(Append(l, e)) /\ GrowsByOne(GraphOf(l), GraphOf(Append(l, e)))
           /\ HasCard(e) => GraphOf(Append(l, e)) = Append(GraphOf(l), CardOf(e))
<1> DEFINE T == C!ToSet(l) \cup {e}
           S == {CardOf(x) : x \in {x \in T : HasCard(x)}}
           m == Append(l, e)
           N == Len(l)
<1>1. l \in Seq(C!ToSet(l)) /\ \A x : x \in C!ToSet(l) <=> \E i \in 1..Len(l) : l[i] = x
  BY SequenceOfOwn DEF LogOK
<1>2. l \in Seq(T) /\ e \in T
  BY <1>1, SeqMonotonic
<1>3. \A x \in T : HasCard(x) => CardOf(x) \in S
  OBVIOUS
<1> HIDE DEF T, S
<1>4. /\ m \in Seq(T) /\ Len(m) = N + 1 /\ N \in Nat /\ m[N + 1] = e
      /\ \A i \in 1..N : m[i] = l[i]
  BY <1>2, SetOfAppend, LenProperties
<1> HIDE DEF m, N
<1>5. LogOK(m)
  <2>1. \A i \in 1..(N + 1) : i \in 1..N \/ i = N + 1
    BY <1>4
  <2>2. \A i \in 1..N : EntryOK(l[i])
    BY DEF LogOK, N
  <2>. QED BY <1>4, <2>1, <2>2 DEF LogOK, IsSequence
<1>6. PICK f : Collecting(f, S, l)
  BY <1>2, <1>3, GraphDef
<1>7. PICK h : Collecting(h, S, m)
  BY <1>3, <1>4, GraphDef
<1>8. /\ f[0] = <<>>
      /\ \A n \in 1..N : f[n] = IF HasCard(l[n]) THEN Append(f[n - 1], CardOf(l[n])) ELSE f[n - 1]
      /\ GraphOf(l) = f[N]
  BY <1>6 DEF Collecting, N
<1>9. /\ h[0] = <<>>
      /\ \A n \in 1..(N + 1) :
            h[n] = IF HasCard(m[n]) THEN Append(h[n - 1], CardOf(m[n])) ELSE h[n - 1]
      /\ GraphOf(m) = h[N + 1]
  BY <1>4, <1>7 DEF Collecting
<1> DEFINE U == {n \in Nat : n <= N => h[n] = f[n]}
<1>10. 0 \in U
  BY <1>8, <1>9
<1>11. ASSUME NEW n \in U PROVE n + 1 \in U
  <2>1. n \in Nat
    OBVIOUS
  <2>2. SUFFICES ASSUME n + 1 <= N PROVE h[n + 1] = f[n + 1]
    BY <2>1
  <2>3. n + 1 \in 1..N /\ n + 1 \in 1..(N + 1) /\ (n + 1) - 1 = n /\ h[n] = f[n]
    BY <1>4, <2>1, <2>2
  <2> HIDE DEF U
  <2>4. m[n + 1] = l[n + 1]
    BY <1>4, <2>3
  <2>. QED BY <1>8, <1>9, <2>3, <2>4
<1>12. U = Nat
  <2>1. U \subseteq Nat
    OBVIOUS
  <2> HIDE DEF U
  <2>. QED BY <1>10, <1>11, <2>1, AllNumbers
<1>13. h[N] = f[N]
  <2>1. N \in U /\ N <= N
    <3> HIDE DEF U
    <3>. QED BY <1>4, <1>12
  <2>. QED BY <2>1
<1>14. GraphOf(m) = IF HasCard(e) THEN Append(GraphOf(l), CardOf(e)) ELSE GraphOf(l)
  <2>1. N + 1 \in 1..(N + 1) /\ (N + 1) - 1 = N
    BY <1>4
  <2>2. h[N + 1] = IF HasCard(m[N + 1]) THEN Append(h[N], CardOf(m[N + 1])) ELSE h[N]
    BY <1>9, <2>1
  <2>. QED BY <1>4, <1>8, <1>9, <1>13, <2>2
<1>15. GrowsByOne(GraphOf(l), GraphOf(m))
  BY <1>14 DEF GrowsByOne, EntryOK
<1>. QED BY <1>5, <1>14, <1>15 DEF m

------------------------------------------------------------------------------
(* Whoever writes puts at most one entry into the archive in a step.       *)

LogStep ==
    /\ turn' \in [Runs -> Nat]
    /\ log' = log \/ \E e : EntryOK(e) /\ log' = Append(log, e)

LEMMA EntryFields ==
    ASSUME turn \in [Runs -> Nat], NEW r \in Runs
    PROVE  /\ \A text : EntryOK(H!Entry(r, text))
           /\ EntryOK(H!Card(r))
           /\ \A c : EntryOK([other |-> c, at |-> turn[r]])
<1>1. ASSUME NEW text PROVE EntryOK(H!Entry(r, text))
  BY DEF EntryOK, HasCard, H!Entry
<1>2. EntryOK(H!Card(r))
  <2>1. PICK e : e = H!Card(r)
    OBVIOUS
  <2>2. DOMAIN e = {"cites", "of", "card"} /\ e.of.turn = turn[r]
    BY <2>1 DEF H!Card, H!Current, H!Entry
  <2>3. CardOf(e).at = turn[r]
    BY <2>2 DEF CardOf, Stored
  <2>. QED BY <2>1, <2>3 DEF EntryOK
<1>3. ASSUME NEW c PROVE EntryOK([other |-> c, at |-> turn[r]])
  <2>1. PICK e : e = [other |-> c, at |-> turn[r]]
    OBVIOUS
  <2>2. "other" \in DOMAIN e /\ e.at = turn[r]
    BY <2>1
  <2>3. CardOf(e).at = turn[r]
    BY <2>2 DEF CardOf, Stored
  <2>. QED BY <2>1, <2>3 DEF EntryOK
<1>. QED BY <1>1, <1>2, <1>3

LEMMA HookLogStep ==
    ASSUME turn \in [Runs -> Nat], NEW r \in Runs, H!Run(r)
    PROVE  LogStep
<1>1. ASSUME NEW e, NEW fault, EntryOK(e), turn' = turn,
             H!PutSucceeds(e) \/ H!PutFails(fault) \/ H!PutPanics(e)
      PROVE  LogStep
  BY <1>1 DEF LogStep, H!PutSucceeds, H!PutFails, H!PutPanics, H!archive
<1>2. CASE H!OnCompletionCall(r)
  BY <1>2 DEF H!OnCompletionCall, H!archive, LogStep
<1>3. CASE H!OnCompletionResponse(r) \/ H!Return(r) \/ H!BeginWrite(r)
  BY <1>3 DEF H!OnCompletionResponse, H!Return, H!BeginWrite, H!archive, LogStep
<1>4. CASE H!Put(r)
  <2>1. turn' = turn /\ EntryOK(H!Current(r))
    BY <1>4, EntryFields DEF H!Put, H!Current
  <2>2. \/ H!PutSucceeds(H!Current(r)) \/ H!PutFails("put") \/ H!PutPanics(H!Current(r))
    BY <1>4 DEF H!Put
  <2>. QED BY <1>1, <2>1, <2>2
<1>5. CASE H!PutCard(r)
  <2>1. turn' = turn /\ EntryOK(H!Card(r))
    BY <1>5, EntryFields DEF H!PutCard
  <2>2. \/ H!PutSucceeds(H!Card(r)) \/ H!PutFails("card") \/ H!PutPanics(H!Card(r))
    BY <1>5 DEF H!PutCard
  <2>. QED BY <1>1, <2>1, <2>2
<1>6. CASE H!Commit(r)
  BY <1>6 DEF H!Commit, H!CommitSucceeds, H!CommitFails, H!CommitPanics, LogStep
<1>. QED BY <1>2, <1>3, <1>4, <1>5, <1>6 DEF H!Run, H!Method

LEMMA OtherLogStep ==
    ASSUME turn \in [Runs -> Nat], PutOtherCard
    PROVE  LogStep
<1>1. PICK c \in OtherCards, r \in Runs : H!PutSucceeds([other |-> c, at |-> turn[r]])
  BY DEF PutOtherCard
<1>2. EntryOK([other |-> c, at |-> turn[r]])
  BY EntryFields
<1>. QED BY <1>1, <1>2 DEF LogStep, PutOtherCard, turns, H!PutSucceeds

------------------------------------------------------------------------------
(* The selection, over a graph g: its stage, question, cards, names to     *)
(* look up, answer, and the number of cards there were when it began.      *)

Stages == {"idle", "rank", "cards_for_query", "all_cards", "preferences", "principal",
           "principal_lower", "scan", "related", "related_lower"}

Formed(g, at, a, h, t, r, b) ==
    /\ at \in Stages
    /\ IsSequence(t)
    /\ at \in Stages \ {"idle", "rank", "cards_for_query", "all_cards"} => t # <<>>
    /\ at \in {"principal", "principal_lower", "scan"} => t = a.names
    /\ a.by = "principal" => at \notin {"cards_for_query", "all_cards", "preferences"}
    /\ Cut(a) \in Nat
    /\ IsSequence(h) /\ C!ToSet(h) \subseteq C!ToSet(g)
    /\ r # <<>> => at = "idle" /\ r = Best(h, a)
    /\ b \in Nat /\ b <= Len(g)

(* No card is selected twice for a principal.                              *)
Once(g, a, h) == a.by = "principal" /\ C!EachOnce(g) => C!EachOnce(h)

(* The cards there were; which of them are selected up to same_card, and   *)
(* which will be when the names still to be looked up have been.           *)
Older(g, b) == C!ToSet(SubSeq(g, 1, b))

Spelled(g) == Folded \/ \A c \in C!ToSet(g) : c.entity = C!LowerAll(c.entity)

Kinds(g) == \A c, d \in C!ToSet(g) : C!SameCard(c, d) => c.kind = d.kind

Held(h, c) == \E x \in C!ToSet(h) : C!SameCard(x, c)

Named(t, c) == \E i \in 1..Len(t) : C!LowerAll(t[i]) = C!LowerAll(c.entity)

Sought(at, h, t, r, older, about) ==
    /\ at = "rank" \/ (at = "idle" /\ r # <<>>) => \A c \in about : Held(h, c)
    /\ at \in {"related", "related_lower"} => \A c \in about : Held(h, c) \/ Named(t, c)
    /\ at = "related_lower" /\ Folded =>
          \A c \in older : C!LowerAll(c.entity) # C!LowerAll(t[1])

NoneMissed(g, at, a, h, t, r, b) ==
    a.by = "principal" /\ Spelled(g) /\ Kinds(g) =>
        Sought(at, h, t, r, Older(g, b), C!About(Older(g, b), a.names[1]))

SelectionInv(g, at, a, h, t, r, b) ==
    Formed(g, at, a, h, t, r, b) /\ Once(g, a, h) /\ NoneMissed(g, at, a, h, t, r, b)

(* A card that is put while the selection is at work.                      *)
LEMMA SelectionGrows ==
    ASSUME NEW g, GraphOK(g), NEW k, GrowsByOne(g, k),
           NEW at, NEW a, NEW h, NEW t, NEW r, NEW b, SelectionInv(g, at, a, h, t, r, b)
    PROVE  GraphOK(k) /\ SelectionInv(k, at, a, h, t, r, b)
<1>1. CASE k = g
  BY <1>1
<1>2. ASSUME NEW c, c.at \in Nat, k = Append(g, c)
      PROVE  GraphOK(k) /\ SelectionInv(k, at, a, h, t, r, b)
  <2>1. g \in Seq(C!ToSet(g)) /\ Len(g) \in Nat /\ DOMAIN g = 1..Len(g)
    BY SequenceOfOwn DEF GraphOK
  <2> DEFINE S == C!ToSet(g) \cup {c}
  <2>2. g \in Seq(S) /\ c \in S
    BY <2>1, SeqMonotonic
  <2> HIDE DEF S
  <2>3. /\ k \in Seq(S) /\ Len(k) = Len(g) + 1
        /\ \A i \in 1..Len(g) : k[i] = g[i]
        /\ C!ToSet(k) = C!ToSet(g) \cup {c}
    BY <1>2, <2>2, SetOfAppend
  <2>4. GraphOK(k)
    BY <1>2, <2>3 DEF GraphOK, IsSequence
  <2>5. Formed(k, at, a, h, t, r, b)
    <3>1. Formed(g, at, a, h, t, r, b)
      BY DEF SelectionInv
    <3>. QED BY <2>1, <2>3, <3>1 DEF Formed
  <2>6. C!EachOnce(k) => C!EachOnce(g)
    <3>1. DOMAIN k = 1..(Len(g) + 1)
      BY <2>3, LenProperties
    <3>2. \A i \in 1..Len(g) : i \in 1..(Len(g) + 1)
      BY <2>1
    <3>. QED BY <2>1, <2>3, <3>1, <3>2 DEF C!EachOnce
  <2>7. (Spelled(k) => Spelled(g)) /\ (Kinds(k) => Kinds(g))
    BY <2>3 DEF Spelled, Kinds
  <2>8. Older(k, b) = Older(g, b)
    <3>1. PICK n \in Nat : n = Len(g)
      BY <2>1
    <3>2. b \in Nat /\ b <= n
      BY <3>1 DEF SelectionInv, Formed
    <3>3. SubSeq(k, 1, b) = [i \in 1..b |-> k[i]] /\ SubSeq(g, 1, b) = [i \in 1..b |-> g[i]]
      <4>1. b - 1 + 1 = b /\ \A i \in 1..b : 1 + i - 1 = i
        BY <3>2
      <4>. QED BY <2>2, <2>3, <3>1, <3>2, <4>1
    <3>4. \A i \in 1..b : k[i] = g[i]
      BY <2>3, <3>1, <3>2
    <3>5. SubSeq(k, 1, b) = SubSeq(g, 1, b)
      BY <3>3, <3>4
    <3>. QED BY <3>5 DEF Older
  <2>. QED BY <2>4, <2>5, <2>6, <2>7, <2>8 DEF SelectionInv, Once, NoneMissed
<1>. QED BY <1>1, <1>2 DEF GrowsByOne

------------------------------------------------------------------------------
(* The steps of the selection.  In the lemmas g is the graph they read.    *)

Reads(s, g, set) ==
    /\ s \in Seq(C!ToSet(g))
    /\ C!ToSet(s) = C!ToSet(g) \cap set
    /\ C!EachOnce(g) => C!EachOnce(s)
    /\ s = <<>> <=> C!ToSet(g) \cap set = {}

LEMMA EmptySequence ==
    ASSUME NEW S, NEW s \in Seq(S)
    PROVE  s = <<>> <=> C!ToSet(s) = {}
<1>1. Len(s) \in Nat /\ \A x : x \in C!ToSet(s) <=> \E i \in 1..Len(s) : s[i] = x
  BY SetOfSeq
<1>2. s = <<>> <=> Len(s) = 0
  BY EmptySeq
<1>3. Len(s) = 0 => C!ToSet(s) = {}
  BY <1>1
<1>4. Len(s) # 0 => 1 \in 1..Len(s)
  BY <1>1
<1>. QED BY <1>1, <1>2, <1>3, <1>4

LEMMA ChosenReads ==
    ASSUME NEW g, GraphOK(g), NEW set
    PROVE  Reads(C!Chosen(g, set), g, set)
<1>1. g \in Seq(C!ToSet(g))
  BY SequenceOfOwn DEF GraphOK
<1>2. PICK s : s = C!Chosen(g, set)
  OBVIOUS
<1>3. s \in Seq(C!ToSet(g)) /\ C!ToSet(s) = C!ToSet(g) \cap set /\ (C!EachOnce(g) => C!EachOnce(s))
  BY <1>1, <1>2, ChosenFacts
<1>. QED BY <1>2, <1>3, EmptySequence DEF Reads

CardsOfEntity(g, name) ==
    {c \in C!ToSet(g) :
        IF Folded THEN C!LowerAll(c.entity) = C!LowerAll(name) ELSE c.entity = name}

LEMMA EntityReads ==
    ASSUME NEW g, g = Graph, GraphOK(g), NEW name
    PROVE  Reads(C!EntityMemories(name), g, CardsOfEntity(g, name))
<1>1. C!EntityMemories(name) = C!Chosen(g, CardsOfEntity(g, name))
  BY DEF C!EntityMemories, CardsOfEntity
<1>. QED BY <1>1, ChosenReads

LEMMA TopNStep ==
    ASSUME NEW g, g = Graph, GraphOK(g), C!TopN
    PROVE  SelectionInv(g, stage', ask', hits', todo', reply', before')
<1>1. PICK a \in Asks : /\ ask' = a /\ stage' = C!First(a) /\ todo' = a.names
                        /\ hits' = <<>> /\ reply' = <<>> /\ before' = Len(g)
  BY DEF C!TopN
<1>2. /\ a.by \in {"mentions", "recent", "principal", "preferences"}
      /\ IsSequence(a.names)
      /\ a.by = "principal" => a.names # <<>>
      /\ Cut(a) \in Nat
  BY AsksAssumption DEF IsSequence, Cut
<1>3. /\ a.by = "mentions" => C!First(a) = "cards_for_query"
      /\ a.by = "recent" => C!First(a) = "all_cards"
      /\ a.by = "principal" => C!First(a) = "principal"
      /\ a.by = "preferences" => C!First(a) = IF a.names = <<>> THEN "rank" ELSE "preferences"
  BY DEF C!First
<1>4. Len(g) \in Nat
  BY SequenceOfOwn DEF GraphOK
<1>5. IsSequence(<<>>) /\ C!ToSet(<<>>) = {} /\ C!EachOnce(<<>>)
  BY EmptySeq DEF IsSequence, C!ToSet, C!EachOnce
<1>6. Formed(g, stage', ask', hits', todo', reply', before')
  BY <1>1, <1>2, <1>3, <1>4, <1>5 DEF Formed, Stages
<1>7. Once(g, ask', hits')
  BY <1>1, <1>5 DEF Once
<1>8. NoneMissed(g, stage', ask', hits', todo', reply', before')
  BY <1>1, <1>2, <1>3 DEF NoneMissed, Sought
<1>. QED BY <1>6, <1>7, <1>8 DEF SelectionInv

Inv(g) == SelectionInv(g, stage, ask, hits, todo, reply, before)

LEMMA FailStep ==
    ASSUME NEW g, GraphOK(g), Inv(g), C!ReadFails
    PROVE  SelectionInv(g, stage', ask', hits', todo', reply', before')
<1>1. /\ stage' = "idle" /\ hits' = <<>> /\ todo' = <<>> /\ ask' = ask
      /\ reply' = reply /\ before' = before /\ stage # "idle"
  BY DEF C!ReadFails
<1>2. Formed(g, stage, ask, hits, todo, reply, before)
  BY DEF Inv, SelectionInv
<1>3. reply = <<>>
  BY <1>1, <1>2 DEF Formed
<1>4. IsSequence(<<>>) /\ C!ToSet(<<>>) = {} /\ C!EachOnce(<<>>)
  BY EmptySeq DEF IsSequence, C!ToSet, C!EachOnce
<1>5. Formed(g, stage', ask', hits', todo', reply', before')
  BY <1>1, <1>2, <1>3, <1>4 DEF Formed, Stages
<1>. QED BY <1>1, <1>3, <1>4, <1>5 DEF SelectionInv, Once, NoneMissed, Sought

(* The strategies that read once, or once for each name.                   *)
LEMMA SimpleStep ==
    ASSUME NEW g, g = Graph, GraphOK(g), Inv(g),
           C!SelectEntityMentions \/ C!SelectRecent \/ C!SelectPreferences
    PROVE  SelectionInv(g, stage', ask', hits', todo', reply', before')
<1>1. /\ stage \in {"cards_for_query", "all_cards", "preferences"}
      /\ ask' = ask /\ reply' = reply /\ before' = before
  BY DEF C!SelectEntityMentions, C!SelectRecent, C!SelectPreferences, C!Reading
<1>2. Formed(g, stage, ask, hits, todo, reply, before)
  BY DEF Inv, SelectionInv
<1>3. ask.by # "principal" /\ reply = <<>>
  BY <1>1, <1>2 DEF Formed
<1>4. SUFFICES ASSUME TRUE
      PROVE  /\ stage' \in {"rank", "preferences"}
             /\ IsSequence(todo') /\ (stage' = "preferences" => todo' # <<>>)
             /\ IsSequence(hits') /\ C!ToSet(hits') \subseteq C!ToSet(g)
  BY <1>1, <1>2, <1>3 DEF SelectionInv, Formed, Once, NoneMissed, Stages
<1>5. g \in Seq(C!ToSet(g)) /\ IsSequence(g) /\ IsSequence(todo)
  BY <1>2, SequenceOfOwn DEF GraphOK, Formed
<1>6. CASE C!SelectEntityMentions
  <2>1. PICK set : hits' = C!Chosen(g, set)
    BY <1>6 DEF C!SelectEntityMentions, C!CardsForQuery
  <2>2. Reads(hits', g, set)
    BY <2>1, ChosenReads
  <2>. QED BY <1>5, <1>6, <2>2 DEF C!SelectEntityMentions, Reads, IsSequence
<1>7. CASE C!SelectRecent
  BY <1>5, <1>7 DEF C!SelectRecent
<1>8. CASE C!SelectPreferences
  <2>1. /\ stage = "preferences" /\ hits' = hits \o C!EntityPreferences(Head(todo))
        /\ todo' = Tail(todo) /\ stage' = IF Len(todo) = 1 THEN "rank" ELSE "preferences"
    BY <1>8 DEF C!SelectPreferences, C!Reading
  <2>2. PICK em : em = C!EntityMemories(Head(todo))
    OBVIOUS
  <2>3. Reads(em, g, CardsOfEntity(g, Head(todo)))
    BY <2>2, EntityReads
  <2>4. GraphOK(em)
    <3>1. em \in Seq(C!ToSet(g)) /\ C!ToSet(em) \subseteq C!ToSet(g)
      BY <2>3 DEF Reads
    <3>. QED BY <3>1 DEF GraphOK, IsSequence
  <2>5. PICK set, pr : pr = C!Chosen(em, set) /\ pr = C!EntityPreferences(Head(todo))
    BY <2>2 DEF C!EntityPreferences
  <2>6. pr \in Seq(C!ToSet(em)) /\ C!ToSet(pr) \subseteq C!ToSet(em)
    <3>1. Reads(pr, em, set)
      BY <2>4, <2>5, ChosenReads
    <3>. QED BY <3>1 DEF Reads
  <2>7. pr \in Seq(C!ToSet(g)) /\ hits \in Seq(C!ToSet(g))
    <3>1. C!ToSet(em) \subseteq C!ToSet(g)
      BY <2>3 DEF Reads
    <3>2. hits \in Seq(C!ToSet(hits)) /\ C!ToSet(hits) \subseteq C!ToSet(g)
      BY <1>2, SequenceOfOwn DEF Formed
    <3>. QED BY <2>6, <3>1, <3>2, SeqMonotonic
  <2>8. hits' \in Seq(C!ToSet(g))
    BY <2>1, <2>5, <2>7, ConcatProperties
  <2>9. C!ToSet(hits') \subseteq C!ToSet(g)
    BY <2>8, SetOfSeq
  <2>10. todo # <<>>
    BY <1>2, <2>1 DEF Formed, Stages
  <2>11. todo \in Seq(C!ToSet(todo)) /\ Len(todo) \in Nat
    BY <1>5, SequenceOfOwn
  <2>12. /\ Tail(todo) \in Seq(C!ToSet(todo)) /\ Len(Tail(todo)) = Len(todo) - 1
    BY <2>10, <2>11, HeadTailProperties
  <2>13. Len(todo) # 1 => Tail(todo) # <<>>
    <3>1. PICK n \in Nat : n = Len(todo)
      BY <2>11
    <3>2. n # 1 => Len(Tail(todo)) # 0
      BY <2>12, <3>1
    <3>. QED BY <3>1, <3>2, EmptySeq
  <2>14. IsSequence(Tail(todo)) /\ IsSequence(hits')
    BY <2>8, <2>12 DEF IsSequence
  <2>15. IsSequence(todo')
    BY <2>1, <2>14
  <2>16. stage' \in {"rank", "preferences"} /\ (stage' = "preferences" => todo' # <<>>)
    BY <2>1, <2>13
  <2>. QED BY <2>9, <2>14, <2>15, <2>16
<1>. QED BY <1>6, <1>7, <1>8

(* The reads for a principal up to the scan.                               *)
LEMMA PrincipalStep ==
    ASSUME NEW g, g = Graph, GraphOK(g), Inv(g), C!ReadPrincipal \/ C!ReadPrincipalLower
    PROVE  SelectionInv(g, stage', ask', hits', todo', reply', before')
<1>1. /\ stage \in {"principal", "principal_lower"}
      /\ stage' \in {"principal_lower", "scan"}
      /\ ask' = ask /\ reply' = reply /\ before' = before /\ todo' = todo
  BY DEF C!ReadPrincipal, C!ReadPrincipalLower, C!Reading
<1>2. Formed(g, stage, ask, hits, todo, reply, before)
  BY DEF Inv, SelectionInv
<1>3. PICK name : hits' = C!EntityMemories(name)
  BY DEF C!ReadPrincipal, C!ReadPrincipalLower
<1>4. Reads(hits', g, CardsOfEntity(g, name))
  BY <1>3, EntityReads
<1>5. reply = <<>>
  BY <1>1, <1>2 DEF Formed
<1>6. IsSequence(hits') /\ C!ToSet(hits') \subseteq C!ToSet(g)
  BY <1>4 DEF Reads, IsSequence
<1>7. Formed(g, stage', ask', hits', todo', reply', before')
  BY <1>1, <1>2, <1>5, <1>6 DEF Formed, Stages
<1>8. Once(g, ask', hits')
  BY <1>4 DEF Reads, Once
<1>9. NoneMissed(g, stage', ask', hits', todo', reply', before')
  BY <1>1 DEF NoneMissed, Sought
<1>. QED BY <1>7, <1>8, <1>9 DEF SelectionInv

LEMMA RankStep ==
    ASSUME NEW g, GraphOK(g), Inv(g), C!Rank
    PROVE  SelectionInv(g, stage', ask', hits', todo', reply', before')
<1>1. /\ stage = "rank" /\ stage' = "idle" /\ ask' = ask /\ hits' = hits /\ todo' = todo
      /\ before' = before
  BY DEF C!Rank
<1>2. reply' = Best(hits, ask)
  BY DEF C!Rank, Best, C!Limit, Cut
<1>3. Formed(g, stage, ask, hits, todo, reply, before)
  BY DEF Inv, SelectionInv
<1>4. Formed(g, stage', ask', hits', todo', reply', before')
  BY <1>1, <1>2, <1>3 DEF Formed, Stages
<1>5. Once(g, ask', hits')
  BY <1>1 DEF Inv, SelectionInv, Once
<1>6. NoneMissed(g, stage', ask', hits', todo', reply', before')
  BY <1>1 DEF Inv, SelectionInv, NoneMissed, Sought
<1>. QED BY <1>4, <1>5, <1>6 DEF SelectionInv

(* The names of the relationships among the cards held.                    *)
Related(h) == {c \in C!ToSet(h) : c.kind = "rel"}

LEMMA RelatedNames ==
    ASSUME NEW h, IsSequence(h), NEW rels, rels = C!Chosen(h, Related(h)),
           NEW t, t = [i \in DOMAIN rels |-> rels[i].value]
    PROVE  /\ IsSequence(t) /\ (rels # <<>> => t # <<>>)
           /\ \A x \in Related(h) : rels # <<>> /\ \E i \in 1..Len(t) : t[i] = x.value
<1>1. h \in Seq(C!ToSet(h))
  BY SequenceOfOwn
<1>2. rels \in Seq(C!ToSet(h)) /\ C!ToSet(rels) = C!ToSet(h) \cap Related(h)
  BY <1>1, ChosenFacts
<1>3. /\ Len(rels) \in Nat /\ DOMAIN rels = 1..Len(rels)
      /\ \A x : x \in C!ToSet(rels) <=> \E i \in 1..Len(rels) : rels[i] = x
  BY <1>2, SetOfSeq
<1> DEFINE V == {rels[i].value : i \in 1..Len(rels)}
<1>4. t \in [1..Len(rels) -> V]
  BY <1>3
<1>5. t \in Seq(V) /\ Len(t) = Len(rels)
  <2> HIDE DEF V
  <2>. QED BY <1>3, <1>4, SeqDef, LenProperties
<1>6. rels # <<>> => t # <<>>
  BY <1>2, <1>5, EmptySeq
<1>7. ASSUME NEW x \in Related(h) PROVE rels # <<>> /\ \E i \in 1..Len(t) : t[i] = x.value
  <2>1. x \in C!ToSet(rels)
    BY <1>2 DEF Related
  <2>2. rels # <<>>
    BY <1>2, <2>1, EmptySequence
  <2>3. PICK i \in 1..Len(rels) : rels[i] = x
    BY <1>3, <2>1
  <2>4. t[i] = x.value
    BY <1>3, <2>3
  <2>. QED BY <1>5, <2>2, <2>4
<1>. QED BY <1>5, <1>6, <1>7 DEF IsSequence

OwnCards(set, name) == {c \in set : C!ContainsWord(C!LowerAll(c.entity), C!LowerAll(name))}

LEMMA AboutFacts ==
    ASSUME NEW set, NEW name, NEW c \in C!About(set, name)
    PROVE  /\ c \in set
           /\ \/ c \in OwnCards(set, name)
              \/ \E d \in OwnCards(set, name) :
                    d.kind = "rel" /\ C!LowerAll(d.value) = C!LowerAll(c.entity)
BY DEF C!About, OwnCards

LEMMA OlderFacts ==
    ASSUME NEW g, GraphOK(g), NEW b \in Nat, b <= Len(g)
    PROVE  Older(g, b) \subseteq C!ToSet(g)
<1>1. g \in Seq(C!ToSet(g)) /\ Len(g) \in Nat
  BY SequenceOfOwn DEF GraphOK
<1>2. PICK n \in Nat : n = Len(g)
  BY <1>1
<1>3. SubSeq(g, 1, b) = [i \in 1..b |-> g[i]]
  <2>1. b - 1 + 1 = b /\ \A i \in 1..b : 1 + i - 1 = i
    OBVIOUS
  <2>. QED BY <1>1, <1>2, <2>1
<1>4. \A i \in 1..b : g[i] \in C!ToSet(g)
  BY <1>1, <1>2, SetOfSeq
<1>. QED BY <1>3, <1>4 DEF Older, C!ToSet

LEMMA ScanStep ==
    ASSUME NEW g, g = Graph, GraphOK(g), Inv(g), C!ScanAll
    PROVE  SelectionInv(g, stage', ask', hits', todo', reply', before')
<1> DEFINE name == todo[1]
<1>1. PICK found, rels :
        /\ found = C!Chosen(g, OwnCards(C!ToSet(g), name))
        /\ hits' = C!AddNew(hits, found)
        /\ rels = C!Chosen(hits', Related(hits'))
        /\ todo' = [i \in DOMAIN rels |-> rels[i].value]
        /\ stage' = IF rels = <<>> THEN "rank" ELSE "related"
        /\ stage = "scan" /\ ask' = ask /\ reply' = reply /\ before' = before
  BY DEF C!ScanAll, C!Reading, OwnCards, Related
<1>2. Formed(g, stage, ask, hits, todo, reply, before)
  BY DEF Inv, SelectionInv
<1>3. /\ name = ask.names[1] /\ reply = <<>>
      /\ hits \in Seq(C!ToSet(g))
      /\ before \in Nat /\ before <= Len(g)
  <2>1. hits \in Seq(C!ToSet(hits)) /\ C!ToSet(hits) \subseteq C!ToSet(g)
    BY <1>2, SequenceOfOwn DEF Formed
  <2>. QED BY <1>1, <1>2, <2>1, SeqMonotonic DEF Formed
<1> HIDE DEF name
<1>4. Reads(found, g, OwnCards(C!ToSet(g), name))
  BY <1>1, ChosenReads
<1>5. Added(hits', C!ToSet(g), hits, found)
  <2>1. found \in Seq(C!ToSet(g))
    BY <1>4 DEF Reads
  <2>. QED BY <1>1, <1>3, <2>1, AddNewFacts
<1>6. IsSequence(hits') /\ C!ToSet(hits') \subseteq C!ToSet(g)
  BY <1>5, SetOfSeq DEF Added, IsSequence
<1>7. /\ IsSequence(todo') /\ (rels # <<>> => todo' # <<>>)
      /\ \A x \in Related(hits') : rels # <<>> /\ \E i \in 1..Len(todo') : todo'[i] = x.value
  BY <1>1, <1>6, RelatedNames
<1>8. Formed(g, stage', ask', hits', todo', reply', before')
  BY <1>1, <1>2, <1>3, <1>6, <1>7 DEF Formed, Stages
<1>9. Once(g, ask', hits')
  BY <1>1, <1>5 DEF Inv, SelectionInv, Once, Added
<1>10. ASSUME Kinds(g), NEW c \in C!About(Older(g, before), name)
       PROVE  Held(hits', c) \/ (rels # <<>> /\ Named(todo', c))
  <2>1. Older(g, before) \subseteq C!ToSet(g)
    BY <1>3, OlderFacts
  <2>2. ASSUME NEW d \in OwnCards(Older(g, before), name) PROVE Held(hits', d)
    <3>1. d \in C!ToSet(found)
      BY <1>4, <2>1 DEF Reads, OwnCards
    <3>. QED BY <1>5, <3>1 DEF Added, Held
  <2>3. CASE c \in OwnCards(Older(g, before), name)
    BY <2>2, <2>3
  <2>4. ASSUME NEW d \in OwnCards(Older(g, before), name),
               d.kind = "rel", C!LowerAll(d.value) = C!LowerAll(c.entity)
        PROVE  rels # <<>> /\ Named(todo', c)
    <3>1. PICK x \in C!ToSet(hits') : C!SameCard(x, d)
      BY <2>2 DEF Held
    <3>2. x \in C!ToSet(g) /\ d \in C!ToSet(g)
      BY <1>6, <2>1 DEF OwnCards
    <3>3. x.kind = "rel" /\ x.value = d.value
      BY <1>10, <2>4, <3>1, <3>2 DEF Kinds, C!SameCard
    <3>4. x \in Related(hits')
      BY <3>3 DEF Related
    <3>5. PICK i \in 1..Len(todo') : todo'[i] = x.value
      BY <1>7, <3>4
    <3>6. C!LowerAll(todo'[i]) = C!LowerAll(c.entity)
      BY <2>4, <3>3, <3>5
    <3>. QED BY <1>7, <3>4, <3>6 DEF Named
  <2>. QED BY <2>3, <2>4, AboutFacts
<1>11. NoneMissed(g, stage', ask', hits', todo', reply', before')
  BY <1>1, <1>3, <1>10 DEF NoneMissed, Sought
<1>. QED BY <1>8, <1>9, <1>11 DEF SelectionInv

(* A name is looked up, and the names behind it stay.                      *)
LEMMA NamesLeft ==
    ASSUME NEW t, IsSequence(t), t # <<>>
    PROVE  /\ IsSequence(Tail(t)) /\ Len(t) \in Nat /\ Len(t) > 0
           /\ Len(t) # 1 => Tail(t) # <<>>
           /\ \A c : Named(t, c) =>
                 \/ C!LowerAll(t[1]) = C!LowerAll(c.entity)
                 \/ Len(t) # 1 /\ Named(Tail(t), c)
<1>1. t \in Seq(C!ToSet(t)) /\ Len(t) \in Nat
  BY SequenceOfOwn
<1>2. PICK n \in Nat : n = Len(t)
  BY <1>1
<1>3. n > 0
  BY <1>1, <1>2, EmptySeq
<1>4. /\ Tail(t) \in Seq(C!ToSet(t)) /\ Len(Tail(t)) = n - 1
      /\ \A i \in 1..Len(Tail(t)) : Tail(t)[i] = t[i + 1]
  BY <1>1, <1>2, HeadTailProperties
<1>5. n # 1 => Tail(t) # <<>>
  <2>1. n # 1 => n - 1 # 0
    OBVIOUS
  <2>. QED BY <1>4, <2>1, EmptySeq
<1>6. ASSUME NEW c, NEW i \in 1..n, C!LowerAll(t[i]) = C!LowerAll(c.entity), i # 1
      PROVE  n # 1 /\ Named(Tail(t), c)
  <2>1. PICK j : j = i - 1
    OBVIOUS
  <2>2. j \in 1..(n - 1) /\ j + 1 = i /\ n # 1
    BY <1>6, <2>1
  <2>3. Tail(t)[j] = t[i]
    BY <1>4, <2>2
  <2>. QED BY <1>4, <1>6, <2>2, <2>3 DEF Named
<1>7. \A c : Named(t, c) => \/ C!LowerAll(t[1]) = C!LowerAll(c.entity)
                            \/ n # 1 /\ Named(Tail(t), c)
  BY <1>2, <1>6 DEF Named
<1>8. IsSequence(Tail(t))
  BY <1>4 DEF IsSequence
<1>. QED BY <1>2, <1>3, <1>5, <1>7, <1>8

(* The step that adds the cards of one name.                               *)
LEMMA NameStep ==
    ASSUME NEW g, GraphOK(g), Inv(g), stage \in {"related", "related_lower"},
           NEW em, NEW set, Reads(em, g, set), hits' = C!AddNew(hits, em), todo' = Tail(todo),
           stage' = IF Len(todo) = 1 THEN "rank" ELSE "related",
           ask' = ask, reply' = reply, before' = before,
           Spelled(g) /\ Kinds(g) /\ ask.by = "principal" =>
              \A c \in Older(g, before) : C!LowerAll(todo[1]) = C!LowerAll(c.entity) => c \in set
    PROVE  SelectionInv(g, stage', ask', hits', todo', reply', before')
<1>1. Formed(g, stage, ask, hits, todo, reply, before)
  BY DEF Inv, SelectionInv
<1>2. /\ IsSequence(todo) /\ todo # <<>> /\ reply = <<>>
      /\ hits \in Seq(C!ToSet(g)) /\ before \in Nat /\ before <= Len(g)
  <2>1. hits \in Seq(C!ToSet(hits)) /\ C!ToSet(hits) \subseteq C!ToSet(g)
    BY <1>1, SequenceOfOwn DEF Formed
  <2>. QED BY <1>1, <2>1, SeqMonotonic DEF Formed, Stages
<1>3. Added(hits', C!ToSet(g), hits, em)
  <2>1. em \in Seq(C!ToSet(g))
    BY DEF Reads
  <2>. QED BY <1>2, <2>1, AddNewFacts
<1>4. IsSequence(hits') /\ C!ToSet(hits') \subseteq C!ToSet(g)
  BY <1>3, SetOfSeq DEF Added, IsSequence
<1>5. /\ IsSequence(Tail(todo))
      /\ Len(todo) # 1 => Tail(todo) # <<>>
      /\ \A c : Named(todo, c) =>
            \/ C!LowerAll(todo[1]) = C!LowerAll(c.entity)
            \/ Len(todo) # 1 /\ Named(Tail(todo), c)
  BY <1>2, NamesLeft
<1>6. Formed(g, stage', ask', hits', todo', reply', before')
  <2>1. IsSequence(todo') /\ (stage' = "related" => todo' # <<>>)
        /\ stage' \in {"rank", "related"}
    BY <1>5
  <2>. QED BY <1>1, <1>2, <1>4, <2>1 DEF Formed, Stages
<1>7. Once(g, ask', hits')
  BY <1>3 DEF Inv, SelectionInv, Once, Added
<1>8. ASSUME Spelled(g), Kinds(g), ask.by = "principal",
             NEW c \in C!About(Older(g, before), ask.names[1])
      PROVE  Held(hits', c) \/ (Len(todo) # 1 /\ Named(todo', c))
  <2>1. Held(hits, c) \/ Named(todo, c)
    BY <1>8 DEF Inv, SelectionInv, NoneMissed, Sought
  <2>2. CASE Held(hits, c)
    BY <1>3, <2>2 DEF Added, Held
  <2>3. CASE C!LowerAll(todo[1]) = C!LowerAll(c.entity)
    <3>1. c \in Older(g, before) /\ Older(g, before) \subseteq C!ToSet(g)
      BY <1>2, OlderFacts, AboutFacts
    <3>2. c \in set
      BY <1>8, <2>3, <3>1
    <3>3. c \in C!ToSet(em)
      BY <3>1, <3>2 DEF Reads
    <3>. QED BY <1>3, <3>3 DEF Added, Held
  <2>. QED BY <1>5, <2>1, <2>2, <2>3
<1>9. NoneMissed(g, stage', ask', hits', todo', reply', before')
  <2>1. SUFFICES ASSUME Spelled(g), Kinds(g), ask.by = "principal"
                 PROVE  Sought(stage', hits', todo', reply', Older(g, before),
                               C!About(Older(g, before), ask.names[1]))
    BY DEF NoneMissed
  <2>2. \A c \in C!About(Older(g, before), ask.names[1]) :
           Held(hits', c) \/ (Len(todo) # 1 /\ Named(todo', c))
    BY <1>8, <2>1
  <2>. QED BY <1>2, <2>2 DEF Sought
<1>. QED BY <1>6, <1>7, <1>9 DEF SelectionInv

LEMMA RelatedStep ==
    ASSUME NEW g, g = Graph, GraphOK(g), Inv(g), C!ReadRelated
    PROVE  SelectionInv(g, stage', ask', hits', todo', reply', before')
<1>1. PICK em : em = C!EntityMemories(todo[1])
  OBVIOUS
<1>2. Reads(em, g, CardsOfEntity(g, todo[1]))
  BY <1>1, EntityReads
<1>3. stage = "related" /\ ask' = ask /\ reply' = reply /\ before' = before
  BY DEF C!ReadRelated, C!Reading
<1>4. Formed(g, stage, ask, hits, todo, reply, before)
  BY DEF Inv, SelectionInv
<1>5. Older(g, before) \subseteq C!ToSet(g)
  BY <1>4, OlderFacts DEF Formed
<1>6. CASE em = <<>> /\ C!LowerAll(todo[1]) # todo[1]
  <2>1. stage' = "related_lower" /\ hits' = hits /\ todo' = todo
    BY <1>1, <1>6 DEF C!ReadRelated
  <2>2. todo # <<>> /\ reply = <<>>
    BY <1>3, <1>4 DEF Formed, Stages
  <2>3. Formed(g, stage', ask', hits', todo', reply', before')
    BY <1>3, <1>4, <2>1, <2>2 DEF Formed, Stages
  <2>4. Folded => \A c \in Older(g, before) : C!LowerAll(c.entity) # C!LowerAll(todo[1])
    BY <1>2, <1>5, <1>6 DEF Reads, CardsOfEntity
  <2>5. NoneMissed(g, stage', ask', hits', todo', reply', before')
    BY <1>3, <2>1, <2>2, <2>4 DEF Inv, SelectionInv, NoneMissed, Sought
  <2>. QED BY <1>3, <2>1, <2>3, <2>5 DEF Inv, SelectionInv, Once
<1>7. CASE ~(em = <<>> /\ C!LowerAll(todo[1]) # todo[1])
  <2>1. /\ hits' = C!AddNew(hits, em) /\ todo' = Tail(todo)
        /\ stage' = IF Len(todo) = 1 THEN "rank" ELSE "related"
    BY <1>1, <1>7 DEF C!ReadRelated
  <2>2. ASSUME Spelled(g), NEW c \in Older(g, before), C!LowerAll(todo[1]) = C!LowerAll(c.entity)
        PROVE  c \in CardsOfEntity(g, todo[1])
    <3>1. CASE Folded
      BY <1>5, <2>2, <3>1 DEF CardsOfEntity
    <3>2. CASE ~Folded
      <4>1. c \in C!ToSet(g) /\ c.entity = C!LowerAll(todo[1])
        BY <1>5, <2>2, <3>2 DEF Spelled
      <4>2. C!LowerAll(todo[1]) = todo[1]
        <5>1. CASE em # <<>>
          <6>1. PICK d \in C!ToSet(g) : d \in CardsOfEntity(g, todo[1])
            BY <1>2, <5>1 DEF Reads
          <6>2. d.entity = todo[1] /\ d.entity = C!LowerAll(d.entity)
            BY <2>2, <3>2, <6>1 DEF CardsOfEntity, Spelled
          <6>. QED BY <6>2
        <5>. QED BY <1>7, <5>1
      <4>. QED BY <3>2, <4>1, <4>2 DEF CardsOfEntity
    <3>. QED BY <3>1, <3>2
  <2>3. stage \in {"related", "related_lower"}
    BY <1>3
  <2>4. Spelled(g) /\ Kinds(g) /\ ask.by = "principal" =>
           \A c \in Older(g, before) : C!LowerAll(todo[1]) = C!LowerAll(c.entity) =>
              c \in CardsOfEntity(g, todo[1])
    BY <2>2
  <2>. QED BY <1>2, <1>3, <2>1, <2>3, <2>4, NameStep
<1>. QED BY <1>6, <1>7

LEMMA RelatedLowerStep ==
    ASSUME NEW g, g = Graph, GraphOK(g), Inv(g), C!ReadRelatedLower
    PROVE  SelectionInv(g, stage', ask', hits', todo', reply', before')
<1>1. PICK em : em = C!EntityMemories(C!LowerAll(todo[1]))
  OBVIOUS
<1>2. Reads(em, g, CardsOfEntity(g, C!LowerAll(todo[1])))
  BY <1>1, EntityReads
<1>3. /\ stage = "related_lower" /\ ask' = ask /\ reply' = reply /\ before' = before
      /\ hits' = C!AddNew(hits, em) /\ todo' = Tail(todo)
      /\ stage' = IF Len(todo) = 1 THEN "rank" ELSE "related"
  BY <1>1 DEF C!ReadRelatedLower, C!Reading
<1>4. Formed(g, stage, ask, hits, todo, reply, before)
  BY DEF Inv, SelectionInv
<1>5. Older(g, before) \subseteq C!ToSet(g)
  BY <1>4, OlderFacts DEF Formed
<1>6. ASSUME Spelled(g), Kinds(g), ask.by = "principal",
             NEW c \in Older(g, before), C!LowerAll(todo[1]) = C!LowerAll(c.entity)
      PROVE  c \in CardsOfEntity(g, C!LowerAll(todo[1]))
  <2>1. ~Folded
    BY <1>3, <1>6 DEF Inv, SelectionInv, NoneMissed, Sought
  <2>. QED BY <1>5, <1>6, <2>1 DEF CardsOfEntity, Spelled
<1>7. stage \in {"related", "related_lower"}
  BY <1>3
<1>8. Spelled(g) /\ Kinds(g) /\ ask.by = "principal" =>
         \A c \in Older(g, before) : C!LowerAll(todo[1]) = C!LowerAll(c.entity) =>
            c \in CardsOfEntity(g, C!LowerAll(todo[1]))
  BY <1>6
<1>. QED BY <1>2, <1>3, <1>7, <1>8, NameStep

------------------------------------------------------------------------------
RecallInv ==
    /\ LogOK(log)
    /\ turn \in [Runs -> Nat]
    /\ Inv(Graph)

LEMMA RecallInit == Init => RecallInv
<1>. SUFFICES ASSUME Init PROVE RecallInv
  OBVIOUS
<1>1. log = <<>> /\ turn = [r \in Runs |-> 0]
  BY DEF Init, H!Init, H!ArchiveInit
<1>2. /\ stage = "idle" /\ ask.by = "none" /\ ask.samples = 0 /\ hits = <<>> /\ todo = <<>>
      /\ reply = <<>> /\ before = 0
  BY DEF Init, C!CardContextInit, C!NoAsk
<1>3. IsSequence(<<>>) /\ Len(<<>>) = 0 /\ C!ToSet(<<>>) = {} /\ C!EachOnce(<<>>)
  BY EmptySeq DEF IsSequence, C!ToSet, C!EachOnce
<1>4. LogOK(log) /\ turn \in [Runs -> Nat]
  BY <1>1, <1>3 DEF LogOK
<1>5. Len(Graph) \in Nat
  BY <1>4, GraphIs, GraphIsOK, SequenceOfOwn DEF GraphOK
<1>6. Cut(ask) \in Nat
  BY <1>2, AsksAssumption DEF Cut
<1>7. Formed(Graph, stage, ask, hits, todo, reply, before)
  BY <1>2, <1>3, <1>5, <1>6 DEF Formed, Stages
<1>8. Once(Graph, ask, hits) /\ NoneMissed(Graph, stage, ask, hits, todo, reply, before)
  BY <1>2 DEF Once, NoneMissed
<1>. QED BY <1>4, <1>7, <1>8 DEF RecallInv, Inv, SelectionInv

LEMMA RecallStep == RecallInv /\ [Next]_vars => RecallInv'
<1>. SUFFICES ASSUME RecallInv, [Next]_vars PROVE RecallInv'
  OBVIOUS
<1>1. LogOK(log) /\ turn \in [Runs -> Nat] /\ Inv(Graph) /\ Graph = GraphOf(log)
  BY GraphIs DEF RecallInv
<1>2. Graph' = GraphOf(log')
  BY DEF Graph, GraphOf
<1>3. GraphOK(Graph)
  BY <1>1, GraphIsOK
<1>4. SUFFICES /\ LogOK(log') /\ turn' \in [Runs -> Nat]
               /\ SelectionInv(Graph', stage', ask', hits', todo', reply', before')
  BY DEF RecallInv, Inv
<1>5. ASSUME LogStep, UNCHANGED selection
      PROVE  /\ LogOK(log') /\ turn' \in [Runs -> Nat]
             /\ SelectionInv(Graph', stage', ask', hits', todo', reply', before')
  <2>1. LogOK(log') /\ GrowsByOne(Graph, Graph')
    <3>1. CASE log' = log
      BY <1>1, <1>2, <3>1 DEF GrowsByOne
    <3>2. ASSUME NEW e, EntryOK(e), log' = Append(log, e)
          PROVE  LogOK(log') /\ GrowsByOne(Graph, Graph')
      BY <1>1, <1>2, <3>2, GraphGrows
    <3>. QED BY <1>5, <3>1, <3>2 DEF LogStep
  <2>2. PICK g, k : g = Graph /\ k = Graph'
    OBVIOUS
  <2>3. SelectionInv(k, stage, ask, hits, todo, reply, before)
    <3>1. GraphOK(g) /\ GrowsByOne(g, k) /\ SelectionInv(g, stage, ask, hits, todo, reply, before)
      BY <1>1, <1>3, <2>1, <2>2 DEF Inv
    <3>. QED BY <3>1, SelectionGrows
  <2>4. /\ stage' = stage /\ ask' = ask /\ hits' = hits /\ todo' = todo
        /\ reply' = reply /\ before' = before
    BY <1>5 DEF selection
  <2>. QED BY <1>5, <2>1, <2>2, <2>3, <2>4 DEF LogStep
<1>6. ASSUME UNCHANGED <<log, turn>>, C!TopN \/ C!Select
      PROVE  /\ LogOK(log') /\ turn' \in [Runs -> Nat]
             /\ SelectionInv(Graph', stage', ask', hits', todo', reply', before')
  <2>1. PICK g : g = Graph
    OBVIOUS
  <2>2. g = Graph /\ GraphOK(g) /\ Inv(g) /\ Graph' = g
    BY <1>1, <1>2, <1>3, <1>6, <2>1
  <2>3. SelectionInv(g, stage', ask', hits', todo', reply', before')
    <3>1. CASE C!TopN
      BY <2>2, <3>1, TopNStep
    <3>2. CASE C!SelectEntityMentions \/ C!SelectRecent \/ C!SelectPreferences
      BY <2>2, <3>2, SimpleStep
    <3>3. CASE C!ReadPrincipal \/ C!ReadPrincipalLower
      BY <2>2, <3>3, PrincipalStep
    <3>4. CASE C!ScanAll
      BY <2>2, <3>4, ScanStep
    <3>5. CASE C!ReadRelated
      BY <2>2, <3>5, RelatedStep
    <3>6. CASE C!ReadRelatedLower
      BY <2>2, <3>6, RelatedLowerStep
    <3>7. CASE C!ReadFails
      BY <2>2, <3>7, FailStep
    <3>8. CASE C!Rank
      BY <2>2, <3>8, RankStep
    <3>. QED BY <1>6, <3>1, <3>2, <3>3, <3>4, <3>5, <3>6, <3>7, <3>8 DEF C!Select
  <2>. QED BY <1>1, <1>6, <2>2, <2>3
<1>7. ASSUME NEW r \in Runs, Hook(r) PROVE LogStep /\ UNCHANGED selection
  BY <1>1, <1>7, HookLogStep DEF Hook
<1>8. ASSUME PutOtherCard PROVE LogStep /\ UNCHANGED selection
  BY <1>1, <1>8, OtherLogStep DEF PutOtherCard
<1>9. ASSUME AskCards \/ Selecting PROVE UNCHANGED <<log, turn>> /\ (C!TopN \/ C!Select)
  BY <1>9 DEF AskCards, Selecting, turns
<1>10. ASSUME UNCHANGED vars PROVE LogStep /\ UNCHANGED selection
  BY <1>1, <1>10 DEF vars, turns, selection, LogStep
<1>. QED BY <1>5, <1>6, <1>7, <1>8, <1>9, <1>10 DEF Next

LEMMA RecallInvHolds == Spec => []RecallInv
BY RecallInit, RecallStep, PTL DEF Spec

(* The answer, put together from the invariant.                            *)
LEMMA AnswerFacts ==
    ASSUME RecallInv
    PROVE  /\ IsSequence(hits) /\ C!ToSet(hits) \subseteq C!ToSet(Graph)
           /\ reply # <<>> => /\ IsSequence(reply) /\ C!ToSet(reply) \subseteq C!ToSet(hits)
                              /\ C!EachOnce(hits) => C!EachOnce(reply)
                              /\ Ranked(reply, hits, ask)
<1>1. Formed(Graph, stage, ask, hits, todo, reply, before)
  BY DEF RecallInv, Inv, SelectionInv
<1>2. GraphOK(Graph)
  BY GraphIs, GraphIsOK DEF RecallInv
<1>3. PICK g : g = Graph
  OBVIOUS
<1>4. /\ \A c \in C!ToSet(g) : c.at \in Nat
      /\ IsSequence(hits) /\ C!ToSet(hits) \subseteq C!ToSet(g) /\ Cut(ask) \in Nat
      /\ reply # <<>> => reply = Best(hits, ask)
  BY <1>1, <1>2, <1>3 DEF Formed, GraphOK
<1>5. hits \in Seq(C!ToSet(g))
  BY <1>4, SequenceOfOwn, SeqMonotonic
<1>6. /\ Best(hits, ask) \in Seq(C!ToSet(g))
      /\ C!ToSet(Best(hits, ask)) \subseteq C!ToSet(hits)
      /\ C!EachOnce(hits) => C!EachOnce(Best(hits, ask))
      /\ Ranked(Best(hits, ask), hits, ask)
  BY <1>4, <1>5, BestIsRanked
<1>. QED BY <1>3, <1>4, <1>6 DEF IsSequence

(* A selection looks a name up only while it has one, and selects cards of *)
(* the graph.                                                              *)
THEOREM SelectionIsWellFormed == Spec => []SelectionOK
<1>1. ASSUME RecallInv PROVE SelectionOK
  <2>1. Formed(Graph, stage, ask, hits, todo, reply, before)
    BY <1>1 DEF RecallInv, Inv, SelectionInv
  <2>2. IsSequence(Graph)
    BY <1>1, GraphIs, GraphIsOK DEF RecallInv, GraphOK
  <2>3. \A s : IsSequence(s) => ToSet(s) = C!ToSet(s)
    BY SetOfSeq DEF IsSequence
  <2>4. ToSet(hits) \subseteq ToSet(Graph)
    BY <1>1, <2>2, <2>3, AnswerFacts
  <2>5. ToSet(reply) \subseteq ToSet(hits)
    <3>1. CASE reply = <<>>
      BY <3>1 DEF ToSet
    <3>2. CASE reply # <<>>
      BY <1>1, <2>3, <3>2, AnswerFacts
    <3>. QED BY <3>1, <3>2
  <2>6. /\ stage \in Stages /\ before <= Len(Graph)
        /\ stage \in Stages \ {"idle", "rank", "cards_for_query", "all_cards"} => todo # <<>>
    BY <2>1 DEF Formed
  <2>. QED BY <2>4, <2>5, <2>6 DEF SelectionOK, Stages
<1>. QED BY <1>1, RecallInvHolds, PTL

(* An answer is in the order of relevance, and what is cut off is no more  *)
(* relevant than what is not.                                              *)
THEOREM AnswersAreRanked == Spec => []RankedByRelevance
<1>1. ASSUME RecallInv PROVE RankedByRelevance
  <2>1. C!Answered => Ranked(reply, hits, ask)
    BY <1>1, AnswerFacts DEF C!Answered
  <2>. QED BY <2>1 DEF RankedByRelevance, C!RankedByRelevance, Ranked, Unrelated
<1>. QED BY <1>1, RecallInvHolds, PTL

(* An answer about a principal repeats no card the graph does not repeat.  *)
THEOREM AnswersRepeatNothing == Spec => []NoCardTwice
<1>1. ASSUME RecallInv PROVE NoCardTwice
  <2>1. Once(Graph, ask, hits)
    BY <1>1 DEF RecallInv, Inv, SelectionInv
  <2>2. reply # <<>> => (C!EachOnce(hits) => C!EachOnce(reply))
    BY <1>1, AnswerFacts
  <2>. QED BY <2>1, <2>2 DEF NoCardTwice, C!NoCardTwice, C!Answered, Once
<1>. QED BY <1>1, RecallInvHolds, PTL

(* A selection for a principal misses no card that was there when it       *)
(* began, whoever writes while it is at work.                              *)
THEOREM OlderCardsAreSelected == Spec => []NothingOlderIsMissed
<1>1. ASSUME RecallInv PROVE NothingOlderIsMissed
  <2>1. SUFFICES ASSUME C!Answered \/ stage = "rank", ask.by = "principal",
                        C!OneSpelling, C!OneKind,
                        NEW c \in C!About(C!ToSet(SubSeq(Graph, 1, before)), ask.names[1])
                 PROVE  \E i \in DOMAIN hits : C!SameCard(hits[i], c)
    BY DEF NothingOlderIsMissed, C!NothingOlderIsMissed
  <2>2. Spelled(Graph) /\ Kinds(Graph)
    BY <2>1 DEF C!OneSpelling, C!OneKind, Spelled, Kinds
  <2>3. Held(hits, c)
    BY <1>1, <2>1, <2>2
    DEF RecallInv, Inv, SelectionInv, NoneMissed, Sought, Older, C!Answered
  <2>. QED BY <2>3 DEF Held, C!ToSet
<1>. QED BY <1>1, RecallInvHolds, PTL

------------------------------------------------------------------------------
(* The cards that the hook finds in a text: their slot tells their kind.   *)

KindOfSlot(slot) ==
    IF slot \in {"allergy", "title"} THEN "profile"
    ELSE IF slot \in {"manager", "reports_to"} THEN "rel" ELSE "fact"

LEMMA FoundKinds ==
    ASSUME NEW text, NEW c \in ProfileCards(text) \cup RelationshipCards(text)
    PROVE  c.kind = KindOfSlot(c.slot)
<1>1. ASSUME NEW entity, NEW value
      PROVE  /\ Fact("profile", entity, "allergy", value).kind = KindOfSlot("allergy")
             /\ Fact("profile", entity, "title", value).kind = KindOfSlot("title")
             /\ Fact("rel", entity, "manager", value).kind = KindOfSlot("manager")
             /\ Fact("rel", entity, "reports_to", value).kind = KindOfSlot("reports_to")
             /\ Fact("fact", entity, "employer", value).kind = KindOfSlot("employer")
  BY DEF Fact, KindOfSlot
<1>2. \A kind, entity, slot, value : Fact(kind, entity, slot, value).slot = slot
  BY DEF Fact
<1> DEFINE Good(x) == x.kind = KindOfSlot(x.slot)
<1>3. \A entity, value : /\ Good(Fact("profile", entity, "allergy", value))
                         /\ Good(Fact("profile", entity, "title", value))
                         /\ Good(Fact("rel", entity, "manager", value))
                         /\ Good(Fact("rel", entity, "reports_to", value))
                         /\ Good(Fact("fact", entity, "employer", value))
  BY <1>1, <1>2
<1>4. CASE c \in ProfileCards(text)
  <2> HIDE DEF Good
  <2>1. Good(c)
    BY <1>3, <1>4 DEF ProfileCards
  <2>. QED BY <2>1 DEF Good
<1>5. CASE c \in RelationshipCards(text)
  <2> HIDE DEF Good
  <2>1. PICK m \in ManagerSubject(text) :
          \/ c = Fact("rel", <<Principal>>, "manager", <<m>>)
          \/ \E e \in ManagerEmployer(text) : c = Fact("fact", <<m>>, "employer", e)
          \/ \E s \in ReportsTo(text, m) :
                \/ c = Fact("rel", <<m>>, "reports_to", BeforeComma(s))
                \/ c = Fact("profile", BeforeComma(s), "title", AfterComma(s))
    BY <1>5 DEF RelationshipCards
  <2>2. Good(c)
    BY <1>3, <2>1
  <2>. QED BY <2>2 DEF Good
<1>. QED BY <1>4, <1>5

LEMMA ExtractedFacts ==
    ASSUME NEW t \in Texts
    PROVE  /\ IsSequence(ExtractedCards[t])
           /\ C!ToSet(ExtractedCards[t]) = ToSet(ExtractedCards[t])
           /\ \A c \in C!ToSet(ExtractedCards[t]) : c.kind = KindOfSlot(c.slot)
<1>1. PICK text : ExtractedCards[t] = SupplementalMemoryCards(text)
  BY DEF ExtractedCards
<1>2. PICK cs : cs = ProfileCards(text) \cup RelationshipCards(text)
  OBVIOUS
<1>3. PICK slots : slots = C!Chosen(SlotOrder, {c.slot : c \in cs})
  OBVIOUS
<1>4. /\ IsSequence(slots)
      /\ C!ToSet(slots) = C!ToSet(SlotOrder) \cap {c.slot : c \in cs}
  <2>1. PICK w : w = SlotOrder
    OBVIOUS
  <2>2. w = <<"allergy", "manager", "employer", "reports_to", "title">>
    BY <2>1 DEF SlotOrder
  <2>3. Len(w) = 5 /\ w = [i \in 1..5 |-> w[i]]
    BY <2>2
  <2> DEFINE W == {w[i] : i \in 1..5}
  <2>4. w \in [1..5 -> W]
    BY <2>3
  <2>5. w \in Seq(W)
    <3> HIDE DEF W
    <3>. QED BY <2>4, SeqDef
  <2>6. C!Chosen(w, {c.slot : c \in cs}) \in Seq(W)
    <3> HIDE DEF W
    <3>. QED BY <2>5, ChosenFacts
  <2>. QED BY <1>3, <2>1, <2>5, <2>6, ChosenFacts DEF IsSequence
<1>5. /\ Len(slots) \in Nat /\ DOMAIN slots = 1..Len(slots)
      /\ \A x : x \in C!ToSet(slots) <=> \E i \in 1..Len(slots) : slots[i] = x
  BY <1>4, SequenceOfOwn
<1>6. PICK s : s = [i \in DOMAIN slots |-> CHOOSE c \in cs : c.slot = slots[i]]
  OBVIOUS
<1>7. s = ExtractedCards[t]
  <2>1. ASSUME NEW items, NEW set PROVE C!Chosen(items, set) = Chosen(items, set)
    <3> DEFINE N == Len(items)
           Body(f, n) == IF n = 0 THEN <<>>
                         ELSE IF items[n] \in set THEN Append(f[n - 1], items[n])
                         ELSE f[n - 1]
    <3>1. C!Chosen(items, set) = (CHOOSE f : f = [n \in 0..N |-> Body(f, n)])[N]
      BY DEF C!Chosen
    <3>2. Chosen(items, set) = (CHOOSE f : f = [n \in 0..N |-> Body(f, n)])[N]
      BY DEF Chosen
    <3>. QED BY <3>1, <3>2
  <2>2. slots = Chosen(SlotOrder, {c.slot : c \in cs})
    BY <1>3, <2>1
  <2>3. SupplementalMemoryCards(text) =
           [i \in DOMAIN Chosen(SlotOrder, {c.slot : c \in cs}) |->
               CHOOSE c \in cs : c.slot = Chosen(SlotOrder, {d.slot : d \in cs})[i]]
    BY <1>2 DEF SupplementalMemoryCards
  <2>. QED BY <1>1, <1>6, <2>2, <2>3
<1>8. \A i \in 1..Len(slots) : \E c \in cs : c.slot = slots[i]
  BY <1>4, <1>5
<1>9. s \in [1..Len(slots) -> cs]
  BY <1>5, <1>6, <1>8
<1>10. s \in Seq(cs)
  BY <1>5, <1>9, SeqDef
<1>11. C!ToSet(s) \subseteq cs /\ C!ToSet(s) = ToSet(s)
  BY <1>10, SetOfSeq
<1>. QED BY <1>2, <1>7, <1>10, <1>11, FoundKinds DEF IsSequence

------------------------------------------------------------------------------
(* From a fact that is stated to the selection: what the hook owes for the *)
(* turns that go on is in the graph, under WriteFailure::Halt.  g is the   *)
(* graph, and n how many of its cards are looked at.                       *)

Found(g, n, f) == \E i \in 1..n : Tells(g[i], f)

AllFound(g, n, t) == \A c \in C!ToSet(ExtractedCards[t]) : Found(g, n, c)

(* A run in a method (its pc, role, texts, next and cards): while the flag *)
(* is down, the cards of a user turn are found, or yet to be inserted.     *)
Owed(g, n, p, ts, nx, cs) ==
    /\ p = "card" =>
          \A c \in C!ToSet(ExtractedCards[ts[1]]) : Found(g, n, c) \/ c \in C!ToSet(cs)
    /\ p = "commit" \/ (p = "write" /\ nx = 2) => AllFound(g, n, ts[1])

InTurn(g, n, p, rl, ts, nx, cs, ht) ==
    p \in H!InMethod /\ rl = "user" =>
        /\ ts = <<ts[1]>>
        /\ nx \in {1, 2}
        /\ p # "write" => nx = 1 /\ ts[1] \in Texts
        /\ p = "card" => IsSequence(cs) /\ cs # <<>>
        /\ ~ht /\ ts[1] \in Texts => Owed(g, n, p, ts, nx, cs)

(* The turns of a set are recorded: all their cards are found.             *)
Recorded(g, n, turnsOf) ==
    \A e \in turnsOf : e.role = "user" => e.text \in Texts /\ AllFound(g, n, e.text)

LEMMA FoundStays ==
    ASSUME NEW g, GraphOK(g), NEW k, GrowsByOne(g, k)
    PROVE  /\ Len(g) \in Nat /\ Len(k) \in Nat /\ Len(g) <= Len(k)
           /\ \A i \in 1..Len(g) : k[i] = g[i]
<1>1. g \in Seq(C!ToSet(g)) /\ Len(g) \in Nat
  BY SequenceOfOwn DEF GraphOK
<1>2. CASE k = g
  BY <1>1, <1>2
<1>3. ASSUME NEW c, k = Append(g, c)
      PROVE  /\ Len(k) \in Nat /\ Len(g) <= Len(k)
             /\ \A i \in 1..Len(g) : k[i] = g[i]
  <2> DEFINE S == C!ToSet(g) \cup {c}
  <2>1. g \in Seq(S) /\ c \in S
    BY <1>1, SeqMonotonic
  <2> HIDE DEF S
  <2>2. Len(k) = Len(g) + 1 /\ \A i \in 1..Len(g) : k[i] = g[i]
    BY <1>3, <2>1, SetOfAppend
  <2>. QED BY <1>1, <2>2
<1>. QED BY <1>1, <1>2, <1>3 DEF GrowsByOne

LEMMA TurnGrows ==
    ASSUME NEW g, GraphOK(g), NEW k, GrowsByOne(g, k),
           NEW n \in Nat, n <= Len(g), NEW m \in Nat, n <= m
    PROVE  /\ \A f : Found(g, n, f) => Found(k, m, f)
           /\ \A t : AllFound(g, n, t) => AllFound(k, m, t)
           /\ \A s : Recorded(g, n, s) => Recorded(k, m, s)
           /\ \A p, rl, ts, nx, cs, ht, up :
                 InTurn(g, n, p, rl, ts, nx, cs, ht) /\ (ht => up)
                    => InTurn(k, m, p, rl, ts, nx, cs, up)
<1>1. PICK l \in Nat : l = Len(g)
  BY FoundStays
<1>2. \A i \in 1..n : i \in 1..m /\ k[i] = g[i]
  BY <1>1, FoundStays
<1>3. \A f : Found(g, n, f) => Found(k, m, f)
  BY <1>2 DEF Found
<1>4. \A t : AllFound(g, n, t) => AllFound(k, m, t)
  BY <1>3 DEF AllFound
<1>5. \A s : Recorded(g, n, s) => Recorded(k, m, s)
  BY <1>4 DEF Recorded
<1>6. \A p, ts, nx, cs : Owed(g, n, p, ts, nx, cs) => Owed(k, m, p, ts, nx, cs)
  BY <1>3, <1>4 DEF Owed
<1>7. ASSUME NEW p, NEW rl, NEW ts, NEW nx, NEW cs, NEW ht, NEW up,
             InTurn(g, n, p, rl, ts, nx, cs, ht), ht => up
      PROVE  InTurn(k, m, p, rl, ts, nx, cs, up)
  BY <1>6, <1>7 DEF InTurn
<1>. QED BY <1>3, <1>4, <1>5, <1>7

(* A list of cards, and the list behind its head.                          *)
LEMMA CardsLeft ==
    ASSUME NEW s, IsSequence(s), s # <<>>
    PROVE  /\ IsSequence(Tail(s))
           /\ \A x \in C!ToSet(s) : x = Head(s) \/ x \in C!ToSet(Tail(s))
<1>1. s \in Seq(C!ToSet(s)) /\ Len(s) \in Nat
      /\ \A x : x \in C!ToSet(s) <=> \E i \in 1..Len(s) : s[i] = x
  BY SequenceOfOwn
<1>2. PICK n \in Nat : n = Len(s)
  BY <1>1
<1>3. /\ Tail(s) \in Seq(C!ToSet(s)) /\ Len(Tail(s)) = n - 1 /\ Head(s) = s[1]
      /\ \A i \in 1..Len(Tail(s)) : Tail(s)[i] = s[i + 1]
  BY <1>1, <1>2, HeadTailProperties
<1>4. ASSUME NEW i \in 1..n, i # 1 PROVE s[i] \in C!ToSet(Tail(s))
  <2>1. PICK j : j = i - 1
    OBVIOUS
  <2>2. j \in 1..(n - 1) /\ j + 1 = i
    BY <1>4, <2>1
  <2>3. Tail(s)[j] = s[i]
    BY <1>3, <2>2
  <2>. QED BY <1>3, <2>2, <2>3, SetOfSeq
<1>. QED BY <1>1, <1>2, <1>3, <1>4 DEF IsSequence

(* The functions of PersistHook are functions of its runs.                 *)
OfRuns ==
    /\ DOMAIN pc = Runs /\ DOMAIN role = Runs /\ DOMAIN texts = Runs
    /\ DOMAIN next = Runs /\ DOMAIN frame = Runs /\ DOMAIN cards = Runs

TurnOf(g, n, r) == InTurn(g, n, pc[r], role[r], texts[r], next[r], cards[r], halt)

LEMMA OfRunsStays ==
    ASSUME OfRuns, NEW r \in Runs, H!Run(r)
    PROVE  OfRuns'
<1>1. CASE H!OnCompletionCall(r) \/ H!OnCompletionResponse(r)
  BY <1>1 DEF H!OnCompletionCall, H!OnCompletionResponse, H!Enter, H!Goto, OfRuns
<1>2. CASE H!Return(r) \/ H!BeginWrite(r)
  BY <1>2 DEF H!Return, H!BeginWrite, H!Goto, OfRuns
<1>3. ASSUME NEW rest, H!Proceed(r, rest), UNCHANGED <<role, texts>>, DOMAIN frame' = Runs
      PROVE  OfRuns'
  BY <1>3 DEF H!Proceed, H!EndWrite, H!Goto, OfRuns
<1>4. ASSUME UNCHANGED <<role, texts, frame, cards>>,
             H!EndWrite(r) \/ (H!Goto(r, "ended") /\ next' = next)
      PROVE  OfRuns'
  BY <1>4 DEF H!EndWrite, H!Goto, OfRuns
<1>5. CASE H!Put(r)
  <2>1. DOMAIN frame' = Runs
    BY <1>5 DEF H!Put, OfRuns
  <2>. QED BY <1>3, <1>4, <1>5, <2>1 DEF H!Put
<1>6. CASE H!PutCard(r)
  <2>1. DOMAIN frame' = Runs
    BY <1>6 DEF H!PutCard, OfRuns
  <2>. QED BY <1>3, <1>4, <1>6, <2>1 DEF H!PutCard
<1>7. CASE H!Commit(r)
  BY <1>4, <1>7 DEF H!Commit
<1>. QED BY <1>1, <1>2, <1>5, <1>6, <1>7 DEF H!Run, H!Method

(* The steps of a run change no other run's state, and under Halt lower no *)
(* flag.                                                                   *)
LEMMA OthersStay ==
    ASSUME OfRuns, NEW r \in Runs, H!Run(r)
    PROVE  /\ config' = config
           /\ config.on_write_failure = "halt" /\ halt => halt'
           /\ \A q \in Runs : q # r =>
                 /\ pc'[q] = pc[q] /\ role'[q] = role[q] /\ texts'[q] = texts[q]
                 /\ next'[q] = next[q] /\ frame'[q] = frame[q] /\ cards'[q] = cards[q]
<1>1. CASE H!OnCompletionCall(r) \/ H!OnCompletionResponse(r)
  BY <1>1 DEF H!OnCompletionCall, H!OnCompletionResponse, H!Enter, H!Goto, OfRuns
<1>2. CASE H!Return(r) \/ H!BeginWrite(r)
  BY <1>2 DEF H!Return, H!BeginWrite, H!Goto, OfRuns
<1> DEFINE Others ==
              \A q \in Runs : q # r => pc'[q] = pc[q] /\ next'[q] = next[q] /\ cards'[q] = cards[q]
           Framed == \A q \in Runs : q # r => frame'[q] = frame[q]
<1>3. ASSUME NEW rest, H!Proceed(r, rest) PROVE Others
  BY <1>3 DEF H!Proceed, H!EndWrite, H!Goto, OfRuns
<1>4. ASSUME cards' = cards, H!EndWrite(r) \/ (H!Goto(r, "ended") /\ next' = next) PROVE Others
  BY <1>4 DEF H!EndWrite, H!Goto, OfRuns
<1>5. H!HandleWriteFailure => (config.on_write_failure = "halt" => halt')
  BY DEF H!HandleWriteFailure
<1> HIDE DEF Others
<1>6. CASE H!Put(r)
  <2>1. Others /\ config' = config /\ role' = role /\ texts' = texts
    BY <1>3, <1>4, <1>6 DEF H!Put
  <2>2. halt' = halt \/ H!HandleWriteFailure
    BY <1>6 DEF H!Put
  <2>3. Framed
    BY <1>6 DEF H!Put, OfRuns
  <2>. QED BY <1>5, <2>1, <2>2, <2>3 DEF Others
<1>7. CASE H!PutCard(r)
  <2>1. Others /\ config' = config /\ role' = role /\ texts' = texts /\ frame' = frame
    BY <1>3, <1>4, <1>7 DEF H!PutCard
  <2>2. halt' = halt \/ H!HandleWriteFailure
    BY <1>7 DEF H!PutCard
  <2>. QED BY <1>5, <2>1, <2>2 DEF Others
<1>8. CASE H!Commit(r)
  <2>1. Others /\ config' = config /\ role' = role /\ texts' = texts /\ frame' = frame
    BY <1>4, <1>8 DEF H!Commit
  <2>2. halt' = halt \/ H!HandleWriteFailure
    BY <1>8 DEF H!Commit
  <2>. QED BY <1>5, <2>1, <2>2 DEF Others
<1>. QED BY <1>1, <1>2, <1>6, <1>7, <1>8 DEF H!Run, H!Method

(* Where a write goes when the cards in rest are still to be inserted and  *)
(* the others are found, or the flag is up.                                *)
LEMMA ProceedInTurn ==
    ASSUME OfRuns, NEW r \in Runs, NEW rest, H!Proceed(r, rest), IsSequence(rest),
           NEW k, NEW m, texts[r] = <<texts[r][1]>>, next[r] = 1, texts[r][1] \in Texts,
           halt' \/ \A c \in C!ToSet(ExtractedCards[texts[r][1]]) :
                        Found(k, m, c) \/ c \in C!ToSet(rest)
    PROVE  InTurn(k, m, pc'[r], "user", texts[r], next'[r], cards'[r], halt')
<1>1. cards'[r] = rest
  BY DEF H!Proceed, OfRuns
<1>2. CASE rest # <<>>
  <2>1. pc'[r] = "card" /\ next'[r] = 1
    BY <1>2 DEF H!Proceed, H!Goto, OfRuns
  <2>. QED BY <1>1, <1>2, <2>1 DEF InTurn, Owed
<1>3. CASE rest = <<>>
  <2>1. (pc'[r] = "commit" /\ next'[r] = 1) \/ (pc'[r] = "write" /\ next'[r] = 2)
    <3>1. CASE config.commit_each_turn
      BY <1>3, <3>1 DEF H!Proceed, H!Goto, OfRuns
    <3>2. CASE ~config.commit_each_turn
      BY <1>3, <3>2 DEF H!Proceed, H!EndWrite, H!Goto, OfRuns
    <3>. QED BY <3>1, <3>2
  <2>2. C!ToSet(rest) = {}
    BY <1>3 DEF C!ToSet
  <2>3. halt' \/ AllFound(k, m, texts[r][1])
    BY <2>2 DEF AllFound
  <2>. QED BY <2>1, <2>3 DEF InTurn, Owed
<1>. QED BY <1>2, <1>3

(* A write that ends, with its cards found or the flag up.                 *)
LEMMA EndInTurn ==
    ASSUME OfRuns, NEW r \in Runs, H!EndWrite(r),
           NEW k, NEW m, NEW cs, texts[r] = <<texts[r][1]>>, next[r] = 1, texts[r][1] \in Texts,
           halt' \/ AllFound(k, m, texts[r][1])
    PROVE  InTurn(k, m, pc'[r], "user", texts[r], next'[r], cs, halt')
<1>1. pc'[r] = "write" /\ next'[r] = 2
  BY DEF H!EndWrite, H!Goto, OfRuns
<1>. QED BY <1>1 DEF InTurn, Owed

(* What a step of a run puts into the graph.                               *)
GraphsOf(g, k) == GraphOK(g) /\ GrowsByOne(g, k) /\ g = GraphOf(log) /\ k = GraphOf(log')

LEMMA PutInTurn ==
    ASSUME OfRuns, config.on_write_failure = "halt", NEW r \in Runs, H!Put(r) \/ H!Commit(r),
           NEW g, NEW k, GraphsOf(g, k), role[r] = "user", TurnOf(g, Len(g), r)
    PROVE  InTurn(k, Len(k), pc'[r], role'[r], texts'[r], next'[r], cards'[r], halt')
<1>1. /\ pc[r] \in {"put", "commit"} /\ role' = role /\ texts' = texts
      /\ pc[r] = "put" => H!Put(r)
      /\ pc[r] = "commit" => H!Commit(r)
  BY DEF H!Put, H!Commit
<1>2. /\ texts[r] = <<texts[r][1]>> /\ next[r] = 1 /\ texts[r][1] \in Texts
      /\ ~halt /\ pc[r] = "commit" => AllFound(g, Len(g), texts[r][1])
  BY <1>1 DEF TurnOf, InTurn, Owed, H!InMethod
<1>3. Len(g) \in Nat /\ Len(k) \in Nat /\ Len(g) <= Len(k)
  BY FoundStays DEF GraphsOf
<1>4. AllFound(g, Len(g), texts[r][1]) => AllFound(k, Len(k), texts[r][1])
  BY <1>3, TurnGrows DEF GraphsOf
<1>5. H!HandleWriteFailure => halt'
  BY DEF H!HandleWriteFailure
<1>6. ASSUME pc' = [pc EXCEPT ![r] = "ended"]
      PROVE  InTurn(k, Len(k), pc'[r], role'[r], texts'[r], next'[r], cards'[r], halt')
  BY <1>6 DEF InTurn, H!InMethod, OfRuns
<1>7. CASE H!Put(r)
  <2>1. PICK cs : cs = ExtractedCards[texts[r][1]]
    OBVIOUS
  <2>2. IsSequence(cs)
    BY <1>2, <2>1, ExtractedFacts
  <2>3. \/ H!Proceed(r, cs)
        \/ H!HandleWriteFailure /\ H!EndWrite(r)
        \/ H!Goto(r, "ended")
    BY <1>2, <1>7, <2>1 DEF H!Put
  <2>4. CASE H!Proceed(r, cs)
    BY <1>1, <1>2, <2>1, <2>2, <2>4, ProceedInTurn
  <2>5. CASE H!HandleWriteFailure /\ H!EndWrite(r)
    BY <1>1, <1>2, <1>5, <2>5, EndInTurn
  <2>. QED BY <1>6, <2>3, <2>4, <2>5 DEF H!Goto
<1>8. CASE H!Commit(r)
  <2>1. pc[r] = "commit"
    BY <1>8 DEF H!Commit
  <2>2. \/ H!EndWrite(r) /\ halt' = halt
        \/ H!HandleWriteFailure /\ H!EndWrite(r)
        \/ H!Goto(r, "ended")
    BY <1>8 DEF H!Commit
  <2>3. CASE H!EndWrite(r) /\ (halt' = halt \/ H!HandleWriteFailure)
    <3>1. halt' \/ AllFound(k, Len(k), texts[r][1])
      BY <1>2, <1>4, <1>5, <2>1, <2>3
    <3>. QED BY <1>1, <1>2, <2>3, <3>1, EndInTurn
  <2>. QED BY <1>6, <2>2, <2>3 DEF H!Goto
<1>. QED BY <1>7, <1>8

LEMMA CardInTurn ==
    ASSUME OfRuns, config.on_write_failure = "halt", NEW r \in Runs, H!PutCard(r),
           LogOK(log), turn \in [Runs -> Nat],
           NEW g, NEW k, GraphsOf(g, k), role[r] = "user", TurnOf(g, Len(g), r)
    PROVE  InTurn(k, Len(k), pc'[r], role'[r], texts'[r], next'[r], cards'[r], halt')
<1>1. pc[r] = "card" /\ role' = role /\ texts' = texts
  BY DEF H!PutCard
<1>2. /\ texts[r] = <<texts[r][1]>> /\ next[r] = 1 /\ texts[r][1] \in Texts
      /\ IsSequence(cards[r]) /\ cards[r] # <<>>
      /\ ~halt => \A c \in C!ToSet(ExtractedCards[texts[r][1]]) :
                      Found(g, Len(g), c) \/ c \in C!ToSet(cards[r])
  BY <1>1 DEF TurnOf, InTurn, Owed, H!InMethod
<1>3. /\ IsSequence(Tail(cards[r]))
      /\ \A x \in C!ToSet(cards[r]) : x = Head(cards[r]) \/ x \in C!ToSet(Tail(cards[r]))
  BY <1>2, CardsLeft
<1>4. Len(g) \in Nat /\ Len(k) \in Nat /\ Len(g) <= Len(k)
  BY FoundStays DEF GraphsOf
<1>5. \A c : Found(g, Len(g), c) => Found(k, Len(k), c)
  BY <1>4, TurnGrows DEF GraphsOf
<1>6. \/ H!PutSucceeds(H!Card(r)) /\ H!Proceed(r, Tail(cards[r])) /\ halt' = halt
      \/ H!HandleWriteFailure /\ H!Proceed(r, Tail(cards[r]))
      \/ H!Goto(r, "ended")
  BY DEF H!PutCard
<1>7. CASE H!PutSucceeds(H!Card(r)) /\ H!Proceed(r, Tail(cards[r])) /\ halt' = halt
  <2>1. PICK e : e = H!Card(r)
    OBVIOUS
  <2>2. /\ DOMAIN e = {"cites", "of", "card"} /\ e.card = Head(cards[r])
        /\ log' = Append(log, e) /\ EntryOK(e)
    BY <1>7, <2>1, EntryFields DEF H!Card, H!PutSucceeds
  <2>3. HasCard(e) /\ Tells(CardOf(e), Head(cards[r]))
    BY <2>2 DEF HasCard, CardOf, Stored, Tells
  <2>4. k = Append(g, CardOf(e))
    BY <2>2, <2>3, GraphGrows DEF GraphsOf
  <2>5. k[Len(k)] = CardOf(e) /\ Len(k) \in 1..Len(k)
    <3> DEFINE S == C!ToSet(g) \cup {CardOf(e)}
    <3>1. g \in Seq(C!ToSet(g))
      BY SequenceOfOwn DEF GraphsOf, GraphOK
    <3>2. g \in Seq(S) /\ CardOf(e) \in S
      BY <3>1, SeqMonotonic
    <3> HIDE DEF S
    <3>3. Len(k) = Len(g) + 1 /\ k[Len(g) + 1] = CardOf(e)
      BY <2>4, <3>2, SetOfAppend
    <3>. QED BY <1>4, <3>3
  <2>6. Found(k, Len(k), Head(cards[r]))
    BY <2>3, <2>5 DEF Found
  <2>7. halt' \/ \A c \in C!ToSet(ExtractedCards[texts[r][1]]) :
                     Found(k, Len(k), c) \/ c \in C!ToSet(Tail(cards[r]))
    BY <1>2, <1>3, <1>5, <1>7, <2>6
  <2>. QED BY <1>1, <1>2, <1>3, <1>7, <2>7, ProceedInTurn
<1>8. CASE H!HandleWriteFailure /\ H!Proceed(r, Tail(cards[r]))
  <2>1. halt'
    BY <1>8 DEF H!HandleWriteFailure
  <2>. QED BY <1>1, <1>2, <1>3, <1>8, <2>1, ProceedInTurn
<1>9. CASE H!Goto(r, "ended")
  <2>1. pc'[r] = "ended"
    BY <1>9 DEF H!Goto, OfRuns
  <2>. QED BY <2>1 DEF InTurn, H!InMethod
<1>. QED BY <1>6, <1>7, <1>8, <1>9

(* A run's own step leaves its turn in order.                              *)
LEMMA OwnTurn ==
    ASSUME OfRuns, config.on_write_failure = "halt", NEW r \in Runs, H!Run(r),
           LogOK(log), turn \in [Runs -> Nat],
           NEW g, NEW k, GraphsOf(g, k), TurnOf(g, Len(g), r)
    PROVE  InTurn(k, Len(k), pc'[r], role'[r], texts'[r], next'[r], cards'[r], halt')
<1>1. CASE H!OnCompletionCall(r)
  <2>1. PICK p \in Prompts : H!Enter(r, "user", <<p>>)
    BY <1>1 DEF H!OnCompletionCall
  <2>2. pc'[r] = "write" /\ next'[r] = 1 /\ texts'[r] = <<p>>
    BY <1>1, <2>1 DEF H!OnCompletionCall, H!Enter, H!Goto, OfRuns
  <2>. QED BY <2>2 DEF InTurn, Owed
<1>2. CASE H!OnCompletionResponse(r)
  <2>1. role'[r] = "assistant"
    BY <1>2 DEF H!OnCompletionResponse, H!Enter, OfRuns
  <2>. QED BY <2>1 DEF InTurn
<1>3. CASE H!Return(r)
  <2>1. pc'[r] \in {"ended", "model", "ready"}
    BY <1>3 DEF H!Return, H!Goto, OfRuns
  <2>. QED BY <2>1 DEF InTurn, H!InMethod
<1>4. CASE role[r] # "user" /\ H!Method(r)
  <2>1. role' = role
    BY <1>4 DEF H!Method, H!Return, H!BeginWrite, H!Put, H!PutCard, H!Commit
  <2>. QED BY <1>4, <2>1 DEF InTurn
<1>5. CASE H!BeginWrite(r) /\ role[r] = "user"
  <2>1. /\ pc[r] = "write" /\ next[r] <= Len(texts[r])
        /\ UNCHANGED <<role, texts, cards>>
        /\ \/ texts[r][next[r]] \in {Blank, NoText} /\ next'[r] = next[r] + 1 /\ pc' = pc
           \/ texts[r][next[r]] \in Texts /\ pc'[r] = "put" /\ next' = next
    BY <1>5 DEF H!BeginWrite, H!Goto, OfRuns
  <2>2. texts[r] = <<texts[r][1]>> /\ next[r] \in {1, 2}
    BY <1>5, <2>1 DEF TurnOf, InTurn, H!InMethod
  <2>3. Len(texts[r]) = 1 /\ next[r] = 1
    <3>1. PICK x, ts : x = texts[r][1] /\ ts = texts[r] /\ ts = <<x>>
      BY <2>2
    <3>2. Len(ts) = 1
      BY <3>1
    <3>. QED BY <2>1, <2>2, <3>1, <3>2
  <2>4. texts'[r] = <<texts'[r][1]>> /\ texts'[r][1] = texts[r][1]
    BY <2>1, <2>2
  <2>5. CASE texts[r][1] \in {Blank, NoText} /\ next'[r] = 2 /\ pc' = pc
    <3>1. texts[r][1] \notin Texts
      BY <2>5, HookAssumption
    <3>. QED BY <2>1, <2>4, <2>5, <3>1 DEF InTurn
  <2>6. CASE texts[r][1] \in Texts /\ pc'[r] = "put" /\ next' = next
    BY <2>3, <2>4, <2>6 DEF InTurn, Owed
  <2>. QED BY <2>1, <2>3, <2>5, <2>6
<1>6. CASE (H!Put(r) \/ H!Commit(r)) /\ role[r] = "user"
  BY <1>6, PutInTurn
<1>7. CASE H!PutCard(r) /\ role[r] = "user"
  BY <1>7, CardInTurn
<1>. QED BY <1>1, <1>2, <1>3, <1>4, <1>5, <1>6, <1>7 DEF H!Run, H!Method

(* A turn that goes on is recorded.                                        *)
LEMMA ContinuedStep ==
    ASSUME NEW r \in Runs, H!Run(r), NEW g, NEW k, GraphsOf(g, k),
           TurnOf(g, Len(g), r), Recorded(g, Len(g), continued)
    PROVE  Recorded(k, Len(k), continued')
<1>1. Recorded(g, Len(g), continued) => Recorded(k, Len(k), continued)
  BY FoundStays, TurnGrows DEF GraphsOf
<1>2. CASE H!Return(r) /\ continued' # continued
  <2>1. /\ pc[r] = "write" /\ next[r] > Len(texts[r]) /\ ~halt
        /\ continued' = continued \cup
              {H!Entry(r, texts[r][i]) : i \in {j \in 1..Len(texts[r]) : texts[r][j] \in Texts}}
    BY <1>2 DEF H!Return
  <2>2. SUFFICES ASSUME role[r] = "user", NEW i \in 1..Len(texts[r]), texts[r][i] \in Texts
                 PROVE  AllFound(g, Len(g), texts[r][i])
    <3>1. ASSUME NEW i \in 1..Len(texts[r]), texts[r][i] \in Texts,
                 NEW e, e = H!Entry(r, texts[r][i]), e.role = "user"
          PROVE  e.text \in Texts /\ AllFound(g, Len(g), e.text)
      <4>1. e.role = role[r] /\ e.text = texts[r][i]
        BY <3>1 DEF H!Entry
      <4>. QED BY <2>2, <3>1, <4>1
    <3>2. Recorded(g, Len(g), continued')
      BY <2>1, <3>1 DEF Recorded
    <3>. QED BY <3>2, FoundStays, TurnGrows DEF GraphsOf
  <2>3. texts[r] = <<texts[r][1]>> /\ next[r] \in {1, 2}
    BY <2>1, <2>2 DEF TurnOf, InTurn, H!InMethod
  <2>4. PICK x, ts : x = texts[r][1] /\ ts = texts[r] /\ ts = <<x>>
    BY <2>3
  <2>5. Len(ts) = 1
    BY <2>4
  <2>6. i = 1 /\ next[r] = 2
    BY <2>1, <2>2, <2>3, <2>4, <2>5
  <2>. QED BY <2>1, <2>2, <2>6 DEF TurnOf, InTurn, Owed, H!InMethod
<1>3. CASE continued' = continued
  BY <1>1, <1>3
<1>4. H!Return(r) \/ continued' = continued
  BY DEF H!Run, H!Method, H!OnCompletionCall, H!OnCompletionResponse, H!Enter, H!BeginWrite,
         H!Put, H!PutCard, H!Commit
<1>. QED BY <1>2, <1>3, <1>4

Halting == config.on_write_failure = "halt"

RecordedInv ==
    /\ RecallInv
    /\ OfRuns
    /\ Halting =>
          /\ \A r \in Runs : TurnOf(Graph, Len(Graph), r)
          /\ Recorded(Graph, Len(Graph), continued)
          /\ stage # "idle" => Recorded(Graph, before, said)

LEMMA RecordedInit == Init => RecordedInv
<1>. SUFFICES ASSUME Init PROVE RecordedInv
  OBVIOUS
<1>1. RecallInv
  BY RecallInit
<1>2. OfRuns /\ stage = "idle" /\ continued = {} /\ \A r \in Runs : pc[r] = "ready"
  BY DEF Init, H!Init, C!CardContextInit, OfRuns
<1>3. \A r \in Runs : TurnOf(Graph, Len(Graph), r)
  BY <1>2 DEF TurnOf, InTurn, H!InMethod
<1>4. Recorded(Graph, Len(Graph), continued)
  BY <1>2 DEF Recorded
<1>. QED BY <1>1, <1>2, <1>3, <1>4 DEF RecordedInv

LEMMA RecordedStep == RecordedInv /\ [Next]_vars => RecordedInv'
<1>. SUFFICES ASSUME RecordedInv, [Next]_vars PROVE RecordedInv'
  OBVIOUS
<1>1. RecallInv /\ RecallInv' /\ OfRuns
  BY RecallStep DEF RecordedInv
<1>2. PICK g : g = Graph
  OBVIOUS
<1>3. PICK k : k = Graph'
  OBVIOUS
<1>4. /\ LogOK(log) /\ turn \in [Runs -> Nat] /\ GraphOK(g) /\ g = GraphOf(log) /\ k = GraphOf(log')
      /\ before \in Nat /\ before <= Len(g) /\ Len(g) \in Nat
  <2>1. LogOK(log) /\ turn \in [Runs -> Nat] /\ g = GraphOf(log) /\ k = GraphOf(log')
    BY <1>1, <1>2, <1>3, GraphIs DEF RecallInv, Graph, GraphOf
  <2>2. GraphOK(g)
    BY <2>1, GraphIsOK
  <2>3. before \in Nat /\ before <= Len(g)
    BY <1>1, <1>2 DEF RecallInv, Inv, SelectionInv, Formed
  <2>. QED BY <2>1, <2>2, <2>3, SequenceOfOwn DEF GraphOK
<1>5. SUFFICES /\ OfRuns'
               /\ Halting' =>
                     /\ \A r \in Runs : InTurn(k, Len(k), pc'[r], role'[r], texts'[r], next'[r],
                                               cards'[r], halt')
                     /\ Recorded(k, Len(k), continued')
                     /\ stage' # "idle" => Recorded(k, before', said')
  BY <1>1, <1>3 DEF RecordedInv, TurnOf
<1>6. ASSUME LogStep PROVE GraphsOf(g, k)
  <2>1. CASE log' = log
    BY <1>4, <2>1 DEF GraphsOf, GrowsByOne
  <2>2. ASSUME NEW e, EntryOK(e), log' = Append(log, e) PROVE GraphsOf(g, k)
    BY <1>4, <2>2, GraphGrows DEF GraphsOf
  <2>. QED BY <1>6, <2>1, <2>2 DEF LogStep
<1>7. Halting => /\ \A r \in Runs : TurnOf(g, Len(g), r)
                 /\ Recorded(g, Len(g), continued)
                 /\ stage # "idle" => Recorded(g, before, said)
  BY <1>2 DEF RecordedInv
<1>8. ASSUME NEW r \in Runs, Hook(r)
      PROVE  /\ OfRuns'
             /\ Halting' =>
                   /\ \A q \in Runs : InTurn(k, Len(k), pc'[q], role'[q], texts'[q], next'[q],
                                             cards'[q], halt')
                   /\ Recorded(k, Len(k), continued')
                   /\ stage' # "idle" => Recorded(k, before', said')
  <2>1. H!Run(r) /\ UNCHANGED <<selection, said>> /\ LogStep
    BY <1>4, <1>8, HookLogStep DEF Hook
  <2>2. GraphsOf(g, k)
    BY <1>6, <2>1
  <2>3. OfRuns'
    BY <1>1, <2>1, OfRunsStays
  <2>4. SUFFICES ASSUME Halting'
                 PROVE  /\ \A q \in Runs : InTurn(k, Len(k), pc'[q], role'[q], texts'[q], next'[q],
                                                  cards'[q], halt')
                        /\ Recorded(k, Len(k), continued')
                        /\ stage' # "idle" => Recorded(k, before', said')
    BY <2>3
  <2>5. config' = config
    BY <2>1 DEF H!Run, H!Method, H!OnCompletionCall, H!OnCompletionResponse, H!Return,
                H!BeginWrite, H!Put, H!PutCard, H!Commit
  <2>6. config.on_write_failure = "halt"
    BY <2>4, <2>5 DEF Halting
  <2>7. ASSUME NEW q \in Runs
        PROVE  InTurn(k, Len(k), pc'[q], role'[q], texts'[q], next'[q], cards'[q], halt')
    <3>1. TurnOf(g, Len(g), q)
      BY <1>7, <2>6 DEF Halting
    <3>2. CASE q = r
      BY <1>1, <1>4, <2>1, <2>2, <2>6, <3>1, <3>2, OwnTurn
    <3>3. CASE q # r
      <4>1. /\ pc'[q] = pc[q] /\ role'[q] = role[q] /\ texts'[q] = texts[q]
            /\ next'[q] = next[q] /\ cards'[q] = cards[q] /\ (halt => halt')
        BY <1>1, <2>1, <2>6, <3>3, OthersStay
      <4>2. Len(k) \in Nat /\ Len(g) <= Len(k)
        BY <2>2, FoundStays DEF GraphsOf
      <4>3. InTurn(k, Len(k), pc[q], role[q], texts[q], next[q], cards[q], halt')
        BY <1>4, <2>2, <3>1, <4>1, <4>2, TurnGrows DEF TurnOf, GraphsOf
      <4>. QED BY <4>1, <4>3
    <3>. QED BY <3>2, <3>3
  <2>8. Recorded(k, Len(k), continued')
    BY <1>7, <2>1, <2>2, <2>6, ContinuedStep DEF Halting
  <2>9. stage' # "idle" => Recorded(k, before', said')
    <3>1. stage' = stage /\ before' = before /\ said' = said
      BY <2>1 DEF selection
    <3>2. Recorded(g, before, said) => Recorded(k, before, said)
      BY <1>4, <2>2, TurnGrows DEF GraphsOf
    <3>. QED BY <1>7, <2>6, <3>1, <3>2 DEF Halting
  <2>. QED BY <2>7, <2>8, <2>9
<1>9. ASSUME PutOtherCard \/ UNCHANGED vars
      PROVE  /\ OfRuns'
             /\ Halting' =>
                   /\ \A q \in Runs : InTurn(k, Len(k), pc'[q], role'[q], texts'[q], next'[q],
                                             cards'[q], halt')
                   /\ Recorded(k, Len(k), continued')
                   /\ stage' # "idle" => Recorded(k, before', said')
  <2>1. UNCHANGED <<turns, selection, said>>
    BY <1>9 DEF PutOtherCard, vars
  <2>2. LogStep
    BY <1>4, <1>9, OtherLogStep DEF vars, turns, LogStep
  <2>3. GraphsOf(g, k)
    BY <1>6, <2>2
  <2>4. Len(k) \in Nat /\ Len(g) <= Len(k)
    BY <2>3, FoundStays DEF GraphsOf
  <2>5. /\ \A s : Recorded(g, Len(g), s) => Recorded(k, Len(k), s)
        /\ \A s : Recorded(g, before, s) => Recorded(k, before, s)
    BY <1>4, <2>3, <2>4, TurnGrows DEF GraphsOf
  <2>6. ASSUME NEW q \in Runs, TurnOf(g, Len(g), q)
        PROVE  InTurn(k, Len(k), pc[q], role[q], texts[q], next[q], cards[q], halt)
    BY <1>4, <2>3, <2>4, <2>6, TurnGrows DEF TurnOf, GraphsOf
  <2>7. /\ config' = config /\ pc' = pc /\ role' = role /\ texts' = texts /\ next' = next
        /\ frame' = frame /\ cards' = cards /\ halt' = halt /\ continued' = continued /\ stage' = stage
        /\ before' = before /\ said' = said
    BY <2>1 DEF turns, selection
  <2>. QED BY <1>1, <1>7, <2>5, <2>6, <2>7 DEF OfRuns, Halting
<1>10. ASSUME AskCards \/ Selecting
       PROVE  /\ OfRuns'
              /\ Halting' =>
                    /\ \A q \in Runs : InTurn(k, Len(k), pc'[q], role'[q], texts'[q], next'[q],
                                              cards'[q], halt')
                    /\ Recorded(k, Len(k), continued')
                    /\ stage' # "idle" => Recorded(k, before', said')
  <2>1. UNCHANGED <<log, turns>>
    BY <1>10 DEF AskCards, Selecting
  <2>2. k = g
    BY <1>4, <2>1
  <2>3. /\ config' = config /\ pc' = pc /\ role' = role /\ texts' = texts /\ next' = next
        /\ frame' = frame /\ cards' = cards /\ halt' = halt /\ continued' = continued
    BY <2>1 DEF turns
  <2>4. Halting /\ stage' # "idle" => Recorded(k, before', said')
    <3>1. CASE AskCards
      <4>1. before' = Len(g) /\ said' = continued
        BY <1>2, <3>1 DEF AskCards, C!TopN
      <4>. QED BY <1>7, <2>2, <4>1
    <3>2. CASE Selecting
      <4>1. before' = before /\ said' = said /\ stage # "idle"
        BY <3>2 DEF Selecting, C!Select, C!Reading, C!SelectEntityMentions, C!SelectRecent,
           C!SelectPreferences, C!ReadPrincipal, C!ReadPrincipalLower, C!ScanAll, C!ReadRelated,
           C!ReadRelatedLower, C!ReadFails, C!Rank
      <4>. QED BY <1>7, <2>2, <4>1
    <3>. QED BY <1>10, <3>1, <3>2
  <2>. QED BY <1>1, <1>7, <2>2, <2>3, <2>4 DEF OfRuns, Halting, TurnOf
<1>. QED BY <1>8, <1>9, <1>10 DEF Next

LEMMA RecordedInvHolds == Spec => []RecordedInv
BY RecordedInit, RecordedStep, PTL DEF Spec

------------------------------------------------------------------------------
(* Where the cards of the archive come from: one of the hook was found in  *)
(* the text of the frame that it cites, any other is one of OtherCards.    *)

FoundIn(l, i, c) ==
    i \in 1..Len(l) /\ l[i].text \in Texts /\ c \in C!ToSet(ExtractedCards[l[i].text])

EntrySourced(l, e) ==
    /\ "cites" \in DOMAIN e => FoundIn(l, e.cites, e.card)
    /\ "other" \in DOMAIN e => e.other \in OtherCards

Sourced(l) == \A i \in 1..Len(l) : EntrySourced(l, l[i])

(* What a run in write is about to put: its pc, texts, next, frame, cards. *)
AtHand(l, p, ts, nx, fr, cs) ==
    /\ p = "put" => ts[nx] \in Texts
    /\ p = "card" => IsSequence(cs) /\ cs # <<>> /\ \A c \in C!ToSet(cs) : FoundIn(l, fr, c)

HandOf(l, r) == AtHand(l, pc[r], texts[r], next[r], frame[r], cards[r])

LEMMA SourcesStay ==
    ASSUME NEW l, IsSequence(l), NEW e, EntrySourced(l, e)
    PROVE  LET m == Append(l, e)
           IN  /\ Len(m) = Len(l) + 1 /\ Len(l) \in Nat /\ m[Len(m)] = e
               /\ \A i, c : FoundIn(l, i, c) => FoundIn(m, i, c)
               /\ \A p, ts, nx, fr, cs :
                     AtHand(l, p, ts, nx, fr, cs) => AtHand(m, p, ts, nx, fr, cs)
               /\ Sourced(l) => Sourced(m)
<1> DEFINE S == C!ToSet(l) \cup {e}
<1>1. l \in Seq(S) /\ e \in S
  <2>1. l \in Seq(C!ToSet(l))
    BY SequenceOfOwn
  <2>. QED BY <2>1, SeqMonotonic
<1> HIDE DEF S
<1>2. PICK m, n : m = Append(l, e) /\ n = Len(l)
  OBVIOUS
<1>3. /\ n \in Nat /\ Len(m) = n + 1 /\ m[n + 1] = e
      /\ \A i \in 1..n : m[i] = l[i] /\ i \in 1..(n + 1)
  BY <1>1, <1>2, SetOfAppend, LenProperties
<1>4. \A i, c : FoundIn(l, i, c) => FoundIn(m, i, c)
  BY <1>2, <1>3 DEF FoundIn
<1>5. \A p, ts, nx, fr, cs : AtHand(l, p, ts, nx, fr, cs) => AtHand(m, p, ts, nx, fr, cs)
  BY <1>4 DEF AtHand
<1>6. \A x : EntrySourced(l, x) => EntrySourced(m, x)
  BY <1>4 DEF EntrySourced
<1>7. ASSUME Sourced(l), NEW i \in 1..(n + 1) PROVE EntrySourced(m, m[i])
  <2>1. i \in 1..n \/ i = n + 1
    BY <1>3
  <2>. QED BY <1>2, <1>3, <1>6, <1>7, <2>1 DEF Sourced
<1>. QED BY <1>2, <1>3, <1>4, <1>5, <1>7 DEF Sourced

(* Where a write goes with cards found in the frame that it cites.         *)
LEMMA ProceedAtHand ==
    ASSUME OfRuns, NEW r \in Runs, NEW rest, H!Proceed(r, rest), IsSequence(rest),
           NEW l, NEW ts, NEW fr, \A c \in C!ToSet(rest) : FoundIn(l, fr, c)
    PROVE  AtHand(l, pc'[r], ts, next'[r], fr, cards'[r])
<1>1. cards'[r] = rest
  BY DEF H!Proceed, OfRuns
<1>2. CASE rest # <<>>
  <2>1. pc'[r] = "card"
    BY <1>2 DEF H!Proceed, H!Goto, OfRuns
  <2>. QED BY <1>1, <1>2, <2>1 DEF AtHand
<1>3. CASE rest = <<>>
  <2>1. pc'[r] \in {"commit", "write"}
    BY <1>3 DEF H!Proceed, H!EndWrite, H!Goto, OfRuns
  <2>. QED BY <2>1 DEF AtHand
<1>. QED BY <1>2, <1>3

(* What a step of the hook puts, and has at hand behind it.                *)
LEMMA SourcedPut ==
    ASSUME OfRuns, IsSequence(log), NEW r \in Runs, HandOf(log, r), H!Put(r)
    PROVE  /\ log' = log \/ \E e : EntrySourced(log, e) /\ log' = Append(log, e)
           /\ AtHand(log', pc'[r], texts'[r], next'[r], frame'[r], cards'[r])
<1>1. PICK t : t = texts[r][next[r]]
  OBVIOUS
<1>2. t \in Texts
  BY <1>1 DEF H!Put, HandOf, AtHand
<1>3. PICK e : e = H!Current(r)
  OBVIOUS
<1>4. e.text = t /\ EntrySourced(log, e)
  BY <1>1, <1>3 DEF H!Current, H!Entry, EntrySourced
<1>5. CASE H!PutSucceeds(e) /\ frame' = [frame EXCEPT ![r] = Len(log')]
           /\ H!Proceed(r, IF role[r] = "user" THEN ExtractedCards[t] ELSE <<>>)
  <2>1. log' = Append(log, e) /\ frame'[r] = Len(log')
    BY <1>5 DEF H!PutSucceeds, OfRuns
  <2>2. /\ Len(log') = Len(log) + 1 /\ Len(log) \in Nat /\ log'[Len(log')] = e
    BY <1>4, <2>1, SourcesStay
  <2>3. \A c \in C!ToSet(ExtractedCards[t]) : FoundIn(log', frame'[r], c)
    BY <1>2, <1>4, <2>1, <2>2 DEF FoundIn
  <2>4. PICK rest : rest = IF role[r] = "user" THEN ExtractedCards[t] ELSE <<>>
    OBVIOUS
  <2>5. IsSequence(rest) /\ \A c \in C!ToSet(rest) : FoundIn(log', frame'[r], c)
    <3>1. IsSequence(<<>>) /\ C!ToSet(<<>>) = {}
      BY EmptySeq DEF IsSequence, C!ToSet
    <3>2. IsSequence(ExtractedCards[t])
      BY <1>2, ExtractedFacts
    <3>. QED BY <2>3, <2>4, <3>1, <3>2
  <2>6. AtHand(log', pc'[r], texts'[r], next'[r], frame'[r], cards'[r])
    BY <1>5, <2>4, <2>5, ProceedAtHand
  <2>. QED BY <1>4, <2>1, <2>6
<1>6. CASE H!PutFails("put") /\ H!EndWrite(r)
  <2>1. pc'[r] = "write" /\ log' = log
    BY <1>6 DEF H!EndWrite, H!Goto, H!PutFails, H!archive, OfRuns
  <2>. QED BY <2>1 DEF AtHand
<1>7. CASE H!PutPanics(e) /\ H!Goto(r, "ended")
  <2>1. pc'[r] = "ended" /\ (log' = log \/ log' = Append(log, e))
    BY <1>7 DEF H!Goto, H!PutPanics, OfRuns
  <2>. QED BY <1>4, <2>1 DEF AtHand
<1>. QED BY <1>1, <1>3, <1>5, <1>6, <1>7 DEF H!Put

LEMMA SourcedCard ==
    ASSUME OfRuns, IsSequence(log), NEW r \in Runs, HandOf(log, r), H!PutCard(r)
    PROVE  /\ log' = log \/ \E e : EntrySourced(log, e) /\ log' = Append(log, e)
           /\ AtHand(log', pc'[r], texts'[r], next'[r], frame'[r], cards'[r])
<1>1. PICK cs, fr : cs = cards[r] /\ fr = frame[r]
  OBVIOUS
<1>2. IsSequence(cs) /\ cs # <<>> /\ \A c \in C!ToSet(cs) : FoundIn(log, fr, c)
  BY <1>1 DEF H!PutCard, HandOf, AtHand
<1>3. Head(cs) \in C!ToSet(cs) /\ IsSequence(Tail(cs)) /\ C!ToSet(Tail(cs)) \subseteq C!ToSet(cs)
  <2>1. cs \in Seq(C!ToSet(cs))
    BY <1>2, SequenceOfOwn
  <2>2. Head(cs) \in C!ToSet(cs) /\ Tail(cs) \in Seq(C!ToSet(cs))
    BY <1>2, <2>1, HeadTailProperties
  <2>3. /\ \A i \in 1..Len(Tail(cs)) : Tail(cs)[i] \in C!ToSet(cs)
        /\ \A x : x \in C!ToSet(Tail(cs)) <=> \E i \in 1..Len(Tail(cs)) : Tail(cs)[i] = x
    BY <2>2, SetOfSeq
  <2>. QED BY <2>2, <2>3 DEF IsSequence
<1>4. PICK e : e = H!Card(r)
  OBVIOUS
<1>5. EntrySourced(log, e)
  <2>1. DOMAIN e = {"cites", "of", "card"} /\ e.cites = fr /\ e.card = Head(cs)
    BY <1>1, <1>4 DEF H!Card
  <2>. QED BY <1>2, <1>3, <2>1 DEF EntrySourced
<1>6. frame'[r] = fr
  BY <1>1 DEF H!PutCard
<1>7. CASE H!PutSucceeds(e) /\ H!Proceed(r, Tail(cs))
  <2>1. log' = Append(log, e)
    BY <1>7 DEF H!PutSucceeds
  <2>2. \A c \in C!ToSet(Tail(cs)) : FoundIn(log', fr, c)
    BY <1>2, <1>3, <1>5, <2>1, SourcesStay
  <2>3. AtHand(log', pc'[r], texts'[r], next'[r], frame'[r], cards'[r])
    BY <1>3, <1>6, <1>7, <2>2, ProceedAtHand
  <2>. QED BY <1>5, <2>1, <2>3
<1>8. CASE H!PutFails("card") /\ H!Proceed(r, Tail(cs))
  <2>1. log' = log
    BY <1>8 DEF H!PutFails, H!archive
  <2>2. AtHand(log', pc'[r], texts'[r], next'[r], frame'[r], cards'[r])
    BY <1>2, <1>3, <1>6, <1>8, <2>1, ProceedAtHand
  <2>. QED BY <2>1, <2>2
<1>9. CASE H!PutPanics(e) /\ H!Goto(r, "ended")
  <2>1. pc'[r] = "ended" /\ (log' = log \/ log' = Append(log, e))
    BY <1>9 DEF H!Goto, H!PutPanics, OfRuns
  <2>. QED BY <1>5, <2>1 DEF AtHand
<1>. QED BY <1>1, <1>4, <1>7, <1>8, <1>9 DEF H!PutCard

LEMMA SourcedHook ==
    ASSUME OfRuns, IsSequence(log), NEW r \in Runs, HandOf(log, r), H!Run(r)
    PROVE  /\ log' = log \/ \E e : EntrySourced(log, e) /\ log' = Append(log, e)
           /\ AtHand(log', pc'[r], texts'[r], next'[r], frame'[r], cards'[r])
<1>1. ASSUME log' = log, pc'[r] \in {"ready", "model", "write", "ended"}
      PROVE  /\ log' = log
             /\ AtHand(log', pc'[r], texts'[r], next'[r], frame'[r], cards'[r])
  BY <1>1 DEF AtHand
<1>2. CASE H!OnCompletionCall(r) \/ H!OnCompletionResponse(r)
  BY <1>1, <1>2 DEF H!OnCompletionCall, H!OnCompletionResponse, H!Goto, H!archive, OfRuns
<1>3. CASE H!Return(r)
  BY <1>1, <1>3 DEF H!Return, H!Goto, H!archive, OfRuns
<1>4. CASE H!BeginWrite(r)
  <2>1. /\ log' = log /\ texts' = texts
        /\ pc'[r] = "write" \/ (pc'[r] = "put" /\ next' = next /\ texts[r][next[r]] \in Texts)
    BY <1>4 DEF H!BeginWrite, H!Goto, H!archive, OfRuns
  <2>. QED BY <1>1, <2>1 DEF AtHand
<1>5. CASE H!Commit(r)
  BY <1>1, <1>5 DEF H!Commit, H!CommitSucceeds, H!CommitFails, H!CommitPanics, H!EndWrite,
                    H!Goto, OfRuns
<1>. QED BY <1>2, <1>3, <1>4, <1>5, SourcedPut, SourcedCard DEF H!Run, H!Method

SourcedInv ==
    /\ RecallInv
    /\ OfRuns
    /\ Sourced(log)
    /\ \A r \in Runs : HandOf(log, r)

LEMMA SourcedInit == Init => SourcedInv
<1>. SUFFICES ASSUME Init PROVE SourcedInv
  OBVIOUS
<1>1. log = <<>> /\ OfRuns /\ \A r \in Runs : pc[r] = "ready"
  BY DEF Init, H!Init, H!ArchiveInit, OfRuns
<1>2. Sourced(log)
  BY <1>1 DEF Sourced
<1>. QED BY <1>1, <1>2, RecallInit DEF SourcedInv, HandOf, AtHand

LEMMA SourcedStep == SourcedInv /\ [Next]_vars => SourcedInv'
<1>. SUFFICES ASSUME SourcedInv, [Next]_vars PROVE SourcedInv'
  OBVIOUS
<1>1. RecallInv /\ RecallInv' /\ OfRuns /\ IsSequence(log) /\ Sourced(log)
  BY RecallStep DEF SourcedInv, RecallInv, LogOK
<1> DEFINE Put == log' = log \/ \E e : EntrySourced(log, e) /\ log' = Append(log, e)
<1>0. Put => Sourced(log')
  BY <1>1, SourcesStay
<1>2. SUFFICES /\ OfRuns' /\ Put
               /\ \A q \in Runs : AtHand(log', pc'[q], texts'[q], next'[q], frame'[q], cards'[q])
  <2> HIDE DEF Put
  <2>. QED BY <1>0, <1>1 DEF SourcedInv, HandOf
<1>3. ASSUME Put, NEW q \in Runs
      PROVE  AtHand(log', pc[q], texts[q], next[q], frame[q], cards[q])
  <2>1. AtHand(log, pc[q], texts[q], next[q], frame[q], cards[q])
    BY DEF SourcedInv, HandOf
  <2>2. ASSUME NEW e, EntrySourced(log, e)
        PROVE  AtHand(Append(log, e), pc[q], texts[q], next[q], frame[q], cards[q])
    <3>1. \A p, ts, nx, fr, cs :
             AtHand(log, p, ts, nx, fr, cs) => AtHand(Append(log, e), p, ts, nx, fr, cs)
      BY <1>1, <2>2, SourcesStay
    <3>. QED BY <2>1, <3>1
  <2>. QED BY <1>3, <2>1, <2>2
<1>4. ASSUME NEW r \in Runs, Hook(r)
      PROVE  /\ OfRuns' /\ Put
             /\ \A q \in Runs : AtHand(log', pc'[q], texts'[q], next'[q], frame'[q], cards'[q])
  <2>1. H!Run(r) /\ HandOf(log, r)
    BY <1>4 DEF Hook, SourcedInv
  <2>2. OfRuns'
    BY <1>1, <2>1, OfRunsStays
  <2>3. Put /\ AtHand(log', pc'[r], texts'[r], next'[r], frame'[r], cards'[r])
    BY <1>1, <2>1, SourcedHook
  <2>4. ASSUME NEW q \in Runs, q # r
        PROVE  AtHand(log', pc'[q], texts'[q], next'[q], frame'[q], cards'[q])
    <3>1. /\ pc'[q] = pc[q] /\ texts'[q] = texts[q] /\ next'[q] = next[q]
          /\ frame'[q] = frame[q] /\ cards'[q] = cards[q]
      BY <1>1, <2>1, <2>4, OthersStay
    <3>. QED BY <1>3, <2>3, <3>1
  <2>. QED BY <2>2, <2>3, <2>4
<1>5. ASSUME PutOtherCard PROVE Put /\ UNCHANGED turns
  <2>1. PICK c \in OtherCards, r \in Runs : H!PutSucceeds([other |-> c, at |-> turn[r]])
    BY <1>5 DEF PutOtherCard
  <2>2. EntrySourced(log, [other |-> c, at |-> turn[r]])
    BY DEF EntrySourced
  <2>. QED BY <1>5, <2>1, <2>2 DEF PutOtherCard, H!PutSucceeds
<1>6. ASSUME Put, UNCHANGED turns
      PROVE  /\ OfRuns' /\ Put
             /\ \A q \in Runs : AtHand(log', pc'[q], texts'[q], next'[q], frame'[q], cards'[q])
  <2>1. pc' = pc /\ role' = role /\ texts' = texts /\ next' = next /\ frame' = frame /\ cards' = cards
    BY <1>6 DEF turns
  <2>2. OfRuns'
    BY <1>1, <2>1 DEF OfRuns
  <2> HIDE DEF Put
  <2>. QED BY <1>3, <1>6, <2>1, <2>2
<1>7. ASSUME AskCards \/ Selecting \/ UNCHANGED vars PROVE log' = log /\ UNCHANGED turns
  BY <1>7 DEF AskCards, Selecting, vars
<1>. QED BY <1>4, <1>5, <1>6, <1>7 DEF Next

LEMMA SourcedInvHolds == Spec => []SourcedInv
BY SourcedInit, SourcedStep, PTL DEF Spec

(* What the hook adds to the memory of a user: when the phrases find in a  *)
(* text only what is stated in it, every card of the hook is a fact stated *)
(* in the text of the frame that the card cites, whatever failed, whoever  *)
(* appended in between, and under every policy.                            *)
THEOREM CardsTellWhatWasStated == OnlyStatedIsFound => (Spec => []CardsAreStated)
<1>1. ASSUME OnlyStatedIsFound, SourcedInv PROVE CardsAreStated
  <2>1. SUFFICES ASSUME NEW i \in DOMAIN log, "cites" \in DOMAIN log[i]
                 PROVE  log[i].card \in Stated[log[log[i].cites].text]
    BY DEF CardsAreStated
  <2>2. i \in 1..Len(log)
    BY <1>1, <2>1, SequenceOfOwn DEF SourcedInv, RecallInv, LogOK
  <2>3. FoundIn(log, log[i].cites, log[i].card)
    BY <1>1, <2>1, <2>2 DEF SourcedInv, Sourced, EntrySourced
  <2>. QED BY <1>1, <2>3, ExtractedFacts DEF FoundIn, OnlyStatedIsFound
<1>2. ASSUME OnlyStatedIsFound PROVE Spec => []CardsAreStated
  BY <1>1, <1>2, SourcedInvHolds, PTL
<1>. QED BY <1>2

------------------------------------------------------------------------------
(* Words in lower case, and names of one word.                             *)
LEMMA LowerTwice ==
    /\ \A w : Lower(Lower(w)) = Lower(w)
    /\ \A s : LowerAll(LowerAll(s)) = LowerAll(s)
<1>1. ASSUME NEW w PROVE Lower(Lower(w)) = Lower(w)
  BY LowerAssumption DEF Lower
<1>2. ASSUME NEW s PROVE LowerAll(LowerAll(s)) = LowerAll(s)
  BY <1>1 DEF LowerAll
<1>. QED BY <1>1, <1>2

LEMMA SameLower == \A s : C!LowerAll(s) = LowerAll(s)
BY DEF C!LowerAll, LowerAll, C!Lower, Lower

LEMMA ContainsItself ==
    ASSUME NEW w
    PROVE  C!ContainsWord(<<w>>, <<w>>)
<1>1. PICK s : s = <<w>>
  OBVIOUS
<1>2. Len(s) = 1 /\ s # <<>> /\ s \in Seq({w})
  BY <1>1
<1>3. SubSeq(s, 1, 1) = s
  <2>1. SubSeq(s, 1, 1) = [i \in 1..1 |-> s[i]]
    <3>1. 1 - 1 + 1 = 1 /\ \A i \in 1..1 : 1 + i - 1 = i
      OBVIOUS
    <3>. QED BY <1>2, <3>1
  <2>2. s = [i \in 1..1 |-> s[i]]
    BY <1>2, SeqDef
  <2>. QED BY <2>1, <2>2
<1>4. 1 \in 1..(Len(s) - Len(s) + 1) /\ 1 + Len(s) - 1 = 1
  BY <1>2
<1>5. C!ContainsWord(s, s)
  BY <1>2, <1>3, <1>4 DEF C!ContainsWord
<1>. QED BY <1>1, <1>5

LEMMA NameOfPrincipal ==
    LET p == <<Lower(Principal)>>
    IN  LowerAll(p) = p /\ LowerAll(<<Principal>>) = p
<1>1. PICK w : w = Lower(Principal)
  OBVIOUS
<1>2. LowerAll(<<Principal>>) = <<w>> /\ LowerAll(<<w>>) = <<Lower(w)>>
  BY <1>1 DEF LowerAll
<1>3. Lower(w) = w
  BY <1>1, LowerTwice
<1>. QED BY <1>1, <1>2, <1>3

(* Where a fact is found, a card that tells it is among the older ones.    *)
LEMMA FoundIsOlder ==
    ASSUME NEW g, GraphOK(g), NEW b \in Nat, b <= Len(g), NEW f, Found(g, b, f)
    PROVE  \E c \in Older(g, b) : c \in C!ToSet(g) /\ Tells(c, f)
<1>1. g \in Seq(C!ToSet(g)) /\ Len(g) \in Nat
  BY SequenceOfOwn DEF GraphOK
<1>2. PICK n \in Nat : n = Len(g)
  BY <1>1
<1>3. SubSeq(g, 1, b) = [i \in 1..b |-> g[i]]
  <2>1. b - 1 + 1 = b /\ \A i \in 1..b : 1 + i - 1 = i
    OBVIOUS
  <2>. QED BY <1>1, <1>2, <2>1
<1>4. \A i \in 1..b : g[i] \in C!ToSet(g) /\ g[i] \in Older(g, b)
  <2>1. \A i \in 1..b : i \in 1..n
    BY <1>2
  <2>2. \A i \in 1..b : g[i] \in C!ToSet(g)
    BY <1>1, <1>2, <2>1, SetOfSeq
  <2>. QED BY <1>3, <2>2 DEF Older, C!ToSet
<1>. QED BY <1>4 DEF Found

(* A card of a fact about the principal is one the selection is about.     *)
LEMMA FactsAreAbout ==
    ASSUME NEW t, NEW f \in OfPrincipal(t), NEW cs,
           \A x \in OfPrincipal(t) : \E c \in cs : Tells(c, x)
    PROVE  \E c \in C!About(cs, <<Principal>>) : Tells(c, f)
<1> DEFINE p == <<Lower(Principal)>>
<1>1. LowerAll(p) = p /\ LowerAll(<<Principal>>) = p /\ C!ContainsWord(p, p)
  BY NameOfPrincipal, ContainsItself
<1> HIDE DEF p
<1>2. \A x : x \in Own(t) => x \in OfPrincipal(t) /\ x.entity = p
  BY DEF Own, OfPrincipal, p
<1>3. \A c, x : c \in cs /\ x \in Own(t) /\ Tells(c, x) => c \in OwnCards(cs, <<Principal>>)
  BY <1>1, <1>2, SameLower DEF OwnCards, Tells
<1>4. \A c : c \in OwnCards(cs, <<Principal>>) => c \in C!About(cs, <<Principal>>)
  BY DEF OwnCards, C!About
<1>5. PICK c \in cs : Tells(c, f)
  OBVIOUS
<1>6. CASE f \in Own(t)
  BY <1>3, <1>4, <1>5, <1>6
<1>7. CASE f \notin Own(t)
  <2>1. PICK x \in Own(t) : x.kind = "rel" /\ f.entity = LowerAll(x.value)
    BY <1>7 DEF OfPrincipal
  <2>2. PICK d \in cs : Tells(d, x)
    BY <1>2, <2>1
  <2>3. d \in OwnCards(cs, <<Principal>>) /\ d.kind = "rel" /\ d.value = x.value
    BY <1>3, <2>1, <2>2 DEF Tells
  <2>4. C!LowerAll(c.entity) = C!LowerAll(d.value)
    <3>1. c.entity = LowerAll(d.value)
      BY <1>5, <2>1, <2>3 DEF Tells
    <3>. QED BY <3>1, LowerTwice, SameLower
  <2>5. c \in C!About(cs, <<Principal>>)
    BY <2>3, <2>4 DEF C!About, OwnCards
  <2>. QED BY <1>5, <2>5
<1>. QED BY <1>6, <1>7

(* Cards that same_card takes for one are of one kind, because that is so  *)
(* of the cards of the hook, and of those of the others by assumption.     *)
LEMMA CardsAreOfOneKind ==
    ASSUME SourcedInv, OthersAgree
    PROVE  C!OneKind
<1>1. PICK g : g = Graph
  OBVIOUS
<1>2. IsSequence(g) /\ \A c \in C!ToSet(g) : \E i \in 1..Len(log) : HasCard(log[i]) /\ c = CardOf(log[i])
  BY <1>1, GraphIs, GraphCards DEF SourcedInv, RecallInv, LogOK
<1> DEFINE OfHook(c) == /\ c.kind = KindOfSlot(c.slot) /\ c.frame # 0
                        /\ \E t \in Texts : \E x \in ToSet(ExtractedCards[t]) :
                              Tells(c, x)
           OfOther(c) == \E o \in OtherCards : Tells(c, o) /\ c.frame = o.frame
<1>3. ASSUME NEW c \in C!ToSet(g) PROVE OfHook(c) \/ OfOther(c)
  <2>1. PICK i \in 1..Len(log) : HasCard(log[i]) /\ c = CardOf(log[i])
    BY <1>2
  <2>2. PICK e : e = log[i]
    OBVIOUS
  <2>3. EntrySourced(log, e) /\ HasCard(e) /\ c = CardOf(e)
    BY <2>1, <2>2 DEF SourcedInv, Sourced
  <2>4. CASE "other" \in DOMAIN e
    <3>1. e.other \in OtherCards /\ Tells(c, e.other) /\ c.frame = e.other.frame
      BY <2>3, <2>4 DEF EntrySourced, CardOf, Stored, Tells
    <3>. QED BY <3>1
  <2>5. CASE "other" \notin DOMAIN e
    <3>1. FoundIn(log, e.cites, e.card) /\ Tells(c, e.card) /\ c.frame = e.cites
      BY <2>3, <2>5 DEF EntrySourced, HasCard, CardOf, Stored, Tells
    <3>2. PICK t \in Texts : e.card \in C!ToSet(ExtractedCards[t])
      BY <3>1 DEF FoundIn
    <3>3. e.card \in ToSet(ExtractedCards[t]) /\ e.card.kind = KindOfSlot(e.card.slot)
      BY <3>2, ExtractedFacts
    <3>4. e.cites # 0
      BY <3>1, SequenceOfOwn DEF FoundIn, SourcedInv, RecallInv, LogOK
    <3>. QED BY <3>1, <3>3, <3>4 DEF Tells
  <2>. QED BY <2>4, <2>5
<1>4. ASSUME NEW c \in C!ToSet(g), NEW d \in C!ToSet(g), C!SameCard(c, d) PROVE c.kind = d.kind
  <2>1. /\ c.entity = d.entity /\ c.slot = d.slot /\ c.value = d.value /\ c.frame = d.frame
    BY <1>4 DEF C!SameCard
  <2>2. CASE OfHook(c) /\ OfHook(d)
    BY <2>1, <2>2
  <2>3. ASSUME NEW x, NEW y, OfHook(x), OfOther(y), x.entity = y.entity, x.slot = y.slot,
               x.value = y.value, x.frame = y.frame
        PROVE  x.kind = y.kind
    <3>1. PICK t \in Texts : \E v \in ToSet(ExtractedCards[t]) : Tells(x, v)
      BY <2>3
    <3>2. PICK v \in ToSet(ExtractedCards[t]) : Tells(x, v)
      BY <3>1
    <3>3. PICK o \in OtherCards : Tells(y, o) /\ y.frame = o.frame
      BY <2>3
    <3>4. o.frame # 0 /\ o.entity = v.entity /\ o.slot = v.slot /\ o.value = v.value
      BY <2>3, <3>2, <3>3 DEF Tells
    <3>5. o.kind = v.kind
      BY <3>4 DEF OthersAgree
    <3>. QED BY <3>2, <3>3, <3>5 DEF Tells
  <2>4. CASE OfOther(c) /\ OfOther(d)
    BY <2>1, <2>4 DEF OthersAgree, C!SameCard, Tells
  <2> HIDE DEF OfHook, OfOther
  <2>. QED BY <1>3, <2>1, <2>2, <2>3, <2>4
<1>. QED BY <1>1, <1>4 DEF C!OneKind

(* From the words of a user to the selection: under WriteFailure::Halt, a  *)
(* fact that is stated about the principal, or about an entity the same    *)
(* turn relates to him, and that the phrases of the hook find, is selected *)
(* for the principal once the turn has returned cont, whatever failed,     *)
(* whoever else writes, and whichever other agents use the hook, as long   *)
(* as the others do not put one card as of two kinds.                      *)
THEOREM StatedFactsAreSelected ==
    StatedIsFound /\ OthersAgree => (Spec => []StatedIsRecalled)
<1>1. ASSUME StatedIsFound, OthersAgree, RecordedInv, SourcedInv, NothingOlderIsMissed
      PROVE  StatedIsRecalled
  <2>0. C!OneKind
    BY <1>1, CardsAreOfOneKind
  <2>1. SUFFICES ASSUME C!OneSpelling, stage = "rank", ask.by = "principal",
                        ask.names[1] = <<Principal>>, config.on_write_failure = "halt",
                        NEW e \in said, e.role = "user", NEW f \in OfPrincipal(e.text)
                 PROVE  \E i \in DOMAIN hits : Tells(hits[i], f)
    BY DEF StatedIsRecalled
  <2>2. PICK g : g = Graph
    OBVIOUS
  <2>3. GraphOK(g) /\ before \in Nat /\ before <= Len(g) /\ C!ToSet(hits) \subseteq C!ToSet(g)
    <3>1. Formed(Graph, stage, ask, hits, todo, reply, before) /\ GraphOK(Graph)
      BY <1>1, GraphIs, GraphIsOK DEF RecordedInv, RecallInv, Inv, SelectionInv
    <3>. QED BY <2>2, <3>1 DEF Formed
  <2>4. e.text \in Texts /\ AllFound(g, before, e.text)
    BY <1>1, <2>1, <2>2 DEF RecordedInv, Recorded, Halting
  <2>5. \A x \in OfPrincipal(e.text) : \E c \in Older(g, before) : Tells(c, x)
    <3>1. SUFFICES ASSUME NEW x \in OfPrincipal(e.text)
                   PROVE  \E c \in Older(g, before) : Tells(c, x)
      OBVIOUS
    <3>2. PICK c \in ToSet(ExtractedCards[e.text]) : Tells(c, x)
      BY <1>1, <2>4 DEF StatedIsFound
    <3>3. PICK d : d = c /\ Found(g, before, d)
      <4>1. ToSet(ExtractedCards[e.text]) = C!ToSet(ExtractedCards[e.text])
        BY <2>4, ExtractedFacts
      <4>. QED BY <2>4, <3>2, <4>1 DEF AllFound
    <3>4. Found(g, before, x)
      BY <3>2, <3>3 DEF Found, Tells
    <3>. QED BY <2>3, <3>4, FoundIsOlder
  <2>6. PICK c \in C!About(Older(g, before), <<Principal>>) : Tells(c, f)
    BY <2>1, <2>5, FactsAreAbout
  <2>7. PICK i \in DOMAIN hits : C!SameCard(hits[i], c)
    BY <1>1, <2>0, <2>1, <2>2, <2>6 DEF NothingOlderIsMissed, C!NothingOlderIsMissed, Older
  <2>8. c \in C!ToSet(g) /\ hits[i] \in C!ToSet(g)
    BY <2>3, <2>6, AboutFacts, OlderFacts DEF C!ToSet
  <2>9. hits[i].kind = c.kind
    BY <2>0, <2>2, <2>7, <2>8 DEF C!OneKind
  <2>. QED BY <2>6, <2>7, <2>9 DEF Tells, C!SameCard
<1>2. ASSUME StatedIsFound, OthersAgree PROVE Spec => []StatedIsRecalled
  BY <1>1, <1>2, RecordedInvHolds, SourcedInvHolds, OlderCardsAreSelected, PTL
<1>. QED BY <1>2
===============================================================================
