------------------------- MODULE SupersessionProofs --------------------------
(***************************************************************************)
(* from_candidates, for every list of candidates: the first loop finds the *)
(* newest of each group, the second puts one candidate of each group in    *)
(* the pack, in the place of the group's first, and hides the others.      *)
(*                                                                         *)
(* The invariant of the first loop, LoopInv, is inductive once the loop's  *)
(* position and the groups are well-formed.  The second loop changes       *)
(* neither; what it has put in the pack is stated for the candidates up to *)
(* a position n (PackedTo), so that its steps are lemmas about n and n + 1.*)
(***************************************************************************)
EXTENDS Supersession, ProofLemmas

LoopInv == LoopOK /\ GroupsOK /\ SurvivorIsNewest

(* Among recencies, newer is transitive and a tie passes it on.            *)
LEMMA ReplacesOrder ==
    ASSUME NEW a \in Int \cup {NoRecency}, NEW b \in Int \cup {NoRecency},
           NEW c \in Int \cup {NoRecency}
    PROVE  /\ ~(Replaces(a, b) /\ Replaces(b, a))
           /\ Replaces(a, b) /\ ~Replaces(c, b) => Replaces(a, c)
           /\ ~Replaces(b, a) /\ ~Replaces(c, b) => ~Replaces(c, a)
BY NoneAssumption DEF Replaces

(* The candidates of an input and what the loops read of them.             *)
LEMMA InputType ==
    ASSUME LoopOK, NEW i \in Positions
    PROVE  /\ Len(input) \in Nat
           /\ KeyAt(i) \in Keys \cup {NoKey}
           /\ RecencyAt(i) \in Int \cup {NoRecency}
<1>1. input \in Seq(Candidates)
  BY InputAssumption DEF LoopOK
<1>2. Len(input) \in Nat /\ input[i] \in Candidates
  BY <1>1, LenProperties, ElementOfSeq DEF Positions
<1>3. input[i].form \in Forms /\ input[i].fact \in Facts
      /\ input[i].frame \in Nat /\ input[i].time \in Int
  BY <1>2 DEF Candidates
<1>4. KeyAt(i) \in Keys \cup {NoKey}
  BY <1>3 DEF KeyAt, VersionKey, Keys, Forms
<1>5. RecencyAt(i) \in Int \cup {NoRecency}
  BY <1>3 DEF RecencyAt, Recency, Forms
<1>. QED BY <1>2, <1>4, <1>5

(* The step on a candidate whose group exists: the newest of the old group *)
(* and the candidate is the newest of the new one.                         *)
LEMMA GroupedKeepsNewest ==
    ASSUME NEW k, NEW g, NEW h, k = KeyAt(idx), h = Grouped(g),
           LoopOK, GroupOK(g), loop = "group", idx \in Positions,
           loop' = "group", idx' = idx + 1, input' = input,
           GroupOfScanned(k, g)
    PROVE  /\ GroupOK(h)'
           /\ GroupOfScanned(k, h)'
<1>0. Len(input) \in Nat /\ idx \in Nat /\ idx >= 1 /\ idx <= Len(input)
  BY InputType DEF Positions
<1>1. Scanned = 1..(idx - 1) /\ Scanned' = 1..idx /\ Positions' = Positions
  BY <1>0 DEF Scanned, Positions
<1>2. /\ g.first \in Nat /\ g.survivor \in Nat /\ g.recency \in Int \cup {NoRecency}
      /\ g.members \in Seq(Nat) /\ g.members \in Seq(Positions)
      /\ g = [first |-> g.first, survivor |-> g.survivor, recency |-> g.recency,
               members |-> g.members]
  BY DEF GroupOK, Groups
<1>3. /\ Append(g.members, idx) \in Seq(Positions)
      /\ Append(g.members, idx) \in Seq(Nat)
  BY <1>0, <1>2, AppendProperties
<1>4. RecencyAt(idx) \in Int \cup {NoRecency}
  BY InputType
<1>5. GroupOK(h)'
  BY <1>0, <1>1, <1>2, <1>3, <1>4 DEF Grouped, GroupOK, Groups
<1>6. /\ h.first = g.first
      /\ \/ /\ Replaces(RecencyAt(idx), g.recency)
            /\ h.survivor = idx /\ h.recency = RecencyAt(idx)
         \/ /\ ~Replaces(RecencyAt(idx), g.recency)
            /\ h.survivor = g.survivor /\ h.recency = g.recency
  BY <1>2 DEF Grouped
<1>7. /\ g.first \in Scanned /\ KeyAt(g.first) = k
      /\ \A i \in Scanned : KeyAt(i) = k => g.first <= i
      /\ g.survivor \in Scanned /\ KeyAt(g.survivor) = k
      /\ g.recency = RecencyAt(g.survivor)
      /\ \A i \in Scanned : KeyAt(i) = k => (i = g.survivor \/ Outranks(g.survivor, i))
  BY DEF GroupOfScanned
<1>8. \A i \in 1..idx : i \in Positions /\ RecencyAt(i) \in Int \cup {NoRecency}
  BY <1>0, InputType DEF Positions
<1>9. \A i \in 1..idx : i = idx \/ i \in Scanned
  BY <1>0, <1>1
<1>10. \A i \in 1..idx : KeyAt(i) = k => h.first <= i
  BY <1>0, <1>1, <1>6, <1>7, <1>9
<1>11. \A i \in 1..idx : KeyAt(i) = k => (i = h.survivor \/ Outranks(h.survivor, i))
  <2> SUFFICES ASSUME NEW i \in 1..idx, KeyAt(i) = k, i # h.survivor
               PROVE  Outranks(h.survivor, i)
    OBVIOUS
  <2>0. g.survivor \in 1..idx /\ g.survivor < idx
    BY <1>0, <1>1, <1>7
  <2>1. CASE /\ Replaces(RecencyAt(idx), g.recency)
             /\ h.survivor = idx
    <3>1. i \in Scanned
      BY <1>9, <2>1
    <3>2. i = g.survivor \/ ~Replaces(RecencyAt(i), RecencyAt(g.survivor))
      BY <1>7, <1>8, <2>0, <3>1, ReplacesOrder DEF Outranks
    <3>3. Replaces(RecencyAt(idx), RecencyAt(i))
      <4>1. Replaces(RecencyAt(idx), RecencyAt(g.survivor))
        BY <1>7, <2>1
      <4>2. CASE i = g.survivor
        BY <4>1, <4>2
      <4>3. CASE ~Replaces(RecencyAt(i), RecencyAt(g.survivor))
        <5>1. /\ RecencyAt(i) \in Int \cup {NoRecency}
              /\ RecencyAt(g.survivor) \in Int \cup {NoRecency}
          BY <1>8, <2>0
        <5>. QED BY <1>4, <4>1, <4>3, <5>1, ReplacesOrder
      <4>. QED BY <3>2, <4>2, <4>3
    <3>. QED BY <2>1, <3>3 DEF Outranks
  <2>2. CASE /\ ~Replaces(RecencyAt(idx), g.recency)
             /\ h.survivor = g.survivor
    <3>1. CASE i \in Scanned
      BY <1>7, <2>2, <3>1
    <3>2. CASE i = idx
      BY <1>7, <2>0, <2>2, <3>2 DEF Outranks
    <3>. QED BY <1>9, <3>1, <3>2
  <2>. QED BY <1>6, <2>1, <2>2
<1>12. /\ h.first \in 1..idx /\ KeyAt(h.first) = k
       /\ h.survivor \in 1..idx /\ KeyAt(h.survivor) = k
       /\ h.recency = RecencyAt(h.survivor)
  BY <1>0, <1>1, <1>6, <1>7
<1>13. GroupOfScanned(k, h)'
  BY <1>1, <1>10, <1>11, <1>12 DEF GroupOfScanned, KeyAt, RecencyAt, Outranks
<1>. QED BY <1>5, <1>13

------------------------------------------------------------------------------
LEMMA InitEstablishes == Init => LoopInv
<1> SUFFICES ASSUME Init PROVE LoopInv
  OBVIOUS
<1>1. Len(input) \in Nat
  BY InputAssumption, LenProperties DEF Init
<1>2. LoopOK
  BY <1>1 DEF Init, LoopOK
<1>3. GroupsOK
  BY DEF Init, GroupsOK
<1>4. SurvivorIsNewest
  BY DEF Init, SurvivorIsNewest, Scanned
<1>. QED BY <1>2, <1>3, <1>4 DEF LoopInv

(* Steps that leave the groups alone and scan nothing more.                *)
LEMMA GroupsUnchanged ==
    ASSUME LoopInv, LoopOK', UNCHANGED <<input, groups>>, Scanned' = Scanned
    PROVE  LoopInv'
<1>1. Positions' = Positions
  BY DEF Positions
<1>2. GroupsOK'
  BY <1>1 DEF LoopInv, GroupsOK, GroupOK
<1>3. SurvivorIsNewest'
  BY DEF LoopInv, SurvivorIsNewest, GroupOfScanned, KeyAt, RecencyAt, Outranks
<1>. QED BY <1>2, <1>3 DEF LoopInv

LEMMA GroupCandidateStep ==
    ASSUME LoopInv, GroupCandidate
    PROVE  LoopInv'
<1>1. /\ LoopOK /\ GroupsOK /\ SurvivorIsNewest
      /\ loop = "group" /\ loop' = "group" /\ idx' = idx + 1 /\ input' = input
      /\ idx <= Len(input)
  BY DEF LoopInv, GroupCandidate, Advance
<1>2. idx \in Positions /\ idx \in Nat /\ Len(input) \in Nat
  <2>1. Len(input) \in Nat
    BY <1>1, InputAssumption, LenProperties DEF LoopOK
  <2>. QED BY <1>1, <2>1 DEF LoopOK, Positions
<1>3. LoopOK' /\ Positions' = Positions
  BY <1>1, <1>2 DEF LoopOK, Positions
<1>4. /\ Scanned' = Scanned \cup {idx}
      /\ \A i \in Scanned : i < idx /\ i \in Positions
      /\ \A i : KeyAt(i)' = VersionKey(input[i])
  BY <1>1, <1>2 DEF Scanned, Positions, LoopOK, KeyAt
<1>5. KeyAt(idx) \in Keys \cup {NoKey}
  BY <1>1, <1>2, InputType
<1>6. ASSUME NEW k \in Keys
      PROVE  /\ groups'[k] # Vacant => GroupOK(groups[k])'
             /\ \/ groups'[k] = Vacant /\ \A i \in Scanned' : KeyAt(i)' # k
                \/ groups'[k] # Vacant /\ GroupOfScanned(k, groups[k])'
  <2>1. CASE k # KeyAt(idx)
    <3>1. groups'[k] = groups[k]
      BY <1>1, <2>1 DEF GroupCandidate, GroupsOK
    <3>2. CASE groups[k] = Vacant
      <4>1. \A i \in Scanned' : KeyAt(i) # k
        BY <1>1, <1>4, <2>1, <3>2, VacantAssumption DEF SurvivorIsNewest
      <4>. QED BY <1>1, <3>1, <3>2, <4>1 DEF KeyAt
    <3>3. CASE groups[k] # Vacant
      <4>1. GroupOK(groups[k]) /\ GroupOfScanned(k, groups[k])
        BY <1>1, <3>3 DEF GroupsOK, SurvivorIsNewest
      <4>2. GroupOK(groups[k])'
        BY <1>3, <3>1, <4>1 DEF GroupOK
      <4>3. GroupOfScanned(k, groups[k])'
        BY <1>1, <1>4, <2>1, <3>1, <4>1
           DEF GroupOfScanned, KeyAt, RecencyAt, Outranks
      <4>. QED BY <3>1, <3>3, <4>2, <4>3
    <3>. QED BY <3>2, <3>3
  <2>2. CASE k = KeyAt(idx) /\ groups[k] = Vacant
    <3>1. groups'[k] = NewGroup
      BY <1>1, <2>2, NoneAssumption DEF GroupCandidate, GroupsOK
    <3>2. /\ RecencyAt(idx) \in Int \cup {NoRecency}
          /\ <<idx>> \in Seq(Nat) /\ <<idx>> \in Seq(Positions)
      BY <1>1, <1>2, InputType
    <3>3. NewGroup \in Groups
      BY <1>2, <3>2 DEF NewGroup, Groups
    <3>4. GroupOK(groups[k])'
      <4>1. GroupOK(NewGroup)
        BY <1>2, <3>2, <3>3 DEF GroupOK, NewGroup
      <4>. QED BY <1>3, <3>1, <4>1 DEF GroupOK
    <3>5. \A i \in Scanned : KeyAt(i) # k
      BY <1>1, <2>2 DEF SurvivorIsNewest
    <3>6. /\ groups'[k].first = idx /\ groups'[k].survivor = idx
          /\ groups'[k].recency = RecencyAt(idx)
      BY <3>1 DEF NewGroup
    <3>7. GroupOfScanned(k, groups[k])'
      BY <1>1, <1>2, <1>4, <2>2, <3>5, <3>6 DEF GroupOfScanned, KeyAt, RecencyAt
    <3>. QED BY <3>1, <3>3, <3>4, <3>7, VacantAssumption
  <2>3. CASE k = KeyAt(idx) /\ groups[k] # Vacant
    <3>1. GroupOK(groups[k]) /\ GroupOfScanned(k, groups[k])
      BY <1>1, <2>3 DEF GroupsOK, SurvivorIsNewest
    <3>2. groups'[k] = Grouped(groups[k])
      BY <1>1, <2>3, NoneAssumption DEF GroupCandidate, GroupsOK
    <3>3. PICK g, h : g = groups[k] /\ h = groups'[k]
      OBVIOUS
    <3>4. GroupOK(h)' /\ GroupOfScanned(k, h)'
      BY <1>1, <1>2, <2>3, <3>1, <3>2, <3>3, GroupedKeepsNewest
    <3>5. GroupOK(groups[k])'
      BY <3>3, <3>4 DEF GroupOK
    <3>6. GroupOfScanned(k, groups[k])'
      BY <3>3, <3>4 DEF GroupOfScanned
    <3>. QED BY <3>5, <3>6, VacantAssumption DEF GroupOK
  <2>. QED BY <2>1, <2>2, <2>3
<1>7. DOMAIN groups' = Keys
  BY <1>1 DEF GroupCandidate, GroupsOK
<1>8. GroupsOK'
  BY <1>6, <1>7 DEF GroupsOK
<1>9. SurvivorIsNewest'
  BY <1>6 DEF SurvivorIsNewest
<1>. QED BY <1>3, <1>8, <1>9 DEF LoopInv

LEMMA StepKeepsInv == LoopInv /\ [Next]_vars => LoopInv'
<1> SUFFICES ASSUME LoopInv, [Next]_vars PROVE LoopInv'
  OBVIOUS
<1>0. /\ LoopOK /\ Len(input) \in Nat
  BY InputAssumption, LenProperties DEF LoopInv, LoopOK
<1>1. CASE GroupCandidate
  BY <1>1, GroupCandidateStep
<1>2. CASE StartEmitting
  <2>1. Scanned' = Scanned
    BY <1>0, <1>2 DEF StartEmitting, Scanned, Positions, LoopOK
  <2>2. LoopOK'
    BY <1>0, <1>2 DEF StartEmitting, LoopOK
  <2>. QED BY <1>2, <2>1, <2>2, GroupsUnchanged DEF StartEmitting
<1>3. CASE EmitCandidate
  <2>1. Scanned' = Scanned
    BY <1>3 DEF EmitCandidate, Scanned, Positions
  <2>2. LoopOK'
    BY <1>0, <1>3 DEF EmitCandidate, Advance, LoopOK
  <2>. QED BY <1>3, <2>1, <2>2, GroupsUnchanged DEF EmitCandidate
<1>4. CASE Finish
  <2>1. Scanned' = Scanned
    BY <1>4 DEF Finish, Scanned, Positions
  <2>2. LoopOK'
    BY <1>0, <1>4 DEF Finish, LoopOK
  <2>. QED BY <1>4, <2>1, <2>2, GroupsUnchanged DEF Finish
<1>5. CASE UNCHANGED vars
  <2>1. Scanned' = Scanned /\ LoopOK'
    BY <1>0, <1>5 DEF vars, Scanned, Positions, LoopOK
  <2>. QED BY <1>5, <2>1, GroupsUnchanged DEF vars
<1>. QED BY <1>1, <1>2, <1>3, <1>4, <1>5 DEF Next

(* After every candidate of every list, each group of the first loop of    *)
(* from_candidates holds the newest of its members seen so far and the     *)
(* position of the first; the second loop starts from the same of all.     *)
THEOREM NewestSurvives == Spec => []SurvivorIsNewest
<1>1. LoopInv => SurvivorIsNewest
  BY DEF LoopInv
<1>. QED BY <1>1, InitEstablishes, StepKeepsInv, PTL DEF Spec

------------------------------------------------------------------------------
(* The loop over the members of a group.  It is a recursive function; that *)
(* there is one follows from its restrictions to 0..n, by induction.       *)

LEMMA MembersButDef ==
    ASSUME NEW e, NEW g, Len(g.members) \in Nat
    PROVE  \A n \in 0..Len(g.members) :
              MembersBut(e, g)[n] =
                IF n = 0 THEN <<>>
                ELSE IF g.members[n] = e THEN MembersBut(e, g)[n - 1]
                ELSE Append(MembersBut(e, g)[n - 1],
                            [hidden |-> g.members[n], survivor |-> g.survivor])
<1> DEFINE Body(f, n) ==
             IF n = 0 THEN <<>>
             ELSE IF g.members[n] = e THEN f[n - 1]
             ELSE Append(f[n - 1], [hidden |-> g.members[n], survivor |-> g.survivor])
           T == {n \in Nat : \E f : f = [i \in 0..n |-> Body(f, i)]}
<1>1. 0 \in T
  <2>1. [i \in 0..0 |-> <<>>] = [i \in 0..0 |-> Body([j \in 0..0 |-> <<>>], i)]
    OBVIOUS
  <2>. QED BY <2>1
<1>2. ASSUME NEW n \in T PROVE n + 1 \in T
  <2>1. n \in Nat /\ n + 1 \in Nat
    OBVIOUS
  <2>2. PICK f : f = [i \in 0..n |-> Body(f, i)]
    OBVIOUS
  <2>3. PICK h : h = [i \in 0..(n + 1) |-> IF i = n + 1 THEN Body(f, n + 1) ELSE f[i]]
    OBVIOUS
  <2>4. \A i \in 0..(n + 1) : Body(h, i) = Body(f, i)
    <3>1. \A i \in 0..n : h[i] = f[i]
      BY <2>1, <2>3
    <3>2. \A i \in 0..(n + 1) : i # 0 => i - 1 \in 0..n
      BY <2>1
    <3>. QED BY <3>1, <3>2
  <2>5. \A i \in 0..(n + 1) : h[i] = Body(h, i)
    <3>1. ASSUME NEW i \in 0..n PROVE h[i] = Body(f, i)
      <4>1. h[i] = f[i]
        BY <2>1, <2>3
      <4>2. f[i] = Body(f, i)
        <5> HIDE DEF Body
        <5>. QED BY <2>2
      <4>. QED BY <4>1, <4>2
    <3>2. h[n + 1] = Body(f, n + 1)
      BY <2>1, <2>3
    <3> HIDE DEF Body
    <3>3. \A i \in 0..(n + 1) : i \in 0..n \/ i = n + 1
      BY <2>1
    <3>. QED BY <2>4, <3>1, <3>2, <3>3
  <2>6. h = [i \in 0..(n + 1) |-> h[i]]
    BY <2>3
  <2>7. h = [i \in 0..(n + 1) |-> Body(h, i)]
    <3> HIDE DEF Body
    <3>. QED BY <2>5, <2>6
  <2>. QED BY <2>1, <2>7
<1>3. T = Nat
  <2> HIDE DEF T
  <2>1. T \subseteq Nat
    BY DEF T
  <2>. QED BY <1>1, <1>2, <2>1, AllNumbers
<1>4. \E f : f = [i \in 0..Len(g.members) |-> Body(f, i)]
  BY <1>3
<1>5. MembersBut(e, g) = CHOOSE f : f = [i \in 0..Len(g.members) |-> Body(f, i)]
  BY DEF MembersBut
<1>6. MembersBut(e, g) = [i \in 0..Len(g.members) |-> Body(MembersBut(e, g), i)]
  <2> HIDE DEF Body
  <2>. QED BY <1>4, <1>5
<1>7. \A n \in 0..Len(g.members) : MembersBut(e, g)[n] = Body(MembersBut(e, g), n)
  <2> HIDE DEF Body
  <2>. QED BY <1>6
<1>. QED BY <1>7

(* What the loop has collected in s of the first n members of a group.     *)
Collected(g, P, s, n) ==
    /\ s \in Seq([hidden : P, survivor : P])
    /\ Len(s) = n - (IF \E m \in 1..n : g.members[m] = g.survivor THEN 1 ELSE 0)
    /\ \A j \in 1..Len(s) : s[j].survivor = g.survivor
    /\ \A p : (\E j \in 1..Len(s) : s[j].hidden = p)
               <=> (p # g.survivor /\ \E m \in 1..n : g.members[m] = p)

LEMMA CollectNone ==
    ASSUME NEW g, NEW P
    PROVE  Collected(g, P, <<>>, 0)
<1>1. <<>> \in Seq([hidden : P, survivor : P]) /\ Len(<<>>) = 0
  BY EmptySeq
<1>2. 1..0 = {}
  OBVIOUS
<1> DEFINE s == <<>>
<1>3. /\ s \in Seq([hidden : P, survivor : P]) /\ Len(s) = 0
      /\ 1..Len(s) = {}
  BY <1>1, <1>2
<1> HIDE DEF s
<1>4. ~ \E m \in 1..0 : g.members[m] = g.survivor
  BY <1>2
<1>5. (IF \E m \in 1..0 : g.members[m] = g.survivor THEN 1 ELSE 0) = 0
  BY <1>4
<1>6. 0 = 0 - 0
  OBVIOUS
<1>7. Len(s) = 0 - (IF \E m \in 1..0 : g.members[m] = g.survivor THEN 1 ELSE 0)
  BY <1>3, <1>5, <1>6
<1>8. Collected(g, P, s, 0)
  BY <1>2, <1>3, <1>7 DEF Collected
<1>. QED BY <1>8 DEF s

LEMMA CollectSurvivor ==
    ASSUME NEW g, NEW P, NEW s, NEW n \in Nat, Collected(g, P, s, n),
           g.members[n + 1] = g.survivor,
           \A m \in 1..n : g.members[m] # g.members[n + 1]
    PROVE  Collected(g, P, s, n + 1)
<1>1. \A m \in 1..(n + 1) : m \in 1..n \/ m = n + 1
  OBVIOUS
<1>2. n + 1 \in 1..(n + 1) /\ \A m \in 1..n : m \in 1..(n + 1)
  OBVIOUS
<1>3. \E m \in 1..(n + 1) : g.members[m] = g.survivor
  BY <1>2
<1>4. ~ \E m \in 1..n : g.members[m] = g.survivor
  OBVIOUS
<1>5. Len(s) = n /\ Len(s) = (n + 1) - 1
  BY <1>4 DEF Collected
<1>6. \A p : (p # g.survivor /\ \E m \in 1..(n + 1) : g.members[m] = p)
             <=> (p # g.survivor /\ \E m \in 1..n : g.members[m] = p)
  BY <1>1, <1>2
<1>. QED BY <1>3, <1>5, <1>6 DEF Collected

LEMMA CollectMember ==
    ASSUME NEW g, NEW P, NEW s, NEW n \in Nat, NEW y, Collected(g, P, s, n),
           g.members[n + 1] # g.survivor, g.members[n + 1] \in P, g.survivor \in P,
           y = [hidden |-> g.members[n + 1], survivor |-> g.survivor]
    PROVE  Collected(g, P, Append(s, y), n + 1)
<1> DEFINE t == Append(s, y)
           H == [hidden : P, survivor : P]
<1>1. \A m \in 1..(n + 1) : m \in 1..n \/ m = n + 1
  OBVIOUS
<1>2. n + 1 \in 1..(n + 1) /\ \A m \in 1..n : m \in 1..(n + 1)
  OBVIOUS
<1>3. y \in H /\ y.hidden = g.members[n + 1] /\ y.survivor = g.survivor
  OBVIOUS
<1>4. /\ s \in Seq(H)
      /\ Len(s) = n - (IF \E m \in 1..n : g.members[m] = g.survivor THEN 1 ELSE 0)
      /\ \A j \in 1..Len(s) : s[j].survivor = g.survivor
      /\ \A p : (\E j \in 1..Len(s) : s[j].hidden = p)
                 <=> (p # g.survivor /\ \E m \in 1..n : g.members[m] = p)
  BY DEF Collected
<1> HIDE DEF H
<1>5. /\ t \in Seq(H) /\ Len(t) = Len(s) + 1
      /\ \A j \in 1..Len(s) : t[j] = s[j]
      /\ t[Len(s) + 1] = y
  BY <1>3, <1>4, AppendProperties
<1> HIDE DEF t
<1>6. Len(s) \in Nat
  BY <1>4, LenProperties
<1>7. /\ \A j \in 1..Len(t) : j \in 1..Len(s) \/ j = Len(s) + 1
      /\ \A j \in 1..Len(s) : j \in 1..Len(t)
      /\ Len(s) + 1 \in 1..Len(t)
  BY <1>5, <1>6
<1>8. (\E m \in 1..(n + 1) : g.members[m] = g.survivor)
      <=> (\E m \in 1..n : g.members[m] = g.survivor)
  BY <1>1, <1>2
<1>9. Len(t) = (n + 1) - (IF \E m \in 1..(n + 1) : g.members[m] = g.survivor THEN 1 ELSE 0)
  BY <1>4, <1>5, <1>8
<1>10. \A j \in 1..Len(t) : t[j].survivor = g.survivor
  BY <1>3, <1>4, <1>5, <1>7
<1>11. \A p : (\E j \in 1..Len(t) : t[j].hidden = p)
              <=> (p = g.members[n + 1] \/ \E j \in 1..Len(s) : s[j].hidden = p)
  BY <1>3, <1>5, <1>7
<1>12. \A p : (\E m \in 1..(n + 1) : g.members[m] = p)
              <=> (p = g.members[n + 1] \/ \E m \in 1..n : g.members[m] = p)
  BY <1>1, <1>2
<1>13. \A p : (\E j \in 1..Len(t) : t[j].hidden = p)
              <=> (p # g.survivor /\ \E m \in 1..(n + 1) : g.members[m] = p)
  BY <1>4, <1>11, <1>12
<1>. QED BY <1>5, <1>9, <1>10, <1>13 DEF Collected, t, H

(* What is hidden of a group: each member but the survivor, once.          *)
LEMMA HiddenMembers ==
    ASSUME NEW g, NEW P, g.members \in Seq(P), g.survivor \in P,
           g.survivor \in Range(g.members), IsInjective(g.members)
    PROVE  /\ Hidden(g) \in Seq([hidden : P, survivor : P])
           /\ Len(Hidden(g)) = Len(g.members) - 1
           /\ {r.hidden : r \in Range(Hidden(g))} = Range(g.members) \ {g.survivor}
           /\ \A r \in Range(Hidden(g)) : r.survivor = g.survivor
<1> DEFINE N == Len(g.members)
           M(n) == MembersBut(g.survivor, g)[n]
           T == {n \in Nat : n <= N => Collected(g, P, M(n), n)}
<1>1. /\ N \in Nat
      /\ DOMAIN g.members = 1..N
      /\ \A n \in 1..N : g.members[n] \in P
      /\ \A m, n \in 1..N : g.members[m] = g.members[n] => m = n
  BY LenProperties, ElementOfSeq DEF IsInjective
<1>2. \A n \in 0..N :
         M(n) = IF n = 0 THEN <<>>
                ELSE IF g.members[n] = g.survivor THEN M(n - 1)
                ELSE Append(M(n - 1), [hidden |-> g.members[n], survivor |-> g.survivor])
  BY <1>1, MembersButDef
<1> HIDE DEF M, N
<1>3. 0 \in T
  <2>1. M(0) = <<>>
    <3>1. 0 \in 0..N
      BY <1>1
    <3>. QED BY <1>2, <3>1
  <2>2. Collected(g, P, M(0), 0)
    BY <2>1, CollectNone
  <2>. QED BY <2>2
<1>4. ASSUME NEW n \in T PROVE n + 1 \in T
  <2>1. n \in Nat /\ (n <= N => Collected(g, P, M(n), n))
    OBVIOUS
  <2>2. SUFFICES ASSUME n + 1 <= N PROVE Collected(g, P, M(n + 1), n + 1)
    BY <2>1
  <2> HIDE DEF T
  <2>3. /\ n + 1 \in 0..N /\ n + 1 \in 1..N /\ n + 1 # 0 /\ (n + 1) - 1 = n
        /\ Collected(g, P, M(n), n)
    BY <1>1, <2>1, <2>2
  <2>4. M(n + 1) = IF g.members[n + 1] = g.survivor THEN M(n)
                   ELSE Append(M(n), [hidden |-> g.members[n + 1], survivor |-> g.survivor])
    <3>1. M(n + 1) = IF n + 1 = 0 THEN <<>>
                ELSE IF g.members[n + 1] = g.survivor THEN M((n + 1) - 1)
                ELSE Append(M((n + 1) - 1), [hidden |-> g.members[n + 1], survivor |-> g.survivor])
      BY <1>2, <2>3
    <3>. QED BY <2>3, <3>1
  <2>5. CASE g.members[n + 1] = g.survivor
    <3>1. \A m \in 1..n : g.members[m] # g.members[n + 1]
      <4>1. \A m \in 1..n : m \in 1..N /\ m # n + 1
        BY <1>1, <2>1, <2>2
      <4>. QED BY <1>1, <2>3, <4>1
    <3>. QED BY <2>1, <2>3, <2>4, <2>5, <3>1, CollectSurvivor
  <2>6. CASE g.members[n + 1] # g.survivor
    <3>1. g.members[n + 1] \in P
      BY <1>1, <2>3
    <3>. QED BY <2>1, <2>3, <2>4, <2>6, <3>1, CollectMember
  <2>. QED BY <2>5, <2>6
<1>5. Collected(g, P, M(N), N)
  <2>1. T = Nat
    <3>1. T \subseteq Nat
      OBVIOUS
    <3> HIDE DEF T
    <3>. QED BY <1>3, <1>4, <3>1, AllNumbers
  <2>. QED BY <1>1, <2>1
<1>6. Hidden(g) = M(N)
  BY DEF Hidden, M, N
<1>7. PICK s : s = Hidden(g)
  OBVIOUS
<1>8. \E m \in 1..N : g.members[m] = g.survivor
  BY <1>1 DEF Range
<1>9. /\ s \in Seq([hidden : P, survivor : P]) /\ Len(s) = N - 1
      /\ \A j \in 1..Len(s) : s[j].survivor = g.survivor
      /\ \A p : (\E j \in 1..Len(s) : s[j].hidden = p)
                <=> (p # g.survivor /\ \E m \in 1..N : g.members[m] = p)
  <2>1. Collected(g, P, s, N)
    BY <1>5, <1>6, <1>7
  <2>2. (IF \E m \in 1..N : g.members[m] = g.survivor THEN 1 ELSE 0) = 1
    BY <1>8
  <2>. QED BY <2>1, <2>2 DEF Collected
<1>10. DOMAIN s = 1..Len(s)
  BY <1>9, LenProperties
<1>11. \A p : p \in {r.hidden : r \in Range(s)} <=> \E j \in 1..Len(s) : s[j].hidden = p
  BY <1>10 DEF Range
<1>12. \A p : p \in Range(g.members) <=> \E m \in 1..N : g.members[m] = p
  BY <1>1 DEF Range
<1>13. {r.hidden : r \in Range(s)} = Range(g.members) \ {g.survivor}
  BY <1>9, <1>11, <1>12
<1>14. \A r \in Range(s) : r.survivor = g.survivor
  BY <1>9, <1>10 DEF Range
<1>. QED BY <1>7, <1>9, <1>13, <1>14 DEF N

------------------------------------------------------------------------------
(* The members of the groups.                                              *)

LEMMA AppendNew ==
    ASSUME NEW S, NEW s \in Seq(S), NEW x \in S
    PROVE  /\ Range(Append(s, x)) = Range(s) \cup {x}
           /\ IsInjective(s) /\ x \notin Range(s) => IsInjective(Append(s, x))
<1>0. PICK t : t = Append(s, x)
  OBVIOUS
<1>1. /\ t \in Seq(S) /\ Len(t) = Len(s) + 1
      /\ \A i \in 1..Len(s) : t[i] = s[i]
      /\ t[Len(s) + 1] = x
  BY <1>0, AppendProperties
<1>2. /\ Len(s) \in Nat /\ DOMAIN s = 1..Len(s) /\ DOMAIN t = 1..Len(t)
  BY <1>1, LenProperties
<1>3. ASSUME IsInjective(s), x \notin Range(s)
      PROVE  /\ \A i \in 1..Len(s) : s[i] # x
             /\ \A i, j \in 1..Len(s) : s[i] = s[j] => i = j
  BY <1>2, <1>3 DEF Range, IsInjective
<1>4. /\ \A i \in 1..Len(t) : i \in 1..Len(s) \/ i = Len(s) + 1
      /\ \A i \in 1..Len(s) : i \in 1..Len(t)
      /\ Len(s) + 1 \in 1..Len(t)
  BY <1>1, <1>2
<1>5. \A p : (\E i \in 1..Len(t) : t[i] = p) <=> (p = x \/ \E i \in 1..Len(s) : s[i] = p)
  BY <1>1, <1>4
<1>6. Range(t) = Range(s) \cup {x}
  BY <1>2, <1>5 DEF Range
<1>7. ASSUME IsInjective(s), x \notin Range(s)
      PROVE  \A i, j \in 1..Len(t) : t[i] = t[j] => i = j
  BY <1>1, <1>3, <1>4, <1>7
<1>. QED BY <1>0, <1>2, <1>6, <1>7 DEF IsInjective

LEMMA MembersListedStep ==
    ASSUME LoopInv, MembersListed, GroupCandidate
    PROVE  MembersListed'
<1>1. /\ LoopOK /\ GroupsOK /\ SurvivorIsNewest
      /\ loop = "group" /\ loop' = "group" /\ idx' = idx + 1 /\ input' = input
      /\ idx \in Nat
  BY DEF LoopInv, LoopOK, GroupCandidate, Advance
<1>2. /\ Scanned = 1..(idx - 1) /\ Scanned' = 1..idx
      /\ \A i : i \in 1..idx <=> (i = idx \/ i \in 1..(idx - 1))
      /\ idx \notin 1..(idx - 1)
  <2>1. idx \in 1..(Len(input) + 1) /\ (idx + 1) - 1 = idx
    BY <1>1 DEF LoopOK
  <2>. QED BY <1>1, <2>1 DEF Scanned
<1>3. idx \in Positions
  BY <1>1, InputAssumption, LenProperties DEF GroupCandidate, Advance, Positions, LoopOK
<1>4. SUFFICES ASSUME NEW k \in Keys, groups'[k] # Vacant
               PROVE  /\ Range(groups'[k].members) = {i \in 1..idx : KeyAt(i) = k}
                      /\ IsInjective(groups'[k].members)
  BY <1>1, <1>2 DEF MembersListed, KeyAt
<1>5. CASE k # KeyAt(idx)
  <2>1. groups'[k] = groups[k]
    BY <1>1, <1>5 DEF GroupCandidate, GroupsOK
  <2>2. /\ Range(groups[k].members) = {i \in 1..(idx - 1) : KeyAt(i) = k}
        /\ IsInjective(groups[k].members)
    BY <1>2, <1>4, <2>1 DEF MembersListed
  <2>. QED BY <1>2, <1>5, <2>1, <2>2
<1>6. CASE k = KeyAt(idx) /\ groups[k] = Vacant
  <2>1. groups'[k] = NewGroup
    BY <1>1, <1>6, NoneAssumption DEF GroupCandidate, GroupsOK
  <2>2. groups'[k].members = <<idx>>
    BY <2>1 DEF NewGroup
  <2>3. \A i \in 1..(idx - 1) : KeyAt(i) # k
    BY <1>1, <1>2, <1>6 DEF SurvivorIsNewest
  <2>4. Range(<<idx>>) = {idx} /\ IsInjective(<<idx>>)
    BY DEF Range, IsInjective
  <2>. QED BY <1>2, <1>6, <2>2, <2>3, <2>4
<1>7. CASE k = KeyAt(idx) /\ groups[k] # Vacant
  <2>1. groups'[k] = Grouped(groups[k])
    BY <1>1, <1>7, NoneAssumption DEF GroupCandidate, GroupsOK
  <2>2. groups[k] \in Groups /\ groups[k].members \in Seq(Positions)
    BY <1>1, <1>7 DEF GroupsOK, GroupOK
  <2>3. groups'[k].members = Append(groups[k].members, idx)
    BY <2>1, <2>2 DEF Grouped, Groups
  <2>4. /\ Range(groups[k].members) = {i \in 1..(idx - 1) : KeyAt(i) = k}
        /\ IsInjective(groups[k].members)
    BY <1>2, <1>7 DEF MembersListed
  <2>5. idx \notin Range(groups[k].members)
    BY <1>2, <2>4
  <2>6. /\ Range(groups'[k].members) = Range(groups[k].members) \cup {idx}
        /\ IsInjective(groups'[k].members)
    BY <1>3, <2>2, <2>3, <2>4, <2>5, AppendNew
  <2>. QED BY <1>2, <1>7, <2>4, <2>6
<1>. QED BY <1>5, <1>6, <1>7

(* The candidates the first loop has passed over do not change after it.   *)
LEMMA MembersKept ==
    ASSUME MembersListed, UNCHANGED <<input, groups>>, Scanned' = Scanned
    PROVE  MembersListed'
BY DEF MembersListed, KeyAt

------------------------------------------------------------------------------
(* What the reference says of the groups of a completed first loop.        *)

LEMMA LeastIsMin ==
    ASSUME NEW S, S \subseteq Nat, NEW x \in S, \A y \in S : x <= y
    PROVE  Min(S) = x
<1>1. \A z \in S : (\A y \in S : z <= y) => z = x
  OBVIOUS
<1>. QED BY <1>1 DEF Min

LEMMA OutranksOrder ==
    ASSUME LoopOK, NEW i \in Positions, NEW j \in Positions
    PROVE  ~(Outranks(i, j) /\ Outranks(j, i))
<1>1. /\ RecencyAt(i) \in Int \cup {NoRecency} /\ RecencyAt(j) \in Int \cup {NoRecency}
      /\ Len(input) \in Nat
  BY InputType
<1>2. ~(Replaces(RecencyAt(i), RecencyAt(j)) /\ Replaces(RecencyAt(j), RecencyAt(i)))
  BY <1>1, ReplacesOrder
<1>3. i \in Nat /\ j \in Nat
  BY <1>1 DEF Positions
<1>. QED BY <1>2, <1>3 DEF Outranks

LEMMA NewestIsSurvivor ==
    ASSUME LoopInv, loop # "group", NEW k \in Keys, groups[k] # Vacant
    PROVE  Newest(k) = groups[k].survivor
<1> DEFINE v == groups[k].survivor
           members == {i \in Positions : KeyAt(i) = k}
           dated == {i \in members : RecencyAt(i) # NoRecency}
           newest == {i \in dated : \A j \in dated : RecencyAt(j) <= RecencyAt(i)}
<1>1. /\ v \in members
      /\ \A i \in members : i = v \/ Outranks(v, i)
  BY DEF LoopInv, SurvivorIsNewest, GroupOfScanned, Scanned
<1>2. LoopOK
  BY DEF LoopInv
<1>3. /\ \A i \in members : RecencyAt(i) \in Int \cup {NoRecency}
      /\ members \subseteq Nat /\ dated \subseteq Nat /\ newest \subseteq Nat
  BY <1>2, InputType DEF Positions
<1>4. CASE dated = {}
  <2>1. \A i \in members : ~Replaces(RecencyAt(v), RecencyAt(i))
    BY <1>1, <1>4 DEF Replaces
  <2>2. \A i \in members : v <= i
    BY <1>1, <1>3, <2>1 DEF Outranks
  <2>3. Min(members) = v
    <3> HIDE DEF members, v
    <3>. QED BY <1>1, <1>3, <2>2, LeastIsMin
  <2>. QED BY <1>4, <2>3 DEF Newest
<1>5. CASE dated # {}
  <2>1. PICK d : d \in dated
    BY <1>5
  <2>2. v \in dated
    <3>1. SUFFICES ASSUME RecencyAt(v) = NoRecency PROVE FALSE
      BY <1>1
    <3>2. Replaces(RecencyAt(d), RecencyAt(v)) /\ ~Replaces(RecencyAt(v), RecencyAt(d))
      BY <2>1, <3>1 DEF Replaces
    <3>. QED BY <1>1, <2>1, <3>1, <3>2 DEF Outranks
  <2>3. \A j \in dated : RecencyAt(j) \in Int
    BY <1>3
  <2>4. \A j \in dated : RecencyAt(j) <= RecencyAt(v)
    <3>1. SUFFICES ASSUME NEW j \in dated, j # v
                   PROVE  RecencyAt(j) <= RecencyAt(v)
      BY <2>2, <2>3
    <3>2. Outranks(v, j)
      BY <1>1, <3>1
    <3>3. Replaces(RecencyAt(v), RecencyAt(j)) \/ ~Replaces(RecencyAt(j), RecencyAt(v))
      BY <3>2 DEF Outranks
    <3>. QED BY <2>2, <2>3, <3>3 DEF Replaces
  <2>5. v \in newest
    BY <2>2, <2>4
  <2>6. \A i \in newest : v <= i
    <3>1. SUFFICES ASSUME NEW i \in newest, i # v
                   PROVE  v <= i
      BY <1>3, <2>5
    <3>2. i \in dated /\ RecencyAt(v) <= RecencyAt(i) /\ RecencyAt(i) <= RecencyAt(v)
      BY <2>2, <2>4, <3>1
    <3>3. ~Replaces(RecencyAt(v), RecencyAt(i))
      BY <2>2, <2>3, <3>2 DEF Replaces
    <3>4. Outranks(v, i) /\ i \in Nat /\ v \in Nat
      BY <1>1, <1>3, <3>1, <3>2
    <3>. QED BY <3>3, <3>4 DEF Outranks
  <2>7. Min(newest) = v
    <3> HIDE DEF newest, v
    <3>. QED BY <1>3, <2>5, <2>6, LeastIsMin
  <2>. QED BY <1>5, <2>7 DEF Newest
<1>. QED BY <1>4, <1>5

LEMMA RankType ==
    ASSUME NEW i \in Nat
    PROVE  Rank(i) \in Nat /\ IsFiniteSet({j \in 1..i : IsHead(j)})
<1>1. IsFiniteSet(1..i)
  BY FS_Interval
<1>2. {j \in 1..i : IsHead(j)} \in SUBSET (1..i)
  OBVIOUS
<1>3. IsFiniteSet({j \in 1..i : IsHead(j)})
  BY <1>1, <1>2, FS_Subset
<1>. QED BY <1>3, FS_CardinalityType DEF Rank

(* One place more for a head, none for another candidate.                  *)
LEMMA RankStep ==
    ASSUME NEW i \in Nat
    PROVE  /\ Rank(0) = 0
           /\ IsHead(i + 1) => Rank(i + 1) = Rank(i) + 1
           /\ ~IsHead(i + 1) => Rank(i + 1) = Rank(i)
<1> DEFINE Heads(n) == {j \in 1..n : IsHead(j)}
<1>1. Heads(0) = {}
  OBVIOUS
<1>2. \A j : j \in 1..(i + 1) <=> (j \in 1..i \/ j = i + 1)
  OBVIOUS
<1>3. i + 1 \notin Heads(i)
  OBVIOUS
<1>4. /\ IsHead(i + 1) => Heads(i + 1) = Heads(i) \cup {i + 1}
      /\ ~IsHead(i + 1) => Heads(i + 1) = Heads(i)
  BY <1>2
<1>5. IsFiniteSet(Heads(i))
  BY RankType
<1>6. \A n : Rank(n) = Cardinality(Heads(n))
  BY DEF Rank
<1> HIDE DEF Heads
<1>7. Cardinality(Heads(i) \cup {i + 1}) = Cardinality(Heads(i)) + 1
  BY <1>3, <1>5, FS_AddElement
<1>. QED BY <1>1, <1>4, <1>6, <1>7, FS_EmptySet

------------------------------------------------------------------------------
(* The second loop.                                                        *)

LEMMA SizeOfInjective ==
    ASSUME NEW S, NEW s \in Seq(S), IsInjective(s)
    PROVE  IsFiniteSet(Range(s)) /\ Cardinality(Range(s)) = Len(s)
<1>1. Len(s) \in Nat /\ DOMAIN s = 1..Len(s) /\ s \in [1..Len(s) -> S]
  BY LenProperties
<1>2. s \in [1..Len(s) -> Range(s)]
  BY <1>1 DEF Range
<1>3. \A t \in Range(s) : \E n \in 1..Len(s) : s[n] = t
  BY <1>1 DEF Range
<1>4. s \in Bijection(1..Len(s), Range(s))
  BY <1>2, <1>3 DEF Bijection, Injection, Surjection
<1>5. ExistsBijection(1..Len(s), Range(s))
  BY <1>4 DEF ExistsBijection
<1>6. IsFiniteSet(1..Len(s))
  BY <1>1, FS_Interval
<1>. QED BY <1>1, <1>5, <1>6, FS_CountingElements, FS_Bijection

LEMMA RangeOfConcat ==
    ASSUME NEW S, NEW s \in Seq(S), NEW t \in Seq(S)
    PROVE  /\ s \o t \in Seq(S) /\ Len(s \o t) = Len(s) + Len(t)
           /\ Range(s \o t) = Range(s) \cup Range(t)
<1>0. PICK u : u = s \o t
  OBVIOUS
<1>1. /\ u \in Seq(S) /\ Len(u) = Len(s) + Len(t)
      /\ \A i \in 1..(Len(s) + Len(t)) : u[i] = IF i <= Len(s) THEN s[i] ELSE t[i - Len(s)]
  BY <1>0, ConcatProperties
<1>2. /\ Len(s) \in Nat /\ Len(t) \in Nat
      /\ DOMAIN s = 1..Len(s) /\ DOMAIN t = 1..Len(t) /\ DOMAIN u = 1..Len(u)
  BY <1>1, LenProperties
<1>3. \A i \in 1..Len(s) : i \in 1..Len(u) /\ u[i] = s[i]
  BY <1>1, <1>2
<1>4. \A i \in 1..Len(t) : i + Len(s) \in 1..Len(u) /\ u[i + Len(s)] = t[i]
  <2>1. ASSUME NEW i \in 1..Len(t)
        PROVE  /\ i + Len(s) \in 1..Len(u) /\ i + Len(s) \in 1..(Len(s) + Len(t))
               /\ ~(i + Len(s) <= Len(s)) /\ (i + Len(s)) - Len(s) = i
    BY <1>1, <1>2
  <2>. QED BY <1>1, <2>1
<1>5. \A i \in 1..Len(u) : i \in 1..Len(s) \/ (i - Len(s) \in 1..Len(t) /\ u[i] = t[i - Len(s)])
  BY <1>1, <1>2
<1>6. \A p : (\E i \in 1..Len(u) : u[i] = p)
             <=> (\E i \in 1..Len(s) : s[i] = p) \/ (\E i \in 1..Len(t) : t[i] = p)
  BY <1>3, <1>4, <1>5
<1>7. \A p : p \in Range(u) <=> p \in Range(s) \/ p \in Range(t)
  BY <1>2, <1>6 DEF Range
<1>. QED BY <1>0, <1>1, <1>7

(* The group of a key that occurs: where it starts, and what it hides.     *)
LEMMA GroupOfKey ==
    ASSUME LoopInv, MembersListed, loop # "group", NEW i \in Positions, KeyAt(i) \in Keys
    PROVE  LET k == KeyAt(i)
               g == groups[k]
               M == {j \in Positions : KeyAt(j) = k}
           IN  /\ g.first \in M /\ \A j \in M : g.first <= j
               /\ g.survivor \in M
               /\ \A j \in M : j = g.survivor \/ Outranks(g.survivor, j)
               /\ Newest(k) = g.survivor
               /\ Hidden(g) \in Seq(Hiding)
               /\ Len(Hidden(g)) = Cardinality(M) - 1
               /\ {r.hidden : r \in Range(Hidden(g))} = M \ {g.survivor}
               /\ \A r \in Range(Hidden(g)) : r.survivor = g.survivor
<1> DEFINE k == KeyAt(i)
           M == {j \in Positions : KeyAt(j) = k}
<1>1. Scanned = Positions
  BY DEF Scanned
<1>2. groups[k] # Vacant
  BY <1>1 DEF LoopInv, SurvivorIsNewest
<1>3. /\ GroupOfScanned(k, groups[k]) /\ GroupOK(groups[k])
      /\ Newest(k) = groups[k].survivor
  BY <1>2, NewestIsSurvivor DEF LoopInv, SurvivorIsNewest, GroupsOK
<1>4. Range(groups[k].members) = M /\ IsInjective(groups[k].members)
  BY <1>1, <1>2 DEF MembersListed
<1>5. PICK g : g = groups[k]
  OBVIOUS
<1>6. /\ g.members \in Seq(Positions) /\ g.survivor \in Positions
      /\ g.survivor \in Range(g.members) /\ IsInjective(g.members)
  BY <1>1, <1>3, <1>4, <1>5 DEF GroupOK, GroupOfScanned
<1>7. Len(g.members) = Cardinality(M)
  BY <1>4, <1>5, <1>6, SizeOfInjective
<1>8. /\ Hidden(g) \in Seq(Hiding)
      /\ Len(Hidden(g)) = Len(g.members) - 1
      /\ {r.hidden : r \in Range(Hidden(g))} = Range(g.members) \ {g.survivor}
      /\ \A r \in Range(Hidden(g)) : r.survivor = g.survivor
  BY <1>6, HiddenMembers DEF Hiding
<1>9. /\ g.first \in M /\ \A j \in M : g.first <= j
      /\ g.survivor \in M
      /\ \A j \in M : j = g.survivor \/ Outranks(g.survivor, j)
  BY <1>1, <1>3, <1>5 DEF GroupOfScanned
<1>. QED BY <1>3, <1>4, <1>5, <1>7, <1>8, <1>9

(* The pack once the candidates up to n are emitted: em, kp and sp are     *)
(* what emitted, kept and superseded are then.                             *)
UnversionedTo(n) == {i \in 1..n : KeyAt(i) = NoKey}

CollapsedOf(em) == {i \in Positions : KeyAt(i) \in em}

KeptTo(n, em, kp) ==
    /\ em = {k \in Keys : \E j \in 1..n : KeyAt(j) = k}
    /\ kp \in Seq(Positions) /\ Len(kp) = Rank(n)
    /\ \A i \in 1..n : IsHead(i) =>
          /\ Rank(i) \in 1..Len(kp)
          /\ kp[Rank(i)] = IF KeyAt(i) = NoKey THEN i ELSE SurvivorOf(i)
    /\ Range(kp) = UnversionedTo(n) \cup {groups[k].survivor : k \in em}

HiddenTo(em, sp) ==
    /\ sp \in Seq(Hiding)
    /\ {s.hidden : s \in Range(sp)} = {i \in CollapsedOf(em) : i # SurvivorOf(i)}
    /\ \A s \in Range(sp) : s.survivor = SurvivorOf(s.hidden)

PackedTo(n, em, kp, sp) ==
    /\ KeptTo(n, em, kp)
    /\ HiddenTo(em, sp)
    /\ Len(kp) + Len(sp) = Cardinality(UnversionedTo(n) \cup CollapsedOf(em))

LEMMA PackedNow ==
    ASSUME PackOK, KeptInv, SupersededInv
    PROVE  PackedTo(idx - 1, emitted, kept, superseded)
<1>1. Unversioned = UnversionedTo(idx - 1) /\ Collapsed = CollapsedOf(emitted)
  BY DEF Unversioned, UnversionedTo, Collapsed, CollapsedOf
<1>2. KeptTo(idx - 1, emitted, kept)
  BY <1>1 DEF PackOK, KeptInv, KeptTo
<1>3. HiddenTo(emitted, superseded)
  BY <1>1 DEF PackOK, SupersededInv, HiddenTo
<1>. QED BY <1>1, <1>2, <1>3 DEF SupersededInv, PackedTo

LEMMA PackedNext ==
    ASSUME UNCHANGED <<input, groups>>,
           PackedTo(idx' - 1, emitted', kept', superseded')
    PROVE  PackOK' /\ KeptInv' /\ SupersededInv'
<1>1. /\ Positions' = Positions /\ Hiding' = Hiding
      /\ \A i : KeyAt(i)' = KeyAt(i)
      /\ \A i : SurvivorOf(i)' = SurvivorOf(i)
  BY DEF Positions, Hiding, KeyAt, SurvivorOf
<1>2. /\ \A i : IsHead(i)' <=> IsHead(i)
      /\ \A i : Rank(i)' = Rank(i)
  BY DEF IsHead, Rank, KeyAt
<1>3. Unversioned' = UnversionedTo(idx' - 1) /\ Collapsed' = CollapsedOf(emitted')
  BY <1>1 DEF Unversioned, UnversionedTo, Collapsed, CollapsedOf
<1>4. KeptTo(idx' - 1, emitted', kept') /\ HiddenTo(emitted', superseded')
  BY DEF PackedTo
<1>5. PackOK'
  BY <1>1, <1>4 DEF PackOK, KeptTo, HiddenTo
<1>6. KeptInv'
  BY <1>1, <1>2, <1>3, <1>4 DEF KeptInv, KeptTo
<1>7. SupersededInv'
  BY <1>1, <1>3, <1>4 DEF SupersededInv, HiddenTo, PackedTo
<1>. QED BY <1>5, <1>6, <1>7

LEMMA PackedStart ==
    ASSUME NoKey \notin Keys
    PROVE  PackedTo(0, {}, <<>>, <<>>)
<1>1. /\ Rank(0) = 0 /\ Len(<<>>) = 0
      /\ <<>> \in Seq(Positions) /\ <<>> \in Seq(Hiding)
  BY RankStep, EmptySeq
<1>2. /\ 1..0 = {} /\ Range(<<>>) = {}
      /\ UnversionedTo(0) = {} /\ CollapsedOf({}) = {}
  BY DEF UnversionedTo, CollapsedOf, Range
<1>3. KeptTo(0, {}, <<>>)
  BY <1>1, <1>2 DEF KeptTo
<1>4. HiddenTo({}, <<>>)
  BY <1>1, <1>2 DEF HiddenTo
<1>5. Cardinality(UnversionedTo(0) \cup CollapsedOf({})) = 0
  BY <1>2, FS_EmptySet
<1>. QED BY <1>1, <1>3, <1>4, <1>5 DEF PackedTo

LEMMA HeadWhenNew ==
    ASSUME LoopOK, NEW n \in Nat, n + 1 \in Positions, NEW em,
           em = {k \in Keys : \E j \in 1..n : KeyAt(j) = k}
    PROVE  IsHead(n + 1) <=> KeyAt(n + 1) \notin em
<1>1. KeyAt(n + 1) \in Keys \cup {NoKey}
  BY InputType
<1>2. (n + 1) - 1 = n
  OBVIOUS
<1>. QED BY <1>1, <1>2, NoneAssumption DEF IsHead

(* Appending the candidate shown for a head.                               *)
LEMMA KeptHead ==
    ASSUME LoopOK, NEW n \in Nat, n + 1 \in Positions,
           NEW em, NEW kp, KeptTo(n, em, kp), KeyAt(n + 1) \notin em,
           NEW x \in Positions,
           x = IF KeyAt(n + 1) = NoKey THEN n + 1 ELSE SurvivorOf(n + 1)
    PROVE  /\ Append(kp, x) \in Seq(Positions)
           /\ Len(Append(kp, x)) = Rank(n + 1)
           /\ Len(Append(kp, x)) = Len(kp) + 1
           /\ Range(Append(kp, x)) = Range(kp) \cup {x}
           /\ \A i \in 1..(n + 1) : IsHead(i) =>
                 /\ Rank(i) \in 1..Len(Append(kp, x))
                 /\ Append(kp, x)[Rank(i)] = IF KeyAt(i) = NoKey THEN i ELSE SurvivorOf(i)
<1>1. IsHead(n + 1) /\ Rank(n + 1) = Rank(n) + 1
  BY HeadWhenNew, RankStep DEF KeptTo
<1>2. PICK u : u = Append(kp, x)
  OBVIOUS
<1>3. /\ kp \in Seq(Positions) /\ Len(kp) = Rank(n)
      /\ \A i \in 1..n : IsHead(i) =>
            /\ Rank(i) \in 1..Len(kp)
            /\ kp[Rank(i)] = IF KeyAt(i) = NoKey THEN i ELSE SurvivorOf(i)
  BY DEF KeptTo
<1>4. /\ u \in Seq(Positions) /\ Len(u) = Len(kp) + 1
      /\ \A m \in 1..Len(kp) : u[m] = kp[m]
      /\ u[Len(kp) + 1] = x
  BY <1>2, <1>3, AppendProperties
<1>5. Len(kp) \in Nat
  BY <1>3, LenProperties
<1>6. \A i \in 1..(n + 1) : i \in 1..n \/ i = n + 1
  OBVIOUS
<1>7. ASSUME NEW i \in 1..(n + 1), IsHead(i)
      PROVE  /\ Rank(i) \in 1..Len(u)
             /\ u[Rank(i)] = IF KeyAt(i) = NoKey THEN i ELSE SurvivorOf(i)
  <2>1. CASE i = n + 1
    BY <1>1, <1>3, <1>4, <1>5, <2>1
  <2>2. CASE i \in 1..n
    <3>1. /\ Rank(i) \in 1..Len(kp)
          /\ kp[Rank(i)] = IF KeyAt(i) = NoKey THEN i ELSE SurvivorOf(i)
      BY <1>3, <1>7, <2>2
    <3>2. Rank(i) \in 1..Len(u) /\ u[Rank(i)] = kp[Rank(i)]
      BY <1>4, <1>5, <3>1
    <3>. QED BY <3>1, <3>2
  <2>. QED BY <1>6, <2>1, <2>2
<1>8. Range(u) = Range(kp) \cup {x}
  <2>1. kp \in Seq(Positions)
    BY <1>3
  <2>2. \A y \in Positions : Range(Append(kp, y)) = Range(kp) \cup {y}
    <3>1. SUFFICES ASSUME NEW y \in Positions
                   PROVE  Range(Append(kp, y)) = Range(kp) \cup {y}
      OBVIOUS
    <3>. QED BY <2>1, AppendNew
  <2>. QED BY <1>2, <2>2, Zenon
<1>. QED BY <1>1, <1>2, <1>3, <1>4, <1>7, <1>8

LEMMA SkipKeepsPacked ==
    ASSUME LoopOK, NEW n \in Nat, n + 1 \in Positions,
           NEW em, NEW kp, NEW sp, PackedTo(n, em, kp, sp), KeyAt(n + 1) \in em
    PROVE  PackedTo(n + 1, em, kp, sp)
<1>1. KeptTo(n, em, kp)
  BY DEF PackedTo
<1>2. em = {k \in Keys : \E j \in 1..n : KeyAt(j) = k}
  BY <1>1 DEF KeptTo
<1>3. KeyAt(n + 1) # NoKey /\ ~IsHead(n + 1) /\ Rank(n + 1) = Rank(n)
  BY <1>2, NoneAssumption, HeadWhenNew, RankStep
<1>4. \A i : i \in 1..(n + 1) <=> (i \in 1..n \/ i = n + 1)
  OBVIOUS
<1>5. UnversionedTo(n + 1) = UnversionedTo(n)
  BY <1>3, <1>4 DEF UnversionedTo
<1>6. em = {k \in Keys : \E j \in 1..(n + 1) : KeyAt(j) = k}
  BY <1>2, <1>4
<1>7. KeptTo(n + 1, em, kp)
  BY <1>1, <1>3, <1>4, <1>5, <1>6 DEF KeptTo
<1>. QED BY <1>5, <1>7 DEF PackedTo

(* What a pack counts is finite.                                           *)
LEMMA PackedFinite ==
    ASSUME LoopOK, NEW n \in Nat, n <= Len(input), NEW em
    PROVE  /\ IsFiniteSet(Positions)
           /\ IsFiniteSet(UnversionedTo(n) \cup CollapsedOf(em))
<1>1. Len(input) \in Nat
  BY InputAssumption, LenProperties DEF LoopOK
<1>2. IsFiniteSet(Positions)
  BY <1>1, FS_Interval DEF Positions
<1>3. (UnversionedTo(n) \cup CollapsedOf(em)) \in SUBSET Positions
  BY <1>1 DEF UnversionedTo, CollapsedOf, Positions
<1>. QED BY <1>2, <1>3, FS_Subset

LEMMA UnversionedKeepsPacked ==
    ASSUME LoopOK, NEW n \in Nat, n + 1 \in Positions,
           NEW em, NEW kp, NEW sp, PackedTo(n, em, kp, sp), KeyAt(n + 1) = NoKey
    PROVE  PackedTo(n + 1, em, Append(kp, n + 1), sp)
<1> DEFINE u == Append(kp, n + 1)
           W == UnversionedTo(n) \cup CollapsedOf(em)
<1>1. KeptTo(n, em, kp) /\ HiddenTo(em, sp) /\ Len(kp) + Len(sp) = Cardinality(W)
  BY DEF PackedTo
<1>2. em = {k \in Keys : \E j \in 1..n : KeyAt(j) = k}
  BY <1>1 DEF KeptTo
<1>3. KeyAt(n + 1) \notin em
  BY <1>2, NoneAssumption
<1>4. \A i : i \in 1..(n + 1) <=> (i \in 1..n \/ i = n + 1)
  OBVIOUS
<1>5. /\ u \in Seq(Positions) /\ Len(u) = Rank(n + 1) /\ Len(u) = Len(kp) + 1
      /\ Range(u) = Range(kp) \cup {n + 1}
      /\ \A i \in 1..(n + 1) : IsHead(i) =>
            /\ Rank(i) \in 1..Len(u)
            /\ u[Rank(i)] = IF KeyAt(i) = NoKey THEN i ELSE SurvivorOf(i)
  <2>1. n + 1 = IF KeyAt(n + 1) = NoKey THEN n + 1 ELSE SurvivorOf(n + 1)
    OBVIOUS
  <2>2. \A x \in Positions : x = (IF KeyAt(n + 1) = NoKey THEN n + 1 ELSE SurvivorOf(n + 1)) =>
          /\ Append(kp, x) \in Seq(Positions)
          /\ Len(Append(kp, x)) = Rank(n + 1)
          /\ Len(Append(kp, x)) = Len(kp) + 1
          /\ Range(Append(kp, x)) = Range(kp) \cup {x}
          /\ \A i \in 1..(n + 1) : IsHead(i) =>
                /\ Rank(i) \in 1..Len(Append(kp, x))
                /\ Append(kp, x)[Rank(i)] = IF KeyAt(i) = NoKey THEN i ELSE SurvivorOf(i)
    BY <1>1, <1>3, KeptHead
  <2>. QED BY <2>1, <2>2, Zenon
<1> HIDE DEF u
<1>6. UnversionedTo(n + 1) = UnversionedTo(n) \cup {n + 1}
  BY <1>4 DEF UnversionedTo
<1>7. em = {k \in Keys : \E j \in 1..(n + 1) : KeyAt(j) = k}
  BY <1>2, <1>4, NoneAssumption
<1>8. Range(u) = UnversionedTo(n + 1) \cup {groups[k].survivor : k \in em}
  BY <1>1, <1>5, <1>6 DEF KeptTo
<1>9. KeptTo(n + 1, em, u)
  BY <1>5, <1>7, <1>8 DEF KeptTo
<1>10. n + 1 \notin W
  BY <1>3 DEF UnversionedTo, CollapsedOf
<1>11. IsFiniteSet(W)
  <2>1. n <= Len(input)
    BY InputAssumption, LenProperties DEF LoopOK, Positions
  <2>. QED BY <2>1, PackedFinite
<1>12. UnversionedTo(n + 1) \cup CollapsedOf(em) = W \cup {n + 1}
  BY <1>6
<1> HIDE DEF W
<1>13. Cardinality(W \cup {n + 1}) = Cardinality(W) + 1
  BY <1>10, <1>11, FS_AddElement
<1>14. Len(kp) \in Nat /\ Len(sp) \in Nat
  BY <1>1, LenProperties DEF KeptTo, HiddenTo
<1>15. Len(u) + Len(sp) = Cardinality(UnversionedTo(n + 1) \cup CollapsedOf(em))
  <2>1. Len(u) + Len(sp) = (Len(kp) + Len(sp)) + 1
    BY <1>5, <1>14
  <2>2. Len(kp) + Len(sp) = Cardinality(W)
    BY <1>1
  <2>. QED BY <1>12, <1>13, <2>1, <2>2
<1>. QED BY <1>1, <1>9, <1>15 DEF PackedTo, u

(* Emitting a group: its survivor is kept, its other members are hidden.   *)
LEMMA SurvivorKeepsPacked ==
    ASSUME LoopInv, MembersListed, loop # "group",
           NEW n \in Nat, n + 1 \in Positions, NEW k \in Keys, k = KeyAt(n + 1),
           NEW em, NEW kp, NEW sp, PackedTo(n, em, kp, sp), k \notin em
    PROVE  PackedTo(n + 1, em \cup {k}, Append(kp, groups[k].survivor), sp \o Hidden(groups[k]))
<1> DEFINE v == groups[k].survivor
           u == Append(kp, v)
           t == Hidden(groups[k])
           M == {j \in Positions : KeyAt(j) = k}
           W == UnversionedTo(n) \cup CollapsedOf(em)
           ek == em \cup {k}
<1>0. LoopOK
  BY DEF LoopInv
<1>1. KeptTo(n, em, kp) /\ HiddenTo(em, sp) /\ Len(kp) + Len(sp) = Cardinality(W)
  BY DEF PackedTo
<1>2. em = {c \in Keys : \E j \in 1..n : KeyAt(j) = c}
  BY <1>1 DEF KeptTo
<1>3. /\ v \in M /\ t \in Seq(Hiding) /\ Len(t) = Cardinality(M) - 1
      /\ {r.hidden : r \in Range(t)} = M \ {v}
      /\ \A r \in Range(t) : r.survivor = v
  <2>1. n + 1 \in Positions /\ KeyAt(n + 1) \in Keys
    OBVIOUS
  <2>2. /\ groups[KeyAt(n + 1)].survivor \in {j \in Positions : KeyAt(j) = KeyAt(n + 1)}
        /\ Hidden(groups[KeyAt(n + 1)]) \in Seq(Hiding)
        /\ Len(Hidden(groups[KeyAt(n + 1)]))
           = Cardinality({j \in Positions : KeyAt(j) = KeyAt(n + 1)}) - 1
        /\ {r.hidden : r \in Range(Hidden(groups[KeyAt(n + 1)]))}
           = {j \in Positions : KeyAt(j) = KeyAt(n + 1)} \ {groups[KeyAt(n + 1)].survivor}
        /\ \A r \in Range(Hidden(groups[KeyAt(n + 1)])) :
              r.survivor = groups[KeyAt(n + 1)].survivor
    BY <2>1, GroupOfKey, Zenon
  <2>. QED BY <2>2, Zenon
<1> HIDE DEF t
<1>4. \A i : i \in 1..(n + 1) <=> (i \in 1..n \/ i = n + 1)
  OBVIOUS
<1>5. /\ u \in Seq(Positions) /\ Len(u) = Rank(n + 1) /\ Len(u) = Len(kp) + 1
      /\ Range(u) = Range(kp) \cup {v}
      /\ \A i \in 1..(n + 1) : IsHead(i) =>
            /\ Rank(i) \in 1..Len(u)
            /\ u[Rank(i)] = IF KeyAt(i) = NoKey THEN i ELSE SurvivorOf(i)
  <2>1. v = IF KeyAt(n + 1) = NoKey THEN n + 1 ELSE SurvivorOf(n + 1)
    BY NoneAssumption DEF SurvivorOf
  <2>2. v \in Positions
    BY <1>3
  <2> HIDE DEF v
  <2>. QED BY <1>0, <1>1, <2>1, <2>2, KeptHead
<1> HIDE DEF u
<1>6. UnversionedTo(n + 1) = UnversionedTo(n)
  BY <1>4, NoneAssumption DEF UnversionedTo
<1>7. ek = {c \in Keys : \E j \in 1..(n + 1) : KeyAt(j) = c}
  BY <1>2, <1>4
<1>8. {groups[c].survivor : c \in ek} = {groups[c].survivor : c \in em} \cup {v}
  OBVIOUS
<1>9. Range(u) = UnversionedTo(n + 1) \cup {groups[c].survivor : c \in ek}
  BY <1>1, <1>5, <1>6, <1>8 DEF KeptTo
<1>10. KeptTo(n + 1, ek, u)
  BY <1>5, <1>7, <1>9 DEF KeptTo
<1>11. CollapsedOf(ek) = CollapsedOf(em) \cup M
  BY DEF CollapsedOf
<1>12. PICK w : w = sp \o t
  OBVIOUS
<1>13. /\ w \in Seq(Hiding) /\ Len(w) = Len(sp) + Len(t)
       /\ Range(w) = Range(sp) \cup Range(t)
  <2>1. sp \in Seq(Hiding) /\ t \in Seq(Hiding)
    BY <1>1, <1>3 DEF HiddenTo
  <2>2. /\ sp \o t \in Seq(Hiding) /\ Len(sp \o t) = Len(sp) + Len(t)
        /\ Range(sp \o t) = Range(sp) \cup Range(t)
    BY <2>1, RangeOfConcat
  <2>. QED BY <1>12, <2>2, Zenon
<1>14. \A i \in M : SurvivorOf(i) = v
  BY DEF SurvivorOf
<1>15. HiddenTo(ek, w)
  <2>1. {s.hidden : s \in Range(w)} = {s.hidden : s \in Range(sp)} \cup (M \ {v})
    BY <1>3, <1>13
  <2>2. {i \in CollapsedOf(ek) : i # SurvivorOf(i)}
        = {i \in CollapsedOf(em) : i # SurvivorOf(i)} \cup (M \ {v})
    BY <1>11, <1>14
  <2>3. ASSUME NEW r \in Range(t) PROVE r.survivor = SurvivorOf(r.hidden)
    <3>1. r.hidden \in M /\ r.survivor = v
      BY <1>3
    <3>. QED BY <1>14, <3>1
  <2>. QED BY <1>1, <1>13, <2>1, <2>2, <2>3 DEF HiddenTo
<1>16. W \cap M = {}
  BY NoneAssumption DEF UnversionedTo, CollapsedOf
<1>17. IsFiniteSet(W) /\ IsFiniteSet(M)
  <2>1. n <= Len(input)
    BY <1>0, InputAssumption, LenProperties DEF LoopOK, Positions
  <2>2. IsFiniteSet(Positions) /\ IsFiniteSet(W)
    BY <1>0, <2>1, PackedFinite
  <2>3. M \in SUBSET Positions
    OBVIOUS
  <2>. QED BY <2>2, <2>3, FS_Subset
<1>18. UnversionedTo(n + 1) \cup CollapsedOf(ek) = W \cup M
  BY <1>6, <1>11
<1> HIDE DEF W, M
<1>19. Cardinality(W \cup M) = Cardinality(W) + Cardinality(M)
  <2>1. Cardinality(W \cap M) = 0
    BY <1>16, FS_EmptySet
  <2>2. Cardinality(W) \in Nat /\ Cardinality(M) \in Nat
    BY <1>17, FS_CardinalityType
  <2>3. Cardinality(W \cup M) = Cardinality(W) + Cardinality(M) - Cardinality(W \cap M)
    BY <1>17, FS_Union, Zenon
  <2>. QED BY <2>1, <2>2, <2>3
<1>20. /\ Len(kp) \in Nat /\ Len(sp) \in Nat /\ Len(t) \in Nat
       /\ Cardinality(W) \in Nat /\ Cardinality(M) \in Nat
  <2>1. kp \in Seq(Positions) /\ sp \in Seq(Hiding) /\ t \in Seq(Hiding)
    BY <1>1, <1>3 DEF KeptTo, HiddenTo
  <2>2. Len(kp) \in Nat /\ Len(sp) \in Nat /\ Len(t) \in Nat
    BY <2>1, LenProperties, Zenon
  <2>3. Cardinality(W) \in Nat /\ Cardinality(M) \in Nat
    BY <1>17, FS_CardinalityType, Zenon
  <2>. QED BY <2>2, <2>3
<1>21. Len(u) + Len(w) = Cardinality(UnversionedTo(n + 1) \cup CollapsedOf(ek))
  <2>1. Len(u) = Len(kp) + 1 /\ Len(w) = Len(sp) + Len(t) /\ Len(t) = Cardinality(M) - 1
    BY <1>3, <1>5, <1>13
  <2>2. Len(u) + Len(w) = (Len(kp) + Len(sp)) + Cardinality(M)
    <3>1. \A a, b, m \in Nat : (a + 1) + (b + (m - 1)) = (a + b) + m
      OBVIOUS
    <3>2. (Len(kp) + 1) + (Len(sp) + (Cardinality(M) - 1)) = (Len(kp) + Len(sp)) + Cardinality(M)
      <4>1. PICK a, b, m \in Nat : a = Len(kp) /\ b = Len(sp) /\ m = Cardinality(M)
        BY <1>20
      <4>2. (a + 1) + (b + (m - 1)) = (a + b) + m
        BY <3>1
      <4>. QED BY <4>1, <4>2
    <3>. QED BY <2>1, <3>2, Zenon
  <2>3. Len(kp) + Len(sp) = Cardinality(W)
    BY <1>1
  <2>. QED BY <1>18, <1>19, <2>2, <2>3
<1>. QED BY <1>10, <1>12, <1>15, <1>21 DEF PackedTo, u, t

LEMMA EmitStep ==
    ASSUME LoopInv, MembersListed, PackOK, PackInv, EmitCandidate
    PROVE  PackOK' /\ PackInv'
<1>1. /\ loop = "emit" /\ loop' = "emit" /\ idx' = idx + 1 /\ idx <= Len(input)
      /\ UNCHANGED <<input, groups>> /\ loop # "group"
      /\ LoopOK
  BY DEF EmitCandidate, Advance, LoopInv
<1>2. KeptInv /\ SupersededInv
  BY <1>1 DEF PackInv
<1>3. /\ idx \in Nat /\ idx - 1 \in Nat /\ (idx - 1) + 1 = idx /\ idx' - 1 = idx
      /\ idx \in Positions
  BY <1>1, InputAssumption, LenProperties DEF LoopOK, Positions
<1>4. PICK n \in Nat : n = idx - 1
  BY <1>3
<1>5. n + 1 = idx /\ n + 1 \in Positions
  BY <1>3, <1>4
<1>6. PackedTo(n, emitted, kept, superseded)
  BY <1>2, <1>4, PackedNow
<1>7. KeyAt(idx) \in Keys \cup {NoKey}
  BY <1>1, <1>3, InputType
<1>8. emitted = {k \in Keys : \E j \in 1..n : KeyAt(j) = k}
  BY <1>6 DEF PackedTo, KeptTo
<1>9. PackedTo(n + 1, emitted', kept', superseded')
  <2>1. CASE KeepUnversioned
    <3>1. /\ KeyAt(n + 1) = NoKey /\ kept' = Append(kept, n + 1)
          /\ emitted' = emitted /\ superseded' = superseded
      BY <1>5, <2>1 DEF KeepUnversioned
    <3>2. PackedTo(n + 1, emitted, Append(kept, n + 1), superseded)
      BY <1>1, <1>5, <1>6, <3>1, UnversionedKeepsPacked
    <3>. QED BY <3>1, <3>2
  <2>2. CASE KeepSurvivor
    <3>1. PICK k \in Keys : k = KeyAt(n + 1) /\ k \notin emitted
      BY <1>5, <2>2 DEF KeepSurvivor
    <3>2. /\ kept' = Append(kept, groups[k].survivor)
          /\ emitted' = emitted \cup {k}
          /\ superseded' = superseded \o Hidden(groups[k])
      BY <1>5, <2>2, <3>1 DEF KeepSurvivor
    <3>3. PackedTo(n + 1, emitted \cup {k}, Append(kept, groups[k].survivor),
                   superseded \o Hidden(groups[k]))
      BY <1>1, <1>5, <1>6, <3>1, SurvivorKeepsPacked
    <3>. QED BY <3>2, <3>3
  <2>3. CASE SkipMember
    <3>1. /\ KeyAt(n + 1) \in Keys
          /\ emitted' = emitted /\ kept' = kept /\ superseded' = superseded
      BY <1>5, <2>3 DEF SkipMember
    <3>2. KeyAt(n + 1) \in emitted
      <4>1. SUFFICES ASSUME KeyAt(n + 1) \notin emitted PROVE FALSE
        OBVIOUS
      <4>2. PICK f : f = groups[KeyAt(n + 1)].first
        OBVIOUS
      <4>3. f # n + 1
        BY <1>5, <2>3, <4>1, <4>2 DEF SkipMember, AtHead
      <4>4. f \in {j \in Positions : KeyAt(j) = KeyAt(n + 1)} /\ f <= n + 1
        <5>1. /\ groups[KeyAt(n + 1)].first \in {j \in Positions : KeyAt(j) = KeyAt(n + 1)}
              /\ \A j \in {j \in Positions : KeyAt(j) = KeyAt(n + 1)} :
                    groups[KeyAt(n + 1)].first <= j
          BY <1>1, <1>5, <3>1, GroupOfKey
        <5>. QED BY <1>5, <4>2, <5>1
      <4>5. f \in 1..n
        BY <1>4, <4>3, <4>4 DEF Positions
      <4>. QED BY <1>8, <3>1, <4>1, <4>4, <4>5
    <3>3. PackedTo(n + 1, emitted, kept, superseded)
      BY <1>1, <1>5, <1>6, <3>2, SkipKeepsPacked
    <3>. QED BY <3>1, <3>3
  <2>. QED BY <2>1, <2>2, <2>3 DEF EmitCandidate
<1>10. PackedTo(idx' - 1, emitted', kept', superseded')
  BY <1>3, <1>5, <1>9
<1>11. PackOK' /\ KeptInv' /\ SupersededInv'
  BY <1>1, <1>10, PackedNext
<1>. QED BY <1>1, <1>11 DEF PackInv

(* Steps of which the pack takes no part.                                  *)
LEMMA PackStands ==
    ASSUME PackOK, KeptInv, SupersededInv,
           UNCHANGED <<input, idx, groups, emitted, kept, superseded>>
    PROVE  PackOK' /\ KeptInv' /\ SupersededInv'
<1>1. PackedTo(idx' - 1, emitted', kept', superseded')
  <2>1. PackedTo(idx - 1, emitted, kept, superseded)
    BY PackedNow
  <2>. QED BY <2>1
<1>. QED BY <1>1, PackedNext

LEMMA InvInit == Init => SupersessionInv
<1> SUFFICES ASSUME Init PROVE SupersessionInv
  OBVIOUS
<1>1. LoopInv
  BY InitEstablishes
<1>2. MembersListed /\ PackInv
  BY DEF Init, MembersListed, PackInv
<1>3. PackOK
  BY EmptySeq DEF Init, PackOK
<1>. QED BY <1>1, <1>2, <1>3 DEF LoopInv, SupersessionInv, TypeOK

LEMMA InvNext == SupersessionInv /\ [Next]_vars => SupersessionInv'
<1> SUFFICES ASSUME SupersessionInv, [Next]_vars PROVE SupersessionInv'
  OBVIOUS
<1>1. LoopInv /\ MembersListed /\ PackOK /\ PackInv /\ LoopOK
  BY DEF SupersessionInv, TypeOK, LoopInv
<1>2. LoopInv'
  BY <1>1, StepKeepsInv
<1>3. Len(input) \in Nat
  BY <1>1, InputAssumption, LenProperties DEF LoopOK
<1>4. MembersListed' /\ PackOK' /\ PackInv'
  <2>1. CASE GroupCandidate
    <3>1. loop' = "group" /\ emitted' = {} /\ kept' = <<>> /\ superseded' = <<>>
      BY <1>1, <2>1 DEF GroupCandidate, PackInv
    <3>2. PackOK'
      BY <3>1, EmptySeq DEF PackOK
    <3>. QED BY <1>1, <2>1, <3>1, <3>2, MembersListedStep DEF PackInv
  <2>2. CASE StartEmitting
    <3>1. /\ loop = "group" /\ loop' = "emit" /\ idx' = 1 /\ UNCHANGED <<input, groups>>
          /\ emitted' = {} /\ kept' = <<>> /\ superseded' = <<>>
      BY <1>1, <2>2 DEF StartEmitting, PackInv
    <3>2. Scanned' = Scanned
      BY <1>1, <1>3, <2>2, <3>1 DEF StartEmitting, Scanned, Positions, LoopOK
    <3>3. MembersListed'
      BY <1>1, <3>1, <3>2, MembersKept
    <3>4. PackedTo(idx' - 1, emitted', kept', superseded')
      <4>1. PackedTo(0, {}, <<>>, <<>>)
        BY NoneAssumption, PackedStart
      <4>2. idx' - 1 = 0
        BY <3>1
      <4>. QED BY <3>1, <4>1, <4>2
    <3>5. PackOK' /\ KeptInv' /\ SupersededInv'
      BY <3>1, <3>4, PackedNext
    <3>. QED BY <3>1, <3>3, <3>5 DEF PackInv
  <2>3. CASE EmitCandidate
    <3>1. PackOK' /\ PackInv'
      BY <1>1, <2>3, EmitStep
    <3>2. UNCHANGED <<input, groups>> /\ Scanned' = Scanned
      BY <2>3 DEF EmitCandidate, Scanned, Positions
    <3>. QED BY <1>1, <3>1, <3>2, MembersKept
  <2>4. CASE Finish
    <3>1. /\ loop = "emit" /\ loop' = "done" /\ idx > Len(input)
          /\ UNCHANGED <<input, idx, groups, emitted, kept, superseded>>
      BY <2>4 DEF Finish
    <3>2. Scanned' = Scanned
      BY <3>1 DEF Scanned, Positions
    <3>3. PackOK' /\ KeptInv' /\ SupersededInv'
      BY <1>1, <3>1, PackStands DEF PackInv
    <3>4. idx' = Len(input') + 1
      BY <1>1, <1>3, <3>1 DEF LoopOK
    <3>. QED BY <1>1, <3>1, <3>2, <3>3, <3>4, MembersKept DEF PackInv
  <2>5. CASE UNCHANGED vars
    <3>1. UNCHANGED <<input, loop, idx, groups, emitted, kept, superseded>>
      BY <2>5 DEF vars
    <3>2. Scanned' = Scanned
      BY <3>1 DEF Scanned, Positions
    <3>3. MembersListed'
      BY <1>1, <3>1, <3>2, MembersKept
    <3>4. CASE loop = "group"
      <4>1. PackInv'
        BY <1>1, <3>1, <3>4 DEF PackInv
      <4>2. PackOK'
        BY <1>1, <3>1 DEF PackOK, Positions, Hiding
      <4>. QED BY <3>3, <4>1, <4>2
    <3>5. CASE loop # "group"
      <4>1. PackOK' /\ KeptInv' /\ SupersededInv'
        BY <1>1, <3>1, <3>5, PackStands DEF PackInv
      <4>. QED BY <1>1, <3>1, <3>3, <3>5, <4>1 DEF PackInv
    <3>. QED BY <3>4, <3>5
  <2>. QED BY <2>1, <2>2, <2>3, <2>4, <2>5 DEF Next
<1>. QED BY <1>2, <1>4 DEF SupersessionInv, TypeOK, LoopInv

------------------------------------------------------------------------------
(* What the finished pack is.                                              *)

(* The keys that were emitted are then all that occur.                     *)
LEMMA FinishedPack ==
    ASSUME SupersessionInv, loop = "done"
    PROVE  /\ LoopInv /\ MembersListed /\ LoopOK /\ loop # "group"
           /\ KeptTo(Len(input), emitted, kept) /\ HiddenTo(emitted, superseded)
           /\ Len(kept) + Len(superseded) = Len(input)
           /\ \A i \in Positions : KeyAt(i) = NoKey \/ KeyAt(i) \in emitted
<1>1. /\ LoopInv /\ MembersListed /\ LoopOK /\ PackOK /\ KeptInv /\ SupersededInv
      /\ idx = Len(input) + 1
  BY DEF SupersessionInv, TypeOK, LoopInv, PackInv
<1>2. Len(input) \in Nat /\ idx - 1 = Len(input)
  BY <1>1, InputAssumption, LenProperties DEF LoopOK
<1>3. PackedTo(Len(input), emitted, kept, superseded)
  BY <1>1, <1>2, PackedNow
<1>4. ASSUME NEW i \in Positions PROVE KeyAt(i) = NoKey \/ KeyAt(i) \in emitted
  <2>1. KeyAt(i) \in Keys \cup {NoKey}
    BY <1>1, InputType
  <2>. QED BY <1>3, <2>1 DEF PackedTo, KeptTo, Positions
<1>5. UnversionedTo(Len(input)) \cup CollapsedOf(emitted) = Positions
  BY <1>4 DEF UnversionedTo, CollapsedOf, Positions
<1>6. Cardinality(Positions) = Len(input)
  <2>1. PICK N \in Nat : N = Len(input)
    BY <1>2
  <2>2. Cardinality(1..N) = IF 1 > N THEN 0 ELSE (N - 1) + 1
    BY FS_Interval
  <2>3. Cardinality(1..N) = N
    BY <2>2
  <2>. QED BY <2>1, <2>3 DEF Positions
<1>. QED BY <1>1, <1>3, <1>4, <1>5, <1>6 DEF PackedTo

(* Each candidate with a key and the group it is in.                       *)
LEMMA FinishedGroups ==
    ASSUME SupersessionInv, loop = "done", NEW i \in Positions, KeyAt(i) # NoKey
    PROVE  /\ KeyAt(i) \in Keys /\ KeyAt(i) \in emitted
           /\ SurvivorOf(i) \in Positions /\ KeyAt(SurvivorOf(i)) = KeyAt(i)
           /\ SurvivorOf(i) = Newest(KeyAt(i)) /\ SurvivorOf(i) \in Range(kept)
           /\ \A j \in Positions :
                 KeyAt(j) = KeyAt(i) => j = SurvivorOf(i) \/ Outranks(SurvivorOf(i), j)
<1>1. /\ LoopInv /\ MembersListed /\ loop # "group" /\ LoopOK
      /\ KeptTo(Len(input), emitted, kept) /\ KeyAt(i) \in emitted
  BY FinishedPack
<1>2. KeyAt(i) \in Keys
  BY <1>1 DEF KeptTo
<1>3. /\ groups[KeyAt(i)].survivor \in {j \in Positions : KeyAt(j) = KeyAt(i)}
      /\ \A j \in {j \in Positions : KeyAt(j) = KeyAt(i)} :
            j = groups[KeyAt(i)].survivor \/ Outranks(groups[KeyAt(i)].survivor, j)
      /\ Newest(KeyAt(i)) = groups[KeyAt(i)].survivor
  BY <1>1, <1>2, GroupOfKey
<1>4. groups[KeyAt(i)].survivor \in Range(kept)
  BY <1>1 DEF KeptTo
<1>. QED BY <1>1, <1>2, <1>3, <1>4 DEF SurvivorOf

LEMMA ReferenceFollows == SupersessionInv => KeptMatchesReference
<1> SUFFICES ASSUME SupersessionInv, loop = "done"
             PROVE  /\ Len(kept) = Rank(Len(input))
                    /\ \A i \in Positions : IsHead(i) => kept[Rank(i)] = Shown(i)
  BY DEF KeptMatchesReference
<1>1. KeptTo(Len(input), emitted, kept)
  BY FinishedPack
<1>2. ASSUME NEW i \in Positions, IsHead(i) PROVE kept[Rank(i)] = Shown(i)
  <2>1. kept[Rank(i)] = IF KeyAt(i) = NoKey THEN i ELSE SurvivorOf(i)
    BY <1>1, <1>2 DEF KeptTo, Positions
  <2>2. CASE KeyAt(i) = NoKey
    BY <2>1, <2>2 DEF Shown
  <2>3. CASE KeyAt(i) # NoKey
    <3>1. SurvivorOf(i) = Newest(KeyAt(i))
      BY <2>3, FinishedGroups
    <3>. QED BY <2>1, <2>3, <3>1 DEF Shown
  <2>. QED BY <2>2, <2>3
<1>. QED BY <1>1, <1>2 DEF KeptTo

LEMMA OnceFollows == SupersessionInv => EachCandidateOnce
<1> SUFFICES ASSUME SupersessionInv, loop = "done" PROVE EachCandidateOnce
  BY DEF EachCandidateOnce
<1> DEFINE hidden == [n \in DOMAIN superseded |-> superseded[n].hidden]
           shown == kept \o hidden
<1>1. /\ KeptTo(Len(input), emitted, kept) /\ HiddenTo(emitted, superseded)
      /\ Len(kept) + Len(superseded) = Len(input)
      /\ \A i \in Positions : KeyAt(i) = NoKey \/ KeyAt(i) \in emitted
  BY FinishedPack
<1>2. kept \in Seq(Positions) /\ superseded \in Seq(Hiding)
  BY <1>1 DEF KeptTo, HiddenTo
<1>3. /\ Len(superseded) \in Nat /\ DOMAIN superseded = 1..Len(superseded)
      /\ \A n \in 1..Len(superseded) : superseded[n] \in Hiding
  BY <1>2, LenProperties, ElementOfSeq
<1>4. hidden \in [1..Len(superseded) -> Positions]
  BY <1>3 DEF Hiding
<1>5. hidden \in Seq(Positions) /\ Len(hidden) = Len(superseded)
  <2>1. hidden \in Seq(Positions)
    BY <1>3, <1>4, SeqDef
  <2>2. DOMAIN hidden = 1..Len(superseded)
    BY <1>3
  <2> HIDE DEF hidden
  <2>. QED BY <1>3, <2>1, <2>2, LenProperties
<1>6. Range(hidden) = {s.hidden : s \in Range(superseded)}
  BY DEF Range
<1> HIDE DEF hidden
<1>7. Len(shown) = Len(input) /\ Range(shown) = Range(kept) \cup Range(hidden)
  <2>1. Len(shown) = Len(kept) + Len(hidden) /\ Range(shown) = Range(kept) \cup Range(hidden)
    BY <1>2, <1>5, RangeOfConcat
  <2>. QED BY <1>1, <1>5, <2>1
<1>8. Range(kept) \subseteq Positions /\ Range(hidden) \subseteq Positions
  <2>1. DOMAIN kept = 1..Len(kept) /\ \A n \in 1..Len(kept) : kept[n] \in Positions
    BY <1>2, LenProperties, ElementOfSeq
  <2>. QED BY <1>4, <2>1 DEF Range
<1>9. \A i \in Positions : i \in Range(kept) \/ i \in Range(hidden)
  <2>1. SUFFICES ASSUME NEW i \in Positions PROVE i \in Range(kept) \/ i \in Range(hidden)
    OBVIOUS
  <2>2. CASE KeyAt(i) = NoKey
    BY <1>1, <2>2 DEF KeptTo, UnversionedTo, Positions
  <2>3. CASE KeyAt(i) # NoKey /\ i = SurvivorOf(i)
    BY <2>3, FinishedGroups
  <2>4. CASE KeyAt(i) # NoKey /\ i # SurvivorOf(i)
    BY <1>1, <1>6, <2>4 DEF HiddenTo, CollapsedOf
  <2>. QED BY <2>2, <2>3, <2>4
<1>10. ASSUME NEW s \in Range(superseded)
       PROVE  /\ s.survivor \in Range(kept)
              /\ KeyAt(s.survivor) = KeyAt(s.hidden)
              /\ Outranks(s.survivor, s.hidden)
  <2>1. s.survivor = SurvivorOf(s.hidden)
    BY <1>1 DEF HiddenTo
  <2>2. s.hidden \in CollapsedOf(emitted) /\ s.hidden # SurvivorOf(s.hidden)
    BY <1>1 DEF HiddenTo
  <2>3. s.hidden \in Positions /\ KeyAt(s.hidden) # NoKey
    BY <1>1, <2>2, NoneAssumption DEF CollapsedOf, KeptTo
  <2>. QED BY <2>1, <2>2, <2>3, FinishedGroups
<1>11. Range(shown) = Positions
  BY <1>7, <1>8, <1>9
<1>. QED BY <1>7, <1>10, <1>11 DEF EachCandidateOnce, hidden

(* Hits of one key are of one role.                                        *)
LEMMA OneRolePerKey ==
    ASSUME NEW c, NEW d, c.form \in {"hit", "demoted", "summary"},
           d.form \in {"hit", "demoted", "summary"},
           VersionKey(c) = VersionKey(d), VersionKey(c) # NoKey
    PROVE  FrameRole(c) = FrameRole(d)
<1>1. VersionKey(c) = <<c.form, c.fact>> /\ c.form # "hit"
  BY DEF VersionKey
<1>2. VersionKey(d) = <<d.form, d.fact>> /\ d.form # "hit"
  BY DEF VersionKey
<1>3. <<c.form, c.fact>> = <<d.form, d.fact>>
  BY <1>1, <1>2
<1>4. c.form = d.form
  BY <1>3
<1>. QED BY <1>4 DEF FrameRole

LEMMA RolesFollow == SupersessionInv => RolesSupersedeAlone
<1> SUFFICES ASSUME SupersessionInv, loop = "done",
                    \A i \in Positions : input[i].form \in {"hit", "demoted", "summary"},
                    NEW role \in {"raw", "demoted", "summary"}
             PROVE  LET part == PartitionByRole(role)
                    IN  Range(kept) \cap part =
                          {i \in part : \A j \in part \ {i} :
                              KeyAt(i) # NoKey /\ KeyAt(j) = KeyAt(i) => Outranks(i, j)}
  BY DEF RolesSupersedeAlone
<1>1. /\ KeptTo(Len(input), emitted, kept) /\ LoopOK
      /\ \A i \in Positions : KeyAt(i) = NoKey \/ KeyAt(i) \in emitted
  BY FinishedPack
<1>2. /\ Range(kept) = UnversionedTo(Len(input)) \cup {groups[k].survivor : k \in emitted}
      /\ emitted = {k \in Keys : \E j \in 1..Len(input) : KeyAt(j) = k}
  BY <1>1 DEF KeptTo
<1> DEFINE part == PartitionByRole(role)
<1>3. part \subseteq Positions
  BY DEF PartitionByRole
<1>4. ASSUME NEW i \in Range(kept) \cap part, NEW j \in part \ {i},
             KeyAt(i) # NoKey, KeyAt(j) = KeyAt(i)
      PROVE  Outranks(i, j)
  <2>1. PICK k \in emitted : i = groups[k].survivor
    BY <1>2, <1>4 DEF UnversionedTo
  <2>2. PICK h \in Positions : KeyAt(h) = k /\ k \in Keys
    BY <1>2, <2>1 DEF Positions
  <2>3. KeyAt(h) # NoKey /\ i = SurvivorOf(h)
    BY <2>1, <2>2, NoneAssumption DEF SurvivorOf
  <2>4. KeyAt(i) = KeyAt(h)
    BY <2>2, <2>3, FinishedGroups
  <2>. QED BY <1>3, <1>4, <2>2, <2>3, <2>4, FinishedGroups
<1>5. ASSUME NEW i \in part,
             \A j \in part \ {i} : KeyAt(i) # NoKey /\ KeyAt(j) = KeyAt(i) => Outranks(i, j)
      PROVE  i \in Range(kept)
  <2>1. CASE KeyAt(i) = NoKey
    BY <1>2, <1>3, <2>1 DEF UnversionedTo, Positions
  <2>2. CASE KeyAt(i) # NoKey
    <3>1. PICK v \in Positions : v = SurvivorOf(i) /\ KeyAt(v) = KeyAt(i) /\ v \in Range(kept)
      BY <1>3, <2>2, FinishedGroups
    <3>2. i = v \/ Outranks(v, i)
      BY <1>3, <2>2, <3>1, FinishedGroups
    <3>3. v \in part
      <4>1. FrameRole(input[v]) = FrameRole(input[i])
        BY <1>3, <2>2, <3>1, OneRolePerKey DEF KeyAt
      <4>. QED BY <4>1 DEF PartitionByRole
    <3>4. CASE i # v
      <4>1. Outranks(i, v) /\ Outranks(v, i)
        BY <1>5, <2>2, <3>1, <3>2, <3>3, <3>4
      <4>. QED BY <1>1, <1>3, <4>1, OutranksOrder
    <3>. QED BY <3>1, <3>4
  <2>. QED BY <2>1, <2>2
<1>. QED BY <1>4, <1>5

------------------------------------------------------------------------------
LEMMA Invariance == Spec => []SupersessionInv
BY InvInit, InvNext, PTL DEF Spec

(* Every position the loops of from_candidates hold is one of the input,   *)
(* so that the get calls of the second loop find a group and a candidate.  *)
THEOREM TypeCorrect == Spec => []TypeOK
<1>1. SupersessionInv => TypeOK
  BY DEF SupersessionInv
<1>. QED BY <1>1, Invariance, PTL

(* Between any two candidates of either loop, the groups list what was     *)
(* scanned, and the pack holds the unversioned candidates and the whole    *)
(* groups that the second loop is past, each in its place.                 *)
THEOREM PackGrowsByGroups == Spec => []SupersessionInv
BY Invariance

(* For every list of candidates the finished pack keeps what the reference *)
(* says, in its order: the documentation's survivors of highest recency,   *)
(* ties to the lowest index, each where its key first occurs.              *)
THEOREM PackIsTheReference == Spec => []KeptMatchesReference
BY Invariance, ReferenceFollows, PTL

(* No candidate of a list is lost by from_candidates or shown twice, and   *)
(* what hides one is kept, has its key and outranks it.                    *)
THEOREM NothingLost == Spec => []EachCandidateOnce
BY Invariance, OnceFollows, PTL

(* Of a list of hits the pack keeps what the packs of the parts that       *)
(* partition_search_hits_by_role returns keep.                             *)
THEOREM RolesAreApart == Spec => []RolesSupersedeAlone
BY Invariance, RolesFollow, PTL
==============================================================================
