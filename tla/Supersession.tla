----------------------------- MODULE Supersession ----------------------------
(***************************************************************************)
(* MemoryContextPack::from_candidates (projection.rs): of the candidates   *)
(* recalled for one prompt, those that describe one fact collapse to the   *)
(* newest.  A first loop over the candidates builds the groups, a second   *)
(* one emits them; idx is the position of the running loop.                *)
(*                                                                         *)
(* A candidate is one recalled item, by the projection it came through:    *)
(*   "hit"       a search hit without an envelope                          *)
(*   "demoted", "summary"  a hit whose frame a hook of this crate wrote    *)
(*   "card"      a MemoryCard                                              *)
(*   "doc"       a CardDoc                                                 *)
(*   "item"      a ContextItem with a version key and no recency           *)
(* fact is the dedup key of its frame or its entity and slot, frame the    *)
(* frame it is from, time the effective timestamp of a card.  Frame ids    *)
(* are below 2^63, so the clamp in recency has nothing to do.              *)
(***************************************************************************)
EXTENDS Integers, Sequences, SequencesExt

CONSTANTS
    Facts,
    Inputs,      \* the candidate lists, in the order of the ranker
    NoKey,
    NoRecency,
    Vacant       \* a version key without a group

Forms == {"hit", "demoted", "summary", "card", "doc", "item"}

Candidates == [form : Forms, fact : Facts, frame : Nat, time : Int]

(* A frame never supersedes a summary or a summary a frame; cards and card *)
(* documents of one entity and slot share their key.                       *)
Keys == {"demoted", "summary", "card"} \X Facts

ASSUME InputAssumption == Inputs \subseteq Seq(Candidates)
ASSUME NoneAssumption == NoKey \notin Keys /\ NoRecency \notin Int

(* Mutant of VersionKey: the role is no part of the key.                   *)
VersionKeyWithoutRole(c) ==
    CASE c.form = "hit"                     -> NoKey
      [] c.form \in {"demoted", "summary"}  -> <<"summary", c.fact>>
      [] c.form \in {"card", "doc", "item"} -> <<"card", c.fact>>

VersionKey(c) ==
    CASE c.form = "hit"                     -> NoKey
      [] c.form \in {"demoted", "summary"}  -> <<c.form, c.fact>>
      [] c.form \in {"card", "doc", "item"} -> <<"card", c.fact>>

(* frame_role: the kind in the envelope of a hit's frame, raw for a frame  *)
(* that has none or one that does not decode.                              *)
FrameRole(c) == IF c.form = "hit" THEN "raw" ELSE c.form

Recency(c) ==
    CASE c.form = "card" -> c.time
      [] c.form = "item" -> NoRecency
      [] OTHER           -> c.frame

(* Of two members of a group, b replaces a as its survivor.                *)
Replaces(b, a) ==
    /\ b # NoRecency
    /\ a = NoRecency \/ b > a

Groups == [first : Nat, survivor : Nat, recency : Int \cup {NoRecency}, members : Seq(Nat)]

ASSUME VacantAssumption == Vacant \notin Groups

VARIABLES
    input,
    loop,         \* "group", "emit" or "done"
    idx,
    groups,
    emitted,      \* the keys whose survivor is in kept
    kept,         \* positions of the surviving candidates
    superseded    \* the hidden candidates, each with its survivor

vars == <<input, loop, idx, groups, emitted, kept, superseded>>

KeyAt(i)     == VersionKey(input[i])
RecencyAt(i) == Recency(input[i])

Init ==
    /\ input \in Inputs
    /\ loop = "group"
    /\ idx = 1
    /\ groups = [k \in Keys |-> Vacant]
    /\ emitted = {}
    /\ kept = <<>>
    /\ superseded = <<>>

------------------------------------------------------------------------------
(* The first loop.                                                         *)

Advance == idx <= Len(input) /\ idx' = idx + 1

(* Mutant of Grouped: a member as new as the survivor replaces it.         *)
GroupedReplacingTies(g) ==
    IF RecencyAt(idx) # NoRecency /\ (g.recency = NoRecency \/ RecencyAt(idx) >= g.recency)
    THEN [g EXCEPT !.members = Append(@, idx), !.survivor = idx, !.recency = RecencyAt(idx)]
    ELSE [g EXCEPT !.members = Append(@, idx)]

(* Mutant of Grouped: the recency of the new survivor is not stored.       *)
GroupedKeepingRecency(g) ==
    IF Replaces(RecencyAt(idx), g.recency)
    THEN [g EXCEPT !.members = Append(@, idx), !.survivor = idx]
    ELSE [g EXCEPT !.members = Append(@, idx)]

(* The group g with the current candidate as a further member.             *)
Grouped(g) ==
    IF Replaces(RecencyAt(idx), g.recency)
    THEN [g EXCEPT !.members = Append(@, idx), !.survivor = idx, !.recency = RecencyAt(idx)]
    ELSE [g EXCEPT !.members = Append(@, idx)]

(* Mutant of NewGroup: the position counted from zero.                     *)
NewGroupFromZero == [first |-> idx - 1, survivor |-> idx, recency |-> RecencyAt(idx), members |-> <<idx>>]

NewGroup == [first |-> idx, survivor |-> idx, recency |-> RecencyAt(idx), members |-> <<idx>>]

GroupCandidate ==
    /\ loop = "group"
    /\ Advance
    /\ \/ KeyAt(idx) = NoKey /\ UNCHANGED groups
       \/ /\ KeyAt(idx) # NoKey
          /\ groups' = [groups EXCEPT ![KeyAt(idx)] = IF @ = Vacant THEN NewGroup ELSE Grouped(@)]
    /\ UNCHANGED <<input, loop, emitted, kept, superseded>>

StartEmitting ==
    /\ loop = "group"
    /\ idx > Len(input)
    /\ loop' = "emit"
    /\ idx' = 1
    /\ UNCHANGED <<input, groups, emitted, kept, superseded>>

------------------------------------------------------------------------------
(* The second loop.                                                        *)

(* The loop over the members of a group, up to the n-th, that passes over  *)
(* the member e.                                                           *)
MembersBut(e, g) ==
    LET others[n \in 0..Len(g.members)] ==
            IF n = 0 THEN <<>>
            ELSE IF g.members[n] = e THEN others[n - 1]
            ELSE Append(others[n - 1], [hidden |-> g.members[n], survivor |-> g.survivor])
    IN  others

(* Mutant of Hidden: the group's first member is taken for its survivor.   *)
HiddenAfterFirst(g) == MembersBut(g.first, g)[Len(g.members)]

Hidden(g) == MembersBut(g.survivor, g)[Len(g.members)]

KeepUnversioned ==
    /\ KeyAt(idx) = NoKey
    /\ kept' = Append(kept, idx)
    /\ UNCHANGED <<emitted, superseded>>

(* Mutant of AtHead: the survivor is emitted at its own position.          *)
AtHeadOfSurvivor == groups[KeyAt(idx)].survivor = idx

(* The survivor of a group is emitted where its first member stood.        *)
AtHead == groups[KeyAt(idx)].first = idx

KeepSurvivor ==
    /\ KeyAt(idx) \in Keys \ emitted
    /\ AtHead
    /\ emitted' = emitted \cup {KeyAt(idx)}
    /\ kept' = Append(kept, groups[KeyAt(idx)].survivor)
    /\ superseded' = superseded \o Hidden(groups[KeyAt(idx)])

SkipMember ==
    /\ KeyAt(idx) \in Keys
    /\ KeyAt(idx) \in emitted \/ ~AtHead
    /\ UNCHANGED <<emitted, kept, superseded>>

EmitCandidate ==
    /\ loop = "emit"
    /\ Advance
    /\ KeepUnversioned \/ KeepSurvivor \/ SkipMember
    /\ UNCHANGED <<input, loop, groups>>

Finish ==
    /\ loop = "emit"
    /\ idx > Len(input)
    /\ loop' = "done"
    /\ UNCHANGED <<input, idx, groups, emitted, kept, superseded>>

Next == GroupCandidate \/ StartEmitting \/ EmitCandidate \/ Finish

Spec == Init /\ [][Next]_vars

------------------------------------------------------------------------------
Positions == 1..Len(input)

Hiding == [hidden : Positions, survivor : Positions]

GroupOK(g) ==
    /\ g \in Groups
    /\ g.first \in Positions /\ g.survivor \in Positions
    /\ g.members \in Seq(Positions)

LoopOK ==
    /\ input \in Inputs
    /\ loop \in {"group", "emit", "done"}
    /\ idx \in 1..(Len(input) + 1)

GroupsOK ==
    /\ DOMAIN groups = Keys
    /\ \A k \in Keys : groups[k] # Vacant => GroupOK(groups[k])

PackOK ==
    /\ emitted \subseteq Keys
    /\ kept \in Seq(Positions)
    /\ superseded \in Seq(Hiding)

(* Every position in a group or in the pack is one of the input: the get   *)
(* calls of the second loop (lines 506, 513, 522) always find something.   *)
TypeOK == LoopOK /\ GroupsOK /\ PackOK

(* The positions the first loop is past.                                   *)
Scanned == IF loop = "group" THEN 1..(idx - 1) ELSE Positions

(* i survives j: it is newer, or as new and ranked higher.                 *)
Outranks(i, j) ==
    \/ Replaces(RecencyAt(i), RecencyAt(j))
    \/ ~Replaces(RecencyAt(j), RecencyAt(i)) /\ i < j

GroupOfScanned(k, g) ==
    /\ g.first \in Scanned /\ KeyAt(g.first) = k
    /\ \A i \in Scanned : KeyAt(i) = k => g.first <= i
    /\ g.survivor \in Scanned /\ KeyAt(g.survivor) = k
    /\ g.recency = RecencyAt(g.survivor)
    /\ \A i \in Scanned : KeyAt(i) = k => i = g.survivor \/ Outranks(g.survivor, i)

(* The invariant of the first loop (lines 458-491): after every candidate, *)
(* each group knows its first member and the newest of the members seen,   *)
(* the earliest of them when several are as new, and no candidate seen is  *)
(* without its group.                                                      *)
SurvivorIsNewest ==
    \A k \in Keys :
        \/ groups[k] = Vacant /\ \A i \in Scanned : KeyAt(i) # k
        \/ groups[k] # Vacant /\ GroupOfScanned(k, groups[k])

(* The reference: the candidates without a key and, where a key occurs     *)
(* first, the newest of its candidates.                                    *)
Newest(k) ==
    LET members == {i \in Positions : KeyAt(i) = k}
        dated   == {i \in members : RecencyAt(i) # NoRecency}
    IN  IF dated = {} THEN Min(members)
        ELSE Min({i \in dated : \A j \in dated : RecencyAt(j) <= RecencyAt(i)})

IsHead(i) == KeyAt(i) = NoKey \/ \A j \in 1..(i - 1) : KeyAt(j) # KeyAt(i)

Shown(i) == IF KeyAt(i) = NoKey THEN i ELSE Newest(KeyAt(i))

(* How many places of the pack the candidates up to i take.                *)
Rank(i) == Cardinality({j \in 1..i : IsHead(j)})

(* The pack keeps what the documentation of from_candidates (lines 437-443)*)
(* promises, in that order: survivors of highest recency, ties to the      *)
(* lowest input index, first-occurrence positions.                         *)
KeptMatchesReference ==
    loop = "done" =>
        /\ Len(kept) = Rank(Len(input))
        /\ \A i \in Positions : IsHead(i) => kept[Rank(i)] = Shown(i)

(* partition_search_hits_by_role: the positions of the hits of one role.   *)
PartitionByRole(role) == {i \in Positions : FrameRole(input[i]) = role}

(* "So callers can re-rank or budget each role independently before        *)
(* re-merging" (lines 831-834): of a list of search hits the pack keeps    *)
(* what the packs of the three parts keep, so that partitioning first and  *)
(* superseding then shows the same hits as superseding the whole list.     *)
RolesSupersedeAlone ==
    /\ loop = "done"
    /\ \A i \in Positions : input[i].form \in {"hit", "demoted", "summary"}
    => \A role \in {"raw", "demoted", "summary"} :
          LET part == PartitionByRole(role)
          IN  Range(kept) \cap part =
                {i \in part : \A j \in part \ {i} :
                    KeyAt(i) # NoKey /\ KeyAt(j) = KeyAt(i) => Outranks(i, j)}

(* No candidate is lost or shown twice: each is either kept or listed once *)
(* as superseded, by a kept candidate of the same key that outranks it     *)
(* (lines 503-532).                                                        *)
EachCandidateOnce ==
    loop = "done" =>
        LET shown == kept \o [n \in DOMAIN superseded |-> superseded[n].hidden]
        IN  /\ Len(shown) = Len(input)
            /\ Range(shown) = Positions
            /\ \A s \in Range(superseded) :
                /\ s.survivor \in Range(kept)
                /\ KeyAt(s.survivor) = KeyAt(s.hidden)
                /\ Outranks(s.survivor, s.hidden)

(* A group lists each of its members that was scanned once.                *)
MembersListed ==
    \A k \in Keys : groups[k] # Vacant =>
        /\ Range(groups[k].members) = {i \in Scanned : KeyAt(i) = k}
        /\ IsInjective(groups[k].members)

(* The candidates the second loop is past, and what it has put for them in *)
(* the pack: those without a key, and whole groups.                        *)
SurvivorOf(i) == groups[KeyAt(i)].survivor

Unversioned == {i \in 1..(idx - 1) : KeyAt(i) = NoKey}

Collapsed == {i \in Positions : KeyAt(i) \in emitted}

KeptInv ==
    /\ emitted = {k \in Keys : \E j \in 1..(idx - 1) : KeyAt(j) = k}
    /\ Len(kept) = Rank(idx - 1)
    /\ \A i \in 1..(idx - 1) : IsHead(i) =>
          /\ Rank(i) \in 1..Len(kept)
          /\ kept[Rank(i)] = IF KeyAt(i) = NoKey THEN i ELSE SurvivorOf(i)
    /\ Range(kept) = Unversioned \cup {groups[k].survivor : k \in emitted}

SupersededInv ==
    /\ {s.hidden : s \in Range(superseded)} = {i \in Collapsed : i # SurvivorOf(i)}
    /\ \A s \in Range(superseded) : s.survivor = SurvivorOf(s.hidden)
    /\ Len(kept) + Len(superseded) = Cardinality(Unversioned \cup Collapsed)

PackInv ==
    IF loop = "group" THEN emitted = {} /\ kept = <<>> /\ superseded = <<>>
    ELSE /\ KeptInv
         /\ SupersededInv
         /\ loop = "done" => idx = Len(input) + 1

(* The inductive invariant of both loops.                                  *)
SupersessionInv == TypeOK /\ SurvivorIsNewest /\ MembersListed /\ PackInv
==============================================================================
