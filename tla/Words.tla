-------------------------------- MODULE Words --------------------------------
(***************************************************************************)
(* Texts as the heuristics of this crate take them apart: into words.      *)
(* LowerOf gives the lower-case form of the words that have another.       *)
(***************************************************************************)
EXTENDS Integers, SequencesExt

CONSTANT LowerOf

Lower(word) == IF word \in DOMAIN LowerOf THEN LowerOf[word] ELSE word

ASSUME LowerAssumption == \A word \in DOMAIN LowerOf : Lower(LowerOf[word]) = LowerOf[word]

LowerAll(words) == [i \in DOMAIN words |-> Lower(words[i])]

(* contains_word: the needle occurs between word boundaries.               *)
ContainsWord(haystack, needle) ==
    /\ needle # <<>>
    /\ \E i \in 1..Len(haystack) - Len(needle) + 1 :
          SubSeq(haystack, i, i + Len(needle) - 1) = needle

(* The items of a sequence that are in a set, in their order.              *)
Chosen(items, set) ==
    LET chosen[n \in 0..Len(items)] ==
            IF n = 0 THEN <<>>
            ELSE IF items[n] \in set THEN Append(chosen[n - 1], items[n])
            ELSE chosen[n - 1]
    IN  chosen[Len(items)]
==============================================================================
