--------------------------- MODULE MCSupersession ----------------------------
(***************************************************************************)
(* Supersession for TLC: every list of up to MaxLen of nine candidates.    *)
(* The fact f has cards whose time and frame disagree, a document as new   *)
(* as one of them and an item without recency; its two summaries share a   *)
(* key that the demoted frame of f has not.                                *)
(***************************************************************************)
EXTENDS Supersession

CONSTANTS F, G, MaxLen

Candidate(form, fact, frame, time) ==
    [form |-> form, fact |-> fact, frame |-> frame, time |-> time]

MCCandidates ==
    { Candidate("hit", F, 1, 0),
      Candidate("summary", F, 1, 0), Candidate("summary", F, 2, 0),
      Candidate("demoted", F, 3, 0),
      Candidate("card", F, 1, 3), Candidate("card", F, 2, 1), Candidate("card", G, 1, 2),
      Candidate("doc", F, 3, 0),
      Candidate("item", F, 0, 0) }

MCInputs == UNION {[1..n -> MCCandidates] : n \in 0..MaxLen}
==============================================================================
