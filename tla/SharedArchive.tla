---------------------------- MODULE SharedArchive ----------------------------
(***************************************************************************)
(* One process with a demotion hook and a storing compactor on clones of   *)
(* one MemvidStore, the composition the two are made for: messages that    *)
(* leave the context are archived by the one and summarised by the other.  *)
(* They share the archive and nothing else: each has its own DedupSet and  *)
(* its own snapshot of it, and what one of them appended is flushed by the *)
(* commits of the other.  A restart is one for both.                       *)
(*                                                                         *)
(* Texts are the messages, SummaryTexts what the artifacts render to; the  *)
(* two differ, as an artifact's rendering carries its own header.  Panics  *)
(* are left to the runs of each hook.                                      *)
(***************************************************************************)
EXTENDS Archive

CONSTANTS
    Conversations, Blank, NoText, CommitEachTurn, Sidecar, Graceful, MaxRestarts,
    Demoter, Texts, Messages, TextOf, Batches, NoCall,
    Compactor, SummaryTexts, Requests, ConversationOf, Summaries, None

ASSUME SeparateAssumption == Texts \cap SummaryTexts = {} /\ "panic" \notin Faults
ASSUME BlankAssumption ==
    Blank # NoText /\ {Blank, NoText} \cap (Texts \cup SummaryTexts) = {}
ASSUME BatchAssumption ==
    /\ TextOf \in [Messages -> Texts \cup {Blank, NoText}]
    /\ \A b \in Batches : b \in Seq(Messages) /\ b # <<>>
ASSUME RequestAssumption ==
    /\ ConversationOf \in [Requests -> Conversations]
    /\ Summaries \in [Requests -> SUBSET (SummaryTexts \cup {Blank, NoText})]
    /\ None \notin Requests \cup SummaryTexts \cup {Blank, NoText}

VARIABLES
    restarts,
    keys, pc, sidecar, call, next, evicted,                  \* of the demotion hook
    ckeys, cpc, csidecar, request, summary, replaced,        \* of the compactor
    unflushed     \* the summaries whose own commit failed

demotion  == <<keys, pc, sidecar, call, next, evicted>>
compactor == <<ckeys, cpc, csidecar, request, summary, replaced>>
vars      == <<archive, restarts, demotion, compactor, unflushed>>

D == INSTANCE Demotion WITH Tasks <- {Demoter}, dedup <- keys

C == INSTANCE StoringCompactor WITH
        Tasks <- {Compactor}, Texts <- SummaryTexts,
        dedup <- ckeys, pc <- cpc, sidecar <- csidecar

ASSUME NoCallAssumption == NoCall \notin D!Calls

Init == D!Init /\ C!Init /\ unflushed = {}

------------------------------------------------------------------------------
OnDemote == D!OnDemote(Demoter) /\ UNCHANGED <<compactor, unflushed>>

Compact ==
    /\ C!Compact(Compactor)
    /\ unflushed' = IF cpc[Compactor] = "written" /\ cpc'[Compactor] = "failed"
                    THEN unflushed \cup {C!Frame(Compactor)} ELSE unflushed
    /\ UNCHANGED demotion

DemotionSnapshot  == D!SaveSidecar /\ UNCHANGED <<call, next, evicted, compactor, unflushed>>
CompactorSnapshot == C!SaveSidecar /\ UNCHANGED <<request, summary, replaced, demotion, unflushed>>

Restart ==
    /\ D!Restart
    /\ C!Restart
    /\ UNCHANGED <<call, next, evicted, request, summary, replaced, unflushed>>

Next == OnDemote \/ Compact \/ DemotionSnapshot \/ CompactorSnapshot \/ Restart

Spec == Init /\ [][Next]_vars

FairSpec == Spec /\ D!Fairness /\ C!Fairness

------------------------------------------------------------------------------
ArchiveOK ==
    /\ log \in Seq(D!Frames \cup C!Frames)
    /\ durable \in 0..Len(log)
    /\ poisoned = {}

DemoterOK ==
    /\ keys \subseteq D!Frames /\ sidecar \subseteq D!Frames /\ evicted \subseteq D!Frames
    /\ pc \in [{Demoter} -> D!Active \cup {"idle"}]
    /\ call \in [{Demoter} -> D!Calls \cup {NoCall}]
    /\ next \in [{Demoter} -> Nat]
    /\ D!CallOK(Demoter)

CompactorOK ==
    /\ ckeys \subseteq C!Frames /\ csidecar \subseteq C!Frames
    /\ replaced \subseteq C!Frames /\ unflushed \subseteq C!Frames
    /\ cpc \in [{Compactor} -> C!WriteSteps \cup {"idle", "inner", "failed"}]
    /\ request \in [{Compactor} -> Requests \cup {None}]
    /\ summary \in [{Compactor} -> SummaryTexts \cup {Blank, NoText, None}]
    /\ cpc[Compactor] = "idle" <=> request[Compactor] = None
    /\ cpc[Compactor] \in C!WriteSteps => summary[Compactor] \in SummaryTexts \cup {Blank}
    /\ cpc[Compactor] \in {"write_text", "insert", "written"} => summary[Compactor] \in SummaryTexts

(* The state is well-formed: the archive holds messages and summaries, the *)
(* keys of a hook are frames of its own, and the call of each is inside    *)
(* its batch or its write (on_demote, compact).                            *)
TypeOK == ArchiveOK /\ DemoterOK /\ CompactorOK

(* "Produces exactly one frame per message" (demotion.rs), "repeated calls *)
(* land exactly one frame" (compactor.rs): with one call of each at a time *)
(* and snapshots taken while nothing waits for a commit, nothing is        *)
(* archived twice, whatever fails and however often the process restarts.  *)
OneFrameEach == D!OneFrameEach

(* The two hooks together implement the promise of DurableMemory, exactly  *)
(* once, for the messages the caller evicts: no step of the compactor, and *)
(* no commit it makes or fails to make, takes anything back.               *)
OnceOnly ==
    INSTANCE DurableMemory WITH
        stored <- SubSeq(log, 1, durable), released <- evicted, ExactlyOnce <- TRUE

OnceOnlySpec == OnceOnly!Spec

(* "The archive is committed after each summary is written" (compactor.rs): *)
(* a summary that replaced messages is on disk, also over restarts, unless *)
(* the commit of that summary failed once: the retry then skips it.        *)
ReplacedUnlessCommitFailed == \A f \in replaced : Durable(f) \/ f \in unflushed

(* What a hook has in the archive is in its dedup set, except between its  *)
(* put and the insertion of the key; what is past the test is not.         *)
Keyed(frames, known, at, f) ==
    /\ \A i \in 1..Len(log) :
          log[i] \in frames => log[i] \in known \/ (at = "insert" /\ log[i] = f)
    /\ at = "write_text" => f \notin known

UniqueInv ==
    /\ OneFrameEach
    /\ Keyed(D!Frames, keys, pc[Demoter], D!Current(Demoter))
    /\ Keyed(C!Frames, ckeys, cpc[Compactor], C!Frame(Compactor))

(* Keys stand for written frames, those of a snapshot for durable ones; so *)
(* what a call is past is written, and what was evicted is durable.        *)
DemoterInv ==
    /\ \A f \in keys : Written(f)
    /\ \A f \in sidecar \cup evicted : Durable(f)
    /\ D!ProcessedOK(Demoter)

CompactorInv ==
    /\ \A f \in ckeys : Written(f)
    /\ \A f \in csidecar : Durable(f)
    /\ cpc[Compactor] \in {"insert", "written"} => Written(C!Frame(Compactor))
    /\ cpc[Compactor] = "skipped" /\ C!Frame(Compactor) \in C!Frames =>
          C!Frame(Compactor) \in ckeys
    /\ \A f \in ckeys :
          \/ Durable(f) \/ f \in unflushed
          \/ cpc[Compactor] = "written" /\ f = C!Frame(Compactor)
    /\ ReplacedUnlessCommitFailed

(* The inductive invariant of the composition.                             *)
SharedInv == TypeOK /\ UniqueInv /\ DemoterInv /\ CompactorInv

(* Neither hook keeps the caller of the other waiting.                     *)
EveryBatchIsEvicted    == D!EveryBatchIsEvicted
EveryRequestIsAnswered == C!EveryRequestIsAnswered
==============================================================================
