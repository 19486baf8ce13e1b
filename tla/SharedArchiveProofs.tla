------------------------- MODULE SharedArchiveProofs -------------------------
(***************************************************************************)
(* Theorems about a demotion hook and a storing compactor on one archive,  *)
(* for all conversations, batches, requests and summaries, every fault but *)
(* a panic, and any number of restarts.                                    *)
(*                                                                         *)
(* The two halves of the invariant are about one hook each and meet in the *)
(* archive only: what the other hook does to it is ExtendedBy.             *)
(***************************************************************************)
EXTENDS SharedArchive, ProofLemmas

USE DEF archive, D!archive, D!Goto, D!host, D!caller, C!archive, C!Goto, C!host, C!caller

Current == D!Current(Demoter)
Summary == C!Frame(Compactor)

(* One step of one hook: its frame is appended or nothing is, and more of  *)
(* the file is flushed or no more.                                         *)
ExtendedBy(frames) ==
    /\ log' = log \/ \E f \in frames : log' = Append(log, f)
    /\ durable' \in durable..Len(log')
    /\ poisoned' = {}

------------------------------------------------------------------------------
(* Frames and the archive.                                                 *)

LEMMA SeparateFrames == D!Frames \cap C!Frames = {}
BY SeparateAssumption DEF D!Frames, C!Frames

LEMMA SameArchive ==
    /\ \A e : D!Written(e) <=> Written(e)
    /\ \A e : D!Durable(e) <=> Durable(e)
BY DEF D!Written, Written, D!Durable, Durable

LEMMA ExtendedKeeps ==
    ASSUME ArchiveOK, NEW frames, frames \subseteq D!Frames \cup C!Frames, ExtendedBy(frames)
    PROVE  /\ ArchiveOK'
           /\ Len(log) \in Nat /\ Len(log') \in Nat
           /\ \A i \in 1..Len(log) : i \in 1..Len(log') /\ log'[i] = log[i]
           /\ \A i \in 1..Len(log') : i \in 1..Len(log) \/ log'[i] \in frames
           /\ \A e : Written(e) => Written(e)'
           /\ \A e : Durable(e) => Durable(e)'
<1>1. log \in Seq(D!Frames \cup C!Frames) /\ Len(log) \in Nat /\ durable \in 0..Len(log)
  BY LenProperties DEF ArchiveOK
<1>2. /\ log' \in Seq(D!Frames \cup C!Frames) /\ Len(log') \in Nat
      /\ Len(log') >= Len(log)
      /\ \A i \in 1..Len(log) : log'[i] = log[i]
      /\ \A i \in 1..Len(log') : i \in 1..Len(log) \/ log'[i] \in frames
  <2>1. CASE log' = log
    BY <1>1, <2>1
  <2>2. CASE \E f \in frames : log' = Append(log, f)
    <3>1. PICK f \in frames : log' = Append(log, f)
      BY <2>2
    <3>2. f \in D!Frames \cup C!Frames
      OBVIOUS
    <3>3. /\ log' \in Seq(D!Frames \cup C!Frames) /\ Len(log') = Len(log) + 1
          /\ \A i \in 1..Len(log) : log'[i] = log[i]
          /\ log'[Len(log) + 1] = f
      BY <1>1, <3>1, <3>2, AppendProperties
    <3>4. QED BY <1>1, <3>3
  <2>3. QED BY <2>1, <2>2 DEF ExtendedBy
<1>3. ArchiveOK'
  BY <1>1, <1>2 DEF ExtendedBy, ArchiveOK
<1>4. \A e : Written(e) => Written(e)'
  BY <1>1, <1>2 DEF Written
<1>5. \A e : Durable(e) => Durable(e)'
  BY <1>1, <1>2 DEF ExtendedBy, Durable
<1>6. QED BY <1>1, <1>2, <1>3, <1>4, <1>5

------------------------------------------------------------------------------
(* What a step of one hook leaves of the half about the other.             *)

LEMMA DemoterRelies ==
    ASSUME ArchiveOK, DemoterOK, ExtendedBy(C!Frames), UNCHANGED demotion
    PROVE  /\ DemoterOK'
           /\ Current' = Current
           /\ DemoterInv => DemoterInv'
           /\ Keyed(D!Frames, keys, pc[Demoter], Current)
                => Keyed(D!Frames, keys, pc[Demoter], Current)'
<1>1. /\ \A i \in 1..Len(log) : log'[i] = log[i]
      /\ \A i \in 1..Len(log') : i \in 1..Len(log) \/ log'[i] \in C!Frames
      /\ \A e : Written(e) => Written(e)'
      /\ \A e : Durable(e) => Durable(e)'
  BY ExtendedKeeps
<1>2. DemoterOK'
  BY DEF DemoterOK, demotion, D!CallOK, D!Current, D!FrameAt
<1>3. \A i : D!FrameAt(Demoter, i)' = D!FrameAt(Demoter, i)
  BY DEF demotion, D!FrameAt
<1>4. Current' = Current /\ D!Current(Demoter)' = D!Current(Demoter)
  BY DEF demotion, Current, D!Current, D!FrameAt
<1>5. Keyed(D!Frames, keys, pc[Demoter], Current) => Keyed(D!Frames, keys, pc[Demoter], Current)'
  BY <1>1, <1>4, SeparateFrames DEF Keyed, demotion
<1>6. D!ProcessedOK(Demoter) => D!ProcessedOK(Demoter)'
  <2>1. \A e : D!Written(e) => D!Written(e)'
    BY <1>1 DEF D!Written, Written
  <2>2. QED BY <1>3, <1>4, <2>1 DEF D!ProcessedOK, demotion
<1>7. QED BY <1>1, <1>2, <1>4, <1>5, <1>6 DEF DemoterInv, demotion

LEMMA CompactorRelies ==
    ASSUME ArchiveOK, CompactorOK, ExtendedBy(D!Frames), UNCHANGED <<compactor, unflushed>>
    PROVE  /\ CompactorOK'
           /\ Summary' = Summary
           /\ CompactorInv => CompactorInv'
           /\ Keyed(C!Frames, ckeys, cpc[Compactor], Summary)
                => Keyed(C!Frames, ckeys, cpc[Compactor], Summary)'
<1>1. /\ \A i \in 1..Len(log) : log'[i] = log[i]
      /\ \A i \in 1..Len(log') : i \in 1..Len(log) \/ log'[i] \in D!Frames
      /\ \A e : Written(e) => Written(e)'
      /\ \A e : Durable(e) => Durable(e)'
  BY ExtendedKeeps
<1>2. CompactorOK'
  BY DEF CompactorOK, compactor
<1>3. Summary' = Summary /\ C!Frame(Compactor)' = C!Frame(Compactor)
  BY DEF compactor, C!Frame, Summary
<1>4. Keyed(C!Frames, ckeys, cpc[Compactor], Summary)
         => Keyed(C!Frames, ckeys, cpc[Compactor], Summary)'
  BY <1>1, <1>3, SeparateFrames DEF Keyed, compactor
<1>5. ReplacedUnlessCommitFailed => ReplacedUnlessCommitFailed'
  BY <1>1 DEF ReplacedUnlessCommitFailed, compactor
<1>6. QED BY <1>1, <1>2, <1>3, <1>4, <1>5 DEF CompactorInv, compactor

------------------------------------------------------------------------------
(* write_frame.  What one step of it may do, for either hook: it moves the *)
(* call from at to to, appends the frame f or nothing, and inserts its key *)
(* after the put or not at all.                                            *)
Wrote(frames, f, at, to, known, known2) ==
    /\ at \in {"contains", "write_text", "insert"}
    /\ to \in {"write_text", "insert", "written", "skipped", "failed"}
    /\ to \in {"write_text", "insert", "written"} => f \in frames
    /\ to = "write_text" => f \notin known
    /\ to = "insert" => at = "write_text" /\ log' = Append(log, f)
    /\ to # "insert" => log' = log
    /\ to = "written" => at = "insert" /\ known2 = known \cup {f}
    /\ to # "written" => known2 = known /\ at # "insert"
    /\ to = "skipped" => f.text = Blank \/ f \in known
    /\ durable' = durable
    /\ poisoned' = {}

(* Any other step of a hook: nothing is appended, no key is inserted, and  *)
(* the call is not inside write_frame when it is over.                     *)
Quiet(at, to, known, known2) ==
    /\ at \notin {"write_text", "insert"}
    /\ to \notin {"write_text", "insert", "written", "skipped"}
    /\ log' = log
    /\ durable' \in durable..Len(log)
    /\ poisoned' = {}
    /\ known2 = known

LEMMA StepExtends ==
    ASSUME ArchiveOK, NEW frames, NEW f, NEW at, NEW to, NEW known, NEW known2,
           Wrote(frames, f, at, to, known, known2) \/ Quiet(at, to, known, known2)
    PROVE  ExtendedBy(frames)
<1>1. log \in Seq(D!Frames \cup C!Frames) /\ Len(log) \in Nat /\ durable \in 0..Len(log)
  BY LenProperties DEF ArchiveOK
<1>2. CASE Wrote(frames, f, at, to, known, known2)
  <2>1. CASE to = "insert"
    <3>1. f \in frames /\ log' = Append(log, f)
      BY <1>2, <2>1 DEF Wrote
    <3>2. Len(log') = Len(log) + 1
      BY <1>1, <3>1
    <3>3. QED BY <1>1, <1>2, <3>1, <3>2 DEF Wrote, ExtendedBy
  <2>2. CASE to # "insert"
    BY <1>1, <1>2, <2>2 DEF Wrote, ExtendedBy
  <2>3. QED BY <2>1, <2>2
<1>3. CASE Quiet(at, to, known, known2)
  BY <1>1, <1>3 DEF Quiet, ExtendedBy
<1>4. QED BY <1>2, <1>3

(* The heart of the matter: a frame is appended only when no key of its    *)
(* hook stands for it, hence when this hook has not appended it, and the   *)
(* other hook has no such frame.                                           *)
LEMMA StepKeepsUnique ==
    ASSUME ArchiveOK, NEW frames, NEW f, NEW at, NEW to, NEW known, NEW known2,
           OneFrameEach, Keyed(frames, known, at, f),
           Wrote(frames, f, at, to, known, known2) \/ Quiet(at, to, known, known2)
    PROVE  /\ OneFrameEach'
           /\ \A i \in 1..Len(log') :
                 log'[i] \in frames => log'[i] \in known2 \/ (to = "insert" /\ log'[i] = f)
           /\ to = "write_text" => f \notin known2
<1>1. log \in Seq(D!Frames \cup C!Frames) /\ Len(log) \in Nat
  BY LenProperties DEF ArchiveOK
<1>2. CASE to = "insert" /\ Wrote(frames, f, at, to, known, known2)
  <2>1. /\ f \in frames /\ log' = Append(log, f) /\ known2 = known
        /\ f \notin known /\ at # "insert"
    BY <1>2 DEF Wrote, Keyed
  <2>2. /\ Len(log') = Len(log) + 1
        /\ \A i \in 1..Len(log) : log'[i] = log[i]
        /\ log'[Len(log) + 1] = f
    BY <1>1, <2>1
  <2>3. \A i \in 1..Len(log) : log[i] # f
    BY <2>1 DEF Keyed
  <2>4. \A i \in 1..Len(log') : i \in 1..Len(log) \/ i = Len(log) + 1
    BY <1>1, <2>2
  <2>5. OneFrameEach'
    BY <2>2, <2>3, <2>4 DEF OneFrameEach, D!OneFrameEach
  <2>6. QED BY <1>2, <2>1, <2>2, <2>4, <2>5 DEF Keyed
<1>3. CASE to # "insert" /\ Wrote(frames, f, at, to, known, known2)
  <2>1. log' = log /\ (at = "insert" => f \in known2) /\ known \subseteq known2
        /\ (to = "write_text" => f \notin known2)
    BY <1>3 DEF Wrote
  <2>2. QED BY <2>1 DEF Keyed, OneFrameEach, D!OneFrameEach
<1>4. CASE Quiet(at, to, known, known2)
  BY <1>4 DEF Quiet, Keyed, OneFrameEach, D!OneFrameEach
<1>5. QED
  BY <1>2, <1>3, <1>4 DEF Quiet

------------------------------------------------------------------------------
(* The steps of the demotion hook.                                         *)

LEMMA BatchOfCall ==
    ASSUME DemoterOK, pc[Demoter] # "idle"
    PROVE  /\ call[Demoter] \in D!Calls
           /\ call[Demoter].messages \in Seq(Messages)
           /\ Len(call[Demoter].messages) \in Nat
           /\ next[Demoter] \in 1..Len(call[Demoter].messages) + 1
           /\ \A i \in 1..Len(call[Demoter].messages) :
                 /\ D!FrameAt(Demoter, i).text \in Texts \cup {Blank, NoText}
                 /\ D!FrameAt(Demoter, i) \in D!Frames
                      <=> D!FrameAt(Demoter, i).text \in Texts
<1>1. call[Demoter] \in D!Calls /\ next[Demoter] \in 1..Len(call[Demoter].messages) + 1
  BY DEF DemoterOK, D!CallOK
<1>2. call[Demoter].conversation \in Conversations /\ call[Demoter].messages \in Batches
  BY <1>1 DEF D!Calls
<1>3. call[Demoter].messages \in Seq(Messages) /\ Len(call[Demoter].messages) \in Nat
  BY <1>2, BatchAssumption
<1>4. ASSUME NEW i \in 1..Len(call[Demoter].messages)
      PROVE  /\ D!FrameAt(Demoter, i).text \in Texts \cup {Blank, NoText}
             /\ D!FrameAt(Demoter, i) \in D!Frames <=> D!FrameAt(Demoter, i).text \in Texts
  <2>1. call[Demoter].messages[i] \in Messages
    BY <1>3
  <2>2. TextOf[call[Demoter].messages[i]] \in Texts \cup {Blank, NoText}
    BY <2>1, BatchAssumption
  <2>3. QED BY <1>2, <2>2 DEF D!FrameAt, D!Frames
<1>5. QED BY <1>1, <1>3, <1>4

LEMMA DemoterWrites ==
    ASSUME ArchiveOK, DemoterOK, D!WriteMessage(Demoter)
    PROVE  /\ Wrote(D!Frames, Current, pc[Demoter], pc'[Demoter], keys, keys')
           /\ Current.text \in Texts \cup {Blank}
           /\ Current \in D!Frames <=> Current.text \in Texts
           /\ \E label : pc' = [pc EXCEPT ![Demoter] = label]
           /\ UNCHANGED <<call, next, evicted, sidecar>>
<1>1. pc[Demoter] \in {"contains", "write_text", "insert"} /\ pc \in [{Demoter} -> D!Active \cup {"idle"}]
  BY DEF D!WriteMessage, D!WriteFrame, D!SkipFrame, D!PassDedup, D!WriteText, D!InsertKey,
         D!DedupFails, D!DedupPanics, DemoterOK
<1>2. /\ Current.text \in Texts \cup {Blank}
      /\ Current \in D!Frames <=> Current.text \in Texts
      /\ pc[Demoter] \in {"write_text", "insert"} => Current.text \in Texts
  BY <1>1, BatchOfCall DEF DemoterOK, D!CallOK, D!InWrite, Current, D!Current
<1>3. UNCHANGED <<call, next, evicted, sidecar>> /\ poisoned = {} /\ "panic" \notin Faults
  BY SeparateAssumption DEF D!WriteMessage, D!WriteFrame, ArchiveOK
<1>4. CASE D!SkipFrame(Demoter, Current)
  BY <1>1, <1>2, <1>3, <1>4 DEF D!SkipFrame, Wrote
<1>5. CASE D!PassDedup(Demoter, Current)
  BY <1>1, <1>2, <1>3, <1>5 DEF D!PassDedup, Wrote
<1>6. CASE D!WriteText(Demoter, Current)
  BY <1>1, <1>2, <1>3, <1>6 DEF D!WriteText, D!PutSucceeds, D!PutFails, D!PutPanics, Wrote
<1>7. CASE D!InsertKey(Demoter, Current)
  BY <1>1, <1>2, <1>3, <1>7 DEF D!InsertKey, Wrote
<1>8. ~D!DedupFails(Demoter, Current) /\ ~D!DedupPanics(Demoter, Current)
  BY <1>3 DEF D!DedupFails, D!DedupPanics
<1>9. QED
  BY <1>2, <1>3, <1>4, <1>5, <1>6, <1>7, <1>8 DEF D!WriteMessage, D!WriteFrame, Current,
     D!SkipFrame, D!PassDedup, D!WriteText, D!InsertKey

LEMMA DemoterIsQuiet ==
    ASSUME ArchiveOK, DemoterOK, OnDemote, ~D!WriteMessage(Demoter)
    PROVE  Quiet(pc[Demoter], pc'[Demoter], keys, keys') /\ UNCHANGED sidecar
<1>1. /\ log \in Seq(D!Frames \cup C!Frames) /\ Len(log) \in Nat /\ durable \in 0..Len(log)
      /\ poisoned = {} /\ "panic" \notin Faults
      /\ pc \in [{Demoter} -> D!Active \cup {"idle"}]
  BY SeparateAssumption, LenProperties DEF ArchiveOK, DemoterOK
<1>2. CASE D!StartDemote(Demoter)
  BY <1>1, <1>2 DEF D!StartDemote, Quiet
<1>3. CASE D!NextMessage(Demoter)
  BY <1>1, <1>3 DEF D!NextMessage, Quiet
<1>4. CASE D!MessageDone(Demoter)
  BY <1>1, <1>4 DEF D!MessageDone, Quiet
<1>5. CASE D!FinishDemote(Demoter)
  <2>1. log' = log /\ durable' \in durable..Len(log) /\ poisoned' = {}
    BY <1>1, <1>5 DEF D!FinishDemote, D!CommitIfEachTurnSucceeds, D!CommitIfEachTurnFails,
                      D!CommitSucceeds, D!CommitFails, D!CommitPanics
  <2>2. QED BY <1>1, <1>5, <2>1 DEF D!FinishDemote, Quiet
<1>6. CASE D!PresentAgain(Demoter)
  BY <1>1, <1>6 DEF D!PresentAgain, Quiet
<1>7. QED BY <1>2, <1>3, <1>4, <1>5, <1>6 DEF OnDemote, D!OnDemote

LEMMA OnDemoteType ==
    ASSUME ArchiveOK, DemoterOK, OnDemote
    PROVE  DemoterOK'
<1>1. /\ keys \subseteq D!Frames /\ sidecar \subseteq D!Frames /\ evicted \subseteq D!Frames
      /\ pc \in [{Demoter} -> D!Active \cup {"idle"}]
      /\ call \in [{Demoter} -> D!Calls \cup {NoCall}]
      /\ next \in [{Demoter} -> Nat]
      /\ D!CallOK(Demoter)
  BY DEF DemoterOK
<1>2. CASE D!StartDemote(Demoter)
  <2>1. PICK c \in Conversations, b \in Batches :
            call' = [call EXCEPT ![Demoter] = [conversation |-> c, messages |-> b]]
    BY <1>2 DEF D!StartDemote
  <2>2. /\ call'[Demoter] \in D!Calls
        /\ call'[Demoter].messages = b /\ b \in Seq(Messages)
        /\ next'[Demoter] = 1
        /\ pc'[Demoter] = "loop"
    BY <1>1, <1>2, <2>1, BatchAssumption DEF D!StartDemote, D!Calls
  <2>3. D!CallOK(Demoter)'
    BY <2>2, NoCallAssumption DEF D!CallOK, D!InWrite
  <2>4. QED
    BY <1>1, <1>2, <2>1, <2>2, <2>3 DEF D!StartDemote, D!Active, DemoterOK
<1>3. CASE D!NextMessage(Demoter)
  <2>1. /\ pc[Demoter] = "loop" /\ next[Demoter] \in 1..Len(call[Demoter].messages) + 1
        /\ Len(call[Demoter].messages) \in Nat
        /\ call' = call /\ call[Demoter] # NoCall
    BY <1>1, <1>3, BatchOfCall DEF D!NextMessage, D!CallOK
  <2>2. D!CallOK(Demoter)'
    <3>1. CASE next[Demoter] > Len(call[Demoter].messages) /\ D!Goto(Demoter, "commit") /\ UNCHANGED next
      BY <1>1, <2>1, <3>1 DEF D!CallOK, D!InWrite
    <3>2. CASE /\ next[Demoter] <= Len(call[Demoter].messages)
               /\ next' = [next EXCEPT ![Demoter] = @ + 1]
               /\ UNCHANGED pc
      BY <1>1, <2>1, <3>2 DEF D!CallOK, D!InWrite
    <3>3. CASE /\ next[Demoter] <= Len(call[Demoter].messages)
               /\ D!Current(Demoter).text # NoText
               /\ D!Goto(Demoter, "contains")
               /\ UNCHANGED next
      <4>1. D!Current(Demoter)' = D!Current(Demoter)
        BY <2>1, <3>3 DEF D!Current, D!FrameAt
      <4>2. QED BY <1>1, <2>1, <3>3, <4>1 DEF D!CallOK, D!InWrite
    <3>4. QED BY <1>3, <3>1, <3>2, <3>3 DEF D!NextMessage
  <2>3. QED
    BY <1>1, <1>3, <2>1, <2>2 DEF D!NextMessage, D!Active, DemoterOK
<1>4. CASE D!WriteMessage(Demoter)
  <2>1. /\ Wrote(D!Frames, Current, pc[Demoter], pc'[Demoter], keys, keys')
        /\ Current.text \in Texts \cup {Blank}
        /\ Current \in D!Frames <=> Current.text \in Texts
        /\ \E label : pc' = [pc EXCEPT ![Demoter] = label]
        /\ UNCHANGED <<call, next, evicted, sidecar>>
    BY <1>4, DemoterWrites
  <2>2. /\ pc[Demoter] \in {"contains", "write_text", "insert"}
        /\ pc'[Demoter] \in {"write_text", "insert", "written", "skipped", "failed"}
        /\ pc'[Demoter] \in {"write_text", "insert", "written"} => Current \in D!Frames
        /\ keys' \subseteq D!Frames
    BY <1>1, <2>1 DEF Wrote
  <2>3. D!Current(Demoter)' = D!Current(Demoter) /\ Current = D!Current(Demoter)
    BY <2>1 DEF D!Current, D!FrameAt, Current
  <2>4. D!CallOK(Demoter)'
    BY <1>1, <2>1, <2>2, <2>3, BlankAssumption DEF D!CallOK, D!InWrite
  <2>5. pc' \in [{Demoter} -> D!Active \cup {"idle"}]
    BY <1>1, <2>1, <2>2 DEF D!Active
  <2>6. QED BY <1>1, <2>1, <2>2, <2>4, <2>5 DEF DemoterOK
<1>5. CASE D!MessageDone(Demoter)
  <2>1. next[Demoter] \in 1..Len(call[Demoter].messages) /\ Len(call[Demoter].messages) \in Nat
    BY <1>1, <1>5, BatchOfCall DEF D!MessageDone, D!CallOK, D!InWrite
  <2>2. D!CallOK(Demoter)'
    BY <1>1, <1>5, <2>1 DEF D!MessageDone, D!CallOK, D!InWrite
  <2>3. QED
    BY <1>1, <1>5, <2>1, <2>2 DEF D!MessageDone, D!Active, DemoterOK
<1>6. CASE D!FinishDemote(Demoter)
  <2>1. CASE pc' = [pc EXCEPT ![Demoter] = "failed"] /\ UNCHANGED <<call, next, evicted>>
    <3>1. D!CallOK(Demoter)'
      BY <1>1, <1>6, <2>1 DEF D!FinishDemote, D!CallOK, D!InWrite
    <3>2. QED BY <1>1, <1>6, <2>1, <3>1 DEF D!FinishDemote, D!Active, DemoterOK
  <2>2. CASE /\ evicted' = evicted \cup D!Archivable(Demoter)
             /\ call' = [call EXCEPT ![Demoter] = NoCall]
             /\ next' = [next EXCEPT ![Demoter] = 0]
             /\ pc' = [pc EXCEPT ![Demoter] = "idle"]
    <3>1. D!CallOK(Demoter)'
      BY <1>1, <2>2 DEF D!CallOK, D!InWrite
    <3>2. QED BY <1>1, <1>6, <2>2, <3>1 DEF D!FinishDemote, D!Active, D!Archivable, DemoterOK
  <2>3. QED BY <1>6, <2>1, <2>2 DEF D!FinishDemote
<1>7. CASE D!PresentAgain(Demoter)
  <2>1. call[Demoter] # NoCall /\ Len(call[Demoter].messages) \in Nat
    BY <1>1, <1>7, BatchOfCall DEF D!PresentAgain, D!CallOK
  <2>2. D!CallOK(Demoter)'
    BY <1>1, <1>7, <2>1 DEF D!PresentAgain, D!CallOK, D!InWrite
  <2>3. QED
    BY <1>1, <1>7, <2>2 DEF D!PresentAgain, D!Active, DemoterOK
<1>8. QED
  BY <1>2, <1>3, <1>4, <1>5, <1>6, <1>7 DEF OnDemote, D!OnDemote

(* When on_demote returns Ok, the commit it made has flushed every frame   *)
(* of the batch; the other steps only add to what is written and durable.  *)
LEMMA OnDemoteInv ==
    ASSUME CommitEachTurn, ArchiveOK, DemoterOK, DemoterInv, OnDemote
    PROVE  DemoterInv'
<1>1. /\ Wrote(D!Frames, Current, pc[Demoter], pc'[Demoter], keys, keys')
            \/ Quiet(pc[Demoter], pc'[Demoter], keys, keys')
      /\ sidecar' = sidecar
  BY DemoterWrites, DemoterIsQuiet
<1>2. ExtendedBy(D!Frames)
  BY <1>1, StepExtends
<1>3. (\A e : Written(e) => Written(e)') /\ (\A e : Durable(e) => Durable(e)')
  BY <1>2, ExtendedKeeps
<1>4. Current = D!Current(Demoter) /\ \A e : D!Written(e) <=> Written(e)
  BY SameArchive DEF Current
<1>5. D!ProcessedOK(Demoter)'
  <2>1. CASE D!StartDemote(Demoter)
    BY <2>1 DEF D!StartDemote, DemoterOK, D!ProcessedOK
  <2>2. CASE D!NextMessage(Demoter)
    <3>1. /\ pc[Demoter] = "loop" /\ call' = call /\ log' = log
          /\ next[Demoter] \in Nat /\ next'[Demoter] \in {next[Demoter], next[Demoter] + 1}
          /\ pc'[Demoter] \in {"loop", "commit", "contains"}
          /\ next'[Demoter] = next[Demoter] + 1 => D!Current(Demoter).text = NoText
      BY <2>2 DEF D!NextMessage, DemoterOK
    <3>2. D!Current(Demoter).text = NoText => D!Current(Demoter) \notin D!Frames
      BY BlankAssumption DEF D!Frames
    <3>3. \A i \in 1..next'[Demoter] - 1 :
             D!FrameAt(Demoter, i) \in D!Frames => D!Written(D!FrameAt(Demoter, i))
      BY <3>1, <3>2 DEF DemoterInv, D!ProcessedOK, D!Active, D!Current
    <3>4. \A i : /\ D!FrameAt(Demoter, i)' = D!FrameAt(Demoter, i)
                 /\ D!Written(D!FrameAt(Demoter, i))' <=> D!Written(D!FrameAt(Demoter, i))
      BY <3>1 DEF D!FrameAt, D!Written
    <3>5. QED BY <3>1, <3>3, <3>4 DEF D!ProcessedOK
  <2>3. CASE D!WriteMessage(Demoter)
    <3>1. /\ Wrote(D!Frames, Current, pc[Demoter], pc'[Demoter], keys, keys')
          /\ UNCHANGED <<call, next>>
      BY <2>3, DemoterWrites
    <3>2. /\ D!Current(Demoter)' = D!Current(Demoter)
          /\ \A i : D!FrameAt(Demoter, i)' = D!FrameAt(Demoter, i)
          /\ next[Demoter] \in Nat
      BY <3>1 DEF D!Current, D!FrameAt, DemoterOK
    <3>3. ASSUME pc'[Demoter] \in {"insert", "written", "skipped"}, Current \in D!Frames
          PROVE  Written(Current)'
      <4>1. CASE pc'[Demoter] = "insert"
        <5>1. log' = Append(log, Current)
          BY <3>1, <4>1 DEF Wrote
        <5>2. Len(log') = Len(log) + 1 /\ log'[Len(log) + 1] = Current /\ Len(log) \in Nat
          BY <3>3, <5>1, AppendProperties DEF ArchiveOK
        <5>3. QED BY <1>4, <3>2, <5>2 DEF Written, Current
      <4>2. CASE pc'[Demoter] = "written"
        <5>1. pc[Demoter] = "insert"
          BY <3>1, <4>2 DEF Wrote
        <5>2. Written(Current)
          BY <1>4, <3>3, <5>1 DEF DemoterInv, D!ProcessedOK
        <5>3. QED BY <1>3, <1>4, <3>2, <5>2 DEF Current
      <4>3. CASE pc'[Demoter] = "skipped"
        <5>1. Current \in keys
          BY <3>1, <3>3, <4>3, BlankAssumption DEF Wrote, D!Frames
        <5>2. QED BY <1>3, <1>4, <3>2, <5>1 DEF DemoterInv, Current
      <4>4. QED BY <3>3, <4>1, <4>2, <4>3
    <3>4. \A i \in 1..next[Demoter] - 1 :
             D!FrameAt(Demoter, i) \in D!Frames => Written(D!FrameAt(Demoter, i))
      BY <1>4, <3>1 DEF DemoterInv, D!ProcessedOK, Wrote, D!Active
    <3>5. (\A e : D!Written(e)' <=> Written(e)')
      BY DEF D!Written, Written
    <3>6. /\ \A i \in 1..next[Demoter] - 1 :
                D!FrameAt(Demoter, i)' \in D!Frames => D!Written(D!FrameAt(Demoter, i))'
          /\ pc'[Demoter] \in {"insert", "written", "skipped"} /\ D!Current(Demoter)' \in D!Frames
                => D!Written(D!Current(Demoter))'
      BY <1>3, <1>4, <3>2, <3>3, <3>4, <3>5 DEF D!Written, Written, Current
    <3>7. QED BY <3>1, <3>2, <3>6 DEF D!ProcessedOK
  <2>4. CASE D!MessageDone(Demoter)
    <3>1. /\ pc[Demoter] \in {"written", "skipped"} /\ call' = call /\ log' = log
          /\ next[Demoter] \in Nat /\ next'[Demoter] = next[Demoter] + 1
          /\ pc'[Demoter] = "loop"
      BY <2>4 DEF D!MessageDone, DemoterOK
    <3>2. \A i \in 1..next'[Demoter] - 1 :
             D!FrameAt(Demoter, i) \in D!Frames => D!Written(D!FrameAt(Demoter, i))
      BY <3>1 DEF DemoterInv, D!ProcessedOK, D!Active, D!Current
    <3>3. \A i : /\ D!FrameAt(Demoter, i)' = D!FrameAt(Demoter, i)
                 /\ D!Written(D!FrameAt(Demoter, i))' <=> D!Written(D!FrameAt(Demoter, i))
      BY <3>1 DEF D!FrameAt, D!Written
    <3>4. QED BY <3>1, <3>2, <3>3 DEF D!ProcessedOK
  <2>5. CASE D!FinishDemote(Demoter)
    BY <2>5 DEF D!FinishDemote, DemoterOK, D!ProcessedOK, D!Active
  <2>6. CASE D!PresentAgain(Demoter)
    BY <2>6 DEF D!PresentAgain, DemoterOK, D!ProcessedOK
  <2>7. QED BY <2>1, <2>2, <2>3, <2>4, <2>5, <2>6 DEF OnDemote, D!OnDemote
<1>6. \A f \in keys' : Written(f)'
  <2>1. keys' = keys \/ (pc[Demoter] = "insert" /\ Current \in D!Frames /\ keys' = keys \cup {Current})
    BY <1>1 DEF Wrote, Quiet
  <2>2. pc[Demoter] = "insert" /\ Current \in D!Frames => Written(Current)
    BY <1>4 DEF DemoterInv, D!ProcessedOK
  <2>3. QED BY <1>3, <2>1, <2>2 DEF DemoterInv
<1>7. \A f \in evicted' : Durable(f)'
  <2>1. CASE evicted' = evicted
    BY <1>3, <2>1 DEF DemoterInv
  <2>2. CASE evicted' # evicted
    <3>1. D!FinishDemote(Demoter)
      BY <2>2, DemoterWrites
         DEF OnDemote, D!OnDemote, D!StartDemote, D!NextMessage, D!MessageDone, D!PresentAgain
    <3>2. /\ pc[Demoter] = "commit" /\ D!CommitSucceeds
          /\ evicted' = evicted \cup D!Archivable(Demoter)
      BY <2>2, <3>1 DEF D!FinishDemote, D!CommitIfEachTurnSucceeds
    <3>3. next[Demoter] = Len(call[Demoter].messages) + 1 /\ Len(call[Demoter].messages) \in Nat
      BY <3>2, BatchOfCall DEF DemoterOK, D!CallOK
    <3>4. \A f \in D!Archivable(Demoter) : Written(f)
      BY <1>4, <3>2, <3>3 DEF D!Archivable, DemoterInv, D!ProcessedOK, D!Active
    <3>5. \A f \in D!Archivable(Demoter) : Durable(f)'
      BY <3>2, <3>4 DEF D!CommitSucceeds, Written, Durable
    <3>6. QED BY <1>3, <3>2, <3>5 DEF DemoterInv
  <2>3. QED BY <2>1, <2>2
<1>8. \A f \in sidecar' : Durable(f)'
  BY <1>1, <1>3 DEF DemoterInv
<1>9. QED BY <1>5, <1>6, <1>7, <1>8 DEF DemoterInv

------------------------------------------------------------------------------
(* The steps of the compactor.                                             *)

LEMMA SummaryOfCall ==
    ASSUME CompactorOK, cpc[Compactor] \in C!WriteSteps
    PROVE  /\ Summary.text = summary[Compactor]
           /\ summary[Compactor] \in SummaryTexts \cup {Blank}
           /\ Summary \in C!Frames <=> summary[Compactor] \in SummaryTexts
<1>1. request[Compactor] \in Requests
  BY DEF CompactorOK, C!WriteSteps
<1>2. ConversationOf[request[Compactor]] \in Conversations
  BY <1>1, RequestAssumption
<1>3. QED BY <1>2 DEF CompactorOK, Summary, C!Frame, C!Frames

LEMMA CompactorWrites ==
    ASSUME ArchiveOK, CompactorOK, C!WriteSummary(Compactor)
    PROVE  /\ Wrote(C!Frames, Summary, cpc[Compactor], cpc'[Compactor], ckeys, ckeys')
           /\ Summary.text \in SummaryTexts \cup {Blank}
           /\ Summary \in C!Frames <=> summary[Compactor] \in SummaryTexts
           /\ \E label : cpc' = [cpc EXCEPT ![Compactor] = label]
           /\ UNCHANGED <<request, summary, replaced, csidecar>>
<1>1. /\ cpc[Compactor] \in {"contains", "write_text", "insert"}
      /\ cpc \in [{Compactor} -> C!WriteSteps \cup {"idle", "inner", "failed"}]
  BY DEF C!WriteSummary, C!WriteFrame, C!SkipFrame, C!PassDedup, C!WriteText, C!InsertKey,
         C!DedupFails, C!DedupPanics, CompactorOK
<1>2. /\ Summary.text \in SummaryTexts \cup {Blank}
      /\ Summary.text = summary[Compactor]
      /\ Summary \in C!Frames <=> Summary.text \in SummaryTexts
      /\ cpc[Compactor] \in {"write_text", "insert"} => Summary.text \in SummaryTexts
  BY <1>1, SummaryOfCall DEF CompactorOK, C!WriteSteps
<1>3. UNCHANGED <<request, summary, replaced, csidecar>> /\ poisoned = {} /\ "panic" \notin Faults
  BY SeparateAssumption DEF C!WriteSummary, C!WriteFrame, ArchiveOK
<1>4. CASE C!SkipFrame(Compactor, Summary)
  BY <1>1, <1>2, <1>3, <1>4 DEF C!SkipFrame, Wrote
<1>5. CASE C!PassDedup(Compactor, Summary)
  BY <1>1, <1>2, <1>3, <1>5 DEF C!PassDedup, Wrote
<1>6. CASE C!WriteText(Compactor, Summary)
  BY <1>1, <1>2, <1>3, <1>6 DEF C!WriteText, C!PutSucceeds, C!PutFails, C!PutPanics, Wrote
<1>7. CASE C!InsertKey(Compactor, Summary)
  BY <1>1, <1>2, <1>3, <1>7 DEF C!InsertKey, Wrote
<1>8. ~C!DedupFails(Compactor, Summary) /\ ~C!DedupPanics(Compactor, Summary)
  BY <1>3 DEF C!DedupFails, C!DedupPanics
<1>9. QED
  BY <1>2, <1>3, <1>4, <1>5, <1>6, <1>7, <1>8 DEF C!WriteSummary, C!WriteFrame, Summary,
     C!SkipFrame, C!PassDedup, C!WriteText, C!InsertKey

LEMMA CompactorIsQuiet ==
    ASSUME ArchiveOK, CompactorOK, Compact, ~C!WriteSummary(Compactor)
    PROVE  Quiet(cpc[Compactor], cpc'[Compactor], ckeys, ckeys') /\ UNCHANGED csidecar
<1>1. /\ log \in Seq(D!Frames \cup C!Frames) /\ Len(log) \in Nat /\ durable \in 0..Len(log)
      /\ poisoned = {} /\ "panic" \notin Faults
      /\ cpc \in [{Compactor} -> C!WriteSteps \cup {"idle", "inner", "failed"}]
  BY SeparateAssumption, LenProperties DEF ArchiveOK, CompactorOK
<1>2. CASE C!StartCompact(Compactor)
  BY <1>1, <1>2 DEF C!StartCompact, Quiet
<1>3. CASE C!InnerFails(Compactor)
  BY <1>1, <1>3 DEF C!InnerFails, Quiet
<1>4. CASE C!InnerCompacts(Compactor)
  BY <1>1, <1>4 DEF C!InnerCompacts, C!Return, Quiet
<1>5. CASE C!CommitSummary(Compactor)
  <2>1. log' = log /\ durable' \in durable..Len(log) /\ poisoned' = {}
    BY <1>1, <1>5 DEF C!CommitSummary, C!CommitIfEachTurnSucceeds, C!CommitIfEachTurnFails,
                      C!CommitSucceeds, C!CommitFails, C!CommitPanics
  <2>2. QED BY <1>1, <1>5, <2>1 DEF C!CommitSummary, C!Return, Quiet
<1>6. CASE C!CompactAgain(Compactor)
  BY <1>1, <1>6 DEF C!CompactAgain, Quiet
<1>7. QED BY <1>2, <1>3, <1>4, <1>5, <1>6 DEF Compact, C!Compact

LEMMA CompactType ==
    ASSUME ArchiveOK, CompactorOK, Compact
    PROVE  CompactorOK'
<1>1. CASE C!WriteSummary(Compactor)
  <2>1. /\ Wrote(C!Frames, Summary, cpc[Compactor], cpc'[Compactor], ckeys, ckeys')
        /\ Summary \in C!Frames <=> summary[Compactor] \in SummaryTexts
        /\ \E label : cpc' = [cpc EXCEPT ![Compactor] = label]
        /\ UNCHANGED <<request, summary, replaced, csidecar>>
    BY <1>1, CompactorWrites
  <2>2. /\ cpc[Compactor] \in {"contains", "write_text", "insert"}
        /\ cpc'[Compactor] \in {"write_text", "insert", "written", "skipped", "failed"}
        /\ cpc'[Compactor] \in {"write_text", "insert", "written"} => Summary \in C!Frames
        /\ ckeys' \subseteq C!Frames
    BY <2>1 DEF Wrote, CompactorOK
  <2>3. unflushed' = unflushed
    BY <2>2 DEF Compact
  <2>4. cpc' \in [{Compactor} -> C!WriteSteps \cup {"idle", "inner", "failed"}]
    BY <2>1, <2>2 DEF C!WriteSteps, CompactorOK
  <2>5. QED BY <2>1, <2>2, <2>3, <2>4 DEF C!WriteSteps, CompactorOK
<1>2. CASE ~C!WriteSummary(Compactor)
  <2>1. ckeys' = ckeys /\ csidecar' = csidecar
    BY <1>2, CompactorIsQuiet DEF Quiet
  <2>2. cpc[Compactor] = "written" => Summary \in C!Frames
    BY SummaryOfCall DEF CompactorOK, C!WriteSteps
  <2>3. unflushed' \subseteq C!Frames
    BY <2>2 DEF Compact, CompactorOK, Summary
  <2>4. CASE C!StartCompact(Compactor)
    BY <2>1, <2>3, <2>4, RequestAssumption DEF C!StartCompact, CompactorOK, C!WriteSteps
  <2>5. CASE C!InnerFails(Compactor)
    BY <2>1, <2>3, <2>5 DEF C!InnerFails, CompactorOK, C!WriteSteps
  <2>6. CASE C!InnerCompacts(Compactor)
    <3>1. cpc[Compactor] = "inner" /\ request[Compactor] \in Requests
      BY <2>6 DEF C!InnerCompacts, CompactorOK
    <3>2. Summaries[request[Compactor]] \subseteq SummaryTexts \cup {Blank, NoText}
      BY <3>1, RequestAssumption
    <3>3. CASE /\ \E s \in SummaryTexts \cup {Blank} : summary' = [summary EXCEPT ![Compactor] = s]
               /\ C!Goto(Compactor, "contains")
               /\ UNCHANGED <<request, replaced>>
      BY <2>1, <2>3, <3>1, <3>3 DEF CompactorOK, C!WriteSteps
    <3>4. CASE C!Return(Compactor, {})
      BY <2>1, <2>3, <3>1, <3>4 DEF C!Return, CompactorOK, C!WriteSteps
    <3>5. QED BY <2>6, <3>2, <3>3, <3>4 DEF C!InnerCompacts
  <2>7. CASE C!CommitSummary(Compactor)
    <3>1. CASE C!Goto(Compactor, "failed") /\ UNCHANGED <<request, summary, replaced>>
      BY <2>1, <2>3, <2>7, <3>1 DEF C!CommitSummary, CompactorOK, C!WriteSteps
    <3>2. ASSUME NEW f \in SUBSET C!Frames, C!Return(Compactor, f) PROVE CompactorOK'
      BY <2>1, <2>3, <2>7, <3>2 DEF C!Return, CompactorOK, C!WriteSteps
    <3>3. QED BY <2>2, <2>7, <3>1, <3>2 DEF C!CommitSummary, Summary
  <2>8. CASE C!CompactAgain(Compactor)
    BY <2>1, <2>3, <2>8 DEF C!CompactAgain, CompactorOK, C!WriteSteps
  <2>9. QED
    BY <1>2, <2>4, <2>5, <2>6, <2>7, <2>8 DEF Compact, C!Compact
<1>3. QED BY <1>1, <1>2

(* A summary replaces messages after a commit of its own, which flushed    *)
(* it, or on a dedup hit; a key whose frame is not on disk is then one     *)
(* whose commit had failed.                                                *)
LEMMA CompactInv ==
    ASSUME CommitEachTurn, ArchiveOK, CompactorOK, CompactorInv, Compact
    PROVE  CompactorInv'
<1>1. /\ Wrote(C!Frames, Summary, cpc[Compactor], cpc'[Compactor], ckeys, ckeys')
            \/ Quiet(cpc[Compactor], cpc'[Compactor], ckeys, ckeys')
      /\ csidecar' = csidecar
  BY CompactorWrites, CompactorIsQuiet
<1>2. ExtendedBy(C!Frames)
  BY <1>1, StepExtends
<1>3. (\A e : Written(e) => Written(e)') /\ (\A e : Durable(e) => Durable(e)')
  BY <1>2, ExtendedKeeps
<1>4. Summary = C!Frame(Compactor) /\ unflushed \subseteq unflushed'
  BY DEF Summary, Compact
<1>5. CASE C!WriteSummary(Compactor)
  <2>1. /\ Wrote(C!Frames, Summary, cpc[Compactor], cpc'[Compactor], ckeys, ckeys')
        /\ UNCHANGED <<request, summary, replaced, csidecar>>
    BY <1>5, CompactorWrites
  <2>2. C!Frame(Compactor)' = C!Frame(Compactor) /\ cpc[Compactor] # "written"
    BY <2>1 DEF C!Frame, Wrote
  <2>3. cpc'[Compactor] = "insert" => Written(Summary)'
    <3>1. HAVE cpc'[Compactor] = "insert"
    <3>2. log' = Append(log, Summary) /\ Summary \in C!Frames
      BY <2>1, <3>1 DEF Wrote
    <3>3. Len(log') = Len(log) + 1 /\ log'[Len(log) + 1] = Summary /\ Len(log) \in Nat
      BY <3>2, AppendProperties DEF ArchiveOK
    <3>4. QED BY <1>4, <2>2, <3>3 DEF Written, Summary
  <2>4. cpc'[Compactor] = "written" =>
            Written(Summary) /\ Written(Summary)' /\ ckeys' = ckeys \cup {Summary}
    BY <1>3, <1>4, <2>1, <2>2 DEF Wrote, CompactorInv, Summary
  <2>5. cpc'[Compactor] # "written" => ckeys' = ckeys
    BY <2>1 DEF Wrote
  <2>6. \A f \in ckeys' : Written(f)'
    BY <1>3, <2>4, <2>5 DEF CompactorInv
  <2>7. cpc'[Compactor] = "skipped" /\ Summary \in C!Frames => Summary \in ckeys
    BY <2>1, BlankAssumption DEF Wrote, C!Frames
  <2>8. \A f \in ckeys : Durable(f) \/ f \in unflushed
    BY <2>2 DEF CompactorInv
  <2>9. \A f \in ckeys' :
            Durable(f)' \/ f \in unflushed' \/ (cpc'[Compactor] = "written" /\ f = Summary)
    BY <1>3, <1>4, <2>4, <2>5, <2>8
  <2>10. ReplacedUnlessCommitFailed'
    BY <1>3, <1>4, <2>1 DEF CompactorInv, ReplacedUnlessCommitFailed
  <2>11. Summary' = Summary
    BY <2>2 DEF Summary
  <2>12. QED
    BY <1>3, <1>4, <2>1, <2>2, <2>3, <2>4, <2>5, <2>6, <2>7, <2>9, <2>10, <2>11
       DEF CompactorInv, Summary
<1>6. CASE ~C!WriteSummary(Compactor)
  <2>1. /\ Quiet(cpc[Compactor], cpc'[Compactor], ckeys, ckeys')
        /\ ckeys' = ckeys
        /\ cpc'[Compactor] \notin {"insert", "written", "skipped"}
    BY <1>6, CompactorIsQuiet DEF Quiet
  <2>2. CASE C!CommitSummary(Compactor)
    <3>1. CASE cpc[Compactor] = "written" /\ C!CommitSucceeds /\ C!Return(Compactor, {Summary})
      <4>1. \A f : Written(f) => Durable(f)'
        BY <3>1 DEF C!CommitSucceeds, Written, Durable
      <4>2. Written(Summary)
        BY <1>4, <3>1 DEF CompactorInv
      <4>3. replaced' = replaced \cup {Summary}
        BY <3>1 DEF C!Return
      <4>4. \A f \in ckeys : Durable(f)'
        BY <4>1 DEF CompactorInv
      <4>5. QED
        BY <1>1, <1>3, <1>4, <2>1, <4>1, <4>2, <4>3, <4>4
           DEF CompactorInv, ReplacedUnlessCommitFailed
    <3>2. CASE /\ cpc[Compactor] = "written" /\ C!Goto(Compactor, "failed")
               /\ UNCHANGED <<request, summary, replaced>>
      <4>1. cpc'[Compactor] = "failed"
        BY <3>2 DEF CompactorOK
      <4>2. Summary \in unflushed'
        BY <3>2, <4>1 DEF Compact, Summary
      <4>3. \A f \in ckeys : Durable(f) \/ f \in unflushed \/ f = Summary
        BY <1>4 DEF CompactorInv
      <4>4. ReplacedUnlessCommitFailed'
        BY <1>3, <1>4, <3>2 DEF CompactorInv, ReplacedUnlessCommitFailed
      <4>5. QED
        BY <1>1, <1>3, <1>4, <2>1, <4>2, <4>3, <4>4 DEF CompactorInv
    <3>3. CASE /\ cpc[Compactor] = "skipped"
               /\ C!Return(Compactor, {Summary} \cap C!Frames)
      <4>1. Summary \in C!Frames => Durable(Summary) \/ Summary \in unflushed
        BY <1>4, <3>3 DEF CompactorInv
      <4>2. replaced' = replaced \cup ({Summary} \cap C!Frames)
        BY <3>3 DEF C!Return
      <4>3. \A f \in ckeys : Durable(f) \/ f \in unflushed
        BY <3>3 DEF CompactorInv
      <4>4. ReplacedUnlessCommitFailed'
        BY <1>3, <1>4, <4>1, <4>2 DEF CompactorInv, ReplacedUnlessCommitFailed
      <4>5. QED
        BY <1>1, <1>3, <1>4, <2>1, <4>3, <4>4 DEF CompactorInv
    <3>4. QED
      BY <1>4, <2>2, <3>1, <3>2, <3>3 DEF C!CommitSummary, C!CommitIfEachTurnSucceeds
  <2>3. CASE ~C!CommitSummary(Compactor)
    <3>1. replaced' = replaced /\ cpc[Compactor] \notin {"written", "skipped"}
      BY <1>6, <2>3 DEF Compact, C!Compact, C!StartCompact, C!InnerFails, C!InnerCompacts,
                        C!CompactAgain, C!Return
    <3>2. ReplacedUnlessCommitFailed'
      BY <1>3, <1>4, <3>1 DEF CompactorInv, ReplacedUnlessCommitFailed
    <3>3. QED
      BY <1>1, <1>3, <1>4, <2>1, <3>1, <3>2 DEF CompactorInv
  <2>4. QED BY <2>2, <2>3
<1>7. QED BY <1>5, <1>6

------------------------------------------------------------------------------
(* Snapshots and restarts.                                                 *)

LEMMA SnapshotKeeps ==
    ASSUME ArchiveOK, DemoterOK, CompactorOK, DemotionSnapshot \/ CompactorSnapshot
    PROVE  /\ UNCHANGED <<archive, keys, pc, call, next, evicted>>
           /\ UNCHANGED <<ckeys, cpc, request, summary, replaced, unflushed>>
           /\ sidecar' \in {sidecar, keys} /\ csidecar' \in {csidecar, ckeys}
           /\ Sidecar # "always" => durable = Len(log) 
           /\ ArchiveOK' /\ DemoterOK' /\ CompactorOK'
<1>1. CASE DemotionSnapshot
  BY <1>1 DEF DemotionSnapshot, D!SaveSidecar, compactor, ArchiveOK, DemoterOK, CompactorOK,
              D!CallOK, D!Current, D!FrameAt
<1>2. CASE CompactorSnapshot
  BY <1>2 DEF CompactorSnapshot, C!SaveSidecar, demotion, ArchiveOK, DemoterOK, CompactorOK,
              D!CallOK, D!Current, D!FrameAt
<1>3. QED BY <1>1, <1>2

LEMMA SnapshotInv ==
    ASSUME ArchiveOK, DemoterOK, CompactorOK, DemotionSnapshot \/ CompactorSnapshot
    PROVE  /\ UniqueInv => UniqueInv'
           /\ Sidecar # "always" /\ DemoterInv => DemoterInv'
           /\ Sidecar # "always" /\ CompactorInv => CompactorInv'
<1>1. /\ log' = log /\ durable' = durable
      /\ UNCHANGED <<keys, pc, call, next, evicted>>
      /\ UNCHANGED <<ckeys, cpc, request, summary, replaced, unflushed>>
      /\ sidecar' \in {sidecar, keys} /\ csidecar' \in {csidecar, ckeys}
      /\ Sidecar # "always" => durable = Len(log)
  BY SnapshotKeeps
<1>2. /\ D!Current(Demoter)' = D!Current(Demoter)
      /\ C!Frame(Compactor)' = C!Frame(Compactor)
      /\ \A i : D!FrameAt(Demoter, i)' = D!FrameAt(Demoter, i)
  BY <1>1 DEF D!Current, D!FrameAt, C!Frame
<1>3. /\ \A e : Written(e)' <=> Written(e)
      /\ \A e : Durable(e)' <=> Durable(e)
      /\ \A e : D!Written(e)' <=> D!Written(e)
  BY <1>1 DEF Written, Durable, D!Written
<1>4. UniqueInv => UniqueInv'
  BY <1>1, <1>2 DEF UniqueInv, OneFrameEach, D!OneFrameEach, Keyed
<1>5. Sidecar # "always" => \A e : Written(e) => Durable(e)
  BY <1>1 DEF Written, Durable
<1>6. Sidecar # "always" /\ DemoterInv => DemoterInv'
  <2>1. D!ProcessedOK(Demoter) => D!ProcessedOK(Demoter)'
    BY <1>1, <1>2, <1>3 DEF D!ProcessedOK
  <2>2. QED BY <1>1, <1>3, <1>5, <2>1 DEF DemoterInv
<1>7. Sidecar # "always" /\ CompactorInv => CompactorInv'
  BY <1>1, <1>2, <1>3, <1>5 DEF CompactorInv, ReplacedUnlessCommitFailed
<1>8. QED BY <1>4, <1>6, <1>7

(* What is found of the file when it is opened again.                      *)
LEMMA RestartKeeps ==
    ASSUME ArchiveOK, DemoterOK, CompactorOK, Restart
    PROVE  /\ ArchiveOK' /\ DemoterOK' /\ CompactorOK'
           /\ Len(log') \in durable..Len(log)
           /\ durable' = Len(log')
           /\ \A i \in 1..Len(log') : log'[i] = log[i]
           /\ \A e : Durable(e) => Durable(e)' /\ Written(e)'
           /\ pc'[Demoter] \in {"idle", "failed"} /\ cpc'[Compactor] \in {"idle", "failed"}
           /\ keys' = sidecar /\ ckeys' = csidecar
           /\ UNCHANGED <<sidecar, csidecar, evicted, replaced, unflushed>>
<1>1. log \in Seq(D!Frames \cup C!Frames) /\ Len(log) \in Nat /\ durable \in 0..Len(log)
  BY LenProperties DEF ArchiveOK
<1>2. PICK kept \in durable..Len(log) : log' = SubSeq(log, 1, kept) /\ durable' = kept
  BY DEF Restart, D!Restart, D!Reopen
<1>3. /\ log' \in Seq(D!Frames \cup C!Frames) /\ Len(log') = kept
      /\ \A i \in 1..kept : log'[i] = log[i]
  BY <1>1, <1>2
<1>4. /\ keys' = sidecar /\ ckeys' = csidecar /\ poisoned' = {}
      /\ UNCHANGED <<call, next, evicted, request, summary, replaced, unflushed, sidecar, csidecar>>
      /\ pc' = [t \in {Demoter} |-> IF pc[t] = "idle" THEN "idle" ELSE "failed"]
      /\ cpc' = [t \in {Compactor} |-> IF cpc[t] = "idle" THEN "idle" ELSE "failed"]
  BY DEF Restart, D!Restart, D!Reopen, C!Restart
<1>5. ArchiveOK'
  BY <1>1, <1>2, <1>3, <1>4 DEF ArchiveOK
<1>6. DemoterOK'
  BY <1>4 DEF DemoterOK, D!CallOK, D!Active, D!InWrite
<1>7. CompactorOK'
  BY <1>4 DEF CompactorOK, C!WriteSteps
<1>8. \A e : Durable(e) => Durable(e)' /\ Written(e)'
  BY <1>1, <1>2, <1>3 DEF Durable, Written
<1>9. QED BY <1>1, <1>2, <1>3, <1>4, <1>5, <1>6, <1>7, <1>8

LEMMA RestartInv ==
    ASSUME ArchiveOK, DemoterOK, CompactorOK, Restart
    PROVE  /\ Graceful /\ UniqueInv => UniqueInv'
           /\ DemoterInv => DemoterInv'
           /\ CompactorInv => CompactorInv'
<1>1. /\ Len(log') \in durable..Len(log) /\ Len(log) \in Nat /\ durable \in Nat
      /\ \A i \in 1..Len(log') : log'[i] = log[i]
      /\ \A e : Durable(e) => Durable(e)' /\ Written(e)'
      /\ pc'[Demoter] \in {"idle", "failed"} /\ cpc'[Compactor] \in {"idle", "failed"}
      /\ keys' = sidecar /\ ckeys' = csidecar
      /\ UNCHANGED <<sidecar, csidecar, evicted, replaced, unflushed>>
  BY RestartKeeps, LenProperties DEF ArchiveOK
<1>2. ASSUME Graceful, UniqueInv PROVE UniqueInv'
  <2>1. /\ keys = sidecar /\ pc[Demoter] \in {"idle", "failed"}
        /\ ckeys = csidecar /\ cpc[Compactor] \in {"idle", "failed"}
    BY <1>2 DEF Restart, D!Restart, C!Restart
  <2>2. OneFrameEach'
    BY <1>1, <1>2 DEF UniqueInv, OneFrameEach, D!OneFrameEach
  <2>3. \A i \in 1..Len(log') : /\ log'[i] \in D!Frames => log'[i] \in keys'
                                /\ log'[i] \in C!Frames => log'[i] \in ckeys'
    BY <1>1, <1>2, <2>1 DEF UniqueInv, Keyed
  <2>4. QED BY <1>1, <2>2, <2>3 DEF UniqueInv, Keyed
<1>3. DemoterInv => DemoterInv'
  BY <1>1 DEF DemoterInv, D!ProcessedOK, D!Active
<1>4. CompactorInv => CompactorInv'
  BY <1>1 DEF CompactorInv, ReplacedUnlessCommitFailed
<1>5. QED BY <1>2, <1>3, <1>4

------------------------------------------------------------------------------
(* Type correctness.                                                       *)

LEMMA TypeInit == Init => TypeOK
BY EmptySeq DEF Init, D!Init, D!WriterInit, D!ArchiveInit, C!Init, C!WriterInit, TypeOK,
   ArchiveOK, DemoterOK, CompactorOK, D!CallOK, D!InWrite, C!WriteSteps

LEMMA StepType ==
    ASSUME TypeOK, [Next]_vars
    PROVE  TypeOK'
<1>1. ArchiveOK /\ DemoterOK /\ CompactorOK
  BY DEF TypeOK
<1>2. CASE OnDemote
  <2>1. ExtendedBy(D!Frames) /\ UNCHANGED <<compactor, unflushed>>
    BY <1>1, <1>2, DemoterWrites, DemoterIsQuiet, StepExtends DEF OnDemote
  <2>2. QED BY <1>1, <1>2, <2>1, OnDemoteType, CompactorRelies, ExtendedKeeps DEF TypeOK
<1>3. CASE Compact
  <2>1. ExtendedBy(C!Frames) /\ UNCHANGED demotion
    BY <1>1, <1>3, CompactorWrites, CompactorIsQuiet, StepExtends DEF Compact
  <2>2. QED BY <1>1, <1>3, <2>1, CompactType, DemoterRelies, ExtendedKeeps DEF TypeOK
<1>4. CASE DemotionSnapshot \/ CompactorSnapshot
  BY <1>1, <1>4, SnapshotKeeps DEF TypeOK
<1>5. CASE Restart
  BY <1>1, <1>5, RestartKeeps DEF TypeOK
<1>6. CASE UNCHANGED vars
  BY <1>1, <1>6 DEF vars, demotion, compactor, TypeOK, ArchiveOK, DemoterOK, CompactorOK,
                    D!CallOK, D!Current, D!FrameAt
<1>7. QED BY <1>2, <1>3, <1>4, <1>5, <1>6 DEF Next

(* Every reachable state of the two hooks on one archive is well-formed:   *)
(* each has only keys of its own frames, the archive holds only frames of  *)
(* the two, and the call of each is inside its batch or its write.         *)
THEOREM TypeCorrect == Spec => []TypeOK
<1>1. TypeOK /\ [Next]_vars => TypeOK'
  BY StepType
<1>2. QED BY <1>1, TypeInit, PTL DEF Spec

------------------------------------------------------------------------------
(* One frame for each content.                                             *)

LEMMA UniqueStep ==
    ASSUME Graceful, TypeOK, UniqueInv, [Next]_vars
    PROVE  UniqueInv'
<1>1. /\ ArchiveOK /\ DemoterOK /\ CompactorOK /\ OneFrameEach
      /\ Keyed(D!Frames, keys, pc[Demoter], Current)
      /\ Keyed(C!Frames, ckeys, cpc[Compactor], Summary)
  BY DEF TypeOK, UniqueInv, Current, Summary
<1>2. CASE OnDemote
  <2>1. \/ Wrote(D!Frames, Current, pc[Demoter], pc'[Demoter], keys, keys')
        \/ Quiet(pc[Demoter], pc'[Demoter], keys, keys')
    BY <1>1, <1>2, DemoterWrites, DemoterIsQuiet
  <2>2. /\ OneFrameEach'
        /\ \A i \in 1..Len(log') : log'[i] \in D!Frames =>
              log'[i] \in keys' \/ (pc'[Demoter] = "insert" /\ log'[i] = Current)
        /\ pc'[Demoter] = "write_text" => Current \notin keys'
    BY <1>1, <2>1, StepKeepsUnique
  <2>3. pc'[Demoter] \in {"insert", "write_text"} => Current' = Current
    BY <1>1, <1>2, <2>1, DemoterWrites, DemoterIsQuiet
       DEF Quiet, Current, D!Current, D!FrameAt
  <2>4. Keyed(D!Frames, keys, pc[Demoter], Current)'
    BY <2>2, <2>3 DEF Keyed
  <2>5. Keyed(C!Frames, ckeys, cpc[Compactor], Summary)'
    BY <1>1, <1>2, <2>1, StepExtends, CompactorRelies DEF OnDemote
  <2>6. QED BY <2>2, <2>4, <2>5 DEF UniqueInv, Current, Summary
<1>3. CASE Compact
  <2>1. \/ Wrote(C!Frames, Summary, cpc[Compactor], cpc'[Compactor], ckeys, ckeys')
        \/ Quiet(cpc[Compactor], cpc'[Compactor], ckeys, ckeys')
    BY <1>1, <1>3, CompactorWrites, CompactorIsQuiet
  <2>2. /\ OneFrameEach'
        /\ \A i \in 1..Len(log') : log'[i] \in C!Frames =>
              log'[i] \in ckeys' \/ (cpc'[Compactor] = "insert" /\ log'[i] = Summary)
        /\ cpc'[Compactor] = "write_text" => Summary \notin ckeys'
    BY <1>1, <2>1, StepKeepsUnique
  <2>3. cpc'[Compactor] \in {"insert", "write_text"} => Summary' = Summary
    BY <1>1, <1>3, <2>1, CompactorWrites, CompactorIsQuiet DEF Quiet, Summary, C!Frame
  <2>4. Keyed(C!Frames, ckeys, cpc[Compactor], Summary)'
    BY <2>2, <2>3 DEF Keyed
  <2>5. Keyed(D!Frames, keys, pc[Demoter], Current)'
    BY <1>1, <1>3, <2>1, StepExtends, DemoterRelies DEF Compact
  <2>6. QED BY <2>2, <2>4, <2>5 DEF UniqueInv, Current, Summary
<1>4. CASE DemotionSnapshot \/ CompactorSnapshot
  BY <1>1, <1>4, SnapshotInv
<1>5. CASE Restart
  BY <1>1, <1>5, RestartInv
<1>6. CASE UNCHANGED vars
  BY <1>6 DEF vars, demotion, compactor, UniqueInv, OneFrameEach, D!OneFrameEach, Keyed,
              D!Current, D!FrameAt, C!Frame
<1>7. QED BY <1>2, <1>3, <1>4, <1>5, <1>6 DEF Next

(* No message and no summary is archived twice, whichever puts and commits *)
(* fail, whoever commits, and over any number of restarts, if each hook    *)
(* runs one call at a time and its process ends only between calls, with   *)
(* the dedup snapshots saved.  It does not depend on commits at all.       *)
THEOREM FramesAreUnique ==
    ASSUME Graceful
    PROVE  Spec => []OneFrameEach
<1>1. Init => UniqueInv
  BY DEF Init, D!Init, D!WriterInit, D!ArchiveInit, C!Init, C!WriterInit, UniqueInv,
         OneFrameEach, D!OneFrameEach, Keyed
<1>2. TypeOK /\ UniqueInv /\ [Next]_vars => UniqueInv'
  BY UniqueStep
<1>3. UniqueInv => OneFrameEach
  BY DEF UniqueInv
<1>4. QED BY <1>1, <1>2, <1>3, TypeCorrect, PTL DEF Spec

------------------------------------------------------------------------------
(* What is on disk.                                                        *)

LEMMA DurabilityInit == Init => DemoterInv /\ CompactorInv
BY DEF Init, D!Init, D!WriterInit, D!ArchiveInit, C!Init, C!WriterInit, DemoterInv,
       D!ProcessedOK, D!Active, CompactorInv, ReplacedUnlessCommitFailed

LEMMA DurabilityStep ==
    ASSUME CommitEachTurn, Sidecar # "always", TypeOK, DemoterInv, CompactorInv, [Next]_vars
    PROVE  DemoterInv' /\ CompactorInv'
<1>1. ArchiveOK /\ DemoterOK /\ CompactorOK
  BY DEF TypeOK
<1>2. CASE OnDemote
  <2>1. ExtendedBy(D!Frames) /\ UNCHANGED <<compactor, unflushed>>
    BY <1>1, <1>2, DemoterWrites, DemoterIsQuiet, StepExtends DEF OnDemote
  <2>2. QED BY <1>1, <1>2, <2>1, OnDemoteInv, CompactorRelies
<1>3. CASE Compact
  <2>1. ExtendedBy(C!Frames) /\ UNCHANGED demotion
    BY <1>1, <1>3, CompactorWrites, CompactorIsQuiet, StepExtends DEF Compact
  <2>2. QED BY <1>1, <1>3, <2>1, CompactInv, DemoterRelies
<1>4. CASE DemotionSnapshot \/ CompactorSnapshot
  BY <1>1, <1>4, SnapshotInv
<1>5. CASE Restart
  BY <1>1, <1>5, RestartInv
<1>6. CASE UNCHANGED vars
  BY <1>6 DEF vars, demotion, compactor, DemoterInv, D!ProcessedOK, D!Current, D!FrameAt,
              D!Written, CompactorInv, ReplacedUnlessCommitFailed, C!Frame, Written, Durable
<1>7. QED BY <1>2, <1>3, <1>4, <1>5, <1>6 DEF Next

LEMMA DurabilityHolds ==
    ASSUME CommitEachTurn, Sidecar # "always"
    PROVE  Spec => [](DemoterInv /\ CompactorInv)
<1>1. TypeOK /\ DemoterInv /\ CompactorInv /\ [Next]_vars => DemoterInv' /\ CompactorInv'
  BY DurabilityStep
<1>2. QED BY <1>1, DurabilityInit, TypeCorrect, PTL DEF Spec

(* The inductive invariant of the composition, all parts of it.            *)
THEOREM InvariantHolds ==
    ASSUME Graceful, CommitEachTurn, Sidecar # "always"
    PROVE  Spec => []SharedInv
<1>1. Init => UniqueInv
  BY DEF Init, D!Init, D!WriterInit, D!ArchiveInit, C!Init, C!WriterInit, UniqueInv,
         OneFrameEach, D!OneFrameEach, Keyed
<1>2. TypeOK /\ UniqueInv /\ [Next]_vars => UniqueInv'
  BY UniqueStep
<1>3. TypeOK /\ UniqueInv /\ DemoterInv /\ CompactorInv => SharedInv
  BY DEF SharedInv
<1>4. QED BY <1>1, <1>2, <1>3, TypeCorrect, DurabilityHolds, PTL DEF Spec

(* A summary that stands in for dropped messages is on disk in every state *)
(* and after every restart, abrupt ones included, unless the commit of     *)
(* that very summary failed once.                                          *)
THEOREM ReplacedSummariesAreDurable ==
    ASSUME CommitEachTurn, Sidecar # "always"
    PROVE  Spec => []ReplacedUnlessCommitFailed
<1>1. CompactorInv => ReplacedUnlessCommitFailed
  BY DEF CompactorInv
<1>2. QED BY <1>1, DurabilityHolds, PTL

------------------------------------------------------------------------------
(* The refinement.  What the abstract memory stores is the flushed prefix. *)

(* A flushed prefix that was kept is a prefix of what is flushed now.      *)
LEMMA FlushedIsPrefix ==
    ASSUME NEW S, NEW s \in Seq(S), NEW t \in Seq(S),
           NEW n \in 0..Len(s), NEW m \in n..Len(t),
           \A i \in 1..n : t[i] = s[i]
    PROVE  OnceOnly!IsPrefix(SubSeq(s, 1, n), SubSeq(t, 1, m))
<1> DEFINE u == SubSeq(s, 1, n)
           v == SubSeq(t, 1, m)
<1>1. Len(s) \in Nat /\ Len(t) \in Nat /\ n \in 0..m /\ m \in 0..Len(t)
  BY LenProperties
<1>2. u \in Seq(S) /\ Len(u) = n /\ \A i \in 1..n : u[i] = s[i]
  BY TakeProperties
<1>3. v \in Seq(S) /\ Len(v) = m /\ \A i \in 1..m : v[i] = t[i]
  BY <1>1, TakeProperties
<1> HIDE DEF u, v
<1>4. SubSeq(u, 1, n) = SubSeq(v, 1, n)
  BY <1>1, <1>2, <1>3, BeginsWith
<1>5. OnceOnly!IsPrefix(u, v)
  BY <1>1, <1>2, <1>3, <1>4 DEF OnceOnly!IsPrefix
<1>6. QED BY <1>5 DEF u, v

(* No step of either hook, and no restart, takes back what is on disk.     *)
LEMMA FlushedIsKept ==
    ASSUME TypeOK, [Next]_vars
    PROVE  /\ durable' \in durable..Len(log')
           /\ \A i \in 1..durable : log'[i] = log[i]
<1>1. /\ ArchiveOK /\ DemoterOK /\ CompactorOK
      /\ durable \in 0..Len(log) /\ Len(log) \in Nat
  BY LenProperties DEF TypeOK, ArchiveOK
<1>2. CASE OnDemote \/ Compact
  <2>1. ExtendedBy(D!Frames) \/ ExtendedBy(C!Frames)
    BY <1>1, <1>2, DemoterWrites, DemoterIsQuiet, CompactorWrites, CompactorIsQuiet, StepExtends
  <2>2. \A i \in 1..Len(log) : log'[i] = log[i]
    BY <1>1, <2>1, ExtendedKeeps
  <2>3. QED BY <1>1, <2>1, <2>2 DEF ExtendedBy
<1>3. CASE DemotionSnapshot \/ CompactorSnapshot
  BY <1>1, <1>3, SnapshotKeeps
<1>4. CASE Restart
  <2>1. /\ Len(log') \in durable..Len(log) /\ durable' = Len(log')
        /\ \A i \in 1..Len(log') : log'[i] = log[i]
    BY <1>1, <1>4, RestartKeeps
  <2>2. QED BY <1>1, <2>1
<1>5. CASE UNCHANGED vars
  BY <1>1, <1>5 DEF vars
<1>6. QED BY <1>2, <1>3, <1>4, <1>5 DEF Next

LEMMA EvictedGrows ==
    ASSUME TypeOK, [Next]_vars
    PROVE  evicted \subseteq evicted'
<1>1. ArchiveOK /\ DemoterOK /\ CompactorOK
  BY DEF TypeOK
<1>2. CASE OnDemote
  BY <1>1, <1>2, DemoterWrites
     DEF OnDemote, D!OnDemote, D!StartDemote, D!NextMessage, D!MessageDone, D!FinishDemote,
         D!PresentAgain
<1>3. CASE Compact
  BY <1>3 DEF Compact, demotion
<1>4. CASE DemotionSnapshot \/ CompactorSnapshot
  BY <1>1, <1>4, SnapshotKeeps
<1>5. CASE Restart
  BY <1>5 DEF Restart
<1>6. CASE UNCHANGED vars
  BY <1>6 DEF vars, demotion
<1>7. QED BY <1>2, <1>3, <1>4, <1>5, <1>6 DEF Next

(* The two hooks on one archive keep the promise of DurableMemory, each    *)
(* frame exactly once: what either flushed is never lost, moved or stored  *)
(* again, and a message is evicted only when it is on disk.                *)
THEOREM ImplementsOnceOnly ==
    ASSUME Graceful, CommitEachTurn, Sidecar # "always"
    PROVE  Spec => OnceOnlySpec
<1>1. Init => OnceOnly!Init
  <2>1. SUFFICES ASSUME Init PROVE OnceOnly!Init
    OBVIOUS
  <2>2. log = <<>> /\ durable = 0 /\ evicted = {}
    BY <2>1 DEF Init, D!Init, D!WriterInit, D!ArchiveInit
  <2>3. QED BY <2>2 DEF OnceOnly!Init
<1>2. ASSUME SharedInv, SharedInv', [Next]_vars
      PROVE  [OnceOnly!Next]_<<SubSeq(log, 1, durable), evicted>>
  <2>1. /\ log \in Seq(D!Frames \cup C!Frames) /\ durable \in 0..Len(log)
        /\ log' \in Seq(D!Frames \cup C!Frames) /\ durable' \in 0..Len(log')
        /\ Len(log) \in Nat /\ Len(log') \in Nat
    BY <1>2, LenProperties DEF SharedInv, TypeOK, ArchiveOK
  <2>2. OnceOnly!IsPrefix(SubSeq(log, 1, durable), SubSeq(log', 1, durable'))
    BY <1>2, <2>1, FlushedIsKept, FlushedIsPrefix DEF SharedInv
  <2>3. /\ Len(SubSeq(log', 1, durable')) = durable'
        /\ DOMAIN SubSeq(log', 1, durable') = 1..durable'
        /\ \A i \in 1..durable' : SubSeq(log', 1, durable')[i] = log'[i]
    <3>1. /\ SubSeq(log', 1, durable') \in Seq(D!Frames \cup C!Frames)
          /\ Len(SubSeq(log', 1, durable')) = durable'
          /\ \A i \in 1..durable' : SubSeq(log', 1, durable')[i] = log'[i]
      BY <2>1, TakeProperties
    <3>2. QED BY <3>1, LenProperties
  <2>4. OnceOnly!IsInjective(SubSeq(log', 1, durable'))
    <3>1. \A i, j \in 1..Len(log') : log'[i] = log'[j] => i = j
      BY <1>2 DEF SharedInv, UniqueInv, OneFrameEach, D!OneFrameEach
    <3>2. \A i \in 1..durable' : i \in 1..Len(log')
      BY <2>1
    <3>3. QED BY <2>3, <3>1, <3>2 DEF OnceOnly!IsInjective
  <2>5. evicted \subseteq evicted'
    BY <1>2, EvictedGrows DEF SharedInv
  <2>6. evicted' \subseteq {SubSeq(log', 1, durable')[i] : i \in DOMAIN SubSeq(log', 1, durable')}
    <3>1. \A f \in evicted' : \E i \in 1..durable' : log'[i] = f
      BY <1>2 DEF SharedInv, DemoterInv, Durable
    <3>2. QED BY <2>3, <3>1
  <2>7. QED
    BY <2>2, <2>4, <2>5, <2>6 DEF OnceOnly!Next, OnceOnly!Persist, OnceOnly!Release
<1>3. QED
  BY <1>1, <1>2, InvariantHolds, PTL DEF Spec, OnceOnlySpec, OnceOnly!Spec

==============================================================================
