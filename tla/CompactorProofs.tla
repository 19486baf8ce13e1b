--------------------------- MODULE CompactorProofs ---------------------------
(***************************************************************************)
(* Theorems about MemvidStoringCompactor, for every number of calls in     *)
(* flight, every set of requests, whatever artifacts the wrapped compactor *)
(* gives for them, every set of faults and any number of restarts.         *)
(***************************************************************************)
EXTENDS StoringCompactor, ProofLemmas

USE DEF Goto, host, archive, caller

------------------------------------------------------------------------------
(* What the archive's operations do to the file.                           *)

(* A commit, whatever its outcome, flushes more of the file or none of it. *)
LEMMA CommitEffect ==
    ASSUME log \in Seq(Frames), durable \in 0..Len(log), poisoned \subseteq Locks,
           CommitIfEachTurnSucceeds \/ CommitIfEachTurnFails \/ CommitSucceeds \/ CommitFails
    PROVE  log' = log /\ durable' \in durable..Len(log) /\ poisoned' \subseteq Locks
<1>1. Len(log) \in Nat
  OBVIOUS
<1>2. CASE CommitSucceeds
  BY <1>1, <1>2 DEF CommitSucceeds
<1>3. CASE CommitFails
  BY <1>1, <1>3 DEF CommitFails
<1>4. CASE CommitPanics
  BY <1>1, <1>4 DEF CommitPanics, Locks
<1>5. CASE UNCHANGED archive
  BY <1>1, <1>5 DEF archive
<1>6. QED
  BY <1>2, <1>3, <1>4, <1>5 DEF CommitIfEachTurnSucceeds, CommitIfEachTurnFails

(* What Reopen finds of the file: the flushed frames, all of them durable. *)
LEMMA ReopenKeeps ==
    ASSUME log \in Seq(Frames), durable \in 0..Len(log), Reopen
    PROVE  /\ log' \in Seq(Frames)
           /\ durable' \in 0..Len(log')
           /\ poisoned' = {}
           /\ \A e : Durable(e) => Durable(e)'
           /\ \A e : Durable(e)' => Written(e)'
<1>1. PICK kept \in durable..Len(log) : log' = SubSeq(log, 1, kept) /\ durable' = kept
  BY DEF Reopen
<1>2. log' \in Seq(Frames) /\ Len(log') = kept /\ \A i \in 1..kept : log'[i] = log[i]
  BY <1>1
<1>3. ASSUME NEW e, Durable(e) PROVE Durable(e)'
  BY <1>1, <1>2, <1>3 DEF Durable
<1>4. ASSUME NEW e, Durable(e)' PROVE Written(e)'
  BY <1>1, <1>2, <1>4 DEF Durable, Written
<1>5. QED BY <1>1, <1>2, <1>3, <1>4 DEF Reopen

------------------------------------------------------------------------------
(* What type correctness says of a call in flight.                         *)
LEMMA FrameOfCall ==
    ASSUME TypeOK, NEW t \in Tasks, pc[t] \in WriteSteps
    PROVE  /\ Frame(t).text = summary[t]
           /\ summary[t] \in Texts \cup {Blank}
           /\ Frame(t) \in Frames <=> summary[t] \in Texts
<1>1. request[t] \in Requests
  BY DEF TypeOK, WriteSteps
<1>2. ConversationOf[request[t]] \in Conversations
  BY <1>1, RequestAssumption
<1>3. QED BY <1>2 DEF TypeOK, Frame, Frames

(* A step of write_frame for call t moves only t's pc, appends at most t's *)
(* frame, and adds at most that frame to the dedup keys.                   *)
WriteEffect(t, label) ==
    /\ pc' = [pc EXCEPT ![t] = label]
    /\ label \in (WriteSteps \ {"contains"}) \cup {"failed"}
    /\ label \in {"write_text", "insert", "written"} => Frame(t) \in Frames
    /\ label = "skipped" => Frame(t).text = Blank \/ Frame(t) \in dedup
    /\ label = "insert" => log' = Append(log, Frame(t))
    /\ label = "written" => pc[t] = "insert"
    /\ log' = log \/ (Frame(t) \in Frames /\ log' = Append(log, Frame(t)))
    /\ durable' = durable
    /\ poisoned' \subseteq Locks
    /\ dedup' = dedup \/ (pc[t] = "insert" /\ dedup' = dedup \cup {Frame(t)})
    /\ UNCHANGED <<request, summary, replaced, sidecar, restarts>>

LEMMA WriteStep ==
    ASSUME TypeOK, NEW t \in Tasks, WriteSummary(t)
    PROVE  /\ pc[t] \in WriteSteps
           /\ pc[t] = "insert" => Frame(t) \in Frames
           /\ \E label : WriteEffect(t, label)
<1>1. pc[t] \in {"contains", "write_text", "insert"}
  BY DEF WriteSummary, WriteFrame, SkipFrame, PassDedup, WriteText, InsertKey, DedupFails,
         DedupPanics
<1>2. /\ pc[t] \in WriteSteps
      /\ Frame(t).text \in Texts \cup {Blank}
      /\ Frame(t) \in Frames <=> Frame(t).text \in Texts
      /\ pc[t] \in {"write_text", "insert"} => Frame(t).text \in Texts
  BY <1>1, FrameOfCall DEF TypeOK, WriteSteps
<1>3. UNCHANGED <<request, summary, replaced, sidecar, restarts>> /\ poisoned \subseteq Locks
  BY DEF WriteSummary, WriteFrame, TypeOK
<1>4. CASE SkipFrame(t, Frame(t))
  <2>1. WriteEffect(t, "skipped")
    BY <1>1, <1>2, <1>3, <1>4 DEF SkipFrame, WriteSteps, WriteEffect
  <2>2. QED BY <1>1, <1>2, <2>1
<1>5. CASE PassDedup(t, Frame(t))
  <2>1. WriteEffect(t, "write_text")
    BY <1>1, <1>2, <1>3, <1>5 DEF PassDedup, WriteSteps, WriteEffect
  <2>2. QED BY <1>1, <1>2, <2>1
<1>6. CASE WriteText(t, Frame(t))
  <2>1. CASE PutSucceeds(Frame(t)) /\ Goto(t, "insert")
    <3>1. WriteEffect(t, "insert")
      BY <1>2, <1>3, <1>6, <2>1 DEF WriteText, PutSucceeds, WriteSteps, WriteEffect
    <3>2. QED BY <1>1, <1>2, <3>1
  <2>2. CASE (PutFails("put") \/ PutPanics(Frame(t))) /\ Goto(t, "failed")
    <3>1. WriteEffect(t, "failed")
      BY <1>2, <1>3, <1>6, <2>2
         DEF WriteText, PutFails, PutPanics, WriteSteps, WriteEffect, Locks
    <3>2. QED BY <1>1, <1>2, <3>1
  <2>3. QED BY <1>6, <2>1, <2>2 DEF WriteText
<1>7. CASE InsertKey(t, Frame(t))
  <2>1. WriteEffect(t, "written")
    BY <1>2, <1>3, <1>7 DEF InsertKey, WriteSteps, WriteEffect
  <2>2. QED BY <1>1, <1>2, <2>1
<1>8. CASE DedupFails(t, Frame(t)) \/ DedupPanics(t, Frame(t))
  <2>1. WriteEffect(t, "failed")
    BY <1>1, <1>2, <1>3, <1>8 DEF DedupFails, DedupPanics, WriteSteps, WriteEffect, Locks
  <2>2. QED BY <1>1, <1>2, <2>1
<1>9. QED
  BY <1>4, <1>5, <1>6, <1>7, <1>8 DEF WriteSummary, WriteFrame

------------------------------------------------------------------------------
(* Type correctness.                                                       *)

LEMMA TypeInit == Init => TypeOK
BY RestartAssumption DEF Init, WriterInit, ArchiveInit, TypeOK, WriteSteps

LEMMA CompactType ==
    ASSUME TypeOK, NEW t \in Tasks, Compact(t)
    PROVE  TypeOK'
<1>1. /\ log \in Seq(Frames) /\ Len(log) \in Nat /\ durable \in 0..Len(log)
      /\ poisoned \subseteq Locks
  BY DEF TypeOK
<1>2. CASE StartCompact(t)
  BY <1>2, NoneAssumption DEF StartCompact, TypeOK, WriteSteps
<1>3. CASE InnerFails(t)
  BY <1>3 DEF InnerFails, TypeOK, WriteSteps
<1>4. CASE InnerCompacts(t)
  <2>1. pc[t] = "inner" /\ request[t] \in Requests
    BY <1>4 DEF InnerCompacts, TypeOK
  <2>2. Summaries[request[t]] \subseteq Texts \cup {Blank, NoText}
    BY <2>1, RequestAssumption
  <2>3. CASE /\ \E s \in Texts \cup {Blank} : summary' = [summary EXCEPT ![t] = s]
             /\ Goto(t, "contains")
             /\ UNCHANGED <<request, replaced>>
    BY <1>4, <2>1, <2>3 DEF InnerCompacts, TypeOK, WriteSteps
  <2>4. CASE Return(t, {})
    BY <1>4, <2>1, <2>4 DEF InnerCompacts, Return, TypeOK, WriteSteps
  <2>5. QED BY <1>4, <2>2, <2>3, <2>4 DEF InnerCompacts
<1>5. CASE WriteSummary(t)
  <2>1. PICK label : WriteEffect(t, label)
    BY <1>5, WriteStep
  <2>2. pc[t] \in WriteSteps
    BY <1>5, WriteStep
  <2>3. log' \in Seq(Frames) /\ durable' \in 0..Len(log')
    <3>1. log' = log \/ (Frame(t) \in Frames /\ log' = Append(log, Frame(t)))
      BY <2>1 DEF WriteEffect
    <3>2. log' \in Seq(Frames) /\ Len(log') \in {Len(log), Len(log) + 1}
      BY <1>1, <3>1, AppendProperties
    <3>3. QED BY <1>1, <2>1, <3>2 DEF WriteEffect
  <2>4. dedup' \subseteq Frames
    BY <1>5, <2>1, WriteStep DEF WriteEffect, TypeOK
  <2>5. label \in {"write_text", "insert", "written"} => summary[t] \in Texts
    BY <2>1, <2>2, FrameOfCall DEF WriteEffect
  <2>6. QED BY <2>1, <2>2, <2>3, <2>4, <2>5 DEF WriteEffect, TypeOK, WriteSteps
<1>6. CASE CommitSummary(t)
  <2>1. /\ log' = log /\ durable' \in 0..Len(log) /\ poisoned' \subseteq Locks
        /\ pc[t] \in {"written", "skipped"}
    BY <1>1, <1>6, CommitEffect DEF CommitSummary
  <2>2. CASE Goto(t, "failed") /\ UNCHANGED caller
    BY <1>6, <2>1, <2>2 DEF CommitSummary, TypeOK, WriteSteps
  <2>3. ASSUME NEW f \in SUBSET Frames, Return(t, f) PROVE TypeOK'
    BY <1>6, <2>1, <2>3 DEF CommitSummary, Return, TypeOK, WriteSteps
  <2>4. pc[t] = "written" => {Frame(t)} \subseteq Frames
    BY FrameOfCall DEF TypeOK, WriteSteps
  <2>5. QED BY <1>6, <2>2, <2>3, <2>4 DEF CommitSummary
<1>7. CASE CompactAgain(t)
  BY <1>7 DEF CompactAgain, TypeOK, WriteSteps
<1>8. QED BY <1>2, <1>3, <1>4, <1>5, <1>6, <1>7 DEF Compact

LEMMA HostType ==
    ASSUME TypeOK, HostStep, UNCHANGED caller
    PROVE  TypeOK'
<1>1. CASE HostCommit
  BY <1>1 DEF HostCommit, CommitSucceeds, CommitFails, TypeOK
<1>2. CASE SaveSidecar
  BY <1>2 DEF SaveSidecar, TypeOK
<1>3. CASE Restart
  <2>1. log' \in Seq(Frames) /\ durable' \in 0..Len(log') /\ poisoned' = {}
    BY <1>3, ReopenKeeps DEF Restart, TypeOK
  <2>2. restarts' \in 0..MaxRestarts
    BY <1>3, RestartAssumption DEF Restart, TypeOK
  <2>3. QED BY <1>3, <2>1, <2>2 DEF Restart, TypeOK, WriteSteps
<1>4. QED BY <1>1, <1>2, <1>3 DEF HostStep

(* Every reachable state is well-formed: a call has the request it was     *)
(* made for while it is in flight, and a text to write inside write_frame. *)
THEOREM TypeCorrect == Spec => []TypeOK
<1>1. ASSUME TypeOK, [Next]_vars PROVE TypeOK'
  <2>1. CASE Next
    BY <1>1, <2>1, CompactType, HostType DEF Next
  <2>2. CASE UNCHANGED vars
    BY <1>1, <2>2 DEF vars, writer, TypeOK
  <2>3. QED BY <1>1, <2>1, <2>2
<1>2. QED BY <1>1, TypeInit, PTL DEF Spec

------------------------------------------------------------------------------
(* The invariant.  Until the process ends no appended frame is lost, and   *)
(* no flushed frame ever is.                                               *)

WrittenKept == \A e : Written(e) => Written(e)'
DurableKept == \A e : Durable(e) => Durable(e)'

(* The clause of CompactorInv about call t.                                *)
CallWrote(t) ==
    pc[t] \in {"insert", "written", "skipped"} /\ Frame(t) \in Frames => Written(Frame(t))

LEMMA NothingLost ==
    ASSUME TypeOK, (\E t \in Tasks : Compact(t)) \/ HostCommit
    PROVE  WrittenKept /\ DurableKept
<1>1. log \in Seq(Frames) /\ Len(log) \in Nat /\ durable \in 0..Len(log)
      /\ poisoned \subseteq Locks
  BY DEF TypeOK
<1>2. /\ log' = log \/ \E f \in Frames : log' = Append(log, f)
      /\ durable' \in durable..Len(log')
  <2>1. ASSUME NEW t \in Tasks, WriteSummary(t)
        PROVE  /\ log' = log \/ \E f \in Frames : log' = Append(log, f)
               /\ durable' \in durable..Len(log')
    <3>1. /\ log' = log \/ (Frame(t) \in Frames /\ log' = Append(log, Frame(t)))
          /\ durable' = durable
      BY <2>1, WriteStep DEF WriteEffect
    <3>2. Len(log') \in {Len(log), Len(log) + 1}
      BY <1>1, <3>1, AppendProperties
    <3>3. QED BY <1>1, <3>1, <3>2
  <2>2. ASSUME NEW t \in Tasks, CommitSummary(t)
        PROVE  log' = log /\ durable' \in durable..Len(log')
    BY <1>1, <2>2, CommitEffect DEF CommitSummary
  <2>3. ASSUME HostCommit
        PROVE  log' = log /\ durable' \in durable..Len(log')
    BY <1>1, <2>3, CommitEffect DEF HostCommit
  <2>4. ASSUME NEW t \in Tasks,
               StartCompact(t) \/ InnerFails(t) \/ InnerCompacts(t) \/ CompactAgain(t)
        PROVE  log' = log /\ durable' \in durable..Len(log')
    BY <1>1, <2>4 DEF StartCompact, InnerFails, InnerCompacts, CompactAgain
  <2>5. QED BY <2>1, <2>2, <2>3, <2>4 DEF Compact
<1>3. /\ Len(log) \in Nat /\ Len(log') \in Nat /\ durable \in Nat /\ durable <= Len(log)
      /\ \A i \in 1..Len(log) : i \in 1..Len(log') /\ log'[i] = log[i]
  BY <1>1, <1>2, Appended
<1>4. \A i \in 1..durable : i \in 1..durable' /\ log'[i] = log[i]
  BY <1>2, <1>3
<1>5. QED BY <1>3, <1>4 DEF WrittenKept, DurableKept, Written, Durable

LEMMA InvInit == Init => CompactorInv
BY TypeInit DEF Init, WriterInit, CompactorInv, DedupIsWritten, SidecarIsDurable,
                ReplacedIsWritten

(* A clause about a call whose pc, request and summary do not change.      *)
LEMMA CallWroteStable ==
    ASSUME NEW t, CallWrote(t), WrittenKept,
           pc'[t] = pc[t], request'[t] = request[t], summary'[t] = summary[t]
    PROVE  CallWrote(t)'
BY DEF CallWrote, WrittenKept, Frame

LEMMA CallWroteStep ==
    ASSUME CompactorInv, NEW t \in Tasks, Compact(t)
    PROVE  \A s \in Tasks : CallWrote(s)'
<1>1. TypeOK /\ WrittenKept /\ \A s \in Tasks : CallWrote(s)
  BY NothingLost DEF CompactorInv, CallWrote
<1>2. ASSUME NEW s \in Tasks, s # t PROVE CallWrote(s)'
  <2>1. pc'[s] = pc[s] /\ request'[s] = request[s] /\ summary'[s] = summary[s]
    <3>1. CASE WriteSummary(t)
      BY <1>1, <1>2, <3>1, WriteStep DEF WriteEffect, TypeOK
    <3>2. CASE ~WriteSummary(t)
      BY <1>1, <1>2, <3>2 DEF Compact, StartCompact, InnerFails, InnerCompacts, CommitSummary,
                              CompactAgain, Return, TypeOK
    <3>3. QED BY <3>1, <3>2
  <2>2. QED BY <1>1, <2>1, CallWroteStable
<1>3. CallWrote(t)'
  <2>1. CASE WriteSummary(t)
    <3>1. PICK label : WriteEffect(t, label)
      BY <1>1, <2>1, WriteStep
    <3>2. pc'[t] = label /\ Frame(t)' = Frame(t)
      BY <1>1, <3>1 DEF WriteEffect, TypeOK, Frame
    <3>3. ASSUME label \in {"insert", "written", "skipped"}, Frame(t) \in Frames
          PROVE  Written(Frame(t))'
      <4>1. CASE label = "insert"
        <5>1. log' = Append(log, Frame(t))
          BY <3>1, <4>1 DEF WriteEffect
        <5>2. Len(log') = Len(log) + 1 /\ log'[Len(log) + 1] = Frame(t) /\ Len(log) \in Nat
          BY <1>1, <3>3, <5>1, AppendProperties DEF TypeOK
        <5>3. QED BY <3>2, <5>2 DEF Written
      <4>2. CASE label = "written"
        <5>1. pc[t] = "insert"
          BY <3>1, <4>2 DEF WriteEffect
        <5>2. QED BY <1>1, <3>2, <3>3, <5>1 DEF CallWrote, WrittenKept
      <4>3. CASE label = "skipped"
        <5>1. Frame(t) \in dedup
          BY <3>1, <3>3, <4>3, FrameAssumption DEF WriteEffect, Frames
        <5>2. QED BY <1>1, <3>2, <5>1 DEF CompactorInv, DedupIsWritten, WrittenKept
      <4>4. QED BY <3>3, <4>1, <4>2, <4>3
    <3>4. QED BY <3>2, <3>3 DEF CallWrote
  <2>2. CASE ~WriteSummary(t)
    <3>1. pc'[t] \in {"idle", "inner", "contains", "failed"}
      BY <1>1, <2>2 DEF Compact, StartCompact, InnerFails, InnerCompacts, CommitSummary,
                        CompactAgain, Return, TypeOK
    <3>2. QED BY <3>1 DEF CallWrote
  <2>3. QED BY <2>1, <2>2
<1>4. QED BY <1>2, <1>3

LEMMA DedupStep ==
    ASSUME CompactorInv, NEW t \in Tasks, Compact(t)
    PROVE  DedupIsWritten' /\ SidecarIsDurable'
<1>1. TypeOK /\ WrittenKept /\ DurableKept
  BY NothingLost DEF CompactorInv
<1>2. sidecar' = sidecar
  BY <1>1, WriteStep DEF Compact, StartCompact, InnerFails, InnerCompacts, CommitSummary,
                         CompactAgain, WriteEffect
<1>3. CASE WriteSummary(t)
  <2>1. dedup' = dedup \/ (pc[t] = "insert" /\ dedup' = dedup \cup {Frame(t)})
    BY <1>1, <1>3, WriteStep DEF WriteEffect
  <2>2. pc[t] = "insert" => Written(Frame(t))
    BY <1>1, <1>3, WriteStep DEF CompactorInv
  <2>3. QED BY <1>1, <1>2, <2>1, <2>2
               DEF CompactorInv, DedupIsWritten, SidecarIsDurable, WrittenKept, DurableKept
<1>4. CASE ~WriteSummary(t)
  <2>1. dedup' = dedup
    BY <1>4 DEF Compact, StartCompact, InnerFails, InnerCompacts, CommitSummary, CompactAgain
  <2>2. QED BY <1>1, <1>2, <2>1
               DEF CompactorInv, DedupIsWritten, SidecarIsDurable, WrittenKept, DurableKept
<1>5. QED BY <1>3, <1>4

(* The step the property is about: compact returns Ok after its own put,   *)
(* or after a dedup hit on a frame somebody has appended.                  *)
LEMMA ReplacedStep ==
    ASSUME CompactorInv, NEW t \in Tasks, Compact(t)
    PROVE  ReplacedIsWritten'
<1>1. TypeOK /\ WrittenKept
  BY NothingLost DEF CompactorInv
<1>2. restarts' = restarts
  BY <1>1, WriteStep DEF Compact, StartCompact, InnerFails, InnerCompacts, CommitSummary,
                         CompactAgain, WriteEffect
<1>3. CASE replaced' = replaced
  BY <1>1, <1>2, <1>3 DEF CompactorInv, ReplacedIsWritten, WrittenKept
<1>4. CASE replaced' # replaced
  <2>1. CommitSummary(t)
    BY <1>1, <1>4, WriteStep DEF Compact, StartCompact, InnerFails, InnerCompacts, CompactAgain,
                                 Return, WriteEffect
  <2>2. /\ pc[t] \in {"written", "skipped"}
        /\ replaced' \subseteq replaced \cup {Frame(t)}
        /\ Frame(t) \in replaced' \ replaced => Frame(t) \in Frames
    <3>1. pc[t] = "written" => Frame(t) \in Frames
      BY <1>1, FrameOfCall DEF TypeOK, WriteSteps
    <3>2. QED BY <1>4, <2>1, <3>1 DEF CommitSummary, Return
  <2>3. Frame(t) \in replaced' \ replaced => Written(Frame(t))
    BY <2>2 DEF CompactorInv
  <2>4. QED BY <1>1, <1>2, <2>2, <2>3 DEF CompactorInv, ReplacedIsWritten, WrittenKept
<1>5. QED BY <1>3, <1>4

(* The host's steps.  A restart may cut off appended frames, but the keys  *)
(* it starts with are those of the snapshot, and no call is under way.     *)
LEMMA HostInv ==
    ASSUME Sidecar # "always", CompactorInv, HostStep, UNCHANGED caller
    PROVE  CompactorInv'
<1>1. TypeOK /\ TypeOK' /\ \A t \in Tasks : CallWrote(t)
  BY HostType DEF CompactorInv, CallWrote
<1>2. CASE HostCommit
  <2>1. WrittenKept /\ DurableKept
    BY <1>1, <1>2, NothingLost
  <2>2. \A t \in Tasks : CallWrote(t)'
    BY <1>1, <1>2, <2>1, CallWroteStable DEF HostCommit
  <2>3. QED
    BY <1>1, <1>2, <2>1, <2>2
       DEF HostCommit, CompactorInv, DedupIsWritten, SidecarIsDurable, ReplacedIsWritten,
           CallWrote, WrittenKept, DurableKept
<1>3. CASE SaveSidecar
  <2>1. durable = Len(log) /\ sidecar' = dedup /\ UNCHANGED <<archive, dedup, pc, restarts, caller>>
    BY <1>3, SidecarAssumption DEF SaveSidecar
  <2>2. WrittenKept
    BY <2>1 DEF WrittenKept, Written
  <2>3. \A t \in Tasks : CallWrote(t)'
    BY <1>1, <2>1, <2>2, CallWroteStable
  <2>4. SidecarIsDurable'
    BY <2>1 DEF CompactorInv, DedupIsWritten, SidecarIsDurable, Written, Durable
  <2>5. QED
    BY <1>1, <2>1, <2>2, <2>3, <2>4
       DEF CompactorInv, DedupIsWritten, ReplacedIsWritten, CallWrote, WrittenKept
<1>4. CASE Restart
  <2>1. DurableKept /\ \A e : Durable(e)' => Written(e)'
    BY <1>1, <1>4, ReopenKeeps DEF Restart, TypeOK, DurableKept
  <2>2. dedup' = sidecar /\ sidecar' = sidecar /\ restarts' # 0
    BY <1>1, <1>4, RestartAssumption DEF Restart, TypeOK
  <2>3. \A t \in Tasks : pc'[t] \in {"idle", "failed"}
    BY <1>4 DEF Restart
  <2>4. QED
    BY <1>1, <2>1, <2>2, <2>3
       DEF CompactorInv, DedupIsWritten, SidecarIsDurable, ReplacedIsWritten, DurableKept
<1>5. QED BY <1>2, <1>3, <1>4 DEF HostStep

(* The inductive invariant holds in every reachable state, if the host     *)
(* takes its snapshots only of committed frames.                           *)
THEOREM InvariantHolds ==
    ASSUME Sidecar # "always"
    PROVE  Spec => []CompactorInv
<1>1. ASSUME CompactorInv, [Next]_vars PROVE CompactorInv'
  <2>1. CASE \E t \in Tasks : Compact(t)
    BY <1>1, <2>1, CompactType, CallWroteStep, DedupStep, ReplacedStep
       DEF CompactorInv, CallWrote
  <2>2. CASE HostStep /\ UNCHANGED caller
    BY <1>1, <2>2, HostInv
  <2>3. CASE UNCHANGED vars
    BY <1>1, <2>3 DEF vars, writer, CompactorInv, TypeOK, DedupIsWritten, SidecarIsDurable,
                      ReplacedIsWritten, Written, Durable, Frame
  <2>4. QED BY <1>1, <2>1, <2>2, <2>3 DEF Next
<1>2. QED BY <1>1, InvInit, PTL DEF Spec

(* A summary that the caller put in the place of its messages is in the    *)
(* archive of this process: compact returned Ok after its own put or on a  *)
(* dedup hit, and no key of the set stands for a frame nobody appended.    *)
THEOREM ReplacedSummariesAreWritten ==
    ASSUME Sidecar # "always"
    PROVE  Spec => []ReplacedIsWritten
<1>1. CompactorInv => ReplacedIsWritten
  BY DEF CompactorInv
<1>2. QED BY <1>1, InvariantHolds, PTL
==============================================================================
