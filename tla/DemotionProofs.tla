--------------------------- MODULE DemotionProofs ----------------------------
(***************************************************************************)
(* Theorems about MemvidDemotionHook, for every number of calls in flight, *)
(* every set of messages, batches and faults, and any number of restarts.  *)
(***************************************************************************)
EXTENDS Demotion, ProofLemmas

USE DEF Goto, host, archive, caller

------------------------------------------------------------------------------
(* What the archive's operations do to the file.                           *)

(* A commit, whatever its outcome, flushes more of the file or none of it. *)
LEMMA CommitEffect ==
    ASSUME log \in Seq(Frames), durable \in 0..Len(log), poisoned \subseteq Locks,
           CommitIfEachTurnSucceeds \/ CommitIfEachTurnFails \/ CommitSucceeds \/ CommitFails
    PROVE  log' = log /\ durable' \in durable..Len(log) /\ poisoned' \subseteq Locks
<1>1. Len(log) \in Nat
  OBVIOUS
<1>2. CASE CommitSucceeds
  BY <1>1, <1>2 DEF CommitSucceeds
<1>3. CASE CommitFails
  BY <1>1, <1>3 DEF CommitFails
<1>4. CASE CommitPanics
  BY <1>1, <1>4 DEF CommitPanics, Locks
<1>5. CASE UNCHANGED archive
  BY <1>1, <1>5 DEF archive
<1>6. QED
  BY <1>2, <1>3, <1>4, <1>5 DEF CommitIfEachTurnSucceeds, CommitIfEachTurnFails

(* What Reopen finds of the file: the flushed frames, all of them durable. *)
LEMMA ReopenKeeps ==
    ASSUME log \in Seq(Frames), durable \in 0..Len(log), Reopen
    PROVE  /\ log' \in Seq(Frames)
           /\ durable' \in 0..Len(log')
           /\ poisoned' = {}
           /\ \A e : Durable(e) => Durable(e)'
           /\ \A e : Durable(e)' => Written(e)'
<1>1. PICK kept \in durable..Len(log) : log' = SubSeq(log, 1, kept) /\ durable' = kept
  BY DEF Reopen
<1>2. log' \in Seq(Frames) /\ Len(log') = kept /\ \A i \in 1..kept : log'[i] = log[i]
  BY <1>1
<1>3. ASSUME NEW e, Durable(e) PROVE Durable(e)'
  BY <1>1, <1>2, <1>3 DEF Durable
<1>4. ASSUME NEW e, Durable(e)' PROVE Written(e)'
  BY <1>1, <1>2, <1>4 DEF Durable, Written
<1>5. QED BY <1>1, <1>2, <1>3, <1>4 DEF Reopen

------------------------------------------------------------------------------
(* What type correctness says of a call in flight.                         *)

LEMMA CallFacts ==
    ASSUME TypeOK, NEW t \in Tasks, pc[t] # "idle"
    PROVE  /\ call[t] \in Calls
           /\ call[t].conversation \in Conversations
           /\ call[t].messages \in Seq(Messages)
           /\ Len(call[t].messages) \in Nat
           /\ \A i \in 1..Len(call[t].messages) :
                 /\ FrameAt(t, i).text \in Texts \cup {Blank, NoText}
                 /\ FrameAt(t, i) \in Frames <=> FrameAt(t, i).text \in Texts
<1>1. call[t] \in Calls
  BY DEF TypeOK, CallOK
<1>2. call[t].conversation \in Conversations /\ call[t].messages \in Batches
  BY <1>1 DEF Calls
<1>3. call[t].messages \in Seq(Messages) /\ Len(call[t].messages) \in Nat
  BY <1>2, BatchAssumption
<1>4. ASSUME NEW i \in 1..Len(call[t].messages)
      PROVE  /\ FrameAt(t, i).text \in Texts \cup {Blank, NoText}
             /\ FrameAt(t, i) \in Frames <=> FrameAt(t, i).text \in Texts
  <2>1. call[t].messages[i] \in Messages
    BY <1>3
  <2>2. TextOf[call[t].messages[i]] \in Texts \cup {Blank, NoText}
    BY <2>1, TextAssumption
  <2>3. QED BY <1>2, <2>2 DEF FrameAt, Frames
<1>5. QED BY <1>1, <1>2, <1>3, <1>4

(* A step of write_frame for call t moves only t's pc, appends at most t's *)
(* current frame, and adds at most that frame to the dedup keys.           *)
WriteEffect(t, label) ==
    /\ pc' = [pc EXCEPT ![t] = label]
    /\ label \in (InWrite \ {"contains"}) \cup {"failed"}
    /\ label \in {"write_text", "insert", "written"} => Current(t) \in Frames
    /\ label = "skipped" => Current(t).text = Blank \/ Current(t) \in dedup
    /\ label = "insert" => log' = Append(log, Current(t))
    /\ label = "written" => pc[t] = "insert"
    /\ log' = log \/ (Current(t) \in Frames /\ log' = Append(log, Current(t)))
    /\ durable' = durable
    /\ poisoned' \subseteq Locks
    /\ dedup' = dedup \/ (pc[t] = "insert" /\ dedup' = dedup \cup {Current(t)})
    /\ UNCHANGED <<call, next, evicted, sidecar, restarts>>

LEMMA WriteStep ==
    ASSUME TypeOK, NEW t \in Tasks, WriteMessage(t)
    PROVE  /\ pc[t] \in InWrite
           /\ Current(t).text \in Texts \cup {Blank}
           /\ Current(t) \in Frames <=> Current(t).text \in Texts
           /\ pc[t] = "insert" => Current(t) \in Frames
           /\ \E label : WriteEffect(t, label)
<1>1. pc[t] \in {"contains", "write_text", "insert"}
  BY DEF WriteMessage, WriteFrame, SkipFrame, PassDedup, WriteText, InsertKey, DedupFails,
         DedupPanics
<1>2. /\ Current(t).text \in Texts \cup {Blank}
      /\ Current(t) \in Frames <=> Current(t).text \in Texts
      /\ pc[t] \in {"write_text", "insert"} => Current(t).text \in Texts
  BY <1>1, CallFacts DEF TypeOK, CallOK, InWrite, Current
<1>3. UNCHANGED <<call, next, evicted, sidecar, restarts>> /\ poisoned \subseteq Locks
  BY DEF WriteMessage, WriteFrame, TypeOK
<1>4. CASE SkipFrame(t, Current(t))
  <2>1. WriteEffect(t, "skipped")
    BY <1>1, <1>2, <1>3, <1>4 DEF SkipFrame, InWrite, WriteEffect
  <2>2. QED BY <1>1, <1>2, <2>1 DEF InWrite
<1>5. CASE PassDedup(t, Current(t))
  <2>1. WriteEffect(t, "write_text")
    BY <1>1, <1>2, <1>3, <1>5 DEF PassDedup, InWrite, WriteEffect
  <2>2. QED BY <1>1, <1>2, <2>1 DEF InWrite
<1>6. CASE WriteText(t, Current(t))
  <2>1. CASE PutSucceeds(Current(t)) /\ Goto(t, "insert")
    <3>1. WriteEffect(t, "insert")
      BY <1>2, <1>3, <1>6, <2>1 DEF WriteText, PutSucceeds, InWrite, WriteEffect
    <3>2. QED BY <1>1, <1>2, <3>1 DEF InWrite
  <2>2. CASE (PutFails("put") \/ PutPanics(Current(t))) /\ Goto(t, "failed")
    <3>1. WriteEffect(t, "failed")
      BY <1>2, <1>3, <1>6, <2>2 DEF WriteText, PutFails, PutPanics, InWrite, WriteEffect, Locks
    <3>2. QED BY <1>1, <1>2, <3>1 DEF InWrite
  <2>3. QED BY <1>6, <2>1, <2>2 DEF WriteText
<1>7. CASE InsertKey(t, Current(t))
  <2>1. WriteEffect(t, "written")
    BY <1>2, <1>3, <1>7 DEF InsertKey, InWrite, WriteEffect
  <2>2. QED BY <1>1, <1>2, <2>1 DEF InWrite
<1>8. CASE DedupFails(t, Current(t)) \/ DedupPanics(t, Current(t))
  <2>1. WriteEffect(t, "failed")
    BY <1>1, <1>2, <1>3, <1>8 DEF DedupFails, DedupPanics, InWrite, WriteEffect, Locks
  <2>2. QED BY <1>1, <1>2, <2>1 DEF InWrite
<1>9. QED
  BY <1>4, <1>5, <1>6, <1>7, <1>8 DEF WriteMessage, WriteFrame

------------------------------------------------------------------------------
(* Type correctness.                                                       *)

(* The clause of a call that a step does not touch.                        *)
LEMMA CallOKStable ==
    ASSUME NEW t, CallOK(t), pc'[t] = pc[t], call'[t] = call[t], next'[t] = next[t]
    PROVE  CallOK(t)'
BY DEF CallOK, Current, FrameAt

LEMMA TypeInit == Init => TypeOK
BY RestartAssumption DEF Init, WriterInit, ArchiveInit, TypeOK, CallOK, Active, InWrite

LEMMA OnDemoteType ==
    ASSUME TypeOK, NEW t \in Tasks, OnDemote(t)
    PROVE  TypeOK'
<1>1. ASSUME NEW s \in Tasks, s # t, pc'[s] = pc[s], call'[s] = call[s], next'[s] = next[s]
      PROVE  CallOK(s)'
  BY <1>1, CallOKStable DEF TypeOK
<1>2. CASE StartDemote(t)
  <2>1. PICK c \in Conversations, b \in Batches :
            call' = [call EXCEPT ![t] = [conversation |-> c, messages |-> b]]
    BY <1>2 DEF StartDemote
  <2>2. /\ call'[t] \in Calls
        /\ call'[t].messages = b /\ b \in Seq(Messages)
        /\ next'[t] = 1
        /\ pc'[t] = "loop"
    BY <1>2, <2>1, BatchAssumption DEF StartDemote, TypeOK, Calls
  <2>3. CallOK(t)'
    BY <2>2, NoCallAssumption DEF CallOK, InWrite
  <2>4. \A s \in Tasks : CallOK(s)'
    BY <1>1, <1>2, <2>1, <2>3 DEF StartDemote, TypeOK
  <2>5. QED
    BY <1>2, <2>1, <2>2, <2>4 DEF StartDemote, TypeOK, Active
<1>3. CASE NextMessage(t)
  <2>1. pc[t] = "loop" /\ next[t] \in 1..Len(call[t].messages) + 1 /\ Len(call[t].messages) \in Nat
    BY <1>3, CallFacts DEF NextMessage, TypeOK, CallOK
  <2>2. call' = call /\ call[t] # NoCall
    BY <1>3, <2>1 DEF NextMessage, TypeOK, CallOK
  <2>3. CallOK(t)'
    <3>1. CASE next[t] > Len(call[t].messages) /\ Goto(t, "commit") /\ UNCHANGED next
      BY <2>1, <2>2, <3>1 DEF TypeOK, CallOK, InWrite
    <3>2. CASE /\ next[t] <= Len(call[t].messages)
               /\ next' = [next EXCEPT ![t] = @ + 1]
               /\ UNCHANGED pc
      BY <2>1, <2>2, <3>2 DEF TypeOK, CallOK, InWrite
    <3>3. CASE /\ next[t] <= Len(call[t].messages)
               /\ Current(t).text # NoText
               /\ Goto(t, "contains")
               /\ UNCHANGED next
      <4>1. Current(t)' = Current(t)
        BY <2>2, <3>3 DEF Current, FrameAt
      <4>2. QED BY <2>1, <2>2, <3>3, <4>1 DEF TypeOK, CallOK, InWrite
    <3>4. QED BY <1>3, <3>1, <3>2, <3>3 DEF NextMessage
  <2>4. \A s \in Tasks : CallOK(s)'
    BY <1>1, <1>3, <2>3 DEF NextMessage, TypeOK
  <2>5. QED
    BY <1>3, <2>1, <2>4 DEF NextMessage, TypeOK, Active
<1>4. CASE WriteMessage(t)
  <2>1. PICK label : WriteEffect(t, label)
    BY <1>4, WriteStep
  <2>2. CallOK(t)'
    BY <1>4, <2>1, WriteStep, FrameAssumption
       DEF WriteEffect, TypeOK, CallOK, InWrite, Current, FrameAt
  <2>3. \A s \in Tasks : CallOK(s)'
    BY <1>1, <2>1, <2>2 DEF WriteEffect, TypeOK
  <2>4. log' \in Seq(Frames) /\ Len(log') \in {Len(log), Len(log) + 1}
    <3>1. log \in Seq(Frames) /\ Len(log) \in Nat
      BY DEF TypeOK
    <3>2. log' = log \/ (Current(t) \in Frames /\ log' = Append(log, Current(t)))
      BY <2>1 DEF WriteEffect
    <3>3. QED BY <3>1, <3>2, AppendProperties
  <2>5. durable' \in 0..Len(log')
    BY <2>1, <2>4 DEF WriteEffect, TypeOK
  <2>6. dedup' \subseteq Frames
    BY <1>4, <2>1, WriteStep DEF WriteEffect, TypeOK
  <2>7. QED
    BY <2>1, <2>3, <2>4, <2>5, <2>6 DEF WriteEffect, TypeOK, InWrite, Active
<1>5. CASE MessageDone(t)
  <2>1. next[t] \in 1..Len(call[t].messages) /\ Len(call[t].messages) \in Nat
    BY <1>5, CallFacts DEF MessageDone, TypeOK, CallOK, InWrite
  <2>2. CallOK(t)'
    BY <1>5, <2>1 DEF MessageDone, TypeOK, CallOK, InWrite
  <2>3. \A s \in Tasks : CallOK(s)'
    BY <1>1, <1>5, <2>2 DEF MessageDone, TypeOK
  <2>4. QED
    BY <1>5, <2>1, <2>3 DEF MessageDone, TypeOK, Active
<1>6. CASE FinishDemote(t)
  <2>1. /\ log' = log /\ durable' \in 0..Len(log') /\ poisoned' \subseteq Locks
        /\ dedup' = dedup /\ sidecar' = sidecar /\ restarts' = restarts
    BY <1>6, CommitEffect DEF FinishDemote, TypeOK
  <2>2. CASE pc' = [pc EXCEPT ![t] = "failed"] /\ UNCHANGED caller
    <3>1. CallOK(t)'
      BY <1>6, <2>2 DEF FinishDemote, TypeOK, CallOK, InWrite
    <3>2. \A s \in Tasks : CallOK(s)'
      BY <1>1, <2>2, <3>1 DEF TypeOK
    <3>3. QED BY <2>1, <2>2, <3>2 DEF TypeOK, Active
  <2>3. CASE /\ evicted' = evicted \cup Archivable(t)
             /\ call' = [call EXCEPT ![t] = NoCall]
             /\ next' = [next EXCEPT ![t] = 0]
             /\ pc' = [pc EXCEPT ![t] = "idle"]
    <3>1. CallOK(t)'
      BY <2>3 DEF TypeOK, CallOK, InWrite
    <3>2. \A s \in Tasks : CallOK(s)'
      BY <1>1, <2>3, <3>1 DEF TypeOK
    <3>3. QED BY <2>1, <2>3, <3>2 DEF TypeOK, Active, Archivable
  <2>4. QED BY <1>6, <2>2, <2>3 DEF FinishDemote
<1>7. CASE PresentAgain(t)
  <2>1. call[t] # NoCall /\ Len(call[t].messages) \in Nat
    BY <1>7, CallFacts DEF PresentAgain, TypeOK, CallOK
  <2>2. CallOK(t)'
    BY <1>7, <2>1 DEF PresentAgain, TypeOK, CallOK, InWrite
  <2>3. \A s \in Tasks : CallOK(s)'
    BY <1>1, <1>7, <2>2 DEF PresentAgain, TypeOK
  <2>4. QED
    BY <1>7, <2>3 DEF PresentAgain, TypeOK, Active
<1>8. QED
  BY <1>2, <1>3, <1>4, <1>5, <1>6, <1>7 DEF OnDemote

LEMMA HostType ==
    ASSUME TypeOK, HostStep, UNCHANGED caller
    PROVE  TypeOK'
<1>1. CASE HostCommit
  <2>1. \A t \in Tasks : CallOK(t)'
    BY <1>1, CallOKStable DEF HostCommit, TypeOK
  <2>2. QED
    BY <1>1, <2>1 DEF HostCommit, CommitSucceeds, CommitFails, TypeOK
<1>2. CASE SaveSidecar
  <2>1. \A t \in Tasks : CallOK(t)'
    BY <1>2, CallOKStable DEF SaveSidecar, TypeOK
  <2>2. QED
    BY <1>2, <2>1 DEF SaveSidecar, TypeOK
<1>3. CASE Restart
  <2>1. log' \in Seq(Frames) /\ durable' \in 0..Len(log') /\ poisoned' = {}
    BY <1>3, ReopenKeeps DEF Restart, TypeOK
  <2>2. ASSUME NEW t \in Tasks
        PROVE  CallOK(t)'
    <3>1. pc'[t] = IF pc[t] = "idle" THEN "idle" ELSE "failed"
      BY <1>3 DEF Restart
    <3>2. QED
      BY <3>1 DEF TypeOK, CallOK, InWrite
  <2>3. pc' \in [Tasks -> Active \cup {"idle"}] /\ restarts' \in 0..MaxRestarts
    BY <1>3, RestartAssumption DEF Restart, TypeOK, Active
  <2>4. QED
    BY <1>3, <2>1, <2>2, <2>3 DEF Restart, TypeOK
<1>4. QED
  BY <1>1, <1>2, <1>3 DEF HostStep

(* Every reachable state is well-formed: a call in flight has the          *)
(* arguments it was given and its loop stays inside its batch.             *)
THEOREM TypeCorrect == Spec => []TypeOK
<1>1. ASSUME TypeOK, [Next]_vars PROVE TypeOK'
  <2>1. CASE Next
    BY <1>1, <2>1, OnDemoteType, HostType DEF Next
  <2>2. CASE UNCHANGED vars
    BY <1>1, <2>2, CallOKStable DEF vars, writer, TypeOK
  <2>3. QED BY <1>1, <2>1, <2>2
<1>2. QED BY <1>1, TypeInit, PTL DEF Spec

------------------------------------------------------------------------------
(* The invariant.  Two facts carry it through every step: until the        *)
(* process ends no appended frame is lost, and no flushed frame ever is.   *)

WrittenKept == \A e : Written(e) => Written(e)'
DurableKept == \A e : Durable(e) => Durable(e)'

(* A step of a call or a commit of the host appends at most one frame and  *)
(* takes back nothing that was flushed.                                    *)
LEMMA LogGrows ==
    ASSUME TypeOK, (\E t \in Tasks : OnDemote(t)) \/ HostCommit
    PROVE  /\ log' = log \/ \E f \in Frames : log' = Append(log, f)
           /\ durable' \in durable..Len(log')
<1>1. log \in Seq(Frames) /\ Len(log) \in Nat /\ durable \in 0..Len(log)
      /\ poisoned \subseteq Locks
  BY DEF TypeOK
<1>2. ASSUME NEW t \in Tasks, WriteMessage(t)
      PROVE  /\ log' = log \/ \E f \in Frames : log' = Append(log, f)
             /\ durable' \in durable..Len(log')
  <2>1. PICK label : WriteEffect(t, label)
    BY <1>2, WriteStep
  <2>2. log' = log \/ (Current(t) \in Frames /\ log' = Append(log, Current(t)))
    BY <2>1 DEF WriteEffect
  <2>3. Len(log') \in {Len(log), Len(log) + 1}
    BY <1>1, <2>2, AppendProperties
  <2>4. durable' = durable
    BY <2>1 DEF WriteEffect
  <2>5. QED BY <1>1, <2>2, <2>3, <2>4
<1>3. ASSUME NEW t \in Tasks, FinishDemote(t)
      PROVE  log' = log /\ durable' \in durable..Len(log')
  BY <1>1, <1>3, CommitEffect DEF FinishDemote
<1>4. ASSUME HostCommit
      PROVE  log' = log /\ durable' \in durable..Len(log')
  BY <1>1, <1>4, CommitEffect DEF HostCommit
<1>5. ASSUME NEW t \in Tasks,
             StartDemote(t) \/ NextMessage(t) \/ MessageDone(t) \/ PresentAgain(t)
      PROVE  log' = log /\ durable' \in durable..Len(log')
  BY <1>1, <1>5 DEF StartDemote, NextMessage, MessageDone, PresentAgain
<1>6. QED BY <1>2, <1>3, <1>4, <1>5 DEF OnDemote

(* Such a step loses no frame.                                             *)
LEMMA NothingLost ==
    ASSUME TypeOK, (\E t \in Tasks : OnDemote(t)) \/ HostCommit
    PROVE  WrittenKept /\ DurableKept
<1>1. /\ log \in Seq(Frames) /\ durable \in 0..Len(log) /\ durable' \in durable..Len(log')
      /\ log' = log \/ \E f \in Frames : log' = Append(log, f)
  BY LogGrows DEF TypeOK
<1>2. /\ Len(log) \in Nat /\ Len(log') \in Nat /\ durable \in Nat /\ durable <= Len(log)
      /\ \A i \in 1..Len(log) : i \in 1..Len(log') /\ log'[i] = log[i]
  BY <1>1, Appended
<1>3. \A i \in 1..durable : i \in 1..durable' /\ log'[i] = log[i]
  BY <1>1, <1>2
<1>4. QED BY <1>2, <1>3 DEF WrittenKept, DurableKept, Written, Durable

(* The clause of a call that a step does not touch.                        *)
LEMMA ProcessedStable ==
    ASSUME NEW t, ProcessedOK(t), WrittenKept,
           pc'[t] = pc[t], call'[t] = call[t], next'[t] = next[t]
    PROVE  ProcessedOK(t)'
BY DEF ProcessedOK, WrittenKept, Current, FrameAt

LEMMA InvInit == Init => DemotionInv
BY TypeInit DEF Init, WriterInit, DemotionInv, DedupIsWritten, SidecarIsDurable,
                ProcessedIsWritten, ProcessedOK, EvictedIsDurable, Active

LEMMA ProcessedStep ==
    ASSUME DemotionInv, NEW t \in Tasks, OnDemote(t)
    PROVE  ProcessedIsWritten'
<1>1. TypeOK /\ ProcessedOK(t) /\ WrittenKept
  BY NothingLost DEF DemotionInv, ProcessedIsWritten
<1>2. SUFFICES ProcessedOK(t)'
  <2>1. ASSUME NEW s \in Tasks, s # t PROVE ProcessedOK(s)'
    <3>1. pc'[s] = pc[s] /\ call'[s] = call[s] /\ next'[s] = next[s]
      <4>1. CASE WriteMessage(t)
        BY <1>1, <2>1, <4>1, WriteStep DEF WriteEffect, TypeOK
      <4>2. CASE ~WriteMessage(t)
        BY <1>1, <2>1, <4>2 DEF OnDemote, StartDemote, NextMessage, MessageDone, FinishDemote,
                                PresentAgain, TypeOK
      <4>3. QED BY <4>1, <4>2
    <3>2. QED BY <1>1, <3>1, ProcessedStable DEF DemotionInv, ProcessedIsWritten
  <2>2. QED BY <1>2, <2>1 DEF ProcessedIsWritten
<1>3. CASE StartDemote(t)
  BY <1>1, <1>3 DEF StartDemote, TypeOK, ProcessedOK
<1>4. CASE NextMessage(t)
  <2>1. /\ pc[t] = "loop" /\ call' = call /\ log' = log
        /\ next[t] \in Nat /\ next'[t] \in {next[t], next[t] + 1}
        /\ pc'[t] \in {"loop", "commit", "contains"}
        /\ next'[t] = next[t] + 1 => Current(t).text = NoText
    BY <1>1, <1>4 DEF NextMessage, TypeOK
  <2>2. Current(t).text = NoText => Current(t) \notin Frames
    BY FrameAssumption DEF Frames
  <2>3. \A i \in 1..next'[t] - 1 : FrameAt(t, i) \in Frames => Written(FrameAt(t, i))
    BY <1>1, <2>1, <2>2 DEF ProcessedOK, Active, Current
  <2>4. \A i : FrameAt(t, i)' = FrameAt(t, i) /\ (Written(FrameAt(t, i))' <=> Written(FrameAt(t, i)))
    BY <2>1 DEF FrameAt, Written
  <2>5. QED BY <2>1, <2>3, <2>4 DEF ProcessedOK
<1>5. CASE WriteMessage(t)
  <2>1. PICK label : WriteEffect(t, label)
    BY <1>1, <1>5, WriteStep
  <2>2. /\ pc[t] \in Active \ {"failed"}
        /\ pc'[t] = label
        /\ Current(t)' = Current(t)
        /\ next'[t] = next[t]
        /\ \A i : FrameAt(t, i)' = FrameAt(t, i)
    BY <1>1, <1>5, <2>1, WriteStep DEF WriteEffect, TypeOK, InWrite, Active, Current, FrameAt
  <2>3. ASSUME label \in {"insert", "written", "skipped"}, Current(t) \in Frames
        PROVE  Written(Current(t))'
    <3>1. CASE label = "insert"
      <4>1. log' = Append(log, Current(t))
        BY <2>1, <3>1 DEF WriteEffect
      <4>2. Len(log') = Len(log) + 1 /\ log'[Len(log) + 1] = Current(t) /\ Len(log) \in Nat
        BY <1>1, <2>3, <4>1, AppendProperties DEF TypeOK
      <4>3. QED BY <2>2, <4>2 DEF Written
    <3>2. CASE label = "written"
      <4>1. pc[t] = "insert"
        BY <2>1, <3>2 DEF WriteEffect
      <4>2. Written(Current(t))
        BY <1>1, <2>3, <4>1 DEF ProcessedOK
      <4>3. QED BY <1>1, <2>2, <4>2 DEF WrittenKept
    <3>3. CASE label = "skipped"
      <4>1. Current(t).text = Blank \/ Current(t) \in dedup
        BY <2>1, <3>3 DEF WriteEffect
      <4>2. Current(t) \in dedup
        BY <2>3, <4>1, FrameAssumption DEF Frames
      <4>3. Written(Current(t))
        BY <4>2 DEF DemotionInv, DedupIsWritten
      <4>4. QED BY <1>1, <2>2, <4>3 DEF WrittenKept
    <3>4. QED BY <2>3, <3>1, <3>2, <3>3
  <2>4. \A i \in 1..next[t] - 1 : FrameAt(t, i) \in Frames => Written(FrameAt(t, i))'
    BY <1>1, <2>2 DEF ProcessedOK, WrittenKept
  <2>5. QED BY <2>2, <2>3, <2>4 DEF ProcessedOK
<1>6. CASE MessageDone(t)
  <2>1. /\ pc[t] \in {"written", "skipped"} /\ call' = call /\ log' = log
        /\ next[t] \in Nat /\ next'[t] = next[t] + 1
        /\ pc'[t] = "loop"
    BY <1>1, <1>6 DEF MessageDone, TypeOK
  <2>2. \A i \in 1..next'[t] - 1 : FrameAt(t, i) \in Frames => Written(FrameAt(t, i))
    BY <1>1, <2>1 DEF ProcessedOK, Active, Current
  <2>3. \A i : FrameAt(t, i)' = FrameAt(t, i) /\ (Written(FrameAt(t, i))' <=> Written(FrameAt(t, i)))
    BY <2>1 DEF FrameAt, Written
  <2>4. QED BY <2>1, <2>2, <2>3 DEF ProcessedOK
<1>7. CASE FinishDemote(t)
  BY <1>1, <1>7 DEF FinishDemote, TypeOK, ProcessedOK, Active
<1>8. CASE PresentAgain(t)
  BY <1>1, <1>8 DEF PresentAgain, TypeOK, ProcessedOK
<1>9. QED
  BY <1>3, <1>4, <1>5, <1>6, <1>7, <1>8 DEF OnDemote

LEMMA DedupStep ==
    ASSUME DemotionInv, NEW t \in Tasks, OnDemote(t)
    PROVE  DedupIsWritten' /\ SidecarIsDurable'
<1>1. WrittenKept /\ DurableKept /\ sidecar' = sidecar
  BY NothingLost, WriteStep
     DEF DemotionInv, OnDemote, StartDemote, NextMessage, MessageDone, FinishDemote, PresentAgain,
         WriteEffect
<1>2. CASE WriteMessage(t)
  <2>1. dedup' = dedup \/ (pc[t] = "insert" /\ dedup' = dedup \cup {Current(t)})
    BY <1>2, WriteStep DEF DemotionInv, WriteEffect
  <2>2. pc[t] = "insert" => Written(Current(t))
    BY <1>2, WriteStep DEF DemotionInv, ProcessedIsWritten, ProcessedOK
  <2>3. QED BY <1>1, <2>1, <2>2
               DEF DemotionInv, DedupIsWritten, SidecarIsDurable, WrittenKept, DurableKept
<1>3. CASE ~WriteMessage(t)
  <2>1. dedup' = dedup
    BY <1>3 DEF OnDemote, StartDemote, NextMessage, MessageDone, FinishDemote, PresentAgain
  <2>2. QED BY <1>1, <2>1
               DEF DemotionInv, DedupIsWritten, SidecarIsDurable, WrittenKept, DurableKept
<1>4. QED BY <1>2, <1>3

(* The step the property is about: when on_demote returns Ok, the commit   *)
(* it made has flushed every frame of the batch, whoever appended it.      *)
LEMMA EvictStep ==
    ASSUME CommitEachTurn, DemotionInv, NEW t \in Tasks, OnDemote(t)
    PROVE  EvictedIsDurable'
<1>1. TypeOK /\ DurableKept
  BY NothingLost DEF DemotionInv
<1>2. CASE evicted' = evicted
  BY <1>1, <1>2 DEF DemotionInv, EvictedIsDurable, DurableKept
<1>3. CASE evicted' # evicted
  <2>1. FinishDemote(t)
    BY <1>1, <1>3, WriteStep
       DEF OnDemote, StartDemote, NextMessage, MessageDone, PresentAgain, WriteEffect
  <2>2. /\ pc[t] = "commit" /\ CommitSucceeds
        /\ evicted' = evicted \cup Archivable(t)
    BY <1>3, <2>1 DEF FinishDemote, CommitIfEachTurnSucceeds
  <2>3. next[t] = Len(call[t].messages) + 1 /\ Len(call[t].messages) \in Nat
    BY <1>1, <2>2, CallFacts DEF TypeOK, CallOK
  <2>4. \A f \in Archivable(t) : Written(f)
    BY <2>2, <2>3 DEF Archivable, DemotionInv, ProcessedIsWritten, ProcessedOK, Active
  <2>5. \A f \in Archivable(t) : Durable(f)'
    BY <2>2, <2>4 DEF CommitSucceeds, Written, Durable
  <2>6. QED BY <1>1, <2>2, <2>5 DEF DemotionInv, EvictedIsDurable, DurableKept
<1>4. QED BY <1>2, <1>3

(* The host's steps.  A restart may cut off appended frames, but the keys  *)
(* it starts with are those of the snapshot, and no call is under way.     *)
LEMMA HostInv ==
    ASSUME Sidecar # "always", DemotionInv, HostStep, UNCHANGED caller
    PROVE  DemotionInv'
<1>1. TypeOK /\ TypeOK'
  BY HostType DEF DemotionInv
<1>2. CASE HostCommit
  <2>1. WrittenKept /\ DurableKept
    BY <1>1, <1>2, NothingLost
  <2>2. ProcessedIsWritten'
    BY <1>2, <2>1, ProcessedStable DEF HostCommit, DemotionInv, ProcessedIsWritten
  <2>3. QED
    BY <1>1, <1>2, <2>1, <2>2
       DEF HostCommit, DemotionInv, DedupIsWritten, SidecarIsDurable, EvictedIsDurable,
           WrittenKept, DurableKept
<1>3. CASE SaveSidecar
  <2>1. durable = Len(log) /\ sidecar' = dedup /\ UNCHANGED <<archive, dedup, pc, caller>>
    BY <1>3, SidecarAssumption DEF SaveSidecar
  <2>2. WrittenKept
    BY <2>1 DEF WrittenKept, Written
  <2>3. ProcessedIsWritten'
    BY <2>1, <2>2, ProcessedStable DEF DemotionInv, ProcessedIsWritten
  <2>4. SidecarIsDurable'
    BY <2>1 DEF DemotionInv, DedupIsWritten, SidecarIsDurable, Written, Durable
  <2>5. QED
    BY <1>1, <2>1, <2>3, <2>4
       DEF DemotionInv, DedupIsWritten, EvictedIsDurable, Written, Durable
<1>4. CASE Restart
  <2>1. DurableKept /\ \A e : Durable(e)' => Written(e)'
    BY <1>1, <1>4, ReopenKeeps DEF Restart, TypeOK, DurableKept
  <2>2. dedup' = sidecar /\ sidecar' = sidecar /\ evicted' = evicted
    BY <1>4 DEF Restart
  <2>3. \A t \in Tasks : pc'[t] \in {"idle", "failed"}
    BY <1>4 DEF Restart
  <2>4. ProcessedIsWritten'
    BY <2>3 DEF ProcessedIsWritten, ProcessedOK, Active
  <2>5. QED
    BY <1>1, <2>1, <2>2, <2>4
       DEF DemotionInv, DedupIsWritten, SidecarIsDurable, EvictedIsDurable, DurableKept
<1>5. QED BY <1>2, <1>3, <1>4 DEF HostStep

LEMMA InvStep ==
    ASSUME CommitEachTurn, Sidecar # "always", DemotionInv, [Next]_vars
    PROVE  DemotionInv'
<1>1. CASE \E t \in Tasks : OnDemote(t)
  <2>1. PICK t \in Tasks : OnDemote(t)
    BY <1>1
  <2>2. TypeOK'
    BY <2>1, OnDemoteType DEF DemotionInv
  <2>3. QED
    BY <2>1, <2>2, ProcessedStep, DedupStep, EvictStep DEF DemotionInv
<1>2. CASE HostStep /\ UNCHANGED caller
  BY <1>2, HostInv
<1>3. CASE UNCHANGED vars
  <2>1. WrittenKept
    BY <1>3 DEF vars, writer, WrittenKept, Written
  <2>2. TypeOK'
    BY <1>3, CallOKStable DEF vars, writer, DemotionInv, TypeOK
  <2>3. ProcessedIsWritten'
    BY <1>3, <2>1, ProcessedStable DEF vars, writer, DemotionInv, ProcessedIsWritten
  <2>4. QED
    BY <1>3, <2>2, <2>3 DEF vars, writer, DemotionInv, DedupIsWritten, SidecarIsDurable,
                            EvictedIsDurable, Written, Durable
<1>4. QED BY <1>1, <1>2, <1>3 DEF Next

(* The inductive invariant holds in every reachable state, if on_demote    *)
(* commits and the host takes its snapshots only of committed frames.      *)
THEOREM InvariantHolds ==
    ASSUME CommitEachTurn, Sidecar # "always"
    PROVE  Spec => []DemotionInv
<1>1. DemotionInv /\ [Next]_vars => DemotionInv'
  BY InvStep
<1>2. QED BY <1>1, InvInit, PTL DEF Spec

(* A message that CompactingMemory evicted because on_demote returned Ok   *)
(* is on disk: for any number of concurrent calls, under failed and        *)
(* panicking puts and commits, and over any number of restarts.            *)
THEOREM EvictedMessagesAreDurable ==
    ASSUME CommitEachTurn, Sidecar # "always"
    PROVE  Spec => []EvictedIsDurable
<1>1. DemotionInv => EvictedIsDurable
  BY DEF DemotionInv
<1>2. QED BY <1>1, InvariantHolds, PTL

(* No dedup key stands for a frame that is not in the archive, so a retry  *)
(* after a failed batch skips only what was written.                       *)
THEOREM DedupKeysAreWritten ==
    ASSUME CommitEachTurn, Sidecar # "always"
    PROVE  Spec => []DedupIsWritten
<1>1. DemotionInv => DedupIsWritten
  BY DEF DemotionInv
<1>2. QED BY <1>1, InvariantHolds, PTL
------------------------------------------------------------------------------
(* The refinement.  What the abstract memory stores is the flushed prefix. *)

LEMMA PrefixOfGrown ==
    ASSUME NEW S, NEW s \in Seq(S), NEW t \in Seq(S),
           NEW n \in 0..Len(s), NEW m \in n..Len(t),
           \A i \in 1..n : t[i] = s[i]
    PROVE  AtLeastOnce!IsPrefix(SubSeq(s, 1, n), SubSeq(t, 1, m))
<1> DEFINE u == SubSeq(s, 1, n)
           v == SubSeq(t, 1, m)
<1>1. Len(s) \in Nat /\ Len(t) \in Nat /\ n \in 0..m /\ m \in 0..Len(t)
  BY LenProperties
<1>2. u \in Seq(S) /\ Len(u) = n /\ \A i \in 1..n : u[i] = s[i]
  BY TakeProperties
<1>3. v \in Seq(S) /\ Len(v) = m /\ \A i \in 1..m : v[i] = t[i]
  BY <1>1, TakeProperties
<1> HIDE DEF u, v
<1>4. SubSeq(u, 1, n) = SubSeq(v, 1, n)
  BY <1>1, <1>2, <1>3, BeginsWith
<1>5. AtLeastOnce!IsPrefix(u, v)
  BY <1>1, <1>2, <1>3, <1>4 DEF AtLeastOnce!IsPrefix
<1>6. QED BY <1>5 DEF u, v

LEMMA PrefixKept ==
    ASSUME TypeOK, TypeOK', Next
    PROVE  AtLeastOnce!IsPrefix(SubSeq(log, 1, durable), SubSeq(log', 1, durable'))
<1>1. /\ log \in Seq(Frames) /\ durable \in 0..Len(log) /\ Len(log) \in Nat
      /\ log' \in Seq(Frames) /\ durable' \in 0..Len(log') /\ Len(log') \in Nat
  BY DEF TypeOK
<1>2. durable' \in durable..Len(log') /\ \A i \in 1..durable : log'[i] = log[i]
  <2>1. CASE (\E t \in Tasks : OnDemote(t)) \/ HostCommit
    <3>1. /\ log' = log \/ \E f \in Frames : log' = Append(log, f)
          /\ durable' \in durable..Len(log')
      BY <2>1, LogGrows
    <3>2. \A i \in 1..durable : log'[i] = log[i]
      BY <1>1, <3>1, AppendProperties
    <3>3. QED BY <3>1, <3>2
  <2>2. CASE SaveSidecar
    BY <1>1, <2>2 DEF SaveSidecar
  <2>3. CASE Restart
    <3>1. PICK kept \in durable..Len(log) : log' = SubSeq(log, 1, kept) /\ durable' = kept
      BY <2>3 DEF Restart, Reopen
    <3>2. kept \in 0..Len(log)
      BY <1>1
    <3>3. \A i \in 1..kept : log'[i] = log[i]
      BY <1>1, <3>1, <3>2, TakeProperties
    <3>4. QED BY <1>1, <3>1, <3>3
  <2>4. QED BY <2>1, <2>2, <2>3 DEF Next, HostStep
<1>3. QED BY <1>1, <1>2, PrefixOfGrown

(* MemvidDemotionHook keeps the promise of DurableMemory, every frame at   *)
(* least once: what it flushed is never lost or moved again, and its       *)
(* caller evicts a message only when the message is on disk.               *)
THEOREM ImplementsAtLeastOnce ==
    ASSUME CommitEachTurn, Sidecar # "always"
    PROVE  Spec => AtLeastOnceSpec
<1>1. Init => AtLeastOnce!Init
  BY DEF Init, WriterInit, ArchiveInit, AtLeastOnce!Init
<1>2. ASSUME DemotionInv, DemotionInv', [Next]_vars
      PROVE  [AtLeastOnce!Next]_<<SubSeq(log, 1, durable), evicted>>
  <2>1. CASE UNCHANGED vars
    BY <2>1 DEF vars, writer
  <2>2. CASE Next
    <3>1. AtLeastOnce!IsPrefix(SubSeq(log, 1, durable), SubSeq(log', 1, durable'))
      BY <1>2, <2>2, PrefixKept DEF DemotionInv
    <3>2. evicted \subseteq evicted'
      BY <1>2, <2>2, WriteStep
         DEF Next, OnDemote, StartDemote, NextMessage, MessageDone, FinishDemote, PresentAgain,
             WriteEffect, DemotionInv
    <3>3. evicted' \subseteq {SubSeq(log', 1, durable')[i] : i \in DOMAIN SubSeq(log', 1, durable')}
      <4>1. log' \in Seq(Frames) /\ durable' \in 0..Len(log')
        BY <1>2 DEF DemotionInv, TypeOK
      <4>2. /\ SubSeq(log', 1, durable') \in Seq(Frames)
            /\ Len(SubSeq(log', 1, durable')) = durable'
            /\ \A i \in 1..durable' : SubSeq(log', 1, durable')[i] = log'[i]
        BY <4>1, TakeProperties
      <4>3. DOMAIN SubSeq(log', 1, durable') = 1..durable'
        BY <4>2, LenProperties
      <4>4. \A f \in evicted' : \E i \in 1..durable' : log'[i] = f
        BY <1>2 DEF DemotionInv, EvictedIsDurable, Durable
      <4>5. QED BY <4>2, <4>3, <4>4
    <3>4. QED BY <3>1, <3>2, <3>3 DEF AtLeastOnce!Next, AtLeastOnce!Persist, AtLeastOnce!Release
  <2>3. QED BY <1>2, <2>1, <2>2
<1>3. QED
  BY <1>1, <1>2, InvariantHolds, PTL DEF Spec, AtLeastOnceSpec, AtLeastOnce!Spec
==============================================================================
