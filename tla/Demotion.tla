------------------------------ MODULE Demotion -------------------------------
(***************************************************************************)
(* MemvidDemotionHook (demotion.rs): on_demote archives the messages the   *)
(* caller is about to evict from its context, and returns Ok only then.    *)
(* Several calls may be in flight on clones of one hook, which share the   *)
(* store and the DedupSet.  The caller is CompactingMemory of the upstream *)
(* crate: it evicts a batch when on_demote returns Ok and presents it      *)
(* again when it returned Err or when the process died in between.         *)
(*                                                                         *)
(* A hook whose policy is Disabled, and a call with no message, return Ok  *)
(* and touch nothing: neither is a step here.                              *)
(***************************************************************************)
EXTENDS FrameWriter

CONSTANTS
    Messages,
    TextOf,         \* what the configured WritePolicy renders for a message
    Batches,        \* the message vectors the caller may present
    NoCall

Calls == [conversation : Conversations, messages : Batches]

ASSUME TextAssumption == TextOf \in [Messages -> Texts \cup {Blank, NoText}]
ASSUME BatchAssumption == \A b \in Batches : b \in Seq(Messages) /\ b # <<>>
ASSUME NoCallAssumption == NoCall \notin Calls

VARIABLES
    call,       \* call[t]: the arguments of the call in flight
    next,       \* next[t]: position of its loop in the batch
    evicted     \* the frames of all messages the caller has evicted

caller == <<call, next, evicted>>
vars   == <<writer, caller>>

FrameAt(t, i) ==
    [conversation |-> call[t].conversation, text |-> TextOf[call[t].messages[i]]]

Current(t) == FrameAt(t, next[t])

Archivable(t) ==
    {f \in Frames : \E i \in 1..Len(call[t].messages) : FrameAt(t, i) = f}

Init ==
    /\ WriterInit
    /\ call = [t \in Tasks |-> NoCall]
    /\ next = [t \in Tasks |-> 0]
    /\ evicted = {}

------------------------------------------------------------------------------
StartDemote(t) ==
    /\ pc[t] = "idle"
    /\ \E c \in Conversations, b \in Batches :
          call' = [call EXCEPT ![t] = [conversation |-> c, messages |-> b]]
    /\ next' = [next EXCEPT ![t] = 1]
    /\ Goto(t, "loop")
    /\ UNCHANGED <<archive, dedup, evicted, host>>

(* Mutants of NextMessage: the loop stops before the last message; a       *)
(* message without text is not stepped over; the batch is given up before  *)
(* the commit.                                                             *)
NextMessageStopsEarly(t) ==
    /\ pc[t] = "loop"
    /\ Goto(t, IF next[t] >= Len(call[t].messages) THEN "commit" ELSE "contains")
    /\ UNCHANGED <<archive, dedup, caller, host>>

NextMessageStays(t) ==
    /\ pc[t] = "loop"
    /\ \/ next[t] > Len(call[t].messages) /\ Goto(t, "commit")
       \/ /\ next[t] <= Len(call[t].messages)
          /\ Goto(t, IF Current(t).text = NoText THEN "loop" ELSE "contains")
    /\ UNCHANGED <<archive, dedup, caller, host>>

NextMessageEvicts(t) ==
    /\ pc[t] = "loop"
    /\ \/ /\ next[t] > Len(call[t].messages)
          /\ evicted' = evicted \cup Archivable(t)
          /\ Goto(t, "commit")
          /\ UNCHANGED next
       \/ /\ next[t] <= Len(call[t].messages)
          /\ Current(t).text = NoText
          /\ next' = [next EXCEPT ![t] = @ + 1]
          /\ UNCHANGED <<pc, evicted>>
       \/ /\ next[t] <= Len(call[t].messages)
          /\ Current(t).text # NoText
          /\ Goto(t, "contains")
          /\ UNCHANGED <<next, evicted>>
    /\ UNCHANGED <<archive, dedup, call, host>>

(* The head of the loop: render the next message, skip it when there is    *)
(* nothing to archive, leave the loop after the last.                      *)
NextMessage(t) ==
    /\ pc[t] = "loop"
    /\ \/ /\ next[t] > Len(call[t].messages)
          /\ Goto(t, "commit")
          /\ UNCHANGED next
       \/ /\ next[t] <= Len(call[t].messages)
          /\ Current(t).text = NoText
          /\ next' = [next EXCEPT ![t] = @ + 1]
          /\ UNCHANGED pc
       \/ /\ next[t] <= Len(call[t].messages)
          /\ Current(t).text # NoText
          /\ Goto(t, "contains")
          /\ UNCHANGED next
    /\ UNCHANGED <<archive, dedup, call, evicted, host>>

WriteMessage(t) ==
    /\ WriteFrame(t, Current(t))
    /\ UNCHANGED caller

(* write maps both Ok(true) and Ok(false) of write_frame to Ok(()).        *)
MessageDone(t) ==
    /\ pc[t] \in {"written", "skipped"}
    /\ next' = [next EXCEPT ![t] = @ + 1]
    /\ Goto(t, "loop")
    /\ UNCHANGED <<archive, dedup, call, evicted, host>>

(* Mutant of FinishDemote: the error of the commit is not returned.        *)
FinishDemoteReturnsOk(t) ==
    /\ pc[t] = "commit"
    /\ CommitIfEachTurnSucceeds \/ CommitIfEachTurnFails
    /\ evicted' = evicted \cup Archivable(t)
    /\ call' = [call EXCEPT ![t] = NoCall]
    /\ next' = [next EXCEPT ![t] = 0]
    /\ Goto(t, "idle")
    /\ UNCHANGED <<dedup, host>>

(* on_demote commits whether or not it wrote a frame; Ok makes the caller  *)
(* evict the batch.                                                        *)
FinishDemote(t) ==
    /\ pc[t] = "commit"
    /\ \/ /\ CommitIfEachTurnSucceeds
          /\ evicted' = evicted \cup Archivable(t)
          /\ call' = [call EXCEPT ![t] = NoCall]
          /\ next' = [next EXCEPT ![t] = 0]
          /\ Goto(t, "idle")
       \/ /\ CommitIfEachTurnFails
          /\ Goto(t, "failed")
          /\ UNCHANGED caller
    /\ UNCHANGED <<dedup, host>>

(* The caller still holds the batch of a call that failed.                 *)
PresentAgain(t) ==
    /\ pc[t] = "failed"
    /\ next' = [next EXCEPT ![t] = 1]
    /\ Goto(t, "loop")
    /\ UNCHANGED <<archive, dedup, call, evicted, host>>

------------------------------------------------------------------------------
OnDemote(t) ==
    \/ StartDemote(t)
    \/ NextMessage(t)
    \/ WriteMessage(t)
    \/ MessageDone(t)
    \/ FinishDemote(t)
    \/ PresentAgain(t)

Next ==
    \/ \E t \in Tasks : OnDemote(t)
    \/ HostStep /\ UNCHANGED caller

Spec == Init /\ [][Next]_vars

(* A call that was started runs on, a caller whose batch was refused       *)
(* presents it again, and an archive that is asked again and again to put  *)
(* or to commit does not refuse for ever.                                  *)
Fairness ==
    \A t \in Tasks :
        /\ WF_vars(NextMessage(t) \/ WriteMessage(t) \/ MessageDone(t)
                   \/ FinishDemote(t) \/ PresentAgain(t))
        /\ SF_vars(WriteMessage(t) /\ pc'[t] = "insert")
        /\ SF_vars(FinishDemote(t) /\ pc'[t] = "idle")

------------------------------------------------------------------------------
Active == {"loop", "contains", "write_text", "insert", "written", "skipped", "commit", "failed"}

InWrite == {"contains", "write_text", "insert", "written", "skipped"}

CallOK(t) ==
    /\ pc[t] = "idle" <=> call[t] = NoCall
    /\ pc[t] # "idle" => next[t] \in 1..Len(call[t].messages) + 1
    /\ pc[t] \in InWrite => next[t] <= Len(call[t].messages) /\ Current(t).text # NoText
    /\ pc[t] \in {"write_text", "insert", "written"} => Current(t).text \in Texts
    /\ pc[t] = "commit" => next[t] = Len(call[t].messages) + 1

(* The state is well-formed; a call has arguments exactly while it is in   *)
(* flight, and its loop is inside its batch (MemvidDemotionHook's fields,  *)
(* on_demote's locals).                                                    *)
TypeOK ==
    /\ log \in Seq(Frames)
    /\ durable \in 0..Len(log)
    /\ poisoned \subseteq Locks
    /\ dedup \subseteq Frames
    /\ sidecar \subseteq Frames
    /\ evicted \subseteq Frames
    /\ restarts \in 0..MaxRestarts
    /\ pc \in [Tasks -> Active \cup {"idle"}]
    /\ call \in [Tasks -> Calls \cup {NoCall}]
    /\ next \in [Tasks -> Nat]
    /\ \A t \in Tasks : CallOK(t)

(* "A failed put aborts the batch so the upstream CompactingMemory does    *)
(* not evict messages that did not durably land" (demotion.rs, Errors):    *)
(* whatever calls interleave, fail, panic or are cut off by a restart, a   *)
(* message the caller evicted is on disk.                                  *)
EvictedIsDurable == \A f \in evicted : Durable(f)

ProcessedOK(t) ==
    /\ pc[t] \in Active \ {"failed"} =>
          \A i \in 1..next[t] - 1 : FrameAt(t, i) \in Frames => Written(FrameAt(t, i))
    /\ pc[t] \in {"insert", "written", "skipped"} /\ Current(t) \in Frames =>
          Written(Current(t))

(* What the loop of a call in flight is past has been appended, by this    *)
(* call or by another one, and so has a frame whose put or dedup hit is    *)
(* behind the call.                                                        *)
ProcessedIsWritten == \A t \in Tasks : ProcessedOK(t)

(* The inductive invariant behind EvictedIsDurable.                        *)
DemotionInv ==
    /\ TypeOK
    /\ DedupIsWritten
    /\ SidecarIsDurable
    /\ ProcessedIsWritten
    /\ EvictedIsDurable

(* The hook implements the promise of DurableMemory, at least once.        *)
AtLeastOnce ==
    INSTANCE DurableMemory WITH
        stored <- SubSeq(log, 1, durable), released <- evicted, ExactlyOnce <- FALSE

AtLeastOnceSpec == AtLeastOnce!Spec

(* Every batch a caller wants to evict is evicted in the end, however      *)
(* often puts and commits fail first and although the process may be       *)
(* restarted in between: a retry gets past what the call before it wrote.  *)
EveryBatchIsEvicted == \A t \in Tasks : pc[t] # "idle" ~> pc[t] = "idle"
==============================================================================
