--------------------------- MODULE StoringCompactor --------------------------
(***************************************************************************)
(* MemvidStoringCompactor (compactor.rs): compact asks the wrapped         *)
(* compactor for an artifact, archives its rendering through write_frame   *)
(* and returns the artifact.  Ok makes the caller replace the messages it  *)
(* passed by that artifact; after Err, or when the process died, it still  *)
(* has the messages and asks again.                                        *)
(*                                                                         *)
(* The wrapped compactor may fail, and need not give the same artifact     *)
(* twice: Summaries[r] are the renderings it may give for request r.       *)
(***************************************************************************)
EXTENDS FrameWriter

CONSTANTS
    Requests,      \* the (conversation, evicted messages, carry-over) of a call
    ConversationOf,
    Summaries,
    None           \* no request, no summary

ASSUME RequestAssumption ==
    /\ ConversationOf \in [Requests -> Conversations]
    /\ Summaries \in [Requests -> SUBSET (Texts \cup {Blank, NoText})]
ASSUME NoneAssumption == None \notin Requests /\ None \notin Texts \cup {Blank, NoText}

VARIABLES
    request,    \* request[t]: what call t was asked to compact
    summary,    \* summary[t]: the rendered artifact, once the wrapped compactor gave it
    replaced    \* the summaries that stand in for messages the caller dropped

caller == <<request, summary, replaced>>
vars   == <<writer, caller>>

Frame(t) == [conversation |-> ConversationOf[request[t]], text |-> summary[t]]

Init ==
    /\ WriterInit
    /\ request = [t \in Tasks |-> None]
    /\ summary = [t \in Tasks |-> None]
    /\ replaced = {}

------------------------------------------------------------------------------
(* compact returns Ok(artifact); f is the frame it stands on, if any.      *)
Return(t, f) ==
    /\ replaced' = replaced \cup f
    /\ request' = [request EXCEPT ![t] = None]
    /\ summary' = [summary EXCEPT ![t] = None]
    /\ Goto(t, "idle")

StartCompact(t) ==
    /\ pc[t] = "idle"
    /\ \E r \in Requests : request' = [request EXCEPT ![t] = r]
    /\ Goto(t, "inner")
    /\ UNCHANGED <<archive, dedup, host, summary, replaced>>

InnerFails(t) ==
    /\ pc[t] = "inner"
    /\ "inner" \in Faults
    /\ Goto(t, "failed")
    /\ UNCHANGED <<archive, dedup, host, caller>>

(* An artifact that renders to no text is returned without being archived. *)
InnerCompacts(t) ==
    /\ pc[t] = "inner"
    /\ \E s \in Summaries[request[t]] :
          \/ s # NoText /\ summary' = [summary EXCEPT ![t] = s] /\ Goto(t, "contains")
             /\ UNCHANGED <<request, replaced>>
          \/ s = NoText /\ Return(t, {})
    /\ UNCHANGED <<archive, dedup, host>>

WriteSummary(t) ==
    /\ WriteFrame(t, Frame(t))
    /\ UNCHANGED caller

(* Mutant of CommitSummary: the test is the wrong way round.               *)
CommitSummaryIfSkipped(t) ==
    /\ \/ pc[t] = "skipped" /\ CommitIfEachTurnSucceeds /\ Return(t, {Frame(t)} \cap Frames)
       \/ pc[t] = "skipped" /\ CommitIfEachTurnFails /\ Goto(t, "failed") /\ UNCHANGED caller
       \/ pc[t] = "written" /\ UNCHANGED archive /\ Return(t, {Frame(t)})
    /\ UNCHANGED <<dedup, host>>

(* Mutant of CommitSummary: a summary found in the dedup set is an error.  *)
CommitSummaryOrRefuse(t) ==
    /\ \/ pc[t] = "written" /\ CommitIfEachTurnSucceeds /\ Return(t, {Frame(t)})
       \/ pc[t] = "written" /\ CommitIfEachTurnFails /\ Goto(t, "failed") /\ UNCHANGED caller
       \/ pc[t] = "skipped" /\ UNCHANGED archive /\ Goto(t, "failed") /\ UNCHANGED caller
    /\ UNCHANGED <<dedup, host>>

(* Only a frame this call wrote is committed: if written { commit }.       *)
CommitSummary(t) ==
    /\ \/ pc[t] = "written" /\ CommitIfEachTurnSucceeds /\ Return(t, {Frame(t)})
       \/ pc[t] = "written" /\ CommitIfEachTurnFails /\ Goto(t, "failed") /\ UNCHANGED caller
       \/ pc[t] = "skipped" /\ UNCHANGED archive /\ Return(t, {Frame(t)} \cap Frames)
    /\ UNCHANGED <<dedup, host>>

CompactAgain(t) ==
    /\ pc[t] = "failed"
    /\ summary' = [summary EXCEPT ![t] = None]
    /\ Goto(t, "inner")
    /\ UNCHANGED <<archive, dedup, host, request, replaced>>

------------------------------------------------------------------------------
Compact(t) ==
    \/ StartCompact(t)
    \/ InnerFails(t)
    \/ InnerCompacts(t)
    \/ WriteSummary(t)
    \/ CommitSummary(t)
    \/ CompactAgain(t)

Next ==
    \/ \E t \in Tasks : Compact(t)
    \/ HostStep /\ UNCHANGED caller

Spec == Init /\ [][Next]_vars

(* As in Demotion: a call runs on, its caller asks again after an Err, and *)
(* neither the wrapped compactor nor the archive refuses for ever.         *)
Fairness ==
    \A t \in Tasks :
        /\ WF_vars(InnerFails(t) \/ InnerCompacts(t) \/ WriteSummary(t)
                   \/ CommitSummary(t) \/ CompactAgain(t))
        /\ SF_vars(InnerCompacts(t))
        /\ SF_vars(WriteSummary(t) /\ pc'[t] = "insert")
        /\ SF_vars(CommitSummary(t) /\ pc'[t] = "idle")

------------------------------------------------------------------------------
WriteSteps == {"contains", "write_text", "insert", "written", "skipped"}

(* The state is well-formed; a call has a request while it is in flight,   *)
(* and a text to write while it is inside write_frame (the locals of       *)
(* compact).                                                               *)
TypeOK ==
    /\ log \in Seq(Frames)
    /\ durable \in 0..Len(log)
    /\ poisoned \subseteq Locks
    /\ dedup \subseteq Frames
    /\ sidecar \subseteq Frames
    /\ replaced \subseteq Frames
    /\ restarts \in 0..MaxRestarts
    /\ pc \in [Tasks -> WriteSteps \cup {"idle", "inner", "failed"}]
    /\ request \in [Tasks -> Requests \cup {None}]
    /\ summary \in [Tasks -> Texts \cup {Blank, NoText, None}]
    /\ \A t \in Tasks :
          /\ pc[t] = "idle" <=> request[t] = None
          /\ pc[t] \in WriteSteps => summary[t] \in Texts \cup {Blank}
          /\ pc[t] \in {"write_text", "insert", "written"} => summary[t] \in Texts

(* "An I/O failure surfaces as a MemoryError::Backend rather than silently *)
(* dropping the rollup", "the archive is committed after each summary is   *)
(* written so subsequent searches see the rollup" (compactor.rs): a        *)
(* summary that stands in for dropped messages is on disk.                 *)
ReplacedIsDurable == \A f \in replaced : Durable(f)

(* With every interleaving and fault, a summary that stands in for dropped *)
(* messages was at least appended: until the process ends, whoever commits *)
(* next makes it durable.                                                  *)
ReplacedIsWritten == restarts = 0 => \A f \in replaced : Written(f)

(* The inductive invariant behind ReplacedIsWritten: keys stand for        *)
(* written frames, and a call past its put or its dedup hit has a written  *)
(* frame.                                                                  *)
CompactorInv ==
    /\ TypeOK
    /\ DedupIsWritten
    /\ SidecarIsDurable
    /\ \A t \in Tasks :
          pc[t] \in {"insert", "written", "skipped"} /\ Frame(t) \in Frames =>
              Written(Frame(t))
    /\ ReplacedIsWritten

(* A caller that asks for a summary gets one in the end, however often the *)
(* wrapped compactor, the put or the commit fails first: a retry is not    *)
(* refused because of what the call before it wrote.                       *)
EveryRequestIsAnswered == \A t \in Tasks : pc[t] # "idle" ~> pc[t] = "idle"
==============================================================================
