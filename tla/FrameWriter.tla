----------------------------- MODULE FrameWriter -----------------------------
(***************************************************************************)
(* frame_writer.rs: the write path MemvidDemotionHook and                  *)
(* MemvidStoringCompactor share.  write_frame takes the lock of the        *)
(* DedupSet, then the lock of the store, then the lock of the DedupSet     *)
(* again, and holds none of them in between, so other calls interleave at  *)
(* each of the three steps.  pc[t] is where call t is:                     *)
(*                                                                         *)
(*   contains -> write_text -> insert -> written       Ok(true)            *)
(*   contains -> skipped                               Ok(false)           *)
(*   any step -> failed                                Err                 *)
(*                                                                         *)
(* A frame is what compute_key hashes.  The hash is taken to be injective, *)
(* so the frame is its own dedup key.  The chat role is part of the text,  *)
(* and kind and scope are the same for every frame of one hook.            *)
(*                                                                         *)
(* The DedupSet lives as long as the process.  A restart opens the archive *)
(* again and builds a new hook, into which the host loads the snapshot it  *)
(* last saved (dedup_snapshot, load_dedup_snapshot).  Sidecar says when    *)
(* the host saves one:                                                     *)
(*   "none"     never                                                      *)
(*   "clean"    only while no appended frame is waiting for a commit       *)
(*   "always"   at any time                                                *)
(* With Graceful the host restarts only between calls, after a snapshot.   *)
(***************************************************************************)
EXTENDS Archive

CONSTANTS
    Tasks,             \* calls that may be in flight at once, on clones of one hook
    Conversations,
    Texts,             \* rendered, non-empty texts
    Blank,             \* the empty rendered text
    NoText,            \* what rendering gives for a message without text
    CommitEachTurn,    \* MemoryConfig::commit_each_turn
    Sidecar,
    Graceful,
    MaxRestarts        \* bound on the number of restarts

ASSUME FrameAssumption == Blank \notin Texts /\ NoText \notin Texts /\ Blank # NoText
ASSUME CommitAssumption == CommitEachTurn \in BOOLEAN
ASSUME SidecarAssumption == Sidecar \in {"none", "clean", "always"} /\ Graceful \in BOOLEAN
ASSUME RestartAssumption == MaxRestarts \in Nat

VARIABLES
    dedup,       \* the DedupSet of the hook and its clones
    pc,
    sidecar,     \* the dedup snapshot on disk
    restarts

host   == <<sidecar, restarts>>
writer == <<archive, dedup, pc, host>>

Frames == [conversation : Conversations, text : Texts]

WriterInit ==
    /\ ArchiveInit
    /\ dedup = {}
    /\ pc = [t \in Tasks |-> "idle"]
    /\ sidecar = {}
    /\ restarts = 0

Goto(t, label) == pc' = [pc EXCEPT ![t] = label]

------------------------------------------------------------------------------
(* write_frame's early return on an empty text, and on a dedup hit.        *)
SkipFrame(t, f) ==
    /\ pc[t] = "contains"
    /\ \/ f.text = Blank
       \/ "dedup" \notin poisoned /\ f \in dedup
    /\ Goto(t, "skipped")
    /\ UNCHANGED <<archive, dedup>>

(* Mutant of PassDedup: the check for an empty text is gone.               *)
PassDedupOfAnyText(t, f) ==
    /\ pc[t] = "contains"
    /\ "dedup" \notin poisoned
    /\ f \notin dedup
    /\ Goto(t, "write_text")
    /\ UNCHANGED <<archive, dedup>>

PassDedup(t, f) ==
    /\ pc[t] = "contains"
    /\ f.text # Blank
    /\ "dedup" \notin poisoned
    /\ f \notin dedup
    /\ Goto(t, "write_text")
    /\ UNCHANGED <<archive, dedup>>

(* Mutants of WriteText: the error of the put is logged but not returned,  *)
(* and write_frame goes on to insert the key, or returns Ok(true).         *)
WriteTextInsertsAnyway(t, f) ==
    /\ pc[t] = "write_text"
    /\ \/ PutSucceeds(f) /\ Goto(t, "insert")
       \/ PutFails("put") /\ Goto(t, "insert")
       \/ PutPanics(f) /\ Goto(t, "failed")
    /\ UNCHANGED dedup

WriteTextReturnsOk(t, f) ==
    /\ pc[t] = "write_text"
    /\ \/ PutSucceeds(f) /\ Goto(t, "insert")
       \/ PutFails("put") /\ Goto(t, "written")
       \/ PutPanics(f) /\ Goto(t, "failed")
    /\ UNCHANGED dedup

WriteText(t, f) ==
    /\ pc[t] = "write_text"
    /\ \/ PutSucceeds(f) /\ Goto(t, "insert")
       \/ PutFails("put") /\ Goto(t, "failed")
       \/ PutPanics(f) /\ Goto(t, "failed")
    /\ UNCHANGED dedup

(* Mutant of InsertKey: the key is never inserted.                         *)
InsertNoKey(t, f) ==
    /\ pc[t] = "insert"
    /\ "dedup" \notin poisoned
    /\ Goto(t, "written")
    /\ UNCHANGED <<archive, dedup>>

InsertKey(t, f) ==
    /\ pc[t] = "insert"
    /\ "dedup" \notin poisoned
    /\ dedup' = dedup \cup {f}
    /\ Goto(t, "written")
    /\ UNCHANGED archive

(* contains and insert fail once a holder of the DedupSet's lock panicked. *)
DedupFails(t, f) ==
    /\ pc[t] \in {"contains", "insert"}
    /\ f.text # Blank
    /\ "dedup" \in poisoned
    /\ Goto(t, "failed")
    /\ UNCHANGED <<archive, dedup>>

DedupPanics(t, f) ==
    /\ pc[t] \in {"contains", "insert"}
    /\ f.text # Blank
    /\ "dedup" \notin poisoned
    /\ "panic" \in Faults
    /\ poisoned' = poisoned \cup {"dedup"}
    /\ Goto(t, "failed")
    /\ UNCHANGED <<log, durable, dedup>>

WriteFrame(t, f) ==
    /\ \/ SkipFrame(t, f)
       \/ PassDedup(t, f)
       \/ WriteText(t, f)
       \/ InsertKey(t, f)
       \/ DedupFails(t, f)
       \/ DedupPanics(t, f)
    /\ UNCHANGED host

(* commit_if_each_turn: the outcomes that let the caller return Ok and     *)
(* those that make it return Err.                                          *)
CommitIfEachTurnSucceeds ==
    \/ CommitEachTurn /\ CommitSucceeds
    \/ ~CommitEachTurn /\ UNCHANGED archive

CommitIfEachTurnFails == CommitEachTurn /\ (CommitFails \/ CommitPanics)

------------------------------------------------------------------------------
(* MemvidStore::commit by the owner of the store, or by another hook on it. *)
HostCommit ==
    /\ CommitSucceeds \/ CommitFails
    /\ UNCHANGED <<dedup, pc, host>>

SaveSidecar ==
    /\ Sidecar \in {"clean", "always"}
    /\ Sidecar = "clean" => durable = Len(log)
    /\ "dedup" \notin poisoned
    /\ sidecar' = dedup
    /\ UNCHANGED <<archive, dedup, pc, restarts>>

(* Mutant of Restart: the new hook does not load the snapshot.             *)
RestartWithoutSnapshot ==
    /\ restarts < MaxRestarts
    /\ Graceful => sidecar = dedup /\ \A t \in Tasks : pc[t] \in {"idle", "failed"}
    /\ restarts' = restarts + 1
    /\ Reopen
    /\ dedup' = {}
    /\ pc' = [t \in Tasks |-> IF pc[t] = "idle" THEN "idle" ELSE "failed"]
    /\ UNCHANGED sidecar

(* A call that was in flight has not returned Ok: its caller still holds   *)
(* what it passed, as after an Err.                                        *)
Restart ==
    /\ restarts < MaxRestarts
    /\ Graceful => sidecar = dedup /\ \A t \in Tasks : pc[t] \in {"idle", "failed"}
    /\ restarts' = restarts + 1
    /\ Reopen
    /\ dedup' = sidecar
    /\ pc' = [t \in Tasks |-> IF pc[t] = "idle" THEN "idle" ELSE "failed"]
    /\ UNCHANGED sidecar

HostStep == HostCommit \/ SaveSidecar \/ Restart

(* A dedup key stands for a frame that this process appended or found in   *)
(* the archive (write_frame inserts the key after the put), so that the    *)
(* retry of a failed call skips nothing that was not written.              *)
DedupIsWritten == \A f \in dedup : Written(f)

(* The snapshot a restart loads names only frames that are on disk.        *)
SidecarIsDurable == \A f \in sidecar : Durable(f)

(* "Produces exactly one frame per message" (demotion.rs, Idempotency),    *)
(* "repeated calls land exactly one frame" (compactor.rs, Idempotency): no *)
(* two frames of the archive have the same content.                        *)
OneFrameEach ==
    \A i, j \in 1..Len(log) : log[i] = log[j] => i = j
==============================================================================
