------------------------------- MODULE Archive -------------------------------
(***************************************************************************)
(* The .mv2 archive as the writers of this crate see it: memvid-core's     *)
(* file behind the one mutex of MemvidStore (store.rs).                    *)
(*                                                                         *)
(*   log       what put_* appended, in order; position i is frame id i     *)
(*   durable   length of the prefix that a commit flushed to disk          *)
(*   poisoned  the locks a holder of which panicked: every later lock() of *)
(*             such a lock returns an error until the process is restarted *)
(*                                                                         *)
(* Each operation below is one critical section of the store's mutex.      *)
(* memvid-core itself is not part of this repository: what a put, a commit *)
(* or a reopen may do to the file is taken from the store's documentation  *)
(* ("append without committing", "flush any pending writes to disk") and   *)
(* from WriteFailurePhase: a failed put appended nothing, a failed commit  *)
(* may or may not have flushed what was pending.                           *)
(***************************************************************************)
EXTENDS Naturals, Sequences

CONSTANT Faults    \* the faults of a run: some of "put", "card", "commit", "panic"

VARIABLES log, durable, poisoned

archive == <<log, durable, poisoned>>

Locks == {"store", "dedup"}

Written(e) == \E i \in 1..Len(log) : log[i] = e
Durable(e) == \E i \in 1..durable : log[i] = e

ArchiveInit ==
    /\ log = <<>>
    /\ durable = 0
    /\ poisoned = {}

------------------------------------------------------------------------------
(* put_text_uncommitted, put_memory_card: lock, append, unlock.            *)

PutSucceeds(e) ==
    /\ "store" \notin poisoned
    /\ log' = Append(log, e)
    /\ UNCHANGED <<durable, poisoned>>

PutFails(fault) ==
    /\ "store" \in poisoned \/ fault \in Faults
    /\ UNCHANGED archive

PutPanics(e) ==
    /\ "store" \notin poisoned
    /\ "panic" \in Faults
    /\ log' \in {log, Append(log, e)}
    /\ poisoned' = poisoned \cup {"store"}
    /\ UNCHANGED durable

(* commit: lock, flush everything any caller has appended, unlock.         *)

CommitSucceeds ==
    /\ "store" \notin poisoned
    /\ durable' = Len(log)
    /\ UNCHANGED <<log, poisoned>>

CommitFails ==
    /\ \/ "store" \in poisoned /\ durable' = durable
       \/ "store" \notin poisoned /\ "commit" \in Faults /\ durable' \in durable..Len(log)
    /\ UNCHANGED <<log, poisoned>>

CommitPanics ==
    /\ "store" \notin poisoned
    /\ "panic" \in Faults
    /\ durable' \in durable..Len(log)
    /\ poisoned' = poisoned \cup {"store"}
    /\ UNCHANGED log

(* The process ends and the next one opens the file: the flushed prefix is *)
(* there, and perhaps some of the frames appended after it.                *)
Reopen ==
    /\ \E kept \in durable..Len(log) :
          /\ log' = SubSeq(log, 1, kept)
          /\ durable' = kept
    /\ poisoned' = {}
==============================================================================
