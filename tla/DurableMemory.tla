---------------------------- MODULE DurableMemory ----------------------------
(***************************************************************************)
(* What an archiving hook promises its caller, with no locks, batches,     *)
(* dedup keys or crashes: frames become durable one after the other, they  *)
(* are never lost or reordered again, and the caller is only told that a   *)
(* frame is archived (and may drop its own copy) once the frame is         *)
(* durable.  With ExactlyOnce no frame is ever stored twice.               *)
(***************************************************************************)
EXTENDS Sequences, SequencesExt

CONSTANT ExactlyOnce

VARIABLES
    stored,     \* the durable frames, in archive order
    released    \* the frames whose only copy is now the archive

Init ==
    /\ stored = <<>>
    /\ released = {}

(* More frames reach the disk, behind those already there.                 *)
Persist ==
    /\ stored # stored'
    /\ IsPrefix(stored, stored')
    /\ ExactlyOnce => IsInjective(stored')

(* The caller lets go of frames; all of them are on disk by then.          *)
Release ==
    /\ released \subseteq released'
    /\ released' \subseteq {stored'[i] : i \in DOMAIN stored'}

Next ==
    \/ Persist /\ UNCHANGED released
    \/ UNCHANGED stored /\ Release
    \/ Persist /\ Release

Spec == Init /\ [][Next]_<<stored, released>>
==============================================================================
