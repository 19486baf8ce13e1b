# Verification of rig-memvid

`rig-memvid` gives a Rig agent a persistent memory: a `.mv2` archive that hooks
write to while the agent runs and that the agent searches again later. This
directory holds TLA+ models of the code that writes, searches and recalls from the
archive, the TLC configurations that check them, and machine-checked proofs. Line
numbers refer to `src/`.

## 1. Inventory

| Part | State it keeps | Operations | Correct if |
| --- | --- | --- | --- |
| `MemvidStore`, write path (`store.rs`) | one `Arc<Mutex<Memvid>>` shared by all clones; its poisoning | `put_text`, `put_text_uncommitted`, `put_memory_card`, `commit`, `insert_documents`, opening and creating | what was committed survives; a failed call leaves nothing half-done that a retry repeats |
| `MemvidStore`, search path and `MemvidFilter` (`store.rs`) | none | `run_search`, `top_n`, filter algebra | no unsupported filter is ever dropped silently; every clause of a supported one reaches memvid-core (not so with an embedder: finding 7); caps and boundaries |
| Frame writer (`frame_writer.rs`) | the `DedupSet` of the hook that calls it | `write_frame`, `commit_if_each_turn` | one frame per content; a key stands for a written frame |
| `MemvidDemotionHook` (`demotion.rs`) | store handle, shared `DedupSet` | `on_demote`, `dedup_snapshot`, `load_dedup_snapshot` | a message is evicted only when it is on disk; a retry skips what was written and nothing else |
| `MemvidStoringCompactor` (`compactor.rs`) | store handle, `DedupSet`, wrapped compactor | `compact`, snapshot functions | a summary replaces messages only when it is archived |
| `MemvidPersistHook` (`hook.rs`) | store handle, `halt` flag shared by clones | `on_completion_call`, `on_completion_response` | every turn recorded or the failure policy applied; cards cite their own frame; the flag stops agents |
| Text processing (`hook.rs`) | none | rendering, `bind_principal`, `supplemental_memory_cards` | what is extracted was stated, of the one it was stated of, and what was stated is extracted |
| `MemoryCardContext`, `MemoryGraph` (`cards_context.rs`, `memory_graph.rs`) | none | `select`, `rank_cards`, `top_n` | no card twice, none missed that was there before; relevance before recency |
| Projection (`projection.rs`) | none | conversions, `partition_search_hits_by_role`, `MemoryContextPack::from_candidates` | one survivor per group, the newest, in first-occurrence order |
| Outside the repository | archive file, dedup set, windows | `memvid-core`, `rig-memory-policy`, `rig-memory`, `rig` | used, not verified |

How they interact: every hook, compactor and reader holds a clone of one
`MemvidStore`; each method of the store takes its mutex for one call and releases
it, so calls of different clones interleave between any two of them. `commit`
flushes what *every* clone has appended. The demotion hook and the compactor share
`write_frame`, which also takes the lock of a `DedupSet` before and after the put.
`CompactingMemory` (upstream) calls `on_demote` and `compact`, evicts on `Ok` and
keeps its messages on `Err`. The agent loop (upstream) calls the persist hook before
and after each model call and ends when told to terminate.

Hard behaviours: check-then-act on the dedup set; batches that fail half-way and are
presented again; commits that fail after successful puts; a dedup snapshot that
outlives uncommitted frames; poisoned locks; crashes between put and commit; a halt
flag shared by agents; a selection of several reads with writers in between; filters
that one of two search paths cannot apply; text heuristics in a chain, each built on
what the one before leaves. `PROJECT.json` lists each as a hazard at its line.

## 2. Modules

```
Archive ─┬─> FrameWriter ─┬─> Demotion ──────┬──> DemotionProofs
         │                │                  ├─── MCDemotion
         │                ├─> StoringCompactor ──> CompactorProofs
         │                │                  ├─── MCStoringCompactor
         │                │                  v
         ├────────────────┴─> SharedArchive (instances of both) ──> SharedArchiveProofs
         │                                   └─── MCSharedArchive
         ├─> PersistHook ─┬──> PersistHookProofs
         │      │         └─── MCPersistHook
         │      └─────────────────┐
         └─> Store ─┬> StoreProofs│
              ^     └─ MCStore    │
              │                   v
MemvidFilter ─┘                 Recall ──┬──> RecallProofs
                                  ^      └─── MCRecall
Words ─┬─> PrincipalText ─────────┤
       └─> CardContext ───────────┘
Supersession ──┬──> SupersessionProofs
               └─── MCSupersession
DurableMemory: the promise, instantiated by Demotion, SharedArchive,
               PersistHook and Store
ProofLemmas: numbers, recursion and growing files, used by the proof modules
```

**Archive** is `MemvidStore` over memvid-core's file: `log` (everything appended, in
order), `durable` (length of the committed prefix), `poisoned` (locks a holder of
which panicked). Each operation is one critical section of the mutex, with its
success, its error and a panic inside memvid-core. A failed put appended nothing; a
failed commit may have flushed any part of what was pending; a panic may leave the
entry appended or not and poisons the lock, after which `lock()` returns
`MemvidError::Poisoned` until the process is restarted. `Reopen` finds the committed
prefix and perhaps some of the entries behind it.

**FrameWriter** is `frame_writer.rs`. The program counter of a call stops at each
lock acquisition: `contains`, `write_text`, `insert`. It also holds the environment
of both hooks: other users of the store committing (`HostCommit`), a host that saves
the dedup snapshot (`SaveSidecar`), and a process restart that loads it (`Restart`).
A frame is the pair (conversation, rendered text); role, kind and scope are
functions of the hook or part of the text, and blake3 is taken to be injective.

**Demotion** is `demotion.rs`: `StartDemote`, the loop (`NextMessage`,
`WriteMessage`, `MessageDone`), `FinishDemote` (commit, then `Ok` or `Err`), and the
caller, who evicts on `Ok` and otherwise presents the batch again. `evicted` is a
history variable: what the caller no longer has.

**StoringCompactor** is `compactor.rs`. The wrapped compactor may fail and may give
different texts for one request. `replaced` records the summaries whose messages the
caller dropped.

**PersistHook** is the writing part of `hook.rs`: the two `PromptHook` methods of
several agents, `write` with one action per lock acquisition (frame, each card,
commit), `handle_write_failure` with its three policies (a `Custom` callback may
answer either way), and the shared flag. `Restart` ends the process at any moment: the
log falls back to what is on disk, and the agents begin with a fresh flag. `latched` and
`continued` are history variables: whether the flag was up when the running method was
entered, and what methods wrote that returned `cont`. `MemorySpec` reads the hook as a
`DurableMemory`: the turns that went on under `Halt` and a commit per turn, with all their
cards, are what was released.

**SharedArchive** composes a demotion hook and a storing compactor on clones of one
store, as `CompactingMemory` uses them: two instances over one `archive`, each with
its own dedup set and snapshot, one restart for both. What one appended is flushed by
the other's commits. `unflushed` is a history variable: the summaries whose own
commit failed once.

**Store** is the API of `MemvidStore` itself: `put_text` and `insert_documents`, each
several memvid-core calls under one guard with an early return in the middle
(`PutsAndCommit`), next to `put_text_uncommitted` followed by `commit`. A search holds
the lock and changes nothing, so that it is no action but an operator, `Replies`: what
a search with a given filter may return in a given state. `Requests` is what it sends to
memvid-core by either of the two paths of `run_search`, nothing if it is refused.

**MemvidFilter** is the filter algebra as operators: what each `eq` is converted to,
`merge` with its list of reasons, the requests the two paths build. A clause list
(`Filter`, joined one clause after the other by a recursive function) stands for the way
a caller joins clauses; `Supported`, `Effective`, `Store!Carries` and `Store!MeetsClause`
say, without the algebra, what the documented table promises. `Store!RefusedByVec` and
`Store!DroppedByVec` name what the embedder's search does not apply.
Numbers are i64 and f64 of reduced widths, with the rounding of the conversion and the
saturation of the cast.

**PrincipalText** is `bind_principal` and `supplemental_memory_cards` over tokens:
words with the marks before and after them. It keeps every phrase, exception and
preference among phrases; **Words** holds what it shares with the card context.

**CardContext** is `MemoryCardContext`: `top_n` as one action per read of the graph
(`SelectRecent`, `ReadPrincipal`, `ScanAll`, `ReadRelated`, ...), each of which may
fail, and `Rank`, which scores, sorts and cuts off. Relevance is counted in halves of
a point and recency as an exact fraction, so that the code's floats need no rounding;
the stable sort of `rank_cards` is the order of relevance, recency and place.
A graph compares entities exactly or without regard to case (`Folded`); memvid-core
decides which.

**Recall** composes the persist hook, the text heuristics and the card context: the
cards of the archive's log are the graph, the cards of a text are what
`supplemental_memory_cards` finds in the bound text, `PutOtherCard` is any other
writer. `Stated` gives what a reader finds in a text, all of it of the kinds that the
hook's documentation lists, and is an input independent of the heuristics. `said` is a history variable: the turns that had been let go on when
the selection began.

**DurableMemory** states what an archiving hook promises: frames become durable one
behind the other, none is lost or moved again, and the caller lets go of a frame only
once it is durable; with `ExactlyOnce`, no frame is stored twice. `stored` is the
durable prefix of `log`, `released` is `evicted`, `replaced`, the frames and cards of
the turns that went on (persist hook) or the documents of the calls that returned `Ok` (store).

**Supersession** is `MemoryContextPack::from_candidates` in `projection.rs`: one
action per candidate of the loop that builds the groups (`GroupCandidate`) and of the
loop that emits them (`EmitCandidate`), over the variables of the function. A
candidate is what its projection leaves of it: the form, the fact its version key
names, and the frame or time that becomes its recency; `PartitionByRole` splits the
hits as `partition_search_hits_by_role` does. The texts, scores and source
ids are left out; positions stand for candidates. Keys a caller gives a card by hand
are facts like any other. `Reference` is what the documentation of the function
promises, written without its loops.

The operators marked *Mutant* are plausible bugs of the definition that follows
them. None is part of a specification; substituted for that definition, each makes
one property fail, which shows that the property depends on the code.

## 3. What the runs check

| Run | Instance | Shows |
| --- | --- | --- |
| `demotion` | 2 concurrent calls on clones of one hook, every fault, 1 crash at any point, snapshots of committed frames | `EvictedIsDurable`, `DedupIsWritten`, the inductive invariant `DemotionInv`, and `AtLeastOnceSpec`: nothing evicted is ever lost |
| `demotion_race` | 2 calls, no fault | **violates** `OneFrameEach` (finding 2) |
| `demotion_sidecar` | 1 call, a failing commit, a snapshot with uncommitted keys, a graceful restart | **violates** `EvictedIsDurable` (finding 3) |
| `compactor` | 2 concurrent calls without `commit_each_turn`, every fault, 1 crash | `ReplacedIsWritten`, `CompactorInv` |
| `compactor_retry` | 1 call, a failing commit | **violates** `ReplacedIsDurable` (finding 1) |
| `shared_archive` | both hooks on one store, 1 call of each at a time, failing puts, commits and inner compactors, 1 graceful restart, fairness | `OneFrameEach`, `OnceOnlySpec` (exactly once, over the restart), `ReplacedUnlessCommitFailed`, the inductive invariant `SharedInv`, `EveryBatchIsEvicted`, `EveryRequestIsAnswered` |
| `store` | 3 clients, one per operation, every fault, retries, 1 restart; at every state searches with every filter of up to two clauses and some of three | `AckedIsDurable`, `BatchesAreContiguous`, `RefusesExactly`, `ClausesAreApplied`, `HitsAreExact`, and `MemorySpec`: nothing flushed is taken back |
| `persist_hook` | 2 agents on clones, 1 turn each, 6 configurations, every fault, restarts | `ContinuedIsDurable`, `CardCitesItsFrame`, `HaltEndsRecordingRun`, `MethodsAdvance`, and `MemorySpec`: a turn that went on is on disk for good |
| `persist_halt` | 2 agents, failing puts | **violates** `HaltEndsRun` (finding 4) |
| `recall` | 1 agent, 2 turns, failing cards, 1 card of another writer, a query by each strategy | `StatedIsRecalled`, `CardsAreStated`, `NothingOlderIsMissed`, `NoCardTwice`, `RankedByRelevance`, `SelectionOK` |
| `misread` | 1 agent, a sentence of two statements, the first about someone else | **violates** `CardsAreExact` (findings 5 and 6) |
| `supersession` | every list of up to 4 of 9 candidates | `SurvivorIsNewest`, `KeptMatchesReference`, `RolesSupersedeAlone`, `EachCandidateOnce`, the inductive invariant `SupersessionInv` |

Each module's `TypeOK` also holds the control invariants of its calls (a loop inside
its batch, a text in hand where one is written); in `recall` they are `SelectionOK`.

Five properties name what they leave out. `RefusesExactly` and `ClausesAreApplied` except
`cursor` and `no_sketch` where the store has an embedder (finding 7): such a clause is
neither refused nor applied; of every other clause they say that it is one or the
other. `NoCardTwice` speaks of graphs that hold no card twice. `NothingOlderIsMissed` counts a card as found when one that
`same_card` takes for it is; since `same_card` does not look at the kind, a relationship
could be hidden by a card of another kind that is otherwise equal, which `OneKind` excludes;
for the cards of the hook and of others that agree with them (`OthersAgree`, which TLC
evaluates for its run) this is proved. `StatedIsRecalled` is about
`WriteFailure::Halt`; that the hook's phrases find the facts of the texts at all, and nothing
else (`StatedIsFound`, `OnlyStatedIsFound`), is part of what its run shows, for texts like its
own: statements of the user, one allergy or avoidance in a text. Of other texts it does not
hold, as `misread` shows.

### Findings

1. `compactor.rs:183`: only a summary that *this* call wrote is committed. After a
   failed commit the retry hits the dedup set, commits nothing and returns `Ok`; the
   summary stands in for dropped messages and is not on disk. The documentation
   (lines 29-31, 45-47) says otherwise.
2. `frame_writer.rs:50-79`: the dedup check and the insertion of the key are two
   critical sections with the put between them, so that two clones archive one
   message twice, against "exactly one frame per message" (`demotion.rs:54-55`).
3. `demotion.rs:138`: a snapshot contains keys of frames that were never committed.
   Following the documented "snapshot before shutdown, replay on startup" after a
   failed commit, the restarted hook skips messages that are nowhere, returns `Ok`,
   and the caller evicts them (against `demotion.rs:62-65`).
4. `hook.rs:1012`: with `persist_assistant = false` the response method returns
   before it reads the halt flag, against `hook.rs:332-334`. The next prompt of that
   agent does stop it.
5. `hook.rs:766`: the allergy phrases are looked for anywhere in the text and the
   value is given to the principal. For a user called Alice, "Dan is allergic to
   eggs" is stored as `alice/allergy = eggs`, against `hook.rs:149-154` and the
   README's example, where the subject of the sentence is the entity of the card.
6. `hook.rs:772`: the allergy phrases are alternatives, and the first that a text has is
   the only one that is used. Of "... allergic to eggs, and I cannot have cake" the second
   statement is lost without an error, although "allergy / avoidance statements" are
   covered (`hook.rs:152`; the test at `hook.rs:1109-1112` counts "cannot have" as one).
   It is lost in the same way when both statements are the user's own. `misread` shows 5 and
   6 in one turn: the archive says `alice/allergy = eggs`, and says nothing of cake.
7. `store.rs:912-942`: with an embedder, `cursor` and `no_sketch` pass
   `ensure_vec_filter_supported` (`store.rs:890`) and `vec_search` passes on nothing but the
   scope. The table of `MemvidFilter` (`store.rs:623-624`) promises both an effect on the
   request: a caller who pages through the hits with a cursor asks for the first page again,
   and is not told. This is no run of its own: it is the exception in `ClausesAreApplied`, which fails without it, and the reason why
   `RefusesExactly` is not "whatever the embedder cannot apply is refused". `HitsAreExact` does not
   see it, because neither clause says which frames are hits.

Read while modelling and not checked by a run, because no sentence of the repository
rules them out or none that a model could check does:

- `and` of two clauses on one key keeps only the right one.
- `bind_principal` drops the marks before a replaced word and turns line breaks into
  spaces; it takes "ill" and "id" for "I'll" and "I'd".
- "He is my manager" makes a manager called "He".
- On a graph that compares entities exactly, a card spelled like the name hides the
  older cards stored in lower case: `related_entity_memories` asks for the lower-case
  name only when the name as spelled finds nothing. `NothingOlderIsMissed` and
  `StatedIsRecalled` are therefore stated for graphs where this cannot happen
  (`OneSpelling`), with the spelling of the other writers checked in between.
- A retry of `insert_documents` after a failed commit stores its documents twice;
  `PreferencesFor` with a repeated entity returns its cards twice.

### Bounds

Two calls are enough for every race of three steps that the code has, because a call
touches only its own frame and the shared sets. Two texts tell a duplicate from
another frame; the two batches of the concurrent run share a message, those of
`shared_archive` hold a duplicate and an image. `MaxRestarts` is 1 (a snapshot taken
before it is used after it). `MaxTurns` is 1 with two agents and 2 in `recall`, so
that a turn lands during a selection. No run bounds `log`: it is bounded by the calls
that can be made.

`persist_hook`: the six configurations have every policy, and each value of the two switches
where the policy can tell it. A restart may come at any moment; it gives no turn back, so
that `MaxTurns` bounds these runs as well.

`store`: three documents let a batch fail after none, one or two of them; the client
of `insert_documents` calls twice, so that its retry meets its first attempt and the
frames of two others. An i64 of 5 bits and an f64 of 3 are the smallest widths where
the largest i64 is no f64, its neighbours are, and an integer above it rounds back to
the boundary; every `as_of_ts` of these widths is tried. `Samples` are below, at and
above `MaxSamples`.

`recall`: the two texts are the README's sentences, the first-person forms of them
and an introduction, with everything they state of allergies, avoidance, managers and
reporting in `MCStated`. Neither has a statement about someone else's allergy, nor two about
what the user avoids: the texts of findings 5 and 6 are those of `misread`. A turn finds up to three facts, of three entities, one of which
is related to the user only by the cards of the same turn. One card of another
writer (`MaxOthers`) may be spelled as the extractor spells it, cite the first frame of the
hook, or name an entity that contains the user's name; so a card is told by the frame that it
cites and not by who wrote it. One selection (`MaxAsks`) may begin at any point of the
turns; the constraint `Unanswered` ends the exploration behind its answer, since
nothing is asked of what comes later. `Folded = FALSE` is the harder of the two
graphs: on the other one the second lookups never happen.

Lists of four candidates hold two groups of two interleaved, a group of three behind
another candidate, and a survivor replaced twice; the nine candidates cover every
form, ties between a card and a document, and a missing recency.
`CHECK_DEADLOCK FALSE` is set only where the system may stop: agents and clients end
(persist hook, recall, store), and supersession is a function that returns.

### Fairness

`Demotion!Fairness` and `StoringCompactor!Fairness`: a call that was started runs on
(weak fairness of its steps; it is an ordinary future that never waits for another
call except for a mutex held through one library call), its caller presents a refused
batch or request again, and an archive asked again and again neither refuses the put
nor the commit for ever, nor does the wrapped compactor (strong fairness; without it
the documentation promises nothing either). Restarts, snapshots and failures are
never fair. That a method of the persist hook returns is shown without fairness, by
`MethodsAdvance`: no step of it, whatever fails, goes back.

## 4. What is proved

`DemotionProofs` proves, with TLAPS, for every set of calls, conversations, messages,
batches and faults, and any number of restarts:

- `TypeCorrect`: `Spec => []TypeOK`, with no assumption beyond those of the constants.
- `InvariantHolds`, `EvictedMessagesAreDurable`, `DedupKeysAreWritten`: `DemotionInv`,
  `EvictedIsDurable` and `DedupIsWritten` in every reachable state, assuming
  `CommitEachTurn` and `Sidecar # "always"`. Both are needed: without a commit per
  turn `Ok` promises nothing about the disk, and finding 3 is what happens when
  snapshots are taken at any time.
- `ImplementsAtLeastOnce`: `Spec => AtLeastOnceSpec` under the same assumptions: the
  demotion hook refines `DurableMemory`.

The argument. `EvictedIsDurable` is not inductive: the step that evicts needs that
every message of the batch is in the log when `FinishDemote` commits.
`ProcessedIsWritten` says so for the messages the loop is past, and it holds for a
message *skipped* on a dedup hit only because `DedupIsWritten`: keys are inserted
after the put. A restart empties the log behind the committed prefix, so the keys it
starts with must be durable: `SidecarIsDurable`. `CommitEffect`, `ReopenKeeps`
and `Appended` say what each archive operation preserves; `WriteStep` reduces the six
disjuncts of `write_frame` to what the invariants see; `NothingLost` and `LogGrows`
combine them. One lemma per conjunct (`ProcessedStep`, `DedupStep`, `EvictStep`) and one
for the host (`HostInv`) make the step.

`SupersessionProofs` proves, for every list of candidates and with no assumption
beyond those of the constants, all that the run checks:

- `NewestSurvives` (`SurvivorIsNewest`), about the first loop. `ReplacesOrder` says that
  "newer" is asymmetric and that a tie passes it on, a missing recency included;
  `GroupedKeepsNewest` uses it for a candidate that joins a group, `GroupCandidateStep`
  adds the new groups and the other groups, and the second loop leaves the groups alone.
- `TypeCorrect` and `PackGrowsByGroups` (`TypeOK`, `SupersessionInv`): both loops. After
  `n` candidates of the second loop the pack holds, each in its place, the unversioned
  ones among them and the whole groups that begin there (`PackedTo`); a candidate's place
  is the number of those kept before it (`Rank`). That the lengths agree needs counting:
  the groups are disjoint and each is emitted once.
- `PackIsTheReference` (`KeptMatchesReference`), `NothingLost` (`EachCandidateOnce`) and
  `RolesAreApart` (`RolesSupersedeAlone`): the finished pack is the documented one, nothing
  is kept and hidden or neither, and superseding after the partition by role keeps what
  superseding before it does.

`CompactorProofs` proves for the storing compactor, for every set of calls, requests,
summaries and faults:

- `TypeCorrect`: `Spec => []TypeOK`.
- `InvariantHolds` and `ReplacedSummariesAreWritten`: `CompactorInv` and
  `ReplacedIsWritten`, assuming `Sidecar # "always"` and, unlike the demotion hook,
  nothing of `CommitEachTurn`: `Ok` here promises only that the summary was appended
  in this process (finding 1). `ReplacedIsWritten` is inductive together with `DedupIsWritten`, for the
  summary that a dedup hit skips, `SidecarIsDurable`, for the keys a restart loads, and
  `CallWrote`, for the call that is past its put.

`SharedArchiveProofs` proves for the composition of the two hooks, for every set of
messages, batches, requests and summaries, every fault but a panic (`SeparateAssumption`,
which also keeps the texts of summaries apart from those of messages) and any number of
restarts:

- `TypeCorrect`: `Spec => []TypeOK`.
- `FramesAreUnique`: `OneFrameEach`, assuming `Graceful` (the process ends between calls,
  with the snapshots saved) and nothing of commits. Inductive with `Keyed`: a frame in the
  archive is in the dedup set of its hook, but for the one between its put and the
  insertion of its key; a call that is past the test and before its put has a frame whose
  key is not in the set. With two calls of one hook at a time this fails (finding 2).
- `ReplacedSummariesAreDurable`: `ReplacedUnlessCommitFailed`, assuming `CommitEachTurn`
  and `Sidecar # "always"`, over abrupt restarts too.
- `InvariantHolds` (`SharedInv`) and `ImplementsOnceOnly` (`Spec => OnceOnlySpec`) under
  all three: together the hooks refine `DurableMemory` with every frame stored once.

The argument is one of rely and guarantee. `DemoterInv` and `CompactorInv` each speak of one
hook; a step of the other is, to it, a file that grows by a frame of another kind or a
longer durable prefix (`ExtendedBy`). `DemoterWrites` and `CompactorWrites` show that the
hooks guarantee this, `DemoterRelies` and `CompactorRelies` that it is all they need.

`PersistHookProofs` proves, for every number of runs and turns, all texts with the
cards found in them, and every configuration and fault:

- `TypeCorrect`: `Spec => []TypeOK`, from `HookType`, which adds to the types what a run
  inside `write` has in hand (`RunOK`).
- `CardsCiteTheirFrames`: `CardCitesItsFrame`. Inductive with `AtFrame`: the id a run
  remembers between the put of its frame and the last of its cards is that of its own
  entry, because the log only grows while the run waits for the lock (`Grows`).
- `HaltEndsRecordingRuns`: `HaltEndsRecordingRun`. Inductive with: the flag is never
  lowered, and a run that entered a method with the flag up is neither waiting for the
  model nor ready for the next turn.
- `ContinuedTurnsAreDurable`: `ContinuedIsDurable`. The invariant `DurableInv` follows a
  method through its texts: those it has behind it are on disk with their cards, and of
  the text at hand each card is still to be inserted or in the log, *unless the flag is
  up* (`Progress`). Under `Halt` every failure raises the flag, and with the flag up no
  method lets its run go on, so that what was let go on went well all the way.
- `MethodsAdvanceAlways`: `MethodsAdvance`, by the order of the stages and the length of
  the list of cards.
- `ImplementsMemory` (`Spec => MemorySpec`): the hook refines `DurableMemory`. A step leaves
  the durable prefix, cuts off what is behind it or extends it (`PersistsOrKeeps`), the one
  that ends the process included; a turn is released only by the method that lets its run go
  on, and by `DurableInv` it is on disk with its cards by then (`ReleasedIsStored`).

A restart keeps all of these: it puts every run back to the beginning of a turn, with nothing
in hand (`RestartLeaves`), and keeps at least what is on disk, of which alone `DurableInv`
speaks for the turns that went on.

`StoreProofs` proves, for every number of clients, documents, attempts and restarts:

- `TypeCorrect`: `Spec => []TypeOK`.
- `AckedDocumentsAreDurable`: `AckedIsDurable`, inductive with the types: a call that is not
  `ok` yet becomes so only by a commit, and no step shortens the durable prefix.
- `ImplementsMemory` (`Spec => MemorySpec`): the store refines `DurableMemory`. No call shortens
  or reorders the durable prefix (`DurableStays`), and a client that has its `Ok` calls no more
  (`AckedGrows`); with `AckedIsDurable`, each step of the store is one of the memory or none.
- `BatchesStandTogether`: `BatchesAreContiguous`. The attempt numbers in the log never
  exceed the number of calls, so that a new attempt is another than all before it; the
  lemmas `ContiguousAppend` and `ContiguousPrefix` say that putting a new attempt behind
  a contiguous file, or cutting one off anywhere, leaves it contiguous.
- `UnsupportedIsRefused`: `RefusesExactly`, for every list of clauses over all JSON values,
  however joined, and all widths of integers and floats: what is refused is a clause that is
  not supported and, with an embedder, one on `uri`, `as_of_frame` or `as_of_ts`; clauses on
  `cursor` and `no_sketch` are not (finding 7). By induction over the list, `merge` counts a
  reason exactly if a clause had one, and keeps of each key what the last clause on it set.
- `ClausesReachTheArchive`: `ClausesAreApplied`. In a search that is not refused the last
  clause of each key is in the request, an `as_of_ts` with its number or, beyond the i64s,
  as the largest of them, but for the two that finding 7 names. With `UnsupportedIsRefused`:
  no other clause is dropped.
- `SearchesAreExact`: `HitsAreExact` in every state with no more frames than times
  (`TimesFit`: frame `i` is written at time `i`, and behind the largest i64 the saturating
  cast would no longer tell two times apart). The heart of it is the conversion of numbers:
  an integer beyond the i64s rounds, as a float, to a value that is either refused or cast
  to the largest i64, which all times meet. With a mantissa of one bit it would not be so:
  `WidthAssumption` asks for two, and an f64 has 53.
  `OkIsFlushed` adds that the frames of a call that returned `Ok` are committed.

Each operation is reduced to its effect first (`CallStep`, `RestartEffect`,
`CommitEffect`), so that these arguments are about files and not about locks and errors.

`RecallProofs` proves for a selection next to hooks and other writers, for every graph,
question, text and fault, and any number of agents, turns, writers and selections:

- `SelectionIsWellFormed` (`SelectionOK`), `AnswersRepeatNothing` (`NoCardTwice`) and
  `OlderCardsAreSelected` (`NothingOlderIsMissed`). The invariant says of a selection at
  each of its reads that what it holds is of the graph and about the question (`Formed`),
  that nothing is held twice (`Once`), and that what the reads behind it were to find is
  held, or was to be looked up by a name still in the list (`NoneMissed`). To a selection,
  all that hooks and other writers do is to put cards at the end of the graph
  (`SelectionGrows`).
- `AnswersAreRanked` (`RankedByRelevance`): a stable sort followed by a cut puts no
  unrelated card before one whose slot was asked for, and no older before a newer of equal
  score; it needs what the parts of the score can add up to at most.
- `StatedFactsAreSelected`, from the words of a user to the answer:
  `StatedIsFound /\ OthersAgree => (Spec => []StatedIsRecalled)`. `RecordedInv` follows a
  text through the hook: under `Halt`, of the text a run is writing, each card is in the
  graph or still to be inserted unless the flag is up; so the cards of a turn that went on
  are in the graph, and those of a turn that went on before the selection began are among
  the cards that were there when it began (`before`), which `OlderCardsAreSelected` says are
  not missed. A card could still be hidden behind one of another kind that `same_card`
  takes for it. `CardsAreOfOneKind` excludes this: the hook gives each slot one kind
  (`FoundKinds`, for its five slots and every text), and the other writers are
  asked to agree with it (`OthersAgree`).
- `CardsTellWhatWasStated`: `OnlyStatedIsFound => (Spec => []CardsAreStated)`, for every
  failure policy, any agents and any other writers. `CardsAreStated` says nothing of a run between
  its put and its cards. `SourcedInv` does: the frame that the run remembers is in the log,
  with the text its cards were found in, and each card still to be inserted is one of that
  text (`AtHand`); the text of a frame never changes, because the log only grows
  (`SourcesStay`).

The two hypotheses about phrases, `StatedIsFound` and `OnlyStatedIsFound`, are about texts and
not about states: the phrases of `supplemental_memory_cards` find the facts of a text, and
nothing else. They cannot hold of every text, natural language being what it is. TLC evaluates
the phrases on the texts of `recall`, where both hold; the text of `misread` is one for which
neither does (findings 5 and 6). `HookAssumption` and `AsksAssumption` say what the arguments of the code's
calls are; `LowerAssumption`, that lower case has no lower case of its own.

The induction theorems of the library take operators, which the provers cannot instantiate.
`ProofLemmas` states them with sets instead: every set of numbers has a least
(`LeastNumber`), a set that holds 0 and with each number the next holds all
(`AllNumbers`), a step determines one function on `0..N`, which satisfies its equations
(`Recursion`, `OneFollows`). The recursive functions of the model (the graph of a log, the
clauses of a filter, the powers of two, the lists of hidden candidates) are reasoned
about through these. `Appended`, `TakeProperties` and `BeginsWith` say what a longer or a cut
off file keeps.

The assumptions on the constants are named in the modules that declare them
(`TextAssumption`, `TurnAssumption`, `RenderedAssumption`, `StoreAssumption`, ...), and
TLC evaluates them in the runs.

Model-checked only: liveness (`EveryBatchIsEvicted`, `EveryRequestIsAnswered`), which is
out of TLAPS's reach, and the hypotheses on phrases: whether a phrase fits a concrete text is
a computation. Every other property of a passing run is stated by a theorem; where that
theorem has hypotheses, they are named above.

## 5. Not modelled

Inside memvid-core: ranking, snippets, the logic mesh, ACLs, the embedder, and what
`create` does when two processes run `open_or_create` at once (`store.rs:595`). The
conversion of hits and cards to documents and `ContextItem`s formats text, scores and
provenance and keeps no state; only version keys, recencies and roles are modelled.
`render_message_text` is an input (`TextOf`, `Prompts`, `Responses`). Queries that
delegate to memvid-core and that no code here uses (timelines, slots, the mesh,
statistics), builders, errors, telemetry, the examples and the in-memory store shim
carry no protocol state. `on_demote` on a `Disabled` hook or an empty batch returns
`Ok` and changes nothing. Characters: texts are words and marks, so that word
boundaries inside Unicode text and the byte offsets of `to_lowercase` are not covered.

## 6. Plan

1. *Recall with two agents*: a selection while the turns of two agents interleave. The
   theorems cover it; an instance that TLC explores within the time of a run does not
   exist yet.
2. *Recall over restarts*: `PersistHook` covers the end of the process and `Recall` does
   not; what a selection finds in the next process is what was committed.
