-------------------------------- MODULE Store --------------------------------
(***************************************************************************)
(* The public operations of MemvidStore that make several calls into       *)
(* memvid-core under one guard, put_text and insert_documents, next to     *)
(* put_text_uncommitted followed by commit; and the search that reads what *)
(* they wrote through a MemvidFilter.                                      *)
(*                                                                         *)
(* Clients hold clones of one store.  A client writes its documents by one *)
(* of the three operations and calls again after an Err.  What a search    *)
(* returns in a state is Replies: a search holds the lock while it reads   *)
(* and changes nothing.                                                    *)
(*                                                                         *)
(* Frame i was written at time i.  A commit is what lets a search see a    *)
(* frame (put_text_uncommitted); that a search returns the frames its      *)
(* request describes, and no other, is memvid-core's part.                 *)
(***************************************************************************)
EXTENDS Archive, MemvidFilter, SequencesExt

CONSTANTS
    Clients,
    Call,            \* Call[c]: the operation client c uses and the documents it writes
    Samples,         \* numbers of hits asked for
    Expressions,     \* the filters a search is given, as sequences of clauses
    MaxAttempts,     \* bound on the calls of each client
    MaxRestarts      \* bound on the number of restarts

ASSUME StoreAssumption ==
    /\ MaxAttempts \in [Clients -> Nat] /\ MaxRestarts \in Nat /\ Samples \subseteq Nat
    /\ \A c \in Clients :
          /\ Call[c].op \in {"put_text", "put_text_uncommitted", "insert_documents"}
          /\ Call[c].docs \in Seq(ToSet(Call[c].docs))
          /\ Call[c].op # "insert_documents" => Len(Call[c].docs) = 1

(* A number of JSON is an i64 or a u64, unless it is a float.              *)
Values ==
    [type : {"bool", "string", "float"}, num : Int]
        \cup [type : {"int"}, num : MinI64..2 * MaxI64 + 1]

ASSUME ExpressionsAssumption ==
    \A x \in Expressions :
        /\ x \in Seq(ToSet(x))
        /\ \A k \in 1..Len(x) :
              /\ x[k].op \in {"eq", "gt", "lt"}
              /\ x[k].how \in (IF k = 1 THEN {"and"} ELSE {"and", "before", "or"})
              /\ x[k].value \in Values

VARIABLES
    embedder,    \* whether the store was built with an embedder
    status,      \* status[c]: "idle", "pending" (appended, not committed), "ok", "err"
    attempts,    \* attempts[c]: calls so far
    restarts

vars == <<archive, embedder, status, attempts, restarts>>

Init ==
    /\ ArchiveInit
    /\ embedder \in BOOLEAN
    /\ status = [c \in Clients |-> "idle"]
    /\ attempts = [c \in Clients |-> 0]
    /\ restarts = 0

Returns(c, result) == status' = [status EXCEPT ![c] = result]

Begin(c, op) ==
    /\ Call[c].op = op
    /\ status[c] \in {"idle", "err"}
    /\ attempts[c] < MaxAttempts[c]
    /\ attempts' = [attempts EXCEPT ![c] = @ + 1]
    /\ UNCHANGED <<embedder, restarts>>

(* encode, and the serialisation of documents, fail before the lock.       *)
PrepareFails(c) ==
    /\ "encode" \in Faults
    /\ embedder \/ Call[c].op = "insert_documents"
    /\ Returns(c, "err")
    /\ UNCHANGED archive

(* The first n documents of client c as this call appends them.            *)
Batch(c, n) == [i \in 1..n |-> [by |-> c, attempt |-> attempts'[c], doc |-> Call[c].docs[i]]]

(* Mutant of PutsAndCommit: a failing put is skipped, not returned.        *)
PutsSkippingFailures(c) ==
    /\ "store" \notin poisoned
    /\ \E missing \in SUBSET (1..Len(Call[c].docs)) :
          /\ missing # {} => "put" \in Faults
          /\ log' = log \o SelectSeq(Batch(c, Len(Call[c].docs)),
                                     LAMBDA e : \A i \in missing : Call[c].docs[i] # e.doc)
    /\ durable' = Len(log')
    /\ Returns(c, "ok")
    /\ UNCHANGED poisoned

(* Mutant of PutsAndCommit: an error of the commit is not returned.        *)
PutsIgnoringCommit(c) ==
    /\ "store" \notin poisoned
    /\ log' = log \o Batch(c, Len(Call[c].docs))
    /\ durable' \in (IF "commit" \in Faults THEN durable ELSE Len(log'))..Len(log')
    /\ Returns(c, "ok")
    /\ UNCHANGED poisoned

(* One critical section: a put for each document, and the commit.  A put   *)
(* that fails or panics leaves those before it appended.                   *)
PutsAndCommit(c) ==
    LET all == Len(Call[c].docs) IN
    /\ "store" \notin poisoned
    /\ \E n \in 0..all :
          /\ log' = log \o Batch(c, n)
          /\ \/ /\ n = all
                /\ durable' = Len(log')
                /\ Returns(c, "ok")
                /\ UNCHANGED poisoned
             \/ /\ IF n = all
                   THEN "commit" \in Faults /\ durable' \in durable..Len(log')
                   ELSE "put" \in Faults /\ durable' = durable
                /\ Returns(c, "err")
                /\ UNCHANGED poisoned
             \/ /\ "panic" \in Faults
                /\ durable' \in durable..(IF n = all THEN Len(log') ELSE durable)
                /\ Returns(c, "err")
                /\ poisoned' = poisoned \cup {"store"}

LockFails(c) ==
    /\ "store" \in poisoned
    /\ Returns(c, "err")
    /\ UNCHANGED archive

PutText(c) ==
    /\ Begin(c, "put_text")
    /\ PrepareFails(c) \/ LockFails(c) \/ PutsAndCommit(c)

InsertDocuments(c) ==
    /\ Begin(c, "insert_documents")
    /\ PrepareFails(c) \/ LockFails(c) \/ PutsAndCommit(c)

(* Mutant of PutTextUncommitted: an error of the put is not returned.      *)
PutTextIgnoringErrors(c) ==
    /\ Begin(c, "put_text_uncommitted")
    /\ \/ PrepareFails(c)
       \/ PutSucceeds(Batch(c, 1)[1]) /\ Returns(c, "pending")
       \/ PutFails("put") /\ Returns(c, "pending")
       \/ PutPanics(Batch(c, 1)[1]) /\ Returns(c, "err")

PutTextUncommitted(c) ==
    /\ Begin(c, "put_text_uncommitted")
    /\ \/ PrepareFails(c)
       \/ PutSucceeds(Batch(c, 1)[1]) /\ Returns(c, "pending")
       \/ PutFails("put") /\ Returns(c, "err")
       \/ PutPanics(Batch(c, 1)[1]) /\ Returns(c, "err")

(* The caller of put_text_uncommitted commits, and again after an Err.     *)
CommitPending(c) ==
    /\ status[c] = "pending"
    /\ \/ CommitSucceeds /\ Returns(c, "ok")
       \/ (CommitFails \/ CommitPanics) /\ UNCHANGED status
    /\ UNCHANGED <<embedder, attempts, restarts>>

Restart ==
    /\ restarts < MaxRestarts
    /\ restarts' = restarts + 1
    /\ Reopen
    /\ status' = [c \in Clients |-> IF status[c] = "pending" THEN "err" ELSE status[c]]
    /\ UNCHANGED <<embedder, attempts>>

Next ==
    \/ \E c \in Clients :
          PutText(c) \/ InsertDocuments(c) \/ PutTextUncommitted(c) \/ CommitPending(c)
    \/ Restart

Spec == Init /\ [][Next]_vars

------------------------------------------------------------------------------
(* Search.                                                                 *)

(* Whether frame i meets what a request restricts key to.                  *)
Meets(i, key, v) ==
    CASE key \in {"uri", "scope"} -> log[i].doc[key] = v
      [] key \in {"as_of_frame", "as_of_ts"} -> i <= v.num
      [] OTHER -> TRUE

Found(request) ==
    {i \in 1..durable : \A key \in Keys : request[key] # None => Meets(i, key, request[key])}

(* The replies memvid-core may give: all it found, or top_k of it.         *)
Hits(request) ==
    LET found == Found(request) IN
    {[result |-> "ok", hits |-> some] : some \in
        IF Cardinality(found) <= request.top_k THEN {found}
        ELSE {s \in SUBSET found : Cardinality(s) = request.top_k}}

Failure(result) == {[result |-> result, hits |-> {}]}

Locked(replies) == IF "store" \in poisoned THEN Failure("err") ELSE replies

(* The embedder encodes the query before the lock.                         *)
Encoded(replies) ==
    (IF embedder /\ "encode" \in Faults THEN Failure("err") ELSE {}) \cup replies

(* The request that a search with filter f sends to memvid-core, by one of *)
(* the two paths of run_search; none if it is refused.                     *)
Requests(f, samples) ==
    IF ~IsValid(f) THEN {}
    ELSE IF ~embedder THEN {LexRequest(f, samples)}
    ELSE IF ~EnsureVecFilterSupported(f) THEN {}
    ELSE {VecRequest(f, samples)}

(* run_search: what a search with filter f may return in this state.       *)
Replies(f, samples) ==
    LET requests == Requests(f, samples) IN
    IF requests = {} THEN Failure("refused")
    ELSE Encoded(Locked(UNION {Hits(request) : request \in requests}))

------------------------------------------------------------------------------
(* The state is well-formed; a client whose call returned the id of an     *)
(* uncommitted frame finds that frame in the archive (put_text_uncommitted). *)
TypeOK ==
    /\ \A i \in 1..Len(log) :
          log[i].by \in Clients /\ log[i].attempt \in 1..MaxAttempts[log[i].by]
    /\ durable \in 0..Len(log)
    /\ poisoned \subseteq {"store"}
    /\ embedder \in BOOLEAN
    /\ status \in [Clients -> {"idle", "pending", "ok", "err"}]
    /\ \A c \in Clients : attempts[c] \in 0..MaxAttempts[c]
    /\ restarts \in 0..MaxRestarts
    /\ \A c \in Clients :
          status[c] = "pending" =>
              Written([by |-> c, attempt |-> attempts[c], doc |-> Call[c].docs[1]])

(* put_text and insert_documents commit before they return Ok, and nobody  *)
(* takes back what a commit flushed: the documents of a call that returned *)
(* Ok are on disk, after a crash and after failed calls of others as well. *)
AckedIsDurable ==
    \A c \in Clients : status[c] = "ok" =>
        \A k \in 1..Len(Call[c].docs) :
            Durable([by |-> c, attempt |-> attempts[c], doc |-> Call[c].docs[k]])

(* The documents of the calls that returned Ok.                            *)
Acked ==
    UNION {{[by |-> c, attempt |-> attempts[c], doc |-> d] : d \in ToSet(Call[c].docs)} :
              c \in {c \in Clients : status[c] = "ok"}}

Memory ==
    INSTANCE DurableMemory WITH
        stored <- SubSeq(log, 1, durable), released <- Acked, ExactlyOnce <- FALSE

(* The store implements DurableMemory: no call that fails half-way, no     *)
(* retry and no reopening takes back or moves a frame that a commit        *)
(* flushed, and a caller gets Ok only for documents that are flushed.      *)
MemorySpec == Memory!Spec

(* insert_documents puts its documents under one guard and returns at the  *)
(* first that fails: whatever else is written, fails or is retried, what a *)
(* call left in the archive is a prefix of its documents, in their order,  *)
(* with no frame of another call in between.                               *)
BatchesAreContiguous ==
    \A i, j \in 1..Len(log) :
        LET docs == Call[log[i].by].docs
            same(e, f) == e.by = f.by /\ e.attempt = f.attempt
        IN  /\ i < j /\ same(log[i], log[j]) => \A k \in i..j : same(log[k], log[i])
            /\ (i = 1 \/ ~same(log[i - 1], log[i])) => log[i].doc = docs[1]
            /\ j = i + 1 /\ same(log[i], log[j]) =>
                  \E k \in 1..Len(docs) - 1 : log[i].doc = docs[k] /\ log[j].doc = docs[k + 1]

(* What the vector search does not apply of a filter: it refuses the first *)
(* (ensure_vec_filter_supported), and drops the second without an error,   *)
(* since vec_search passes on nothing but the scope.                       *)
RefusedByVec == {"uri", "as_of_frame", "as_of_ts"}
DroppedByVec == {"cursor", "no_sketch"}

(* What a search is given, and what it was asked for.                      *)
Searches ==
    {[filter     |-> Filter(x),
      supported  |-> \A k \in 1..Len(x) : Supported(x[k]),
      restricted |-> \E k \in 1..Len(x) : x[k].key \in RefusedByVec,
      effective  |-> Effective(x)] : x \in Expressions}

(* "constructing such a filter produces an error at query time" (store.rs, *)
(* MemvidFilter): a search is refused when one of the clauses its filter   *)
(* was built from is not supported, wherever and however it was joined in, *)
(* or when it goes to the embedder and one of them is on uri, as_of_frame  *)
(* or as_of_ts; and for no other reason.  So a clause on cursor or         *)
(* no_sketch, which the embedder can apply no more than those, is no       *)
(* reason: it is dropped (ClausesAreApplied).                              *)
RefusesExactly ==
    \A s \in Searches, n \in Samples : \A reply \in Replies(s.filter, n) :
        reply.result = "refused" <=> ~s.supported \/ (embedder /\ s.restricted)

(* The request asks for what the clause c says: the text, the switch or    *)
(* the number of c; the largest i64 for an as_of_ts beyond it.             *)
Carries(request, c) ==
    CASE c.key \in Strings    -> request[c.key] = JsonAsString(c.value)
      [] c.key = "no_sketch"  -> request[c.key] = c.value
      [] OTHER                ->
            /\ request[c.key].type = "int"
            /\ \/ Twice(request[c.key]) = Twice(c.value)
               \/ request[c.key].num = MaxI64 /\ Twice(c.value) > 2 * MaxI64

(* "Effect on the search request" (store.rs, the table of MemvidFilter):   *)
(* of a search that is not refused, each clause, the last one of a key,    *)
(* reaches memvid-core in the request, whatever it was joined with and     *)
(* whichever of the two searches runs.  The exception is a divergence from *)
(* the table: the embedder's search is given neither cursor nor no_sketch, *)
(* and says nothing of it.                                                 *)
ClausesAreApplied ==
    \A s \in Searches, n \in Samples : \A request \in Requests(s.filter, n) :
        \A c \in s.effective : Carries(request, c) \/ (embedder /\ c.key \in DroppedByVec)

MeetsClause(i, c) ==
    CASE c.key \in {"uri", "scope"} -> log[i].doc[c.key] = JsonAsString(c.value)
      [] c.key \in {"as_of_frame", "as_of_ts"} -> 2 * i <= Twice(c.value)
      [] OTHER -> TRUE

(* A search that is not refused finds only committed frames that meet each *)
(* of its clauses, the last one of a key, in the numbers that were asked   *)
(* for (an as_of_ts given as a float or above the range of an i64          *)
(* included); and unless the cap on the samples cuts it short, it finds    *)
(* all of them that a call that returned Ok has written.                   *)
HitsAreExact ==
    \A s \in Searches, n \in Samples : \A reply \in Replies(s.filter, n) :
        reply.result = "ok" =>
            /\ \A i \in reply.hits : i <= durable /\ \A c \in s.effective : MeetsClause(i, c)
            /\ Cardinality(reply.hits) < n /\ Cardinality(reply.hits) < MaxSamples =>
                  \A i \in 1..Len(log) \ reply.hits :
                      status[log[i].by] = "ok" /\ log[i].attempt = attempts[log[i].by] =>
                          \E c \in s.effective : ~MeetsClause(i, c)
==============================================================================
