----------------------------- MODULE StoreProofs -----------------------------
(***************************************************************************)
(* Theorems about the operations of MemvidStore, for every number of       *)
(* clients, every set of documents and faults, any number of attempts and  *)
(* any number of restarts.                                                 *)
(***************************************************************************)
EXTENDS Store, ProofLemmas

USE DEF archive

------------------------------------------------------------------------------
Docs(c) == Call[c].docs

AllDocs == UNION {ToSet(Docs(c)) : c \in Clients}

LogFrames == [by : Clients, attempt : Nat, doc : AllDocs]

FrameOf(c, n, k) == [by |-> c, attempt |-> n, doc |-> Docs(c)[k]]

(* The inductive form of TypeOK: an attempt that was never begun has left  *)
(* nothing in the archive.                                                 *)
StoreType ==
    /\ log \in Seq(LogFrames)
    /\ \A i \in 1..Len(log) : log[i].attempt \in 1..attempts[log[i].by]
    /\ durable \in 0..Len(log)
    /\ poisoned \subseteq {"store"}
    /\ embedder \in BOOLEAN
    /\ status \in [Clients -> {"idle", "pending", "ok", "err"}]
    /\ attempts \in [Clients -> Nat]
    /\ \A c \in Clients : attempts[c] <= MaxAttempts[c]
    /\ restarts \in 0..MaxRestarts
    /\ \A c \in Clients :
          status[c] = "pending" => Len(Docs(c)) = 1 /\ Written(FrameOf(c, attempts[c], 1))

LEMMA DocsType ==
    ASSUME NEW c \in Clients
    PROVE  /\ Len(Docs(c)) \in Nat
           /\ \A k \in 1..Len(Docs(c)) : Docs(c)[k] \in AllDocs
<1>1. Docs(c) \in Seq(ToSet(Docs(c)))
  BY StoreAssumption DEF Docs
<1>2. Len(Docs(c)) \in Nat /\ \A k \in 1..Len(Docs(c)) : Docs(c)[k] \in ToSet(Docs(c))
  BY <1>1, LenProperties, ElementOfSeq
<1>3. QED BY <1>2 DEF AllDocs

LEMMA TypeImplies == StoreType => TypeOK
<1> SUFFICES ASSUME StoreType PROVE TypeOK
  OBVIOUS
<1>1. ASSUME NEW i \in 1..Len(log)
      PROVE  log[i].by \in Clients /\ log[i].attempt \in 1..MaxAttempts[log[i].by]
  <2>1. log[i] \in LogFrames
    BY ElementOfSeq DEF StoreType
  <2>2. log[i].by \in Clients /\ log[i].attempt \in 1..attempts[log[i].by]
    BY <2>1 DEF StoreType, LogFrames
  <2>3. attempts[log[i].by] \in Nat /\ attempts[log[i].by] <= MaxAttempts[log[i].by]
        /\ MaxAttempts[log[i].by] \in Nat
    BY <2>2, StoreAssumption DEF StoreType
  <2>4. QED BY <2>2, <2>3
<1>2. ASSUME NEW c \in Clients
      PROVE  /\ attempts[c] \in 0..MaxAttempts[c]
             /\ status[c] = "pending" =>
                    Written([by |-> c, attempt |-> attempts[c], doc |-> Call[c].docs[1]])
  BY <1>2, StoreAssumption DEF StoreType, FrameOf, Docs
<1>3. QED BY <1>1, <1>2 DEF StoreType, TypeOK

------------------------------------------------------------------------------
(* What one call of client c does: it appends the first n of its documents *)
(* as a new attempt; Ok means that all of them are there and flushed.      *)
Appends(c, n) ==
    /\ log' \in Seq(LogFrames)
    /\ Len(log) \in Nat /\ Len(log') = Len(log) + n
    /\ \A i \in 1..Len(log) : log'[i] = log[i]
    /\ \A k \in 1..n : log'[Len(log) + k] = FrameOf(c, attempts[c] + 1, k)

CallEffect(c, n, result) ==
    /\ Appends(c, n)
    /\ durable' \in durable..Len(log')
    /\ poisoned' \subseteq {"store"}
    /\ status[c] \in {"idle", "err"}
    /\ status' = [status EXCEPT ![c] = result]
    /\ attempts' = [attempts EXCEPT ![c] = attempts[c] + 1]
    /\ attempts[c] < MaxAttempts[c]
    /\ result = "ok" => n = Len(Docs(c)) /\ durable' = Len(log')
    /\ result = "pending" => n = 1 /\ Len(Docs(c)) = 1
    /\ UNCHANGED <<embedder, restarts>>

LEMMA AppendNothing ==
    ASSUME StoreType, NEW c \in Clients, log' = log
    PROVE  Appends(c, 0)
BY LenProperties DEF StoreType, Appends

LEMMA AppendBatch ==
    ASSUME StoreType, NEW c \in Clients, NEW n \in 0..Len(Docs(c)),
           attempts' = [attempts EXCEPT ![c] = attempts[c] + 1],
           log' = log \o Batch(c, n)
    PROVE  Appends(c, n)
<1>1. attempts[c] \in Nat /\ attempts'[c] = attempts[c] + 1 /\ n \in Nat /\ Len(Docs(c)) \in Nat
  BY DocsType DEF StoreType
<1>2. Batch(c, n) = [i \in 1..n |-> FrameOf(c, attempts[c] + 1, i)]
  BY <1>1 DEF Batch, FrameOf, Docs
<1>3. \A i \in 1..n : FrameOf(c, attempts[c] + 1, i) \in LogFrames
  BY <1>1, DocsType DEF FrameOf, LogFrames
<1>4. Batch(c, n) \in Seq(LogFrames) /\ Len(Batch(c, n)) = n
  BY <1>1, <1>2, <1>3
<1>5. log \in Seq(LogFrames) /\ Len(log) \in Nat
  BY DEF StoreType
<1>6. /\ log' \in Seq(LogFrames)
      /\ Len(log') = Len(log) + n
      /\ \A i \in 1..Len(log) + n :
            log'[i] = IF i <= Len(log) THEN log[i] ELSE Batch(c, n)[i - Len(log)]
  <2>1. PICK b : b = Batch(c, n)
    OBVIOUS
  <2>2. b \in Seq(LogFrames) /\ Len(b) = n /\ log' = log \o b
    BY <1>4, <2>1
  <2>3. /\ log \o b \in Seq(LogFrames)
        /\ Len(log \o b) = Len(log) + Len(b)
        /\ \A i \in 1..Len(log) + Len(b) :
              (log \o b)[i] = IF i <= Len(log) THEN log[i] ELSE b[i - Len(log)]
    BY <1>5, <2>2, ConcatProperties
  <2> QED BY <2>1, <2>2, <2>3
<1>7. ASSUME NEW k \in 1..n PROVE log'[Len(log) + k] = FrameOf(c, attempts[c] + 1, k)
  BY <1>1, <1>2, <1>5, <1>6
<1>8. \A i \in 1..Len(log) : log'[i] = log[i]
  BY <1>1, <1>5, <1>6
<1>9. QED BY <1>5, <1>6, <1>7, <1>8 DEF Appends

LEMMA AppendOne ==
    ASSUME StoreType, NEW c \in Clients, Len(Docs(c)) = 1,
           attempts' = [attempts EXCEPT ![c] = attempts[c] + 1],
           log' = Append(log, Batch(c, 1)[1])
    PROVE  Appends(c, 1)
<1>1. attempts[c] \in Nat /\ attempts'[c] = attempts[c] + 1
  BY DEF StoreType
<1>2. Batch(c, 1)[1] = FrameOf(c, attempts[c] + 1, 1) /\ Batch(c, 1)[1] \in LogFrames
  BY <1>1, DocsType DEF Batch, FrameOf, Docs, LogFrames
<1>3. log \in Seq(LogFrames) /\ Len(log) \in Nat
  BY DEF StoreType
<1>4. /\ log' \in Seq(LogFrames)
      /\ Len(log') = Len(log) + 1
      /\ \A i \in 1..Len(log) : log'[i] = log[i]
      /\ log'[Len(log) + 1] = FrameOf(c, attempts[c] + 1, 1)
  BY <1>2, <1>3, AppendProperties
<1>5. QED BY <1>3, <1>4 DEF Appends

(* A call of any of the three operations.                                  *)
LEMMA CallStep ==
    ASSUME StoreType, NEW c \in Clients,
           PutText(c) \/ InsertDocuments(c) \/ PutTextUncommitted(c)
    PROVE  \E n \in 0..Len(Docs(c)), result \in {"ok", "pending", "err"} : CallEffect(c, n, result)
<1>1. /\ status[c] \in {"idle", "err"} /\ attempts[c] < MaxAttempts[c]
      /\ attempts' = [attempts EXCEPT ![c] = attempts[c] + 1]
      /\ UNCHANGED <<embedder, restarts>>
  BY DEF PutText, InsertDocuments, PutTextUncommitted, Begin
<1>2. /\ Len(Docs(c)) \in Nat /\ log \in Seq(LogFrames) /\ Len(log) \in Nat
      /\ durable \in 0..Len(log) /\ poisoned \subseteq {"store"}
  BY DocsType DEF StoreType
<1>3. CASE PrepareFails(c) \/ LockFails(c)
  <2>1. log' = log /\ durable' = durable /\ poisoned' = poisoned
        /\ status' = [status EXCEPT ![c] = "err"]
    BY <1>3 DEF PrepareFails, LockFails, Returns
  <2>2. CallEffect(c, 0, "err")
    BY <1>1, <1>2, <2>1, AppendNothing DEF CallEffect
  <2>3. QED BY <1>2, <2>2
<1>4. CASE PutsAndCommit(c)
  <2>1. PICK n \in 0..Len(Docs(c)) :
          /\ log' = log \o Batch(c, n)
          /\ \/ /\ n = Len(Docs(c))
                /\ durable' = Len(log')
                /\ Returns(c, "ok")
                /\ UNCHANGED poisoned
             \/ /\ IF n = Len(Docs(c))
                   THEN "commit" \in Faults /\ durable' \in durable..Len(log')
                   ELSE "put" \in Faults /\ durable' = durable
                /\ Returns(c, "err")
                /\ UNCHANGED poisoned
             \/ /\ "panic" \in Faults
                /\ durable' \in durable..(IF n = Len(Docs(c)) THEN Len(log') ELSE durable)
                /\ Returns(c, "err")
                /\ poisoned' = poisoned \cup {"store"}
    BY <1>4 DEF PutsAndCommit, Docs
  <2>2. Appends(c, n)
    BY <1>1, <2>1, AppendBatch
  <2>3. Len(log') \in Nat /\ Len(log) <= Len(log')
    BY <1>2, <2>2 DEF Appends
  <2>4. durable' \in durable..Len(log') /\ poisoned' \subseteq {"store"}
    <3>1. durable \in Nat /\ durable <= Len(log')
      BY <1>2, <2>3
    <3>2. durable' \in {Len(log'), durable} \cup (durable..Len(log')) \cup (durable..durable)
      BY <2>1
    <3>3. poisoned' \in {poisoned, poisoned \cup {"store"}}
      BY <2>1
    <3>4. QED BY <1>2, <2>3, <3>1, <3>2, <3>3
  <2>5. CASE n = Len(Docs(c)) /\ durable' = Len(log') /\ Returns(c, "ok")
    <3>1. CallEffect(c, n, "ok")
      BY <1>1, <2>2, <2>4, <2>5 DEF CallEffect, Returns
    <3>2. QED BY <3>1
  <2>6. CASE Returns(c, "err")
    <3>1. CallEffect(c, n, "err")
      BY <1>1, <2>2, <2>4, <2>6 DEF CallEffect, Returns
    <3>2. QED BY <3>1
  <2>7. QED BY <2>1, <2>5, <2>6
<1>5. CASE PutTextUncommitted(c) /\ ~PrepareFails(c)
  <2>1. Len(Docs(c)) = 1
    BY <1>5, StoreAssumption DEF PutTextUncommitted, Begin, Docs
  <2>2. CASE PutSucceeds(Batch(c, 1)[1]) /\ Returns(c, "pending")
    <3>1. Appends(c, 1)
      BY <1>1, <2>1, <2>2, AppendOne DEF PutSucceeds
    <3>2. durable' = durable /\ poisoned' = poisoned /\ Len(log') = Len(log) + 1
      BY <2>2, <3>1 DEF PutSucceeds, Appends
    <3>3. CallEffect(c, 1, "pending")
      BY <1>1, <1>2, <2>1, <2>2, <3>1, <3>2 DEF CallEffect, Returns
    <3>4. QED BY <2>1, <3>3
  <2>3. CASE PutFails("put") /\ Returns(c, "err")
    <3>1. log' = log /\ durable' = durable /\ poisoned' = poisoned
      BY <2>3 DEF PutFails
    <3>2. CallEffect(c, 0, "err")
      BY <1>1, <1>2, <2>3, <3>1, AppendNothing DEF CallEffect, Returns
    <3>3. QED BY <1>2, <3>2
  <2>4. CASE PutPanics(Batch(c, 1)[1]) /\ Returns(c, "err")
    <3>1. PICK n \in {0, 1} : Appends(c, n)
      BY <1>1, <2>1, <2>4, AppendNothing, AppendOne DEF PutPanics
    <3>2. durable' = durable /\ poisoned' \subseteq {"store"} /\ Len(log') = Len(log) + n
      BY <1>2, <2>4, <3>1 DEF PutPanics, Appends
    <3>3. CallEffect(c, n, "err")
      BY <1>1, <1>2, <2>4, <3>1, <3>2 DEF CallEffect, Returns
    <3>4. QED BY <2>1, <3>3
  <2>5. QED BY <1>5, <2>2, <2>3, <2>4 DEF PutTextUncommitted
<1>6. QED BY <1>3, <1>4, <1>5 DEF PutText, InsertDocuments

------------------------------------------------------------------------------
(* Type correctness.                                                       *)

LEMMA TypeInit == Init => StoreType
BY EmptySeq, StoreAssumption DEF Init, ArchiveInit, StoreType

LEMMA CallType ==
    ASSUME StoreType, NEW c \in Clients, NEW n \in 0..Len(Docs(c)),
           NEW result \in {"ok", "pending", "err"}, CallEffect(c, n, result)
    PROVE  StoreType'
<1>1. /\ Len(log) \in Nat /\ Len(log') = Len(log) + n /\ n \in Nat
      /\ log' \in Seq(LogFrames)
      /\ \A i \in 1..Len(log) : log'[i] = log[i]
      /\ \A k \in 1..n : log'[Len(log) + k] = FrameOf(c, attempts[c] + 1, k)
  BY DocsType DEF CallEffect, Appends
<1>2. /\ attempts' \in [Clients -> Nat] /\ attempts'[c] = attempts[c] + 1
      /\ \A d \in Clients \ {c} : attempts'[d] = attempts[d]
      /\ \A d \in Clients : attempts[d] \in Nat /\ attempts[d] <= attempts'[d]
  BY DEF CallEffect, StoreType
<1>3. \A d \in Clients : attempts'[d] <= MaxAttempts[d]
  BY <1>2, StoreAssumption DEF CallEffect, StoreType
<1>4. ASSUME NEW i \in 1..Len(log') PROVE log'[i].attempt \in 1..attempts'[log'[i].by]
  <2>1. CASE i \in 1..Len(log)
    <3>1. log[i].by \in Clients /\ log[i].attempt \in 1..attempts[log[i].by]
      <4>1. log[i] \in LogFrames
        BY <2>1, ElementOfSeq DEF StoreType
      <4>2. QED BY <2>1, <4>1 DEF StoreType, LogFrames
    <3>2. QED BY <1>1, <1>2, <2>1, <3>1
  <2>2. CASE i \notin 1..Len(log)
    <3>1. i - Len(log) \in 1..n /\ i = Len(log) + (i - Len(log))
      BY <1>1, <2>2
    <3>2. log'[i] = FrameOf(c, attempts[c] + 1, i - Len(log))
      BY <1>1, <3>1
    <3>3. QED BY <1>2, <3>2 DEF FrameOf
  <2>3. QED BY <2>1, <2>2
<1>5. ASSUME NEW d \in Clients, status'[d] = "pending"
      PROVE  Len(Docs(d)) = 1 /\ Written(FrameOf(d, attempts[d], 1))'
  <2>1. CASE d = c
    <3>1. n = 1 /\ Len(Docs(c)) = 1
      BY <1>5, <2>1 DEF CallEffect, StoreType
    <3>2. log'[Len(log) + 1] = FrameOf(c, attempts'[c], 1) /\ Len(log) + 1 \in 1..Len(log')
      BY <1>1, <1>2, <3>1
    <3>3. QED BY <2>1, <3>1, <3>2 DEF Written, FrameOf
  <2>2. CASE d # c
    <3>1. status[d] = "pending" /\ attempts'[d] = attempts[d]
      BY <1>2, <1>5, <2>2 DEF CallEffect, StoreType
    <3>2. Len(Docs(d)) = 1 /\ \E i \in 1..Len(log) : log[i] = FrameOf(d, attempts[d], 1)
      BY <3>1 DEF StoreType, Written
    <3>3. \E i \in 1..Len(log') : log'[i] = FrameOf(d, attempts'[d], 1)
      BY <1>1, <3>1, <3>2
    <3>4. QED BY <3>2, <3>3 DEF Written, FrameOf
  <2>3. QED BY <2>1, <2>2
<1>6. durable' \in 0..Len(log')
  BY <1>1 DEF CallEffect, StoreType
<1>7. status' \in [Clients -> {"idle", "pending", "ok", "err"}] /\ poisoned' \subseteq {"store"}
      /\ embedder' \in BOOLEAN /\ restarts' \in 0..MaxRestarts
  BY DEF CallEffect, StoreType
<1>8. QED BY <1>1, <1>2, <1>3, <1>4, <1>5, <1>6, <1>7 DEF StoreType

(* What a commit and a restart leave of the archive.                       *)
LEMMA CommitEffect ==
    ASSUME StoreType, NEW c \in Clients, CommitPending(c)
    PROVE  /\ log' = log /\ durable' \in durable..Len(log) /\ poisoned' \subseteq {"store"}
           /\ attempts' = attempts /\ embedder' = embedder /\ restarts' = restarts
           /\ \/ status' = status
              \/ status[c] = "pending" /\ status' = [status EXCEPT ![c] = "ok"] /\ durable' = Len(log)
<1>1. Len(log) \in Nat /\ durable \in 0..Len(log) /\ poisoned \subseteq {"store"}
  BY LenProperties DEF StoreType
<1>2. CASE CommitSucceeds /\ Returns(c, "ok")
  BY <1>1, <1>2 DEF CommitPending, CommitSucceeds, Returns
<1>3. CASE CommitFails /\ UNCHANGED status
  BY <1>1, <1>3 DEF CommitPending, CommitFails
<1>4. CASE CommitPanics /\ UNCHANGED status
  BY <1>1, <1>4 DEF CommitPending, CommitPanics
<1>5. QED BY <1>2, <1>3, <1>4 DEF CommitPending

LEMMA RestartEffect ==
    ASSUME StoreType, Restart
    PROVE  /\ log' \in Seq(LogFrames)
           /\ Len(log) \in Nat /\ Len(log') \in Nat /\ Len(log') <= Len(log)
           /\ durable' = Len(log') /\ durable \in 0..Len(log')
           /\ \A i \in 1..Len(log') : log'[i] = log[i]
           /\ poisoned' = {} /\ attempts' = attempts /\ embedder' = embedder
           /\ restarts' \in 0..MaxRestarts
           /\ status' \in [Clients -> {"idle", "pending", "ok", "err"}]
           /\ \A c \in Clients :
                 status'[c] # "pending" /\ (status'[c] = "ok" => status[c] = "ok")
<1>1. PICK kept \in durable..Len(log) : log' = SubSeq(log, 1, kept) /\ durable' = kept
  BY DEF Restart, Reopen
<1>2. log \in Seq(LogFrames) /\ Len(log) \in Nat /\ durable \in 0..Len(log) /\ kept \in Nat
  BY <1>1, LenProperties DEF StoreType
<1>3. log' \in Seq(LogFrames) /\ Len(log') = kept /\ \A i \in 1..kept : log'[i] = log[i]
  BY <1>1, <1>2
<1>4. restarts' \in 0..MaxRestarts
  BY StoreAssumption DEF Restart, StoreType
<1>5. /\ status' \in [Clients -> {"idle", "pending", "ok", "err"}]
      /\ \A c \in Clients :
            status'[c] # "pending" /\ (status'[c] = "ok" => status[c] = "ok")
  BY DEF Restart, StoreType
<1>6. poisoned' = {} /\ attempts' = attempts /\ embedder' = embedder
  BY DEF Restart, Reopen
<1>7. QED BY <1>1, <1>2, <1>3, <1>4, <1>5, <1>6

LEMMA TypeStep ==
    ASSUME StoreType, [Next]_vars
    PROVE  StoreType'
<1>1. CASE \E c \in Clients : PutText(c) \/ InsertDocuments(c) \/ PutTextUncommitted(c)
  BY <1>1, CallStep, CallType
<1>2. CASE \E c \in Clients : CommitPending(c)
  <2>1. PICK c \in Clients : CommitPending(c)
    BY <1>2
  <2>2. /\ log' = log /\ durable' \in 0..Len(log) /\ poisoned' \subseteq {"store"}
        /\ attempts' = attempts /\ embedder' = embedder /\ restarts' = restarts
        /\ status' \in [Clients -> {"idle", "pending", "ok", "err"}]
        /\ \A d \in Clients : status'[d] = "pending" => status[d] = "pending"
    BY <2>1, CommitEffect, LenProperties DEF StoreType
  <2>3. QED BY <2>2 DEF StoreType, Written, FrameOf, Docs
<1>3. CASE Restart
  <2>1. \A i \in 1..Len(log') : log'[i].attempt \in 1..attempts'[log'[i].by]
    BY <1>3, RestartEffect DEF StoreType
  <2>2. QED BY <1>3, <2>1, RestartEffect DEF StoreType
<1>4. CASE UNCHANGED vars
  BY <1>4 DEF vars, StoreType, Written, FrameOf, Docs
<1>5. QED BY <1>1, <1>2, <1>3, <1>4 DEF Next

(* Every reachable state is well-formed, and the id put_text_uncommitted   *)
(* returned is that of a frame in the archive.                             *)
THEOREM TypeCorrect == Spec => []TypeOK
<1>1. StoreType /\ [Next]_vars => StoreType'
  BY TypeStep
<1>2. QED BY <1>1, TypeInit, TypeImplies, PTL DEF Spec

------------------------------------------------------------------------------
(* Durability.                                                             *)

LEMMA AckedStep ==
    ASSUME StoreType, AckedIsDurable, [Next]_vars
    PROVE  AckedIsDurable'
<1>1. SUFFICES ASSUME NEW d \in Clients, status'[d] = "ok", NEW k \in 1..Len(Docs(d))
               PROVE  \E i \in 1..durable' : log'[i] = FrameOf(d, attempts'[d], k)
  BY DEF AckedIsDurable, Durable, FrameOf, Docs
<1>2. Len(log) \in Nat /\ durable \in 0..Len(log)
  BY LenProperties DEF StoreType
<1>3. status[d] = "ok" => \E i \in 1..durable : log[i] = FrameOf(d, attempts[d], k)
  BY <1>1 DEF AckedIsDurable, Durable, FrameOf, Docs
<1>4. CASE \E c \in Clients : PutText(c) \/ InsertDocuments(c) \/ PutTextUncommitted(c)
  <2>1. PICK c \in Clients :
            \E n \in 0..Len(Docs(c)), result \in {"ok", "pending", "err"} : CallEffect(c, n, result)
    BY <1>4, CallStep
  <2> PICK n \in 0..Len(Docs(c)), result \in {"ok", "pending", "err"} : CallEffect(c, n, result)
    BY <2>1
  <2>2. /\ Len(log') = Len(log) + n /\ n \in Nat /\ durable' \in durable..Len(log')
        /\ \A i \in 1..Len(log) : log'[i] = log[i]
        /\ \A j \in 1..n : log'[Len(log) + j] = FrameOf(c, attempts[c] + 1, j)
    BY DocsType DEF CallEffect, Appends
  <2>3. CASE d = c
    <3>1. n = Len(Docs(c)) /\ durable' = Len(log') /\ attempts'[c] = attempts[c] + 1
      BY <1>1, <2>3 DEF CallEffect, StoreType
    <3>2. log'[Len(log) + k] = FrameOf(c, attempts'[c], k)
      BY <1>1, <2>2, <2>3, <3>1
    <3>3. Len(log) + k \in 1..durable'
      BY <1>1, <1>2, <2>2, <2>3, <3>1
    <3>4. QED BY <2>3, <3>2, <3>3
  <2>4. CASE d # c
    <3>1. status[d] = "ok" /\ attempts'[d] = attempts[d]
      BY <1>1, <2>4 DEF CallEffect, StoreType
    <3>2. QED BY <1>2, <1>3, <2>2, <3>1
  <2>5. QED BY <2>3, <2>4
<1>5. CASE \E c \in Clients : CommitPending(c)
  <2>1. PICK c \in Clients : CommitPending(c)
    BY <1>5
  <2>2. log' = log /\ durable' \in durable..Len(log) /\ attempts' = attempts
    BY <2>1, CommitEffect
  <2>3. CASE status[d] = "ok"
    BY <1>2, <1>3, <2>2, <2>3
  <2>4. CASE status[d] # "ok"
    <3>1. status[d] = "pending" /\ durable' = Len(log)
      BY <1>1, <2>1, <2>4, CommitEffect DEF StoreType
    <3>2. Len(Docs(d)) = 1 /\ Written(FrameOf(d, attempts[d], 1))
      BY <1>1, <3>1 DEF StoreType
    <3>3. k = 1
      BY <1>1, <3>2
    <3>4. \E i \in 1..Len(log) : log[i] = FrameOf(d, attempts[d], 1)
      BY <3>2 DEF Written
    <3>5. QED BY <2>2, <3>1, <3>3, <3>4
  <2>5. QED BY <2>3, <2>4
<1>6. CASE Restart
  BY <1>1, <1>2, <1>3, <1>6, RestartEffect
<1>7. CASE UNCHANGED vars
  BY <1>1, <1>3, <1>7 DEF vars
<1>8. QED BY <1>4, <1>5, <1>6, <1>7 DEF Next

(* The documents of a call that returned Ok are on disk, for good: after   *)
(* failures and panics of other calls, and over any number of restarts.    *)
THEOREM AckedDocumentsAreDurable == Spec => []AckedIsDurable
<1>1. Init => StoreType /\ AckedIsDurable
  BY TypeInit DEF Init, AckedIsDurable
<1>2. StoreType /\ AckedIsDurable /\ [Next]_vars => (StoreType /\ AckedIsDurable)'
  BY TypeStep, AckedStep
<1>3. QED BY <1>1, <1>2, PTL DEF Spec

------------------------------------------------------------------------------
(* The refinement of DurableMemory.                                        *)

Stored == SubSeq(log, 1, durable)

LEMMA StoredIs ==
    ASSUME StoreType
    PROVE  /\ Stored \in Seq(LogFrames) /\ Len(Stored) = durable /\ durable \in Nat
           /\ \A i \in 1..durable : Stored[i] = log[i] /\ i \in DOMAIN Stored
<1>1. /\ Stored \in Seq(LogFrames) /\ Len(Stored) = durable /\ durable \in Nat
      /\ \A i \in 1..durable : Stored[i] = log[i]
  BY TakeProperties, LenProperties DEF StoreType, Stored
<1>2. DOMAIN Stored = 1..durable
  BY <1>1, LenProperties
<1>. QED BY <1>1, <1>2

(* What is flushed stays where it is.                                      *)
LEMMA DurableStays ==
    ASSUME StoreType, Next
    PROVE  durable' \in Nat /\ durable <= durable' /\ \A i \in 1..durable : log'[i] = log[i]
<1>1. durable \in 0..Len(log) /\ Len(log) \in Nat
  BY LenProperties DEF StoreType
<1>2. CASE \E c \in Clients : PutText(c) \/ InsertDocuments(c) \/ PutTextUncommitted(c)
  <2>0. PICK c \in Clients :
            \E n \in 0..Len(Docs(c)), result \in {"ok", "pending", "err"} : CallEffect(c, n, result)
    BY <1>2, CallStep
  <2>1. PICK n \in 0..Len(Docs(c)), result \in {"ok", "pending", "err"} : CallEffect(c, n, result)
    BY <2>0
  <2>2. Len(log') \in Nat /\ durable' \in durable..Len(log') /\ \A i \in 1..Len(log) : log'[i] = log[i]
    BY <2>1, DocsType DEF CallEffect, Appends
  <2>. QED BY <1>1, <2>2
<1>3. CASE \E c \in Clients : CommitPending(c)
  BY <1>1, <1>3, CommitEffect
<1>4. CASE Restart
  BY <1>1, <1>4, RestartEffect
<1>. QED BY <1>2, <1>3, <1>4 DEF Next

LEMMA StoredGrows ==
    ASSUME StoreType, StoreType', Next
    PROVE  Memory!IsPrefix(Stored, Stored')
<1>1. /\ Stored \in Seq(LogFrames) /\ Len(Stored) = durable /\ durable \in Nat
      /\ \A i \in 1..durable : Stored[i] = log[i]
  BY StoredIs
<1>2. /\ Stored' \in Seq(LogFrames) /\ Len(Stored') = durable'
      /\ \A i \in 1..durable' : Stored'[i] = log'[i]
  <2>1. log' \in Seq(LogFrames) /\ durable' \in 0..Len(log')
    BY DEF StoreType
  <2>. QED BY <2>1, TakeProperties DEF Stored
<1>3. durable' \in Nat /\ durable <= durable' /\ \A i \in 1..durable : log'[i] = log[i]
  BY DurableStays
<1>4. SubSeq(Stored, 1, Len(Stored)) = SubSeq(Stored', 1, Len(Stored))
  BY <1>1, <1>2, <1>3, BeginsWith
<1>. QED BY <1>1, <1>2, <1>3, <1>4 DEF Memory!IsPrefix

(* A caller that has its Ok calls no more, so that what it wrote stays     *)
(* acknowledged.                                                           *)
LEMMA AckedGrows ==
    ASSUME StoreType, Next
    PROVE  Acked \subseteq Acked'
<1>1. \A d \in Clients : status[d] = "ok" => status'[d] = "ok" /\ attempts'[d] = attempts[d]
  <2>1. CASE \E c \in Clients : PutText(c) \/ InsertDocuments(c) \/ PutTextUncommitted(c)
    <3>0. PICK c \in Clients :
              \E n \in 0..Len(Docs(c)), result \in {"ok", "pending", "err"} : CallEffect(c, n, result)
      BY <2>1, CallStep
    <3>1. PICK n \in 0..Len(Docs(c)), result \in {"ok", "pending", "err"} : CallEffect(c, n, result)
      BY <3>0
    <3>. QED BY <3>1 DEF CallEffect, StoreType
  <2>2. CASE \E c \in Clients : CommitPending(c)
    <3>1. PICK c \in Clients : CommitPending(c)
      BY <2>2
    <3>. QED BY <3>1, CommitEffect DEF StoreType
  <2>3. CASE Restart
    BY <2>3 DEF Restart, StoreType
  <2>. QED BY <2>1, <2>2, <2>3 DEF Next
<1>. QED BY <1>1 DEF Acked

AckedIsStored == Acked \subseteq {Stored[i] : i \in DOMAIN Stored}

LEMMA AckedAreStored ==
    ASSUME StoreType, AckedIsDurable
    PROVE  AckedIsStored
<1>. SUFFICES ASSUME NEW c \in Clients, status[c] = "ok", NEW d \in ToSet(Call[c].docs)
              PROVE  \E i \in DOMAIN Stored :
                        Stored[i] = [by |-> c, attempt |-> attempts[c], doc |-> d]
  BY DEF Acked, AckedIsStored
<1>1. PICK k \in 1..Len(Call[c].docs) : d = Call[c].docs[k]
  BY StoreAssumption, LenProperties DEF ToSet
<1>2. PICK i \in 1..durable : log[i] = [by |-> c, attempt |-> attempts[c], doc |-> Call[c].docs[k]]
  BY <1>1 DEF AckedIsDurable, Durable
<1>. QED BY <1>1, <1>2, StoredIs

(* The store keeps the promise of DurableMemory: what a commit flushed     *)
(* stays on disk in the same order, and a call returns Ok only once its    *)
(* documents are there, whatever fails, panics, is retried or reopened.    *)
THEOREM ImplementsMemory == Spec => MemorySpec
<1>1. Init => StoreType /\ AckedIsDurable
  BY TypeInit DEF Init, AckedIsDurable
<1>2. StoreType /\ AckedIsDurable /\ [Next]_vars => (StoreType /\ AckedIsDurable)'
  BY TypeStep, AckedStep
<1>3. Init => Memory!Init
  <2>1. ASSUME Init PROVE Stored = <<>> /\ Acked = {}
    <3>1. Acked = {} /\ log = <<>> /\ durable = 0
      BY <2>1 DEF Init, ArchiveInit, Acked
    <3>. QED BY <3>1 DEF Stored
  <2>. QED BY <2>1 DEF Memory!Init, Stored
<1>4. StoreType /\ AckedIsDurable => AckedIsStored
  BY AckedAreStored
<1>5. ASSUME StoreType, StoreType', AckedIsStored', [Next]_vars
      PROVE  [Memory!Next]_<<Stored, Acked>>
  <2>1. CASE UNCHANGED vars
    BY <2>1 DEF vars, Stored, Acked
  <2>2. CASE Next
    <3>1. Memory!IsPrefix(Stored, Stored') /\ Acked \subseteq Acked'
      BY <1>5, <2>2, StoredGrows, AckedGrows
    <3>. QED BY <1>5, <3>1 DEF AckedIsStored, Memory!Next, Memory!Persist, Memory!Release, Stored
  <2>. QED BY <1>5, <2>1, <2>2
<1>. QED BY <1>1, <1>2, <1>3, <1>4, <1>5, PTL DEF Spec, MemorySpec, Memory!Spec, Stored

------------------------------------------------------------------------------
(* Batches.  What BatchesAreContiguous says, of any sequence of frames.    *)

Same(e, f) == e.by = f.by /\ e.attempt = f.attempt

ContiguousAt(l, i, j) ==
    /\ i < j /\ Same(l[i], l[j]) => \A k \in i..j : Same(l[k], l[i])
    /\ (i = 1 \/ ~Same(l[i - 1], l[i])) => l[i].doc = Docs(l[i].by)[1]
    /\ j = i + 1 /\ Same(l[i], l[j]) =>
          \E k \in 1..Len(Docs(l[i].by)) - 1 :
              l[i].doc = Docs(l[i].by)[k] /\ l[j].doc = Docs(l[i].by)[k + 1]

Contiguous(l) == \A i, j \in 1..Len(l) : ContiguousAt(l, i, j)

LEMMA ContiguousLog == BatchesAreContiguous <=> Contiguous(log)
BY DEF BatchesAreContiguous, Contiguous, ContiguousAt, Same, Docs

(* Sequences that agree up to positions i and j agree on it.               *)
LEMMA ContiguousAgree ==
    ASSUME NEW l, NEW m, NEW i \in Nat \ {0}, NEW j \in Nat \ {0}, ContiguousAt(l, i, j),
           \A k \in Nat \ {0} : k <= i \/ k <= j => m[k] = l[k]
    PROVE  ContiguousAt(m, i, j)
<1>1. m[i] = l[i] /\ m[j] = l[j] /\ (i # 1 => m[i - 1] = l[i - 1]) /\ \A k \in i..j : m[k] = l[k]
  OBVIOUS
<1>2. QED BY <1>1 DEF ContiguousAt

(* A file cut off anywhere is still contiguous.                            *)
LEMMA ContiguousPrefix ==
    ASSUME NEW l, NEW m, Contiguous(l), Len(l) \in Nat, Len(m) \in Nat, Len(m) <= Len(l),
           \A i \in 1..Len(m) : m[i] = l[i]
    PROVE  Contiguous(m)
<1>1. ASSUME NEW i \in 1..Len(m), NEW j \in 1..Len(m) PROVE ContiguousAt(m, i, j)
  <2>1. ContiguousAt(l, i, j)
    BY DEF Contiguous
  <2>2. QED BY <2>1, ContiguousAgree
<1>2. QED BY <1>1 DEF Contiguous

(* A new attempt puts its documents behind all others.                     *)
LEMMA ContiguousAppend ==
    ASSUME NEW l, NEW m, NEW c, NEW a, NEW n \in Nat,
           Contiguous(l), Len(l) \in Nat, Len(m) = Len(l) + n,
           n <= Len(Docs(c)), Len(Docs(c)) \in Nat,
           \A i \in 1..Len(l) : m[i] = l[i] /\ ~(l[i].by = c /\ l[i].attempt = a),
           \A k \in 1..n : m[Len(l) + k] = FrameOf(c, a, k)
    PROVE  Contiguous(m)
<1>1. SUFFICES ASSUME NEW i \in 1..Len(m), NEW j \in 1..Len(m) PROVE ContiguousAt(m, i, j)
  BY DEF Contiguous
<1>2. ASSUME NEW k \in 1..Len(m), k > Len(l)
      PROVE  m[k].by = c /\ m[k].attempt = a /\ m[k].doc = Docs(c)[k - Len(l)]
  <2>1. k - Len(l) \in 1..n /\ k = Len(l) + (k - Len(l))
    BY <1>2
  <2>2. m[k] = FrameOf(c, a, k - Len(l))
    BY <2>1
  <2>3. QED BY <2>2 DEF FrameOf
<1>3. CASE i <= Len(l)
  <2>1. ContiguousAt(l, i, i)
    BY <1>3 DEF Contiguous
  <2>2. CASE j <= Len(l)
    <3>1. ContiguousAt(l, i, j)
      BY <1>3, <2>2 DEF Contiguous
    <3>2. i \in Nat \ {0} /\ j \in Nat \ {0}
      OBVIOUS
    <3>3. ASSUME NEW k \in Nat \ {0}, k <= i \/ k <= j PROVE m[k] = l[k]
      <4>1. k \in 1..Len(l)
        BY <1>3, <2>2, <3>2, <3>3
      <4>2. QED BY <4>1
    <3>4. QED BY <3>1, <3>2, <3>3, ContiguousAgree
  <2>3. CASE j > Len(l)
    <3>1. i \in 1..Len(l) /\ m[i] = l[i]
      BY <1>3
    <3>2. ~Same(m[i], m[j])
      BY <1>2, <2>3, <3>1 DEF Same
    <3>3. ContiguousAt(m, i, i)
      BY <1>3, <2>1, ContiguousAgree
    <3>4. QED BY <3>2, <3>3 DEF ContiguousAt
  <2>4. QED BY <2>2, <2>3
<1>4. CASE i > Len(l)
  <2>1. m[i].by = c /\ m[i].attempt = a /\ m[i].doc = Docs(c)[i - Len(l)]
    BY <1>2, <1>4
  <2>2. i < j => \A k \in i..j : Same(m[k], m[i])
    BY <1>2, <1>4, <2>1 DEF Same
  <2>3. ASSUME i = 1 \/ ~Same(m[i - 1], m[i]) PROVE m[i].doc = Docs(m[i].by)[1]
    <3>1. i - 1 > Len(l) => i # 1 /\ Same(m[i - 1], m[i])
      BY <1>2, <2>1 DEF Same
    <3>2. ~(i - 1 > Len(l))
      BY <2>3, <3>1
    <3>3. i - Len(l) = 1
      BY <1>4, <3>2
    <3>4. QED BY <2>1, <3>3
  <2>4. ASSUME j = i + 1
        PROVE  \E k \in 1..Len(Docs(m[i].by)) - 1 :
                   m[i].doc = Docs(m[i].by)[k] /\ m[j].doc = Docs(m[i].by)[k + 1]
    <3>1. m[j].doc = Docs(c)[j - Len(l)]
      BY <1>2, <1>4, <2>4
    <3>2. i - Len(l) \in 1..Len(Docs(c)) - 1 /\ j - Len(l) = (i - Len(l)) + 1
      BY <1>4, <2>4
    <3>3. QED BY <2>1, <3>1, <3>2
  <2>5. QED BY <2>2, <2>3, <2>4 DEF ContiguousAt
<1>5. QED BY <1>3, <1>4

LEMMA ContiguousStep ==
    ASSUME StoreType, BatchesAreContiguous, [Next]_vars
    PROVE  BatchesAreContiguous'
<1>1. Contiguous(log) /\ Len(log) \in Nat
  BY ContiguousLog, LenProperties DEF StoreType
<1>2. SUFFICES Contiguous(log)'
  BY DEF BatchesAreContiguous, Contiguous, ContiguousAt, Same, Docs
<1>3. CASE \E c \in Clients : PutText(c) \/ InsertDocuments(c) \/ PutTextUncommitted(c)
  <2>1. PICK c \in Clients :
            \E n \in 0..Len(Docs(c)), result \in {"ok", "pending", "err"} : CallEffect(c, n, result)
    BY <1>3, CallStep
  <2> PICK n \in 0..Len(Docs(c)), result \in {"ok", "pending", "err"} : CallEffect(c, n, result)
    BY <2>1
  <2>2. /\ n \in Nat /\ n <= Len(Docs(c)) /\ Len(Docs(c)) \in Nat
        /\ Len(log') = Len(log) + n
        /\ \A i \in 1..Len(log) : log'[i] = log[i]
        /\ \A k \in 1..n : log'[Len(log) + k] = FrameOf(c, attempts[c] + 1, k)
    BY DocsType DEF CallEffect, Appends
  <2>3. ASSUME NEW i \in 1..Len(log)
        PROVE  log'[i] = log[i] /\ ~(log[i].by = c /\ log[i].attempt = attempts[c] + 1)
    <3>1. log[i].attempt \in 1..attempts[log[i].by] /\ attempts[c] \in Nat
      BY DEF StoreType
    <3>2. QED BY <2>2, <3>1
  <2>4. ASSUME NEW l, NEW m, NEW a, l = log, m = log', a = attempts[c] + 1
        PROVE  Contiguous(m)
    <3>1. /\ Contiguous(l) /\ Len(l) \in Nat /\ Len(m) = Len(l) + n
          /\ n \in Nat /\ n <= Len(Docs(c)) /\ Len(Docs(c)) \in Nat
      BY <1>1, <2>2, <2>4
    <3>2. \A i \in 1..Len(l) : m[i] = l[i] /\ ~(l[i].by = c /\ l[i].attempt = a)
      BY <2>3, <2>4
    <3>3. \A k \in 1..n : m[Len(l) + k] = FrameOf(c, a, k)
      BY <2>2, <2>4
    <3>4. QED BY <3>1, <3>2, <3>3, ContiguousAppend
  <2>5. Contiguous(log')
    BY <2>4
  <2>6. QED BY <2>5 DEF Contiguous, ContiguousAt, Same, Docs
<1>4. CASE Restart
  <2>1. Contiguous(log')
    BY <1>1, <1>4, RestartEffect, ContiguousPrefix
  <2>2. QED BY <2>1 DEF Contiguous, ContiguousAt, Same, Docs
<1>5. CASE log' = log
  BY <1>1, <1>5 DEF Contiguous, ContiguousAt, Same, Docs
<1>6. ASSUME NEW c \in Clients, CommitPending(c) PROVE log' = log
  BY <1>6, CommitEffect
<1>7. QED BY <1>3, <1>4, <1>5, <1>6 DEF Next, vars

(* The documents of one call stand together and in their order, and those  *)
(* that are missing are the last ones: whatever failed, and wherever the   *)
(* file was cut off by a crash.                                            *)
THEOREM BatchesStandTogether == Spec => []BatchesAreContiguous
<1>1. Init => StoreType /\ BatchesAreContiguous
  BY TypeInit, EmptySeq DEF Init, ArchiveInit, BatchesAreContiguous
<1>2. StoreType /\ BatchesAreContiguous /\ [Next]_vars => (StoreType /\ BatchesAreContiguous)'
  BY TypeStep, ContiguousStep
<1>3. QED BY <1>1, <1>2, PTL DEF Spec

------------------------------------------------------------------------------
(* Powers of two.                                                          *)

LEMMA Pow2Def ==
    /\ Pow2[0] = 1
    /\ \A k \in 1..Width : Pow2[k] = 2 * Pow2[k - 1]
    /\ \A k \in 0..Width : Pow2[k] \in Nat \ {0}
<1> DEFINE Body(f, k) == IF k = 0 THEN 1 ELSE 2 * f[k - 1]
           step == [p \in (1..Width) \X (Nat \ {0}) |-> 2 * p[2]]
<1>1. Width \in Nat /\ 1 \in Nat \ {0} /\ 0 \in 0..Width /\ \A k \in 1..Width : k - 1 \in 0..Width
  BY WidthAssumption
<1>2. step \in [(1..Width) \X (Nat \ {0}) -> Nat \ {0}]
  OBVIOUS
<1>3. PICK h : Follows(h, Nat \ {0}, 1, Width, step)
  <2> HIDE DEF step
  <2>. QED BY <1>1, <1>2, Recursion
<1>4. /\ h \in [0..Width -> Nat \ {0}] /\ h[0] = 1
      /\ \A k \in 1..Width : h[k] = step[<<k, h[k - 1]>>]
  <2> HIDE DEF step
  <2>. QED BY <1>3 DEF Follows
<1>5. \A k \in 1..Width : h[k] = 2 * h[k - 1]
  BY <1>1, <1>4
<1>6. h = [k \in 0..Width |-> Body(h, k)]
  <2>1. ASSUME NEW k \in 0..Width PROVE h[k] = Body(h, k)
    BY <1>1, <1>4, <1>5
  <2> HIDE DEF Body, step
  <2>. QED BY <1>4, <2>1
<1>7. Pow2 = CHOOSE f : f = [k \in 0..Width |-> Body(f, k)]
  BY DEF Pow2
<1>8. Pow2 = [k \in 0..Width |-> Body(Pow2, k)]
  <2> HIDE DEF Body
  <2>. QED BY <1>6, <1>7
<1>9. /\ Pow2 = [k \in 0..Width |-> Pow2[k]] /\ Pow2[0] = 1
      /\ \A k \in 1..Width : Pow2[k] = 2 * Pow2[k - 1]
  <2>1. ASSUME NEW k \in 0..Width PROVE Pow2[k] = Body(Pow2, k)
    <3> HIDE DEF Body
    <3>. QED BY <1>8
  <2>2. \A k \in 1..Width : k \in 0..Width /\ k # 0
    BY <1>1
  <2>3. Pow2 = [k \in 0..Width |-> Pow2[k]]
    <3> HIDE DEF Body
    <3>. QED BY <1>8
  <2>. QED BY <1>1, <2>1, <2>2, <2>3
<1>10. \A k \in 1..Width : Pow2[k - 1] \in Nat \ {0} => Pow2[k] = step[<<k, Pow2[k - 1]>>]
  BY <1>9
<1>11. Pow2 = h
  <2> HIDE DEF step
  <2>1. FollowsIn(Pow2, Nat \ {0}, 1, Width, step)
    BY <1>9, <1>10 DEF FollowsIn
  <2>. QED BY <1>1, <1>3, <2>1, OneFollows
<1>. QED BY <1>4, <1>9, <1>11

LEMMA Pow2Add ==
    ASSUME NEW a \in Nat, NEW b \in Nat, a + b <= Width
    PROVE  Pow2[a + b] = Pow2[a] * Pow2[b]
<1> DEFINE T == {n \in Nat : a + n <= Width => Pow2[a + n] = Pow2[a] * Pow2[n]}
<1>1. Width \in Nat
  BY WidthAssumption
<1>2. 0 \in T
  BY <1>1, Pow2Def
<1>3. ASSUME NEW n \in T PROVE n + 1 \in T
  <2>1. SUFFICES ASSUME a + (n + 1) <= Width PROVE Pow2[a + (n + 1)] = Pow2[a] * Pow2[n + 1]
    OBVIOUS
  <2>2. Pow2[a + n] = Pow2[a] * Pow2[n]
    BY <1>1, <2>1
  <2>3. /\ a + (n + 1) \in 1..Width /\ (a + (n + 1)) - 1 = a + n
        /\ n + 1 \in 1..Width /\ (n + 1) - 1 = n /\ a \in 0..Width /\ n \in 0..Width
    BY <1>1, <2>1
  <2>4. PICK p, q, r : p = Pow2[a] /\ q = Pow2[n] /\ r = Pow2[a + n]
    OBVIOUS
  <2>5. p \in Nat /\ q \in Nat /\ r = p * q
    BY <2>2, <2>3, <2>4, Pow2Def
  <2>6. Pow2[a + (n + 1)] = 2 * r /\ Pow2[n + 1] = 2 * q
    BY <2>3, <2>4, Pow2Def
  <2>7. 2 * r = p * (2 * q)
    BY <2>5
  <2>. QED BY <2>4, <2>6, <2>7
<1>4. T = Nat
  <2>1. T \subseteq Nat
    OBVIOUS
  <2> HIDE DEF T
  <2>. QED BY <1>2, <1>3, <2>1, AllNumbers
<1>. QED BY <1>4

LEMMA Pow2Order ==
    ASSUME NEW j \in 0..Width, NEW k \in 0..Width
    PROVE  /\ j <= k => Pow2[j] <= Pow2[k]
           /\ Pow2[j] < Pow2[k] => 2 * Pow2[j] <= Pow2[k]
<1>1. Width \in Nat /\ j \in Nat /\ k \in Nat
  BY WidthAssumption
<1>2. ASSUME NEW a \in 0..Width, NEW b \in 0..Width, a <= b PROVE Pow2[a] <= Pow2[b]
  <2>1. b - a \in 0..Width /\ b - a \in Nat /\ a \in Nat /\ a + (b - a) = b
    BY <1>1, <1>2
  <2>2. PICK p, q : p = Pow2[a] /\ q = Pow2[b - a]
    OBVIOUS
  <2>3. p \in Nat \ {0} /\ q \in Nat \ {0} /\ Pow2[b] = p * q
    BY <1>1, <2>1, <2>2, Pow2Def, Pow2Add
  <2>4. p <= p * q
    BY <2>3
  <2>. QED BY <2>2, <2>3, <2>4
<1>3. ASSUME Pow2[j] < Pow2[k] PROVE 2 * Pow2[j] <= Pow2[k]
  <2>1. Pow2[j] \in Nat /\ Pow2[k] \in Nat
    BY Pow2Def
  <2>2. j < k
    BY <1>1, <1>2, <1>3, <2>1
  <2>3. j + 1 \in 1..Width /\ (j + 1) - 1 = j /\ j + 1 <= k /\ j + 1 \in 0..Width
    BY <1>1, <2>2
  <2>4. Pow2[j + 1] = 2 * Pow2[j] /\ Pow2[j + 1] <= Pow2[k]
    BY <1>2, <2>3, Pow2Def
  <2>. QED BY <2>4
<1>. QED BY <1>2, <1>3

LEMMA Quotient ==
    ASSUME NEW n, NEW d \in Nat, NEW u \in Nat, NEW r \in Nat, r < u, n = d * u + r
    PROVE  n \div u = d /\ n % u = r
OBVIOUS

------------------------------------------------------------------------------
(* Times as floats.  Top is one more than the largest i64, Ulp the         *)
(* distance of two floats below it.                                        *)

Top == Pow2[Width - 1]

Ulp == Pow2[Width - 1 - Mantissa]

Half == Pow2[Mantissa - 1]

LEMMA Widths ==
    /\ Top \in Nat /\ Ulp \in Nat /\ Half \in Nat
    /\ Ulp >= 2 /\ Half >= 2 /\ Half % 2 = 0 /\ Top >= 8
    /\ Pow2[Width] = 2 * Top /\ Pow2[Mantissa] = 2 * Half /\ Pow2[Width - Mantissa] = 2 * Ulp
    /\ Top = (2 * Half) * Ulp /\ Top = Half * (2 * Ulp)
    /\ MaxI64 = Top - 1 /\ MinI64 = -Top
    /\ Width - 1 - Mantissa \in 0..Width /\ Width - Mantissa \in 0..Width
    /\ Mantissa \in 0..Width
<1>1. Width \in Nat /\ Mantissa \in Nat /\ 1 < Mantissa /\ Mantissa < Width - 1
  BY WidthAssumption
<1>2. \A k \in 0..Width : Pow2[k] \in Nat \ {0}
  BY Pow2Def
<1>3. /\ Width - 1 \in 1..Width /\ Width - 2 \in 0..Width /\ Width - 3 \in 0..Width
      /\ Width \in 1..Width
      /\ Width - 1 - Mantissa \in 1..Width /\ Width - 2 - Mantissa \in 0..Width
      /\ Width - Mantissa \in 1..Width
      /\ Mantissa \in 1..Width /\ Mantissa - 1 \in 1..Width /\ Mantissa - 2 \in 0..Width
  BY <1>1
<1>4. Pow2[Width] = 2 * Top
  BY <1>1, <1>3, Pow2Def DEF Top
<1>5. Pow2[Mantissa] = 2 * Half
  BY <1>3, Pow2Def DEF Half
<1>6. Pow2[Width - Mantissa] = 2 * Ulp
  <2>1. (Width - Mantissa) - 1 = Width - 1 - Mantissa
    BY <1>1
  <2>. QED BY <1>3, <2>1, Pow2Def DEF Ulp
<1>7. Ulp = 2 * Pow2[Width - 2 - Mantissa]
  <2>1. (Width - 1 - Mantissa) - 1 = Width - 2 - Mantissa
    BY <1>1
  <2>. QED BY <1>3, <2>1, Pow2Def DEF Ulp
<1>8. Half = 2 * Pow2[Mantissa - 2]
  <2>1. (Mantissa - 1) - 1 = Mantissa - 2
    BY <1>1
  <2>. QED BY <1>3, <2>1, Pow2Def DEF Half
<1>9. Pow2[Mantissa] * Ulp = Top
  <2>1. Mantissa + (Width - 1 - Mantissa) = Width - 1 /\ Width - 1 <= Width
        /\ Width - 1 - Mantissa \in Nat
    BY <1>1
  <2>2. Pow2[Mantissa + (Width - 1 - Mantissa)] = Pow2[Mantissa] * Pow2[Width - 1 - Mantissa]
    BY <1>1, <2>1, Pow2Add
  <2>. QED BY <2>1, <2>2 DEF Top, Ulp
<1>10. /\ Top \in Nat /\ Ulp \in Nat \ {0} /\ Half \in Nat \ {0}
       /\ Pow2[Width - 2 - Mantissa] \in Nat \ {0} /\ Pow2[Mantissa - 2] \in Nat \ {0}
  BY <1>2, <1>3 DEF Top, Ulp, Half
<1>11. Ulp >= 2 /\ Half >= 2 /\ Half % 2 = 0
  BY <1>7, <1>8, <1>10
<1>12. Top = (2 * Half) * Ulp /\ Top = Half * (2 * Ulp)
  BY <1>5, <1>9, <1>10
<1>13. Top >= 8
  <2>1. (2 * Half) * Ulp >= 4 * Ulp
    BY <1>10, <1>11
  <2>. QED BY <1>10, <1>11, <1>12, <2>1
<1>14. MaxI64 = Top - 1 /\ MinI64 = -Top
  BY DEF MaxI64, MinI64, Top
<1>. QED BY <1>3, <1>4, <1>5, <1>6, <1>10, <1>11, <1>12, <1>13, <1>14

(* The rounding of AsF64, given the distance u of the floats around n.     *)
Nearest(n, u) ==
    LET down == n \div u
        rest == n % u
    IN  IF 2 * rest < u \/ (2 * rest = u /\ down % 2 = 0) THEN down * u ELSE (down + 1) * u

LEMMA UlpOf ==
    ASSUME NEW n \in Nat, NEW k \in 0..Width,
           n <= Pow2[k] * Pow2[Mantissa], 2 * n > Pow2[k] * Pow2[Mantissa]
    PROVE  AsF64(n) = Nearest(n, Pow2[k])
<1> DEFINE Fits(u) == /\ n <= u * Pow2[Mantissa]
                      /\ \A j \in 0..Width : n <= Pow2[j] * Pow2[Mantissa] => u <= Pow2[j]
           Powers == {Pow2[j] : j \in 0..Width}
<1>1. \A j \in 0..Width : Pow2[j] \in Nat
  BY Pow2Def
<1>2. Pow2[Mantissa] \in Nat
  BY <1>1, Widths
<1>3. ASSUME NEW j \in 0..Width, n <= Pow2[j] * Pow2[Mantissa] PROVE Pow2[k] <= Pow2[j]
  <2>1. SUFFICES ASSUME Pow2[j] < Pow2[k] PROVE FALSE
    BY <1>1
  <2>2. 2 * Pow2[j] <= Pow2[k]
    BY <2>1, Pow2Order
  <2>3. PICK p, q, m : p = Pow2[j] /\ q = Pow2[k] /\ m = Pow2[Mantissa]
    OBVIOUS
  <2>4. p \in Nat /\ q \in Nat /\ m \in Nat /\ 2 * p <= q
    BY <1>1, <1>2, <2>2, <2>3
  <2>5. (2 * p) * m <= q * m
    BY <2>4
  <2>6. 2 * (p * m) <= q * m
    BY <2>4, <2>5
  <2>7. n <= p * m /\ 2 * n > q * m /\ p * m \in Nat /\ q * m \in Nat
    BY <1>3, <2>3, <2>4
  <2>. QED BY <2>6, <2>7
<1>4. Pow2[k] \in Powers /\ Fits(Pow2[k])
  BY <1>3
<1>5. ASSUME NEW u \in Powers, Fits(u) PROVE u = Pow2[k]
  <2>1. PICK j \in 0..Width : u = Pow2[j]
    OBVIOUS
  <2>2. u <= Pow2[k] /\ Pow2[k] <= u
    BY <1>3, <1>5, <2>1
  <2>. QED BY <1>1, <2>1, <2>2
<1>6. AsF64(n) = Nearest(n, CHOOSE u \in Powers : Fits(u))
  BY DEF AsF64, Nearest
<1>7. (CHOOSE u \in Powers : Fits(u)) = Pow2[k]
  <2> HIDE DEF Powers, Fits
  <2>. QED BY <1>4, <1>5
<1> HIDE DEF Powers, Fits
<1>. QED BY <1>6, <1>7

(* The largest i64 is rounded up.                                          *)
LEMMA LargestAsFloat == AsF64(MaxI64) = Top
<1>1. PICK t, u, h : t = Top /\ u = Ulp /\ h = Half
  OBVIOUS
<1>2. /\ t \in Nat /\ u \in Nat /\ h \in Nat /\ u >= 2 /\ h >= 2 /\ t >= 8
      /\ t = (2 * h) * u /\ Pow2[Mantissa] = 2 * h /\ MaxI64 = t - 1
      /\ Pow2[Width - 1 - Mantissa] = u
      /\ Width - 1 - Mantissa \in 0..Width
  BY <1>1, Widths DEF Ulp
<1>3. Pow2[Width - 1 - Mantissa] * Pow2[Mantissa] = t
  BY <1>2
<1>4. AsF64(t - 1) = Nearest(t - 1, u)
  <2>1. t - 1 \in Nat /\ t - 1 <= t /\ 2 * (t - 1) > t
    BY <1>2
  <2>. QED BY <1>2, <1>3, <2>1, UlpOf
<1>5. t - 1 = (2 * h - 1) * u + (u - 1)
  BY <1>2
<1>6. (t - 1) \div u = 2 * h - 1 /\ (t - 1) % u = u - 1
  <2>1. 2 * h - 1 \in Nat /\ u - 1 \in Nat /\ u - 1 < u
    BY <1>2
  <2>. QED BY <1>2, <1>5, <2>1, Quotient
<1>7. ~(2 * (u - 1) < u) /\ (2 * h - 1) % 2 # 0 /\ ((2 * h - 1) + 1) * u = t
  BY <1>2
<1>8. Nearest(t - 1, u) = t
  BY <1>6, <1>7 DEF Nearest
<1>. QED BY <1>1, <1>2, <1>4, <1>8

(* A u64 above it is rounded to a float that the cast accepts as far as    *)
(* half the distance to the next.                                          *)
LEMMA LargerAsFloat ==
    ASSUME NEW n \in Nat, Top <= n, n <= 2 * Top - 1
    PROVE  /\ AsF64(n) \in Nat /\ AsF64(n) >= Top
           /\ AsF64(n) <= Top <=> n <= Top + Ulp
<1>1. PICK t, u, h : t = Top /\ u = Ulp /\ h = Half
  OBVIOUS
<1>2. /\ t \in Nat /\ u \in Nat /\ h \in Nat /\ u >= 2 /\ h >= 2 /\ t >= 8 /\ h % 2 = 0
      /\ t = (2 * h) * u /\ t = h * (2 * u) /\ Pow2[Mantissa] = 2 * h
      /\ Pow2[Width - 1 - Mantissa] = u /\ Pow2[Width - Mantissa] = 2 * u
      /\ Width - 1 - Mantissa \in 0..Width /\ Width - Mantissa \in 0..Width
  BY <1>1, Widths DEF Ulp
<1>3. CASE n = t
  <2>1. Pow2[Width - 1 - Mantissa] * Pow2[Mantissa] = t
    BY <1>2
  <2>2. n <= t /\ 2 * n > t
    BY <1>2, <1>3
  <2>3. AsF64(n) = Nearest(n, u)
    BY <1>2, <2>1, <2>2, UlpOf
  <2>4. n = (2 * h) * u + 0 /\ 2 * h \in Nat /\ 0 < u
    BY <1>2, <1>3
  <2>5. n \div u = 2 * h /\ n % u = 0
    BY <1>2, <2>4, Quotient
  <2>6. Nearest(n, u) = t
    BY <1>2, <2>5 DEF Nearest
  <2>. QED BY <1>1, <1>2, <1>3, <2>3, <2>6
<1>4. CASE n # t
  <2>1. n > t /\ n <= 2 * t - 1
    BY <1>1, <1>2, <1>4
  <2>2. Pow2[Width - Mantissa] * Pow2[Mantissa] = 2 * t
    BY <1>2
  <2>3. AsF64(n) = Nearest(n, 2 * u)
    <3>1. n <= 2 * t /\ 2 * n > 2 * t
      BY <1>2, <2>1
    <3>. QED BY <1>2, <2>2, <3>1, UlpOf
  <2>4. CASE n < t + 2 * u
    <3>1. n = h * (2 * u) + (n - t) /\ n - t \in Nat /\ n - t < 2 * u /\ 2 * u \in Nat
      BY <1>2, <2>1, <2>4
    <3>2. n \div (2 * u) = h /\ n % (2 * u) = n - t
      BY <1>2, <3>1, Quotient
    <3>3. CASE n <= t + u
      <4>1. 2 * (n - t) < 2 * u \/ (2 * (n - t) = 2 * u /\ h % 2 = 0)
        BY <1>2, <2>1, <3>3
      <4>2. Nearest(n, 2 * u) = t
        BY <1>2, <3>2, <4>1 DEF Nearest
      <4>. QED BY <1>1, <1>2, <2>3, <3>3, <4>2
    <3>4. CASE n > t + u
      <4>1. ~(2 * (n - t) < 2 * u) /\ ~(2 * (n - t) = 2 * u)
        BY <1>2, <2>1, <3>4
      <4>2. Nearest(n, 2 * u) = (h + 1) * (2 * u)
        BY <3>2, <4>1 DEF Nearest
      <4>3. (h + 1) * (2 * u) = t + 2 * u
        BY <1>2
      <4>4. AsF64(n) = t + 2 * u
        BY <2>3, <4>2, <4>3
      <4>. QED BY <1>1, <1>2, <3>4, <4>4
    <3>. QED BY <1>2, <2>1, <3>3, <3>4
  <2>5. CASE n >= t + 2 * u
    <3>1. PICK d, r : d = n \div (2 * u) /\ r = n % (2 * u)
      OBVIOUS
    <3>2. d \in Nat /\ r \in Nat /\ r < 2 * u /\ n = d * (2 * u) + r
      <4>1. PICK w : w = 2 * u
        OBVIOUS
      <4>2. w \in Nat /\ w > 0
        BY <1>2, <4>1
      <4>3. n \div w \in Nat /\ n % w \in Nat /\ n % w < w /\ n = (n \div w) * w + (n % w)
        BY <4>2
      <4>. QED BY <3>1, <4>1, <4>3
    <3>3. d >= h + 1
      <4>1. SUFFICES ASSUME d <= h PROVE FALSE
        BY <1>2, <3>2
      <4>2. d * (2 * u) <= h * (2 * u)
        BY <1>2, <3>2, <4>1
      <4>3. d * (2 * u) \in Nat
        BY <1>2, <3>2
      <4>. QED BY <1>2, <2>5, <3>2, <4>2, <4>3
    <3>4. d * (2 * u) >= t + 2 * u /\ (d + 1) * (2 * u) >= t + 2 * u
      <4>1. d * (2 * u) >= (h + 1) * (2 * u) /\ (d + 1) * (2 * u) >= (h + 1) * (2 * u)
        BY <1>2, <3>2, <3>3
      <4>2. (h + 1) * (2 * u) = t + 2 * u
        BY <1>2
      <4>. QED BY <4>1, <4>2
    <3>5. Nearest(n, 2 * u) = d * (2 * u) \/ Nearest(n, 2 * u) = (d + 1) * (2 * u)
      BY <3>1 DEF Nearest
    <3>6. d * (2 * u) \in Nat /\ (d + 1) * (2 * u) \in Nat
      BY <1>2, <3>2
    <3>7. AsF64(n) \in Nat /\ AsF64(n) >= t + 2 * u
      BY <2>3, <3>4, <3>5, <3>6
    <3>. QED BY <1>1, <1>2, <2>5, <3>7
  <2>. QED BY <1>2, <2>1, <2>4, <2>5
<1>. QED BY <1>3, <1>4

------------------------------------------------------------------------------
(* What a clause is converted to.                                          *)

LEMMA FloatConverted ==
    ASSUME NEW t \in Int
    PROVE  /\ FromFloat(t) # None <=> t % 2 = 0 /\ -(2 * Top) <= t /\ t <= 2 * Top
           /\ FromFloat(t) # None =>
                 FromFloat(t) = Int64(IF t \div 2 > Top - 1 THEN Top - 1 ELSE t \div 2)
<1>1. Top \in Nat /\ MaxI64 = Top - 1 /\ 2 * MinI64 = -(2 * Top) /\ AsF64(MaxI64) = Top
  BY Widths, LargestAsFloat
<1>2. \A n : Int64(n) # None
  BY DEF Int64, None
<1>3. FromFloat(t) = IF t % 2 = 0 /\ -(2 * Top) <= t /\ t <= 2 * Top
                     THEN Int64(IF t \div 2 > Top - 1 THEN Top - 1 ELSE t \div 2) ELSE None
  BY <1>1 DEF FromFloat
<1>. QED BY <1>2, <1>3

(* as_of_ts accepts what it should, and a frame is as old as the number    *)
(* that was asked for exactly if it is as old as the i64.                  *)
TimeOf(m, v) ==
    /\ AsOfTs(v) = Int64(m) /\ m \in Int
    /\ 2 * m = Twice(v) \/ (m = MaxI64 /\ Twice(v) > 2 * MaxI64)
    /\ \A i \in Nat : i <= m => 2 * i <= Twice(v)
    /\ \A i \in Nat : i <= MaxI64 /\ 2 * i <= Twice(v) => i <= m

LEMMA TimesConverted ==
    ASSUME NEW v \in Values
    PROVE  /\ AsOfTs(v) # None <=> IntegralI64(v)
           /\ AsOfTs(v) # None => \E m : TimeOf(m, v)
<1>1. /\ Top \in Nat /\ Ulp \in Nat /\ MaxI64 = Top - 1 /\ MinI64 = -Top
      /\ Pow2[Width] = 2 * Top /\ Pow2[Width - Mantissa] = 2 * Ulp
  BY Widths
<1>2. \A n : Int64(n) # None
  BY DEF Int64, None
<1>3. CASE v \in [type : {"bool", "string"}, num : Int]
  BY <1>3 DEF AsOfTs, IntegralI64, Numeric
<1>4. CASE v \in [type : {"float"}, num : Int]
  <2>1. v.type = "float" /\ v.num \in Int /\ Twice(v) = v.num /\ Numeric(v)
    BY <1>4 DEF Twice, Numeric
  <2>2. AsOfTs(v) = FromFloat(v.num)
    BY <2>1 DEF AsOfTs
  <2>3. IntegralI64(v) <=> v.num % 2 = 0 /\ v.num >= -(2 * Top) /\ v.num <= 2 * Top
    BY <1>1, <2>1 DEF IntegralI64
  <2>4. AsOfTs(v) # None <=> IntegralI64(v)
    BY <1>1, <2>1, <2>2, <2>3, FloatConverted
  <2>5. ASSUME AsOfTs(v) # None PROVE \E m : TimeOf(m, v)
    <3>1. PICK m : m = IF v.num \div 2 > Top - 1 THEN Top - 1 ELSE v.num \div 2
      OBVIOUS
    <3>2. AsOfTs(v) = Int64(m)
      BY <2>1, <2>2, <2>5, <3>1, FloatConverted
    <3>3. m \in Int /\ v.num = 2 * (v.num \div 2) /\ v.num \div 2 \in Int
      BY <1>1, <2>1, <2>3, <2>4, <2>5, <3>1
    <3>4. \A i \in Nat : i <= m => 2 * i <= v.num
      BY <1>1, <2>1, <3>1, <3>3
    <3>5. \A i \in Nat : i <= Top - 1 /\ 2 * i <= v.num => i <= m
      BY <1>1, <2>1, <3>1, <3>3
    <3>6. 2 * m = v.num \/ (m = Top - 1 /\ v.num > 2 * (Top - 1))
      BY <1>1, <2>1, <3>1, <3>3
    <3>. QED BY <1>1, <2>1, <3>2, <3>3, <3>4, <3>5, <3>6 DEF TimeOf
  <2>. QED BY <2>4, <2>5
<1>5. CASE v \in [type : {"int"}, num : MinI64..2 * MaxI64 + 1]
  <2>1. /\ v.type = "int" /\ v.num \in Int /\ v.num >= -Top /\ v.num <= 2 * Top - 1
        /\ Twice(v) = 2 * v.num /\ Numeric(v)
    BY <1>1, <1>5 DEF Twice, Numeric
  <2>2. IntegralI64(v) <=> 2 * v.num <= 2 * Top + 2 * Ulp
    <3>1. (2 * v.num) % 2 = 0 /\ 2 * v.num >= -(2 * Top)
      BY <1>1, <2>1
    <3>. QED BY <1>1, <2>1, <3>1 DEF IntegralI64
  <2>3. CASE v.num <= MaxI64
    <3>1. AsOfTs(v) = v /\ v = Int64(v.num)
      <4>1. AsOfTs(v) = v
        BY <1>1, <2>1, <2>3 DEF AsOfTs
      <4>2. v = [type |-> v.type, num |-> v.num]
        BY <1>5
      <4>. QED BY <2>1, <4>1, <4>2 DEF Int64
    <3>2. IntegralI64(v)
      BY <1>1, <2>1, <2>2, <2>3
    <3>3. TimeOf(v.num, v)
      BY <2>1, <3>1 DEF TimeOf
    <3>. QED BY <1>2, <3>1, <3>2, <3>3
  <2>4. CASE v.num > MaxI64
    <3>1. AsOfTs(v) = FromFloat(2 * AsF64(v.num))
      BY <1>1, <2>1, <2>4 DEF AsOfTs
    <3>2. /\ v.num \in Nat /\ Top <= v.num
          /\ AsF64(v.num) \in Nat /\ AsF64(v.num) >= Top
          /\ AsF64(v.num) <= Top <=> v.num <= Top + Ulp
      <4>1. v.num \in Nat /\ Top <= v.num
        BY <1>1, <2>1, <2>4
      <4>. QED BY <2>1, <4>1, LargerAsFloat
    <3>3. PICK f : f = AsF64(v.num)
      OBVIOUS
    <3>4. 2 * f \in Int /\ f \in Nat /\ (2 * f) % 2 = 0 /\ (2 * f) \div 2 = f /\ -(2 * Top) <= 2 * f
      BY <1>1, <3>2, <3>3
    <3>5. AsOfTs(v) # None <=> 2 * f <= 2 * Top
      BY <3>1, <3>3, <3>4, FloatConverted
    <3>6. AsOfTs(v) # None <=> IntegralI64(v)
      BY <1>1, <2>1, <2>2, <3>2, <3>3, <3>4, <3>5
    <3>7. ASSUME AsOfTs(v) # None PROVE TimeOf(Top - 1, v)
      <4>1. f = Top
        BY <1>1, <3>2, <3>3, <3>4, <3>5, <3>7
      <4>2. AsOfTs(v) = Int64(Top - 1)
        <5>1. f > Top - 1
          BY <1>1, <4>1
        <5>. QED BY <3>1, <3>3, <3>4, <3>7, <5>1, FloatConverted
      <4>3. \A i \in Nat : i <= Top - 1 => 2 * i <= 2 * v.num
        BY <1>1, <2>1, <3>2
      <4>4. 2 * v.num > 2 * (Top - 1)
        BY <1>1, <2>1, <3>2
      <4>. QED BY <1>1, <2>1, <4>2, <4>3, <4>4 DEF TimeOf
    <3>. QED BY <3>6, <3>7
  <2>. QED BY <1>1, <2>1, <2>3, <2>4
<1>6. v \in [type : {"bool", "string"}, num : Int] \/ v \in [type : {"float"}, num : Int]
      \/ v \in [type : {"int"}, num : MinI64..2 * MaxI64 + 1]
  BY DEF Values
<1>. QED BY <1>3, <1>4, <1>5, <1>6

------------------------------------------------------------------------------
(* The filter algebra.                                                     *)

IsClause(c) ==
    c.op \in {"eq", "gt", "lt"} /\ c.how \in {"and", "before", "or"} /\ c.value \in Values

Convertible(c) == c.op = "eq" /\ Converted(c.key, c.value) # None

Slots == Keys \cup {"invalid"}

Cells == Nat \cup [type : {"none", "bool", "string", "float", "int"}, num : Int]

Filters == {f \in [Slots -> Cells] : f["invalid"] \in Nat}

LEMMA ConvertedType ==
    ASSUME NEW key, NEW v \in Values
    PROVE  /\ Converted(key, v) \in Cells
           /\ Converted(key, v) # None => key \in Keys
<1>1. v.type \in {"bool", "string", "float", "int"} /\ v.num \in Int /\ v \in Cells
  <2>1. Width \in Nat /\ MinI64 \in Int /\ MaxI64 \in Int
    BY Widths, WidthAssumption
  <2>. QED BY <2>1 DEF Values, Cells
<1>2. JsonAsString(v) \in Cells
  BY <1>1 DEF JsonAsString, Cells
<1>3. None \in Cells
  BY DEF None, Cells
<1>4. AsOfTs(v) \in Cells
  <2>1. CASE AsOfTs(v) = None
    BY <1>3, <2>1
  <2>2. CASE AsOfTs(v) # None
    <3>1. PICK m \in Int : AsOfTs(v) = Int64(m)
      BY <2>2, TimesConverted DEF TimeOf
    <3>. QED BY <3>1 DEF Int64, Cells
  <2>. QED BY <2>1, <2>2
<1>5. Strings \subseteq Keys /\ {"as_of_frame", "as_of_ts", "no_sketch"} \subseteq Keys
  BY DEF Keys
<1>6. /\ key \in Strings => Converted(key, v) = JsonAsString(v)
      /\ key = "as_of_frame" => Converted(key, v) \in {v, None}
      /\ key = "as_of_ts" => Converted(key, v) = AsOfTs(v)
      /\ key = "no_sketch" => Converted(key, v) \in {v, None}
      /\ key \notin Keys => Converted(key, v) = None
  BY DEF Converted, Strings, Keys
<1>. QED BY <1>1, <1>2, <1>3, <1>4, <1>5, <1>6 DEF Keys

(* The documented table is the conversions of eq.                          *)
LEMMA SupportedIs ==
    ASSUME NEW c, IsClause(c)
    PROVE  Supported(c) <=> Convertible(c) /\ c.how # "or"
<1>1. PICK key, v : key = c.key /\ v = c.value
  OBVIOUS
<1>2. v \in Values
  BY <1>1 DEF IsClause
<1>3. v.type \in {"bool", "string", "float", "int"}
  BY <1>2 DEF Values
<1>4. v.type # "none" => v # None
  BY DEF None
<1>5. Converted(key, v) # None <=>
        \/ key \in Strings
        \/ key = "as_of_frame" /\ v.type = "int" /\ v.num >= 0
        \/ key = "as_of_ts" /\ IntegralI64(v)
        \/ key = "no_sketch" /\ v.type = "bool"
  <2>1. CASE key \in Strings
    <3>1. Converted(key, v) = JsonAsString(v)
      BY <2>1 DEF Converted, Strings
    <3>. QED BY <2>1, <3>1 DEF JsonAsString, None
  <2>2. CASE key = "as_of_ts"
    <3>1. key \notin Strings /\ Converted(key, v) = AsOfTs(v)
      BY <2>2 DEF Converted, Strings
    <3>. QED BY <1>2, <2>2, <3>1, TimesConverted
  <2>3. CASE key \notin Strings /\ key # "as_of_ts"
    <3>1. v # None
      BY <1>3, <1>4
    <3>2. Converted(key, v) = IF \/ key = "as_of_frame" /\ v.type = "int" /\ v.num >= 0
                                 \/ key = "no_sketch" /\ v.type = "bool"
                              THEN v ELSE None
      <4>1. CASE key = "as_of_frame"
        BY <2>3, <4>1 DEF Converted
      <4>2. CASE key = "no_sketch"
        BY <2>3, <4>2 DEF Converted
      <4>3. CASE key # "as_of_frame" /\ key # "no_sketch"
        BY <2>3, <4>3 DEF Converted
      <4>. QED BY <4>1, <4>2, <4>3
    <3>. QED BY <2>3, <3>1, <3>2
  <2>. QED BY <2>1, <2>2, <2>3
<1>. QED BY <1>1, <1>5 DEF Supported, Convertible

LEMMA LeafFacts ==
    ASSUME NEW c, IsClause(c)
    PROVE  /\ Leaf(c) \in Filters
           /\ Leaf(c)["invalid"] = 0 <=> Convertible(c)
           /\ Convertible(c) =>
                 \A key \in Keys :
                    Leaf(c)[key] = IF key = c.key THEN Converted(c.key, c.value) ELSE None
<1>1. PICK v : v = Converted(c.key, c.value)
  OBVIOUS
<1>2. v \in Cells /\ (v # None => c.key \in Keys)
  BY <1>1, ConvertedType DEF IsClause
<1>3. "invalid" \notin Keys
  BY DEF Keys, Strings
<1>4. None \in Cells /\ 0 \in Cells /\ 1 \in Cells
  BY DEF None, Cells
<1>5. /\ Default \in Filters /\ Default["invalid"] = 0 /\ \A key \in Keys : Default[key] = None
  BY <1>3, <1>4 DEF Default, Filters, Slots
<1>6. Unsupported \in Filters /\ Unsupported["invalid"] = 1
  BY <1>3, <1>4, <1>5 DEF Unsupported, Filters, Slots
<1>7. CASE Convertible(c)
  <2>1. Leaf(c) = [Default EXCEPT ![c.key] = v] /\ v # None
    BY <1>1, <1>7 DEF Leaf, Eq, Convertible
  <2>. QED BY <1>1, <1>2, <1>3, <1>5, <1>7, <2>1 DEF Filters, Slots
<1>8. CASE ~Convertible(c)
  <2>1. Leaf(c) = Unsupported
    BY <1>8 DEF Leaf, Eq, Gt, Lt, Convertible, IsClause
  <2>. QED BY <1>6, <1>8, <2>1
<1>. QED BY <1>7, <1>8

LEMMA MergeFacts ==
    ASSUME NEW f \in Filters, NEW g \in Filters
    PROVE  /\ Merge(f, g) \in Filters
           /\ Merge(f, g)["invalid"] = 0 <=> f["invalid"] = 0 /\ g["invalid"] = 0
           /\ \A key \in Keys : Merge(f, g)[key] = IF g[key] # None THEN g[key] ELSE f[key]
<1>1. "invalid" \notin Keys /\ "invalid" \in Slots /\ Keys \subseteq Slots
  BY DEF Keys, Strings, Slots
<1>2. f["invalid"] \in Nat /\ g["invalid"] \in Nat /\ f \in [Slots -> Cells] /\ g \in [Slots -> Cells]
  BY DEF Filters
<1>3. /\ DOMAIN Merge(f, g) = Slots
      /\ Merge(f, g) = [key \in Slots |-> Merge(f, g)[key]]
      /\ Merge(f, g)["invalid"] = f["invalid"] + g["invalid"]
      /\ \A key \in Keys : Merge(f, g)[key] = IF g[key] # None THEN g[key] ELSE f[key]
  BY <1>1 DEF Merge, Slots
<1>4. f["invalid"] + g["invalid"] \in Nat
      /\ (f["invalid"] + g["invalid"] = 0 <=> f["invalid"] = 0 /\ g["invalid"] = 0)
  BY <1>2
<1>5. f["invalid"] + g["invalid"] \in Cells
  BY <1>4 DEF Cells
<1>6. \A key \in Slots : Merge(f, g)[key] \in Cells
  <2>1. \A key \in Keys : f[key] \in Cells /\ g[key] \in Cells
    BY <1>1, <1>2
  <2>. QED BY <1>3, <1>5, <2>1 DEF Slots
<1>7. Merge(f, g) \in [Slots -> Cells]
  BY <1>3, <1>6
<1>. QED BY <1>3, <1>4, <1>7 DEF Filters

(* `and` of two filters is valid exactly if both are; `or` never is.       *)
LEMMA JoinFacts ==
    ASSUME NEW f \in Filters, NEW c, IsClause(c)
    PROVE  /\ Join(f, c) \in Filters
           /\ Join(f, c)["invalid"] = 0 <=> f["invalid"] = 0 /\ Supported(c)
           /\ c.how = "and" => Join(f, c) = Merge(f, Leaf(c))
           /\ c.how = "before" => Join(f, c) = Merge(Leaf(c), f)
<1>1. CASE c.how = "and"
  BY <1>1, LeafFacts, MergeFacts, SupportedIs DEF Join, And
<1>2. CASE c.how = "before"
  BY <1>2, LeafFacts, MergeFacts, SupportedIs DEF Join, And
<1>3. CASE c.how = "or"
  <2>1. Join(f, c) = Unsupported /\ "invalid" \notin Keys
    BY <1>3 DEF Join, Or, Keys, Strings
  <2>2. None \in Cells /\ 0 \in Cells /\ 1 \in Cells
    BY DEF None, Cells
  <2>3. Unsupported \in Filters /\ Unsupported["invalid"] = 1
    BY <2>1, <2>2 DEF Unsupported, Default, Filters, Slots
  <2>. QED BY <1>3, <2>1, <2>3, SupportedIs
<1>. QED BY <1>1, <1>2, <1>3 DEF IsClause

------------------------------------------------------------------------------
(* The filter of a sequence of clauses, and the clauses from left to       *)
(* right, as functions of the number of clauses joined.                    *)

LEMMA ClausesType ==
    ASSUME NEW x \in Expressions
    PROVE  /\ x \in Seq(ToSet(x)) /\ Len(x) \in Nat
           /\ \A k \in 1..Len(x) : IsClause(x[k]) /\ x[k] \in ToSet(x)
           /\ 1 \in 1..Len(x) => x[1].how = "and"
<1>1. x \in Seq(ToSet(x)) /\ Len(x) \in Nat
  BY ExpressionsAssumption, LenProperties
<1>2. ASSUME NEW k \in 1..Len(x)
      PROVE  IsClause(x[k]) /\ x[k] \in ToSet(x) /\ (k = 1 => x[k].how = "and")
  <2>1. /\ x[k].op \in {"eq", "gt", "lt"} /\ x[k].value \in Values
        /\ x[k].how \in (IF k = 1 THEN {"and"} ELSE {"and", "before", "or"})
    BY ExpressionsAssumption
  <2>. QED BY <1>1, <2>1, ElementOfSeq DEF IsClause
<1>. QED BY <1>1, <1>2

LEMMA DefaultIsFilter ==
    /\ Default \in Filters /\ Default["invalid"] = 0
    /\ \A key \in Keys : Default[key] = None
<1>1. "invalid" \notin Keys /\ None \in Cells /\ 0 \in Cells
  BY DEF Keys, Strings, None, Cells
<1>. QED BY <1>1 DEF Default, Filters, Slots

Joining(j, x) ==
    /\ j \in [0..Len(x) -> Filters]
    /\ j[0] = Default
    /\ \A n \in 1..Len(x) : j[n] = IF n = 1 THEN Leaf(x[1]) ELSE Join(j[n - 1], x[n])
    /\ Filter(x) = j[Len(x)]

LEMMA FilterDef ==
    ASSUME NEW x \in Expressions
    PROVE  \E j : Joining(j, x)
<1> DEFINE N == Len(x)
           Body(f, n) == IF n = 0 THEN Default
                         ELSE IF n = 1 THEN Leaf(x[1])
                         ELSE Join(f[n - 1], x[n])
           step == [p \in (1..N) \X Filters |-> IF p[1] = 1 THEN Leaf(x[1]) ELSE Join(p[2], x[p[1]])]
<1>1. /\ N \in Nat /\ Default \in Filters /\ \A k \in 1..N : IsClause(x[k])
      /\ \A n \in 1..N : 1 \in 1..N /\ n # 0 /\ n \in 0..N /\ n - 1 \in 0..N
  <2>1. N \in Nat /\ \A k \in 1..N : IsClause(x[k])
    BY ClausesType
  <2> HIDE DEF N
  <2>. QED BY <2>1, DefaultIsFilter
<1>2. step \in [(1..N) \X Filters -> Filters]
  <2>1. ASSUME NEW p \in (1..N) \X Filters PROVE step[p] \in Filters
    <3>1. p[1] \in 1..N /\ p[2] \in Filters
      OBVIOUS
    <3>2. Leaf(x[1]) \in Filters /\ Join(p[2], x[p[1]]) \in Filters
      BY <1>1, <3>1, LeafFacts, JoinFacts
    <3>. QED BY <3>2
  <2>. QED BY <2>1
<1>3. PICK h : Follows(h, Filters, Default, N, step)
  <2> HIDE DEF step, N
  <2>. QED BY <1>1, <1>2, Recursion
<1>4. /\ h \in [0..N -> Filters] /\ h[0] = Default
      /\ \A n \in 1..N : h[n] = step[<<n, h[n - 1]>>]
  <2> HIDE DEF step, N
  <2>. QED BY <1>3 DEF Follows
<1>5. \A n \in 1..N : h[n - 1] \in Filters
  <2> HIDE DEF step, N
  <2>. QED BY <1>1, <1>4
<1>6. \A n \in 1..N : step[<<n, h[n - 1]>>] = Body(h, n)
  <2>1. ASSUME NEW n \in 1..N
        PROVE  step[<<n, h[n - 1]>>] = IF n = 1 THEN Leaf(x[1]) ELSE Join(h[n - 1], x[n])
    BY <1>5
  <2> HIDE DEF step
  <2>. QED BY <1>1, <2>1
<1>7. h = [n \in 0..N |-> Body(h, n)]
  <2>1. ASSUME NEW n \in 0..N PROVE h[n] = Body(h, n)
    <3>1. n = 0 \/ n \in 1..N
      BY <1>1
    <3>2. Body(h, 0) = Default
      OBVIOUS
    <3> HIDE DEF step, Body
    <3>. QED BY <1>4, <1>6, <3>1, <3>2
  <2> HIDE DEF Body, N, step
  <2>. QED BY <1>4, <2>1
<1>8. Filter(x) = (CHOOSE f : f = [n \in 0..N |-> Body(f, n)])[N]
  BY DEF Filter
<1>9. PICK f : f = [n \in 0..N |-> Body(f, n)] /\ Filter(x) = f[N]
  <2> HIDE DEF Body
  <2>. QED BY <1>7, <1>8
<1>10. \A n \in 0..N : f[n] = Body(f, n)
  <2> HIDE DEF Body
  <2>. QED BY <1>9
<1>11. /\ f[0] = Default
       /\ \A n \in 1..N : f[n] = IF n = 1 THEN Leaf(x[1]) ELSE Join(f[n - 1], x[n])
  <2>1. 0 \in 0..N
    BY <1>1
  <2>. QED BY <1>1, <1>10, <2>1
<1>12. \A n \in 1..N : f[n - 1] \in Filters => f[n] = step[<<n, f[n - 1]>>]
  BY <1>11
<1>13. f = h
  <2>1. f = [n \in 0..N |-> f[n]]
    <3> HIDE DEF Body
    <3>. QED BY <1>9
  <2> HIDE DEF step, N, Body
  <2>2. FollowsIn(f, Filters, Default, N, step)
    BY <1>11, <1>12, <2>1 DEF FollowsIn
  <2>. QED BY <1>1, <1>3, <2>2, OneFollows
<1>. QED BY <1>4, <1>9, <1>11, <1>13 DEF Joining

Ordering(o, x) ==
    /\ o \in [0..Len(x) -> Seq(ToSet(x))]
    /\ o[0] = <<>>
    /\ \A n \in 1..Len(x) :
          o[n] = IF x[n].how = "before" THEN <<x[n]>> \o o[n - 1] ELSE Append(o[n - 1], x[n])
    /\ InOrder(x) = o[Len(x)]

LEMMA InOrderDef ==
    ASSUME NEW x \in Expressions
    PROVE  \E o : Ordering(o, x)
<1> DEFINE N == Len(x)
           V == Seq(ToSet(x))
           Body(f, n) == IF n = 0 THEN <<>>
                         ELSE IF x[n].how = "before" THEN <<x[n]>> \o f[n - 1]
                         ELSE Append(f[n - 1], x[n])
           step == [p \in (1..N) \X V |->
                      IF x[p[1]].how = "before" THEN <<x[p[1]]>> \o p[2] ELSE Append(p[2], x[p[1]])]
<1>1. /\ N \in Nat /\ \A k \in 1..N : x[k] \in ToSet(x)
      /\ \A n \in 1..N : n # 0 /\ n \in 0..N /\ n - 1 \in 0..N
  <2>1. N \in Nat /\ \A k \in 1..N : x[k] \in ToSet(x)
    BY ClausesType
  <2> HIDE DEF N
  <2>. QED BY <2>1
<1>2. <<>> \in V
  BY EmptySeq
<1>3. step \in [(1..N) \X V -> V]
  <2>1. ASSUME NEW p \in (1..N) \X V PROVE step[p] \in V
    <3>1. p[1] \in 1..N /\ p[2] \in V
      OBVIOUS
    <3>2. x[p[1]] \in ToSet(x)
      BY <1>1, <3>1
    <3>3. <<x[p[1]]>> \in V
      BY <3>2
    <3>4. <<x[p[1]]>> \o p[2] \in V /\ Append(p[2], x[p[1]]) \in V
      BY <3>1, <3>2, <3>3, ConcatProperties, AppendProperties
    <3>. QED BY <3>4
  <2>. QED BY <2>1
<1>4. PICK h : Follows(h, V, <<>>, N, step)
  <2> HIDE DEF step, N, V
  <2>. QED BY <1>1, <1>2, <1>3, Recursion
<1>5. /\ h \in [0..N -> V] /\ h[0] = <<>>
      /\ \A n \in 1..N : h[n] = step[<<n, h[n - 1]>>]
  <2> HIDE DEF step, N, V
  <2>. QED BY <1>4 DEF Follows
<1>6. \A n \in 1..N : h[n - 1] \in V
  <2> HIDE DEF step, N, V
  <2>. QED BY <1>1, <1>5
<1>7. \A n \in 1..N : step[<<n, h[n - 1]>>] = Body(h, n)
  <2>1. ASSUME NEW n \in 1..N
        PROVE  step[<<n, h[n - 1]>>] = IF x[n].how = "before" THEN <<x[n]>> \o h[n - 1]
                                       ELSE Append(h[n - 1], x[n])
    <3> HIDE DEF V
    <3>. QED BY <1>6
  <2> HIDE DEF step
  <2>. QED BY <1>1, <2>1
<1>8. h = [n \in 0..N |-> Body(h, n)]
  <2>1. ASSUME NEW n \in 0..N PROVE h[n] = Body(h, n)
    <3>1. n = 0 \/ n \in 1..N
      BY <1>1
    <3>2. Body(h, 0) = <<>>
      OBVIOUS
    <3> HIDE DEF step, Body
    <3>. QED BY <1>5, <1>7, <3>1, <3>2
  <2> HIDE DEF Body, N, step, V
  <2>. QED BY <1>5, <2>1
<1>9. InOrder(x) = (CHOOSE f : f = [n \in 0..N |-> Body(f, n)])[N]
  BY DEF InOrder
<1>10. PICK f : f = [n \in 0..N |-> Body(f, n)] /\ InOrder(x) = f[N]
  <2> HIDE DEF Body
  <2>. QED BY <1>8, <1>9
<1>11. \A n \in 0..N : f[n] = Body(f, n)
  <2> HIDE DEF Body
  <2>. QED BY <1>10
<1>12. /\ f[0] = <<>>
       /\ \A n \in 1..N : f[n] = IF x[n].how = "before" THEN <<x[n]>> \o f[n - 1]
                                 ELSE Append(f[n - 1], x[n])
  <2>1. 0 \in 0..N
    BY <1>1
  <2>. QED BY <1>1, <1>11, <2>1
<1>13. \A n \in 1..N : f[n - 1] \in V => f[n] = step[<<n, f[n - 1]>>]
  <2> HIDE DEF V
  <2>. QED BY <1>12
<1>14. f = h
  <2>1. f = [n \in 0..N |-> f[n]]
    <3> HIDE DEF Body
    <3>. QED BY <1>10
  <2> HIDE DEF step, N, Body, V
  <2>2. FollowsIn(f, V, <<>>, N, step)
    BY <1>12, <1>13, <2>1 DEF FollowsIn
  <2>. QED BY <1>1, <1>4, <2>2, OneFollows
<1>. QED BY <1>5, <1>10, <1>12, <1>14 DEF Ordering

------------------------------------------------------------------------------
(* A filter restricts each key as the last clause on it says.              *)

LastOf(o, i) == \A j \in i + 1..Len(o) : o[j].key # o[i].key

Restricts(f, o) ==
    \A key \in Keys :
        /\ (\A i \in 1..Len(o) : o[i].key # key) => f[key] = None
        /\ \A i \in 1..Len(o) : o[i].key = key /\ LastOf(o, i) => f[key] = Converted(key, o[i].value)

LEMMA LastExists ==
    ASSUME NEW o, Len(o) \in Nat, NEW i \in 1..Len(o)
    PROVE  \E l \in 1..Len(o) : o[l].key = o[i].key /\ LastOf(o, l)
<1> DEFINE T == {d \in Nat : \E l \in 1..Len(o) : l + d = Len(o) /\ o[l].key = o[i].key}
<1>1. T \subseteq Nat /\ T # {}
  <2>1. Len(o) - i \in Nat /\ i + (Len(o) - i) = Len(o)
    OBVIOUS
  <2>. QED BY <2>1
<1>2. PICK d \in T : \A e \in T : d <= e
  <2> HIDE DEF T
  <2>. QED BY <1>1, LeastNumber
<1>3. PICK l \in 1..Len(o) : l + d = Len(o) /\ o[l].key = o[i].key
  OBVIOUS
<1>4. ASSUME NEW j \in l + 1..Len(o), o[j].key = o[l].key PROVE FALSE
  <2>1. j \in 1..Len(o) /\ Len(o) - j \in Nat /\ j + (Len(o) - j) = Len(o)
    OBVIOUS
  <2>2. Len(o) - j \in T
    BY <1>3, <1>4, <2>1
  <2>3. d <= Len(o) - j /\ d \in Nat
    BY <1>2, <2>2
  <2>. QED BY <1>3, <2>1, <2>3
<1>. QED BY <1>3, <1>4 DEF LastOf

(* A clause put behind or before the others.                               *)
LEMMA PutBehind ==
    ASSUME NEW S, NEW o \in Seq(S), NEW c \in S, NEW p, p = Append(o, c)
    PROVE  /\ Len(o) \in Nat /\ Len(p) = Len(o) + 1 /\ p[Len(o) + 1] = c
           /\ \A i \in 1..Len(o) : p[i] = o[i]
BY AppendProperties, LenProperties

LEMMA PutBefore ==
    ASSUME NEW S, NEW o \in Seq(S), NEW c \in S, NEW p, p = <<c>> \o o
    PROVE  /\ Len(o) \in Nat /\ Len(p) = Len(o) + 1 /\ p[1] = c
           /\ \A i \in 1..Len(o) : p[i + 1] = o[i]
<1>1. <<c>> \in Seq(S) /\ Len(<<c>>) = 1 /\ <<c>>[1] = c /\ Len(o) \in Nat
  BY LenProperties
<1>2. /\ Len(p) = 1 + Len(o)
      /\ \A i \in 1..1 + Len(o) : p[i] = IF i <= 1 THEN <<c>>[i] ELSE o[i - 1]
  BY <1>1, ConcatProperties
<1>3. ASSUME NEW i \in 1..Len(o) PROVE p[i + 1] = o[i]
  <2>1. i + 1 \in 1..1 + Len(o) /\ ~(i + 1 <= 1) /\ (i + 1) - 1 = i
    BY <1>1
  <2>. QED BY <1>2, <2>1
<1>. QED BY <1>1, <1>2, <1>3

(* A clause joined on the right wins.                                      *)
LEMMA RestrictsAppend ==
    ASSUME NEW S, NEW o \in Seq(S), NEW c \in S, NEW f, NEW g, Restricts(f, o),
           \A key \in Keys : g[key] = IF key = c.key THEN Converted(c.key, c.value) ELSE f[key]
    PROVE  Restricts(g, Append(o, c))
<1>1. PICK p : p = Append(o, c)
  OBVIOUS
<1>2. /\ Len(o) \in Nat /\ Len(p) = Len(o) + 1 /\ p[Len(o) + 1] = c
      /\ \A i \in 1..Len(o) : p[i] = o[i]
  BY <1>1, PutBehind
<1>3. SUFFICES ASSUME NEW key \in Keys
      PROVE  /\ (\A i \in 1..Len(p) : p[i].key # key) => g[key] = None
             /\ \A i \in 1..Len(p) : p[i].key = key /\ LastOf(p, i) => g[key] = Converted(key, p[i].value)
  BY <1>1 DEF Restricts
<1>4. /\ (\A i \in 1..Len(o) : o[i].key # key) => f[key] = None
      /\ \A i \in 1..Len(o) : o[i].key = key /\ LastOf(o, i) => f[key] = Converted(key, o[i].value)
  BY DEF Restricts
<1>5. ASSUME \A i \in 1..Len(p) : p[i].key # key PROVE g[key] = None
  <2>1. Len(o) + 1 \in 1..Len(p) /\ \A i \in 1..Len(o) : i \in 1..Len(p)
    BY <1>2
  <2>2. c.key # key /\ \A i \in 1..Len(o) : o[i].key # key
    BY <1>2, <1>5, <2>1
  <2>. QED BY <1>4, <2>2
<1>6. ASSUME NEW i \in 1..Len(p), p[i].key = key, LastOf(p, i)
      PROVE  g[key] = Converted(key, p[i].value)
  <2>1. CASE i = Len(o) + 1
    BY <1>2, <1>6, <2>1
  <2>2. CASE i # Len(o) + 1
    <3>1. i \in 1..Len(o) /\ Len(o) + 1 \in i + 1..Len(p)
      BY <1>2, <2>2
    <3>2. c.key # key
      BY <1>2, <1>6, <3>1 DEF LastOf
    <3>3. \A j \in i + 1..Len(o) : j \in i + 1..Len(p) /\ j \in 1..Len(o)
      BY <1>2, <3>1
    <3>4. o[i].key = key /\ LastOf(o, i)
      BY <1>2, <1>6, <3>1, <3>3 DEF LastOf
    <3>. QED BY <1>2, <1>4, <3>1, <3>2, <3>4
  <2>. QED BY <2>1, <2>2
<1>. QED BY <1>5, <1>6

(* One joined on the left does so only where nothing else restricts.       *)
LEMMA RestrictsBefore ==
    ASSUME NEW S, NEW o \in Seq(S), NEW c \in S, NEW f, NEW g, Restricts(f, o),
           \A i \in 1..Len(o) : o[i].key \in Keys /\ Converted(o[i].key, o[i].value) # None,
           \A key \in Keys : g[key] = IF f[key] # None THEN f[key]
                                      ELSE IF key = c.key THEN Converted(c.key, c.value) ELSE None
    PROVE  Restricts(g, <<c>> \o o)
<1>1. PICK p : p = <<c>> \o o
  OBVIOUS
<1>2. /\ Len(o) \in Nat /\ Len(p) = Len(o) + 1 /\ p[1] = c
      /\ \A i \in 1..Len(o) : p[i + 1] = o[i]
  BY <1>1, PutBefore
<1>3. SUFFICES ASSUME NEW key \in Keys
      PROVE  /\ (\A i \in 1..Len(p) : p[i].key # key) => g[key] = None
             /\ \A i \in 1..Len(p) : p[i].key = key /\ LastOf(p, i) => g[key] = Converted(key, p[i].value)
  BY <1>1 DEF Restricts
<1>4. /\ (\A i \in 1..Len(o) : o[i].key # key) => f[key] = None
      /\ \A i \in 1..Len(o) : o[i].key = key /\ LastOf(o, i) => f[key] = Converted(key, o[i].value)
  BY DEF Restricts
<1>5. \A i \in 1..Len(o) : i + 1 \in 1..Len(p) /\ i \in Nat
  BY <1>2
<1>6. ASSUME \A i \in 1..Len(p) : p[i].key # key PROVE g[key] = None
  <2>1. 1 \in 1..Len(p)
    BY <1>2
  <2>2. c.key # key /\ \A i \in 1..Len(o) : o[i].key # key
    BY <1>2, <1>5, <1>6, <2>1
  <2>. QED BY <1>4, <2>2
<1>7. ASSUME NEW i \in 1..Len(p), p[i].key = key, LastOf(p, i)
      PROVE  g[key] = Converted(key, p[i].value)
  <2>1. CASE i = 1
    <3>1. ASSUME NEW j \in 1..Len(o) PROVE o[j].key # key
      <4>1. j + 1 \in i + 1..Len(p)
        BY <1>2, <2>1
      <4>. QED BY <1>2, <1>7, <4>1 DEF LastOf
    <3>2. f[key] = None
      BY <1>4, <3>1
    <3>. QED BY <1>2, <1>7, <2>1, <3>2
  <2>2. CASE i # 1
    <3>1. PICK l : l = i - 1
      OBVIOUS
    <3>2. l \in 1..Len(o) /\ i = l + 1
      BY <1>2, <2>2, <3>1
    <3>3. p[i] = o[l]
      BY <1>2, <3>2
    <3>4. ASSUME NEW j \in l + 1..Len(o) PROVE o[j].key # key
      <4>1. j \in 1..Len(o) /\ j + 1 \in i + 1..Len(p)
        BY <1>2, <3>2
      <4>. QED BY <1>2, <1>7, <4>1 DEF LastOf
    <3>5. f[key] = Converted(key, o[l].value)
      BY <1>4, <1>7, <3>2, <3>3, <3>4 DEF LastOf
    <3>6. f[key] # None
      BY <1>7, <3>2, <3>3, <3>5
    <3>. QED BY <3>3, <3>5, <3>6
  <2>. QED BY <2>1, <2>2
<1>. QED BY <1>6, <1>7

(* The first n clauses: what their filter is and in which order they act.  *)
JoinedAs(f, o, x, n) ==
    /\ \A i \in 1..Len(o) : \E k \in 1..n : o[i] = x[k]
    /\ \A k \in 1..n : \E i \in 1..Len(o) : o[i] = x[k]
    /\ f["invalid"] = 0 <=> \A k \in 1..n : Supported(x[k])
    /\ f["invalid"] = 0 => Restricts(f, o)

Placed(p, c, o) == p = IF c.how = "before" THEN <<c>> \o o ELSE Append(o, c)

LEMMA JoinedAsStep ==
    ASSUME NEW x \in Expressions, NEW n \in 1..Len(x), NEW f \in Filters, NEW g \in Filters,
           NEW o \in Seq(ToSet(x)), NEW p, JoinedAs(f, o, x, n - 1),
           IF n = 1 THEN f = Default /\ g = Leaf(x[1]) ELSE g = Join(f, x[n]),
           Placed(p, x[n], o)
    PROVE  JoinedAs(g, p, x, n)
<1>1. PICK c : c = x[n]
  OBVIOUS
<1>2. IsClause(c) /\ c \in ToSet(x) /\ Len(x) \in Nat /\ n \in Nat /\ n - 1 \in Nat
  BY <1>1, ClausesType
<1>3. \A k \in 1..n : k \in 1..(n - 1) \/ k = n
  BY <1>2
<1>4. \A k \in 1..(n - 1) : k \in 1..n /\ k \in 1..Len(x)
  BY <1>2
<1>5. n \in 1..n
  BY <1>2
<1>6. Len(o) \in Nat
  BY LenProperties
<1>7. /\ \A i \in 1..Len(o) : \E k \in 1..(n - 1) : o[i] = x[k]
      /\ \A k \in 1..(n - 1) : \E i \in 1..Len(o) : o[i] = x[k]
      /\ f["invalid"] = 0 <=> \A k \in 1..(n - 1) : Supported(x[k])
      /\ f["invalid"] = 0 => Restricts(f, o)
  BY DEF JoinedAs
<1>8. /\ g["invalid"] = 0 <=> f["invalid"] = 0 /\ Supported(c)
      /\ g["invalid"] = 0 /\ c.how # "before" =>
            \A key \in Keys : g[key] = IF key = c.key THEN Converted(c.key, c.value) ELSE f[key]
      /\ g["invalid"] = 0 /\ c.how = "before" =>
            \A key \in Keys : g[key] = IF f[key] # None THEN f[key]
                                       ELSE IF key = c.key THEN Converted(c.key, c.value) ELSE None
  <2>1. CASE n = 1
    <3>1. f = Default /\ g = Leaf(c) /\ c.how = "and"
      BY <1>1, <2>1, ClausesType
    <3>2. Supported(c) <=> Convertible(c)
      BY <1>2, <3>1, SupportedIs
    <3>. QED BY <1>2, <3>1, <3>2, LeafFacts, DefaultIsFilter
  <2>2. CASE n # 1
    <3>1. g = Join(f, c)
      BY <1>1, <2>2
    <3>2. /\ g["invalid"] = 0 <=> f["invalid"] = 0 /\ Supported(c)
          /\ c.how = "and" => g = Merge(f, Leaf(c))
          /\ c.how = "before" => g = Merge(Leaf(c), f)
      BY <1>2, <3>1, JoinFacts
    <3>3. SUFFICES ASSUME g["invalid"] = 0
                   PROVE  /\ c.how # "before" =>
                               \A key \in Keys :
                                 g[key] = IF key = c.key THEN Converted(c.key, c.value) ELSE f[key]
                          /\ c.how = "before" =>
                               \A key \in Keys :
                                 g[key] = IF f[key] # None THEN f[key]
                                          ELSE IF key = c.key THEN Converted(c.key, c.value) ELSE None
      BY <3>2
    <3>4. Convertible(c) /\ c.how \in {"and", "before"}
      BY <1>2, <3>2, <3>3, SupportedIs DEF IsClause
    <3>5. PICK l \in Filters : l = Leaf(c)
      BY <1>2, LeafFacts
    <3>6. \A key \in Keys : l[key] = IF key = c.key THEN Converted(c.key, c.value) ELSE None
      BY <1>2, <3>4, <3>5, LeafFacts
    <3>7. Converted(c.key, c.value) # None
      BY <3>4 DEF Convertible
    <3>8. CASE c.how = "and"
      <4>1. \A key \in Keys : g[key] = IF l[key] # None THEN l[key] ELSE f[key]
        BY <3>2, <3>5, <3>8, MergeFacts
      <4>. QED BY <3>6, <3>7, <3>8, <4>1
    <3>9. CASE c.how = "before"
      <4>1. \A key \in Keys : g[key] = IF f[key] # None THEN f[key] ELSE l[key]
        BY <3>2, <3>5, <3>9, MergeFacts
      <4>. QED BY <3>6, <3>9, <4>1
    <3>. QED BY <3>4, <3>8, <3>9
  <2>. QED BY <2>1, <2>2
<1>9. g["invalid"] = 0 <=> \A k \in 1..n : Supported(x[k])
  BY <1>1, <1>3, <1>4, <1>5, <1>7, <1>8
<1>12. o \in Seq(ToSet(x)) /\ c \in ToSet(x)
  BY <1>2
<1>10. CASE c.how # "before"
  <2>1. p = Append(o, c)
    BY <1>1, <1>10 DEF Placed
  <2>2. /\ Len(p) = Len(o) + 1 /\ p[Len(o) + 1] = c
        /\ \A i \in 1..Len(o) : p[i] = o[i]
    BY <1>12, <2>1, PutBehind
  <2>3. /\ \A i \in 1..Len(p) : i \in 1..Len(o) \/ i = Len(o) + 1
        /\ \A i \in 1..Len(o) : i \in 1..Len(p)
        /\ Len(o) + 1 \in 1..Len(p)
    BY <1>6, <2>2
  <2>4. \A i \in 1..Len(p) : \E k \in 1..n : p[i] = x[k]
    <3>1. ASSUME NEW i \in 1..Len(o) PROVE \E k \in 1..n : p[i] = x[k]
      <4>1. PICK k \in 1..(n - 1) : o[i] = x[k]
        BY <1>7
      <4>. QED BY <1>4, <2>2, <4>1
    <3>. QED BY <1>1, <1>5, <2>2, <2>3, <3>1
  <2>5. \A k \in 1..n : \E i \in 1..Len(p) : p[i] = x[k]
    <3>1. ASSUME NEW k \in 1..(n - 1) PROVE \E i \in 1..Len(p) : p[i] = x[k]
      <4>1. PICK i \in 1..Len(o) : o[i] = x[k]
        BY <1>7
      <4>. QED BY <2>2, <2>3, <4>1
    <3>. QED BY <1>1, <1>3, <2>2, <2>3, <3>1
  <2>6. ASSUME g["invalid"] = 0 PROVE Restricts(g, p)
    <3>1. Restricts(f, o)
      BY <1>7, <1>8, <2>6
    <3>2. \A key \in Keys : g[key] = IF key = c.key THEN Converted(c.key, c.value) ELSE f[key]
      BY <1>8, <1>10, <2>6
    <3>. QED BY <1>12, <2>1, <3>1, <3>2, RestrictsAppend
  <2>. QED BY <1>9, <2>4, <2>5, <2>6 DEF JoinedAs
<1>11. CASE c.how = "before"
  <2>1. p = <<c>> \o o
    BY <1>1, <1>11 DEF Placed
  <2>2. /\ Len(p) = Len(o) + 1 /\ p[1] = c
        /\ \A i \in 1..Len(o) : p[i + 1] = o[i]
    BY <1>12, <2>1, PutBefore
  <2>3. /\ \A i \in 1..Len(p) : i = 1 \/ (i - 1 \in 1..Len(o) /\ i = (i - 1) + 1)
        /\ \A i \in 1..Len(o) : i + 1 \in 1..Len(p)
        /\ 1 \in 1..Len(p)
    BY <1>6, <2>2
  <2>4. \A i \in 1..Len(p) : \E k \in 1..n : p[i] = x[k]
    <3>1. ASSUME NEW i \in 1..Len(p), i # 1 PROVE \E k \in 1..n : p[i] = x[k]
      <4>1. PICK l \in 1..Len(o) : i = l + 1
        BY <2>3, <3>1
      <4>2. p[i] = o[l]
        BY <2>2, <4>1
      <4>. QED BY <1>4, <1>7, <4>2
    <3>. QED BY <1>1, <1>5, <2>2, <3>1
  <2>5. \A k \in 1..n : \E i \in 1..Len(p) : p[i] = x[k]
    <3>1. ASSUME NEW k \in 1..(n - 1) PROVE \E i \in 1..Len(p) : p[i] = x[k]
      <4>1. PICK l \in 1..Len(o) : o[l] = x[k]
        BY <1>7
      <4>. QED BY <2>2, <2>3, <4>1
    <3>. QED BY <1>1, <1>3, <2>2, <2>3, <3>1
  <2>6. ASSUME g["invalid"] = 0 PROVE Restricts(g, p)
    <3>1. f["invalid"] = 0 /\ \A k \in 1..(n - 1) : Supported(x[k])
      BY <1>7, <1>8, <2>6
    <3>2. ASSUME NEW i \in 1..Len(o)
          PROVE  o[i].key \in Keys /\ Converted(o[i].key, o[i].value) # None
      <4>1. PICK k \in 1..(n - 1) : o[i] = x[k]
        BY <1>7
      <4>2. IsClause(x[k]) /\ Supported(x[k])
        BY <1>4, <3>1, ClausesType
      <4>3. Convertible(x[k])
        BY <4>2, SupportedIs
      <4>. QED BY <4>1, <4>2, <4>3, ConvertedType DEF Convertible, IsClause
    <3>3. Restricts(f, o)
      BY <1>7, <3>1
    <3>4. \A key \in Keys : g[key] = IF f[key] # None THEN f[key]
                                     ELSE IF key = c.key THEN Converted(c.key, c.value) ELSE None
      BY <1>8, <1>11, <2>6
    <3>. QED BY <1>12, <2>1, <3>2, <3>3, <3>4, RestrictsBefore
  <2>. QED BY <1>9, <2>4, <2>5, <2>6 DEF JoinedAs
<1>. QED BY <1>10, <1>11

LEMMA FilterIsJoined ==
    ASSUME NEW x \in Expressions
    PROVE  /\ InOrder(x) \in Seq(ToSet(x))
           /\ JoinedAs(Filter(x), InOrder(x), x, Len(x))
<1>1. Len(x) \in Nat
  BY ClausesType
<1>2. PICK j : Joining(j, x)
  BY FilterDef
<1>3. PICK o : Ordering(o, x)
  BY InOrderDef
<1>4. /\ j \in [0..Len(x) -> Filters] /\ j[0] = Default
      /\ \A n \in 1..Len(x) : j[n] = IF n = 1 THEN Leaf(x[1]) ELSE Join(j[n - 1], x[n])
      /\ Filter(x) = j[Len(x)]
  BY <1>2 DEF Joining
<1>5. /\ o \in [0..Len(x) -> Seq(ToSet(x))] /\ o[0] = <<>>
      /\ \A n \in 1..Len(x) :
            o[n] = IF x[n].how = "before" THEN <<x[n]>> \o o[n - 1] ELSE Append(o[n - 1], x[n])
      /\ InOrder(x) = o[Len(x)]
  BY <1>3 DEF Ordering
<1> DEFINE T == {n \in Nat : n <= Len(x) => JoinedAs(j[n], o[n], x, n)}
<1>6. 0 \in T
  <2>1. Len(<<>>) = 0 /\ 1..0 = {}
    OBVIOUS
  <2>2. JoinedAs(Default, <<>>, x, 0)
    BY <2>1, DefaultIsFilter DEF JoinedAs, Restricts
  <2>. QED BY <1>4, <1>5, <2>2
<1>7. ASSUME NEW n \in T PROVE n + 1 \in T
  <2>1. SUFFICES ASSUME n + 1 <= Len(x) PROVE JoinedAs(j[n + 1], o[n + 1], x, n + 1)
    OBVIOUS
  <2>2. JoinedAs(j[n], o[n], x, n)
    BY <1>1, <2>1
  <2>3. n + 1 \in 1..Len(x) /\ (n + 1) - 1 = n /\ n \in 0..Len(x) /\ n + 1 \in 0..Len(x)
    BY <1>1, <2>1
  <2>4. j[n] \in Filters /\ j[n + 1] \in Filters /\ o[n] \in Seq(ToSet(x))
    BY <1>4, <1>5, <2>3
  <2>5. IF n + 1 = 1 THEN j[n] = Default /\ j[n + 1] = Leaf(x[1]) ELSE j[n + 1] = Join(j[n], x[n + 1])
    <3>1. n + 1 = 1 => n = 0
      BY <2>3
    <3>. QED BY <1>4, <2>3, <3>1
  <2>6. Placed(o[n + 1], x[n + 1], o[n])
    BY <1>5, <2>3 DEF Placed
  <2>7. JoinedAs(j[n], o[n], x, (n + 1) - 1)
    BY <2>2, <2>3
  <2> HIDE DEF T
  <2>. QED BY <2>3, <2>4, <2>5, <2>6, <2>7, JoinedAsStep
<1>8. T = Nat
  <2>1. T \subseteq Nat
    OBVIOUS
  <2> HIDE DEF T
  <2>. QED BY <1>6, <1>7, <2>1, AllNumbers
<1>9. JoinedAs(j[Len(x)], o[Len(x)], x, Len(x)) /\ Len(x) \in 0..Len(x)
  BY <1>1, <1>8
<1>. QED BY <1>4, <1>5, <1>9

------------------------------------------------------------------------------
(* What a search is given.                                                 *)

Described(s) ==
    /\ IsValid(s.filter) <=> s.supported
    /\ s.supported =>
          /\ s.restricted <=> \E key \in RefusedByVec : s.filter[key] # None
          /\ \A c \in s.effective :
                /\ c.key \in Keys /\ c.value \in Values
                /\ s.filter[c.key] = Converted(c.key, c.value) /\ s.filter[c.key] # None
          /\ \A key \in Keys : s.filter[key] # None => \E c \in s.effective : c.key = key

LEMMA SearchesDescribed ==
    ASSUME NEW s \in Searches
    PROVE  Described(s)
<1> PICK x \in Expressions :
        s = [filter     |-> Filter(x),
             supported  |-> \A k \in 1..Len(x) : Supported(x[k]),
             restricted |-> \E k \in 1..Len(x) : x[k].key \in RefusedByVec,
             effective  |-> Effective(x)]
  BY DEF Searches
<1>1. /\ s.filter = Filter(x)
      /\ s.supported <=> \A k \in 1..Len(x) : Supported(x[k])
      /\ s.restricted <=> \E k \in 1..Len(x) : x[k].key \in RefusedByVec
      /\ s.effective = Effective(x)
  OBVIOUS
<1>2. PICK o, f : o = InOrder(x) /\ f = Filter(x)
  OBVIOUS
<1>3. /\ \A i \in 1..Len(o) : \E k \in 1..Len(x) : o[i] = x[k]
      /\ \A k \in 1..Len(x) : \E i \in 1..Len(o) : o[i] = x[k]
      /\ f["invalid"] = 0 <=> \A k \in 1..Len(x) : Supported(x[k])
      /\ f["invalid"] = 0 => Restricts(f, o)
  BY <1>2, FilterIsJoined DEF JoinedAs
<1>4. Len(o) \in Nat
  BY <1>2, FilterIsJoined, LenProperties
<1>5. Effective(x) = {[key |-> o[i].key, value |-> o[i].value] : i \in {i \in 1..Len(o) : LastOf(o, i)}}
  BY <1>2 DEF Effective, LastOf
<1>6. IsValid(s.filter) <=> s.supported
  BY <1>1, <1>2, <1>3 DEF IsValid
<1>7. SUFFICES ASSUME s.supported
               PROVE  /\ s.restricted <=> \E key \in RefusedByVec : f[key] # None
                      /\ \A c \in s.effective :
                            /\ c.key \in Keys /\ c.value \in Values
                            /\ f[c.key] = Converted(c.key, c.value) /\ f[c.key] # None
                      /\ \A key \in Keys : f[key] # None => \E c \in s.effective : c.key = key
  BY <1>1, <1>2, <1>6 DEF Described
<1>8. Restricts(f, o) /\ \A k \in 1..Len(x) : Supported(x[k])
  BY <1>1, <1>3, <1>7
<1>9. ASSUME NEW k \in 1..Len(x)
      PROVE  x[k].key \in Keys /\ x[k].value \in Values /\ Converted(x[k].key, x[k].value) # None
  <2>1. IsClause(x[k]) /\ Supported(x[k])
    BY <1>8, ClausesType
  <2>. QED BY <2>1, SupportedIs, ConvertedType DEF Convertible, IsClause
<1>10. ASSUME NEW i \in 1..Len(o)
       PROVE  /\ o[i].key \in Keys /\ o[i].value \in Values
              /\ Converted(o[i].key, o[i].value) # None
  BY <1>3, <1>9
<1>11. ASSUME NEW i \in 1..Len(o), LastOf(o, i)
       PROVE  f[o[i].key] = Converted(o[i].key, o[i].value) /\ f[o[i].key] # None
  BY <1>8, <1>10, <1>11 DEF Restricts
<1>12. ASSUME NEW i \in 1..Len(o)
       PROVE  f[o[i].key] # None /\ \E c \in s.effective : c.key = o[i].key
  <2>1. PICK l \in 1..Len(o) : o[l].key = o[i].key /\ LastOf(o, l)
    BY <1>4, LastExists
  <2>2. [key |-> o[l].key, value |-> o[l].value] \in s.effective
    BY <1>1, <1>5, <2>1
  <2>3. f[o[l].key] # None
    BY <1>11, <2>1
  <2>. QED BY <2>1, <2>2, <2>3
<1>13. ASSUME NEW key \in Keys, f[key] # None PROVE \E i \in 1..Len(o) : o[i].key = key
  BY <1>8, <1>13 DEF Restricts
<1>14. ASSUME NEW c \in s.effective
       PROVE  /\ c.key \in Keys /\ c.value \in Values
              /\ f[c.key] = Converted(c.key, c.value) /\ f[c.key] # None
  <2>1. PICK i \in 1..Len(o) : LastOf(o, i) /\ c = [key |-> o[i].key, value |-> o[i].value]
    BY <1>1, <1>5, <1>14
  <2>2. c.key = o[i].key /\ c.value = o[i].value
    BY <2>1
  <2>. QED BY <1>10, <1>11, <2>1, <2>2
<1>15. s.restricted <=> \E key \in RefusedByVec : f[key] # None
  <2>1. RefusedByVec \subseteq Keys
    BY DEF RefusedByVec, Keys, Strings
  <2>2. ASSUME NEW k \in 1..Len(x), x[k].key \in RefusedByVec PROVE \E key \in RefusedByVec : f[key] # None
    <3>1. PICK i \in 1..Len(o) : o[i] = x[k]
      BY <1>3
    <3>. QED BY <1>12, <2>2, <3>1
  <2>3. ASSUME NEW key \in RefusedByVec, f[key] # None
        PROVE  \E k \in 1..Len(x) : x[k].key \in RefusedByVec
    <3>1. PICK i \in 1..Len(o) : o[i].key = key
      BY <1>13, <2>1, <2>3
    <3>2. PICK k \in 1..Len(x) : o[i] = x[k]
      BY <1>3
    <3>. QED BY <3>1, <3>2
  <2>. QED BY <1>1, <2>2, <2>3
<1>16. \A key \in Keys : f[key] # None => \E c \in s.effective : c.key = key
  BY <1>12, <1>13
<1>. QED BY <1>14, <1>15, <1>16

------------------------------------------------------------------------------
(* What a search returns.                                                  *)

LEMMA RequestsAre ==
    ASSUME NEW s \in Searches, NEW n \in Samples
    PROVE  /\ Requests(s.filter, n) = {} <=> ~s.supported \/ (embedder /\ s.restricted)
           /\ \A request \in Requests(s.filter, n) :
                 /\ s.supported
                 /\ \/ ~embedder /\ request = LexRequest(s.filter, n)
                    \/ embedder /\ ~s.restricted /\ request = VecRequest(s.filter, n)
<1>1. /\ IsValid(s.filter) <=> s.supported
      /\ s.supported => (EnsureVecFilterSupported(s.filter) <=> ~s.restricted)
  BY SearchesDescribed DEF Described, EnsureVecFilterSupported, RefusedByVec
<1>. QED BY <1>1 DEF Requests

LEMMA RepliesAre ==
    ASSUME NEW s \in Searches, NEW n \in Samples, NEW reply \in Replies(s.filter, n)
    PROVE  /\ reply.result = "refused" <=> ~s.supported \/ (embedder /\ s.restricted)
           /\ reply.result = "ok" =>
                 \E request \in Requests(s.filter, n) : reply \in Hits(request)
<1>1. \A result, r : r \in Failure(result) => r.result = result
  BY DEF Failure
<1>2. \A request, r : r \in Hits(request) => r.result = "ok"
  BY DEF Hits
<1>3. CASE Requests(s.filter, n) = {}
  <2>1. reply \in Failure("refused")
    BY <1>3 DEF Replies
  <2>. QED BY <1>1, <1>3, <2>1, RequestsAre
<1>4. CASE Requests(s.filter, n) # {}
  <2> DEFINE found == UNION {Hits(request) : request \in Requests(s.filter, n)}
  <2>1. reply \in Encoded(Locked(found))
    BY <1>4 DEF Replies
  <2>2. reply \in found \/ reply \in Failure("err")
    BY <2>1 DEF Encoded, Locked
  <2>3. reply \in found => \E request \in Requests(s.filter, n) : reply \in Hits(request)
    OBVIOUS
  <2> HIDE DEF found
  <2>. QED BY <1>1, <1>2, <1>4, <2>2, <2>3, RequestsAre
<1>. QED BY <1>3, <1>4

(* A request holds what the filter restricts, and nothing else that a      *)
(* frame could fail to meet.                                               *)
LEMMA RequestHolds ==
    ASSUME NEW s \in Searches, s.supported, NEW n \in Samples, NEW request,
           \/ request = LexRequest(s.filter, n)
           \/ request = VecRequest(s.filter, n) /\ ~s.restricted,
           NEW key \in {"uri", "scope", "as_of_frame", "as_of_ts"}
    PROVE  request[key] = s.filter[key] /\ request.top_k = TopK(n)
<1>1. key \in Keys /\ "top_k" \notin Keys /\ key # "no_sketch" /\ key # "top_k" /\ "scope" \in Keys
  BY DEF Keys, Strings
<1>2. CASE request = LexRequest(s.filter, n)
  BY <1>1, <1>2 DEF LexRequest, ApplyTo
<1>3. CASE request = VecRequest(s.filter, n) /\ ~s.restricted
  <2>1. key # "scope" => s.filter[key] = None
    BY <1>3, SearchesDescribed DEF Described, RefusedByVec
  <2>. QED BY <1>1, <1>3, <2>1 DEF VecRequest
<1>. QED BY <1>2, <1>3

(* A frame that meets what a clause was converted to meets the clause, and *)
(* the other way round where times are i64.                                *)
LEMMA MeetsConverted ==
    ASSUME NEW i \in Nat, NEW c, c.key \in Keys, c.value \in Values,
           Converted(c.key, c.value) # None
    PROVE  /\ Meets(i, c.key, Converted(c.key, c.value)) => MeetsClause(i, c)
           /\ i <= MaxI64 /\ MeetsClause(i, c) => Meets(i, c.key, Converted(c.key, c.value))
<1>1. CASE c.key \in {"uri", "scope"}
  <2>1. Converted(c.key, c.value) = JsonAsString(c.value)
    BY <1>1 DEF Converted, Strings
  <2>. QED BY <1>1, <2>1 DEF Meets, MeetsClause
<1>2. CASE c.key = "as_of_frame"
  <2>1. Converted(c.key, c.value) = c.value /\ c.value.type = "int"
    BY <1>2 DEF Converted, Strings
  <2>2. c.value.num \in Int
    BY Widths DEF Values
  <2>3. Twice(c.value) = 2 * c.value.num
    BY <2>1 DEF Twice
  <2>4. i <= c.value.num <=> 2 * i <= 2 * c.value.num
    BY <2>2
  <2>. QED BY <1>2, <2>1, <2>3, <2>4 DEF Meets, MeetsClause
<1>3. CASE c.key = "as_of_ts"
  <2>1. Converted(c.key, c.value) = AsOfTs(c.value)
    BY <1>3 DEF Converted, Strings
  <2>2. PICK m : TimeOf(m, c.value)
    BY <2>1, TimesConverted
  <2>3. /\ AsOfTs(c.value).num = m
        /\ i <= m => 2 * i <= Twice(c.value)
        /\ i <= MaxI64 /\ 2 * i <= Twice(c.value) => i <= m
    BY <2>2 DEF TimeOf, Int64
  <2>4. /\ Meets(i, c.key, AsOfTs(c.value)) <=> i <= m
        /\ MeetsClause(i, c) <=> 2 * i <= Twice(c.value)
    BY <1>3, <2>3 DEF Meets, MeetsClause
  <2>. QED BY <2>1, <2>3, <2>4
<1>4. CASE c.key \notin {"uri", "scope", "as_of_frame", "as_of_ts"}
  BY <1>4 DEF Meets, MeetsClause
<1>. QED BY <1>1, <1>2, <1>3, <1>4

(* A search is refused when a clause of its filter is not supported, or    *)
(* restricts uri, as_of_frame or as_of_ts and goes to the embedder, and    *)
(* only then; a clause on cursor or no_sketch is not refused, although the *)
(* embedder cannot apply it either.                                        *)
THEOREM UnsupportedIsRefused == Spec => []RefusesExactly
<1>1. RefusesExactly
  BY RepliesAre DEF RefusesExactly
<1>. QED BY <1>1, PTL

(* The number that a clause asks for is in what it is converted to.        *)
LEMMA ConversionCarries ==
    ASSUME NEW c, c.key \in Keys, c.value \in Values, NEW request,
           Converted(c.key, c.value) # None,
           request[c.key] = Converted(c.key, c.value)
    PROVE  Carries(request, c)
<1>1. CASE c.key \in Strings
  <2>1. c.key \in {"uri", "scope", "cursor"}
    BY <1>1 DEF Strings
  <2>2. Converted(c.key, c.value) = JsonAsString(c.value)
    BY <2>1 DEF Converted, Strings
  <2>. QED BY <2>1, <2>2 DEF Carries, Strings
<1>2. CASE c.key = "no_sketch"
  BY <1>2 DEF Carries, Converted, Strings
<1>3. CASE c.key = "as_of_frame"
  <2>1. Converted(c.key, c.value) = c.value /\ c.value.type = "int"
    BY <1>3 DEF Converted, Strings
  <2>. QED BY <1>3, <2>1 DEF Carries, Strings
<1>4. CASE c.key = "as_of_ts"
  <2>1. Converted(c.key, c.value) = AsOfTs(c.value)
    BY <1>4 DEF Converted, Strings
  <2>2. PICK m : TimeOf(m, c.value)
    BY <2>1, TimesConverted
  <2>3. Int64(m).type = "int" /\ Int64(m).num = m /\ Twice(Int64(m)) = 2 * m
    BY DEF Int64, Twice
  <2>4. request[c.key] = Int64(m) /\ c.key \notin Strings /\ c.key # "no_sketch"
    BY <1>4, <2>1, <2>2 DEF TimeOf, Strings
  <2>. QED BY <2>2, <2>3, <2>4 DEF Carries, TimeOf
<1>. QED BY <1>1, <1>2, <1>3, <1>4 DEF Keys

(* What is asked of a search that is not refused reaches memvid-core: the  *)
(* last clause of each key, but for cursor and no_sketch where there is an *)
(* embedder, which drops them.                                             *)
THEOREM ClausesReachTheArchive == Spec => []ClausesAreApplied
<1>1. ClausesAreApplied
  <2>1. SUFFICES ASSUME NEW s \in Searches, NEW n \in Samples,
                        NEW request \in Requests(s.filter, n), NEW c \in s.effective,
                        ~(embedder /\ c.key \in DroppedByVec)
                 PROVE  Carries(request, c)
    BY DEF ClausesAreApplied
  <2>2. /\ s.supported
        /\ \/ ~embedder /\ request = LexRequest(s.filter, n)
           \/ embedder /\ ~s.restricted /\ request = VecRequest(s.filter, n)
    BY RequestsAre
  <2>3. /\ c.key \in Keys /\ c.value \in Values
        /\ s.filter[c.key] = Converted(c.key, c.value) /\ s.filter[c.key] # None
        /\ s.restricted <=> \E key \in RefusedByVec : s.filter[key] # None
    BY <2>2, SearchesDescribed DEF Described
  <2>4. request[c.key] = s.filter[c.key]
    <3>1. CASE request = LexRequest(s.filter, n)
      BY <2>3, <3>1 DEF LexRequest, ApplyTo
    <3>2. CASE embedder /\ ~s.restricted /\ request = VecRequest(s.filter, n)
      <4>1. c.key = "scope"
        BY <2>1, <2>3, <3>2 DEF Keys, Strings, RefusedByVec, DroppedByVec
      <4>2. "scope" \in Keys /\ "scope" # "top_k"
        BY DEF Keys, Strings
      <4>. QED BY <3>2, <4>1, <4>2 DEF VecRequest
    <3>. QED BY <2>2, <3>1, <3>2
  <2>. QED BY <2>3, <2>4, ConversionCarries
<1>. QED BY <1>1, PTL

------------------------------------------------------------------------------
(* The frames of a call that returned Ok are flushed, each where it is.    *)
OkIsFlushed ==
    \A i \in 1..Len(log) :
        status[log[i].by] = "ok" /\ log[i].attempt = attempts[log[i].by] => i <= durable

LEMMA FlushedStep ==
    ASSUME StoreType, OkIsFlushed, [Next]_vars
    PROVE  OkIsFlushed'
<1>1. SUFFICES ASSUME NEW i \in 1..Len(log'), status'[log'[i].by] = "ok",
                      log'[i].attempt = attempts'[log'[i].by]
               PROVE  i <= durable'
  BY DEF OkIsFlushed
<1>2. Len(log) \in Nat /\ durable \in 0..Len(log)
  BY LenProperties DEF StoreType
<1>3. ASSUME NEW j \in 1..Len(log)
      PROVE  /\ log[j].by \in Clients
             /\ log[j].attempt \in 1..attempts[log[j].by] /\ attempts[log[j].by] \in Nat
             /\ status[log[j].by] = "ok" /\ log[j].attempt = attempts[log[j].by] => j <= durable
  <2>1. log[j] \in LogFrames
    BY ElementOfSeq DEF StoreType
  <2>2. log[j].by \in Clients
    BY <2>1 DEF LogFrames
  <2>. QED BY <2>2 DEF StoreType, OkIsFlushed
<1>4. CASE \E c \in Clients : PutText(c) \/ InsertDocuments(c) \/ PutTextUncommitted(c)
  <2>1. PICK c \in Clients :
            \E n \in 0..Len(Docs(c)), result \in {"ok", "pending", "err"} : CallEffect(c, n, result)
    BY <1>4, CallStep
  <2> PICK n \in 0..Len(Docs(c)), result \in {"ok", "pending", "err"} : CallEffect(c, n, result)
    BY <2>1
  <2>2. /\ Len(log') = Len(log) + n /\ n \in Nat /\ durable' \in durable..Len(log')
        /\ \A j \in 1..Len(log) : log'[j] = log[j]
        /\ \A k \in 1..n : log'[Len(log) + k] = FrameOf(c, attempts[c] + 1, k)
    BY DocsType DEF CallEffect, Appends
  <2>3. attempts'[c] = attempts[c] + 1 /\ attempts[c] \in Nat
        /\ \A d \in Clients \ {c} : attempts'[d] = attempts[d] /\ status'[d] = status[d]
    BY DEF CallEffect, StoreType
  <2>4. CASE i <= Len(log)
    <3>1. i \in 1..Len(log) /\ log'[i] = log[i]
      BY <1>2, <2>2, <2>4
    <3>2. log[i].by # c
      BY <1>1, <1>3, <2>3, <3>1
    <3>3. i <= durable
      BY <1>1, <1>3, <2>3, <3>1, <3>2
    <3>. QED BY <1>2, <2>2, <3>3
  <2>5. CASE i > Len(log)
    <3>1. i - Len(log) \in 1..n /\ i = Len(log) + (i - Len(log))
      BY <1>2, <2>2, <2>5
    <3>2. log'[i].by = c
      <4>1. log'[i] = FrameOf(c, attempts[c] + 1, i - Len(log))
        BY <2>2, <3>1
      <4>. QED BY <4>1 DEF FrameOf
    <3>3. result = "ok"
      BY <1>1, <3>2 DEF CallEffect, StoreType
    <3>4. durable' = Len(log')
      BY <3>3 DEF CallEffect
    <3>. QED BY <1>2, <2>2, <3>4
  <2>. QED BY <1>2, <2>2, <2>4, <2>5
<1>5. CASE \E c \in Clients : CommitPending(c)
  <2>1. PICK c \in Clients : CommitPending(c)
    BY <1>5
  <2>2. log' = log /\ durable' \in durable..Len(log) /\ attempts' = attempts
    BY <2>1, CommitEffect
  <2>3. PICK d \in Clients : d = log[i].by
    BY <1>3, <2>2
  <2>4. CASE status[d] = "ok"
    BY <1>1, <1>2, <1>3, <2>2, <2>3, <2>4
  <2>5. CASE status[d] # "ok"
    <3>1. durable' = Len(log)
      BY <1>1, <2>1, <2>2, <2>3, <2>5, CommitEffect DEF StoreType
    <3>. QED BY <1>2, <2>2, <3>1
  <2>. QED BY <2>4, <2>5
<1>6. CASE Restart
  BY <1>2, <1>6 DEF Restart, Reopen, StoreType
<1>7. CASE UNCHANGED vars
  BY <1>1, <1>3, <1>7 DEF vars
<1>. QED BY <1>4, <1>5, <1>6, <1>7 DEF Next

(* Frame i is written at time i: as many frames as there are times.        *)
TimesFit == Len(log) <= MaxI64

LEMMA HitsFollow ==
    ASSUME StoreType, OkIsFlushed, TimesFit
    PROVE  HitsAreExact
<1>1. SUFFICES ASSUME NEW s \in Searches, NEW n \in Samples, NEW reply \in Replies(s.filter, n),
                      reply.result = "ok"
               PROVE  /\ \A i \in reply.hits :
                            i <= durable /\ \A c \in s.effective : MeetsClause(i, c)
                      /\ Cardinality(reply.hits) < n /\ Cardinality(reply.hits) < MaxSamples =>
                            \A i \in 1..Len(log) \ reply.hits :
                               status[log[i].by] = "ok" /\ log[i].attempt = attempts[log[i].by] =>
                                  \E c \in s.effective : ~MeetsClause(i, c)
  BY DEF HitsAreExact
<1>2. s.supported
  BY <1>1, RepliesAre, RequestsAre
<1>3. PICK request :
          /\ reply \in Hits(request)
          /\ \/ request = LexRequest(s.filter, n)
             \/ request = VecRequest(s.filter, n) /\ ~s.restricted
  BY <1>1, RepliesAre, RequestsAre
<1>4. \A key \in {"uri", "scope", "as_of_frame", "as_of_ts"} :
          request[key] = s.filter[key] /\ request.top_k = TopK(n)
  BY <1>2, <1>3, RequestHolds
<1>5. /\ n \in Nat /\ MaxSamples \in Nat /\ Len(log) \in Nat /\ durable \in 0..Len(log)
      /\ MaxI64 \in Int /\ Len(log) <= MaxI64
  BY StoreAssumption, SamplesAssumption, LenProperties, Widths DEF StoreType, TimesFit
<1>6. /\ reply.hits \subseteq Found(request)
      /\ reply.hits = Found(request) \/ Cardinality(reply.hits) = TopK(n)
  <2>1. request.top_k = TopK(n)
    BY <1>4
  <2>2. PICK some : /\ reply = [result |-> "ok", hits |-> some]
                    /\ some \in IF Cardinality(Found(request)) <= request.top_k THEN {Found(request)}
                                ELSE {t \in SUBSET Found(request) : Cardinality(t) = request.top_k}
    BY <1>3 DEF Hits
  <2>. QED BY <2>1, <2>2
<1>7. /\ \A c \in s.effective :
            /\ c.key \in Keys /\ c.value \in Values
            /\ s.filter[c.key] = Converted(c.key, c.value) /\ s.filter[c.key] # None
      /\ \A key \in Keys : s.filter[key] # None => \E c \in s.effective : c.key = key
  BY <1>2, SearchesDescribed DEF Described
<1>8. \A i, key, v : key \notin {"uri", "scope", "as_of_frame", "as_of_ts"} => Meets(i, key, v)
  BY DEF Meets
<1>9. \A i \in Found(request) :
          /\ i \in 1..durable
          /\ \A key \in Keys : request[key] # None => Meets(i, key, request[key])
  BY DEF Found
<1>10. ASSUME NEW i \in reply.hits, NEW c \in s.effective PROVE MeetsClause(i, c)
  <2>1. i \in Found(request) /\ i \in Nat
    BY <1>5, <1>6, <1>9
  <2>2. c.key \in Keys /\ c.value \in Values /\ Converted(c.key, c.value) # None
        /\ s.filter[c.key] = Converted(c.key, c.value)
    BY <1>7
  <2>3. Meets(i, c.key, Converted(c.key, c.value))
    <3>1. CASE c.key \in {"uri", "scope", "as_of_frame", "as_of_ts"}
      <4>1. request[c.key] = Converted(c.key, c.value)
        BY <1>4, <2>2, <3>1
      <4>. QED BY <1>9, <2>1, <2>2, <4>1
    <3>2. CASE c.key \notin {"uri", "scope", "as_of_frame", "as_of_ts"}
      BY <1>8, <3>2
    <3>. QED BY <3>1, <3>2
  <2>. QED BY <2>1, <2>2, <2>3, MeetsConverted
<1>11. ASSUME Cardinality(reply.hits) < n, Cardinality(reply.hits) < MaxSamples,
              NEW i \in 1..Len(log) \ reply.hits,
              status[log[i].by] = "ok", log[i].attempt = attempts[log[i].by]
       PROVE  \E c \in s.effective : ~MeetsClause(i, c)
  <2>1. reply.hits = Found(request)
    BY <1>5, <1>6, <1>11 DEF TopK
  <2>2. i <= durable /\ i \in Nat /\ i <= MaxI64 /\ i \in 1..durable
    BY <1>5, <1>11 DEF OkIsFlushed
  <2>3. PICK key \in Keys : request[key] # None /\ ~Meets(i, key, request[key])
    BY <1>11, <2>1, <2>2 DEF Found
  <2>4. key \in {"uri", "scope", "as_of_frame", "as_of_ts"}
    BY <1>8, <2>3
  <2>5. request[key] = s.filter[key]
    BY <1>4, <2>4
  <2>6. PICK c \in s.effective : c.key = key
    BY <1>7, <2>3, <2>5
  <2>7. c.key \in Keys /\ c.value \in Values /\ Converted(c.key, c.value) # None
        /\ request[key] = Converted(c.key, c.value)
    BY <1>7, <2>5, <2>6
  <2>8. ~MeetsClause(i, c)
    BY <2>2, <2>3, <2>6, <2>7, MeetsConverted
  <2>. QED BY <2>8
<1>. QED BY <1>5, <1>6, <1>9, <1>10, <1>11

(* As long as the times of the frames are i64: a search that is not        *)
(* refused finds only committed frames that meet the last clause of each   *)
(* key, and, unless the cap cuts it short, all that calls which returned   *)
(* Ok have written.                                                        *)
THEOREM SearchesAreExact == Spec => [](TimesFit => HitsAreExact)
<1>1. Init => StoreType /\ OkIsFlushed
  BY TypeInit, EmptySeq DEF Init, ArchiveInit, OkIsFlushed
<1>2. StoreType /\ OkIsFlushed /\ [Next]_vars => (StoreType /\ OkIsFlushed)'
  BY TypeStep, FlushedStep
<1>3. StoreType /\ OkIsFlushed => (TimesFit => HitsAreExact)
  BY HitsFollow
<1>. QED BY <1>1, <1>2, <1>3, PTL DEF Spec
==============================================================================
