-------------------------- MODULE PersistHookProofs --------------------------
(***************************************************************************)
(* Theorems about MemvidPersistHook, for every number of runs on clones of *)
(* one hook, every set of texts, cards, configurations and faults, and any *)
(* number of turns and restarts.                                           *)
(***************************************************************************)
EXTENDS PersistHook, ProofLemmas

USE DEF archive, Goto

------------------------------------------------------------------------------
(* What the archive holds, and what is known of one run.                   *)

CardEntry(i, e, c) == [cites |-> i, of |-> e, card |-> c]

Items == Entries \cup [cites : Nat, of : Entries, card : AllCards]

RunOK(r) ==
    /\ pc[r] \in InMethod \cup {"model"} => turn[r] > 0
    /\ pc[r] \in InMethod => next[r] \in 1..Len(texts[r]) + 1
    /\ pc[r] \in {"put", "card", "commit"} => next[r] <= Len(texts[r]) /\ texts[r][next[r]] \in Texts
    /\ pc[r] \in {"card", "commit"} => frame[r] > 0
    /\ pc[r] = "card" => cards[r] # <<>>

(* The inductive form of TypeOK.                                           *)
HookType ==
    /\ log \in Seq(Items)
    /\ \A i \in 1..Len(log) : log[i] \notin Entries => log[i].cites \in 1..i - 1
    /\ durable \in 0..Len(log)
    /\ poisoned \subseteq Locks
    /\ config \in Configs
    /\ halt \in BOOLEAN
    /\ pc \in [Runs -> InMethod \cup {"ready", "model", "ended"}]
    /\ turn \in [Runs -> 0..MaxTurns]
    /\ role \in [Runs -> {"user", "assistant"}]
    /\ texts \in [Runs -> Seq(Rendered)]
    /\ next \in [Runs -> Nat]
    /\ cards \in [Runs -> Seq(AllCards)]
    /\ frame \in [Runs -> 0..Len(log)]
    /\ latched \in [Runs -> BOOLEAN]
    /\ continued \subseteq Entries
    /\ \A r \in Runs : RunOK(r)

LEMMA CardsAreCards ==
    ASSUME NEW t \in Texts
    PROVE  CardsOf[t] \in Seq(AllCards) /\ ToSet(CardsOf[t]) \subseteq AllCards
<1>1. CardsOf[t] \in Seq(ToSet(CardsOf[t]))
  BY RenderedAssumption
<1>2. ToSet(CardsOf[t]) \subseteq AllCards
  BY DEF AllCards
<1>3. QED BY <1>1, <1>2, SeqMonotonic

LEMMA TypeImplies == HookType => TypeOK
<1> SUFFICES ASSUME HookType PROVE TypeOK
  OBVIOUS
<1>1. ASSUME NEW i \in 1..Len(log)
      PROVE  log[i] \in Entries \/ log[i] \in [cites : 1..i - 1, of : Entries, card : AllCards]
  <2>1. log[i] \in Items
    BY ElementOfSeq DEF HookType
  <2>2. QED BY <2>1 DEF HookType, Items
<1>2. ASSUME NEW r \in Runs PROVE ToSet(cards[r]) \subseteq AllCards
  <2>1. cards[r] \in Seq(AllCards)
    BY DEF HookType
  <2>2. DOMAIN cards[r] = 1..Len(cards[r]) /\ \A i \in 1..Len(cards[r]) : cards[r][i] \in AllCards
    BY <2>1, LenProperties, ElementOfSeq
  <2>3. QED BY <2>2 DEF ToSet
<1>3. ASSUME NEW r \in Runs
      PROVE  /\ pc[r] \in InMethod => next[r] \in 1..Len(texts[r]) + 1
             /\ pc[r] \in InMethod \ {"write"} =>
                    next[r] <= Len(texts[r]) /\ Current(r).text \in Texts
             /\ pc[r] = "card" => cards[r] # <<>> /\ frame[r] > 0
  BY DEF HookType, RunOK, InMethod, Current, Entry
<1>4. QED BY <1>1, <1>2, <1>3 DEF HookType, TypeOK

(* An entry made of a text at hand, and a card that cites it, are Items.   *)
LEMMA EntryType ==
    ASSUME HookType, NEW r \in Runs, pc[r] \in InMethod, NEW text \in Texts
    PROVE  Entry(r, text) \in Entries
BY TurnAssumption DEF HookType, RunOK, Entry, Entries

LEMMA CardType ==
    ASSUME HookType, NEW r \in Runs, pc[r] = "card"
    PROVE  /\ Current(r) \in Entries
           /\ frame[r] \in 1..Len(log)
           /\ Head(cards[r]) \in AllCards
           /\ Tail(cards[r]) \in Seq(AllCards)
           /\ \A c \in ToSet(cards[r]) : c = Head(cards[r]) \/ c \in ToSet(Tail(cards[r]))
           /\ Len(Tail(cards[r])) = Len(cards[r]) - 1
           /\ Card(r) = CardEntry(frame[r], Current(r), Head(cards[r]))
           /\ Card(r) \in Items
<1>1. Current(r) \in Entries
  BY EntryType DEF HookType, RunOK, InMethod, Current
<1>2. frame[r] \in 1..Len(log) /\ cards[r] \in Seq(AllCards) /\ cards[r] # <<>>
  BY DEF HookType, RunOK
<1>3. /\ Head(cards[r]) \in AllCards
      /\ Tail(cards[r]) \in Seq(AllCards)
      /\ Len(Tail(cards[r])) = Len(cards[r]) - 1
      /\ \A i \in 1..Len(Tail(cards[r])) : Tail(cards[r])[i] = cards[r][i + 1]
      /\ Head(cards[r]) = cards[r][1]
  BY <1>2, HeadTailProperties
<1>4. \A c \in ToSet(cards[r]) : c = Head(cards[r]) \/ c \in ToSet(Tail(cards[r]))
  <2>1. DOMAIN cards[r] = 1..Len(cards[r]) /\ DOMAIN Tail(cards[r]) = 1..Len(Tail(cards[r]))
        /\ Len(cards[r]) \in Nat
    BY <1>2, <1>3, LenProperties
  <2>2. ASSUME NEW i \in 1..Len(cards[r]), i # 1
        PROVE  cards[r][i] = Tail(cards[r])[i - 1] /\ i - 1 \in 1..Len(Tail(cards[r]))
    BY <1>3, <2>1, <2>2
  <2>3. SUFFICES ASSUME NEW i \in 1..Len(cards[r]), cards[r][i] # Head(cards[r])
                 PROVE  cards[r][i] \in ToSet(Tail(cards[r]))
    BY <2>1 DEF ToSet
  <2>4. i # 1
    BY <1>3, <2>3
  <2>5. QED BY <2>1, <2>2, <2>4 DEF ToSet
<1>5. Card(r) = CardEntry(frame[r], Current(r), Head(cards[r])) /\ Card(r) \in Items
  BY <1>1, <1>2, <1>3 DEF Card, CardEntry, Items, HookType
<1>6. QED BY <1>1, <1>2, <1>3, <1>4, <1>5

------------------------------------------------------------------------------
(* The archive only grows.                                                 *)
Grows ==
    /\ log' \in Seq(Items)
    /\ Len(log') \in Nat /\ Len(log) <= Len(log')
    /\ \A i \in 1..Len(log) : log'[i] = log[i]
    /\ durable' \in durable..Len(log')
    /\ poisoned' \subseteq Locks

LEMMA PutGrows ==
    ASSUME HookType, NEW e \in Items, NEW fault,
           PutSucceeds(e) \/ PutFails(fault) \/ PutPanics(e)
    PROVE  /\ Grows
           /\ PutSucceeds(e) => Len(log') = Len(log) + 1 /\ log'[Len(log) + 1] = e
           /\ \A i \in 1..Len(log') : i <= Len(log) \/ log'[i] = e
<1>1. log \in Seq(Items) /\ Len(log) \in Nat /\ durable \in 0..Len(log) /\ poisoned \subseteq Locks
  BY DEF HookType
<1>2. log' = log \/ log' = Append(log, e)
  BY DEF PutSucceeds, PutFails, PutPanics
<1>3. /\ Append(log, e) \in Seq(Items)
      /\ Len(Append(log, e)) = Len(log) + 1
      /\ \A i \in 1..Len(log) : Append(log, e)[i] = log[i]
      /\ Append(log, e)[Len(log) + 1] = e
  BY <1>1, AppendProperties
<1>4. durable' = durable /\ poisoned' \subseteq Locks
  BY <1>1 DEF PutSucceeds, PutFails, PutPanics, Locks
<1>5. Grows
  BY <1>1, <1>2, <1>3, <1>4 DEF Grows
<1>6. \A i \in 1..Len(log') : i <= Len(log) \/ log'[i] = e
  <2>1. CASE log' = log
    BY <1>1, <2>1
  <2>2. CASE log' = Append(log, e)
    BY <1>1, <1>3, <2>2
  <2>3. QED BY <1>2, <2>1, <2>2
<1>7. PutSucceeds(e) => Len(log') = Len(log) + 1 /\ log'[Len(log) + 1] = e
  BY <1>3 DEF PutSucceeds
<1>8. QED BY <1>5, <1>6, <1>7

LEMMA CommitGrows ==
    ASSUME HookType, CommitSucceeds \/ CommitFails \/ CommitPanics
    PROVE  Grows /\ log' = log
<1>1. log \in Seq(Items) /\ Len(log) \in Nat /\ durable \in 0..Len(log) /\ poisoned \subseteq Locks
  BY DEF HookType
<1>2. log' = log /\ durable' \in durable..Len(log) /\ poisoned' \subseteq Locks
  <2>1. CASE CommitSucceeds
    BY <1>1, <2>1 DEF CommitSucceeds
  <2>2. CASE CommitFails
    BY <1>1, <2>2 DEF CommitFails
  <2>3. CASE CommitPanics
    BY <1>1, <2>3 DEF CommitPanics, Locks
  <2>4. QED BY <2>1, <2>2, <2>3
<1>3. QED BY <1>1, <1>2 DEF Grows

(* What a step of run r does to what all runs share: it appends an entry   *)
(* or the card at hand, the halt flag does not fall, and the locals of the *)
(* other runs stay as they are.                                            *)
LEMMA ArchiveStep ==
    ASSUME HookType, NEW r \in Runs, Run(r)
    PROVE  /\ Grows
           /\ \A i \in 1..Len(log') :
                 \/ i <= Len(log)
                 \/ log'[i] \in Entries
                 \/ pc[r] = "card" /\ log'[i] = Card(r)
<1>1. CASE Put(r)
  <2>1. pc[r] = "put" /\ Current(r) \in Entries
    BY <1>1, EntryType DEF Put, HookType, RunOK, InMethod, Current
  <2>2. Current(r) \in Items
    BY <2>1 DEF Items
  <2>3. PutSucceeds(Current(r)) \/ PutFails("put") \/ PutPanics(Current(r))
    BY <1>1 DEF Put
  <2>4. QED BY <2>1, <2>2, <2>3, PutGrows
<1>2. CASE PutCard(r)
  <2>1. pc[r] = "card" /\ Card(r) \in Items
    BY <1>2, CardType DEF PutCard
  <2>2. PutSucceeds(Card(r)) \/ PutFails("card") \/ PutPanics(Card(r))
    BY <1>2 DEF PutCard
  <2>3. QED BY <2>1, <2>2, PutGrows
<1>3. CASE Commit(r)
  <2>1. CommitSucceeds \/ CommitFails \/ CommitPanics
    BY <1>3 DEF Commit
  <2>2. QED BY <2>1, CommitGrows DEF Grows
<1>4. CASE OnCompletionCall(r) \/ OnCompletionResponse(r) \/ Return(r) \/ BeginWrite(r)
  <2>1. log' = log /\ durable' = durable /\ poisoned' = poisoned
    BY <1>4 DEF OnCompletionCall, OnCompletionResponse, Return, BeginWrite
  <2>2. log \in Seq(Items) /\ Len(log) \in Nat /\ durable \in 0..Len(log)
        /\ poisoned \subseteq Locks
    BY DEF HookType
  <2>3. QED BY <2>1, <2>2 DEF Grows
<1>5. QED BY <1>1, <1>2, <1>3, <1>4 DEF Run, Method

LEMMA FailureRaises ==
    ASSUME HookType, HandleWriteFailure
    PROVE  /\ halt' \in BOOLEAN
           /\ halt => halt'
           /\ config.on_write_failure = "halt" => halt'
<1>1. config.on_write_failure \in {"warn", "halt", "custom"} /\ halt \in BOOLEAN
  BY ConfigAssumption DEF HookType
<1>2. halt' \in {halt, TRUE} /\ (config.on_write_failure = "halt" => halt' = TRUE)
  BY <1>1 DEF HandleWriteFailure
<1>3. CASE halt' = TRUE
  BY <1>3, Zenon
<1>4. CASE halt' = halt
  <2>1. config.on_write_failure # "halt" \/ halt' = TRUE
    BY <1>2
  <2>2. QED BY <1>1, <1>4, <2>1, Zenon
<1>5. QED BY <1>2, <1>3, <1>4, Zenon

LEMMA HaltStep ==
    ASSUME HookType, NEW r \in Runs, Run(r)
    PROVE  config' = config /\ halt' \in BOOLEAN /\ (halt => halt')
<1>1. halt \in BOOLEAN
  BY DEF HookType
<1>2. (UNCHANGED halt \/ HandleWriteFailure) /\ config' = config
  <2>1. CASE OnCompletionCall(r) \/ OnCompletionResponse(r) \/ Return(r) \/ BeginWrite(r)
    BY <2>1 DEF OnCompletionCall, OnCompletionResponse, Return, BeginWrite
  <2>2. CASE Put(r)
    BY <2>2 DEF Put
  <2>3. CASE PutCard(r)
    BY <2>3 DEF PutCard
  <2>4. CASE Commit(r)
    BY <2>4 DEF Commit
  <2>5. QED BY <2>1, <2>2, <2>3, <2>4 DEF Run, Method
<1>3. QED BY <1>1, <1>2, FailureRaises

OnlyOf(r) ==
    \A s \in Runs \ {r} :
        /\ pc'[s] = pc[s] /\ turn'[s] = turn[s] /\ role'[s] = role[s] /\ texts'[s] = texts[s]
        /\ next'[s] = next[s] /\ frame'[s] = frame[s] /\ cards'[s] = cards[s]
        /\ latched'[s] = latched[s]

LEMMA LocalStep ==
    ASSUME HookType, NEW r \in Runs, Run(r)
    PROVE  OnlyOf(r)
<1>1. CASE OnCompletionCall(r)
  BY <1>1 DEF OnCompletionCall, Enter, OnlyOf, HookType
<1>2. CASE OnCompletionResponse(r)
  BY <1>2 DEF OnCompletionResponse, Enter, OnlyOf, HookType
<1>3. CASE Return(r) \/ BeginWrite(r)
  BY <1>3 DEF Return, BeginWrite, OnlyOf, HookType
<1>4. CASE Put(r)
  BY <1>4 DEF Put, Proceed, EndWrite, OnlyOf, HookType
<1>5. CASE PutCard(r) \/ Commit(r)
  BY <1>5 DEF PutCard, Commit, Proceed, EndWrite, OnlyOf, HookType
<1>6. QED BY <1>1, <1>2, <1>3, <1>4, <1>5 DEF Run, Method

------------------------------------------------------------------------------
(* Type correctness.                                                       *)

(* Only the configuration that commits goes on to commit.                  *)
ProceedOK(r) ==
    /\ pc' \in [Runs -> InMethod \cup {"ready", "model", "ended"}]
    /\ next' \in [Runs -> Nat]
    /\ cards' \in [Runs -> Seq(AllCards)]
    /\ \/ pc'[r] = "card" /\ cards'[r] # <<>> /\ next'[r] = next[r]
       \/ pc'[r] = "commit" /\ cards'[r] = <<>> /\ next'[r] = next[r] /\ config.commit_each_turn
       \/ pc'[r] = "write" /\ cards'[r] = <<>> /\ next'[r] = next[r] + 1 /\ ~config.commit_each_turn

LEMMA ProceedType ==
    ASSUME HookType, NEW r \in Runs, NEW rest \in Seq(AllCards), Proceed(r, rest)
    PROVE  ProceedOK(r) /\ cards'[r] = rest
<1>1. config.commit_each_turn \in BOOLEAN
  BY ConfigAssumption DEF HookType
<1>2. cards' \in [Runs -> Seq(AllCards)] /\ cards'[r] = rest
  BY DEF Proceed, HookType
<1>3. CASE rest # <<>>
  BY <1>2, <1>3 DEF Proceed, ProceedOK, HookType, InMethod
<1>4. CASE rest = <<>> /\ config.commit_each_turn
  BY <1>2, <1>4 DEF Proceed, ProceedOK, HookType, InMethod
<1>5. CASE rest = <<>> /\ ~config.commit_each_turn
  <2>1. next' = [next EXCEPT ![r] = next[r] + 1] /\ pc' = [pc EXCEPT ![r] = "write"]
    BY <1>5 DEF Proceed, EndWrite
  <2>2. next' \in [Runs -> Nat] /\ next'[r] = next[r] + 1
    BY <2>1 DEF HookType
  <2>3. pc' \in [Runs -> InMethod \cup {"ready", "model", "ended"}] /\ pc'[r] = "write"
    BY <2>1 DEF HookType, InMethod
  <2>4. QED BY <1>2, <1>5, <2>2, <2>3 DEF ProceedOK
<1>6. QED BY <1>1, <1>3, <1>4, <1>5

LEMMA TypeInit == Init => HookType
<1> SUFFICES ASSUME Init PROVE HookType
  OBVIOUS
<1>1. <<>> \in Seq(Rendered) /\ <<>> \in Seq(AllCards) /\ <<>> \in Seq(Items) /\ Len(log) = 0
  BY EmptySeq DEF Init, ArchiveInit
<1>2. \A r \in Runs : RunOK(r)
  BY DEF Init, RunOK, InMethod
<1>3. /\ log = <<>> /\ durable = 0 /\ poisoned = {} /\ config \in Configs /\ halt = FALSE
      /\ continued = {}
  BY DEF Init, ArchiveInit
<1>4. /\ pc \in [Runs -> InMethod \cup {"ready", "model", "ended"}]
      /\ turn \in [Runs -> 0..MaxTurns]
      /\ role \in [Runs -> {"user", "assistant"}]
      /\ texts \in [Runs -> Seq(Rendered)]
      /\ next \in [Runs -> Nat]
      /\ cards \in [Runs -> Seq(AllCards)]
      /\ frame \in [Runs -> 0..Len(log)]
      /\ latched \in [Runs -> BOOLEAN]
  BY <1>1, TurnAssumption DEF Init
<1>5. /\ durable \in 0..Len(log)
      /\ \A i \in 1..Len(log) : log[i] \notin Entries => log[i].cites \in 1..i - 1
  BY <1>1, <1>3
<1>6. log \in Seq(Items) /\ poisoned \subseteq Locks /\ halt \in BOOLEAN /\ continued \subseteq Entries
  BY <1>1, <1>3
<1>7. QED BY <1>2, <1>3, <1>4, <1>5, <1>6 DEF HookType

(* The part of HookType about the locals of the runs.                      *)
LocalsOK ==
    /\ pc \in [Runs -> InMethod \cup {"ready", "model", "ended"}]
    /\ turn \in [Runs -> 0..MaxTurns]
    /\ role \in [Runs -> {"user", "assistant"}]
    /\ texts \in [Runs -> Seq(Rendered)]
    /\ next \in [Runs -> Nat]
    /\ cards \in [Runs -> Seq(AllCards)]
    /\ frame \in [Runs -> 0..Len(log)]
    /\ latched \in [Runs -> BOOLEAN]
    /\ continued \subseteq Entries

LEMMA EnterStep ==
    ASSUME HookType, NEW r \in Runs, OnCompletionCall(r) \/ OnCompletionResponse(r)
    PROVE  LocalsOK' /\ RunOK(r)'
<1>1. log' = log /\ frame' = frame /\ cards' = cards /\ continued' = continued
  BY DEF OnCompletionCall, OnCompletionResponse, Enter
<1>2. PICK rl \in {"user", "assistant"}, ts \in Seq(Rendered) : Enter(r, rl, ts)
  <2>1. \A p \in Prompts : <<p>> \in Seq(Rendered)
    BY RenderedAssumption
  <2>2. <<>> \in Seq(Rendered) /\ Responses \subseteq Seq(Rendered)
    BY RenderedAssumption, EmptySeq
  <2>3. QED BY <2>1, <2>2 DEF OnCompletionCall, OnCompletionResponse
<1>3. /\ role' \in [Runs -> {"user", "assistant"}]
      /\ texts' \in [Runs -> Seq(Rendered)] /\ texts'[r] = ts
      /\ next' \in [Runs -> Nat] /\ next'[r] = 1
      /\ latched' \in [Runs -> BOOLEAN]
      /\ Len(ts) \in Nat
  BY <1>2, LenProperties DEF Enter, HookType
<1>4. CASE OnCompletionCall(r)
  <2>1. /\ turn' \in [Runs -> 0..MaxTurns] /\ turn'[r] > 0
        /\ pc' \in [Runs -> InMethod \cup {"ready", "model", "ended"}] /\ pc'[r] = "write"
    BY <1>4, TurnAssumption DEF OnCompletionCall, HookType, InMethod
  <2>2. QED BY <1>1, <1>3, <2>1 DEF HookType, LocalsOK, RunOK, InMethod
<1>5. CASE OnCompletionResponse(r)
  <2>1. /\ turn' = turn /\ turn[r] > 0
        /\ pc' \in [Runs -> InMethod \cup {"ready", "model", "ended"}]
        /\ pc'[r] \in {"write", "ready"}
    BY <1>5 DEF OnCompletionResponse, HookType, RunOK, InMethod
  <2>2. QED BY <1>1, <1>3, <2>1 DEF HookType, LocalsOK, RunOK, InMethod
<1>6. QED BY <1>4, <1>5

LEMMA ReturnStep ==
    ASSUME HookType, NEW r \in Runs, Return(r)
    PROVE  LocalsOK' /\ RunOK(r)'
<1>1. /\ pc[r] = "write" /\ turn[r] > 0
      /\ UNCHANGED <<log, turn, role, texts, next, frame, cards, latched>>
  BY DEF Return, HookType, RunOK, InMethod
<1>2. pc' \in [Runs -> InMethod \cup {"ready", "model", "ended"}]
      /\ pc'[r] \in {"ended", "model", "ready"}
  BY DEF Return, HookType
<1>3. continued' \subseteq Entries
  <2>1. \A i \in 1..Len(texts[r]) : texts[r][i] \in Texts => Entry(r, texts[r][i]) \in Entries
    BY <1>1, EntryType DEF InMethod
  <2>2. QED BY <2>1 DEF Return, HookType
<1>4. QED BY <1>1, <1>2, <1>3 DEF HookType, LocalsOK, RunOK, InMethod

LEMMA BeginWriteStep ==
    ASSUME HookType, NEW r \in Runs, BeginWrite(r)
    PROVE  LocalsOK' /\ RunOK(r)'
<1>1. /\ pc[r] = "write" /\ turn[r] > 0 /\ next[r] \in 1..Len(texts[r])
      /\ Len(texts[r]) \in Nat
      /\ UNCHANGED <<log, turn, role, texts, frame, cards, latched, continued>>
  BY LenProperties DEF BeginWrite, HookType, RunOK, InMethod
<1>2. CASE next' = [next EXCEPT ![r] = next[r] + 1] /\ UNCHANGED pc
  <2>1. next' \in [Runs -> Nat] /\ next'[r] = next[r] + 1
    BY <1>2 DEF HookType
  <2>2. QED BY <1>1, <1>2, <2>1 DEF HookType, LocalsOK, RunOK, InMethod
<1>3. CASE texts[r][next[r]] \in Texts /\ Goto(r, "put") /\ UNCHANGED next
  <2>1. pc' \in [Runs -> InMethod \cup {"ready", "model", "ended"}] /\ pc'[r] = "put"
    BY <1>3 DEF HookType, InMethod
  <2>2. QED BY <1>1, <1>3, <2>1 DEF HookType, LocalsOK, RunOK, InMethod
<1>4. QED BY <1>2, <1>3 DEF BeginWrite

(* The end of a write, and a panic, leave the rest of the locals alone.    *)
LEMMA EndWriteStep ==
    ASSUME HookType, NEW r \in Runs, pc[r] \in {"put", "card", "commit"}, Grows,
           EndWrite(r) \/ (Goto(r, "ended") /\ UNCHANGED next),
           UNCHANGED <<turn, role, texts, frame, cards, latched, continued>>
    PROVE  LocalsOK' /\ RunOK(r)'
<1>1. /\ turn[r] > 0 /\ next[r] \in 1..Len(texts[r]) /\ Len(texts[r]) \in Nat
      /\ Len(log) \in Nat
  BY LenProperties DEF HookType, RunOK, InMethod
<1>2. frame' \in [Runs -> 0..Len(log')]
  BY <1>1 DEF HookType, Grows
<1>3. CASE EndWrite(r)
  <2>1. next' = [next EXCEPT ![r] = next[r] + 1] /\ pc' = [pc EXCEPT ![r] = "write"]
    BY <1>3 DEF EndWrite
  <2>2. next' \in [Runs -> Nat] /\ next'[r] = next[r] + 1
    BY <2>1 DEF HookType
  <2>3. pc' \in [Runs -> InMethod \cup {"ready", "model", "ended"}] /\ pc'[r] = "write"
    BY <2>1 DEF HookType, InMethod
  <2>4. QED BY <1>1, <1>2, <2>2, <2>3 DEF HookType, LocalsOK, RunOK, InMethod
<1>4. CASE Goto(r, "ended") /\ UNCHANGED next
  <2>1. pc' \in [Runs -> InMethod \cup {"ready", "model", "ended"}] /\ pc'[r] = "ended"
    BY <1>4 DEF HookType
  <2>2. QED BY <1>2, <1>4, <2>1 DEF HookType, LocalsOK, RunOK, InMethod
<1>5. QED BY <1>3, <1>4

(* A put, of the text or of a card, that was followed by Proceed.          *)
LEMMA ProceedStep ==
    ASSUME HookType, NEW r \in Runs, pc[r] \in {"put", "card", "commit"}, Grows,
           NEW rest \in Seq(AllCards), Proceed(r, rest),
           frame' \in [Runs -> 0..Len(log')], frame'[r] > 0,
           UNCHANGED <<turn, role, texts, latched, continued>>
    PROVE  LocalsOK' /\ RunOK(r)'
<1>1. turn[r] > 0 /\ next[r] \in 1..Len(texts[r]) /\ Len(texts[r]) \in Nat
      /\ texts[r][next[r]] \in Texts
  BY LenProperties DEF HookType, RunOK, InMethod
<1>2. ProceedOK(r)
  BY ProceedType
<1>3. LocalsOK'
  BY <1>2 DEF HookType, LocalsOK, ProceedOK
<1>4. RunOK(r)'
  BY <1>1, <1>2 DEF ProceedOK, RunOK, InMethod
<1>5. QED BY <1>3, <1>4

LEMMA PutStep ==
    ASSUME HookType, NEW r \in Runs, Put(r)
    PROVE  LocalsOK' /\ RunOK(r)'
<1>1. /\ pc[r] = "put" /\ Grows
      /\ texts[r][next[r]] \in Texts /\ UNCHANGED <<turn, role, texts, latched, continued>>
  BY ArchiveStep DEF Put, Run, Method, HookType, RunOK
<1>2. CASE /\ PutSucceeds(Current(r))
           /\ frame' = [frame EXCEPT ![r] = Len(log')]
           /\ Proceed(r, IF role[r] = "user" THEN CardsOf[texts[r][next[r]]] ELSE <<>>)
  <2>1. (IF role[r] = "user" THEN CardsOf[texts[r][next[r]]] ELSE <<>>) \in Seq(AllCards)
    BY <1>1, CardsAreCards, EmptySeq
  <2>2. Current(r) \in Items
    BY <1>1, EntryType DEF InMethod, Current, Items
  <2>3. Len(log') = Len(log) + 1 /\ Len(log) \in Nat
    <3>1. log \in Seq(Items) /\ log' = Append(log, Current(r))
      BY <1>2 DEF HookType, PutSucceeds
    <3>2. QED BY <2>2, <3>1, LenProperties, AppendProperties
  <2>4. frame' \in [Runs -> 0..Len(log')] /\ frame'[r] > 0
    BY <1>2, <2>3 DEF HookType
  <2>5. QED BY <1>1, <1>2, <2>1, <2>4, ProceedStep
<1>3. CASE EndWrite(r) /\ UNCHANGED <<frame, cards>>
  BY <1>1, <1>3, EndWriteStep
<1>4. CASE Goto(r, "ended") /\ UNCHANGED <<next, frame, cards>>
  BY <1>1, <1>4, EndWriteStep
<1>5. QED BY <1>2, <1>3, <1>4 DEF Put

LEMMA PutCardStep ==
    ASSUME HookType, NEW r \in Runs, PutCard(r)
    PROVE  LocalsOK' /\ RunOK(r)'
<1>1. /\ pc[r] = "card" /\ Grows /\ frame[r] > 0
      /\ UNCHANGED <<turn, role, texts, frame, latched, continued>>
  BY ArchiveStep DEF PutCard, Run, Method, HookType, RunOK
<1>2. CASE Proceed(r, Tail(cards[r]))
  <2>1. Tail(cards[r]) \in Seq(AllCards)
    BY <1>1, CardType
  <2>2. frame' \in [Runs -> 0..Len(log')]
    BY <1>1, LenProperties DEF HookType, Grows
  <2>3. QED BY <1>1, <1>2, <2>1, <2>2, ProceedStep
<1>3. CASE Goto(r, "ended") /\ UNCHANGED <<next, cards>>
  BY <1>1, <1>3, EndWriteStep
<1>4. QED BY <1>2, <1>3 DEF PutCard

LEMMA CommitStep ==
    ASSUME HookType, NEW r \in Runs, Commit(r)
    PROVE  LocalsOK' /\ RunOK(r)'
<1>1. /\ pc[r] = "commit" /\ Grows
      /\ EndWrite(r) \/ (Goto(r, "ended") /\ UNCHANGED next)
      /\ UNCHANGED <<turn, role, texts, frame, cards, latched, continued>>
  BY ArchiveStep DEF Commit, Run, Method
<1>2. QED BY <1>1, EndWriteStep

LEMMA TypeStep ==
    ASSUME HookType, NEW r \in Runs, Run(r)
    PROVE  HookType'
<1>1. LocalsOK' /\ RunOK(r)'
  BY EnterStep, ReturnStep, BeginWriteStep, PutStep, PutCardStep, CommitStep DEF Run, Method
<1>2. ASSUME NEW s \in Runs, s # r PROVE RunOK(s)'
  <2>1. RunOK(s)
    BY DEF HookType
  <2>2. /\ pc'[s] = pc[s] /\ turn'[s] = turn[s] /\ texts'[s] = texts[s] /\ next'[s] = next[s]
        /\ frame'[s] = frame[s] /\ cards'[s] = cards[s]
    BY <1>2, LocalStep DEF OnlyOf
  <2>3. QED BY <2>1, <2>2 DEF RunOK
<1>3. Grows
  BY ArchiveStep
<1>4. ASSUME NEW i \in 1..Len(log'), log'[i] \notin Entries
      PROVE  log'[i].cites \in 1..i - 1
  <2>1. Len(log) \in Nat /\ Len(log') \in Nat /\ Len(log) <= Len(log')
    BY <1>3 DEF HookType, Grows
  <2>2. CASE i <= Len(log)
    <3>1. i \in 1..Len(log) /\ log'[i] = log[i]
      BY <1>3, <2>1, <2>2 DEF Grows
    <3>2. QED BY <1>4, <3>1 DEF HookType
  <2>3. CASE i > Len(log)
    <3>1. pc[r] = "card" /\ log'[i] = Card(r)
      BY <1>4, <2>1, <2>3, ArchiveStep
    <3>2. frame[r] \in 1..Len(log)
      BY <3>1, CardType
    <3>3. QED BY <2>1, <2>3, <3>1, <3>2 DEF Card
  <2>4. QED BY <2>1, <2>2, <2>3
<1>5. config' \in Configs /\ halt' \in BOOLEAN
  BY HaltStep DEF HookType
<1>6. log' \in Seq(Items) /\ durable' \in 0..Len(log') /\ poisoned' \subseteq Locks
  BY <1>3 DEF HookType, Grows
<1>7. \A s \in Runs : RunOK(s)'
  BY <1>1, <1>2
<1>8. QED BY <1>1, <1>4, <1>5, <1>6, <1>7 DEF HookType, LocalsOK

(* A restart leaves the beginning of the archive, no less than what was on *)
(* disk, and every run where a new one starts.                             *)
LEMMA RestartLeaves ==
    ASSUME HookType, Restart
    PROVE  /\ log' \in Seq(Items) /\ durable' = Len(log') /\ Len(log') \in durable..Len(log)
           /\ \A i \in 1..Len(log') : log'[i] = log[i]
           /\ \A r \in Runs : pc'[r] = "ready" /\ latched'[r] = FALSE
<1>1. PICK kept \in durable..Len(log) : log' = SubSeq(log, 1, kept) /\ durable' = kept
  BY DEF Restart, Reopen
<1>2. log \in Seq(Items) /\ kept \in 0..Len(log)
  BY LenProperties DEF HookType
<1>3. QED BY <1>1, <1>2, TakeProperties DEF Restart

LEMMA RestartType ==
    ASSUME HookType, Restart
    PROVE  HookType'
<1>1. /\ log' \in Seq(Items) /\ durable' \in 0..Len(log') /\ poisoned' \subseteq Locks
      /\ Len(log) \in Nat /\ Len(log') \in 0..Len(log)
      /\ \A i \in 1..Len(log') : log'[i] = log[i]
  BY RestartLeaves, LenProperties DEF HookType, Restart, Reopen
<1>2. ASSUME NEW i \in 1..Len(log'), log'[i] \notin Entries
      PROVE  log'[i].cites \in 1..i - 1
  <2>1. i \in 1..Len(log) /\ log'[i] = log[i]
    BY <1>1
  <2>2. QED BY <1>2, <2>1 DEF HookType
<1>3. <<>> \in Seq(Rendered) /\ <<>> \in Seq(AllCards)
  BY EmptySeq
<1>4. LocalsOK'
  BY <1>1, <1>3 DEF Restart, HookType, LocalsOK
<1>5. \A r \in Runs : RunOK(r)'
  BY RestartLeaves DEF RunOK, InMethod
<1>6. config' \in Configs /\ halt' \in BOOLEAN
  BY DEF Restart, HookType
<1>7. QED BY <1>1, <1>2, <1>4, <1>5, <1>6 DEF HookType, LocalsOK

LEMMA HookTypeHolds == Spec => []HookType
<1>1. ASSUME HookType, [Next]_vars PROVE HookType'
  <2>1. CASE \E r \in Runs : Run(r)
    BY <1>1, <2>1, TypeStep
  <2>2. CASE Restart
    BY <1>1, <2>2, RestartType
  <2>3. CASE UNCHANGED vars
    BY <1>1, <2>3 DEF vars, local, HookType, RunOK
  <2>4. QED BY <1>1, <2>1, <2>2, <2>3 DEF Next
<1>2. QED BY <1>1, TypeInit, PTL DEF Spec

(* Every reachable state is well-formed: a run inside write has a text to  *)
(* write, and a card under way an entry of the archive to cite.            *)
THEOREM TypeCorrect == Spec => []TypeOK
BY HookTypeHolds, TypeImplies, PTL

------------------------------------------------------------------------------
(* Cards cite their frames.                                                *)

(* While the cards of a text are inserted, frame[r] is where the text is,  *)
(* wherever other runs append in between.                                  *)
AtFrame(r) == pc[r] \in {"card", "commit"} => log[frame[r]] = Current(r)

CitesInv == HookType /\ CardCitesItsFrame /\ \A r \in Runs : AtFrame(r)

LEMMA AtFrameStable ==
    ASSUME HookType, NEW r \in Runs, AtFrame(r), Grows,
           pc'[r] \in {"card", "commit"} => pc[r] \in {"card", "commit"},
           turn'[r] = turn[r], role'[r] = role[r], texts'[r] = texts[r],
           pc'[r] \in {"card", "commit"} => next'[r] = next[r],
           frame'[r] = frame[r]
    PROVE  AtFrame(r)'
<1> SUFFICES ASSUME pc'[r] \in {"card", "commit"} PROVE log'[frame'[r]] = Current(r)'
  BY DEF AtFrame
<1>1. frame[r] \in 1..Len(log) /\ log[frame[r]] = Current(r)
  BY DEF AtFrame, HookType, RunOK
<1>2. Current(r)' = Current(r)
  BY DEF Current, Entry
<1>3. QED BY <1>1, <1>2 DEF Grows

(* A successful put leaves the entry where frame[r] points.                *)
LEMMA PutPlaces ==
    ASSUME HookType, NEW r \in Runs, Put(r), PutSucceeds(Current(r))
    PROVE  Len(log') = Len(log) + 1 /\ log'[Len(log')] = Current(r) /\ Len(log) \in Nat
<1>1. Current(r) \in Items
  BY EntryType DEF Put, HookType, RunOK, InMethod, Current, Items
<1>2. log \in Seq(Items) /\ log' = Append(log, Current(r)) /\ Len(log) \in Nat
  BY DEF HookType, PutSucceeds
<1>3. QED BY <1>1, <1>2, AppendProperties

LEMMA AtFrameStep ==
    ASSUME CitesInv, NEW r \in Runs, Run(r)
    PROVE  \A s \in Runs : AtFrame(s)'
<1>1. HookType /\ Grows /\ OnlyOf(r) /\ \A s \in Runs : AtFrame(s)
  BY ArchiveStep, LocalStep DEF CitesInv
<1>2. ASSUME NEW s \in Runs, s # r PROVE AtFrame(s)'
  BY <1>1, <1>2, AtFrameStable DEF OnlyOf
<1>3. CASE pc'[r] \notin {"card", "commit"}
  BY <1>2, <1>3 DEF AtFrame
<1>4. CASE pc'[r] \in {"card", "commit"}
  <2>1. CASE Put(r)
    <3>1. pc[r] = "put" /\ UNCHANGED <<turn, role, texts>>
      BY <2>1 DEF Put
    <3>2. PutSucceeds(Current(r)) /\ frame'[r] = Len(log')
          /\ Proceed(r, IF role[r] = "user" THEN CardsOf[texts[r][next[r]]] ELSE <<>>)
      BY <1>1, <1>4, <2>1 DEF Put, EndWrite, HookType
    <3>3. next'[r] = next[r]
      <4>1. (IF role[r] = "user" THEN CardsOf[texts[r][next[r]]] ELSE <<>>) \in Seq(AllCards)
        BY <1>1, <3>1, CardsAreCards, EmptySeq DEF HookType, RunOK
      <4>2. QED BY <1>1, <1>4, <3>2, <4>1, ProceedType DEF ProceedOK
    <3>4. Current(r)' = Current(r) /\ log'[frame'[r]] = Current(r)
      BY <1>1, <2>1, <3>1, <3>2, <3>3, PutPlaces DEF Current, Entry
    <3>5. AtFrame(r)'
      BY <3>4 DEF AtFrame
    <3>6. QED BY <1>2, <3>5
  <2>2. CASE PutCard(r)
    <3>1. pc[r] = "card" /\ UNCHANGED <<turn, role, texts, frame>>
      BY <2>2 DEF PutCard
    <3>2. Proceed(r, Tail(cards[r])) /\ Tail(cards[r]) \in Seq(AllCards)
      BY <1>1, <1>4, <2>2, <3>1, CardType DEF PutCard, HookType
    <3>3. next'[r] = next[r]
      BY <1>1, <1>4, <3>2, ProceedType DEF ProceedOK
    <3>4. AtFrame(r)'
      BY <1>1, <3>1, <3>3, AtFrameStable
    <3>5. QED BY <1>2, <3>4
  <2>3. ~Commit(r)
    BY <1>1, <1>4 DEF Commit, EndWrite, HookType
  <2>4. ~OnCompletionCall(r) /\ ~OnCompletionResponse(r)
    BY <1>1, <1>4 DEF OnCompletionCall, OnCompletionResponse, HookType
  <2>5. ~Return(r) /\ ~BeginWrite(r)
    BY <1>1, <1>4 DEF Return, BeginWrite, HookType
  <2>6. QED BY <2>1, <2>2, <2>3, <2>4, <2>5 DEF Run, Method
<1>5. QED BY <1>3, <1>4

LEMMA CitesStep ==
    ASSUME CitesInv, NEW r \in Runs, Run(r)
    PROVE  CitesInv'
<1>1. HookType /\ Grows /\ HookType'
  BY ArchiveStep, TypeStep DEF CitesInv
<1>2. \A s \in Runs : AtFrame(s)'
  BY AtFrameStep
<1>3. ASSUME NEW i \in 1..Len(log'), log'[i] \notin Entries
      PROVE  log'[i].cites < i /\ log'[log'[i].cites] = log'[i].of
  <2>1. Len(log) \in Nat /\ Len(log') \in Nat
    BY <1>1 DEF HookType, Grows
  <2>2. CASE i <= Len(log)
    <3>1. i \in 1..Len(log) /\ log'[i] = log[i]
      BY <1>1, <2>1, <2>2 DEF Grows
    <3>2. log[i].cites \in 1..i - 1 /\ log[log[i].cites] = log[i].of
      BY <1>3, <3>1 DEF CitesInv, HookType, CardCitesItsFrame
    <3>3. log'[log[i].cites] = log[log[i].cites] /\ log[i].cites < i
      BY <1>1, <2>1, <3>1, <3>2 DEF Grows
    <3>4. QED BY <3>1, <3>2, <3>3
  <2>3. CASE i > Len(log)
    <3>1. pc[r] = "card" /\ log'[i] = Card(r)
      BY <1>1, <1>3, <2>1, <2>3, ArchiveStep
    <3>2. frame[r] \in 1..Len(log) /\ log[frame[r]] = Current(r)
          /\ Card(r) = CardEntry(frame[r], Current(r), Head(cards[r]))
      BY <1>1, <3>1, CardType DEF CitesInv, AtFrame
    <3>3. log'[i].cites = frame[r] /\ log'[i].of = Current(r)
      BY <3>1, <3>2 DEF CardEntry
    <3>4. log'[frame[r]] = Current(r)
      BY <1>1, <3>2 DEF Grows
    <3>5. QED BY <2>1, <2>3, <3>2, <3>3, <3>4
  <2>4. QED BY <2>1, <2>2, <2>3
<1>4. CardCitesItsFrame'
  BY <1>3 DEF CardCitesItsFrame
<1>5. QED BY <1>1, <1>2, <1>4 DEF CitesInv

LEMMA CitesInit == Init => CitesInv
<1> SUFFICES ASSUME Init PROVE CitesInv
  OBVIOUS
<1>1. HookType /\ log = <<>> /\ Len(log) = 0 /\ pc = [r \in Runs |-> "ready"]
  BY TypeInit DEF Init, ArchiveInit
<1>2. CardCitesItsFrame
  BY <1>1 DEF CardCitesItsFrame
<1>3. QED BY <1>1, <1>2 DEF CitesInv, AtFrame

(* What is left of the archive has the frames its cards cite.              *)
LEMMA CitesRestart ==
    ASSUME CitesInv, Restart
    PROVE  CitesInv'
<1>1. HookType /\ HookType'
  BY RestartType DEF CitesInv
<1>2. /\ Len(log) \in Nat /\ Len(log') \in 0..Len(log)
      /\ \A i \in 1..Len(log') : log'[i] = log[i]
  <2>1. Len(log) \in Nat /\ durable \in 0..Len(log)
    BY <1>1, LenProperties DEF HookType
  <2>2. Len(log') \in durable..Len(log) /\ \A i \in 1..Len(log') : log'[i] = log[i]
    BY <1>1, RestartLeaves
  <2>3. QED BY <2>1, <2>2
<1>3. ASSUME NEW i \in 1..Len(log'), log'[i] \notin Entries
      PROVE  log'[i].cites < i /\ log'[log'[i].cites] = log'[i].of
  <2>1. log'[i] = log[i] /\ log[i].cites \in 1..i - 1 /\ log[log[i].cites] = log[i].of
    BY <1>1, <1>2, <1>3 DEF CitesInv, HookType, CardCitesItsFrame
  <2>2. QED BY <1>2, <2>1
<1>4. \A r \in Runs : AtFrame(r)'
  BY <1>1, RestartLeaves DEF AtFrame
<1>5. QED BY <1>1, <1>3, <1>4 DEF CitesInv, CardCitesItsFrame

LEMMA CitesHold == Spec => []CitesInv
<1>1. ASSUME CitesInv, [Next]_vars PROVE CitesInv'
  <2>1. CASE \E r \in Runs : Run(r)
    BY <1>1, <2>1, CitesStep
  <2>2. CASE Restart
    BY <1>1, <2>2, CitesRestart
  <2>3. CASE UNCHANGED vars
    BY <1>1, <2>3 DEF vars, local, CitesInv, HookType, RunOK, CardCitesItsFrame, AtFrame, Current,
                      Entry
  <2>4. QED BY <1>1, <2>1, <2>2, <2>3 DEF Next
<1>2. QED BY <1>1, CitesInit, PTL DEF Spec

(* A card cites the frame its text is in, however many runs append to the  *)
(* same archive while the cards of one text are inserted, and whatever a   *)
(* restart leaves of it.                                                   *)
THEOREM CardsCiteTheirFrames == Spec => []CardCitesItsFrame
<1>1. CitesInv => CardCitesItsFrame
  BY DEF CitesInv
<1>2. QED BY <1>1, CitesHold, PTL

------------------------------------------------------------------------------
(* The halt flag.                                                          *)

(* The flag does not fall while the hook lives, so a run that saw it when it entered a method   *)
(* sees it when the method returns.                                        *)
HaltInv ==
    /\ HookType
    /\ \A r \in Runs :
          latched[r] => halt /\ (config.persist_assistant => pc[r] \notin {"ready", "model"})

(* What a run saw, and what it can see from then on.                       *)
LEMMA HaltInvStep ==
    ASSUME HaltInv, NEW r \in Runs, Run(r)
    PROVE  HaltInv'
<1>1. HookType /\ HookType' /\ OnlyOf(r) /\ config' = config /\ (halt => halt')
  BY TypeStep, LocalStep, HaltStep DEF HaltInv
<1>2. ASSUME NEW s \in Runs, s # r, latched'[s]
      PROVE  halt' /\ (config'.persist_assistant => pc'[s] \notin {"ready", "model"})
  <2>1. pc'[s] = pc[s] /\ latched[s]
    BY <1>1, <1>2 DEF OnlyOf
  <2>2. QED BY <1>1, <2>1 DEF HaltInv
<1>3. ASSUME latched'[r]
      PROVE  halt' /\ (config'.persist_assistant => pc'[r] \notin {"ready", "model"})
  <2>1. CASE OnCompletionCall(r)
    BY <1>1, <1>3, <2>1 DEF OnCompletionCall, Enter, HookType
  <2>2. CASE OnCompletionResponse(r)
    BY <1>1, <1>3, <2>2 DEF OnCompletionResponse, Enter, HookType
  <2>3. CASE Return(r)
    <3>1. latched[r]
      BY <1>3, <2>3 DEF Return
    <3>2. halt
      BY <3>1 DEF HaltInv
    <3>3. pc'[r] = "ended"
      BY <1>1, <2>3, <3>2 DEF Return, HookType
    <3>4. QED BY <1>1, <3>2, <3>3
  <2>4. CASE BeginWrite(r) \/ Put(r) \/ PutCard(r) \/ Commit(r)
    <3>1. latched[r]
      BY <1>3, <2>4 DEF BeginWrite, Put, PutCard, Commit
    <3>2. pc'[r] \in {"write", "put", "card", "commit", "ended"}
      BY <1>1, <2>4 DEF BeginWrite, Put, PutCard, Commit, Proceed, EndWrite, HookType
    <3>3. QED BY <1>1, <3>1, <3>2 DEF HaltInv
  <2>5. QED BY <2>1, <2>2, <2>3, <2>4 DEF Run, Method
<1>4. QED BY <1>1, <1>2, <1>3 DEF HaltInv

(* Where the hook records assistant turns, a run that was in one of its    *)
(* methods after the flag was raised does not go on.                       *)
THEOREM HaltEndsRecordingRuns == Spec => []HaltEndsRecordingRun
<1>1. Init => HaltInv
  BY TypeInit DEF Init, HaltInv
<1>2. ASSUME HaltInv, [Next]_vars PROVE HaltInv'
  <2>1. CASE \E r \in Runs : Run(r)
    BY <1>2, <2>1, HaltInvStep
  <2>2. CASE Restart
    BY <1>2, <2>2, RestartType, RestartLeaves DEF HaltInv
  <2>3. CASE UNCHANGED vars
    BY <1>2, <2>3 DEF vars, local, HaltInv, HookType, RunOK
  <2>4. QED BY <1>2, <2>1, <2>2, <2>3 DEF Next
<1>3. HaltInv => HaltEndsRecordingRun
  BY DEF HaltInv, HaltEndsRecordingRun, HaltEndsRun
<1>4. QED BY <1>1, <1>2, <1>3, PTL DEF Spec

------------------------------------------------------------------------------
(* Durability under Halt.                                                  *)

Strict == config.on_write_failure = "halt" /\ config.commit_each_turn

(* The entry and the cards found in its text are on disk.                  *)
OnDisk(e) ==
    \E i \in 1..durable :
        /\ log[i] = e
        /\ e.role = "user" =>
              \A c \in ToSet(CardsOf[e.text]) : \E j \in 1..durable : log[j] = CardEntry(i, e, c)

(* What the method in progress has behind it: whole texts on disk, and of  *)
(* the text at hand the cards that are no longer in cards[r].              *)
TextsOnDisk(r) ==
    \A i \in 1..next[r] - 1 : texts[r][i] \in Texts => OnDisk(Entry(r, texts[r][i]))

CardsPut(r) ==
    role[r] = "user" =>
        \A c \in ToSet(CardsOf[texts[r][next[r]]]) :
            \/ pc[r] = "card" /\ c \in ToSet(cards[r])
            \/ \E j \in 1..Len(log) : log[j] = CardEntry(frame[r], Current(r), c)

Progress(r) ==
    /\ pc[r] \in InMethod => TextsOnDisk(r)
    /\ pc[r] \in {"card", "commit"} => CardsPut(r)

(* Under Halt, an attempt that failed raises the flag, and with the flag   *)
(* up no method lets its run go on: only what went well has to be on disk. *)
DurableInv ==
    /\ CitesInv
    /\ Strict =>
          /\ \A e \in continued : OnDisk(e)
          /\ ~halt => \A r \in Runs : Progress(r)

(* What no step may do to the archive.                                     *)
Keeps == durable' \in durable..Len(log') /\ \A i \in 1..durable : log'[i] = log[i]

LEMMA KeepsDurable ==
    ASSUME HookType, Grows \/ Restart
    PROVE  Keeps
<1>1. durable \in 0..Len(log) /\ Len(log) \in Nat
  BY LenProperties DEF HookType
<1>2. CASE Grows
  BY <1>1, <1>2 DEF Grows, Keeps
<1>3. CASE Restart
  BY <1>1, <1>3, RestartLeaves DEF Keeps
<1>4. QED BY <1>2, <1>3

LEMMA OnDiskKept ==
    ASSUME HookType, Keeps, NEW e, OnDisk(e)
    PROVE  OnDisk(e)'
<1>1. PICK i \in 1..durable :
          /\ log[i] = e
          /\ e.role = "user" =>
                \A c \in ToSet(CardsOf[e.text]) : \E j \in 1..durable : log[j] = CardEntry(i, e, c)
  BY DEF OnDisk
<1>2. \A j \in 1..durable : j \in 1..durable' /\ log'[j] = log[j]
  BY LenProperties DEF Keeps, HookType
<1>3. i \in 1..durable' /\ log'[i] = e
  BY <1>1, <1>2
<1>4. ASSUME e.role = "user", NEW c \in ToSet(CardsOf[e.text])
      PROVE  \E j \in 1..durable' : log'[j] = CardEntry(i, e, c)
  BY <1>1, <1>2, <1>4
<1>5. QED BY <1>3, <1>4 DEF OnDisk, CardEntry

LEMMA OnDiskStable ==
    ASSUME HookType, Grows, NEW e, OnDisk(e)
    PROVE  OnDisk(e)'
BY KeepsDurable, OnDiskKept

(* The parts of Progress for a run whose place in its method is the same.  *)
LEMMA TextsStable ==
    ASSUME HookType, Grows, NEW r \in Runs, TextsOnDisk(r),
           turn'[r] = turn[r], role'[r] = role[r], texts'[r] = texts[r], next'[r] = next[r]
    PROVE  TextsOnDisk(r)'
<1>1. ASSUME NEW i \in 1..next[r] - 1, texts[r][i] \in Texts
      PROVE  OnDisk(Entry(r, texts[r][i]))'
  <2>1. OnDisk(Entry(r, texts[r][i]))
    BY <1>1 DEF TextsOnDisk
  <2>2. Entry(r, texts[r][i])' = Entry(r, texts[r][i])
    BY DEF Entry
  <2>3. QED BY <2>1, <2>2, OnDiskStable DEF OnDisk, CardEntry
<1>2. QED BY <1>1 DEF TextsOnDisk

LEMMA CardsPutStable ==
    ASSUME HookType, Grows, NEW r \in Runs, CardsPut(r),
           pc'[r] = pc[r], turn'[r] = turn[r], role'[r] = role[r], texts'[r] = texts[r],
           next'[r] = next[r], frame'[r] = frame[r], cards'[r] = cards[r]
    PROVE  CardsPut(r)'
<1>1. Current(r)' = Current(r)
  BY DEF Current, Entry
<1>2. Len(log) \in Nat /\ Len(log') \in Nat /\ Len(log) <= Len(log')
      /\ \A j \in 1..Len(log) : log'[j] = log[j]
  BY DEF Grows, HookType
<1>3. QED BY <1>1, <1>2 DEF CardsPut, CardEntry

(* One more text is behind the run: it had no text, or it is on disk.      *)
LEMMA TextsAdvance ==
    ASSUME HookType, Grows, NEW r \in Runs, TextsOnDisk(r),
           next[r] \in 1..Len(texts[r]),
           NEW e, e = Current(r), texts[r][next[r]] \in Texts => OnDisk(e)',
           turn'[r] = turn[r], role'[r] = role[r], texts'[r] = texts[r], next'[r] = next[r] + 1
    PROVE  TextsOnDisk(r)'
<1>1. ASSUME NEW i \in 1..next[r], texts[r][i] \in Texts, NEW f, f = Entry(r, texts[r][i])
      PROVE  OnDisk(f)'
  <2>1. CASE i \in 1..next[r] - 1
    <3>1. OnDisk(f)
      BY <1>1, <2>1 DEF TextsOnDisk
    <3>2. QED BY <3>1, OnDiskStable
  <2>2. CASE i = next[r]
    <3>1. f = e /\ texts[r][next[r]] \in Texts
      BY <1>1, <2>2 DEF Current
    <3>2. QED BY <3>1
  <2>3. QED BY <2>1, <2>2
<1>2. ASSUME NEW i \in 1..next[r], texts[r][i] \in Texts
      PROVE  OnDisk(Entry(r, texts[r][i]))'
  <2>1. Entry(r, texts[r][i])' = Entry(r, texts[r][i])
    BY DEF Entry
  <2>2. QED BY <1>1, <1>2, <2>1 DEF OnDisk, CardEntry
<1>3. QED BY <1>2 DEF TextsOnDisk

(* The steps of a method that do not raise the flag.                       *)

LEMMA PutProgress ==
    ASSUME DurableInv, Strict, NEW r \in Runs, Put(r), Progress(r), ~halt'
    PROVE  Progress(r)'
<1>1. /\ HookType /\ Grows
      /\ pc[r] = "put" /\ texts[r][next[r]] \in Texts /\ TextsOnDisk(r)
      /\ UNCHANGED <<turn, role, texts>>
  BY ArchiveStep DEF DurableInv, CitesInv, Put, Run, Method, HookType, RunOK, Progress, InMethod
<1>2. CASE PutPanics(Current(r)) /\ Goto(r, "ended")
  <2>1. pc'[r] = "ended"
    BY <1>1, <1>2 DEF HookType
  <2>2. QED BY <2>1 DEF Progress, InMethod
<1>3. CASE /\ PutSucceeds(Current(r))
           /\ frame' = [frame EXCEPT ![r] = Len(log')]
           /\ Proceed(r, IF role[r] = "user" THEN CardsOf[texts[r][next[r]]] ELSE <<>>)
  <2>1. /\ CardsOf[texts[r][next[r]]] \in Seq(AllCards)
        /\ (IF role[r] = "user" THEN CardsOf[texts[r][next[r]]] ELSE <<>>) \in Seq(AllCards)
    BY <1>1, CardsAreCards, EmptySeq
  <2>2. /\ ProceedOK(r)
        /\ cards'[r] = IF role[r] = "user" THEN CardsOf[texts[r][next[r]]] ELSE <<>>
    BY <1>1, <1>3, <2>1, ProceedType
  <2>3. next'[r] = next[r] /\ pc'[r] \in {"card", "commit"} /\ (pc'[r] = "commit" => cards'[r] = <<>>)
    BY <2>2 DEF ProceedOK, Strict
  <2>4. TextsOnDisk(r)'
    BY <1>1, <2>3, TextsStable
  <2>5. ToSet(<<>>) = {}
    BY DEF ToSet
  <2>6. CardsPut(r)'
    BY <1>1, <2>2, <2>3, <2>5 DEF CardsPut
  <2>7. QED BY <2>4, <2>6 DEF Progress
<1>4. ~HandleWriteFailure
  BY <1>1, FailureRaises DEF Strict
<1>5. QED BY <1>2, <1>3, <1>4 DEF Put

LEMMA PutCardProgress ==
    ASSUME DurableInv, Strict, NEW r \in Runs, PutCard(r), Progress(r), ~halt'
    PROVE  Progress(r)'
<1>1. /\ HookType /\ Grows
      /\ pc[r] = "card" /\ TextsOnDisk(r) /\ CardsPut(r)
      /\ UNCHANGED <<turn, role, texts, frame>>
  BY ArchiveStep DEF DurableInv, CitesInv, PutCard, Run, Method, Progress, InMethod
<1>2. CASE PutPanics(Card(r)) /\ Goto(r, "ended")
  <2>1. pc'[r] = "ended"
    BY <1>1, <1>2 DEF HookType
  <2>2. QED BY <2>1 DEF Progress, InMethod
<1>3. CASE PutSucceeds(Card(r)) /\ Proceed(r, Tail(cards[r]))
  <2>1. /\ Tail(cards[r]) \in Seq(AllCards)
        /\ Card(r) \in Items /\ Card(r) = CardEntry(frame[r], Current(r), Head(cards[r]))
        /\ \A c \in ToSet(cards[r]) : c = Head(cards[r]) \/ c \in ToSet(Tail(cards[r]))
    BY <1>1, CardType
  <2>2. ProceedOK(r) /\ cards'[r] = Tail(cards[r])
    BY <1>1, <1>3, <2>1, ProceedType
  <2>3. next'[r] = next[r] /\ pc'[r] \in {"card", "commit"} /\ (pc'[r] = "commit" => cards'[r] = <<>>)
    BY <2>2 DEF ProceedOK, Strict
  <2>4. TextsOnDisk(r)'
    BY <1>1, <2>3, TextsStable
  <2>5. Current(r)' = Current(r)
    BY <1>1, <2>3 DEF Current, Entry
  <2>6. /\ Len(log') = Len(log) + 1 /\ Len(log) \in Nat
        /\ log'[Len(log) + 1] = Card(r)
        /\ \A j \in 1..Len(log) : log'[j] = log[j]
    BY <1>1, <1>3, <2>1, AppendProperties DEF HookType, PutSucceeds
  <2>7. ASSUME role[r] = "user", NEW c \in ToSet(CardsOf[texts[r][next[r]]])
        PROVE  \/ pc'[r] = "card" /\ c \in ToSet(cards'[r])
               \/ \E j \in 1..Len(log') : log'[j] = CardEntry(frame[r], Current(r), c)
    <3>1. CASE \E j \in 1..Len(log) : log[j] = CardEntry(frame[r], Current(r), c)
      BY <2>6, <3>1
    <3>2. CASE c \in ToSet(cards[r])
      <4>1. CASE c = Head(cards[r])
        BY <2>1, <2>6, <4>1
      <4>2. CASE c \in ToSet(Tail(cards[r]))
        <5>1. cards'[r] # <<>>
          BY <2>2, <4>2 DEF ToSet
        <5>2. QED BY <2>2, <2>3, <4>2, <5>1
      <4>3. QED BY <2>1, <3>2, <4>1, <4>2
    <3>3. QED BY <1>1, <2>7, <3>1, <3>2 DEF CardsPut
  <2>8. CardsPut(r)'
    BY <1>1, <2>3, <2>5, <2>7 DEF CardsPut, CardEntry
  <2>9. QED BY <2>4, <2>8 DEF Progress
<1>4. ~HandleWriteFailure
  BY <1>1, FailureRaises DEF Strict
<1>5. QED BY <1>2, <1>3, <1>4 DEF PutCard

LEMMA CommitProgress ==
    ASSUME DurableInv, Strict, NEW r \in Runs, Commit(r), Progress(r), ~halt'
    PROVE  Progress(r)'
<1>1. /\ HookType /\ Grows /\ AtFrame(r)
      /\ pc[r] = "commit" /\ TextsOnDisk(r) /\ CardsPut(r)
      /\ UNCHANGED <<turn, role, texts, frame>>
  BY ArchiveStep DEF DurableInv, CitesInv, Commit, Run, Method, Progress, InMethod
<1>2. CASE CommitPanics /\ Goto(r, "ended")
  <2>1. pc'[r] = "ended"
    BY <1>1, <1>2 DEF HookType
  <2>2. QED BY <2>1 DEF Progress, InMethod
<1>3. CASE CommitSucceeds /\ EndWrite(r)
  <2>1. next'[r] = next[r] + 1 /\ pc'[r] = "write" /\ next[r] \in 1..Len(texts[r])
    BY <1>1, <1>3 DEF EndWrite, HookType, RunOK, InMethod
  <2>2. durable' = Len(log) /\ log' = log
    BY <1>3 DEF CommitSucceeds
  <2>3. frame[r] \in 1..Len(log) /\ log[frame[r]] = Current(r)
    BY <1>1 DEF HookType, RunOK, AtFrame
  <2>4. ASSUME NEW e, e = Current(r) PROVE OnDisk(e)'
    <3>1. e.role = role[r] /\ e.text = texts[r][next[r]]
      BY <2>4 DEF Current, Entry
    <3>2. ASSUME e.role = "user", NEW c \in ToSet(CardsOf[e.text])
          PROVE  \E j \in 1..Len(log) : log[j] = CardEntry(frame[r], e, c)
      BY <1>1, <2>4, <3>1, <3>2 DEF CardsPut
    <3>3. QED BY <2>2, <2>3, <2>4, <3>2 DEF OnDisk, CardEntry
  <2>5. TextsOnDisk(r)'
    BY <1>1, <2>1, <2>4, TextsAdvance
  <2>6. QED BY <2>1, <2>5 DEF Progress, InMethod
<1>4. ~HandleWriteFailure
  BY <1>1, FailureRaises DEF Strict
<1>5. QED BY <1>2, <1>3, <1>4 DEF Commit

LEMMA OtherProgress ==
    ASSUME HookType, NEW r \in Runs, Progress(r),
           OnCompletionCall(r) \/ OnCompletionResponse(r) \/ Return(r) \/ BeginWrite(r)
    PROVE  Progress(r)'
<1>1. CASE OnCompletionCall(r) \/ OnCompletionResponse(r)
  <2>1. next'[r] = 1 /\ pc'[r] \in {"write", "ready"}
    BY <1>1 DEF OnCompletionCall, OnCompletionResponse, Enter, HookType
  <2>2. QED BY <2>1 DEF Progress, TextsOnDisk
<1>2. CASE Return(r)
  <2>1. pc'[r] \in {"ended", "model", "ready"}
    BY <1>2 DEF Return, HookType
  <2>2. QED BY <2>1 DEF Progress, InMethod
<1>3. CASE BeginWrite(r)
  <2>1. /\ Grows /\ TextsOnDisk(r) /\ next[r] \in 1..Len(texts[r])
        /\ UNCHANGED <<turn, role, texts>>
    BY <1>3, ArchiveStep DEF BeginWrite, Run, Method, Progress, InMethod, HookType, RunOK
  <2>2. CASE texts[r][next[r]] \in {Blank, NoText} /\ next' = [next EXCEPT ![r] = next[r] + 1]
             /\ UNCHANGED pc
    <3>1. texts[r][next[r]] \notin Texts /\ next'[r] = next[r] + 1 /\ pc'[r] = "write"
      BY <1>3, <2>2, RenderedAssumption DEF BeginWrite, HookType
    <3>2. TextsOnDisk(r)'
      BY <2>1, <3>1, TextsAdvance
    <3>3. QED BY <3>1, <3>2 DEF Progress
  <2>3. CASE Goto(r, "put") /\ UNCHANGED next
    <3>1. next'[r] = next[r] /\ pc'[r] = "put"
      BY <2>3 DEF HookType
    <3>2. TextsOnDisk(r)'
      BY <2>1, <3>1, TextsStable
    <3>3. QED BY <3>1, <3>2 DEF Progress
  <2>4. QED BY <1>3, <2>2, <2>3 DEF BeginWrite
<1>4. QED BY <1>1, <1>2, <1>3

(* The step the property is about: a method returns cont only if the flag  *)
(* is down, and then all it was given is on disk.                          *)
LEMMA ContinuedStep ==
    ASSUME DurableInv, Strict, NEW r \in Runs, Run(r), NEW e \in continued'
    PROVE  OnDisk(e)'
<1>1. HookType /\ Grows
  BY ArchiveStep DEF DurableInv, CitesInv
<1>2. CASE e \in continued
  BY <1>1, <1>2, OnDiskStable DEF DurableInv
<1>3. CASE e \notin continued
  <2>1. Return(r)
    BY <1>3 DEF Run, Method, OnCompletionCall, OnCompletionResponse, Enter, BeginWrite, Put,
                PutCard, Commit
  <2>2. /\ ~halt /\ pc[r] = "write" /\ next[r] > Len(texts[r])
        /\ \E i \in 1..Len(texts[r]) : texts[r][i] \in Texts /\ e = Entry(r, texts[r][i])
    BY <1>3, <2>1 DEF Return
  <2>3. TextsOnDisk(r)
    BY <2>2 DEF DurableInv, Progress, InMethod
  <2>4. Len(texts[r]) \in Nat /\ next[r] \in Nat
    BY <1>1, LenProperties DEF HookType
  <2>5. OnDisk(e)
    BY <2>2, <2>3, <2>4 DEF TextsOnDisk
  <2>6. QED BY <1>1, <2>5, OnDiskStable
<1>4. QED BY <1>2, <1>3

LEMMA DurableStep ==
    ASSUME DurableInv, NEW r \in Runs, Run(r)
    PROVE  DurableInv'
<1>1. /\ HookType /\ Grows /\ OnlyOf(r) /\ CitesInv'
      /\ config' = config /\ (halt => halt')
  BY ArchiveStep, LocalStep, HaltStep, CitesStep DEF DurableInv, CitesInv
<1>2. ASSUME Strict, ~halt', NEW s \in Runs PROVE Progress(s)'
  <2>1. Progress(s)
    BY <1>1, <1>2 DEF DurableInv
  <2>2. CASE s = r
    BY <1>1, <1>2, <2>1, <2>2, PutProgress, PutCardProgress, CommitProgress, OtherProgress
       DEF Run, Method
  <2>3. CASE s # r
    <3>1. /\ pc'[s] = pc[s] /\ turn'[s] = turn[s] /\ role'[s] = role[s] /\ texts'[s] = texts[s]
          /\ next'[s] = next[s] /\ frame'[s] = frame[s] /\ cards'[s] = cards[s]
      BY <1>1, <2>3 DEF OnlyOf
    <3>2. QED BY <1>1, <2>1, <3>1, TextsStable, CardsPutStable DEF Progress
  <2>4. QED BY <2>2, <2>3
<1>3. Strict' <=> Strict
  BY <1>1 DEF Strict
<1>4. Strict => \A e \in continued' : OnDisk(e)'
  BY ContinuedStep
<1>5. Strict /\ ~halt' => \A s \in Runs : Progress(s)'
  BY <1>2
<1>6. QED BY <1>1, <1>3, <1>4, <1>5 DEF DurableInv

LEMMA DurableRestart ==
    ASSUME DurableInv, Restart
    PROVE  DurableInv'
<1>1. HookType /\ CitesInv' /\ Keeps
  BY CitesRestart, KeepsDurable DEF DurableInv, CitesInv
<1>2. config' = config /\ continued' = continued
  BY DEF Restart
<1>3. Strict => \A e \in continued' : OnDisk(e)'
  BY <1>1, <1>2, OnDiskKept DEF DurableInv
<1>4. \A r \in Runs : Progress(r)'
  BY <1>1, RestartLeaves DEF Progress, InMethod
<1>5. QED BY <1>1, <1>2, <1>3, <1>4 DEF DurableInv, Strict

LEMMA DurableHolds == Spec => []DurableInv
<1>1. Init => DurableInv
  BY CitesInit DEF Init, DurableInv, Progress, InMethod
<1>2. ASSUME DurableInv, [Next]_vars PROVE DurableInv'
  <2>1. CASE \E r \in Runs : Run(r)
    BY <1>2, <2>1, DurableStep
  <2>2. CASE Restart
    BY <1>2, <2>2, DurableRestart
  <2>3. CASE UNCHANGED vars
    BY <1>2, <2>3 DEF vars, local, DurableInv, CitesInv, HookType, RunOK, CardCitesItsFrame, AtFrame,
                      Current, Entry, Strict, OnDisk, Progress, TextsOnDisk, CardsPut, CardEntry
  <2>4. QED BY <1>2, <2>1, <2>2, <2>3 DEF Next
<1>3. QED BY <1>1, <1>2, PTL DEF Spec

(* Under WriteFailure::Halt and a commit per turn, what a method wrote and *)
(* let the agent go on after is on disk with all its cards: whatever puts, *)
(* cards and commits fail or panic, whatever the other runs do, and        *)
(* however often the process ends.                                         *)
THEOREM ContinuedTurnsAreDurable == Spec => []ContinuedIsDurable
<1>1. DurableInv => ContinuedIsDurable
  BY DEF DurableInv, Strict, OnDisk, ContinuedIsDurable, CardEntry
<1>2. QED BY <1>1, DurableHolds, PTL

------------------------------------------------------------------------------
(* The refinement of DurableMemory.                                        *)

Stored == [i \in 1..durable |-> Item(log[i])]

LEMMA PersistsOrKeeps ==
    ASSUME HookType, HookType', Keeps
    PROVE  Memory!IsPrefix(Stored, Stored')
<1> DEFINE S == {Item(e) : e \in Items}
<1>1. /\ durable \in Nat /\ durable' \in Nat /\ durable <= durable'
      /\ \A i \in 1..durable : log[i] \in Items
      /\ \A i \in 1..durable' : log'[i] \in Items
  BY LenProperties, ElementOfSeq DEF HookType, Keeps
<1>2. Stored \in [1..durable -> S] /\ Stored' \in [1..durable' -> S]
  BY <1>1 DEF Stored
<1>3. \A i \in 1..durable : Stored'[i] = Stored[i]
  BY <1>1 DEF Stored, Keeps, Item
<1> HIDE DEF S
<1>4. /\ Stored \in Seq(S) /\ Len(Stored) = durable
      /\ Stored' \in Seq(S) /\ Len(Stored') = durable'
  BY <1>1, <1>2, SeqDef, LenProperties
<1>5. SubSeq(Stored, 1, Len(Stored)) = SubSeq(Stored', 1, Len(Stored))
  BY <1>1, <1>3, <1>4, BeginsWith
<1>6. QED BY <1>1, <1>4, <1>5 DEF Memory!IsPrefix

(* What is released is on disk.                                            *)
ReleasedOnDisk == Released \subseteq {Stored[i] : i \in DOMAIN Stored}

LEMMA ReleasedIsStored == DurableInv => ReleasedOnDisk
<1> SUFFICES ASSUME DurableInv, Strict, NEW e \in continued, NEW x \in {e} \cup CardsOfEntry(e)
             PROVE  x \in {Stored[i] : i \in DOMAIN Stored}
  BY DEF Released, Strict, ReleasedOnDisk
<1>1. OnDisk(e) /\ e \in Entries
  BY DEF DurableInv, CitesInv, HookType
<1>2. PICK i \in 1..durable :
          /\ log[i] = e
          /\ e.role = "user" =>
                \A c \in ToSet(CardsOf[e.text]) : \E j \in 1..durable : log[j] = CardEntry(i, e, c)
  BY <1>1 DEF OnDisk
<1>3. \A j \in 1..durable : Stored[j] = Item(log[j]) /\ j \in DOMAIN Stored
  BY DEF Stored
<1>4. CASE x = e
  BY <1>1, <1>2, <1>3, <1>4 DEF Item
<1>5. CASE x \in CardsOfEntry(e)
  <2>1. PICK c \in ToSet(CardsOf[e.text]) : e.role = "user" /\ x = [of |-> e, card |-> c]
    BY <1>5 DEF CardsOfEntry
  <2>2. PICK j \in 1..durable : log[j] = CardEntry(i, e, c)
    BY <1>2, <2>1
  <2>3. CardEntry(i, e, c) \notin Entries
    BY DEF CardEntry, Entries
  <2>4. Item(log[j]) = x
    BY <2>1, <2>2, <2>3 DEF Item, CardEntry
  <2>5. QED BY <1>3, <2>4
<1>6. QED BY <1>4, <1>5

LEMMA ContinuedGrows ==
    ASSUME Next
    PROVE  continued \subseteq continued' /\ config' = config
BY DEF Next, Restart, Run, Method, OnCompletionCall, OnCompletionResponse, Enter, Return, BeginWrite,
       Put, PutCard, Commit

LEMMA ReleasedGrows ==
    ASSUME Next
    PROVE  Released \subseteq Released'
BY ContinuedGrows DEF Released, CardsOfEntry

(* Under Halt and a commit per turn the hook keeps the promise of          *)
(* DurableMemory: what is on disk stays there in the same order, and the   *)
(* agent goes on only after turns that are on disk with all their cards,   *)
(* through every failure, panic, interleaving of runs and restart.         *)
THEOREM ImplementsMemory == Spec => MemorySpec
<1>1. Init => Memory!Init
  <2>1. ASSUME Init PROVE Stored = <<>> /\ Released = {}
    BY <2>1 DEF Init, ArchiveInit, Stored, Released
  <2>2. QED BY <2>1 DEF Memory!Init, Stored
<1>2. ASSUME DurableInv, DurableInv', ReleasedOnDisk', [Next]_vars
      PROVE  [Memory!Next]_<<Stored, Released>>
  <2>1. CASE UNCHANGED vars
    BY <2>1 DEF vars, local, Stored, Released, CardsOfEntry, Item
  <2>2. CASE Next
    <3>1. HookType /\ HookType'
      BY <1>2 DEF DurableInv, CitesInv
    <3>2. Keeps
      BY <2>2, <3>1, ArchiveStep, KeepsDurable DEF Next
    <3>3. Memory!IsPrefix(Stored, Stored')
      BY <3>1, <3>2, PersistsOrKeeps
    <3>4. Released \subseteq Released'
      BY <2>2, ReleasedGrows
    <3>5. QED BY <1>2, <3>3, <3>4
              DEF ReleasedOnDisk, Memory!Next, Memory!Persist, Memory!Release, Stored
  <2>3. QED BY <1>2, <2>1, <2>2
<1>3. QED BY <1>1, <1>2, DurableHolds, ReleasedIsStored, PTL DEF Spec, MemorySpec, Memory!Spec, Stored

------------------------------------------------------------------------------
(* Progress of the methods.                                                *)

LEMMA Stages ==
    Stage("write") = 1 /\ Stage("put") = 2 /\ Stage("card") = 3 /\ Stage("commit") = 4
BY DEF Stage

(* Each step of run r that stays in its method goes further.               *)
Advances(r) ==
    \/ next'[r] > next[r]
    \/ next'[r] = next[r] /\ Stage(pc'[r]) > Stage(pc[r])
    \/ next'[r] = next[r] /\ pc'[r] = pc[r] /\ Len(cards'[r]) < Len(cards[r])

LEMMA EndWriteAdvances ==
    ASSUME HookType, NEW r \in Runs, EndWrite(r)
    PROVE  next'[r] > next[r]
BY DEF EndWrite, HookType

LEMMA AdvanceStep ==
    ASSUME HookType, NEW r \in Runs, Run(r), pc[r] \in InMethod, pc'[r] \in InMethod
    PROVE  Advances(r)
<1>1. CASE OnCompletionCall(r) \/ OnCompletionResponse(r) \/ Return(r)
  BY <1>1 DEF OnCompletionCall, OnCompletionResponse, Return, HookType, InMethod
<1>2. CASE BeginWrite(r)
  <2>1. CASE next' = [next EXCEPT ![r] = next[r] + 1]
    BY <2>1 DEF HookType, Advances
  <2>2. CASE Goto(r, "put") /\ UNCHANGED next
    BY <1>2, <2>2, Stages DEF BeginWrite, HookType, Advances
  <2>3. QED BY <1>2, <2>1, <2>2 DEF BeginWrite
<1>3. CASE Put(r)
  <2>1. pc[r] = "put" /\ texts[r][next[r]] \in Texts
    BY <1>3 DEF Put, HookType, RunOK
  <2>2. CASE Proceed(r, IF role[r] = "user" THEN CardsOf[texts[r][next[r]]] ELSE <<>>)
    <3>1. (IF role[r] = "user" THEN CardsOf[texts[r][next[r]]] ELSE <<>>) \in Seq(AllCards)
      BY <2>1, CardsAreCards, EmptySeq
    <3>2. ProceedOK(r)
      BY <2>2, <3>1, ProceedType
    <3>3. QED BY <2>1, <3>2, Stages DEF ProceedOK, Advances, HookType
  <2>3. CASE EndWrite(r)
    BY <2>3, EndWriteAdvances DEF Advances
  <2>4. ~Goto(r, "ended")
    BY DEF HookType, InMethod
  <2>5. QED BY <1>3, <2>2, <2>3, <2>4 DEF Put
<1>4. CASE PutCard(r)
  <2>1. pc[r] = "card"
    BY <1>4 DEF PutCard
  <2>2. CASE Proceed(r, Tail(cards[r]))
    <3>1. /\ Tail(cards[r]) \in Seq(AllCards)
          /\ Len(Tail(cards[r])) = Len(cards[r]) - 1 /\ Len(cards[r]) \in Nat
      BY <2>1, CardType, LenProperties DEF HookType
    <3>2. ProceedOK(r) /\ cards'[r] = Tail(cards[r])
      BY <2>2, <3>1, ProceedType
    <3>3. QED BY <2>1, <3>1, <3>2, Stages DEF ProceedOK, Advances, HookType
  <2>3. ~Goto(r, "ended")
    BY DEF HookType, InMethod
  <2>4. QED BY <1>4, <2>2, <2>3 DEF PutCard
<1>5. CASE Commit(r)
  <2>1. EndWrite(r) \/ Goto(r, "ended")
    BY <1>5 DEF Commit
  <2>2. ~Goto(r, "ended")
    BY DEF HookType, InMethod
  <2>3. QED BY <2>1, <2>2, EndWriteAdvances DEF Advances
<1>6. QED BY <1>1, <1>2, <1>3, <1>4, <1>5 DEF Run, Method

AllAdvance ==
    \A r \in Runs :
        /\ pc[r] \in InMethod
        /\ pc'[r] \in InMethod
        /\ <<pc[r], next[r], cards[r]>>' # <<pc[r], next[r], cards[r]>>
        => Advances(r)

(* No failure makes a method start over: every step inside it takes it to  *)
(* its next text, to a later stage, or to a shorter list of cards.         *)
THEOREM MethodsAdvanceAlways == Spec => MethodsAdvance
<1>1. ASSUME HookType, [Next]_vars, NEW r \in Runs,
             pc[r] \in InMethod, pc'[r] \in InMethod,
             <<pc[r], next[r], cards[r]>>' # <<pc[r], next[r], cards[r]>>
      PROVE  Advances(r)
  <2>1. ~UNCHANGED vars
    BY <1>1 DEF vars, local
  <2>2. PICK s \in Runs : Run(s)
    BY <1>1, <2>1, RestartLeaves DEF Next, InMethod
  <2>3. s = r
    BY <1>1, <2>2, LocalStep DEF OnlyOf
  <2>4. QED BY <1>1, <2>2, <2>3, AdvanceStep
<1>2. HookType /\ [Next]_vars => [AllAdvance]_vars
  BY <1>1 DEF AllAdvance
<1>3. QED BY <1>2, HookTypeHolds, PTL DEF Spec, MethodsAdvance, AllAdvance, Advances
==============================================================================
