----------------------------- MODULE PersistHook -----------------------------
(***************************************************************************)
(* MemvidPersistHook (hook.rs): records the prompt and the response of     *)
(* every turn of an agent.  Runs are agents that use clones of one hook:   *)
(* they share the store and the halt flag.  An agent calls                 *)
(* on_completion_call before it asks the model and on_completion_response  *)
(* with the answer, and ends when either returns terminate.                *)
(*                                                                         *)
(* write takes the store's lock once for the frame, once for each          *)
(* supplemental card and once for the commit, and goes on after a failed   *)
(* card or commit; handle_write_failure may raise the halt flag, which     *)
(* each of the two methods reads when it is done.  The configuration does  *)
(* not change while the hook lives.                                        *)
(*                                                                         *)
(* A text is a rendered content item.  Rewriting it for the principal      *)
(* changes only its wording; CardsOf gives the cards write extracts from   *)
(* the result.                                                             *)
(***************************************************************************)
EXTENDS Archive, SequencesExt

CONSTANTS
    Runs,
    Texts,
    Blank,
    NoText,        \* what rendering gives for a content item without text
    CardsOf,       \* the supplemental cards found in a user text
    Prompts,       \* what the prompt of a turn renders to
    Responses,     \* the sequences of rendered items a model answers with
    Configs,
    MaxTurns       \* bound on the turns of one run

Rendered == Texts \cup {Blank, NoText}

ASSUME RenderedAssumption ==
    /\ Prompts \subseteq Rendered
    /\ \A r \in Responses : r \in Seq(Rendered)
    /\ DOMAIN CardsOf = Texts
    /\ \A t \in Texts : CardsOf[t] \in Seq(ToSet(CardsOf[t]))
    /\ Texts \cap {Blank, NoText} = {}
ASSUME ConfigAssumption ==
    Configs \subseteq [on_write_failure : {"warn", "halt", "custom"},
                       persist_assistant : BOOLEAN,
                       commit_each_turn : BOOLEAN]
ASSUME TurnAssumption == MaxTurns \in Nat

VARIABLES
    config,
    halt,      \* the AtomicBool the clones share
    pc,        \* pc[r]: where run r is
    turn,      \* turn[r]: number of its current turn
    role,      \* role[r]: "user" in on_completion_call, "assistant" in on_completion_response
    texts,     \* texts[r]: what the method in progress has to write
    next,      \* next[r]: position of its loop in texts[r]
    frame,     \* frame[r]: the frame id the put of write returned
    cards,     \* cards[r]: the supplemental cards write has yet to insert
    latched,   \* latched[r]: whether halt was up when the last method was entered
    continued  \* the frames of all methods that returned cont

local == <<turn, role, texts, next, frame, cards, latched, continued>>
vars  == <<archive, config, halt, pc, local>>

Goto(r, label) == pc' = [pc EXCEPT ![r] = label]

Entry(r, text) == [run |-> r, turn |-> turn[r], role |-> role[r], text |-> text]

Current(r) == Entry(r, texts[r][next[r]])

(* Mutant of Card: it cites the last entry of the archive instead of the   *)
(* frame its own put returned.                                             *)
CardOfLastEntry(r) ==
    [cites |-> Len(log), of |-> Current(r), card |-> Head(cards[r])]

(* The next card of the text at hand; it cites the frame it was extracted  *)
(* from.                                                                   *)
Card(r) == [cites |-> frame[r], of |-> Current(r), card |-> Head(cards[r])]

Init ==
    /\ ArchiveInit
    /\ config \in Configs
    /\ halt = FALSE
    /\ pc = [r \in Runs |-> "ready"]
    /\ turn = [r \in Runs |-> 0]
    /\ role = [r \in Runs |-> "user"]
    /\ texts = [r \in Runs |-> <<>>]
    /\ next = [r \in Runs |-> 1]
    /\ frame = [r \in Runs |-> 0]
    /\ cards = [r \in Runs |-> <<>>]
    /\ latched = [r \in Runs |-> FALSE]
    /\ continued = {}

------------------------------------------------------------------------------
Enter(r, rl, ts) ==
    /\ role' = [role EXCEPT ![r] = rl]
    /\ texts' = [texts EXCEPT ![r] = ts]
    /\ next' = [next EXCEPT ![r] = 1]
    /\ latched' = [latched EXCEPT ![r] = halt]
    /\ UNCHANGED <<frame, cards, continued>>

OnCompletionCall(r) ==
    /\ pc[r] = "ready"
    /\ turn[r] < MaxTurns
    /\ turn' = [turn EXCEPT ![r] = @ + 1]
    /\ \E p \in Prompts : Enter(r, "user", <<p>>)
    /\ Goto(r, "write")
    /\ UNCHANGED <<archive, config, halt>>

(* The model has answered.  Without persist_assistant the hook returns     *)
(* cont at once.                                                           *)
OnCompletionResponse(r) ==
    /\ pc[r] = "model"
    /\ \/ /\ ~config.persist_assistant
          /\ Enter(r, "assistant", <<>>)
          /\ Goto(r, "ready")
       \/ /\ config.persist_assistant
          /\ \E ts \in Responses : Enter(r, "assistant", ts)
          /\ Goto(r, "write")
    /\ UNCHANGED <<archive, config, halt, turn>>

(* Mutant of Return: the response method does not read the flag.           *)
ReturnCheckingCallOnly(r) ==
    /\ pc[r] = "write"
    /\ next[r] > Len(texts[r])
    /\ \/ halt /\ role[r] = "user" /\ Goto(r, "ended") /\ UNCHANGED continued
       \/ /\ ~halt \/ role[r] = "assistant"
          /\ Goto(r, IF role[r] = "user" THEN "model" ELSE "ready")
          /\ continued' = continued \cup
                {Entry(r, texts[r][i]) : i \in {j \in 1..Len(texts[r]) : texts[r][j] \in Texts}}
    /\ UNCHANGED <<archive, config, halt, turn, role, texts, next, frame, cards, latched>>

(* After the last text the method reads the flag and returns: terminate    *)
(* ends the run, cont lets the agent go on.                                *)
Return(r) ==
    /\ pc[r] = "write"
    /\ next[r] > Len(texts[r])
    /\ \/ halt /\ Goto(r, "ended") /\ UNCHANGED continued
       \/ /\ ~halt
          /\ Goto(r, IF role[r] = "user" THEN "model" ELSE "ready")
          /\ continued' = continued \cup
                {Entry(r, texts[r][i]) : i \in {j \in 1..Len(texts[r]) : texts[r][j] \in Texts}}
    /\ UNCHANGED <<archive, config, halt, turn, role, texts, next, frame, cards, latched>>

------------------------------------------------------------------------------
(* write, for the text at next[r].                                         *)

(* Mutant of BeginWrite: the check for an empty text is gone.              *)
BeginWriteOfAnyText(r) ==
    /\ pc[r] = "write"
    /\ next[r] <= Len(texts[r])
    /\ \/ /\ texts[r][next[r]] = NoText
          /\ next' = [next EXCEPT ![r] = @ + 1]
          /\ UNCHANGED pc
       \/ /\ texts[r][next[r]] # NoText
          /\ Goto(r, "put")
          /\ UNCHANGED next
    /\ UNCHANGED <<archive, config, halt, turn, role, texts, frame, cards, latched, continued>>

BeginWrite(r) ==
    /\ pc[r] = "write"
    /\ next[r] <= Len(texts[r])
    /\ \/ /\ texts[r][next[r]] \in {Blank, NoText}
          /\ next' = [next EXCEPT ![r] = @ + 1]
          /\ UNCHANGED pc
       \/ /\ texts[r][next[r]] \in Texts
          /\ Goto(r, "put")
          /\ UNCHANGED next
    /\ UNCHANGED <<archive, config, halt, turn, role, texts, frame, cards, latched, continued>>

HandleWriteFailure ==
    CASE config.on_write_failure = "warn"   -> halt' = halt
      [] config.on_write_failure = "halt"   -> halt' = TRUE
      [] config.on_write_failure = "custom" -> halt' \in {halt, TRUE}

EndWrite(r) ==
    /\ next' = [next EXCEPT ![r] = @ + 1]
    /\ Goto(r, "write")

(* Mutant of Proceed: a text whose cards were inserted is not committed.   *)
ProceedCommittingTextsOnly(r, rest) ==
    /\ cards' = [cards EXCEPT ![r] = rest]
    /\ IF rest # <<>> THEN Goto(r, "card") /\ UNCHANGED next
       ELSE IF config.commit_each_turn /\ pc[r] = "put" THEN Goto(r, "commit") /\ UNCHANGED next
       ELSE EndWrite(r)

(* What follows when some cards are still to be inserted.                  *)
Proceed(r, rest) ==
    /\ cards' = [cards EXCEPT ![r] = rest]
    /\ IF rest # <<>> THEN Goto(r, "card") /\ UNCHANGED next
       ELSE IF config.commit_each_turn THEN Goto(r, "commit") /\ UNCHANGED next
       ELSE EndWrite(r)

(* Mutant of Put: a failed put is tried again, for ever.                   *)
PutUntilItSucceeds(r) ==
    /\ pc[r] = "put"
    /\ \/ /\ PutSucceeds(Current(r))
          /\ frame' = [frame EXCEPT ![r] = Len(log')]
          /\ Proceed(r, IF role[r] = "user" THEN CardsOf[texts[r][next[r]]] ELSE <<>>)
       \/ PutFails("put") /\ Goto(r, "write") /\ UNCHANGED <<next, frame, cards>>
    /\ UNCHANGED <<config, halt, turn, role, texts, latched, continued>>

Put(r) ==
    /\ pc[r] = "put"
    /\ \/ /\ PutSucceeds(Current(r))
          /\ frame' = [frame EXCEPT ![r] = Len(log')]
          /\ Proceed(r, IF role[r] = "user" THEN CardsOf[texts[r][next[r]]] ELSE <<>>)
          /\ UNCHANGED halt
       \/ /\ PutFails("put")
          /\ HandleWriteFailure
          /\ EndWrite(r)
          /\ UNCHANGED <<frame, cards>>
       \/ /\ PutPanics(Current(r))
          /\ Goto(r, "ended")
          /\ UNCHANGED <<halt, next, frame, cards>>
    /\ UNCHANGED <<config, turn, role, texts, latched, continued>>

(* A failed card is reported and the next one is tried.                    *)
PutCard(r) ==
    /\ pc[r] = "card"
    /\ \/ PutSucceeds(Card(r)) /\ Proceed(r, Tail(cards[r])) /\ UNCHANGED halt
       \/ PutFails("card") /\ HandleWriteFailure /\ Proceed(r, Tail(cards[r]))
       \/ PutPanics(Card(r)) /\ Goto(r, "ended") /\ UNCHANGED <<halt, next, cards>>
    /\ UNCHANGED <<config, turn, role, texts, frame, latched, continued>>

(* Mutant of Commit: a failed commit is only logged, whatever the policy.  *)
CommitFailureIsOnlyLogged(r) ==
    /\ pc[r] = "commit"
    /\ \/ (CommitSucceeds \/ CommitFails) /\ EndWrite(r)
       \/ CommitPanics /\ Goto(r, "ended") /\ UNCHANGED next
    /\ UNCHANGED <<config, halt, turn, role, texts, frame, cards, latched, continued>>

Commit(r) ==
    /\ pc[r] = "commit"
    /\ \/ CommitSucceeds /\ EndWrite(r) /\ UNCHANGED halt
       \/ CommitFails /\ HandleWriteFailure /\ EndWrite(r)
       \/ CommitPanics /\ Goto(r, "ended") /\ UNCHANGED <<halt, next>>
    /\ UNCHANGED <<config, turn, role, texts, frame, cards, latched, continued>>

------------------------------------------------------------------------------
Method(r) ==
    \/ Return(r)
    \/ BeginWrite(r)
    \/ Put(r)
    \/ PutCard(r)
    \/ Commit(r)

Run(r) ==
    \/ OnCompletionCall(r)
    \/ OnCompletionResponse(r)
    \/ Method(r)

(* The process ends, perhaps in the middle of methods, and another one     *)
(* opens the archive and builds the hook anew; its agents go on with the   *)
(* next turn.                                                              *)
Restart ==
    /\ Reopen
    /\ halt' = FALSE
    /\ pc' = [r \in Runs |-> "ready"]
    /\ role' = [r \in Runs |-> "user"]
    /\ texts' = [r \in Runs |-> <<>>]
    /\ next' = [r \in Runs |-> 1]
    /\ frame' = [r \in Runs |-> 0]
    /\ cards' = [r \in Runs |-> <<>>]
    /\ latched' = [r \in Runs |-> FALSE]
    /\ UNCHANGED <<config, turn, continued>>

Next == (\E r \in Runs : Run(r)) \/ Restart

Spec == Init /\ [][Next]_vars

------------------------------------------------------------------------------
InMethod == {"write", "put", "card", "commit"}

AllCards == UNION {ToSet(CardsOf[t]) : t \in Texts}

Entries == [run : Runs, turn : 1..MaxTurns, role : {"user", "assistant"}, text : Texts]

(* The state is well-formed, and a run inside write has a text to write    *)
(* (the locals of on_completion_call, on_completion_response and write).   *)
TypeOK ==
    /\ \A i \in 1..Len(log) :
          log[i] \in Entries \/ log[i] \in [cites : 1..i - 1, of : Entries, card : AllCards]
    /\ durable \in 0..Len(log)
    /\ poisoned \subseteq Locks
    /\ config \in Configs
    /\ halt \in BOOLEAN
    /\ pc \in [Runs -> InMethod \cup {"ready", "model", "ended"}]
    /\ turn \in [Runs -> 0..MaxTurns]
    /\ role \in [Runs -> {"user", "assistant"}]
    /\ texts \in [Runs -> Seq(Rendered)]
    /\ next \in [Runs -> Nat]
    /\ \A r \in Runs : ToSet(cards[r]) \subseteq AllCards
    /\ frame \in [Runs -> 0..Len(log)]
    /\ latched \in [Runs -> BOOLEAN]
    /\ continued \subseteq Entries
    /\ \A r \in Runs :
          /\ pc[r] \in InMethod => next[r] \in 1..Len(texts[r]) + 1
          /\ pc[r] \in InMethod \ {"write"} => next[r] <= Len(texts[r]) /\ Current(r).text \in Texts
          /\ pc[r] = "card" => cards[r] # <<>> /\ frame[r] > 0

(* WriteFailure::Halt is there for agents "who would rather halt the agent *)
(* than silently lose memory writes" (hook.rs): under it, with a commit    *)
(* per turn, what a method wrote that let the agent go on is on disk, and  *)
(* so are all its cards, whatever the other runs on the store do, and      *)
(* however often the process ends.                                         *)
ContinuedIsDurable ==
    config.on_write_failure = "halt" /\ config.commit_each_turn =>
        \A e \in continued :
            \E i \in 1..durable :
                /\ log[i] = e
                /\ e.role = "user" =>
                      \A c \in ToSet(CardsOf[e.text]) :
                          \E j \in 1..durable : log[j] = [cites |-> i, of |-> e, card |-> c]

(* write passes the id its own put returned to supplemental_memory_cards:  *)
(* a card cites the frame whose text it was extracted from, also when      *)
(* other runs append in between, and never a frame that is not there, also *)
(* when a restart finds only a part of what was appended.                  *)
CardCitesItsFrame ==
    \A i \in 1..Len(log) :
        log[i] \notin Entries => log[i].cites < i /\ log[log[i].cites] = log[i].of

(* The hook as a memory in the sense of DurableMemory: what is stored are  *)
(* frames and cards, and what a method wrote that let the agent go on is   *)
(* released by it, where the policy promises durability.                   *)
Item(e) == IF e \in Entries THEN e ELSE [of |-> e.of, card |-> e.card]

CardsOfEntry(e) ==
    {[of |-> e, card |-> c] : c \in IF e.role = "user" THEN ToSet(CardsOf[e.text]) ELSE {}}

Released ==
    IF config.on_write_failure = "halt" /\ config.commit_each_turn
    THEN continued \cup UNION {CardsOfEntry(e) : e \in continued} ELSE {}

Memory ==
    INSTANCE DurableMemory WITH
        stored <- [i \in 1..durable |-> Item(log[i])], released <- Released, ExactlyOnce <- FALSE

(* Under Halt and a commit per turn the hook implements DurableMemory: no  *)
(* failure, no other run and no restart takes back, or moves, a turn that  *)
(* the agent went on after, or a card of it.                               *)
MemorySpec == Memory!Spec

(* "The next call into a PromptHook method observes this flag and returns  *)
(* HookAction::terminate" (hook.rs, field halt): a run whose last method   *)
(* was entered with the flag up is not going on.                           *)
HaltEndsRun ==
    \A r \in Runs : latched[r] => pc[r] \notin {"ready", "model"}

(* The same where the hook records assistant turns.                        *)
HaltEndsRecordingRun == config.persist_assistant => HaltEndsRun

Stage(label) == CHOOSE i \in 1..4 : <<"write", "put", "card", "commit">>[i] = label

(* Whatever fails, every call of the agent into the hook returns: each     *)
(* step within a method takes it further, to its next text or, within the  *)
(* write of one, to a later stage or a shorter list of cards.              *)
MethodsAdvance ==
    [][\A r \in Runs :
          /\ pc[r] \in InMethod
          /\ pc'[r] \in InMethod
          /\ <<pc[r], next[r], cards[r]>>' # <<pc[r], next[r], cards[r]>>
          =>
              \/ next'[r] > next[r]
              \/ next'[r] = next[r] /\ Stage(pc'[r]) > Stage(pc[r])
              \/ next'[r] = next[r] /\ pc'[r] = pc[r] /\ Len(cards'[r]) < Len(cards[r])]_vars
==============================================================================
