-------------------------- MODULE ConversationMemory --------------------------
(***************************************************************************)
(* Conversation memories (src/memory) on top of the chat-history stores:   *)
(* SaveContext of the buffer, window and token memories, one action per    *)
(* call it makes of the store, and the stores' own operations: the         *)
(* in-process slice, sqlite3, mongo, postgres (alloydb and cloudsql, whose *)
(* code is the same) and zep.  Processes save turns of one session; a call *)
(* may fail after some of its effect, and the callers' process may crash   *)
(* between two calls and come back.                                        *)
(***************************************************************************)
EXTENDS Integers, FiniteSets, SequencesExt

CONSTANTS
    Callers,         \* whoever may call SaveContext
    Configurations,  \* the configurations checked
    Size,            \* the tokens of each turn's messages, and of a summary
    MaxTurns         \* bound: the turns ever begun

Configuration ==
    [procs : SUBSET Callers,    \* the callers that share the session
     memory : {"buffer", "window", "token"},
     store : {"slice", "sqlite", "mongo", "postgres", "zep"},
     overwrite : BOOLEAN,       \* sqlite3: WithOverwrite was given
     limit : Nat \ {0},         \* sqlite3: the max records per select
     summarised : BOOLEAN,      \* zep: the session has facts or a summary
     windowSize : Int,          \* the argument conversationWindowSize
     maxTokenLimit : Nat,
     badOutputs : BOOLEAN,      \* a chain's outputs may not be one string
     mayFail : BOOLEAN,         \* a call of a durable store may fail
     mayCrash : BOOLEAN]        \* the callers' process may crash

ASSUME MemoryAssumption ==
    /\ Configurations \subseteq Configuration
    /\ MaxTurns \in Nat /\ Size \in [0..MaxTurns -> Nat]

VARIABLES
    conf,     \* the configuration, which never changes
    store,    \* the messages of the session, in order of insertion
    durable,  \* what of them survives the loss of the connection
    openTx,   \* sqlite3: the connection is inside a transaction
    pc,       \* where each process is in SaveContext
    turn,     \* the turn it saves
    local,    \* the messages it last read and means to set
    turns,    \* how many turns were begun
    log,      \* every message ever inserted (history variable)
    torn,     \* how long log was when messages were last lost other than by
              \* a set that ended whole (history variable)
    acked     \* turns whose SaveContext returned nil (history variable)

vars == <<conf, store, durable, openTx, pc, turn, local, turns, log, torn, acked>>

Memory == conf.memory
Store == conf.store
TwoPhase == Store \in {"mongo", "postgres"}

DefaultWindowSize == 5
DefaultMessageSize == 2
Window == DefaultMessageSize *
            (IF conf.windowSize <= 0 THEN DefaultWindowSize
                                     ELSE conf.windowSize)

Message == [role : {"human", "ai"}, turn : 1..MaxTurns]
Summary == [role |-> "system", turn |-> 0]

Init ==
    /\ conf \in Configurations
    /\ store = <<>> /\ durable = <<>> /\ openTx = FALSE
    /\ pc = [p \in Callers |-> "idle"]
    /\ turn = [p \in Callers |-> 0]
    /\ local = [p \in Callers |-> <<>>]
    /\ turns = 0 /\ log = <<>> /\ torn = 0 /\ acked = {}

------------------------------------------------------------------------------
\* The store's operations.

\* The tokens of the messages one after the other, each at its place.
TokensOf(ms) == UNION {{i} \X (1..Size[ms[i].turn]) : i \in DOMAIN ms}
Tokens(ms) == Cardinality(TokensOf(ms))

\* sqlite3 selects the first Limit records, oldest first.
Stored == IF Store = "sqlite" /\ Len(store) > conf.limit
            THEN SubSeq(store, 1, conf.limit) ELSE store

\* Messages: zep puts a system message with what it extracted from the session
\* before the messages.
Messages == IF Store = "zep" /\ conf.summarised THEN <<Summary>> \o Stored
                                                 ELSE Stored

\* A write is durable at once, unless it happens inside an open transaction;
\* the slice is never durable.
Write(ms) ==
    /\ store' = ms
    /\ durable' = IF openTx \/ Store = "slice" THEN durable ELSE ms

Insert(m) ==
    /\ Write(Append(store, m))
    /\ log' = Append(log, m)
    /\ UNCHANGED openTx

\* The outcomes of a SetMessages that no failure disturbs.
\* sqlite3 without Overwrite and zep return nil and change nothing.
SetNothing(ms) ==
    /\ Store = "zep" \/ (Store = "sqlite" /\ ~conf.overwrite)
    /\ UNCHANGED <<store, durable, openTx>>

SetSlice(ms) ==
    /\ Store = "slice"
    /\ Write(ms) /\ UNCHANGED openTx

\* sqlite3: BEGIN; DELETE; INSERT ... VALUES (...), ...; COMMIT in one Exec.
SetTransaction(ms) ==
    /\ Store = "sqlite" /\ conf.overwrite /\ ms # <<>> /\ ~openTx
    /\ Write(ms) /\ UNCHANGED openTx

\* With no message there is no VALUES row: the driver runs BEGIN and DELETE and
\* then rejects the INSERT, so the COMMIT is never reached.
SetTransactionEmpty(ms) ==
    /\ Store = "sqlite" /\ conf.overwrite /\ ms = <<>> /\ ~openTx
    /\ store' = <<>> /\ openTx' = TRUE
    /\ UNCHANGED durable

\* A BEGIN inside a transaction is an error.
SetTransactionNested(ms) ==
    /\ Store = "sqlite" /\ conf.overwrite /\ openTx
    /\ UNCHANGED <<store, durable, openTx>>

------------------------------------------------------------------------------
Goto(p, l) == pc' = [pc EXCEPT ![p] = l]
Returned(p, ok) ==
    /\ Goto(p, "idle")
    /\ acked' = IF ok THEN acked \cup {turn[p]} ELSE acked

\* A call of a durable store fails: SaveContext returns its error.
Calls == {"user", "ai", "cut", "count", "read", "set", "insert"}
ReturnsError(p) ==
    /\ conf.mayFail /\ Store # "slice" /\ pc[p] \in Calls
    /\ Returned(p, FALSE)
    /\ UNCHANGED <<turn, local, turns>>

\* Mutant: the store's error is logged and swallowed.
FailsSilently(p) ==
    /\ conf.mayFail /\ Store # "slice" /\ pc[p] \in Calls \ {"insert"}
    /\ Returned(p, TRUE)
    /\ UNCHANGED <<store, durable, openTx, turn, local, turns, log, torn>>

\* It had no effect.
FailsWithoutEffect(p) ==
    /\ pc[p] # "insert" /\ ReturnsError(p)
    /\ UNCHANGED <<store, durable, openTx, log, torn>>

\* A server inserted the message, and its answer was lost.
FailsHavingInserted(p) ==
    /\ TwoPhase \/ Store = "zep"
    /\ \/ pc[p] = "user" /\ Insert([role |-> "human", turn |-> turn[p]])
       \/ pc[p] = "ai" /\ Insert([role |-> "ai", turn |-> turn[p]])
    /\ ReturnsError(p) /\ UNCHANGED torn

\* sqlite3's DELETE, INSERT or COMMIT fails: nobody rolls back, so what ran of
\* the transaction stays, and the transaction stays open.
TransactionFails(p) ==
    /\ pc[p] = "set" /\ Store = "sqlite" /\ conf.overwrite /\ ~openTx
    /\ openTx' = TRUE /\ UNCHANGED durable
    /\ \/ store' \in {store, local[p]} /\ UNCHANGED torn
       \/ store' = <<>> /\ torn' = Len(log)
    /\ ReturnsError(p) /\ UNCHANGED log

\* A statement that fails inside the open transaction (disk full, I/O error,
\* interrupt) may make SQLite itself roll it back.
FailsRolledBack(p) ==
    /\ openTx
    /\ store' = durable /\ openTx' = FALSE /\ torn' = Len(log)
    /\ ReturnsError(p) /\ UNCHANGED <<durable, log>>

\* Clear deleted and failed all the same: mongo some of the documents, oldest
\* first, postgres all of the rows.
ClearFails(p) ==
    /\ pc[p] = "set" /\ TwoPhase
    /\ \E n \in 1..Len(store) :
          /\ Store = "postgres" => n = Len(store)
          /\ Write(SubSeq(store, n + 1, Len(store)))
    /\ torn' = Len(log)
    /\ ReturnsError(p) /\ UNCHANGED <<openTx, log>>

\* The insert after the Clear fails: of mongo's InsertMany the first documents
\* may be in, of postgres' batch all or none.
InsertFails(p) ==
    /\ pc[p] = "insert"
    /\ \E n \in 0..Len(local[p]) :
          /\ Store = "postgres" => n \in {0, Len(local[p])}
          /\ Write(store \o SubSeq(local[p], 1, n))
          /\ torn' = IF n = Len(local[p]) THEN torn ELSE Len(log)
    /\ ReturnsError(p) /\ UNCHANGED <<openTx, log>>

Fails(p) == \/ FailsWithoutEffect(p) \/ FailsHavingInserted(p)
            \/ TransactionFails(p) \/ FailsRolledBack(p)
            \/ ClearFails(p) \/ InsertFails(p)

\* SaveContext is called with a new turn; the input was validated first.
Begin(p) ==
    /\ pc[p] = "idle" /\ turns < MaxTurns
    /\ turns' = turns + 1
    /\ turn' = [turn EXCEPT ![p] = turns + 1]
    /\ Goto(p, "user")
    /\ UNCHANGED <<store, durable, openTx, local, log, torn, acked>>

AddUserMessage(p) ==
    /\ pc[p] = "user"
    /\ Insert([role |-> "human", turn |-> turn[p]])
    /\ Goto(p, "ai")
    /\ UNCHANGED <<turn, local, turns, torn, acked>>

\* GetInputValue fails on the outputs after the user's message was added.
OutputInvalid(p) ==
    /\ pc[p] = "ai" /\ conf.badOutputs
    /\ Returned(p, FALSE)
    /\ UNCHANGED <<store, durable, openTx, turn, local, turns, log, torn>>

AfterSave == CASE Memory = "buffer" -> "done"
               [] Memory = "window" -> "cut"
               [] Memory = "token"  -> "count"

AddAIMessage(p) ==
    /\ pc[p] = "ai"
    /\ Insert([role |-> "ai", turn |-> turn[p]])
    /\ IF AfterSave = "done"
         THEN Returned(p, TRUE)
         ELSE Goto(p, AfterSave) /\ UNCHANGED acked
    /\ UNCHANGED <<turn, local, turns, torn>>

\* Mutant: the window counts messages, not pairs of them.
CutCountsMessages(ms) ==
    LET n == Window \div DefaultMessageSize IN
    IF Len(ms) > n THEN SubSeq(ms, Len(ms) - n + 1, Len(ms)) ELSE ms

\* Window memory: keep the last messages if there are more than the window.
CutMessages(ms) == IF Len(ms) > Window
                     THEN SubSeq(ms, Len(ms) - Window + 1, Len(ms)) ELSE ms
Cut(p) ==
    /\ pc[p] = "cut"
    /\ IF Len(Messages) > Window
         THEN /\ local' = [local EXCEPT ![p] = CutMessages(Messages)]
              /\ Goto(p, "set") /\ UNCHANGED acked
         ELSE Returned(p, TRUE) /\ UNCHANGED local
    /\ UNCHANGED <<store, durable, openTx, turn, turns, log, torn>>

\* Mutant: a memory exactly at the limit is trimmed too.
CountAtLimit(p) ==
    /\ pc[p] = "count"
    /\ IF Tokens(Messages) >= conf.maxTokenLimit
         THEN Goto(p, "read") /\ UNCHANGED acked
         ELSE Returned(p, TRUE)
    /\ UNCHANGED <<store, durable, openTx, turn, local, turns, log, torn>>

\* Token memory: while the messages read exceed the limit, set all but the first.
Count(p) ==
    /\ pc[p] = "count"
    /\ IF Tokens(Messages) > conf.maxTokenLimit
         THEN Goto(p, "read") /\ UNCHANGED acked
         ELSE Returned(p, TRUE)
    /\ UNCHANGED <<store, durable, openTx, turn, local, turns, log, torn>>

DropOldest(ms) == Tail(ms)
Read(p) ==
    /\ pc[p] = "read"
    /\ IF Messages = <<>>
         THEN Returned(p, TRUE) /\ UNCHANGED local
         ELSE /\ local' = [local EXCEPT ![p] = DropOldest(Messages)]
              /\ Goto(p, "set") /\ UNCHANGED acked
    /\ UNCHANGED <<store, durable, openTx, turn, turns, log, torn>>

AfterSet(p) == IF Memory = "token"
                 THEN Goto(p, "count") /\ UNCHANGED acked
                 ELSE Returned(p, TRUE)

SetMessages(p) ==
    /\ pc[p] = "set"
    /\ SetNothing(local[p]) \/ SetSlice(local[p]) \/ SetTransaction(local[p])
    /\ AfterSet(p)
    /\ UNCHANGED <<turn, local, turns, log, torn>>

\* Mutant: the error of SetMessages is not looked at.
SetMessagesErrorIgnored(p) ==
    /\ pc[p] = "set"
    /\ SetTransactionEmpty(local[p]) \/ SetTransactionNested(local[p])
    /\ AfterSet(p)
    /\ UNCHANGED <<turn, local, turns, log, torn>>

SetMessagesError(p) ==
    /\ pc[p] = "set"
    /\ SetTransactionEmpty(local[p]) \/ SetTransactionNested(local[p])
    /\ Returned(p, FALSE)
    /\ UNCHANGED <<turn, local, turns, log, torn>>

\* Mutant: SetMessages without the Clear.
SetClearsNothing(p) ==
    /\ pc[p] = "set" /\ TwoPhase
    /\ Goto(p, "insert")
    /\ UNCHANGED <<store, durable, openTx, turn, local, turns, log, torn, acked>>

\* mongo and postgres: Clear is a call of its own, the inserts another.
SetClears(p) ==
    /\ pc[p] = "set" /\ TwoPhase
    /\ Write(<<>>) /\ UNCHANGED openTx
    /\ Goto(p, "insert")
    /\ UNCHANGED <<turn, local, turns, log, torn, acked>>

SetInserts(p) ==
    /\ pc[p] = "insert" /\ ~(Store = "mongo" /\ local[p] = <<>>)
    /\ Write(store \o local[p]) /\ UNCHANGED openTx
    /\ AfterSet(p)
    /\ UNCHANGED <<turn, local, turns, log, torn>>

\* InsertMany of no document is an error.
SetInsertsNothing(p) ==
    /\ pc[p] = "insert" /\ Store = "mongo" /\ local[p] = <<>>
    /\ Returned(p, FALSE)
    /\ UNCHANGED <<store, durable, openTx, turn, local, turns, log, torn>>

\* The processes of the session are one operating-system process: its crash
\* takes the slice, the open transaction, and the messages between Clear and
\* insert with it.
Crash ==
    /\ conf.mayCrash
    /\ store' = durable
    /\ openTx' = FALSE
    /\ pc' = [p \in Callers |-> "idle"]
    /\ torn' = IF \/ Store = "slice" \/ openTx
                  \/ \E p \in Callers : pc[p] = "insert"
                 THEN Len(log) ELSE torn
    /\ UNCHANGED <<durable, turn, local, turns, log, acked>>

Save(p) ==
    /\ \/ AddUserMessage(p) \/ OutputInvalid(p) \/ AddAIMessage(p)
       \/ Cut(p) \/ Count(p) \/ Read(p)
       \/ SetMessages(p) \/ SetMessagesError(p)
       \/ SetClears(p) \/ SetInserts(p) \/ SetInsertsNothing(p)
    /\ UNCHANGED conf

Next == /\ \/ \E p \in conf.procs : Begin(p) \/ Save(p) \/ Fails(p)
           \/ Crash
        /\ UNCHANGED conf

Spec == Init /\ [][Next]_vars

\* SaveContext runs on; nobody has to call it, and nothing has to fail.
FairSpec == Spec /\ \A p \in Callers : WF_vars(Save(p))

------------------------------------------------------------------------------
Idle == \A p \in conf.procs : pc[p] = "idle"

TypeOK ==
    /\ conf \in Configurations
    /\ store \in Seq(Message) /\ durable \in Seq(Message)
    /\ openTx \in BOOLEAN
    /\ pc \in [Callers -> {"idle", "user", "ai", "cut", "count", "read", "set",
                         "insert"}]
    /\ turn \in [Callers -> 0..MaxTurns]
    /\ local \in [Callers -> Seq(Message)]
    /\ turns \in 0..MaxTurns
    /\ log \in Seq(Message) /\ torn \in 0..Len(log)
    /\ acked \subseteq 1..MaxTurns

\* What LoadMemoryVariables puts in the prompt, and the conversation in it.
Loaded == IF Memory = "window" THEN CutMessages(Messages) ELSE Messages
Said == IF Loaded # <<>> /\ Loaded[1] = Summary THEN Tail(Loaded) ELSE Loaded

Position(m, ms) == CHOOSE k \in DOMAIN ms : ms[k] = m
Follows(ms, all) ==
    /\ ToSet(ms) \subseteq ToSet(all)
    /\ \A i, j \in DOMAIN ms : i < j => Position(ms[i], all) < Position(ms[j], all)

\* What was inserted since messages were last lost.
Rest == SubSeq(log, torn + 1, Len(log))

\* Between two saves the prompt is what was said, in its order and nothing
\* twice, whatever failed or crashed; of what was said since messages were last
\* lost, it is all, or the end of it: a whole window of a window memory.
LoadsTheTail ==
    Idle => /\ Follows(Said, log)
            /\ \/ IsSuffix(Rest, Said)
               \/ /\ IsSuffix(Said, Rest) /\ Memory # "buffer"
                  /\ Memory = "window" => Len(Said) = Window

\* The token memory keeps as much of the conversation as its limit allows: what
\* is stored fits, and one more of the messages since the last loss would not.
KeepsWhatFits ==
    Memory = "token" /\ Idle /\ turns \in acked /\ Rest # <<>> =>
        /\ Tokens(store) <= conf.maxTokenLimit
        /\ \A n \in torn..Len(log) :
              Tokens(SubSeq(log, n + 1, Len(log))) <= conf.maxTokenLimit
                  => Len(store) >= Len(log) - n

\* Every SaveContext comes to an end.
SaveReturns == \A p \in Callers : pc[p] # "idle" ~> pc[p] = "idle"

Human(t) == [role |-> "human", turn |-> t]
AI(t)    == [role |-> "ai", turn |-> t]
Holds(ms, t) == /\ Human(t) \in ToSet(ms) /\ AI(t) \in ToSet(ms)
                /\ Position(Human(t), ms) < Position(AI(t), ms)

\* A turn whose SaveContext returned nil to a buffer memory stays, whatever
\* crashes and whoever saves to the session meanwhile: question, then answer.
AckedTurnsSurvive ==
    Memory = "buffer" /\ Store # "slice" => \A t \in acked : Holds(durable, t)

\* The acknowledged turns of the last window of a window memory are there,
\* whatever failed or crashed, unless they were said before messages were lost.
RecentTurnsSurvive ==
    Memory = "window" /\ (\A p \in Callers : pc[p] # "insert") =>
        \A t \in acked :
            Human(t) \in ToSet(Rest) /\ 2 * (turns - t + 1) <= Window
                => Holds(store, t)

------------------------------------------------------------------------------
\* Statements of the source that do not hold in every configuration.

\* "We keep removing messages from the memory from the oldest": each pass of
\* the token memory's loop leaves fewer messages ...
TrimShrinks ==
    [][\A p \in conf.procs : pc[p] = "set" /\ pc'[p] = "count"
          => Len(store') < Len(store)]_vars

\* ... and what it removes is the oldest.
TrimKeepsNewest ==
    [][\A p \in conf.procs : pc[p] = "set" /\ pc'[p] = "count"
          => IsSuffix(store', store)]_vars

\* SetMessages is one transaction: none is open between two saves.
NoTransactionLeftOpen == Idle => ~openTx

\* "SetMessages replaces existing messages in the store": by the new ones, or,
\* when it fails, not at all.
NothingLost == torn = 0
==============================================================================
