------------------------ MODULE MCConversationMemory ------------------------
\* Configurations of ConversationMemory for TLC.
EXTENDS ConversationMemory

CONSTANTS p1, p2

\* Token counts per message: one turn's messages alone exceed a limit of 3.
Sizes == [t \in 0..MaxTurns |-> IF t = 2 THEN 5 ELSE 1]

Base == [procs |-> {p1}, memory |-> "token", store |-> "slice",
         overwrite |-> TRUE, limit |-> 10, summarised |-> FALSE,
         windowSize |-> 1, maxTokenLimit |-> 3, badOutputs |-> TRUE,
         mayFail |-> TRUE, mayCrash |-> TRUE]

TokenOnSlice == Base
TokenOnSqlite == [Base EXCEPT !.store = "sqlite"]
TokenOnMongo == [Base EXCEPT !.store = "mongo"]
TokenOnPostgres == [Base EXCEPT !.store = "postgres"]
WindowOnSlice == [Base EXCEPT !.memory = "window"]
WindowOnSqlite == [TokenOnSqlite EXCEPT !.memory = "window"]
WindowOnMongo == [TokenOnMongo EXCEPT !.memory = "window", !.windowSize = 2]
WindowOnZep == [WindowOnSqlite EXCEPT !.store = "zep", !.summarised = TRUE]
SharedBuffer == [Base EXCEPT !.memory = "buffer", !.store = "sqlite",
                             !.overwrite = FALSE, !.procs = {p1, p2}]
Sound == {TokenOnSlice, TokenOnSqlite, TokenOnMongo, TokenOnPostgres,
          WindowOnSlice, WindowOnSqlite, WindowOnMongo, WindowOnZep,
          SharedBuffer}

\* Nothing fails and nothing crashes, on sqlite3: with Overwrite ...
WithOverwrite == {[TokenOnSqlite EXCEPT !.mayFail = FALSE, !.mayCrash = FALSE]}
\* ... as NewSqliteChatMessageHistory makes it, without ...
NoOverwrite == {[c EXCEPT !.overwrite = FALSE] : c \in WithOverwrite}
\* ... and with WithLimit below what the memory holds.
LowLimit == {[c EXCEPT !.limit = 3] : c \in WithOverwrite}

\* The stores that replace, with a call that fails.
Replacing == {[c EXCEPT !.mayCrash = FALSE] :
                c \in {TokenOnSqlite, TokenOnMongo, TokenOnPostgres}}
============================================================================
