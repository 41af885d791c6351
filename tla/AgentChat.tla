------------------------------ MODULE AgentChat ------------------------------
(***************************************************************************)
(* One agent, its conversations, and the turns that write to them. A turn  *)
(* is one call of ChatOrchestrator.stream_chat: it commits the user's      *)
(* message, asks the model, and commits the assistant's message at the     *)
(* very end. Nothing is locked meanwhile, so turns of one thread overlap.  *)
(* The actions here are steps of a turn; who begins it, and what becomes   *)
(* of its text, is in the modules that extend this one.                    *)
(***************************************************************************)
EXTENDS Naturals, Sequences, FiniteSets

CONSTANTS
    Turn,       \* calls of stream_chat
    Thread,     \* ids of agent_chat_histories rows, used in order
    NoThread

ASSUME ChatAssumption ==
    Thread \subseteq Nat /\ NoThread \notin Thread /\ IsFiniteSet(Thread \cup Turn)

VARIABLES
    agentDeleted,   \* agents.is_deleted
    thread,         \* [Thread -> row: source, is_deleted and its messages' roles]
    turn            \* [Turn -> [step, thread]]

chatVars == <<agentDeleted, thread, turn>>

Unused == [source |-> "none", deleted |-> FALSE, roles |-> <<>>]
Idle == [step |-> "none", thread |-> NoThread]

Free == {c \in Thread : thread[c].source = "none"}

ChatInit ==
    /\ agentDeleted = FALSE
    /\ thread = [c \in Thread |-> Unused]
    /\ turn = [t \in Turn |-> Idle]

-----------------------------------------------------------------------------
(* create_conversation commits a row without messages.                      *)
CreateConversation(c, source) ==
    /\ c \in Free /\ \A b \in Free : c <= b
    /\ thread' = [thread EXCEPT ![c].source = source]

SaveMessage(c, role) == thread' = [thread EXCEPT ![c].roles = Append(@, role)]

(* The agent is read first: a soft-deleted one is not found, and the turn   *)
(* yields that and ends.                                                    *)
BeginTurn(t, c) ==
    turn' = [turn EXCEPT ![t] =
               [step |-> IF agentDeleted THEN "apologised" ELSE "loaded", thread |-> c]]

SaveQuestion_Never(t) ==
    /\ turn[t].step = "loaded"
    /\ turn' = [turn EXCEPT ![t].step = "asked"]
    /\ UNCHANGED <<agentDeleted, thread>>

SaveQuestion(t) ==
    /\ turn[t].step = "loaded"
    /\ SaveMessage(turn[t].thread, "user")
    /\ turn' = [turn EXCEPT ![t].step = "asked"]
    /\ UNCHANGED agentDeleted

(* The model fails while streaming: the visitor reads an apology, which is  *)
(* not saved.                                                               *)
Apologise(t) ==
    /\ turn[t].step = "asked"
    /\ turn' = [turn EXCEPT ![t].step = "apologised"]
    /\ UNCHANGED <<agentDeleted, thread>>

SaveReply(t) ==
    /\ turn[t].step = "asked"
    /\ SaveMessage(turn[t].thread, "assistant")
    /\ turn' = [turn EXCEPT ![t].step = "replied"]
    /\ UNCHANGED agentDeleted

(* An exception outside the streaming blocks: keys, tools, the database.    *)
TurnRaises(t) ==
    /\ turn[t].step \in {"loaded", "asked"}
    /\ turn' = [turn EXCEPT ![t].step = "raised"]
    /\ UNCHANGED <<agentDeleted, thread>>

StreamChat(t) ==
    SaveQuestion(t) \/ Apologise(t) \/ SaveReply(t) \/ TurnRaises(t)

Ended(t) == turn[t].step \in {"apologised", "replied"}

(* The owner deletes the agent, or a conversation; both only set a flag.    *)
DeleteAgent ==
    /\ ~agentDeleted
    /\ agentDeleted' = TRUE
    /\ UNCHANGED <<thread, turn>>

DeleteConversation(c) ==
    /\ thread[c].source # "none" /\ ~thread[c].deleted
    /\ thread' = [thread EXCEPT ![c].deleted = TRUE]
    /\ UNCHANGED <<agentDeleted, turn>>

-----------------------------------------------------------------------------
ChatTypeOK ==
    /\ agentDeleted \in BOOLEAN
    /\ thread \in [Thread -> [source : {"none", "agent_api", "null"}, deleted : BOOLEAN,
                              roles : Seq({"user", "assistant"})]]
    /\ turn \in [Turn -> [step : {"none", "loaded", "asked", "apologised",
                                  "replied", "raised", "cancelled"},
                          thread : Thread \cup {NoThread}]]

(* The messages of a role among the first n.                                *)
Count(roles, n, role) == Cardinality({i \in 1 .. n : roles[i] = role})

(* The transcript that the next turn sends to the model never holds more    *)
(* replies than questions up to any point, however turns overlap, fail or   *)
(* are delivered again, and a turn that is waiting has its question in it.  *)
QuestionFirst ==
    \A c \in Thread :
        LET roles == thread[c].roles IN
        \A n \in 0 .. Len(roles) :
            LET asked == Count(roles, n, "user")
                replied == Count(roles, n, "assistant")
            IN /\ replied <= asked
               /\ n = Len(roles) =>
                    asked - replied >=
                      Cardinality({t \in Turn : turn[t] = [step |-> "asked", thread |-> c]})
=============================================================================
