----------------------------- MODULE AgentProofs -----------------------------
(* Theorems about the agents: the conversations that the API and the        *)
(* channels hold, the cap on them, the owner's calls that configure an      *)
(* agent, and the limit on requests. For any number of conversations,       *)
(* requests, calls and limits.                                              *)
EXTENDS AgentTraffic, AgentAdmin, RateWindow, FiniteSetTheorems, TLAPS

(* A conversation: its messages are the user's and the assistant's.         *)
Role == {"user", "assistant"}

TrafficTypeOK == ChatTypeOK /\ ApiTypeOK /\ GatewayTypeOK

(* A turn that goes on has its conversation; so has a channel's message     *)
(* whose session is open.                                                   *)
Placed == \A t \in Turn : turn[t].step \in {"loaded", "asked"} => turn[t].thread \in Thread

Opened ==
    \A i \in Inbound :
      inbound[i].step \in {"opened", "queued", "processing", "sent"} => inbound[i].thread \in Thread

(* The turns whose question is saved and whose reply is not.                *)
Awaiting(c) == {t \in Turn : turn[t] = [step |-> "asked", thread |-> c]}

(* Counts over transcripts: a count is a number, ...                        *)
LEMMA Counted ==
    ASSUME NEW roles \in Seq(Role), NEW role, NEW n \in 0 .. Len(roles)
    PROVE  Count(roles, n, role) \in Nat
<1>1. IsFiniteSet(1 .. n)
  BY FS_Interval
<1>2. IsFiniteSet({i \in 1 .. n : roles[i] = role})
  BY <1>1, FS_Subset
<1> QED
  BY <1>2, FS_CardinalityType DEF Count

(* ... and a message more is one more of its role, from its own place on.   *)
LEMMA CountsOn ==
    ASSUME NEW roles \in Seq(Role), NEW said \in Role, NEW role \in Role
    PROVE  /\ \A n \in 0 .. Len(roles) : Count(Append(roles, said), n, role) = Count(roles, n, role)
           /\ Count(Append(roles, said), Len(roles) + 1, role) =
                Count(roles, Len(roles), role) + (IF said = role THEN 1 ELSE 0)
<1> DEFINE more == Append(roles, said)
           those(n) == {i \in 1 .. n : roles[i] = role}
<1>1. /\ Len(roles) \in Nat /\ more[Len(roles) + 1] = said
      /\ \A i \in 1 .. Len(roles) : more[i] = roles[i]
  OBVIOUS
<1>2. ASSUME NEW n \in 0 .. Len(roles) PROVE Count(more, n, role) = Count(roles, n, role)
  <2>1. {i \in 1 .. n : more[i] = role} = those(n)
    BY <1>1
  <2> QED
    BY <2>1 DEF Count
<1>3. IsFiniteSet(those(Len(roles))) /\ Len(roles) + 1 \notin those(Len(roles))
  <2>1. IsFiniteSet(1 .. Len(roles))
    BY <1>1, FS_Interval
  <2> QED
    BY <1>1, <2>1, FS_Subset
<1>4. {i \in 1 .. (Len(roles) + 1) : more[i] = role} =
        those(Len(roles)) \cup (IF said = role THEN {Len(roles) + 1} ELSE {})
  BY <1>1
<1>5. /\ Count(more, Len(roles) + 1, role) = Cardinality({i \in 1 .. (Len(roles) + 1) : more[i] = role})
      /\ Count(roles, Len(roles), role) = Cardinality(those(Len(roles)))
  BY DEF Count
<1>6. Count(roles, Len(roles), role) \in Nat
  BY <1>1, Counted
<1>7. CASE said = role
  <2>1. Cardinality(those(Len(roles)) \cup {Len(roles) + 1}) = Cardinality(those(Len(roles))) + 1
    BY <1>3, FS_AddElement
  <2> QED
    BY <1>2, <1>4, <1>5, <1>7, <2>1
<1>8. CASE said # role
  <2>1. {i \in 1 .. (Len(roles) + 1) : more[i] = role} = those(Len(roles))
    BY <1>1, <1>8
  <2>2. Count(more, Len(roles) + 1, role) = Count(roles, Len(roles), role)
    BY <1>5, <2>1
  <2> QED
    BY <1>2, <1>6, <1>8, <2>2
<1> QED
  BY <1>7, <1>8

(* Threads and turns are finitely many, so what awaits can be counted.      *)
LEMMA ChatFinite == IsFiniteSet(Thread) /\ IsFiniteSet(Turn)
  BY ChatAssumption, FS_Subset

LEMMA AwaitingFinite == \A c : IsFiniteSet(Awaiting(c)) /\ Cardinality(Awaiting(c)) \in Nat
<1> TAKE c
<1>1. IsFiniteSet(Awaiting(c))
  BY ChatFinite, FS_Subset DEF Awaiting
<1> QED
  BY <1>1, FS_CardinalityType

(* What QuestionFirst says of one conversation.                            *)
Transcript(c) ==
    /\ \A n \in 0 .. Len(thread[c].roles) :
         Count(thread[c].roles, n, "assistant") <= Count(thread[c].roles, n, "user")
    /\ Count(thread[c].roles, Len(thread[c].roles), "user")
         - Count(thread[c].roles, Len(thread[c].roles), "assistant") >= Cardinality(Awaiting(c))

(* In order everywhere is in order in each conversation.                    *)
LEMMA OneByOne == ChatTypeOK => (QuestionFirst <=> \A c \in Thread : Transcript(c))
<1> SUFFICES ASSUME ChatTypeOK PROVE QuestionFirst <=> \A c \in Thread : Transcript(c)
  OBVIOUS
<1>1. \A c \in Thread : Len(thread[c].roles) \in Nat
  BY DEF ChatTypeOK
<1>2. ASSUME NEW c \in Thread
      PROVE  Transcript(c) <=>
               LET roles == thread[c].roles IN
               \A n \in 0 .. Len(roles) :
                 /\ Count(roles, n, "assistant") <= Count(roles, n, "user")
                 /\ n = Len(roles) =>
                      Count(roles, n, "user") - Count(roles, n, "assistant") >= Cardinality(Awaiting(c))
  <2>1. Len(thread[c].roles) \in 0 .. Len(thread[c].roles)
    BY <1>1
  <2> QED
    BY <2>1 DEF Transcript
<1> QED
  BY <1>2 DEF QuestionFirst, Awaiting

(* A conversation to which nothing is said stays in order if no turn begins *)
(* to await in it; ...                                                      *)
LEMMA NothingSaid ==
    ASSUME ChatTypeOK, ChatTypeOK', NEW c \in Thread, Transcript(c),
           thread'[c].roles = thread[c].roles, Awaiting(c)' \subseteq Awaiting(c)
    PROVE  Transcript(c)'
<1>1. Cardinality(Awaiting(c)') <= Cardinality(Awaiting(c)) /\ Cardinality(Awaiting(c)') \in Nat
      /\ Cardinality(Awaiting(c)) \in Nat
  BY AwaitingFinite, FS_Subset, FS_CardinalityType
<1>2. /\ Len(thread[c].roles) \in Nat
      /\ Count(thread[c].roles, Len(thread[c].roles), "user") \in Nat
      /\ Count(thread[c].roles, Len(thread[c].roles), "assistant") \in Nat
  BY Counted DEF ChatTypeOK, Role
<1> QED
  BY <1>1, <1>2 DEF Transcript

(* ... a question leaves room for the reply its turn now awaits, ...        *)
LEMMA QuestionSaid ==
    ASSUME ChatTypeOK, ChatTypeOK', Placed, NEW t \in Turn, SaveQuestion(t), NEW c \in Thread,
           Transcript(c)
    PROVE  Transcript(c)'
<1> DEFINE roles == thread[c].roles
<1>1. /\ thread' = [thread EXCEPT ![turn[t].thread].roles = Append(@, "user")]
      /\ turn' = [turn EXCEPT ![t].step = "asked"] /\ turn[t].step = "loaded"
      /\ turn[t].thread \in Thread
  BY DEF SaveQuestion, SaveMessage, Placed
<1>2. CASE c # turn[t].thread
  <2>1. thread'[c].roles = thread[c].roles
    BY <1>1, <1>2 DEF ChatTypeOK
  <2>2. Awaiting(c)' \subseteq Awaiting(c)
    BY <1>1, <1>2 DEF ChatTypeOK, Awaiting
  <2> QED
    BY <2>1, <2>2, NothingSaid
<1>3. CASE c = turn[t].thread
  <2>1. thread'[c].roles = Append(roles, "user") /\ roles \in Seq(Role) /\ Len(roles) \in Nat
        /\ Len(thread'[c].roles) = Len(roles) + 1
    BY <1>1, <1>3 DEF ChatTypeOK, Role
  <2>2. Awaiting(c)' = Awaiting(c) \cup {t} /\ t \notin Awaiting(c)
    BY <1>1, <1>3 DEF ChatTypeOK, Awaiting
  <2>3. Cardinality(Awaiting(c)') = Cardinality(Awaiting(c)) + 1 /\ Cardinality(Awaiting(c)) \in Nat
    BY <2>2, AwaitingFinite, FS_AddElement
  <2>4. /\ \A n \in 0 .. Len(roles) : /\ Count(thread'[c].roles, n, "user") = Count(roles, n, "user")
                                      /\ Count(thread'[c].roles, n, "assistant") = Count(roles, n, "assistant")
        /\ Count(thread'[c].roles, Len(roles) + 1, "user") = Count(roles, Len(roles), "user") + 1
        /\ Count(thread'[c].roles, Len(roles) + 1, "assistant") = Count(roles, Len(roles), "assistant")
    <3>1. {"user", "assistant"} \subseteq Role
      BY DEF Role
    <3>2. Count(roles, Len(roles), "assistant") \in Nat
      BY <2>1, Counted
    <3> HIDE DEF roles
    <3>3. /\ \A n \in 0 .. Len(roles) : Count(Append(roles, "user"), n, "user") = Count(roles, n, "user")
          /\ Count(Append(roles, "user"), Len(roles) + 1, "user") = Count(roles, Len(roles), "user") + 1
      BY <2>1, <3>1, CountsOn
    <3>4. /\ \A n \in 0 .. Len(roles) :
                Count(Append(roles, "user"), n, "assistant") = Count(roles, n, "assistant")
          /\ Count(Append(roles, "user"), Len(roles) + 1, "assistant")
               = Count(roles, Len(roles), "assistant") + 0
      BY <2>1, <3>1, CountsOn
    <3> QED
      BY <2>1, <3>2, <3>3, <3>4
  <2>5. Count(roles, Len(roles), "user") \in Nat /\ Count(roles, Len(roles), "assistant") \in Nat
    BY <2>1, Counted
  <2> HIDE DEF roles
  <2>6. \A n \in 0 .. Len(roles) : Count(roles, n, "assistant") <= Count(roles, n, "user")
    BY DEF Transcript, roles
  <2>7. Count(roles, Len(roles), "user") - Count(roles, Len(roles), "assistant") >= Cardinality(Awaiting(c))
    BY DEF Transcript, roles
  <2>8. \A n \in 0 .. Len(thread'[c].roles) :
          Count(thread'[c].roles, n, "assistant") <= Count(thread'[c].roles, n, "user")
    BY <2>1, <2>4, <2>5, <2>6
  <2>9. Count(thread'[c].roles, Len(thread'[c].roles), "user")
          - Count(thread'[c].roles, Len(thread'[c].roles), "assistant") >= Cardinality(Awaiting(c)')
    BY <2>1, <2>3, <2>4, <2>5, <2>7
  <2> QED
    BY <2>8, <2>9 DEF Transcript
<1> QED
  BY <1>2, <1>3

(* ... and a reply takes the room that its turn was awaiting.               *)
LEMMA ReplySaid ==
    ASSUME ChatTypeOK, ChatTypeOK', Placed, NEW t \in Turn, SaveReply(t), NEW c \in Thread,
           Transcript(c)
    PROVE  Transcript(c)'
<1> DEFINE roles == thread[c].roles
<1>1. /\ thread' = [thread EXCEPT ![turn[t].thread].roles = Append(@, "assistant")]
      /\ turn' = [turn EXCEPT ![t].step = "replied"] /\ turn[t].step = "asked"
      /\ turn[t].thread \in Thread
  BY DEF SaveReply, SaveMessage, Placed
<1>2. CASE c # turn[t].thread
  <2>1. thread'[c].roles = thread[c].roles
    BY <1>1, <1>2 DEF ChatTypeOK
  <2>2. Awaiting(c)' \subseteq Awaiting(c)
    BY <1>1, <1>2 DEF ChatTypeOK, Awaiting
  <2> QED
    BY <2>1, <2>2, NothingSaid
<1>3. CASE c = turn[t].thread
  <2>1. thread'[c].roles = Append(roles, "assistant") /\ roles \in Seq(Role) /\ Len(roles) \in Nat
        /\ Len(thread'[c].roles) = Len(roles) + 1
    BY <1>1, <1>3 DEF ChatTypeOK, Role
  <2>2. Awaiting(c)' = Awaiting(c) \ {t} /\ t \in Awaiting(c)
    BY <1>1, <1>3 DEF ChatTypeOK, Awaiting
  <2>3. Cardinality(Awaiting(c)') = Cardinality(Awaiting(c)) - 1 /\ Cardinality(Awaiting(c)) \in Nat
        /\ Cardinality(Awaiting(c)') \in Nat
    BY <2>2, AwaitingFinite, FS_RemoveElement, FS_CardinalityType
  <2>4. /\ \A n \in 0 .. Len(roles) : /\ Count(thread'[c].roles, n, "user") = Count(roles, n, "user")
                                      /\ Count(thread'[c].roles, n, "assistant") = Count(roles, n, "assistant")
        /\ Count(thread'[c].roles, Len(roles) + 1, "user") = Count(roles, Len(roles), "user")
        /\ Count(thread'[c].roles, Len(roles) + 1, "assistant") = Count(roles, Len(roles), "assistant") + 1
    <3>1. "user" \in Role /\ "assistant" \in Role
      BY DEF Role
    <3>2. PICK q \in Seq(Role) : q = roles
      BY <2>1
    <3>3. /\ \A n \in 0 .. Len(q) : Count(Append(q, "assistant"), n, "user") = Count(q, n, "user")
          /\ Count(Append(q, "assistant"), Len(q) + 1, "user") = Count(q, Len(q), "user") + 0
      BY <3>1, CountsOn
    <3>4. /\ \A n \in 0 .. Len(q) :
               Count(Append(q, "assistant"), n, "assistant") = Count(q, n, "assistant")
          /\ Count(Append(q, "assistant"), Len(q) + 1, "assistant") =
               Count(q, Len(q), "assistant") + 1
      BY <3>1, CountsOn
    <3>5. Count(q, Len(q), "user") \in Nat
      <4>1. Len(q) \in 0 .. Len(q)
        OBVIOUS
      <4> QED
        BY <4>1, Counted
    <3> QED
      BY <2>1, <3>2, <3>3, <3>4, <3>5
  <2>5. Count(roles, Len(roles), "user") \in Nat /\ Count(roles, Len(roles), "assistant") \in Nat
    BY <2>1, Counted
  <2> HIDE DEF roles
  <2>6. \A n \in 0 .. Len(roles) : Count(roles, n, "assistant") <= Count(roles, n, "user")
    BY DEF Transcript, roles
  <2>7. Count(roles, Len(roles), "user") - Count(roles, Len(roles), "assistant") >= Cardinality(Awaiting(c))
    BY DEF Transcript, roles
  <2>8. \A n \in 0 .. Len(thread'[c].roles) :
          Count(thread'[c].roles, n, "assistant") <= Count(thread'[c].roles, n, "user")
    BY <2>1, <2>3, <2>4, <2>5, <2>6, <2>7
  <2>9. Count(thread'[c].roles, Len(thread'[c].roles), "user")
          - Count(thread'[c].roles, Len(thread'[c].roles), "assistant") >= Cardinality(Awaiting(c)')
    BY <2>1, <2>3, <2>4, <2>5, <2>7
  <2> QED
    BY <2>8, <2>9 DEF Transcript
<1> QED
  BY <1>2, <1>3

(* All that a conversation ever sees.                                       *)
ChatMove ==
    \/ DeleteAgent
    \/ \E c \in Thread : DeleteConversation(c)
    \/ \E c \in Free, source \in {"agent_api", "null"} :
         CreateConversation(c, source) /\ UNCHANGED <<agentDeleted, turn>>
    \/ \E t \in Turn :
         \/ StreamChat(t)
         \/ \E c \in Thread : BeginTurn(t, c) /\ UNCHANGED <<agentDeleted, thread>>
         \/ \E c \in Free : CreateConversation(c, "agent_api") /\ BeginTurn(t, c) /\ UNCHANGED agentDeleted
         \/ turn' = [turn EXCEPT ![t].step = "cancelled"] /\ UNCHANGED <<agentDeleted, thread>>
         \/ turn' = [turn EXCEPT ![t] = Idle] /\ UNCHANGED <<agentDeleted, thread>>

ChatSpec == ChatInit /\ [][ChatMove]_chatVars

(* The types, and their induction.                                          *)
ChatTyped == ChatTypeOK /\ Placed

LEMMA MoveTyped == ChatTyped /\ [ChatMove]_chatVars => ChatTyped'
<1> SUFFICES ASSUME ChatTyped, [ChatMove]_chatVars PROVE ChatTyped'
  OBVIOUS
<1>1. CASE DeleteAgent
  BY <1>1 DEF ChatTyped, ChatTypeOK, Placed, DeleteAgent
<1>2. ASSUME NEW c \in Thread, DeleteConversation(c) PROVE ChatTyped'
  BY <1>2 DEF ChatTyped, ChatTypeOK, Placed, DeleteConversation
<1>3. ASSUME NEW c \in Free, NEW source \in {"agent_api", "null"}, CreateConversation(c, source),
             UNCHANGED <<agentDeleted, turn>>
      PROVE  ChatTyped'
  BY <1>3 DEF ChatTyped, ChatTypeOK, Placed, CreateConversation, Free
<1>4. ASSUME NEW t \in Turn, SaveQuestion(t) \/ SaveReply(t) PROVE ChatTyped'
  <2>1. /\ turn[t].thread \in Thread /\ UNCHANGED agentDeleted
        /\ \E role \in Role : thread' = [thread EXCEPT ![turn[t].thread].roles = Append(@, role)]
        /\ \E step \in {"asked", "replied"} : turn' = [turn EXCEPT ![t].step = step]
    BY <1>4 DEF SaveQuestion, SaveReply, SaveMessage, ChatTyped, Placed, Role
  <2>2. PICK role \in Role : thread' = [thread EXCEPT ![turn[t].thread].roles = Append(@, role)]
    BY <2>1
  <2>3. Append(thread[turn[t].thread].roles, role) \in Seq({"user", "assistant"})
    BY <2>1, <2>2 DEF ChatTyped, ChatTypeOK, Role
  <2>4. ChatTypeOK'
    <3>1. thread' \in [Thread -> [source : {"none", "agent_api", "null"}, deleted : BOOLEAN,
                                 roles : Seq({"user", "assistant"})]]
      <4>1. thread \in [Thread -> [source : {"none", "agent_api", "null"}, deleted : BOOLEAN,
                                   roles : Seq({"user", "assistant"})]]
            /\ turn[t].thread \in Thread
        BY <2>1 DEF ChatTyped, ChatTypeOK
      <4>2. PICK q \in Seq({"user", "assistant"}) : q = Append(thread[turn[t].thread].roles, role)
        BY <2>3
      <4>3. thread' = [thread EXCEPT ![turn[t].thread].roles = q]
        BY <2>2, <4>2
      <4> QED
        BY <4>1, <4>3
    <3>2. PICK step \in {"asked", "replied"} : turn' = [turn EXCEPT ![t].step = step]
      BY <2>1
    <3> QED
      BY <2>1, <3>1, <3>2 DEF ChatTyped, ChatTypeOK
  <2>5. Placed'
    BY <2>1 DEF ChatTyped, ChatTypeOK, Placed
  <2> QED
    BY <2>4, <2>5 DEF ChatTyped
<1>5. ASSUME NEW t \in Turn, Apologise(t) \/ TurnRaises(t) PROVE ChatTyped'
  <2>1. CASE Apologise(t)
    BY <2>1 DEF ChatTyped, ChatTypeOK, Placed, Apologise
  <2>2. CASE TurnRaises(t)
    BY <2>2 DEF ChatTyped, ChatTypeOK, Placed, TurnRaises
  <2> QED
    BY <1>5, <2>1, <2>2
<1>6. ASSUME NEW t \in Turn, NEW c \in Thread, BeginTurn(t, c), UNCHANGED <<agentDeleted, thread>>
      PROVE  ChatTyped'
  BY <1>6 DEF ChatTyped, ChatTypeOK, Placed, BeginTurn
<1>7. ASSUME NEW t \in Turn, NEW c \in Free, CreateConversation(c, "agent_api"), BeginTurn(t, c),
             UNCHANGED agentDeleted
      PROVE  ChatTyped'
  BY <1>7 DEF ChatTyped, ChatTypeOK, Placed, CreateConversation, BeginTurn, Free
<1>8. ASSUME NEW t \in Turn, UNCHANGED <<agentDeleted, thread>>,
             \/ turn' = [turn EXCEPT ![t].step = "cancelled"]
             \/ turn' = [turn EXCEPT ![t] = Idle]
      PROVE  ChatTyped'
  <2>1. ChatTypeOK'
    <3>1. CASE turn' = [turn EXCEPT ![t].step = "cancelled"]
      BY <1>8, <3>1 DEF ChatTyped, ChatTypeOK
    <3>2. CASE turn' = [turn EXCEPT ![t] = Idle]
      BY <1>8, <3>2 DEF ChatTyped, ChatTypeOK, Idle
    <3> QED
      BY <1>8, <3>1, <3>2
  <2>2. Placed'
    BY <1>8 DEF ChatTyped, ChatTypeOK, Placed, Idle
  <2> QED
    BY <2>1, <2>2 DEF ChatTyped
<1>9. CASE UNCHANGED chatVars
  BY <1>9 DEF ChatTyped, ChatTypeOK, Placed, chatVars
<1> QED
  BY <1>1, <1>2, <1>3, <1>4, <1>5, <1>6, <1>7, <1>8, <1>9 DEF ChatMove, StreamChat

(* No move breaks the order of any transcript.                              *)
LEMMA MoveInOrder ==
    ASSUME ChatTyped, ChatTyped', [ChatMove]_chatVars, NEW c \in Thread, Transcript(c)
    PROVE  Transcript(c)'
<1>0. ChatTypeOK /\ Placed /\ ChatTypeOK'
  BY DEF ChatTyped
<1>1. ASSUME NEW t \in Turn, SaveQuestion(t) PROVE Transcript(c)'
  BY <1>0, <1>1, QuestionSaid
<1>2. ASSUME NEW t \in Turn, SaveReply(t) PROVE Transcript(c)'
  BY <1>0, <1>2, ReplySaid
<1>3. SUFFICES ASSUME thread'[c].roles = thread[c].roles, Awaiting(c)' \subseteq Awaiting(c)
               PROVE  Transcript(c)'
  <2>1. CASE DeleteAgent \/ UNCHANGED chatVars
    BY <1>3, <2>1 DEF DeleteAgent, chatVars, Awaiting
  <2>2. ASSUME NEW d \in Thread, DeleteConversation(d) PROVE Transcript(c)'
    BY <1>0, <1>3, <2>2 DEF DeleteConversation, Awaiting, ChatTypeOK
  <2>3. ASSUME NEW d \in Free, NEW source, CreateConversation(d, source), UNCHANGED turn
        PROVE  Transcript(c)'
    BY <1>0, <1>3, <2>3 DEF CreateConversation, Awaiting, ChatTypeOK, Free
  <2>4. ASSUME NEW t \in Turn, Apologise(t) \/ TurnRaises(t) PROVE Transcript(c)'
    BY <1>0, <1>3, <2>4 DEF Apologise, TurnRaises, Awaiting, ChatTypeOK
  <2>5. ASSUME NEW t \in Turn, NEW d, BeginTurn(t, d), UNCHANGED thread PROVE Transcript(c)'
    BY <1>0, <1>3, <2>5 DEF BeginTurn, Awaiting, ChatTypeOK
  <2>6. ASSUME NEW t \in Turn, NEW d \in Free, CreateConversation(d, "agent_api"), BeginTurn(t, d)
        PROVE  Transcript(c)'
    BY <1>0, <1>3, <2>6 DEF CreateConversation, BeginTurn, Awaiting, ChatTypeOK, Free
  <2>7. ASSUME NEW t \in Turn, UNCHANGED thread,
               \/ turn' = [turn EXCEPT ![t].step = "cancelled"]
               \/ turn' = [turn EXCEPT ![t] = Idle]
        PROVE  Transcript(c)'
    BY <1>0, <1>3, <2>7 DEF Awaiting, ChatTypeOK, Idle
  <2> QED
    BY <1>1, <1>2, <2>1, <2>2, <2>3, <2>4, <2>5, <2>6, <2>7 DEF ChatMove, StreamChat
<1> QED
  BY <1>0, <1>3, NothingSaid

LEMMA ChatStarts == ChatInit => ChatTyped
<1> SUFFICES ASSUME ChatInit PROVE ChatTyped
  OBVIOUS
<1>1. <<>> \in Seq({"user", "assistant"})
  OBVIOUS
<1>2. /\ \A c \in Thread : thread[c] = Unused
      /\ \A t \in Turn : turn[t] = Idle
  BY DEF ChatInit
<1>3. ChatTypeOK
  BY <1>1 DEF ChatInit, ChatTypeOK, Unused, Idle
<1>4. Placed
  BY <1>2 DEF Placed, Idle
<1> QED
  BY <1>3, <1>4 DEF ChatTyped

(* In no prefix of any transcript do replies outnumber questions, whatever  *)
(* turns interleave in one conversation, fail or are deleted under.         *)
THEOREM QuestionsFirst == ChatSpec => []QuestionFirst
<1> DEFINE Sound == ChatTyped /\ \A c \in Thread : Transcript(c)
<1>1. ChatInit => Sound
  <2> SUFFICES ASSUME ChatInit PROVE Sound
    OBVIOUS
  <2>1. ChatTyped
    BY ChatStarts
  <2>2. ASSUME NEW c \in Thread PROVE Transcript(c)
    <3>1. Awaiting(c) = {} /\ thread[c].roles = <<>>
      BY DEF ChatInit, Awaiting, Idle, Unused
    <3>2. Count(<<>>, 0, "user") = 0 /\ Count(<<>>, 0, "assistant") = 0
      BY FS_EmptySet DEF Count
    <3> QED
      BY <3>1, <3>2, FS_EmptySet DEF Transcript
  <2> QED
    BY <2>1, <2>2
<1>2. Sound /\ [ChatMove]_chatVars => Sound'
  BY MoveTyped, MoveInOrder
<1>3. Sound => QuestionFirst
  BY OneByOne DEF ChatTyped
<1> QED
  BY <1>1, <1>2, <1>3, PTL DEF ChatSpec

(* The API's requests keep their types.                                     *)
LEMMA ApiTyped == ApiTypeOK /\ ApiStep => ApiTypeOK'
<1> SUFFICES ASSUME ApiTypeOK, NEW r \in ApiRequest, Api(r) PROVE ApiTypeOK'
  BY DEF ApiStep
<1>1. ASSUME Authorise(r) \/ CountThreads(r) PROVE ApiTypeOK'
  BY <1>1 DEF Authorise, CountThreads, Reply, ApiTypeOK
<1>2. ASSUME Continue(r) \/ CreateThread(r) PROVE ApiTypeOK'
  BY <1>2 DEF Continue, CreateThread, Reply, ApiTypeOK
<1>3. ASSUME Chat(r) \/ ChatTimesOut(r) \/ ChatFails(r) PROVE ApiTypeOK'
  BY <1>3 DEF Chat, ChatTimesOut, ChatFails, Reply, ApiTypeOK, apiVars
<1>4. ASSUME CountCall(r) PROVE ApiTypeOK'
  BY <1>4 DEF CountCall, Reply, ApiTypeOK
<1> QED
  BY <1>1, <1>2, <1>3, <1>4 DEF Api

(* A channel's messages keep theirs, and their conversations.               *)
GatewayTyped == GatewayTypeOK /\ Opened

LEMMA GatewayTypedKept == GatewayTyped /\ GatewayStep => GatewayTyped'
<1> SUFFICES ASSUME GatewayTyped, NEW i \in Inbound, Gateway(i) \/ WorkerLost(i) PROVE GatewayTyped'
  BY DEF GatewayStep
<1> USE GatewayAssumption
<1>1. ASSUME ReceiveMessage(i) \/ EnqueueFails(i) PROVE GatewayTyped'
  BY <1>1 DEF ReceiveMessage, EnqueueFails, Step, GatewayTyped, GatewayTypeOK, Opened
<1>2. ASSUME OpenSession(i) PROVE GatewayTyped'
  <2>1. CASE agentDeleted
    BY <1>2, <2>1 DEF OpenSession, Step, GatewayTyped, GatewayTypeOK, Opened
  <2>2. CASE ~agentDeleted
    <3>1. PICK c \in Free :
            inbound' = [inbound EXCEPT ![i] = [@ EXCEPT !.step = "opened", !.thread = c]]
      BY <1>2, <2>2 DEF OpenSession, GatewayTyped, GatewayTypeOK
    <3>2. c \in Thread /\ UNCHANGED <<replies, losses>>
      BY <1>2 DEF OpenSession, Free
    <3>3. GatewayTypeOK'
      BY <3>1, <3>2 DEF GatewayTyped, GatewayTypeOK
    <3>4. Opened'
      BY <3>1, <3>2 DEF GatewayTyped, GatewayTypeOK, Opened
    <3> QED
      BY <3>3, <3>4 DEF GatewayTyped
  <2> QED
    BY <2>1, <2>2
<1>3. ASSUME EnqueueEvent(i) PROVE GatewayTyped'
  <2>1. PICK durable \in BOOLEAN :
          inbound' = [inbound EXCEPT ![i] = [@ EXCEPT !.step = "queued", !.durable = durable]]
    BY <1>3 DEF EnqueueEvent, GatewayTyped, GatewayTypeOK
  <2>2. inbound[i].step = "opened" /\ UNCHANGED <<replies, losses>>
    BY <1>3 DEF EnqueueEvent
  <2> QED
    BY <2>1, <2>2 DEF GatewayTyped, GatewayTypeOK, Opened
<1>4. ASSUME ProcessEvent(i) PROVE GatewayTyped'
  BY <1>4 DEF ProcessEvent, Step, GatewayTyped, GatewayTypeOK, Opened
<1>5. ASSUME ProcessTurn(i) PROVE GatewayTyped'
  BY <1>5 DEF ProcessTurn, gatewayVars, GatewayTyped, GatewayTypeOK, Opened
<1>6. ASSUME SendReply(i) PROVE GatewayTyped'
  BY <1>6 DEF SendReply, Step, GatewayTyped, GatewayTypeOK, Opened
<1>7. ASSUME SwallowError(i) \/ Acknowledge(i) PROVE GatewayTyped'
  BY <1>7 DEF SwallowError, Acknowledge, Step, GatewayTyped, GatewayTypeOK, Opened
<1>8. ASSUME WorkerLost(i) PROVE GatewayTyped'
  BY <1>8 DEF WorkerLost, Step, GatewayTyped, GatewayTypeOK, Opened
<1> QED
  BY <1>1, <1>2, <1>3, <1>4, <1>5, <1>6, <1>7, <1>8 DEF Gateway

(* Whatever the two ways in and the owner do, a conversation sees no more   *)
(* than ChatMove.                                                           *)
LEMMA TrafficMoves == ChatTyped /\ GatewayTyped /\ TrafficNext => [ChatMove]_chatVars
<1> SUFFICES ASSUME ChatTyped, GatewayTyped, TrafficNext PROVE [ChatMove]_chatVars
  OBVIOUS
<1>1. ASSUME NEW r \in ApiRequest, Api(r) PROVE [ChatMove]_chatVars
  <2>0. r \in Turn
    BY ApiAssumption
  <2>1. CASE Authorise(r) \/ CountThreads(r) \/ ChatFails(r) \/ CountCall(r)
    BY <2>1 DEF Authorise, CountThreads, ChatFails, CountCall
  <2>2. CASE Continue(r)
    BY <2>0, <2>2 DEF Continue, ChatMove, chatVars
  <2>3. CASE CreateThread(r)
    BY <2>0, <2>3 DEF CreateThread, ChatMove
  <2>4. CASE Chat(r) \/ ChatTimesOut(r)
    BY <2>0, <2>4 DEF Chat, ChatTimesOut, ChatMove
  <2> QED
    BY <1>1, <2>1, <2>2, <2>3, <2>4 DEF Api
<1>2. ASSUME NEW i \in Inbound, Gateway(i) \/ WorkerLost(i) PROVE [ChatMove]_chatVars
  <2>0. i \in Turn
    BY GatewayAssumption
  <2>1. CASE ReceiveMessage(i) \/ EnqueueEvent(i) \/ EnqueueFails(i) \/ SendReply(i)
             \/ SwallowError(i) \/ Acknowledge(i)
    BY <2>1 DEF ReceiveMessage, EnqueueEvent, EnqueueFails, SendReply, SwallowError, Acknowledge
  <2>2. CASE OpenSession(i)
    BY <2>2 DEF OpenSession, ChatMove, chatVars
  <2>3. CASE ProcessEvent(i)
    <3>1. inbound[i].thread \in Thread
      BY <2>3 DEF ProcessEvent, GatewayTyped, Opened
    <3> QED
      BY <2>0, <2>3, <3>1 DEF ProcessEvent, ChatMove
  <2>4. CASE ProcessTurn(i) \/ WorkerLost(i)
    BY <2>0, <2>4 DEF ProcessTurn, WorkerLost, ChatMove
  <2> QED
    BY <1>2, <2>1, <2>2, <2>3, <2>4 DEF Gateway
<1>3. CASE OwnerStep
  BY <1>3 DEF OwnerStep, RevokeApi, UpdateApi, ChatMove
<1> QED
  BY <1>1, <1>2, <1>3 DEF TrafficNext, TrafficStep, ApiStep, GatewayStep

TrafficTyped == ChatTyped /\ GatewayTyped

(* What holds of the two ways in together, from the start and at every      *)
(* step.                                                                    *)
LEMMA TrafficStarts == TrafficInit => TrafficTyped
  <1> SUFFICES ASSUME TrafficInit PROVE TrafficTyped
    OBVIOUS
  <1>1. ChatTyped
    BY ChatStarts DEF TrafficInit
  <1>2. GatewayTyped
    BY GatewayAssumption DEF TrafficInit, GatewayInit, GatewayTyped, GatewayTypeOK, Opened
  <1> QED
    BY <1>1, <1>2 DEF TrafficTyped

LEMMA TrafficTypedKept == TrafficTyped /\ [TrafficNext]_trafficVars => TrafficTyped'
<1> SUFFICES ASSUME TrafficTyped, [TrafficNext]_trafficVars PROVE TrafficTyped'
  OBVIOUS
<1>1. CASE UNCHANGED trafficVars
  BY <1>1, MoveTyped DEF trafficVars, TrafficTyped, GatewayTyped, GatewayTypeOK, Opened, gatewayVars
<1>2. CASE TrafficNext
  <2>1. ChatTyped'
    BY <1>2, TrafficMoves, MoveTyped DEF TrafficTyped
  <2>2. GatewayTyped'
    <3>1. CASE GatewayStep
      BY <3>1, GatewayTypedKept DEF TrafficTyped
    <3>2. CASE UNCHANGED gatewayVars
      BY <3>2 DEF TrafficTyped, GatewayTyped, GatewayTypeOK, Opened, gatewayVars
    <3> QED
      BY <1>2, <3>1, <3>2 DEF TrafficNext, TrafficStep, OwnerStep
  <2> QED
    BY <2>1, <2>2 DEF TrafficTyped
<1> QED
  BY <1>1, <1>2

(* Conversations, requests of the API and messages of the channels have     *)
(* their types in every state of the composition.                           *)
THEOREM TrafficTypesCorrect == TrafficSpec => []TrafficTypeOK
<1>1. TrafficInit => ApiTypeOK
  BY DEF TrafficInit, ApiInit, ApiTypeOK
<1>2. ApiTypeOK /\ [TrafficNext]_trafficVars => ApiTypeOK'
  <2> SUFFICES ASSUME ApiTypeOK, [TrafficNext]_trafficVars PROVE ApiTypeOK'
    OBVIOUS
  <2>1. CASE ApiStep
    BY <2>1, ApiTyped
  <2>2. CASE UNCHANGED apiVars
    BY <2>2 DEF ApiTypeOK, apiVars
  <2>3. CASE RevokeApi \/ UpdateApi
    BY <2>3 DEF RevokeApi, UpdateApi, ApiTypeOK
  <2> QED
    BY <2>1, <2>2, <2>3 DEF TrafficNext, TrafficStep, OwnerStep, trafficVars
<1>3. ApiTypeOK /\ TrafficTyped => TrafficTypeOK
  BY DEF TrafficTyped, ChatTyped, GatewayTyped, TrafficTypeOK
<1> QED
  BY <1>1, <1>2, <1>3, TrafficStarts, TrafficTypedKept, PTL DEF TrafficSpec

(* The composition of the API, the channels and the owner implements the    *)
(* specification of a conversation alone: each of its steps is one move of  *)
(* a conversation, or none. What is true of conversations is true however   *)
(* they are reached.                                                        *)
THEOREM TrafficIsChat == TrafficSpec => ChatSpec
<1>1. TrafficInit => ChatInit
  BY DEF TrafficInit
<1>2. TrafficTyped /\ [TrafficNext]_trafficVars => [ChatMove]_chatVars
  BY TrafficMoves DEF TrafficTyped, trafficVars
<1> QED
  BY <1>1, <1>2, TrafficStarts, TrafficTypedKept, PTL DEF TrafficSpec, ChatSpec

(* So every transcript has its questions first under all the traffic.       *)
THEOREM QuestionComesFirst == TrafficSpec => []QuestionFirst
  BY TrafficIsChat, QuestionsFirst, PTL

-----------------------------------------------------------------------------
(* The conversations of the API with and without a reply, and the requests  *)
(* that were let through and have yet to create theirs.                     *)
WithoutReply == {c \in OfApi : ~HasReply(c)}
Replied == {c \in OfApi : HasReply(c)}
Admitted == {r \in ApiRequest : apiStep[r] = "counted"}

(* The conversations of the API and the requests let through to create one. *)
CountReached == Cardinality(OfApi) + Cardinality(Admitted)

ApiSteps == {"none", "authorised", "counted", "chatting", "over"}

(* The cap's invariant: whatever is reached is below the cap and the most   *)
(* that ever waited.                                                        *)
CapKept ==
    /\ apiStep \in [ApiRequest -> ApiSteps] /\ waiting \in Nat
    /\ CountReached > 0 => CountReached < chat_cap + waiting

(* The sizes of these sets.                                                 *)
Sized ==
    /\ IsFiniteSet(OfApi) /\ IsFiniteSet(Admitted)
    /\ {Cardinality(OfApi), Cardinality(Admitted), Used, Cardinality(WithoutReply), Open, CountReached} \subseteq Nat
    /\ Open = Cardinality(WithoutReply) + Cardinality(Admitted)
    /\ CountReached = Used + Open

LEMMA Sizes == Sized
<1> USE DEF Sized
<1>1. IsFiniteSet(OfApi) /\ IsFiniteSet(Admitted)
  <2>1. IsFiniteSet(ApiRequest)
    BY ChatFinite, ApiAssumption, FS_Subset
  <2> QED
    BY <2>1, ChatFinite, FS_Subset DEF OfApi, Admitted
<1>2. IsFiniteSet(Replied) /\ IsFiniteSet(WithoutReply)
  BY <1>1, FS_Subset DEF Replied, WithoutReply
<1>3. Cardinality(OfApi) = Cardinality(Replied) + Cardinality(WithoutReply)
  <2>1. OfApi = Replied \cup WithoutReply
    BY DEF Replied, WithoutReply
  <2>4. Replied \cap WithoutReply = {}
    BY DEF Replied, WithoutReply
  <2>2. Cardinality(Replied \cup WithoutReply)
          = Cardinality(Replied) + Cardinality(WithoutReply) - Cardinality(Replied \cap WithoutReply)
    BY <1>2, FS_Union
  <2>3. Cardinality({}) = 0 /\ Cardinality(Replied) \in Nat /\ Cardinality(WithoutReply) \in Nat
    BY <1>2, FS_EmptySet, FS_CardinalityType
  <2> QED
    <3>1. Cardinality(Replied \cup WithoutReply) = Cardinality(Replied) + Cardinality(WithoutReply)
      <4>1. Cardinality(Replied \cap WithoutReply) = 0
        BY <2>3, <2>4
      <4> QED
        BY <2>2, <2>3, <4>1
    <3> QED
      BY <2>1, <3>1
<1>4. Used = Cardinality(Replied) /\ Open = Cardinality(WithoutReply) + Cardinality(Admitted)
  BY DEF Used, Open, Replied, WithoutReply, Admitted
<1>5. {Cardinality(OfApi), Cardinality(Replied), Cardinality(WithoutReply), Cardinality(Admitted)} \subseteq Nat
  BY <1>1, <1>2, FS_CardinalityType
<1> QED
  BY <1>1, <1>3, <1>4, <1>5 DEF CountReached

(* A step that lets nobody through and creates nothing keeps the bound,     *)
(* whatever is answered or deleted.                                         *)
LEMMA NoneOpens ==
    ASSUME CapKept, waiting' = IF Open' > waiting THEN Open' ELSE waiting,
           apiStep' \in [ApiRequest -> ApiSteps], CountReached' = CountReached
    PROVE  CapKept'
<1>1. Sized /\ Sized'
  BY Sizes, PTL
<1> QED
  BY <1>1, ApiAssumption DEF CapKept, Sized

(* A request is let through only while the cap, as it counted it, has room. *)
LEMMA OneAdmitted ==
    ASSUME CapKept, NEW r \in ApiRequest, CountThreads(r),
           waiting' = IF Open' > waiting THEN Open' ELSE waiting
    PROVE  CapKept'
<1>1. apiStep[r] = "authorised" /\ UNCHANGED thread
  BY DEF CountThreads, chatVars
<1>2. CASE is_cap_reached
  <2>1. apiStep' = [apiStep EXCEPT ![r] = "over"]
    BY <1>2 DEF CountThreads, Reply
  <2>2. Admitted' = Admitted /\ OfApi' = OfApi
    BY <1>1, <2>1 DEF Admitted, OfApi, CapKept, ApiSteps
  <2>3. CountReached' = CountReached
    BY <2>2 DEF CountReached
  <2>4. apiStep' \in [ApiRequest -> ApiSteps]
    BY <2>1 DEF CapKept, ApiSteps
  <2> QED
    BY <2>3, <2>4, NoneOpens
<1>3. CASE ~is_cap_reached
  <2>1. apiStep' = [apiStep EXCEPT ![r] = "counted"] /\ Used < chat_cap
    BY <1>3, Sizes, ApiAssumption DEF Sized, CountThreads, is_cap_reached
  <2>2. Used' = Used
    BY <1>1 DEF Used, OfApi, HasReply
  <2>3. Sized /\ Sized'
    BY Sizes, PTL
  <2>4. waiting' >= Open' /\ waiting' \in Nat
    BY <2>3 DEF CapKept, Sized
  <2>5. apiStep' \in [ApiRequest -> ApiSteps]
    BY <2>1 DEF CapKept, ApiSteps
  <2> QED
    BY <2>1, <2>2, <2>3, <2>4, <2>5, ApiAssumption DEF CapKept, Sized
<1> QED
  BY <1>2, <1>3

(* It then creates one conversation, which awaits its reply in its place.   *)
LEMMA OneCreated ==
    ASSUME ChatTyped, CapKept, NEW r \in ApiRequest, CreateThread(r),
           waiting' = IF Open' > waiting THEN Open' ELSE waiting
    PROVE  CapKept'
<1>1. PICK c \in Free : thread' = [thread EXCEPT ![c].source = "agent_api"]
  BY DEF CreateThread, CreateConversation
<1>2. apiStep[r] = "counted" /\ apiStep' = [apiStep EXCEPT ![r] = "chatting"]
  BY DEF CreateThread
<1>3. Admitted' = Admitted \ {r} /\ r \in Admitted
  BY <1>2 DEF Admitted, CapKept
<1>4. OfApi' = OfApi \cup {c} /\ c \notin OfApi
  BY <1>1 DEF OfApi, Free, ChatTyped, ChatTypeOK
<1>5. Cardinality(Admitted') = Cardinality(Admitted) - 1
  BY <1>3, Sizes, FS_RemoveElement DEF Sized
<1>6. Cardinality(OfApi') = Cardinality(OfApi) + 1
  BY <1>4, Sizes, FS_AddElement DEF Sized
<1>7. CountReached' = CountReached
  BY <1>5, <1>6, Sizes DEF CountReached, Sized
<1>8. apiStep' \in [ApiRequest -> ApiSteps]
  BY <1>2 DEF CapKept, ApiSteps
<1> QED
  BY <1>7, <1>8, NoneOpens

(* A turn writes to its conversation, and takes none away.                  *)
LEMMA TurnWrites ==
    ASSUME ChatTyped, NEW t \in Turn, StreamChat(t)
    PROVE  \A c \in Thread : thread'[c].source = thread[c].source
<1>1. CASE UNCHANGED thread
  BY <1>1
<1>2. ASSUME NEW role \in Role, SaveMessage(turn[t].thread, role)
      PROVE  \A c \in Thread : thread'[c].source = thread[c].source
  BY <1>2 DEF SaveMessage, ChatTyped, ChatTypeOK
<1> QED
  BY <1>1, <1>2 DEF StreamChat, SaveQuestion, SaveReply, Apologise, TurnRaises, Role

(* The other steps of a request let nobody through and create nothing; ...  *)
LEMMA NobodyAdmitted ==
    ASSUME ChatTyped, CapKept, NEW r \in ApiRequest, Api(r), ~CountThreads(r), ~CreateThread(r)
    PROVE  /\ apiStep' \in [ApiRequest -> ApiSteps]
           /\ Admitted' = Admitted /\ OfApi' = OfApi
<1>1. CASE Authorise(r)
  BY <1>1 DEF Authorise, Reply, CapKept, ApiSteps, Admitted, OfApi, chatVars
<1>2. CASE Continue(r)
  BY <1>2 DEF Continue, Reply, CapKept, ApiSteps, Admitted, OfApi
<1>3. CASE Chat(r)
  <2>1. r \in Turn /\ UNCHANGED apiStep /\ StreamChat(r)
    BY <1>3, ApiAssumption DEF Chat, apiVars
  <2>2. \A c \in Thread : thread'[c].source = thread[c].source
    BY <2>1, TurnWrites
  <2> QED
    BY <2>1, <2>2 DEF CapKept, Admitted, OfApi
<1>4. CASE ChatTimesOut(r)
  BY <1>4 DEF ChatTimesOut, Reply, CapKept, ApiSteps, Admitted, OfApi
<1>5. CASE ChatFails(r) \/ CountCall(r)
  BY <1>5 DEF ChatFails, CountCall, Reply, CapKept, ApiSteps, Admitted, OfApi, chatVars
<1> QED
  BY <1>1, <1>2, <1>3, <1>4, <1>5 DEF Api

(* ... nor do those of the channels and of the owner.                       *)
LEMMA OthersAdmitNobody ==
    ASSUME ChatTyped, CapKept, (GatewayStep /\ UNCHANGED apiVars) \/ OwnerStep
    PROVE  /\ apiStep' \in [ApiRequest -> ApiSteps]
           /\ Admitted' = Admitted /\ OfApi' = OfApi
<1>1. UNCHANGED apiStep
  BY DEF apiVars, OwnerStep, RevokeApi, UpdateApi
<1> DEFINE Same == \A c \in Thread : thread'[c].source = "agent_api" <=> thread[c].source = "agent_api"
<1>2. Same
  <2>1. CASE UNCHANGED thread
    BY <2>1
  <2>2. ASSUME NEW d \in Thread, DeleteConversation(d) PROVE Same
    BY <2>2 DEF DeleteConversation, ChatTyped, ChatTypeOK
  <2>3. ASSUME NEW i \in Inbound, OpenSession(i) PROVE Same
    BY <2>3 DEF OpenSession, CreateConversation, Free, ChatTyped, ChatTypeOK
  <2>4. ASSUME NEW i \in Inbound, ProcessTurn(i) PROVE Same
    <3>1. i \in Turn
      BY GatewayAssumption
    <3> QED
      BY <2>4, <3>1, TurnWrites DEF ProcessTurn
  <2> QED
    BY <2>1, <2>2, <2>3, <2>4 DEF GatewayStep, Gateway, ReceiveMessage, EnqueueEvent, EnqueueFails,
        ProcessEvent, SendReply, SwallowError, Acknowledge, WorkerLost, OwnerStep, DeleteAgent, RevokeApi,
        UpdateApi, chatVars
<1> QED
  BY <1>1, <1>2 DEF CapKept, Admitted, OfApi

LEMMA CapStep == ChatTyped /\ CapKept /\ [TrafficNext]_trafficVars => CapKept'
<1> SUFFICES ASSUME ChatTyped, CapKept, [TrafficNext]_trafficVars PROVE CapKept'
  OBVIOUS
<1>1. CASE UNCHANGED trafficVars
  BY <1>1 DEF trafficVars, apiVars, chatVars, CapKept, CountReached, OfApi, Admitted
<1>2. CASE TrafficNext
  <2>1. waiting' = IF Open' > waiting THEN Open' ELSE waiting
    BY <1>2 DEF TrafficNext
  <2>2. SUFFICES ASSUME apiStep' \in [ApiRequest -> ApiSteps], Admitted' = Admitted, OfApi' = OfApi
                 PROVE  CapKept'
    BY <1>2, <2>1, <2>2, OneAdmitted, OneCreated, NobodyAdmitted, OthersAdmitNobody
       DEF TrafficNext, TrafficStep, ApiStep
  <2>3. CountReached' = CountReached
    BY <2>2 DEF CountReached
  <2> QED
    BY <2>1, <2>2, <2>3, NoneOpens
<1> QED
  BY <1>1, <1>2

(* The cap on conversations can be overrun, because only answered ones are  *)
(* counted; but for any number of requests, conversations, channels and     *)
(* owners, by no more than ever awaited their first reply at one time.      *)
THEOREM CapOverrunBounded == TrafficSpec => []CapOverrun
<1>1. TrafficInit => CapKept
  <2> SUFFICES ASSUME TrafficInit PROVE CapKept
    OBVIOUS
  <2>1. OfApi = {} /\ Admitted = {}
    BY DEF TrafficInit, ChatInit, ApiInit, OfApi, Admitted, Unused
  <2>2. CountReached = 0
    BY <2>1, FS_EmptySet DEF CountReached
  <2> QED
    BY <2>2 DEF TrafficInit, ApiInit, CapKept, ApiSteps
<1>2. TrafficTyped /\ CapKept /\ [TrafficNext]_trafficVars => CapKept'
  BY CapStep DEF TrafficTyped
<1>3. CapKept => CapOverrun
  BY Sizes, ApiAssumption DEF CapKept, CapOverrun, Sized
<1> QED
  BY <1>1, <1>2, <1>3, TrafficStarts, TrafficTypedKept, PTL DEF TrafficSpec

-----------------------------------------------------------------------------
(* The types of a call's variables.                                         *)
Working == {"loaded", "checked", "update", "merged", "stored"}
Prompts == 0 .. NumPrompts
Tokens == 0 .. MaxTokensMade
Ops == {"none", "tokens", "set_whatsapp", "set_telegram", "set_verified", "verify", "status", "details",
        "prompt"}
Steps == Working \cup {"idle", "200", "200_configured", "403", "404", "500"}
AdminCalls == [op : Ops, step : Steps, seen : Nat, copy : Configs, prompt : Prompts,
          channels : Configs, channel : Channel]

(* Credentials never stand without a token, nor a verified bot without a    *)
(* webhook that Telegram took.                                              *)
Paired(cfg) == \A ch \in Channel : cfg[ch].creds # 0 => cfg[ch].token # 0
Proven(cfg) == cfg["telegram"].verified => \E b \in 1 .. NumCreds : bot[b] # 0

(* A copy taken since the last commit still fits the row.                   *)
Sets(a, ch) == a.op \in {"set_whatsapp", "set_telegram"} /\ ch = a.channel

CloseCopy(a) ==
    \A ch \in Channel :
      /\ agent.channels[ch].token # 0 => a.copy[ch].token = agent.channels[ch].token
      /\ agent.channels[ch].verified => a.copy[ch].verified
      /\ IF Sets(a, ch) THEN a.copy[ch].creds # 0 ELSE a.copy[ch].creds = agent.channels[ch].creds

(* How the copy of a call relates to a row that nobody has written since it *)
(* was read, at each of the call's steps; ...                               *)
Fits(a) ==
    /\ a.step \in {"loaded", "stored"} => a.copy = agent.channels
    /\ a.step \in {"update", "merged"} /\ a.op # "prompt" => CloseCopy(a)
    /\ a.step = "merged" /\ a.op # "prompt" =>
         a.channels = DeepMerge(agent.channels, a.copy) /\ a.prompt = agent.prompt
    /\ a.step = "merged" /\ a.op = "prompt" => a.channels = agent.channels

(* ... and what is still true of it, until it has raced, when somebody has. *)
Current(a) ==
    /\ a.step \in {"loaded", "stored"} =>
         \A ch \in Channel : a.copy[ch].token # 0 => a.copy[ch].token = agent.channels[ch].token
    /\ a.seen = commits => Fits(a)

(* A call's own copies are sound, raced or not.                             *)
CallOK(a) ==
    /\ a \in AdminCalls /\ a.seen <= commits
    /\ Paired(a.copy) /\ Paired(a.channels) /\ Proven(a.copy) /\ Proven(a.channels)
    /\ a.op = "set_telegram" /\ a.step \in {"update", "merged", "stored"} =>
         a.copy["telegram"].creds # 0
    /\ a.op = "tokens" /\ a.step \in {"update", "merged", "stored"} =>
         \A ch \in Channel : a.copy[ch].token # 0
    /\ agent.there = "none" => a.step \notin Working
    /\ raced \/ a.step \notin Working \/ Current(a)

(* The row, as long as nobody has raced: it has the tokens that were told   *)
(* and that Telegram sends, and what was set last.                          *)
Settled ==
    /\ \A ch \in Channel : told[ch] \subseteq {agent.channels[ch].token}
    /\ \A b \in 1 .. NumCreds : bot[b] \in {0, agent.channels["telegram"].token}
    /\ \A ch \in Channel : agent.channels[ch].creds = given.creds[ch]
    /\ agent.prompt = given.prompt

RowOK ==
    /\ agent \in [there : {"none", "live", "deleted"}, instructions : Prompts, prompt : Prompts,
                  channels : Configs]
    /\ bot \in [1 .. NumCreds -> Tokens] /\ made \in Tokens /\ raced \in BOOLEAN /\ commits \in Nat
    /\ given \in [creds : [Channel -> 0 .. NumCreds], prompt : Prompts]
    /\ \A ch \in Channel : 0 \notin told[ch]
    /\ Paired(agent.channels) /\ Proven(agent.channels)
    /\ raced \/ Settled

AdminInv ==
    /\ RowOK
    /\ adminCall \in [AdminCall -> AdminCalls]
    /\ \A r \in AdminCall : CallOK(adminCall[r])

-----------------------------------------------------------------------------
(* A config without anything is sound.                                      *)
LEMMA BareIsBare ==
    /\ Bare \in Configs /\ Paired(Bare) /\ \A ch \in Channel : ~Bare[ch].verified
    /\ "whatsapp" \in Channel /\ "telegram" \in Channel
  BY AdminAssumption DEF Bare, NoChannel, Configs, ChannelConfig, Paired, Channel

(* A call that has been answered holds nothing.                             *)
LEMMA AnsweredOK == ASSUME NEW code \in Steps \ Working, commits \in Nat PROVE CallOK(Answered(code))
<1>1. /\ Answered(code) = [op |-> "none", step |-> code, seen |-> 0, copy |-> Bare, prompt |-> 0,
                          channels |-> Bare, channel |-> "whatsapp"]
  BY DEF Answered, NotCalled
<1>2. Answered(code) \in AdminCalls
  <2>1. 0 \in Prompts
    BY AdminAssumption DEF Prompts
  <2>2. "none" \in Ops /\ code \in Steps /\ 0 \in Nat
    BY DEF Ops
  <2> QED
    BY <1>1, <2>1, <2>2, BareIsBare DEF AdminCalls
<1>3. Proven(Bare)
  BY BareIsBare DEF Proven
<1> QED
  BY <1>1, <1>2, <1>3, BareIsBare DEF CallOK

(* A call that only moves itself.                                           *)
LEMMA CallMoves ==
    ASSUME AdminInv, NEW r \in AdminCall, NEW a, CallOK(a),
           adminCall' = [adminCall EXCEPT ![r] = a],
           UNCHANGED <<agent, bot, given, commits, raced>>,
           made' \in Tokens,
           \A ch \in Channel : 0 \notin told'[ch],
           raced \/ \A ch \in Channel : told'[ch] \subseteq {agent.channels[ch].token}
    PROVE  AdminInv'
<1>1. RowOK'
  BY DEF AdminInv, RowOK, Settled, Paired, Proven
<1>2. ASSUME NEW b, CallOK(b) PROVE CallOK(b)'
  <2>1. CloseCopy(b) => CloseCopy(b)'
    BY DEF CloseCopy, Sets
  <2>2. Fits(b) => Fits(b)'
    BY <2>1 DEF Fits
  <2>3. Current(b) => Current(b)'
    BY <2>2 DEF Current
  <2> QED
    BY <1>2, <2>3 DEF CallOK, Proven
<1>3. a \in AdminCalls
  BY DEF CallOK
<1>4. adminCall' \in [AdminCall -> AdminCalls]
  BY <1>3 DEF AdminInv
<1>5. \A q \in AdminCall : adminCall'[q] = IF q = r THEN a ELSE adminCall[q]
  BY DEF AdminInv
<1>6. ASSUME NEW q \in AdminCall PROVE CallOK(adminCall[q])'
  <2>1. PICK b : b = adminCall'[q] /\ CallOK(b)
    BY <1>5 DEF AdminInv
  <2>2. CallOK(b)'
    BY <1>2, <2>1
  <2> QED
    BY <2>1, <2>2
<1> QED
  BY <1>1, <1>4, <1>6 DEF AdminInv

(* A call that ends is in order.                                            *)
LEMMA CallIsOver ==
    ASSUME AdminInv, NEW r \in AdminCall, NEW code \in Steps \ Working, Ends(r, code),
           UNCHANGED <<agent, bot, told, made, given, commits, raced>>
    PROVE  AdminInv'
<1>1. CallOK(Answered(code))
  BY AnsweredOK DEF AdminInv, RowOK
<1> QED
  BY <1>1, CallMoves DEF Ends, AdminInv, RowOK, Settled

(* What the invariant gives for one call.                                   *)
LEMMA KeptOf ==
    ASSUME AdminInv, NEW r \in AdminCall
    PROVE  /\ adminCall[r] \in AdminCalls /\ CallOK(adminCall[r])
           /\ made \in Tokens /\ \A ch \in Channel : 0 \notin told[ch]
           /\ raced \/ \A ch \in Channel : told[ch] \subseteq {agent.channels[ch].token}
  BY DEF AdminInv, RowOK, Settled

(* The steps of a call, one by one. It reads the row as it is.              *)
LEMMA Loads == ASSUME AdminInv, NEW r \in AdminCall, LoadAgent(r) PROVE AdminInv'
<1>1. UNCHANGED <<agent, bot, told, made, given, commits, raced>> /\ adminCall[r].step = "idle"
  BY DEF LoadAgent
<1>2. CASE agent.there # "live"
  <2>1. adminCall' = [adminCall EXCEPT ![r] = Answered("404")]
    BY <1>2 DEF LoadAgent
  <2> QED
    BY <1>1, <2>1, CallIsOver DEF Ends, Steps, Working
<1>3. CASE agent.there = "live"
  <2>0. PICK op \in {"tokens", "set_whatsapp", "set_telegram", "verify", "status", "details"} :
          adminCall' = [adminCall EXCEPT ![r] = [adminCall[r] EXCEPT
                          !.op = op, !.step = "loaded", !.seen = commits, !.copy = agent.channels]]
    BY <1>3 DEF LoadAgent
  <2>1. PICK a : /\ a = [adminCall[r] EXCEPT !.op = op, !.step = "loaded", !.seen = commits,
                                             !.copy = agent.channels]
                 /\ adminCall' = [adminCall EXCEPT ![r] = a]
    BY <2>0
  <2>2. adminCall[r] \in AdminCalls
    BY KeptOf
  <2>3. agent.channels \in Configs /\ commits \in Nat /\ Paired(agent.channels) /\ Proven(agent.channels)
    BY DEF AdminInv, RowOK
  <2>4. a \in AdminCalls
    BY <2>1, <2>2, <2>3 DEF AdminCalls, Ops, Steps, Working
  <2>5. /\ a.op = op /\ a.step = "loaded" /\ a.seen = commits /\ a.copy = agent.channels
        /\ a.channels = adminCall[r].channels
    BY <2>1, <2>2 DEF AdminCalls
  <2>6. Current(a)
    BY <2>5 DEF Current, Fits
  <2>7. CallOK(adminCall[r])
    BY KeptOf
  <2>8. CallOK(a)
    <3>1. Paired(a.channels) /\ Proven(a.channels)
      BY <2>5, <2>7 DEF CallOK
    <3>2. Paired(a.copy) /\ Proven(a.copy)
      BY <2>3, <2>5, Zenon
    <3>3. a.seen <= commits
      <4>0. commits \in Nat
        BY <2>3
      <4>1. commits <= commits
        BY <4>0
      <4>2. a.seen = commits
        BY <2>5
      <4> QED
        BY <4>1, <4>2
    <3> QED
      BY <1>3, <2>4, <2>5, <2>6, <3>1, <3>2, <3>3 DEF CallOK
  <2> QED
    BY <1>1, <2>1, <2>8, CallMoves, KeptOf
<1> QED
  BY <1>2, <1>3

LEMMA ReadsOnly == ASSUME AdminInv, NEW r \in AdminCall, ReadStatus(r) \/ ReadDetails(r) \/ CallRaises(r)
                   PROVE  AdminInv'
<1>1. /\ UNCHANGED <<agent, bot, told, made, given, commits, raced>>
      /\ \E code \in {"200_configured", "200", "500"} : Ends(r, code)
  BY DEF ReadStatus, ReadDetails, CallRaises
<1> QED
  BY <1>1, CallIsOver DEF Steps, Working

(* WithTokens: what is there stays, and every channel of chs has a token.   *)
LEMMA TokensGiven ==
    ASSUME NEW cfg \in Configs, NEW chs \in SUBSET Channel, made \in Tokens,
           made + 2 \in Tokens \/ \A ch \in chs : cfg[ch].token # 0
    PROVE  /\ WithTokens(cfg, chs) \in Configs
           /\ \A ch \in Channel :
                /\ WithTokens(cfg, chs)[ch].creds = cfg[ch].creds
                /\ WithTokens(cfg, chs)[ch].verified = cfg[ch].verified
                /\ cfg[ch].token # 0 \/ ch \notin chs => WithTokens(cfg, chs)[ch].token = cfg[ch].token
                /\ ch \in chs => WithTokens(cfg, chs)[ch].token # 0
<1> DEFINE new(ch) == made + (IF ch = "telegram" THEN 2 ELSE 1)
<1>1. \A ch \in chs : cfg[ch].token # 0 \/ (new(ch) \in Tokens /\ new(ch) # 0)
  BY AdminAssumption DEF Tokens
<1>2. ASSUME NEW ch \in Channel
      PROVE  /\ WithTokens(cfg, chs)[ch] \in ChannelConfig
             /\ WithTokens(cfg, chs)[ch].creds = cfg[ch].creds
             /\ WithTokens(cfg, chs)[ch].verified = cfg[ch].verified
             /\ cfg[ch].token # 0 \/ ch \notin chs => WithTokens(cfg, chs)[ch].token = cfg[ch].token
             /\ ch \in chs => WithTokens(cfg, chs)[ch].token # 0
  <2>1. cfg[ch] \in ChannelConfig
    BY DEF Configs
  <2>2. CASE ch \in chs /\ cfg[ch].token = 0
    <3>1. WithTokens(cfg, chs)[ch] = [cfg[ch] EXCEPT !.token = new(ch)]
      BY <2>2 DEF WithTokens
    <3> HIDE DEF new
    <3> QED
      BY <1>1, <2>1, <2>2, <3>1 DEF ChannelConfig, Tokens
  <2>3. CASE ~(ch \in chs /\ cfg[ch].token = 0)
    <3>1. WithTokens(cfg, chs)[ch] = cfg[ch]
      BY <2>3 DEF WithTokens
    <3> QED
      BY <2>1, <2>3, <3>1
  <2> QED
    BY <2>2, <2>3
<1>3. WithTokens(cfg, chs) \in [Channel -> ChannelConfig]
  BY <1>2 DEF WithTokens
<1> QED
  BY <1>2, <1>3 DEF Configs

(* Tokens are made in the copy, where there were none.                      *)
LEMMA EnsuresTokens == ASSUME AdminInv, NEW r \in AdminCall, EnsureTokens(r) PROVE AdminInv'
<1>1. PICK old, copy, a :
        /\ old = adminCall[r] /\ old.op = "tokens" /\ old.step = "loaded"
        /\ copy = WithTokens(old.copy, Channel)
        /\ a = [old EXCEPT !.copy = copy, !.step = IF copy = old.copy THEN "stored" ELSE "update"]
        /\ adminCall' = [adminCall EXCEPT ![r] = a]
        /\ IF copy = old.copy THEN UNCHANGED made ELSE Wanting(Channel)
  BY DEF EnsureTokens, Stands
<1>2. UNCHANGED <<agent, bot, told, given, commits, raced>>
  BY DEF EnsureTokens
<1>3. old \in AdminCalls /\ CallOK(old) /\ made \in Tokens
  BY <1>1, KeptOf
<1>4. old.copy \in Configs
  BY <1>3 DEF AdminCalls
<1>5. made' \in Tokens /\ (copy # old.copy => made + 2 \in Tokens)
  BY <1>1, <1>3, AdminAssumption DEF Wanting, Tokens
<1>6. /\ copy \in Configs
      /\ \A ch \in Channel :
           /\ copy[ch].creds = old.copy[ch].creds /\ copy[ch].verified = old.copy[ch].verified
           /\ copy[ch].token # 0
           /\ old.copy[ch].token # 0 => copy[ch].token = old.copy[ch].token
  <2>1. made + 2 \in Tokens \/ \A ch \in Channel : old.copy[ch].token # 0
    <3> SUFFICES ASSUME copy = old.copy, NEW ch \in Channel PROVE old.copy[ch].token # 0
      BY <1>5
    <3>1. CASE old.copy[ch].token = 0
      <4>1. old.copy[ch] \in ChannelConfig
        BY <1>4 DEF Configs
      <4>2. old.copy[ch] = [old.copy[ch] EXCEPT !.token = made + (IF ch = "telegram" THEN 2 ELSE 1)]
        BY <1>1, <3>1 DEF WithTokens
      <4>3. old.copy[ch].token = made + (IF ch = "telegram" THEN 2 ELSE 1)
        BY <4>1, <4>2 DEF ChannelConfig
      <4> QED
        BY <1>3, <3>1, <4>3, AdminAssumption DEF Tokens
    <3> QED
      BY <3>1
  <2> QED
    BY <1>1, <1>3, <1>4, <2>1, TokensGiven
<1>7. /\ a \in AdminCalls /\ a.op = "tokens" /\ a.seen = old.seen /\ a.copy = copy
      /\ a.channels = old.channels
      /\ a.step = (IF copy = old.copy THEN "stored" ELSE "update")
  BY <1>1, <1>3, <1>6 DEF AdminCalls, Steps, Working
<1>8. Paired(copy) /\ (Proven(old.copy) => Proven(copy))
  <2>1. "telegram" \in Channel
    BY BareIsBare
  <2> QED
    BY <1>6, <2>1 DEF Paired, Proven
<1>9. ASSUME ~raced PROVE Current(a)
  <2>1. Current(old)
    BY <1>1, <1>3, <1>9 DEF CallOK, Working
  <2>2. CASE copy = old.copy
    BY <1>1, <1>7, <2>1, <2>2 DEF Current, Fits
  <2>3. CASE copy # old.copy
    <3>1. a.step = "update" /\ a.seen = old.seen /\ a.op = "tokens"
      BY <1>7, <2>3
    <3>2. ASSUME a.seen = commits PROVE CloseCopy(a)
      <4>1. old.copy = agent.channels
        BY <1>1, <2>1, <3>1, <3>2 DEF Current, Fits
      <4> QED
        BY <1>6, <1>7, <4>1 DEF CloseCopy, Sets
    <3> QED
      BY <3>1, <3>2 DEF Current, Fits
  <2> QED
    BY <2>2, <2>3
<1>10. CallOK(a)
  <2>1. Paired(a.channels) /\ Proven(a.channels) /\ Paired(a.copy) /\ Proven(a.copy)
    BY <1>3, <1>7, <1>8 DEF CallOK
  <2>2. agent.there # "none" /\ a.seen <= commits
    BY <1>1, <1>3, <1>7 DEF CallOK, Working
  <2>3. \A ch \in Channel : a.copy[ch].token # 0
    BY <1>6, <1>7
  <2> QED
    BY <1>7, <1>9, <2>1, <2>2, <2>3 DEF CallOK
<1> QED
  BY <1>1, <1>2, <1>5, <1>10, CallMoves, KeptOf

(* What is told is what was stored.                                         *)
LEMMA TellsTokens == ASSUME AdminInv, NEW r \in AdminCall, TellTokens(r) PROVE AdminInv'
<1>1. PICK old : old = adminCall[r] /\ old.op = "tokens" /\ old.step = "stored"
  BY DEF TellTokens, Stands
<1>2. /\ adminCall' = [adminCall EXCEPT ![r] = Answered("200")]
      /\ told' = [ch \in Channel |-> told[ch] \cup {old.copy[ch].token}]
      /\ UNCHANGED <<agent, bot, made, given, commits, raced>>
  BY <1>1 DEF TellTokens, Ends
<1>3. CallOK(old)
  BY <1>1, KeptOf
<1>4. \A ch \in Channel : 0 \notin told'[ch]
  BY <1>1, <1>2, <1>3, KeptOf DEF CallOK
<1>5. raced \/ \A ch \in Channel : told'[ch] \subseteq {agent.channels[ch].token}
  <2> SUFFICES ASSUME ~raced, NEW ch \in Channel PROVE told'[ch] \subseteq {agent.channels[ch].token}
    OBVIOUS
  <2>1. Current(old)
    BY <1>1, <1>3 DEF CallOK, Working
  <2>2. old.copy[ch].token # 0
    BY <1>1, <1>3 DEF CallOK
  <2>3. old.copy[ch].token = agent.channels[ch].token
    BY <1>1, <2>1, <2>2 DEF Current
  <2> QED
    BY <1>2, <2>3, KeptOf
<1>6. CallOK(Answered("200"))
  BY AnsweredOK DEF Steps, Working, AdminInv, RowOK
<1>7. made' \in Tokens
  BY <1>2, KeptOf
<1> QED
  BY <1>2, <1>4, <1>5, <1>6, <1>7, CallMoves

(* The copy with the credentials of one channel.                            *)
WithCreds(cfg, ch, creds) == [cfg EXCEPT ![ch].creds = creds]

LEMMA CredsGiven ==
    ASSUME NEW cfg \in Configs, NEW ch \in Channel, NEW creds \in 1 .. NumCreds,
           NEW new, new = WithCreds(cfg, ch, creds)
    PROVE  /\ new \in Configs
           /\ \A c \in Channel : /\ new[c].creds = (IF c = ch THEN creds ELSE cfg[c].creds)
                                  /\ new[c].token = cfg[c].token /\ new[c].verified = cfg[c].verified
<1>1. new = [cfg EXCEPT ![ch] = [cfg[ch] EXCEPT !.creds = creds]]
  BY DEF WithCreds
<1>2. cfg \in [Channel -> ChannelConfig] /\ creds \in 0 .. NumCreds
  BY AdminAssumption DEF Configs
<1>3. [cfg[ch] EXCEPT !.creds = creds] \in ChannelConfig
  BY <1>2 DEF ChannelConfig
<1>4. new \in [Channel -> ChannelConfig]
  BY <1>1, <1>2, <1>3
<1>5. \A c \in Channel : /\ new[c].creds = (IF c = ch THEN creds ELSE cfg[c].creds)
                         /\ new[c].token = cfg[c].token /\ new[c].verified = cfg[c].verified
  BY <1>1, <1>2 DEF ChannelConfig
<1> QED
  BY <1>4, <1>5 DEF Configs

(* Credentials and a token are set together, in the copy of a call.         *)
LEMMA SetsChannel == ASSUME AdminInv, NEW r \in AdminCall, SetChannel(r) PROVE AdminInv'
<1>s0. PICK old : old = adminCall[r]
  OBVIOUS
<1>s1. adminCall[r].op \in {"set_whatsapp", "set_telegram"} /\ adminCall[r].step = "loaded"
  BY DEF SetChannel
<1>s2. {"whatsapp", "telegram"} \subseteq Channel
  BY BareIsBare
<1>s3. PICK ch : ch = (IF adminCall[r].op = "set_telegram" THEN "telegram" ELSE "whatsapp")
  OBVIOUS
<1>s4. PICK creds \in 1 .. NumCreds :
        /\ adminCall' = [adminCall EXCEPT ![r] =
             [@ EXCEPT !.copy = MergedConfig(adminCall[r].copy, ch, creds), !.channel = ch,
                       !.step = "update"]]
        /\ IF MergedConfig(adminCall[r].copy, ch, creds)[ch].token = adminCall[r].copy[ch].token
           THEN UNCHANGED made ELSE Wanting({ch})
  BY <1>s3 DEF SetChannel
<1>s5. PICK given1, copy :
        /\ given1 = WithTokens(adminCall[r].copy, {ch})
        /\ copy = [given1 EXCEPT ![ch].creds = creds]
  OBVIOUS
<1>s6. copy = MergedConfig(adminCall[r].copy, ch, creds)
  BY <1>s5 DEF MergedConfig
<1>s7. PICK a : a = [adminCall[r] EXCEPT !.copy = copy, !.channel = ch, !.step = "update"]
  OBVIOUS
<1>s8. adminCall' = [adminCall EXCEPT ![r] = a]
  BY <1>s4, <1>s6, <1>s7
<1>s9. IF copy[ch].token = adminCall[r].copy[ch].token THEN UNCHANGED made ELSE Wanting({ch})
  BY <1>s4, <1>s6
<1>s10. ch \in Channel
  BY <1>s2, <1>s3
<1>1. /\ old = adminCall[r] /\ old.op \in {"set_whatsapp", "set_telegram"} /\ old.step = "loaded"
      /\ ch = (IF old.op = "set_telegram" THEN "telegram" ELSE "whatsapp")
      /\ given1 = WithTokens(old.copy, {ch})
      /\ copy = [given1 EXCEPT ![ch].creds = creds]
      /\ a = [old EXCEPT !.copy = copy, !.channel = ch, !.step = "update"]
      /\ adminCall' = [adminCall EXCEPT ![r] = a]
      /\ IF copy[ch].token = old.copy[ch].token THEN UNCHANGED made ELSE Wanting({ch})
      /\ ch \in Channel
  BY <1>s0, <1>s1, <1>s3, <1>s5, <1>s7, <1>s8, <1>s9, <1>s10
<1>2. UNCHANGED <<agent, bot, told, given, commits, raced>>
  BY DEF SetChannel
<1>3. old \in AdminCalls /\ CallOK(old) /\ made \in Tokens
  BY <1>1, KeptOf
<1>4. old.copy \in Configs /\ \A c \in Channel : old.copy[c] \in ChannelConfig
  BY <1>3 DEF AdminCalls, Configs
<1>5. made' \in Tokens /\ (made + 2 \in Tokens \/ copy[ch].token = old.copy[ch].token)
  BY <1>1, <1>3, AdminAssumption DEF Wanting, Tokens
<1>6. /\ given1 \in Configs
      /\ \A c \in Channel :
           /\ given1[c].creds = old.copy[c].creds /\ given1[c].verified = old.copy[c].verified
           /\ old.copy[c].token # 0 \/ c # ch => given1[c].token = old.copy[c].token
      /\ given1[ch].token # 0
  <2>1. made + 2 \in Tokens \/ \A c \in {ch} : old.copy[c].token # 0
    <3>1. CASE old.copy[ch].token = 0
      <4>1. PICK n : n = made + (IF ch = "telegram" THEN 2 ELSE 1)
        OBVIOUS
      <4>2. given1[ch] = [old.copy[ch] EXCEPT !.token = n]
        BY <1>1, <3>1, <4>1 DEF WithTokens
      <4>3. given1[ch] = [creds |-> old.copy[ch].creds, token |-> n, verified |-> old.copy[ch].verified]
        BY <1>1, <1>4, <4>2 DEF ChannelConfig
      <4>4. ch \in DOMAIN given1
        BY <1>1 DEF WithTokens
      <4>5. copy[ch] = [given1[ch] EXCEPT !.creds = creds]
        BY <1>1, <4>4
      <4>6. copy[ch].token = n
        BY <4>3, <4>5
      <4>7. n # 0
        BY <1>3, <4>1, AdminAssumption DEF Tokens
      <4> QED
        BY <1>5, <3>1, <4>6, <4>7
    <3> QED
      BY <3>1
  <2>2. {ch} \in SUBSET Channel
    BY <1>1
  <2>3. /\ given1 \in Configs
        /\ \A c \in Channel :
             /\ given1[c].creds = old.copy[c].creds
             /\ given1[c].verified = old.copy[c].verified
             /\ old.copy[c].token # 0 \/ c \notin {ch} => given1[c].token = old.copy[c].token
             /\ c \in {ch} => given1[c].token # 0
    <3>1. old.copy \in Configs /\ made \in Tokens
      BY <1>1, <1>3, <1>4
    <3>2. given1 = WithTokens(old.copy, {ch})
      BY <1>1
    <3> QED
      BY <2>1, <2>2, <3>1, <3>2, TokensGiven
  <2> QED
    BY <1>1, <2>3
<1>7. /\ copy \in Configs
      /\ \A c \in Channel :
           /\ copy[c].creds = (IF c = ch THEN creds ELSE old.copy[c].creds)
           /\ copy[c].verified = old.copy[c].verified
           /\ old.copy[c].token # 0 \/ c # ch => copy[c].token = old.copy[c].token
      /\ copy[ch].token # 0
  <2>1. /\ copy \in Configs
        /\ \A c \in Channel : /\ copy[c].creds = (IF c = ch THEN creds ELSE given1[c].creds)
                               /\ copy[c].token = given1[c].token
                               /\ copy[c].verified = given1[c].verified
    <3>1. given1 \in Configs /\ copy = WithCreds(given1, ch, creds)
      BY <1>1, <1>6 DEF WithCreds
    <3>2. ch \in Channel /\ creds \in 1 .. NumCreds
      BY <1>s4, <1>1
    <3> QED
      BY <3>1, <3>2, CredsGiven
  <2>2. \A c \in Channel : given1[c].creds = old.copy[c].creds /\ given1[c].verified = old.copy[c].verified
    BY <1>6
  <2>3. \A c \in Channel : old.copy[c].token # 0 \/ c # ch => given1[c].token = old.copy[c].token
    BY <1>6
  <2>4. given1[ch].token # 0
    BY <1>6
  <2>5. ch \in Channel
    BY <1>1
  <2>6. copy[ch].token # 0
    BY <2>1, <2>4, <2>5
  <2> QED
    BY <2>1, <2>2, <2>3, <2>6
<1>8. /\ a \in AdminCalls /\ a.op = old.op /\ a.seen = old.seen /\ a.copy = copy
      /\ a.channels = old.channels /\ a.step = "update" /\ a.channel = ch
  <2>1. copy \in Configs /\ "update" \in Steps /\ ch \in Channel
    BY <1>1, <1>7 DEF Steps, Working
  <2>2. a = [old EXCEPT !.copy = copy, !.channel = ch, !.step = "update"] /\ old \in AdminCalls
    BY <1>1, <1>3
  <2>3. a \in AdminCalls
    BY <2>1, <2>2 DEF AdminCalls
  <2> QED
    BY <2>2, <2>3 DEF AdminCalls
<1>9. Paired(copy) /\ (Proven(old.copy) => Proven(copy))
  <2>1. "telegram" \in Channel /\ Paired(old.copy)
    BY <1>3, BareIsBare DEF CallOK
  <2> QED
    BY <1>7, <2>1 DEF Paired, Proven
<1>10. ASSUME ~raced, a.seen = commits PROVE CloseCopy(a)
  <2>1. Current(old)
    BY <1>1, <1>3, <1>10 DEF CallOK, Working
  <2>2. old.copy = agent.channels
    BY <1>1, <1>8, <1>10, <2>1 DEF Current, Fits
  <2>3. \A c \in Channel : Sets(a, c) <=> c = ch
    BY <1>1, <1>8 DEF Sets
  <2> QED
    BY <1>7, <1>8, <2>2, <2>3 DEF CloseCopy
<1>11. CallOK(a)
  <2>1. Paired(a.channels) /\ Proven(a.channels) /\ Paired(a.copy) /\ Proven(a.copy)
    BY <1>3, <1>8, <1>9 DEF CallOK
  <2>2. agent.there # "none" /\ a.seen <= commits
    BY <1>1, <1>3, <1>8 DEF CallOK, Working
  <2>3. a.op = "set_telegram" => a.copy["telegram"].creds # 0
    BY <1>1, <1>7, <1>8
  <2>4. ~raced => Current(a)
    BY <1>8, <1>10 DEF Current, Fits
  <2> QED
    BY <1>1, <1>8, <2>1, <2>2, <2>3, <2>4 DEF CallOK
<1> QED
  BY <1>1, <1>2, <1>5, <1>11, CallMoves, KeptOf

(* The messenger's bot moves, and the row does not.                         *)
LEMMA BotMoves ==
    ASSUME AdminInv, NEW r \in AdminCall, NEW a, CallOK(a)',
           adminCall' = [adminCall EXCEPT ![r] = a],
           UNCHANGED <<agent, told, made, given, commits, raced>>,
           bot' \in [1 .. NumCreds -> Tokens],
           \A b \in 1 .. NumCreds : bot[b] # 0 => bot'[b] # 0,
           raced \/ \A b \in 1 .. NumCreds : bot'[b] \in {0, agent.channels["telegram"].token}
    PROVE  AdminInv'
<1>1. ASSUME NEW cfg, Proven(cfg) PROVE Proven(cfg)'
  BY <1>1 DEF Proven
<1>2. RowOK'
  BY <1>1 DEF AdminInv, RowOK, Settled, Paired, Proven
<1>3. ASSUME NEW b, CallOK(b) PROVE CallOK(b)'
  BY <1>1, <1>3 DEF CallOK, Current, Fits, CloseCopy
<1>4. a \in AdminCalls
  BY DEF CallOK
<1>5. adminCall' \in [AdminCall -> AdminCalls]
  BY <1>4 DEF AdminInv
<1>6. \A q \in AdminCall : adminCall'[q] = IF q = r THEN a ELSE adminCall[q]
  BY DEF AdminInv
<1>7. ASSUME NEW q \in AdminCall PROVE CallOK(adminCall[q])'
  <2>1. PICK b : b = adminCall'[q] /\ (b = a \/ b = adminCall[q])
    BY <1>6
  <2>2. CallOK(b)'
    BY <1>3, <2>1 DEF AdminInv
  <2> QED
    BY <2>1, <2>2
<1> QED
  BY <1>2, <1>5, <1>7 DEF AdminInv

(* The copy with one channel verified.                                      *)
VerifiedBy(cfg, ch) == [cfg EXCEPT ![ch].verified = TRUE]

LEMMA VerifiedGiven ==
    ASSUME NEW cfg \in Configs, NEW ch \in Channel
    PROVE  /\ VerifiedBy(cfg, ch) \in Configs
           /\ \A c \in Channel : /\ VerifiedBy(cfg, ch)[c].creds = cfg[c].creds
                                  /\ VerifiedBy(cfg, ch)[c].token = cfg[c].token
                                  /\ VerifiedBy(cfg, ch)[c].verified = (c = ch \/ cfg[c].verified)
<1>1. PICK new : new = [cfg EXCEPT ![ch] = [cfg[ch] EXCEPT !.verified = TRUE]]
  OBVIOUS
<1>2. cfg \in [Channel -> ChannelConfig]
  BY DEF Configs
<1>3. [cfg[ch] EXCEPT !.verified = TRUE] \in ChannelConfig
  BY <1>2 DEF ChannelConfig
<1>4. new \in [Channel -> ChannelConfig]
  BY <1>1, <1>2, <1>3
<1>5. \A c \in Channel : /\ new[c].creds = cfg[c].creds /\ new[c].token = cfg[c].token
                         /\ new[c].verified = (c = ch \/ cfg[c].verified)
  BY <1>1, <1>2 DEF ChannelConfig
<1>6. VerifiedBy(cfg, ch) = new
  BY <1>1 DEF VerifiedBy
<1> QED
  BY <1>4, <1>5, <1>6 DEF Configs

(* Telegram is called verified once it has taken a webhook.                 *)
LEMMA Registers == ASSUME AdminInv, NEW r \in AdminCall, RegisterWebhook(r) PROVE AdminInv'
<1>1. PICK old, c : old = adminCall[r] /\ c = old.copy["telegram"]
  OBVIOUS
<1>2. old.op = "set_telegram" /\ old.step = "stored" /\ UNCHANGED <<agent, told, made, given, commits, raced>>
  BY <1>1 DEF RegisterWebhook, Stands
<1>3. old \in AdminCalls /\ CallOK(old) /\ bot \in [1 .. NumCreds -> Tokens]
  BY <1>1, KeptOf DEF AdminInv, RowOK
<1>4. old.copy \in Configs /\ "telegram" \in Channel /\ c \in ChannelConfig
  BY <1>1, <1>3, BareIsBare DEF AdminCalls, Configs
<1>5. c.creds \in 1 .. NumCreds /\ c.token \in Tokens /\ c.token # 0
  <2>1. c.creds # 0
    BY <1>1, <1>2, <1>3 DEF CallOK
  <2>2. c.token # 0
    BY <1>1, <1>3, <1>4, <2>1 DEF CallOK, Paired
  <2> QED
    BY <1>4, <2>1, <2>2, AdminAssumption DEF ChannelConfig, Tokens
<1>6. ~raced => c.token = agent.channels["telegram"].token
  BY <1>1, <1>2, <1>3, <1>4, <1>5 DEF CallOK, Current, Working
<1>7. CASE Ends(r, "200") /\ UNCHANGED bot
  BY <1>2, <1>7, CallIsOver DEF Steps, Working
<1>8. SUFFICES ASSUME bot' = [bot EXCEPT ![c.creds] = c.token] PROVE AdminInv'
  BY <1>1, <1>7 DEF RegisterWebhook
<1>9. /\ bot' \in [1 .. NumCreds -> Tokens] /\ bot'[c.creds] # 0
      /\ \A b \in 1 .. NumCreds : bot[b] # 0 => bot'[b] # 0
  BY <1>3, <1>5, <1>8
<1>10. raced \/ \A b \in 1 .. NumCreds : bot'[b] \in {0, agent.channels["telegram"].token}
  BY <1>3, <1>5, <1>6, <1>8 DEF AdminInv, RowOK, Settled
<1>11. CASE Ends(r, "500")
  <2>1. CallOK(Answered("500")) /\ Answered("500").op = "none" /\ Answered("500").step = "500"
    BY AnsweredOK DEF AdminInv, RowOK, Steps, Working, Answered, NotCalled
  <2>2. CallOK(Answered("500"))'
    BY <1>2, <1>9, <2>1 DEF CallOK, Current, Fits, CloseCopy, Proven
  <2> QED
    BY <1>2, <1>9, <1>10, <1>11, <2>2, BotMoves DEF Ends
<1>12. CASE adminCall' = [adminCall EXCEPT ![r] =
                 [@ EXCEPT !.copy = [adminCall[r].copy EXCEPT !["telegram"].verified = TRUE],
                           !.op = "set_verified", !.step = "update"]]
  <2>1. PICK copy : copy = VerifiedBy(old.copy, "telegram")
    OBVIOUS
  <2>2. PICK a : a = [old EXCEPT !.copy = copy, !.op = "set_verified", !.step = "update"]
    OBVIOUS
  <2>3. adminCall' = [adminCall EXCEPT ![r] = a]
    <3>1. copy = [adminCall[r].copy EXCEPT !["telegram"].verified = TRUE]
      BY <1>1, <2>1 DEF VerifiedBy
    <3>2. a = [adminCall[r] EXCEPT !.copy = copy, !.op = "set_verified", !.step = "update"]
      BY <1>1, <2>2
    <3>3. adminCall' = [adminCall EXCEPT ![r] =
            [adminCall[r] EXCEPT !.copy = [adminCall[r].copy EXCEPT !["telegram"].verified = TRUE],
                                 !.op = "set_verified", !.step = "update"]]
      BY <1>12
    <3> QED
      BY <3>1, <3>2, <3>3
  <2>4. /\ copy \in Configs
        /\ \A d \in Channel : /\ copy[d].creds = old.copy[d].creds /\ copy[d].token = old.copy[d].token
                              /\ copy[d].verified = (d = "telegram" \/ old.copy[d].verified)
    BY <1>4, <2>1, VerifiedGiven
  <2>5. /\ a \in AdminCalls /\ a.op = "set_verified" /\ a.step = "update" /\ a.copy = copy
        /\ a.seen = old.seen /\ a.channels = old.channels
    BY <1>3, <2>2, <2>4 DEF AdminCalls, Ops, Steps, Working
  <2>6. Paired(a.copy) /\ Paired(a.channels) /\ Proven(a.copy)' /\ Proven(a.channels)'
    <3>1. Paired(a.copy) /\ Paired(a.channels)
      BY <1>3, <2>4, <2>5 DEF CallOK, Paired
    <3>2. \E b \in 1 .. NumCreds : bot'[b] # 0
      BY <1>5, <1>9
    <3> QED
      BY <3>1, <3>2 DEF Proven
  <2>7. ASSUME ~raced, a.seen = commits PROVE CloseCopy(a)
    <3>1. old.copy = agent.channels
      BY <1>2, <1>3, <2>5, <2>7 DEF CallOK, Current, Fits, Working
    <3> QED
      BY <2>4, <2>5, <3>1 DEF CloseCopy, Sets
  <2>8. agent.there # "none" /\ a.seen <= commits
    BY <1>2, <1>3, <2>5 DEF CallOK, Working
  <2>9. ~raced => Current(a)
    BY <2>5, <2>7 DEF Current, Fits
  <2>10. CallOK(a)'
    BY <1>2, <2>5, <2>6, <2>8, <2>9 DEF CallOK, Current, Fits, CloseCopy, Paired
  <2> QED
    BY <1>2, <1>9, <1>10, <2>3, <2>10, BotMoves
<1> QED
  BY <1>7, <1>11, <1>12 DEF RegisterWebhook

LEMMA Verifies == ASSUME AdminInv, NEW r \in AdminCall, VerifySubscription(r) PROVE AdminInv'
<1>1. PICK old : old = adminCall[r] /\ old.op = "verify" /\ old.step = "loaded"
  BY DEF VerifySubscription, Stands
<1>2. old \in AdminCalls /\ CallOK(old) /\ UNCHANGED <<agent, bot, told, made, given, commits, raced>>
  BY <1>1, KeptOf DEF VerifySubscription
<1>3. CASE Ends(r, "403")
  BY <1>2, <1>3, CallIsOver DEF Steps, Working
<1>4. CASE adminCall' = [adminCall EXCEPT ![r] = [@ EXCEPT !.step = "checked"]]
  <2>1. PICK a : a = [old EXCEPT !.step = "checked"]
    OBVIOUS
  <2>2. adminCall' = [adminCall EXCEPT ![r] = a]
    BY <1>1, <1>4, <2>1
  <2>3. /\ a \in AdminCalls /\ a.op = "verify" /\ a.step = "checked" /\ a.copy = old.copy
        /\ a.seen = old.seen /\ a.channels = old.channels
    BY <1>1, <1>2, <2>1 DEF AdminCalls, Steps, Working
  <2>4. CallOK(a)
    BY <1>1, <1>2, <2>3 DEF CallOK, Current, Fits, Working
  <2> QED
    BY <1>2, <2>2, <2>4, CallMoves, KeptOf
<1> QED
  BY <1>3, <1>4 DEF VerifySubscription

LEMMA SetsVerified == ASSUME AdminInv, NEW r \in AdminCall, SetVerified(r) PROVE AdminInv'
<1>1. PICK old : old = adminCall[r] /\ old.op = "verify" /\ old.step = "checked"
  BY DEF SetVerified, Stands
<1>2. old \in AdminCalls /\ CallOK(old) /\ UNCHANGED <<agent, bot, told, made, given, commits, raced>>
  BY <1>1, KeptOf DEF SetVerified
<1>3. CASE Ends(r, "404") \/ Ends(r, "200")
  BY <1>2, <1>3, CallIsOver DEF Steps, Working
<1>4. CASE ~(Ends(r, "404") \/ Ends(r, "200"))
  <2>0. agent.there = "live"
    BY <1>4 DEF SetVerified, Ends
  <2>1. PICK copy : copy = VerifiedBy(agent.channels, "whatsapp")
    OBVIOUS
  <2>2. PICK a : a = [old EXCEPT !.seen = commits, !.step = "update", !.copy = copy]
    OBVIOUS
  <2>3. adminCall' = [adminCall EXCEPT ![r] = a]
    BY <1>1, <1>4, <2>0, <2>1, <2>2 DEF SetVerified, Ends, VerifiedBy
  <2>4. agent.channels \in Configs /\ commits \in Nat /\ Paired(agent.channels) /\ Proven(agent.channels)
    BY DEF AdminInv, RowOK
  <2>5. /\ copy \in Configs
        /\ \A d \in Channel : /\ copy[d].creds = agent.channels[d].creds
                              /\ copy[d].token = agent.channels[d].token
                              /\ copy[d].verified = (d = "whatsapp" \/ agent.channels[d].verified)
    <3>1. "whatsapp" \in Channel /\ agent.channels \in Configs
      BY <2>4, BareIsBare
    <3> QED
      BY <2>1, <3>1, VerifiedGiven
  <2>6. /\ a \in AdminCalls /\ a.op = "verify" /\ a.step = "update" /\ a.copy = copy
        /\ a.seen = commits /\ a.channels = old.channels
    BY <1>1, <1>2, <2>2, <2>4, <2>5 DEF AdminCalls, Steps, Working
  <2>7. Paired(a.copy) /\ Proven(a.copy) /\ Paired(a.channels) /\ Proven(a.channels)
    <3>1. Paired(copy) /\ Proven(copy)
      BY <2>4, <2>5, BareIsBare DEF Paired, Proven
    <3> QED
      BY <1>2, <2>6, <3>1 DEF CallOK
  <2>8. CloseCopy(a)
    BY <2>5, <2>6 DEF CloseCopy, Sets
  <2>9. a.seen <= commits
    BY <2>4, <2>6
  <2>10. CallOK(a)
    BY <2>0, <2>6, <2>7, <2>8, <2>9 DEF CallOK, Current, Fits
  <2> QED
    BY <1>2, <2>3, <2>10, CallMoves, KeptOf
<1> QED
  BY <1>3, <1>4

(* A change of the row that neither the config nor the prompt is part of.   *)
LEMMA RowMoves ==
    ASSUME AdminInv, NEW r \in AdminCall, NEW a, CallOK(a),
           adminCall' = [adminCall EXCEPT ![r] = a],
           UNCHANGED <<bot, told, made, given, commits, raced>>,
           NEW row, agent' = row, row.channels = agent.channels, row.prompt = agent.prompt,
           row \in [there : {"none", "live", "deleted"}, instructions : Prompts, prompt : Prompts,
                    channels : Configs],
           agent.there # "none", row.there # "none"
    PROVE  AdminInv'
<1>1. RowOK'
  BY DEF AdminInv, RowOK, Settled, Paired, Proven
<1>2. ASSUME NEW b, CallOK(b) PROVE CallOK(b)'
  <2>1. CloseCopy(b) => CloseCopy(b)'
    BY DEF CloseCopy, Sets
  <2>2. Fits(b) => Fits(b)'
    BY <2>1 DEF Fits
  <2>3. Current(b) => Current(b)'
    BY <2>2 DEF Current
  <2> QED
    BY <1>2, <2>3 DEF CallOK, Proven
<1>3. a \in AdminCalls
  BY DEF CallOK
<1>4. adminCall' \in [AdminCall -> AdminCalls]
  BY <1>3 DEF AdminInv
<1>5. \A q \in AdminCall : adminCall'[q] = IF q = r THEN a ELSE adminCall[q]
  BY DEF AdminInv
<1>6. ASSUME NEW q \in AdminCall PROVE CallOK(adminCall[q])'
  <2>1. PICK b : b = adminCall'[q] /\ CallOK(b)
    BY <1>5 DEF AdminInv
  <2>2. CallOK(b)'
    BY <1>2, <2>1
  <2> QED
    BY <2>1, <2>2
<1> QED
  BY <1>1, <1>4, <1>6 DEF AdminInv

(* The owner's other changes leave the channels alone.                      *)
LEMMA Patches == ASSUME AdminInv, NEW r \in AdminCall, PatchAgent(r) \/ SoftDelete(r) PROVE AdminInv'
<1>1. agent.there # "none" /\ UNCHANGED <<bot, told, made, given, commits, raced>>
      /\ adminCall[r].step = "idle"
  BY DEF PatchAgent, SoftDelete
<1>2. agent \in [there : {"none", "live", "deleted"}, instructions : Prompts, prompt : Prompts,
                 channels : Configs] /\ commits \in Nat
  BY DEF AdminInv, RowOK
<1>3. CallOK(Answered("200"))
  BY <1>2, AnsweredOK DEF Steps, Working
<1>4. ASSUME NEW p \in Prompts, Ends(r, "200"),
             \/ agent' = [agent EXCEPT !.instructions = p]
             \/ agent' = [agent EXCEPT !.there = "deleted"]
      PROVE  AdminInv'
  <2>1. PICK row : row = agent'
    OBVIOUS
  <2>2. /\ row.channels = agent.channels /\ row.prompt = agent.prompt /\ row.there # "none"
        /\ row \in [there : {"none", "live", "deleted"}, instructions : Prompts, prompt : Prompts,
                    channels : Configs]
    BY <1>1, <1>2, <1>4, <2>1
  <2> QED
    BY <1>1, <1>3, <1>4, <2>1, <2>2, RowMoves DEF Ends
<1>5. CASE SoftDelete(r)
  BY <1>2, <1>4, <1>5 DEF SoftDelete
<1>6. ASSUME NEW p \in Prompts, UNCHANGED agent,
             adminCall' = [adminCall EXCEPT ![r] =
                 [@ EXCEPT !.op = "prompt", !.step = "update", !.seen = commits, !.prompt = p]]
      PROVE  AdminInv'
  <2>1. PICK old : old = adminCall[r] /\ old \in AdminCalls /\ CallOK(old)
    BY KeptOf
  <2>2. PICK a : a = [old EXCEPT !.op = "prompt", !.step = "update", !.seen = commits, !.prompt = p]
    OBVIOUS
  <2>3. adminCall' = [adminCall EXCEPT ![r] = a]
    BY <1>6, <2>1, <2>2
  <2>4. /\ a \in AdminCalls /\ a.op = "prompt" /\ a.step = "update" /\ a.copy = old.copy
        /\ a.seen = commits /\ a.channels = old.channels
    BY <1>2, <2>1, <2>2 DEF AdminCalls, Ops, Steps, Working
  <2>5. a.seen <= commits
    BY <1>2, <2>4
  <2>6. CallOK(a)
    BY <1>1, <2>1, <2>4, <2>5 DEF CallOK, Current, Fits
  <2> QED
    BY <1>1, <1>6, <2>3, <2>6, CallMoves, KeptOf
<1>7. 1 .. NumPrompts \subseteq Prompts
  BY AdminAssumption DEF Prompts
<1> QED
  BY <1>4, <1>5, <1>6, <1>7 DEF PatchAgent

LEMMA Creates == ASSUME AdminInv, CreateAgent PROVE AdminInv'
<1>1. PICK p \in 1 .. NumPrompts :
        /\ agent' = [agent EXCEPT !.there = "live", !.instructions = p, !.prompt = p]
        /\ given' = [given EXCEPT !.prompt = p]
  BY DEF CreateAgent
<1>2. agent.there = "none" /\ UNCHANGED <<adminCall, bot, told, made, commits, raced>>
  BY DEF CreateAgent
<1>3. p \in Prompts
  BY <1>1, AdminAssumption DEF Prompts
<1>4. /\ agent \in [there : {"none", "live", "deleted"}, instructions : Prompts, prompt : Prompts,
                    channels : Configs]
      /\ given \in [creds : [Channel -> 0 .. NumCreds], prompt : Prompts]
  BY DEF AdminInv, RowOK
<1>5. /\ agent'.channels = agent.channels /\ agent'.there = "live" /\ agent'.prompt = p
      /\ agent' \in [there : {"none", "live", "deleted"}, instructions : Prompts, prompt : Prompts,
                     channels : Configs]
  BY <1>1, <1>3, <1>4
<1>6. /\ given'.creds = given.creds /\ given'.prompt = p
      /\ given' \in [creds : [Channel -> 0 .. NumCreds], prompt : Prompts]
  BY <1>1, <1>3, <1>4
<1>7. RowOK'
  BY <1>2, <1>5, <1>6 DEF AdminInv, RowOK, Settled, Paired, Proven
<1>8. ASSUME NEW q \in AdminCall PROVE CallOK(adminCall[q])'
  <2>1. PICK b : b = adminCall[q] /\ CallOK(b)
    BY <1>8 DEF AdminInv
  <2>2. b.step \notin Working
    BY <1>2, <2>1 DEF CallOK
  <2>3. CallOK(b)'
    BY <1>2, <1>5, <2>1, <2>2 DEF CallOK, Paired, Proven
  <2> QED
    BY <1>2, <2>1, <2>3
<1> QED
  BY <1>2, <1>7, <1>8 DEF AdminInv

(* _deep_merge, one channel of it.                                          *)
LEMMA MergedFields ==
    ASSUME NEW base \in Configs, NEW new \in Configs, NEW ch \in Channel
    PROVE  /\ DeepMerge(base, new)[ch] \in ChannelConfig
           /\ DeepMerge(base, new)[ch].creds = OrElse(new[ch].creds, base[ch].creds)
           /\ DeepMerge(base, new)[ch].token = OrElse(new[ch].token, base[ch].token)
           /\ DeepMerge(base, new)[ch].verified = (base[ch].verified \/ new[ch].verified)
<1>1. PICK creds, token, verified :
        /\ creds = OrElse(new[ch].creds, base[ch].creds)
        /\ token = OrElse(new[ch].token, base[ch].token)
        /\ verified = (base[ch].verified \/ new[ch].verified)
  OBVIOUS
<1>2. DeepMerge(base, new)[ch] = [creds |-> creds, token |-> token, verified |-> verified]
  BY <1>1 DEF DeepMerge
<1>3. base[ch] \in ChannelConfig /\ new[ch] \in ChannelConfig
  BY DEF Configs
<1>4. creds \in 0 .. NumCreds /\ token \in 0 .. MaxTokensMade
  BY <1>1, <1>3 DEF ChannelConfig, OrElse
<1>5. verified \in BOOLEAN
  BY <1>1
<1> QED
  BY <1>1, <1>2, <1>4, <1>5 DEF ChannelConfig

(* What a merge makes of a sound config and a sound update is sound.        *)
LEMMA MergeSound ==
    ASSUME NEW base \in Configs, NEW new \in Configs, Paired(base), Paired(new), Proven(base), Proven(new)
    PROVE  DeepMerge(base, new) \in Configs /\ Paired(DeepMerge(base, new)) /\ Proven(DeepMerge(base, new))
<1>1. PICK merged : merged = DeepMerge(base, new)
  OBVIOUS
<1>2. \A ch \in Channel : /\ merged[ch] \in ChannelConfig
                          /\ merged[ch].creds = OrElse(new[ch].creds, base[ch].creds)
                          /\ merged[ch].token = OrElse(new[ch].token, base[ch].token)
                          /\ merged[ch].verified = (base[ch].verified \/ new[ch].verified)
  BY <1>1, MergedFields
<1>3. merged \in Configs
  <2>1. merged = [ch \in Channel |-> merged[ch]]
    BY <1>1 DEF DeepMerge
  <2> QED
    BY <1>2, <2>1 DEF Configs
<1>4. Paired(merged)
  BY <1>2 DEF Paired, OrElse
<1>5. Proven(merged)
  BY <1>2, BareIsBare DEF Proven
<1> QED
  BY <1>1, <1>3, <1>4, <1>5

(* The merge of a sound copy into a sound config is sound.                  *)
LEMMA UpdateMerges == ASSUME AdminInv, NEW r \in AdminCall, MergeUpdate(r) PROVE AdminInv'
<1>1. PICK old : old = adminCall[r] /\ old.step = "update"
  BY DEF MergeUpdate
<1>2. old \in AdminCalls /\ CallOK(old) /\ UNCHANGED <<agent, bot, told, made, given, commits, raced>>
  BY <1>1, KeptOf DEF MergeUpdate
<1>3. agent.channels \in Configs /\ agent.prompt \in Prompts /\ Paired(agent.channels) /\ Proven(agent.channels)
  BY DEF AdminInv, RowOK
<1>4. old.copy \in Configs /\ Paired(old.copy) /\ Proven(old.copy)
  BY <1>2 DEF AdminCalls, CallOK
<1>5. PICK channels, prompt :
        /\ channels = IF old.op = "prompt" THEN agent.channels ELSE DeepMerge(agent.channels, old.copy)
        /\ prompt = IF old.op = "prompt" THEN old.prompt ELSE agent.prompt
  OBVIOUS
<1>6. channels \in Configs /\ Paired(channels) /\ Proven(channels) /\ prompt \in Prompts
  <2>1. CASE old.op = "prompt"
    BY <1>2, <1>3, <1>5, <2>1 DEF AdminCalls
  <2>2. CASE old.op # "prompt"
    <3>1. /\ DeepMerge(agent.channels, old.copy) \in Configs /\ Paired(DeepMerge(agent.channels, old.copy))
          /\ Proven(DeepMerge(agent.channels, old.copy))
      BY <1>3, <1>4, MergeSound
    <3> QED
      BY <1>3, <1>5, <2>2, <3>1
  <2> QED
    BY <2>1, <2>2
<1>7. PICK a : a = [old EXCEPT !.step = "merged", !.prompt = prompt, !.channels = channels]
  OBVIOUS
<1>8. /\ a \in AdminCalls /\ a.step = "merged" /\ a.channels = channels /\ a.prompt = prompt
      /\ a.op = old.op /\ a.copy = old.copy /\ a.seen = old.seen /\ a.channel = old.channel
  BY <1>2, <1>6, <1>7 DEF AdminCalls, Steps, Working
<1>9. adminCall' = [adminCall EXCEPT ![r] = a]
  <2>1. CASE old.op = "prompt"
    <3>1. a = [old EXCEPT !.step = "merged", !.channels = agent.channels]
      BY <1>2, <1>5, <1>7, <2>1 DEF AdminCalls
    <3> QED
      BY <1>1, <2>1, <3>1 DEF MergeUpdate
  <2>2. CASE old.op # "prompt"
    <3>1. a = [old EXCEPT !.step = "merged", !.prompt = agent.prompt,
                          !.channels = DeepMerge(agent.channels, old.copy)]
      BY <1>5, <1>7, <2>2
    <3> QED
      BY <1>1, <2>2, <3>1 DEF MergeUpdate
  <2> QED
    BY <2>1, <2>2
<1>10. ASSUME ~raced, a.seen = commits PROVE Fits(a)
  <2>1. Fits(old)
    BY <1>1, <1>2, <1>8, <1>10 DEF CallOK, Current, Working
  <2>2. a.op # "prompt" => CloseCopy(a)
    BY <1>1, <1>8, <2>1 DEF Fits, CloseCopy, Sets
  <2> QED
    BY <1>5, <1>8, <2>2 DEF Fits
<1>11. CallOK(a)
  <2>1. /\ a.op = "set_telegram" => a.copy["telegram"].creds # 0
        /\ a.op = "tokens" => \A ch \in Channel : a.copy[ch].token # 0
    BY <1>1, <1>2, <1>8 DEF CallOK
  <2>2. agent.there # "none" /\ a.seen <= commits
    BY <1>1, <1>2, <1>8 DEF CallOK, Working
  <2>3. Paired(a.copy) /\ Paired(a.channels) /\ Proven(a.copy) /\ Proven(a.channels)
    BY <1>4, <1>6, <1>8
  <2>4. ~raced => Current(a)
    BY <1>8, <1>10 DEF Current
  <2> QED
    BY <1>8, <2>1, <2>2, <2>3, <2>4 DEF CallOK
<1> QED
  BY <1>2, <1>9, <1>11, CallMoves, KeptOf

(* A merge of an update that fits is the update itself.                     *)
LEMMA MergeFits ==
    ASSUME NEW a \in AdminCalls, agent.channels \in Configs, CloseCopy(a)
    PROVE  DeepMerge(agent.channels, a.copy) = a.copy
<1>1. a.copy \in [Channel -> ChannelConfig] /\ agent.channels \in [Channel -> ChannelConfig]
  BY DEF AdminCalls, Configs
<1>2. ASSUME NEW ch \in Channel PROVE DeepMerge(agent.channels, a.copy)[ch] = a.copy[ch]
  <2>1. PICK new, base, merged :
          new = a.copy[ch] /\ base = agent.channels[ch] /\ merged = DeepMerge(agent.channels, a.copy)[ch]
    OBVIOUS
  <2>2. new \in ChannelConfig /\ base \in ChannelConfig
    BY <1>1, <2>1
  <2>3. /\ merged \in ChannelConfig /\ merged.creds = OrElse(new.creds, base.creds)
        /\ merged.token = OrElse(new.token, base.token) /\ merged.verified = (base.verified \/ new.verified)
    BY <1>1, <2>1, MergedFields DEF Configs
  <2>4. merged.creds = new.creds /\ merged.token = new.token
    BY <2>1, <2>3 DEF CloseCopy, OrElse
  <2>5. base.verified => new.verified
    BY <2>1 DEF CloseCopy
  <2> QED
    BY <2>1, <2>2, <2>3, <2>4, <2>5 DEF ChannelConfig
<1> QED
  BY <1>1, <1>2 DEF DeepMerge

(* What a commit of a copy that fits does to the row.                       *)
LEMMA CommitFits ==
    ASSUME RowOK, ~raced, NEW a, CallOK(a), a.step = "merged", a.seen = commits
    PROVE  /\ \A ch \in Channel :
                /\ agent.channels[ch].token # 0 => a.channels[ch].token = agent.channels[ch].token
                /\ a.channels[ch].creds =
                     IF Sets(a, ch) THEN a.copy[ch].creds ELSE agent.channels[ch].creds
           /\ a.op # "prompt" => a.channels = a.copy /\ a.prompt = agent.prompt
<1>1. Fits(a) /\ a \in AdminCalls /\ agent.channels \in Configs
  BY DEF CallOK, Current, Working, RowOK
<1>2. CASE a.op = "prompt"
  BY <1>1, <1>2 DEF Fits, Sets
<1>3. CASE a.op # "prompt"
  <2>1. CloseCopy(a) /\ a.channels = DeepMerge(agent.channels, a.copy) /\ a.prompt = agent.prompt
    BY <1>1, <1>3 DEF Fits
  <2>2. a.channels = a.copy
    BY <1>1, <2>1, MergeFits
  <2> QED
    BY <2>1, <2>2 DEF CloseCopy
<1> QED
  BY <1>2, <1>3

(* The commit: it fits the row for the call itself, and every other call    *)
(* now holds a copy that is older, which is what raced is about.            *)
LEMMA Committed == ASSUME AdminInv, NEW r \in AdminCall, CommitUpdate(r) PROVE AdminInv'
<1>1. PICK a : a = adminCall[r] /\ a.step = "merged"
  BY DEF CommitUpdate
<1>2. /\ commits' = commits + 1 /\ raced' = (raced \/ a.seen # commits)
      /\ UNCHANGED <<bot, told, made>>
  BY <1>1 DEF CommitUpdate, Commits
<1>3. a \in AdminCalls /\ CallOK(a) /\ RowOK
  BY <1>1, KeptOf DEF AdminInv
<1>4. /\ agent \in [there : {"none", "live", "deleted"}, instructions : Prompts, prompt : Prompts,
                    channels : Configs]
      /\ given \in [creds : [Channel -> 0 .. NumCreds], prompt : Prompts] /\ commits \in Nat
  BY <1>3 DEF RowOK
<1>5. a.channels \in Configs /\ a.copy \in Configs /\ a.prompt \in Prompts /\ a.channel \in Channel
  BY <1>3 DEF AdminCalls
<1>6. /\ agent'.channels = a.channels /\ agent'.prompt = a.prompt /\ agent'.there = agent.there
      /\ agent' \in [there : {"none", "live", "deleted"}, instructions : Prompts, prompt : Prompts,
                     channels : Configs]
  <2>1. PICK i : i = IF a.op = "prompt" THEN a.prompt ELSE agent.instructions
    OBVIOUS
  <2>2. i \in Prompts
    BY <1>4, <1>5, <2>1
  <2>3. agent' = [agent EXCEPT !.channels = a.channels, !.prompt = a.prompt, !.instructions = i]
    BY <1>1, <2>1 DEF CommitUpdate
  <2> QED
    BY <1>4, <1>5, <2>2, <2>3
<1>7. agent.there # "none"
  BY <1>1, <1>3 DEF CallOK, Working
<1>8. /\ given' \in [creds : [Channel -> 0 .. NumCreds], prompt : Prompts]
      /\ \A ch \in Channel :
           given'.creds[ch] = IF Sets(a, ch) THEN a.copy[ch].creds ELSE given.creds[ch]
      /\ given'.prompt = IF a.op = "prompt" THEN a.prompt ELSE given.prompt
  <2>1. CASE a.op \in {"set_whatsapp", "set_telegram"}
    <3>1. a.op # "prompt"
      BY <2>1
    <3>2. PICK n, creds : n = a.copy[a.channel].creds /\ creds = [given.creds EXCEPT ![a.channel] = n]
      OBVIOUS
    <3>3. n \in 0 .. NumCreds
      BY <1>5, <3>2 DEF Configs, ChannelConfig
    <3>4. given' = [given EXCEPT !.creds = creds]
      BY <1>1, <2>1, <3>2 DEF CommitUpdate
    <3>5. creds \in [Channel -> 0 .. NumCreds] /\ \A ch \in Channel : creds[ch] = IF ch = a.channel THEN n ELSE given.creds[ch]
      BY <1>4, <1>5, <3>2, <3>3
    <3> QED
      BY <1>4, <2>1, <3>1, <3>2, <3>4, <3>5 DEF Sets
  <2>2. CASE a.op = "prompt"
    <3>1. given' = [given EXCEPT !.prompt = a.prompt]
      BY <1>1, <2>2 DEF CommitUpdate
    <3> QED
      BY <1>4, <1>5, <2>2, <3>1 DEF Sets
  <2>3. CASE a.op \notin {"set_whatsapp", "set_telegram", "prompt"}
    <3>1. given' = given
      BY <1>1, <2>3 DEF CommitUpdate
    <3> QED
      BY <1>4, <2>3, <3>1 DEF Sets
  <2> QED
    BY <2>1, <2>2, <2>3
<1>9. ASSUME ~raced'
      PROVE  /\ ~raced /\ a.seen = commits
             /\ \A ch \in Channel :
                  /\ agent.channels[ch].token # 0 => a.channels[ch].token = agent.channels[ch].token
                  /\ a.channels[ch].creds =
                       IF Sets(a, ch) THEN a.copy[ch].creds ELSE agent.channels[ch].creds
             /\ a.op # "prompt" => a.channels = a.copy /\ a.prompt = agent.prompt
             /\ Settled
  <2>1. ~raced /\ a.seen = commits
    BY <1>2, <1>9
  <2>2. Settled
    BY <1>3, <2>1 DEF RowOK
  <2> QED
    BY <1>1, <1>3, <2>1, <2>2, CommitFits
<1>10. RowOK'
  <2>1. Paired(agent.channels)' /\ Proven(agent.channels)'
    <3>1. Paired(a.channels) /\ Proven(a.channels)
      BY <1>3 DEF CallOK
    <3> QED
      BY <1>2, <1>6, <3>1 DEF Paired, Proven
  <2>2. ASSUME ~raced' PROVE Settled'
    <3>1. ASSUME NEW ch \in Channel PROVE told[ch] \subseteq {a.channels[ch].token}
      BY <1>3, <1>9, <2>2 DEF Settled, RowOK
    <3>2. \A b \in 1 .. NumCreds : bot[b] \in {0, a.channels["telegram"].token}
      BY <1>9, <2>2, BareIsBare DEF Settled
    <3>3. \A ch \in Channel : a.channels[ch].creds = given'.creds[ch]
      BY <1>8, <1>9, <2>2 DEF Settled
    <3>4. a.prompt = given'.prompt
      BY <1>8, <1>9, <2>2 DEF Settled
    <3> QED
      BY <1>2, <1>6, <3>1, <3>2, <3>3, <3>4 DEF Settled
  <2>3. raced' \in BOOLEAN /\ commits' \in Nat
    BY <1>2, <1>4
  <2> QED
    BY <1>2, <1>3, <1>6, <1>8, <2>1, <2>2, <2>3 DEF RowOK
<1>11. ASSUME NEW b, CallOK(b) PROVE CallOK(b)'
  <2>1. b \in AdminCalls /\ b.seen <= commits /\ b.seen \in Nat
    BY <1>11 DEF CallOK, AdminCalls
  <2>2. b.seen <= commits' /\ b.seen # commits'
    BY <1>2, <1>4, <2>1
  <2>3. ASSUME ~raced', b.step \in Working PROVE Current(b)'
    <3>1. Current(b)
      BY <1>9, <1>11, <2>3 DEF CallOK
    <3> QED
      BY <1>6, <1>9, <2>2, <2>3, <3>1 DEF Current
  <2>4. (Proven(b.copy) => Proven(b.copy)') /\ (Proven(b.channels) => Proven(b.channels)')
    BY <1>2 DEF Proven
  <2> QED
    BY <1>6, <1>7, <1>11, <2>2, <2>3, <2>4 DEF CallOK, Paired
<1>12. PICK next : /\ adminCall' = [adminCall EXCEPT ![r] = next]
                   /\ next = IF a.op \in {"tokens", "set_telegram"}
                             THEN [a EXCEPT !.step = "stored", !.seen = commits'] ELSE Answered("200")
  BY <1>1 DEF CommitUpdate
<1>13. CallOK(next)'
  <2>1. CASE a.op \notin {"tokens", "set_telegram"}
    <3>1. CallOK(Answered("200"))
      BY <1>4, AnsweredOK DEF Steps, Working
    <3> QED
      BY <1>11, <1>12, <2>1, <3>1
  <2>2. CASE a.op \in {"tokens", "set_telegram"}
    <3>1. PICK now : now = commits' /\ now \in Nat
      BY <1>2, <1>4
    <3>2. next = [a EXCEPT !.step = "stored", !.seen = now]
      BY <1>12, <2>2, <3>1
    <3>3. /\ next \in AdminCalls /\ next.step = "stored" /\ next.seen = now /\ next.op = a.op
          /\ next.copy = a.copy /\ next.channels = a.channels
      BY <1>3, <3>1, <3>2 DEF AdminCalls, Steps, Working
    <3>4. /\ Paired(next.copy) /\ Paired(next.channels) /\ Proven(next.copy)' /\ Proven(next.channels)'
          /\ next.op = "set_telegram" => next.copy["telegram"].creds # 0
          /\ next.op = "tokens" => \A ch \in Channel : next.copy[ch].token # 0
      BY <1>1, <1>2, <1>3, <3>3 DEF CallOK, Proven
    <3>5. ASSUME ~raced' PROVE next.copy = agent'.channels
      <4>1. a.op # "prompt"
        BY <2>2
      <4> QED
        BY <1>6, <1>9, <3>3, <3>5, <4>1
    <3>6. ~raced' => Current(next)'
      BY <3>3, <3>5 DEF Current, Fits
    <3>7. next.seen <= commits'
      BY <3>1, <3>3
    <3> QED
      BY <1>6, <1>7, <3>3, <3>4, <3>6, <3>7 DEF CallOK, Paired
  <2> QED
    BY <2>1, <2>2
<1>14. adminCall' \in [AdminCall -> AdminCalls]
  <2>1. next \in AdminCalls
    BY <1>13 DEF CallOK
  <2> QED
    BY <1>12, <2>1 DEF AdminInv
<1>15. ASSUME NEW q \in AdminCall PROVE CallOK(adminCall[q])'
  <2>1. PICK b : b = adminCall'[q] /\ (b = next \/ b = adminCall[q])
    BY <1>12, <1>15 DEF AdminInv
  <2>2. CallOK(b)'
    BY <1>11, <1>13, <2>1 DEF AdminInv
  <2> QED
    BY <2>1, <2>2
<1> QED
  BY <1>10, <1>14, <1>15 DEF AdminInv

(* No step of any call breaks the invariant.                                *)
LEMMA AdminStep == AdminInv /\ [AdminNext]_adminVars => AdminInv'
<1> SUFFICES ASSUME AdminInv, [AdminNext]_adminVars PROVE AdminInv'
  OBVIOUS
<1>1. CASE UNCHANGED adminVars
  <2>1. RowOK'
    BY <1>1 DEF adminVars, AdminInv, RowOK, Settled, Paired, Proven
  <2>2. ASSUME NEW q \in AdminCall PROVE CallOK(adminCall[q])'
    <3>1. PICK b : b = adminCall[q] /\ CallOK(b)
      BY DEF AdminInv
    <3>2. CallOK(b)'
      BY <1>1, <3>1 DEF adminVars, CallOK, Current, Fits, CloseCopy, Paired, Proven
    <3> QED
      BY <1>1, <3>1, <3>2 DEF adminVars
  <2> QED
    BY <1>1, <2>1, <2>2 DEF adminVars, AdminInv
<1> QED
  BY <1>1, Creates, Loads, ReadsOnly, EnsuresTokens, TellsTokens, SetsChannel, Registers, Verifies,
     SetsVerified, Patches, UpdateMerges, Committed DEF AdminNext

LEMMA AdminInvariant == AdminSpec => []AdminInv
<1>1. AdminInit => AdminInv
  <2> SUFFICES ASSUME AdminInit PROVE AdminInv
    OBVIOUS
  <2>1. 0 \in Prompts /\ 0 \in Tokens /\ 0 \in Nat /\ 0 \in 0 .. NumCreds
    BY AdminAssumption DEF Prompts, Tokens
  <2>2. /\ agent = [there |-> "none", instructions |-> 0, prompt |-> 0, channels |-> Bare]
        /\ bot = [b \in 1 .. NumCreds |-> 0] /\ told = [ch \in Channel |-> {}] /\ made = 0
        /\ given = [creds |-> [ch \in Channel |-> 0], prompt |-> 0]
        /\ commits = 0 /\ raced = FALSE
    BY DEF AdminInit
  <2>3. RowOK
    <3>1. \A ch \in Channel : Bare[ch].creds = 0 /\ Bare[ch].token = 0
      BY DEF Bare, NoChannel
    <3>2. Settled
      BY <2>2, <3>1, BareIsBare DEF Settled
    <3>3. Paired(agent.channels) /\ Proven(agent.channels)
      BY <2>2, BareIsBare DEF Paired, Proven
    <3> QED
      BY <2>1, <2>2, <3>2, <3>3, BareIsBare DEF RowOK
  <2>4. adminCall \in [AdminCall -> AdminCalls] /\ \A r \in AdminCall : CallOK(adminCall[r])
    <3>1. CallOK(Answered("idle")) /\ Answered("idle") = NotCalled
      BY <2>1, <2>2, AnsweredOK DEF Steps, Working, Answered, NotCalled
    <3>2. NotCalled \in AdminCalls
      BY <3>1 DEF CallOK
    <3>3. \A r \in AdminCall : adminCall[r] = NotCalled
      BY DEF AdminInit
    <3> QED
      BY <3>1, <3>2, <3>3 DEF AdminInit
  <2> QED
    BY <2>3, <2>4 DEF AdminInv
<1> QED
  BY <1>1, AdminStep, PTL DEF AdminSpec

(* For any number of the owner's calls, each of which reads the row, awaits *)
(* and merges its copy later: no channel has credentials without a token or *)
(* is verified without a webhook; and until a call writes a copy older than *)
(* another's commit, every token handed out is the one stored, and the      *)
(* stored credentials and prompt are the last that were set.                *)
THEOREM TokensStaySettled == AdminSpec => []TokensSettled
<1>1. AdminInv => TokensSettled
  BY BareIsBare DEF AdminInv, RowOK, Settled, Paired, Proven, TokensSettled
<1> QED
  BY <1>1, AdminInvariant, PTL

LEMMA AdminTypes == AdminSpec => []AdminTypeOK
<1>1. AdminInv => AdminTypeOK
  BY DEF AdminInv, RowOK, CallOK, AdminCalls, Prompts, Tokens, AdminTypeOK
<1> QED
  BY <1>1, AdminInvariant, PTL

-----------------------------------------------------------------------------
(* The requests accepted in the window that begins at t, and the hit each   *)
(* left behind.                                                             *)
Within(t) == {n \in DOMAIN accepted : t <= accepted[n] /\ accepted[n] < t + window_s}
HitOf(n) == [at |-> accepted[n], id |-> n]

(* What the limiter still knows is every request accepted within the last   *)
(* window, one hit for each, so that what it counts is what it accepted.    *)
WindowInv ==
    /\ clock_s \in Nat /\ accepted \in Seq(Nat)
    /\ backend = "memory" =>
         /\ \A c \in LimitCaller : caller[c].step = "idle"
         /\ IsFiniteSet(hits)
         /\ \A n \in DOMAIN accepted : accepted[n] + window_s > clock_s => HitOf(n) \in hits
         /\ \A t \in Nat : Cardinality(Within(t)) <= max_requests

(* So any window holds no more than were counted when the last of them was  *)
(* let in.                                                                  *)
LEMMA WithinCounted ==
    ASSUME WindowInv, backend = "memory", NEW t \in Nat, t <= clock_s, clock_s < t + window_s
    PROVE  IsFiniteSet(Within(t)) /\ Cardinality(Within(t)) <= Cardinality(Fresh)
<1> DEFINE f == [n \in Within(t) |-> HitOf(n)]
<1>1. IsFiniteSet(Fresh)
  BY FS_Subset DEF WindowInv, Fresh
<1>2. \A n \in Within(t) : HitOf(n) \in Fresh
  <2> TAKE n \in Within(t)
  <2>1. n \in DOMAIN accepted /\ accepted[n] \in Nat /\ t <= accepted[n]
    BY DEF Within, WindowInv
  <2>2. accepted[n] + window_s > clock_s
    BY <2>1, WindowAssumption DEF WindowInv
  <2> QED
    BY <2>1, <2>2 DEF WindowInv, HitOf, Fresh
<1>3. \A m, n \in Within(t) : f[m] = f[n] => m = n
  BY DEF HitOf
<1>4. f \in Injection(Within(t), Fresh)
  BY <1>2, <1>3 DEF Injection, IsInjective
<1> QED
  BY <1>1, <1>4, FS_Injection

(* A request that is let in was counted with all the others of its window.  *)
LEMMA Allows == ASSUME WindowInv, NEW c \in LimitCaller, AllowInMemory(c) PROVE WindowInv'
<1>1. backend = "memory" /\ UNCHANGED <<backend, clock_s, caller>>
  BY DEF AllowInMemory
<1>2. IsFiniteSet(Fresh)
  BY <1>1, FS_Subset DEF WindowInv, Fresh
<1>3. CASE Full(Fresh)
  BY <1>1, <1>2, <1>3 DEF AllowInMemory, WindowInv, Fresh, HitOf, Within
<1>4. CASE ~Full(Fresh)
  <2>0. PICK last : last = Len(accepted) + 1
    OBVIOUS
  <2> DEFINE hit == [at |-> clock_s, id |-> last]
  <2>1. accepted' = Append(accepted, clock_s) /\ hits' = Fresh \cup {hit}
    BY <2>0, <1>4 DEF AllowInMemory
  <2>2. /\ accepted' \in Seq(Nat) /\ last \in Nat /\ DOMAIN accepted' = DOMAIN accepted \cup {last}
        /\ last \notin DOMAIN accepted
        /\ accepted'[last] = clock_s /\ \A n \in DOMAIN accepted : accepted'[n] = accepted[n]
    BY <2>0, <2>1 DEF WindowInv
  <2>3. IsFiniteSet(hits')
    BY <1>2, <2>1, FS_AddElement
  <2>4. \A n \in DOMAIN accepted' : accepted'[n] + window_s > clock_s' => HitOf(n)' \in hits'
    <3>1. HitOf(last)' = hit
      BY <2>2 DEF HitOf
    <3>2. ASSUME NEW n \in DOMAIN accepted, accepted'[n] + window_s > clock_s'
          PROVE  HitOf(n)' \in Fresh
      BY <1>1, <2>2, <3>2 DEF HitOf, Fresh, WindowInv
    <3> QED
      BY <2>1, <2>2, <3>1, <3>2
  <2>5. ASSUME NEW t \in Nat PROVE Cardinality(Within(t))' <= max_requests
    <3>1. CASE t <= clock_s /\ clock_s < t + window_s
      <4>1. Within(t)' = Within(t) \cup {last}
        BY <2>2, <3>1 DEF Within
      <4>2. IsFiniteSet(Within(t)) /\ Cardinality(Within(t)) <= Cardinality(Fresh)
        BY <1>1, <3>1, WithinCounted
      <4>3. Cardinality(Within(t) \cup {last}) <= Cardinality(Within(t)) + 1
        <5>1. Cardinality(Within(t)) \in Nat
          BY <4>2, FS_CardinalityType
        <5>2. \/ Cardinality(Within(t) \cup {last}) = Cardinality(Within(t))
              \/ Cardinality(Within(t) \cup {last}) = Cardinality(Within(t)) + 1
          BY <4>2, FS_AddElement
        <5> QED
          BY <5>1, <5>2
      <4>4. Cardinality(Fresh) \in Nat /\ Cardinality(Within(t)) \in Nat
        BY <1>2, <4>2, FS_CardinalityType
      <4>5. Cardinality(Within(t)) + 1 <= max_requests
        BY <1>4, <4>2, <4>4, WindowAssumption DEF Full
      <4>6. Cardinality(Within(t) \cup {last}) \in Nat
        BY <4>2, FS_AddElement, FS_CardinalityType
      <4> QED
        BY <4>1, <4>3, <4>4, <4>5, <4>6, WindowAssumption
    <3>2. CASE ~(t <= clock_s /\ clock_s < t + window_s)
      <4>1. Within(t)' = Within(t)
        BY <2>2, <3>2 DEF Within
      <4> QED
        BY <1>1, <4>1 DEF WindowInv
    <3> QED
      BY <3>1, <3>2
  <2> QED
    BY <1>1, <2>2, <2>3, <2>4, <2>5 DEF WindowInv
<1> QED
  BY <1>3, <1>4

(* No other step adds a request, and time only takes hits away that are too *)
(* old to count.                                                            *)
LEMMA WindowStepKept == WindowInv /\ [WindowNext]_windowVars => WindowInv'
<1> SUFFICES ASSUME WindowInv, [WindowNext]_windowVars PROVE WindowInv'
  OBVIOUS
<1>1. ASSUME NEW c \in LimitCaller, AllowInMemory(c) PROVE WindowInv'
  BY <1>1, Allows
<1>2. ASSUME NEW c \in LimitCaller, CountHits(c) PROVE WindowInv'
  BY <1>2 DEF CountHits, WindowInv
<1>3. ASSUME NEW c \in LimitCaller, AddHit(c) PROVE WindowInv'
  <2>1. clock_s \in Nat /\ accepted \in Seq(Nat) /\ backend # "memory"
    BY <1>3 DEF AddHit, WindowInv
  <2> QED
    BY <1>3, <2>1 DEF AddHit, WindowInv
<1>4. CASE ClockTicks
  <2>1. clock_s' = clock_s + 1 /\ UNCHANGED <<backend, hits, caller, accepted>>
    BY <1>4 DEF ClockTicks
  <2>2. \A n \in DOMAIN accepted : accepted[n] \in Nat
    BY DEF WindowInv
  <2>3. clock_s' \in Nat /\ accepted' \in Seq(Nat)
    BY <2>1 DEF WindowInv
  <2>4. ASSUME backend' = "memory" PROVE
          /\ \A c \in LimitCaller : caller'[c].step = "idle"
          /\ IsFiniteSet(hits')
          /\ \A t \in Nat : Cardinality(Within(t)') <= max_requests
    BY <2>1, <2>4 DEF WindowInv, Within
  <2>5. ASSUME backend' = "memory", NEW n \in DOMAIN accepted', accepted'[n] + window_s > clock_s'
        PROVE HitOf(n)' \in hits'
    <3>1. accepted[n] + window_s > clock_s
      BY <2>1, <2>2, <2>5, WindowAssumption DEF WindowInv
    <3> QED
      BY <2>1, <2>5, <3>1 DEF WindowInv, HitOf
  <2> QED
    BY <2>3, <2>4, <2>5 DEF WindowInv
<1>5. CASE UNCHANGED windowVars
  BY <1>5 DEF windowVars, WindowInv, Within, HitOf
<1> QED
  BY <1>1, <1>2, <1>3, <1>4, <1>5 DEF WindowNext, WindowStep

(* The types: what a caller will add was made at the time it counted.       *)
LEMMA WindowTypes == WindowSpec => []WindowTypeOK
<1> DEFINE Hits == [at : 1 .. MaxNow, id : Address \cup 1 .. MaxHits]
           Rec == [step : {"idle", "counted"}, member : SUBSET Hits]
<1>1. WindowInit => WindowTypeOK
  <2> SUFFICES ASSUME WindowInit PROVE WindowTypeOK
    OBVIOUS
  <2>1. [step |-> "idle", member |-> {}] \in Rec
    OBVIOUS
  <2> HIDE DEF Rec
  <2>2. caller \in [LimitCaller -> Rec]
    BY <2>1 DEF WindowInit
  <2> USE DEF Rec
  <2> QED
    BY <2>2, WindowAssumption DEF WindowInit, WindowTypeOK
<1>2. WindowTypeOK /\ [WindowNext]_windowVars => WindowTypeOK'
  <2> SUFFICES ASSUME WindowTypeOK, [WindowNext]_windowVars PROVE WindowTypeOK'
    OBVIOUS
  <2>0. /\ backend \in Backends /\ clock_s \in 1 .. MaxNow /\ hits \subseteq Hits
        /\ caller \in [LimitCaller -> Rec] /\ accepted \in Seq(1 .. MaxNow)
        /\ Len(accepted) \in Nat
    BY DEF WindowTypeOK
  <2>1. Fresh \subseteq Hits /\ Append(accepted, clock_s) \in Seq(1 .. MaxNow)
    BY <2>0 DEF Fresh
  <2>2. ASSUME NEW i \in Address \cup 1 .. MaxHits PROVE [at |-> clock_s, id |-> i] \in Hits
    BY <2>0
  <2>3. ASSUME NEW c \in LimitCaller, NEW s \in {"idle", "counted"}, NEW m \in SUBSET Hits,
               caller' = [caller EXCEPT ![c] = [step |-> s, member |-> m]]
        PROVE  caller' \in [LimitCaller -> Rec]
    <3>1. [step |-> s, member |-> m] \in Rec
      OBVIOUS
    <3> QED
      BY <2>0, <2>3, <3>1
  <2>4. ASSUME NEW c \in LimitCaller, AllowInMemory(c) PROVE WindowTypeOK'
    <3>1. Len(accepted) + 1 \in 1 .. MaxHits
      BY <2>0, <2>4, WindowAssumption DEF AllowInMemory
    <3>2. [at |-> clock_s, id |-> Len(accepted) + 1] \in Hits
      BY <2>2, <3>1
    <3>3. hits' \subseteq Hits
      BY <2>1, <2>4, <3>2 DEF AllowInMemory
    <3>4. accepted' \in Seq(1 .. MaxNow)
      BY <2>0, <2>1, <2>4 DEF AllowInMemory
    <3> QED
      BY <2>0, <2>4, <3>3, <3>4 DEF AllowInMemory, WindowTypeOK
  <2>5. ASSUME NEW c \in LimitCaller, CountHits(c) PROVE WindowTypeOK'
    <3>1. CASE UNCHANGED caller
      BY <2>0, <2>1, <2>5, <3>1 DEF CountHits, WindowTypeOK
    <3>2. CASE caller' # caller
      <4>1. PICK a \in Address :
              caller' = [caller EXCEPT ![c] = [step |-> "counted",
                                               member |-> {[at |-> clock_s, id |-> a]}]]
        BY <2>5, <3>2 DEF CountHits
      <4>2. {[at |-> clock_s, id |-> a]} \in SUBSET Hits
        BY <2>2
      <4>3. caller' \in [LimitCaller -> Rec]
        BY <2>3, <4>1, <4>2
      <4> QED
        BY <2>0, <2>1, <2>5, <4>3 DEF CountHits, WindowTypeOK
    <3> QED
      BY <3>1, <3>2
  <2>6. ASSUME NEW c \in LimitCaller, AddHit(c) PROVE WindowTypeOK'
    <3>1. caller[c].member \subseteq Hits
      BY <2>0
    <3>2. caller' \in [LimitCaller -> Rec]
      BY <2>3, <2>6 DEF AddHit
    <3> QED
      BY <2>0, <2>1, <2>6, <3>1, <3>2 DEF AddHit, WindowTypeOK
  <2>7. CASE ClockTicks
    BY <2>0, <2>7, WindowAssumption DEF ClockTicks, WindowTypeOK
  <2>8. CASE UNCHANGED windowVars
    BY <2>8 DEF windowVars, WindowTypeOK
  <2> QED
    BY <2>4, <2>5, <2>6, <2>7, <2>8 DEF WindowNext, WindowStep
<1> QED
  BY <1>1, <1>2, PTL DEF WindowSpec

(* For every limit, window and order of callers, no span of a window's      *)
(* length holds more accepted requests than the limit: the window rolls     *)
(* with the requests and is never reset at a boundary.                      *)
THEOREM LimitRolls == WindowSpec => []RollingLimitInMemory
<1>1. WindowInit => WindowInv
  <2> SUFFICES ASSUME WindowInit PROVE WindowInv
    OBVIOUS
  <2>1. \A t \in Nat : Within(t) = {}
    BY DEF WindowInit, Within
  <2>2. IsFiniteSet({}) /\ Cardinality({}) = 0
    BY FS_EmptySet
  <2>3. accepted \in Seq(Nat) /\ DOMAIN accepted = {} /\ clock_s \in Nat
    BY DEF WindowInit
  <2>4. \A t \in Nat : Cardinality(Within(t)) <= max_requests
    BY <2>1, <2>2, WindowAssumption
  <2> QED
    BY <2>2, <2>3, <2>4 DEF WindowInit, WindowInv
<1>2. WindowInv => RollingLimitInMemory
  <2> SUFFICES ASSUME WindowInv, backend = "memory", NEW t \in 1 .. MaxNow
               PROVE  Cardinality(Within(t)) <= max_requests
    BY DEF RollingLimitInMemory, Within
  <2> QED
    BY WindowAssumption DEF WindowInv
<1> QED
  BY <1>1, <1>2, WindowStepKept, PTL DEF WindowSpec
=============================================================================
