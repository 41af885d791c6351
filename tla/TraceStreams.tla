------------------------------ MODULE TraceStreams ------------------------------
(***************************************************************************)
(* The live trace of one execution, in one web process, over event streams *)
(* (what the editor opens) and over sockets. Every socket has a handler of *)
(* its own and a listener task of its own; every listener has a            *)
(* subscription of its own and broadcasts each event it gets to all the    *)
(* sockets registered for the execution, so that a socket hears from all   *)
(* of them. A broadcast copies the set of sockets under the lock and sends *)
(* to them one by one without it. An event stream sends what its own       *)
(* subscription gets. Whoever comes must show a token: a session's for an  *)
(* event stream, one with a subject (core/security.py) for a socket.       *)
(***************************************************************************)
EXTENDS Naturals, Sequences, FiniteSets

CONSTANTS
    Socket,
    NumEvents,          \* events are numbered as they are published
    MaxListenerErrors   \* bound on subscriptions that raise

ASSUME StreamAssumption ==
    IsFiniteSet(Socket) /\ NumEvents \in Nat /\ MaxListenerErrors \in Nat

VARIABLES
    socket,     \* [Socket -> none, open, gone (the peer left), closed, refused]
    way,        \* [Socket -> "socket" or "events", as it was opened]
    connections,\* the sockets registered for the execution
    listener,   \* [Socket -> its listener: none, starting, listening, ended]
    buffer,     \* [Socket -> events its subscription has queued]
    sending,    \* [Socket -> the broadcast under way: event (0: none), left, dead]
    published,  \* events published so far
    awaited,    \* [Socket -> events published while its listener listened]
    got,        \* [Socket -> [event -> copies received]]
    errors

streamVars == <<socket, way, connections, listener, buffer, sending, published, awaited, got,
                errors>>

Event == 1 .. NumEvents
NotSending == [event |-> 0, left |-> {}, dead |-> {}]
Listening == {s \in Socket : listener[s] = "listening"}

StreamInit ==
    /\ socket = [s \in Socket |-> "none"]
    /\ way = [s \in Socket |-> "socket"]
    /\ connections = {}
    /\ listener = [s \in Socket |-> "none"]
    /\ buffer = [s \in Socket |-> <<>>]
    /\ sending = [s \in Socket |-> NotSending]
    /\ published = 0
    /\ awaited = [s \in Socket |-> {}]
    /\ got = [s \in Socket |-> [e \in Event |-> 0]]
    /\ errors = 0

-----------------------------------------------------------------------------
(* authenticate_websocket, or the middleware in front of an event stream:    *)
(* without a token of the right kind it is closed before it is accepted.    *)
TurnAway(s) ==
    /\ socket[s] = "none"
    /\ socket' = [socket EXCEPT ![s] = "refused"]
    /\ UNCHANGED <<way, connections, listener, buffer, sending, published, awaited, got, errors>>

(* Accept and register; the listener's task is created, and has yet to run. *)
Connect(s) ==
    /\ socket[s] = "none"
    /\ socket' = [socket EXCEPT ![s] = "open"]
    /\ connections' = connections \cup {s}
    /\ listener' = [listener EXCEPT ![s] = "starting"]
    /\ UNCHANGED <<way, buffer, sending, published, awaited, got, errors>>

(* sse_execution_stream: the response is there, its generator has yet to run.*)
OpenEvents(s) ==
    /\ socket[s] = "none"
    /\ socket' = [socket EXCEPT ![s] = "open"]
    /\ way' = [way EXCEPT ![s] = "events"]
    /\ listener' = [listener EXCEPT ![s] = "starting"]
    /\ UNCHANGED <<way, connections, buffer, sending, published, awaited, got, errors>>

Subscribe(s) ==
    /\ listener[s] = "starting"
    /\ listener' = [listener EXCEPT ![s] = "listening"]
    /\ UNCHANGED <<socket, way, connections, buffer, sending, published, awaited, got, errors>>

(* emit_trace: every subscription of the moment gets the event, or, with an *)
(* error that is logged, none.                                              *)
PublishFails ==
    /\ published < NumEvents /\ errors < MaxListenerErrors
    /\ published' = published + 1 /\ errors' = errors + 1
    /\ UNCHANGED <<socket, way, connections, listener, buffer, sending, awaited, got>>

Publish ==
    /\ published < NumEvents
    /\ published' = published + 1
    /\ buffer' = [s \in Socket |-> IF s \in Listening THEN Append(buffer[s], published')
                                                      ELSE buffer[s]]
    /\ awaited' = [s \in Socket |-> IF s \in Listening THEN awaited[s] \cup {published'}
                                                       ELSE awaited[s]]
    /\ UNCHANGED <<socket, way, connections, listener, sending, got, errors>>

StartBroadcast(s) ==
    /\ way[s] = "socket" /\ s \in Listening /\ sending[s] = NotSending /\ buffer[s] # <<>>
    /\ sending' = [sending EXCEPT ![s] = [event |-> Head(buffer[s]), left |-> connections,
                                          dead |-> {}]]
    /\ buffer' = [buffer EXCEPT ![s] = Tail(@)]
    /\ UNCHANGED <<socket, way, connections, listener, published, awaited, got, errors>>

Deliver(s, w) == got' = [got EXCEPT ![w][sending[s].event] = @ + 1]

SendTo_StopsAtDead(s, w) ==
    /\ s \in Listening /\ w \in sending[s].left
    /\ \/ /\ socket[w] = "open" /\ Deliver(s, w)
          /\ sending' = [sending EXCEPT ![s].left = @ \ {w}]
       \/ /\ socket[w] # "open" /\ UNCHANGED got
          /\ sending' = [sending EXCEPT ![s].left = {}, ![s].dead = @ \cup {w}]
    /\ UNCHANGED <<socket, way, connections, listener, buffer, published, awaited, errors>>

(* A send to a socket whose peer has left may still seem to work.           *)
SendTo(s, w) ==
    /\ s \in Listening /\ w \in sending[s].left
    /\ \/ /\ socket[w] = "open" /\ Deliver(s, w)
          /\ sending' = [sending EXCEPT ![s].left = @ \ {w}]
       \/ /\ socket[w] # "open" /\ UNCHANGED got
          /\ \E noticed \in SUBSET {w} :
               sending' = [sending EXCEPT ![s].left = @ \ {w}, ![s].dead = @ \cup noticed]
    /\ UNCHANGED <<socket, way, connections, listener, buffer, published, awaited, errors>>

EndBroadcast(s) ==
    /\ s \in Listening /\ sending[s].event # 0 /\ sending[s].left = {}
    /\ connections' = connections \ sending[s].dead
    /\ sending' = [sending EXCEPT ![s] = NotSending]
    /\ UNCHANGED <<socket, way, listener, buffer, published, awaited, got, errors>>

(* event_generator: one event of its own subscription after another.        *)
Yield(s) ==
    /\ way[s] = "events" /\ s \in Listening /\ buffer[s] # <<>>
    /\ buffer' = [buffer EXCEPT ![s] = Tail(@)]
    /\ got' = IF socket[s] = "open" THEN [got EXCEPT ![s][Head(buffer[s])] = @ + 1] ELSE got
    /\ UNCHANGED <<socket, way, connections, listener, sending, published, awaited, errors>>

(* The subscription raises: the listener ends, its socket stays; an event   *)
(* stream says so and is over.                                              *)
ListenerFails(s) ==
    /\ listener[s] \in {"starting", "listening"} /\ errors < MaxListenerErrors
    /\ listener' = [listener EXCEPT ![s] = "ended"]
    /\ buffer' = [buffer EXCEPT ![s] = <<>>]
    /\ sending' = [sending EXCEPT ![s] = NotSending]
    /\ errors' = errors + 1
    /\ socket' = [socket EXCEPT ![s] = IF way[s] = "events" THEN "closed" ELSE @]
    /\ UNCHANGED <<way, connections, published, awaited, got>>

PeerLeaves(s) ==
    /\ socket[s] = "open"
    /\ socket' = [socket EXCEPT ![s] = "gone"]
    /\ UNCHANGED <<way, connections, listener, buffer, sending, published, awaited, got, errors>>

(* The handler has noticed: it cancels its listener, wherever that is, ...  *)
CancelListener(s) ==
    /\ socket[s] = "gone" /\ listener[s] # "cancelled"
    /\ listener' = [listener EXCEPT ![s] = "cancelled"]
    /\ buffer' = [buffer EXCEPT ![s] = <<>>]
    /\ sending' = [sending EXCEPT ![s] = NotSending]
    /\ UNCHANGED <<socket, way, connections, published, awaited, got, errors>>

(* ... and then takes the socket off the register.                          *)
Disconnect(s) ==
    /\ socket[s] = "gone" /\ listener[s] = "cancelled"
    /\ socket' = [socket EXCEPT ![s] = "closed"]
    /\ connections' = connections \ {s}
    /\ UNCHANGED <<way, listener, buffer, sending, published, awaited, got, errors>>

Listen(s) ==
    \/ Subscribe(s) \/ StartBroadcast(s) \/ EndBroadcast(s) \/ Yield(s) \/ ListenerFails(s)
    \/ \E w \in Socket : SendTo(s, w)

StreamNext ==
    \/ \E s \in Socket : \/ TurnAway(s) \/ Connect(s) \/ OpenEvents(s) \/ Listen(s)
                         \/ PeerLeaves(s) \/ CancelListener(s) \/ Disconnect(s)
    \/ Publish \/ PublishFails

StreamSpec == StreamInit /\ [][StreamNext]_streamVars

-----------------------------------------------------------------------------
StreamTypeOK ==
    /\ socket \in [Socket -> {"none", "open", "gone", "closed", "refused"}]
    /\ way \in [Socket -> {"socket", "events"}]
    /\ connections \subseteq Socket
    /\ listener \in [Socket -> {"none", "starting", "listening", "ended", "cancelled"}]
    /\ buffer \in [Socket -> Seq(Event)]
    /\ sending \in [Socket -> [event : 0 .. NumEvents, left : SUBSET Socket, dead : SUBSET Socket]]
    /\ published \in 0 .. NumEvents
    /\ awaited \in [Socket -> SUBSET Event]
    /\ got \in [Socket -> [Event -> Nat]]
    /\ errors \in 0 .. MaxListenerErrors

(* Whoever else connects, leaves or breaks in the middle of a broadcast, a  *)
(* socket whose own listener lives has got every event that listener was    *)
(* subscribed for, or the listener still holds it; and so has an event      *)
(* stream, which gets none twice, though a socket may.                      *)
LiveSocketServed ==
    \A s \in Socket : socket[s] = "open" /\ s \in Listening =>
        \A e \in awaited[s] :
            /\ \/ got[s][e] > 0
               \/ \E n \in 1 .. Len(buffer[s]) : buffer[s][n] = e
               \/ sending[s].event = e /\ s \in sending[s].left
            /\ way[s] = "events" => got[s][e] <= 1
=============================================================================
