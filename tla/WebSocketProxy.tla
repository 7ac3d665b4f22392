----------------------------- MODULE WebSocketProxy -----------------------------
(* One client of the WebSocket proxy (websocket_proxy/client.py), which        *)
(* reconnects by itself, and the proxy's side of its sockets (server.py,       *)
(* data_broadcaster.py), with one channel.                                     *)
EXTENDS Integers, FiniteSets, Sequences

CONSTANTS
    Sockets,        \* a bound: connections ever opened, numbered from 1
    Spawned,        \* a bound: reconnection tasks connect starts after a failure, numbered on
    None

VARIABLES
    state,      \* ConnectionState
    auto,       \* auto_reconnect
    wants,      \* subscribed_channels is not empty
    websocket,  \* the socket the client sends on
    task,       \* where the caller of connect, the receive loops and the spawned tasks stand
    open,       \* sockets that are not closed
    served,     \* sockets whose handler runs at the proxy
    inbox,      \* what each handler has yet to read: subscribe is TRUE
    subscribers     \* subscriptions of the channel at the proxy

vars == <<state, auto, wants, websocket, task, open, served, inbox, subscribers>>

Caller == 0
Tasks == {Caller} \union Sockets \union Spawned
Unused == {s \in Sockets : task[s] = "new"}

TypeOK ==
    /\ state \in {"DISCONNECTED", "CONNECTING", "CONNECTED", "RECONNECTING", "ERROR"}
    /\ auto \in BOOLEAN /\ wants \in BOOLEAN
    /\ websocket \in Sockets \union {None}
    /\ task \in [Tasks -> {"new", "reading", "asleep", "connecting", "done"}]
    /\ open \subseteq Sockets /\ served \subseteq Sockets
    /\ \A s \in Sockets : inbox[s] \in Seq(BOOLEAN)
    /\ subscribers \subseteq Sockets

Init ==
    /\ state = "DISCONNECTED" /\ auto = TRUE /\ wants = FALSE
    /\ websocket = None
    /\ task = [t \in Tasks |-> "new"]
    /\ open = {} /\ served = {} /\ subscribers = {}
    /\ inbox = [s \in Sockets |-> <<>>]

-----------------------------------------------------------------------------
(* The client.                                                               *)

\* connect, by the user or by a task whose delay is over. While another one
\* connects, or is connected, it fails at once; a task then calls itself
\* reconnecting again and goes on.
Connect(t) ==
    /\ task[t] = IF t = Caller THEN "new" ELSE "asleep"
    /\ IF state \notin {"CONNECTED", "CONNECTING"}
       THEN state' = "CONNECTING" /\ task' = [task EXCEPT ![t] = "connecting"]
       ELSE IF t = Caller \/ ~auto
       THEN task' = [task EXCEPT ![t] = "done"] /\ UNCHANGED state
       ELSE state' = "RECONNECTING" /\ UNCHANGED task
    /\ UNCHANGED <<auto, wants, websocket, open, served, inbox, subscribers>>

\* A mistake Resubscribed catches: a new connection does not subscribe again.
ConnectedAnew(t) ==
    /\ task[t] = "connecting"
    /\ \E s \in Unused :
           /\ \A u \in Unused : s <= u
           /\ state' = "CONNECTED" /\ websocket' = s
           /\ open' = open \union {s} /\ served' = served \union {s}
           /\ task' = [task EXCEPT ![t] = "done", ![s] = "reading"]
           /\ UNCHANGED inbox
    /\ UNCHANGED <<auto, wants, subscribers>>

\* The connection is there: the receive loop starts, and the channels are
\* subscribed again.
Connected(t) ==
    /\ task[t] = "connecting"
    /\ \E s \in Unused :
           /\ \A u \in Unused : s <= u
           /\ state' = "CONNECTED" /\ websocket' = s
           /\ open' = open \union {s} /\ served' = served \union {s}
           /\ task' = [task EXCEPT ![t] = "done", ![s] = "reading"]
           /\ inbox' = [inbox EXCEPT ![s] = IF wants THEN <<TRUE>> ELSE <<>>]
    /\ UNCHANGED <<auto, wants, subscribers>>

\* A failed connect starts a reconnection task, although its caller may be one.
ConnectFails(t) ==
    /\ task[t] = "connecting"
    /\ \E n \in Spawned :
           /\ task[n] = "new"
           /\ task' = [task EXCEPT ![t] = IF t /= Caller /\ auto THEN "asleep" ELSE "done",
                                   ![n] = IF auto THEN "asleep" ELSE "new"]
    /\ state' = IF auto THEN "RECONNECTING" ELSE "ERROR"
    /\ UNCHANGED <<auto, wants, websocket, open, served, inbox, subscribers>>

\* The receive loop of a closed socket ends and reconnects.
ReceiveEnds(s) ==
    /\ task[s] = "reading" /\ s \notin open
    /\ task' = [task EXCEPT ![s] = IF auto THEN "asleep" ELSE "done"]
    /\ state' = IF auto THEN "RECONNECTING" ELSE state
    /\ UNCHANGED <<auto, wants, websocket, open, served, inbox, subscribers>>

Send(subscribe) ==
    inbox' = IF websocket \in open THEN [inbox EXCEPT ![websocket] = Append(@, subscribe)] ELSE inbox

\* A bound: one message on its way at a time.
Room == websocket \in open => inbox[websocket] = <<>>

\* subscribe and unsubscribe do nothing unless the client is connected.
Subscribe ==
    /\ state = "CONNECTED" /\ ~wants /\ Room
    /\ wants' = TRUE
    /\ Send(TRUE)
    /\ UNCHANGED <<state, auto, websocket, task, open, served, subscribers>>

Unsubscribe ==
    /\ state = "CONNECTED" /\ wants /\ Room
    /\ wants' = FALSE
    /\ Send(FALSE)
    /\ UNCHANGED <<state, auto, websocket, task, open, served, subscribers>>

\* disconnect cancels the last receive loop and closes the last socket. Tasks
\* that connect spawned, and older sockets, go on.
Disconnect ==
    /\ auto
    /\ auto' = FALSE
    /\ state' = "DISCONNECTED"
    /\ websocket' = None
    /\ IF websocket = None
       THEN UNCHANGED <<task, open>>
       ELSE open' = open \ {websocket} /\ task' = [task EXCEPT ![websocket] = "done"]
    /\ UNCHANGED <<wants, served, inbox, subscribers>>

-----------------------------------------------------------------------------
(* The proxy and the network.                                                *)

Drop(s) ==
    /\ s \in open
    /\ open' = open \ {s}
    /\ UNCHANGED <<state, auto, wants, websocket, task, served, inbox, subscribers>>

\* handle_client_message.
Handle(s) ==
    /\ s \in served /\ inbox[s] /= <<>>
    /\ subscribers' = IF Head(inbox[s]) THEN subscribers \union {s} ELSE subscribers \ {s}
    /\ inbox' = [inbox EXCEPT ![s] = Tail(@)]
    /\ UNCHANGED <<state, auto, wants, websocket, task, open, served>>

\* The handler of a closed socket ends, once it has read what had arrived.
HandlerEnds(s) ==
    /\ s \in served \ open /\ inbox[s] = <<>>
    /\ served' = served \ {s}
    /\ subscribers' = subscribers \ {s}
    /\ UNCHANGED <<state, auto, wants, websocket, task, open, inbox>>

\* The broadcaster sends a message to every subscriber, and forgets those it
\* cannot reach.
Broadcast ==
    /\ subscribers' = subscribers \intersect open
    /\ UNCHANGED <<state, auto, wants, websocket, task, open, served, inbox>>

Next ==
    \/ \E t \in Tasks : Connect(t) \/ Connected(t) \/ ConnectFails(t)
    \/ Subscribe \/ Unsubscribe \/ Disconnect
    \/ \E s \in Sockets : ReceiveEnds(s) \/ Drop(s) \/ Handle(s) \/ HandlerEnds(s)
    \/ Broadcast

Spec == Init /\ [][Next]_vars

\* Delays end and answers arrive; tasks and handlers go on.
Fairness ==
    /\ \A t \in Sockets \union Spawned : WF_vars(Connect(t))
    /\ \A t \in Tasks : WF_vars(Connected(t) \/ ConnectFails(t))
    /\ \A s \in Sockets : WF_vars(ReceiveEnds(s)) /\ WF_vars(Handle(s)) /\ WF_vars(HandlerEnds(s))

-----------------------------------------------------------------------------

Reached == \E s \in open : s \in subscribers
Exhausted == Unused = {} /\ state /= "CONNECTED"

\* A client that was connected, wants the channel and was not told to
\* disconnect is subscribed again and again at a socket that is open, unless
\* it needs a connection and none is left to open.
Settled == ~auto \/ ~wants \/ Reached \/ Exhausted
Resubscribed == []<>Settled

=============================================================================
