--------------------------- MODULE KiwoomWebSocket ---------------------------
(* The WebSocket client (api/kiwoom_websocket.py): connecting, logging in,   *)
(* subscribing, and the receive loop run_forever with its reconnection.      *)
(* Every task that uses the client has a program counter; the client's own   *)
(* fields are shared by all of them.                                         *)
EXTENDS Naturals, FiniteSets

CONSTANTS
    Receivers,      \* tasks of run_forever
    Callers,        \* other tasks that connect or disconnect
    Items,          \* what can be subscribed: stock codes, or the account's orders
    MaxSockets      \* a bound: connections the broker accepts in all

ASSUME SocketAssumption ==
    /\ MaxSockets \in Nat \ {0}
    /\ Receivers \intersect Callers = {}

Tasks == Receivers \union Callers
Sockets == 1 .. MaxSockets

VARIABLES
    state,      \* _state
    running,    \* _running
    ws,         \* _websocket, 0 for None
    auth,       \* _authenticated
    event,      \* _auth_event, by the socket it was made for
    set,        \* the events that are set
    items,      \* _subscribed_items
    using,      \* using_websocket of the collector, kept by the callbacks
    made,       \* connections made so far
    open,       \* sockets that are open
    login,      \* the broker's answer to LOGIN on each socket, until it is read
    registered, \* what the broker has registered for each socket
    pc,         \* where each task stands
    reads,      \* the socket each receiver reads, 0 for none
    awaits      \* the event each task waits for, 0 when it need not wait

clientVars == <<state, running, ws, auth, event, set, items, using, made, open,
                login, registered, pc, reads, awaits>>

ClientTypeOK ==
    /\ state \in {"disconnected", "connecting", "connected", "reconnecting", "error"}
    /\ running \in BOOLEAN /\ auth \in BOOLEAN /\ using \in BOOLEAN
    /\ ws \in 0 .. MaxSockets /\ event \in 0 .. MaxSockets /\ made \in 0 .. MaxSockets
    /\ set \subseteq Sockets /\ open \subseteq 1 .. made
    /\ items \subseteq Items
    /\ login \in [Sockets -> {"none", "ok", "refused", "read"}]
    /\ registered \in [Sockets -> SUBSET Items]
    /\ \A r \in Receivers :
           pc[r] \in {"off", "top", "receive", "backoff", "connecting", "auth", "restore"}
    /\ reads \in [Receivers -> 0 .. MaxSockets]
    /\ awaits \in [Tasks -> 0 .. MaxSockets]

-----------------------------------------------------------------------------

IsConnected == state = "connected" /\ ws \in open

At(t, where) == pc' = [pc EXCEPT ![t] = where]

\* wait_for_auth: returns at once if some login was acknowledged, and otherwise
\* waits for the event there is now.
WaitForAuth(t) == awaits' = [awaits EXCEPT ![t] = IF auth THEN 0 ELSE event]

\* connect, up to the await of the token and the handshake: nothing to do when
\* the client is connected already.
StartConnect(t) ==
    IF IsConnected
    THEN WaitForAuth(t) /\ UNCHANGED <<state, ws>>
    ELSE /\ state' = "connecting"
         /\ ws' = IF state = "connected" THEN 0 ELSE ws
         /\ UNCHANGED awaits

\* connect, from there on: a new socket with an unset event, LOGIN is sent, and
\* on_connect tells the collector. It sets running again, even after a
\* disconnect; a socket another task connected meanwhile is forgotten open.
Connect(t) ==
    /\ pc[t] = "connecting"
    /\ made < MaxSockets
    /\ made' = made + 1
    /\ open' = open \union {made + 1}
    /\ ws' = made + 1
    /\ state' = "connected"
    /\ running' = TRUE
    /\ auth' = FALSE
    /\ event' = made + 1
    /\ \E answer \in {"ok", "refused"} : login' = [login EXCEPT ![made + 1] = answer]
    /\ using' = TRUE
    /\ awaits' = [awaits EXCEPT ![t] = made + 1]
    /\ UNCHANGED <<set, items, registered>>

\* wait_for_auth returns True; or it times out, or the flag is gone again.
AuthWorks(t) ==
    /\ pc[t] = "auth"
    /\ awaits[t] = 0 \/ (awaits[t] \in set /\ auth)
    /\ awaits' = [awaits EXCEPT ![t] = 0]

\* A mistake KeepsTrying catches: the wait for the login has no timeout.
AuthFailsOnlyWhenGone(t) ==
    /\ pc[t] = "auth"
    /\ awaits[t] \in set /\ ~auth
    /\ awaits' = [awaits EXCEPT ![t] = 0]

AuthFails(t) ==
    /\ pc[t] = "auth"
    /\ awaits[t] /= 0
    /\ awaits[t] \notin set \/ ~auth
    /\ awaits' = [awaits EXCEPT ![t] = 0]

\* subscribe, while connected: the broker registers what it is sent on a socket
\* that it has let in.
Subscribe(is) ==
    /\ items' = items \union is
    /\ registered' = [registered EXCEPT ![ws] =
           IF login[ws] = "refused" THEN @ ELSE @ \union is]

Unsubscribe(is) ==
    /\ items' = items \ is
    /\ registered' = [registered EXCEPT ![ws] = @ \ is]

\* disconnect, up to the await of the socket's close; and the rest, which drops
\* whatever socket there is by then.
BeginDisconnect ==
    /\ running' = FALSE
    /\ state' = "disconnected"
    /\ open' = open \ {ws}

EndDisconnect ==
    /\ ws' = 0
    /\ using' = FALSE

-----------------------------------------------------------------------------
(* run_forever.                                                              *)

Busy(s) == \E r \in Receivers : reads[r] = s

\* The head of the loop. A socket that another task reads raises, and the loop
\* sleeps and comes back.
Enter(r) ==
    /\ pc[r] = "top"
    /\ \/ ~running /\ At(r, "off") /\ UNCHANGED <<state, reads>>
       \/ /\ running /\ IsConnected /\ ~Busy(ws)
          /\ At(r, "receive")
          /\ reads' = [reads EXCEPT ![r] = ws]
          /\ UNCHANGED state
       \/ /\ running /\ ~IsConnected
          /\ At(r, "backoff")
          /\ state' = "reconnecting"
          /\ UNCHANGED reads
    /\ UNCHANGED <<running, ws, auth, event, set, items, using, made, open, login,
                   registered, awaits>>

\* The socket is closed. A normal close ends the iteration without an exception,
\* and on_disconnect is not called; otherwise the loop reconnects at once.
SocketEnds(r) ==
    /\ pc[r] = "receive"
    /\ reads[r] \notin open
    /\ reads' = [reads EXCEPT ![r] = 0]
    /\ \/ At(r, "top") /\ UNCHANGED <<state, using>>
       \/ /\ using' = FALSE
          /\ At(r, IF running THEN "backoff" ELSE "off")
          /\ state' = IF running THEN "reconnecting" ELSE "disconnected"
    /\ UNCHANGED <<running, ws, auth, event, set, items, made, open, login,
                   registered, awaits>>

\* The answer to LOGIN, read by whoever reads the socket, sets the flag and the
\* event of the current connection, whichever socket it came from.
ReadLogin(r) ==
    /\ reads[r] /= 0
    /\ login[reads[r]] = "ok"
    /\ login' = [login EXCEPT ![reads[r]] = "read"]
    /\ auth' = TRUE
    /\ set' = set \union {event}
    /\ UNCHANGED <<state, running, ws, event, items, using, made, open, registered,
                   pc, reads, awaits>>

\* _reconnect after its sleep and the new token; one that finds the client
\* connected by another task waits for that login, but reads no socket that is read.
Refreshed(r) ==
    /\ pc[r] = "backoff"
    /\ StartConnect(r)
    /\ At(r, IF IsConnected THEN "auth" ELSE "connecting")
    /\ reads' = [reads EXCEPT ![r] = IF IsConnected /\ ~Busy(ws) THEN ws ELSE 0]
    /\ UNCHANGED <<running, auth, event, set, items, using, made, open, login, registered>>

\* Connected again: a temporary task reads the new socket.
Reconnected(r) ==
    /\ Connect(r)
    /\ At(r, "auth")
    /\ reads' = [reads EXCEPT ![r] = made + 1]

\* Any failure of _reconnect: the temporary reader is cancelled and the loop
\* goes on.
ReconnectFails(r) ==
    /\ \/ pc[r] \in {"backoff", "connecting"} /\ UNCHANGED awaits
       \/ AuthFails(r)
    /\ state' = "error"
    /\ At(r, "top")
    /\ reads' = [reads EXCEPT ![r] = 0]
    /\ UNCHANGED <<running, ws, auth, event, set, items, using, made, open, login,
                   registered>>

LoggedIn(r) ==
    /\ AuthWorks(r)
    /\ At(r, "restore")
    /\ UNCHANGED <<state, running, ws, auth, event, set, items, using, made, open, login,
                   registered, reads>>

\* A mistake OrdersStaySubscribed catches: the reconnect forgets the subscriptions.
RestoreNothing(r) ==
    /\ pc[r] = "restore"
    /\ At(r, "top")
    /\ reads' = [reads EXCEPT ![r] = 0]
    /\ UNCHANGED <<state, running, ws, auth, event, set, items, using, made, open,
                   login, registered, awaits>>

\* _restore_subscriptions; without a connection every subscribe raises, and the
\* error is only logged.
Restore(r) ==
    /\ pc[r] = "restore"
    /\ IF IsConnected THEN Subscribe(items) ELSE UNCHANGED <<items, registered>>
    /\ At(r, "top")
    /\ reads' = [reads EXCEPT ![r] = 0]
    /\ UNCHANGED <<state, running, ws, auth, event, set, using, made, open, login, awaits>>

\* The broker or the network closes a socket.
Drop(s) ==
    /\ s \in open
    /\ open' = open \ {s}
    /\ registered' = [registered EXCEPT ![s] = {}]
    /\ UNCHANGED <<state, running, ws, auth, event, set, items, using, made, login,
                   pc, reads, awaits>>

ReceiverStep(r) ==
    \/ Enter(r)
    \/ SocketEnds(r)
    \/ ReadLogin(r)
    \/ Refreshed(r)
    \/ Reconnected(r)
    \/ ReconnectFails(r)
    \/ LoggedIn(r)
    \/ Restore(r)
=============================================================================
