------------------------ MODULE WebSocketDataCollector ------------------------
(* The session of the collector (services/websocket_data_collector.py): its  *)
(* main task runs the WebSocket client, falls back to REST polling while a   *)
(* second task tries to reconnect, and stock codes come and go meanwhile.    *)
EXTENDS KiwoomWebSocket, Sequences

CONSTANTS
    Codes,          \* stock codes
    OrderItem,      \* the subscription of order and balance messages
    main, retry, stopper,   \* run, _try_websocket_reconnect, the caller of stop
    NoTask,
    MaxTasks        \* a bound: unfinished tasks of add_ and remove_stock_codes

ASSUME SessionAssumption ==
    /\ NoTask \notin Tasks
    /\ MaxTasks \in Nat
    /\ Callers = {main, retry, stopper}
    /\ main /= retry /\ main /= stopper /\ retry /= stopper
    /\ Items = Codes \union {OrderItem}
    /\ OrderItem \notin Codes

VARIABLES
    active,     \* running of the collector
    codes,      \* stock_codes
    child,      \* the run_forever task main and retry await or cancel
    tasks       \* what add_stock_codes and remove_stock_codes still have to send

vars == <<clientVars, active, codes, child, tasks>>

Places == {"off", "top", "receive", "backoff", "connecting", "auth", "restore",
           "await", "fallback", "ended", "wait", "closing"}

TypeOK ==
    /\ ClientTypeOK
    /\ pc \in [Tasks -> Places]
    /\ pc[main] \in {"top", "connecting", "auth", "await", "fallback", "ended"}
    /\ pc[retry] \in {"off", "wait", "connecting", "auth", "closing"}
    /\ pc[stopper] \in {"off", "closing", "ended"}
    /\ active \in BOOLEAN
    /\ codes \subseteq Codes
    /\ child \in [{main, retry} -> Receivers \union {NoTask}]
    /\ tasks \in Seq({"add", "remove"} \X SUBSET Codes)

Init ==
    /\ running = FALSE /\ state = "disconnected"
    /\ auth = FALSE /\ using = FALSE
    /\ ws = 0 /\ event = 0 /\ made = 0
    /\ set = {} /\ open = {} /\ items = {}
    /\ login = [s \in Sockets |-> "none"]
    /\ registered = [s \in Sockets |-> {}]
    /\ pc = [t \in Tasks |-> IF t = main THEN "top" ELSE "off"]
    /\ reads = [r \in Receivers |-> 0]
    /\ awaits = [t \in Tasks |-> 0]
    /\ active = TRUE
    /\ codes \in SUBSET Codes
    /\ child = [t \in {main, retry} |-> NoTask]
    /\ tasks = <<>>

-----------------------------------------------------------------------------

Rest == <<active, codes, tasks>>
Broker == <<made, open, login>>
Flags == <<running, auth, event, set>>

\* Caller t starts a task of run_forever and waits for the login.
StartChild(t) ==
    \E r \in Receivers :
        /\ pc[r] = "off"
        /\ pc' = [pc EXCEPT ![t] = "auth", ![r] = "top"]
        /\ child' = [child EXCEPT ![t] = r]

\* t asks the client to connect, which may be connected already.
AskConnect(t) ==
    /\ StartConnect(t)
    /\ IF IsConnected
       THEN StartChild(t)
       ELSE At(t, "connecting") /\ UNCHANGED child
    /\ UNCHANGED <<Flags, items, Broker, registered, reads, Rest>>

Connected(t) ==
    /\ Connect(t)
    /\ StartChild(t)
    /\ UNCHANGED <<reads, Rest>>

\* t gives up waiting and cancels the task it started, wherever that stands.
GoesAfterCancel(t, where) ==
    /\ pc' = [q \in Tasks |-> CASE q = t -> where
                                [] q = child[t] -> "off"
                                [] OTHER -> pc[q]]
    /\ reads' = [r \in Receivers |-> IF r = child[t] THEN 0 ELSE reads[r]]

-----------------------------------------------------------------------------
(* run.                                                                      *)

RunAsks ==
    /\ pc[main] = "top"
    /\ active
    /\ AskConnect(main)
    /\ using' = (using \/ IsConnected)

RunEnds ==
    /\ pc[main] = "top"
    /\ ~active
    /\ At(main, "ended")
    /\ UNCHANGED <<state, Flags, ws, items, using, Broker, registered, reads, awaits,
                   child, Rest>>

\* A WebSocketError of run: REST polling, with a second task that reconnects.
AfterError(q) == IF active THEN (IF q = main THEN "fallback" ELSE "wait")
                 ELSE IF q = main THEN "ended" ELSE pc[q]

RunConnectFails ==
    /\ pc[main] = "connecting"
    /\ state' = "error"
    /\ using' = FALSE
    /\ pc' = [pc EXCEPT ![main] = AfterError(main), ![retry] = AfterError(retry)]
    /\ UNCHANGED <<Flags, ws, items, Broker, registered, reads, awaits, child, Rest>>

RunAuthFails ==
    /\ AuthFails(main)
    /\ using' = FALSE
    /\ pc' = [pc EXCEPT ![main] = AfterError(main), ![retry] = AfterError(retry),
                        ![child[main]] = "off"]
    /\ reads' = [reads EXCEPT ![child[main]] = 0]
    /\ child' = [child EXCEPT ![main] = NoTask]
    /\ UNCHANGED <<state, Flags, ws, items, Broker, registered, Rest>>

\* The codes there are now and the messages of orders are subscribed; if the
\* connection is gone, subscribe raises, and the task of run_forever lives on.
RunSubscribes ==
    /\ AuthWorks(main)
    /\ IF IsConnected
       THEN /\ Subscribe(codes \union {OrderItem})
            /\ At(main, "await")
            /\ UNCHANGED <<using, child>>
       ELSE /\ using' = FALSE
            /\ pc' = [pc EXCEPT ![main] = AfterError(main), ![retry] = AfterError(retry)]
            /\ child' = [child EXCEPT ![main] = NoTask]
            /\ UNCHANGED <<items, registered>>
    /\ UNCHANGED <<state, Flags, ws, Broker, reads, Rest>>

RunAwaited ==
    /\ pc[main] = "await"
    /\ pc[child[main]] = "off"
    /\ At(main, "top")
    /\ child' = [child EXCEPT ![main] = NoTask]
    /\ UNCHANGED <<state, Flags, ws, items, using, Broker, registered, reads, awaits,
                   Rest>>

\* _run_rest_fallback: the polling ends with stop, the second task when it has
\* connected; the other is cancelled, but not the receiver it started.
FallbackEnds ==
    /\ pc[main] = "fallback"
    /\ pc[retry] = "off" \/ pc[stopper] = "ended"
    /\ pc' = [pc EXCEPT ![main] = "top", ![retry] = "off"]
    /\ awaits' = [awaits EXCEPT ![retry] = 0]
    /\ child' = [child EXCEPT ![retry] = NoTask]
    /\ UNCHANGED <<state, Flags, ws, items, using, Broker, registered, reads, Rest>>

-----------------------------------------------------------------------------
(* _try_websocket_reconnect.                                                 *)

RetryAsks ==
    /\ pc[retry] = "wait"
    /\ active /\ ~using
    /\ AskConnect(retry)
    /\ UNCHANGED using

RetryNotNeeded ==
    /\ pc[retry] = "wait"
    /\ ~active \/ using
    /\ At(retry, "off")
    /\ UNCHANGED <<state, Flags, ws, items, using, Broker, registered, reads, awaits,
                   child, Rest>>

RetryConnectFails ==
    /\ pc[retry] = "connecting"
    /\ state' = "error"
    /\ At(retry, "wait")
    /\ UNCHANGED <<Flags, ws, items, using, Broker, registered, reads, awaits, child, Rest>>

\* It returns, and leaves the receiver running.
RetryWorks ==
    /\ AuthWorks(retry)
    /\ using' = TRUE
    /\ At(retry, "off")
    /\ child' = [child EXCEPT ![retry] = NoTask]
    /\ UNCHANGED <<state, Flags, ws, items, Broker, registered, reads, Rest>>

RetryAuthFails ==
    /\ AuthFails(retry)
    /\ GoesAfterCancel(retry, "closing")
    /\ BeginDisconnect
    /\ child' = [child EXCEPT ![retry] = NoTask]
    /\ UNCHANGED <<auth, event, set, ws, items, using, made, login, registered, Rest>>

RetryDisconnected ==
    /\ pc[retry] = "closing"
    /\ EndDisconnect
    /\ At(retry, "wait")
    /\ UNCHANGED <<state, Flags, items, Broker, registered, reads, awaits, child, Rest>>

-----------------------------------------------------------------------------

Stop ==
    /\ pc[stopper] = "off"
    /\ active' = FALSE
    /\ BeginDisconnect
    /\ At(stopper, "closing")
    /\ UNCHANGED <<auth, event, set, ws, items, using, made, login, registered, reads,
                   awaits, child, codes, tasks>>

Stopped ==
    /\ pc[stopper] = "closing"
    /\ EndDisconnect
    /\ At(stopper, "ended")
    /\ UNCHANGED <<state, Flags, items, Broker, registered, reads, awaits, child, Rest>>

Adds(new) == IF new \subseteq codes THEN <<>> ELSE <<<<"add", new \ codes>>>>
Removes(new) == IF codes \subseteq new THEN <<>> ELSE <<<<"remove", codes \ new>>>>

\* update_stock_codes, which adds and removes; each starts a task that tells the
\* broker, or tells nobody while the collector is not connected.
UpdateStockCodes(new) ==
    /\ new /= codes
    /\ Len(tasks) < MaxTasks
    /\ codes' = new
    /\ tasks' = IF using THEN tasks \o Adds(new) \o Removes(new) ELSE tasks
    /\ UNCHANGED <<clientVars, active, child>>

\* Such a task runs: without a connection subscribe raises and unsubscribe
\* returns False, and neither is tried again.
TellBroker ==
    /\ tasks /= <<>>
    /\ tasks' = Tail(tasks)
    /\ CASE ~IsConnected -> UNCHANGED <<items, registered>>
         [] IsConnected /\ Head(tasks)[1] = "add" -> Subscribe(Head(tasks)[2])
         [] OTHER -> Unsubscribe(Head(tasks)[2])
    /\ UNCHANGED <<state, Flags, ws, using, Broker, pc, reads, awaits, active, codes, child>>

Run ==
    \/ RunAsks \/ RunEnds \/ Connected(main) \/ RunConnectFails \/ RunAuthFails
    \/ RunSubscribes \/ RunAwaited \/ FallbackEnds

Retry ==
    \/ RetryAsks \/ RetryNotNeeded \/ Connected(retry) \/ RetryConnectFails
    \/ RetryWorks \/ RetryAuthFails \/ RetryDisconnected

Receive(r) == ReceiverStep(r) /\ UNCHANGED <<active, codes, child, tasks>>

Next ==
    \/ Run
    \/ Retry
    \/ \E r \in Receivers : Receive(r)
    \/ \E s \in Sockets : Drop(s) /\ UNCHANGED <<active, codes, child, tasks>>
    \/ Stop
    \/ Stopped
    \/ \E new \in SUBSET Codes : UpdateStockCodes(new)
    \/ TellBroker

Spec == Init /\ [][Next]_vars

\* Every task of the event loop goes on; nothing is assumed of the broker, of
\* stop, or of who updates the stock codes.
Fairness ==
    /\ WF_vars(Run)
    /\ WF_vars(Retry)
    /\ \A r \in Receivers : WF_vars(Receive(r))
    /\ WF_vars(TellBroker)

FairSpec == Spec /\ Fairness

-----------------------------------------------------------------------------
(* Properties.                                                               *)

\* main awaits a receiver that reads the open socket of the client, and the
\* broker has not refused the login on it.
Quiet ==
    /\ pc[main] = "await"
    /\ IsConnected
    /\ pc[child[main]] = "receive"
    /\ reads[child[main]] = ws
    /\ login[ws] /= "refused"

\* A quiet session receives the messages about orders and balances, after any
\* sequence of drops, refused logins, fallbacks and reconnections by any task:
\* _restore_subscriptions and run between them leave no session without them.
\* Of a refused login nothing is promised: the answer to the LOGIN of an older
\* socket sets the event of the current one, and run subscribes in vain.
OrdersStaySubscribed == Quiet => OrderItem \in registered[ws]

\* A running collector without a connection gets one or starts another attempt,
\* however the last one ended: a normal close, a refused login, a cancelled
\* receiver or the end of the REST fallback never leave all its tasks waiting
\* for each other.
KeepsTrying ==
    (active /\ ~IsConnected)
        ~> (~active \/ IsConnected \/ \E t \in Tasks : pc[t] \in {"connecting", "backoff"})
-----------------------------------------------------------------------------
(* The invariant the proof rests on.                                         *)

\* Sockets are numbered as they are made: one that was not made has no answer
\* and no reader, and _auth_event is the event of the last.
Numbered ==
    /\ event = made
    /\ \A s \in Sockets : login[s] /= "none" => s <= made
    /\ \A r \in Receivers : reads[r] <= made

\* No socket is read by two receivers: websockets raises on a second reader.
OneReader ==
    \A r, q \in Receivers : reads[r] /= 0 /\ reads[r] = reads[q] => r = q

\* The second task lives within _run_rest_fallback only.
RetryInFallback == pc[retry] /= "off" => pc[main] = "fallback"

\* Who waits for a login, or for the end of a session, has a task that reads.
HasChild ==
    \A t \in {main, retry} : pc[t] \in {"auth", "await"} => child[t] \in Receivers

\* What run has subscribed is still there to be restored.
ItemsKept == pc[main] = "await" => OrderItem \in items

\* While main awaits, a session that misses the order messages is one whose
\* reader is still in _reconnect and will restore them.
Restored ==
    pc[main] = "await" /\ IsConnected /\ login[ws] /= "refused" =>
        \/ OrderItem \in registered[ws]
        \/ \E r \in Receivers : reads[r] = ws /\ pc[r] \in {"auth", "restore"}

SessionInv ==
    TypeOK /\ Numbered /\ OneReader /\ HasChild /\ RetryInFallback /\ ItemsKept /\ Restored
=============================================================================
