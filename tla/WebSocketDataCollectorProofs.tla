--------------------- MODULE WebSocketDataCollectorProofs ---------------------
(* A session that runs keeps its subscription of order messages, for any     *)
(* receivers, stock codes and number of connections.                         *)
EXTENDS WebSocketDataCollector, TLAPS

\* The tasks of the event loop are different tasks.
LEMMA TasksDiffer ==
    /\ main \in Tasks /\ retry \in Tasks /\ stopper \in Tasks
    /\ main /= retry /\ main /= stopper /\ retry /= stopper
    /\ Receivers \subseteq Tasks
    /\ main \notin Receivers /\ retry \notin Receivers /\ stopper \notin Receivers
    /\ NoTask \notin Tasks
    /\ OrderItem \in Items /\ OrderItem \notin Codes /\ Codes \subseteq Items
    /\ MaxSockets \in Nat \ {0}
BY SocketAssumption, SessionAssumption DEF Tasks

-----------------------------------------------------------------------------
(* Types.                                                                    *)

\* What the variables hold, by what they are about.
FlagTypes ==
    /\ state \in {"disconnected", "connecting", "connected", "reconnecting", "error"}
    /\ running \in BOOLEAN /\ auth \in BOOLEAN /\ using \in BOOLEAN /\ active \in BOOLEAN

SocketTypes ==
    /\ ws \in 0 .. MaxSockets /\ event \in 0 .. MaxSockets /\ made \in 0 .. MaxSockets
    /\ set \subseteq Sockets /\ open \subseteq 1 .. made
    /\ login \in [Sockets -> {"none", "ok", "refused", "read"}]

ItemTypes ==
    /\ items \subseteq Items
    /\ registered \in [Sockets -> SUBSET Items]
    /\ codes \subseteq Codes
    /\ tasks \in Seq({"add", "remove"} \X SUBSET Codes)

TaskTypes ==
    /\ reads \in [Receivers -> 0 .. MaxSockets]
    /\ awaits \in [Tasks -> 0 .. MaxSockets]
    /\ child \in [{main, retry} -> Receivers \union {NoTask}]

PcTypes ==
    /\ pc \in [Tasks -> Places]
    /\ \A r \in Receivers :
           pc[r] \in {"off", "top", "receive", "backoff", "connecting", "auth", "restore"}
    /\ pc[main] \in {"top", "connecting", "auth", "await", "fallback", "ended"}
    /\ pc[retry] \in {"off", "wait", "connecting", "auth", "closing"}
    /\ pc[stopper] \in {"off", "closing", "ended"}

\* The type invariant is what its parts say.
LEMMA TypeParts ==
    TypeOK <=> FlagTypes /\ SocketTypes /\ ItemTypes /\ TaskTypes /\ PcTypes
BY DEF TypeOK, ClientTypeOK, FlagTypes, SocketTypes, ItemTypes, TaskTypes, PcTypes

\* The flags of client and collector.
LEMMA FlagTypesStep ==
    ASSUME FlagTypes, [Next]_vars
    PROVE  FlagTypes'
<1>1. ASSUME NEW r \in Receivers, Receive(r) PROVE FlagTypes'
  <2>u. UNCHANGED <<active, codes, child, tasks>>
    BY <1>1 DEF Receive
  <2>1. CASE Enter(r)
    BY <2>1, <2>u DEF Enter, FlagTypes
  <2>2. CASE SocketEnds(r)
    BY <2>2, <2>u DEF SocketEnds, FlagTypes
  <2>3. CASE ReadLogin(r)
    BY <2>3, <2>u DEF ReadLogin, FlagTypes
  <2>4. CASE Refreshed(r)
    BY <2>4, <2>u
       DEF Refreshed, At, StartConnect, WaitForAuth, IsConnected, Busy, FlagTypes
  <2>5. CASE Reconnected(r)
    BY <2>5, <2>u DEF Reconnected, Connect, At, FlagTypes
  <2>6. CASE ReconnectFails(r)
    BY <2>6, <2>u DEF ReconnectFails, FlagTypes
  <2>7. CASE LoggedIn(r)
    BY <2>7, <2>u DEF LoggedIn, FlagTypes
  <2>8. CASE Restore(r)
    BY <2>8, <2>u DEF Restore, FlagTypes
  <2> QED
    BY <1>1, <2>1, <2>2, <2>3, <2>4, <2>5, <2>6, <2>7, <2>8 DEF Receive, ReceiverStep
<1>2. CASE Run
  <2>1. CASE RunAsks
    BY <2>1
       DEF RunAsks, AskConnect, StartConnect, WaitForAuth, StartChild, At, IsConnected,
           Flags, Broker, Rest, FlagTypes
  <2>2. CASE RunEnds
    BY <2>2 DEF RunEnds, Flags, Broker, Rest, FlagTypes
  <2>3. CASE Connected(main)
    BY <2>3 DEF Connected, Connect, StartChild, Rest, FlagTypes
  <2>4. CASE RunConnectFails
    BY <2>4 DEF RunConnectFails, Flags, Broker, Rest, FlagTypes
  <2>5. CASE RunAuthFails
    BY <2>5 DEF RunAuthFails, Flags, Broker, Rest, FlagTypes
  <2>6. CASE RunSubscribes
    BY <2>6 DEF RunSubscribes, Flags, Broker, Rest, FlagTypes
  <2>7. CASE RunAwaited
    BY <2>7 DEF RunAwaited, Flags, Broker, Rest, FlagTypes
  <2>8. CASE FallbackEnds
    BY <2>8 DEF FallbackEnds, Flags, Broker, Rest, FlagTypes
  <2> QED
    BY <1>2, <2>1, <2>2, <2>3, <2>4, <2>5, <2>6, <2>7, <2>8 DEF Run
<1>3. CASE Retry
  <2>1. CASE RetryAsks
    BY <2>1
       DEF RetryAsks, AskConnect, StartConnect, WaitForAuth, StartChild, At,
           IsConnected, Flags, Broker, Rest, FlagTypes
  <2>2. CASE RetryNotNeeded
    BY <2>2 DEF RetryNotNeeded, Flags, Broker, Rest, FlagTypes
  <2>3. CASE Connected(retry)
    BY <2>3 DEF Connected, Connect, StartChild, Rest, FlagTypes
  <2>4. CASE RetryConnectFails
    BY <2>4 DEF RetryConnectFails, Flags, Broker, Rest, FlagTypes
  <2>5. CASE RetryWorks
    BY <2>5 DEF RetryWorks, Flags, Broker, Rest, FlagTypes
  <2>6. CASE RetryAuthFails
    BY <2>6
       DEF RetryAuthFails, AuthFails, GoesAfterCancel, BeginDisconnect, Rest, FlagTypes
  <2>7. CASE RetryDisconnected
    BY <2>7 DEF RetryDisconnected, EndDisconnect, At, Flags, Broker, Rest, FlagTypes
  <2> QED
    BY <1>3, <2>1, <2>2, <2>3, <2>4, <2>5, <2>6, <2>7 DEF Retry
<1>4. ASSUME NEW s \in Sockets, Drop(s), UNCHANGED <<active, codes, child, tasks>>
      PROVE  FlagTypes'
  BY <1>4 DEF Drop, FlagTypes
<1>5. CASE Stop
  BY <1>5 DEF Stop, BeginDisconnect, At, FlagTypes
<1>6. CASE Stopped
  BY <1>6 DEF Stopped, EndDisconnect, At, Flags, Broker, Rest, FlagTypes
<1>7. ASSUME NEW new \in SUBSET Codes, UpdateStockCodes(new) PROVE FlagTypes'
  BY <1>7 DEF UpdateStockCodes, Adds, Removes, clientVars, FlagTypes
<1>8. CASE TellBroker
  BY <1>8 DEF TellBroker, Flags, Broker, FlagTypes
<1>9. CASE UNCHANGED vars
  BY <1>9 DEF vars, clientVars, FlagTypes
<1> QED
  BY <1>1, <1>2, <1>3, <1>4, <1>5, <1>6, <1>7, <1>8, <1>9 DEF Next

\* The sockets; the event of a login that is read is that of a socket that was made.
LEMMA SocketTypesStep ==
    ASSUME SocketTypes, TaskTypes, Numbered, [Next]_vars
    PROVE  SocketTypes'
<1>1. ASSUME NEW r \in Receivers, Receive(r) PROVE SocketTypes'
  <2>u. UNCHANGED <<active, codes, child, tasks>>
    BY <1>1 DEF Receive
  <2>1. CASE Enter(r)
    BY <2>1, <2>u DEF Enter, SocketTypes
  <2>2. CASE SocketEnds(r)
    BY <2>2, <2>u DEF SocketEnds, SocketTypes
  <2>3. CASE ReadLogin(r)
    <3>1. reads[r] \in Sockets
      BY <2>3, <2>u DEF ReadLogin, TaskTypes, Sockets
    <3>2. login[reads[r]] /= "none"
      BY <2>3, <2>u DEF ReadLogin
    <3>3. event \in Sockets
      BY <3>1, <3>2, TasksDiffer DEF SocketTypes, Sockets, Numbered
    <3> QED
      BY <2>3, <2>u, <3>3 DEF ReadLogin, SocketTypes
  <2>4. CASE Refreshed(r)
    BY <2>4, <2>u, TasksDiffer
       DEF Refreshed, At, StartConnect, WaitForAuth, IsConnected, Busy, SocketTypes
  <2>5. CASE Reconnected(r)
    BY <2>5, <2>u, TasksDiffer DEF Reconnected, Connect, At, SocketTypes, Sockets
  <2>6. CASE ReconnectFails(r)
    BY <2>6, <2>u DEF ReconnectFails, SocketTypes
  <2>7. CASE LoggedIn(r)
    BY <2>7, <2>u DEF LoggedIn, SocketTypes
  <2>8. CASE Restore(r)
    BY <2>8, <2>u DEF Restore, SocketTypes
  <2> QED
    BY <1>1, <2>1, <2>2, <2>3, <2>4, <2>5, <2>6, <2>7, <2>8 DEF Receive, ReceiverStep
<1>2. CASE Run
  <2>1. CASE RunAsks
    BY <2>1, TasksDiffer
       DEF RunAsks, AskConnect, StartConnect, WaitForAuth, StartChild, At, IsConnected,
           Flags, Broker, Rest, SocketTypes
  <2>2. CASE RunEnds
    BY <2>2 DEF RunEnds, Flags, Broker, Rest, SocketTypes
  <2>3. CASE Connected(main)
    BY <2>3, TasksDiffer DEF Connected, Connect, StartChild, Rest, SocketTypes, Sockets
  <2>4. CASE RunConnectFails
    BY <2>4 DEF RunConnectFails, Flags, Broker, Rest, SocketTypes
  <2>5. CASE RunAuthFails
    BY <2>5 DEF RunAuthFails, Flags, Broker, Rest, SocketTypes
  <2>6. CASE RunSubscribes
    BY <2>6 DEF RunSubscribes, Flags, Broker, Rest, SocketTypes
  <2>7. CASE RunAwaited
    BY <2>7 DEF RunAwaited, Flags, Broker, Rest, SocketTypes
  <2>8. CASE FallbackEnds
    BY <2>8 DEF FallbackEnds, Flags, Broker, Rest, SocketTypes
  <2> QED
    BY <1>2, <2>1, <2>2, <2>3, <2>4, <2>5, <2>6, <2>7, <2>8 DEF Run
<1>3. CASE Retry
  <2>1. CASE RetryAsks
    BY <2>1, TasksDiffer
       DEF RetryAsks, AskConnect, StartConnect, WaitForAuth, StartChild, At,
           IsConnected, Flags, Broker, Rest, SocketTypes
  <2>2. CASE RetryNotNeeded
    BY <2>2 DEF RetryNotNeeded, Flags, Broker, Rest, SocketTypes
  <2>3. CASE Connected(retry)
    BY <2>3, TasksDiffer DEF Connected, Connect, StartChild, Rest, SocketTypes, Sockets
  <2>4. CASE RetryConnectFails
    BY <2>4 DEF RetryConnectFails, Flags, Broker, Rest, SocketTypes
  <2>5. CASE RetryWorks
    BY <2>5 DEF RetryWorks, Flags, Broker, Rest, SocketTypes
  <2>6. CASE RetryAuthFails
    BY <2>6
       DEF RetryAuthFails, AuthFails, GoesAfterCancel, BeginDisconnect, Rest,
           SocketTypes, Sockets
  <2>7. CASE RetryDisconnected
    BY <2>7, TasksDiffer
       DEF RetryDisconnected, EndDisconnect, At, Flags, Broker, Rest, SocketTypes
  <2> QED
    BY <1>3, <2>1, <2>2, <2>3, <2>4, <2>5, <2>6, <2>7 DEF Retry
<1>4. ASSUME NEW s \in Sockets, Drop(s), UNCHANGED <<active, codes, child, tasks>>
      PROVE  SocketTypes'
  BY <1>4 DEF Drop, SocketTypes
<1>5. CASE Stop
  BY <1>5 DEF Stop, BeginDisconnect, At, SocketTypes, Sockets
<1>6. CASE Stopped
  BY <1>6, TasksDiffer DEF Stopped, EndDisconnect, At, Flags, Broker, Rest, SocketTypes
<1>7. ASSUME NEW new \in SUBSET Codes, UpdateStockCodes(new) PROVE SocketTypes'
  BY <1>7 DEF UpdateStockCodes, Adds, Removes, clientVars, SocketTypes
<1>8. CASE TellBroker
  BY <1>8 DEF TellBroker, Flags, Broker, SocketTypes
<1>9. CASE UNCHANGED vars
  BY <1>9 DEF vars, clientVars, SocketTypes, Sockets
<1> QED
  BY <1>1, <1>2, <1>3, <1>4, <1>5, <1>6, <1>7, <1>8, <1>9 DEF Next

\* The subscriptions.
LEMMA ItemTypesStep ==
    ASSUME SocketTypes, ItemTypes, [Next]_vars
    PROVE  ItemTypes'
<1>1. ASSUME NEW r \in Receivers, Receive(r) PROVE ItemTypes'
  <2>u. UNCHANGED <<active, codes, child, tasks>>
    BY <1>1 DEF Receive
  <2>1. CASE Enter(r)
    BY <2>1, <2>u DEF Enter, ItemTypes
  <2>2. CASE SocketEnds(r)
    BY <2>2, <2>u DEF SocketEnds, ItemTypes
  <2>3. CASE ReadLogin(r)
    BY <2>3, <2>u DEF ReadLogin, ItemTypes
  <2>4. CASE Refreshed(r)
    BY <2>4, <2>u DEF Refreshed, ItemTypes
  <2>5. CASE Reconnected(r)
    BY <2>5, <2>u DEF Reconnected, Connect, At, ItemTypes
  <2>6. CASE ReconnectFails(r)
    BY <2>6, <2>u DEF ReconnectFails, ItemTypes
  <2>7. CASE LoggedIn(r)
    BY <2>7, <2>u DEF LoggedIn, ItemTypes
  <2>8. CASE Restore(r)
    BY <2>8, <2>u DEF Restore, At, Subscribe, IsConnected, ItemTypes
  <2> QED
    BY <1>1, <2>1, <2>2, <2>3, <2>4, <2>5, <2>6, <2>7, <2>8 DEF Receive, ReceiverStep
<1>2. CASE Run
  <2>1. CASE RunAsks
    BY <2>1
       DEF RunAsks, AskConnect, StartConnect, WaitForAuth, StartChild, At, IsConnected,
           Flags, Broker, Rest, ItemTypes
  <2>2. CASE RunEnds
    BY <2>2 DEF RunEnds, Flags, Broker, Rest, ItemTypes
  <2>3. CASE Connected(main)
    BY <2>3 DEF Connected, Connect, StartChild, Rest, ItemTypes
  <2>4. CASE RunConnectFails
    BY <2>4 DEF RunConnectFails, Flags, Broker, Rest, ItemTypes
  <2>5. CASE RunAuthFails
    BY <2>5 DEF RunAuthFails, Flags, Broker, Rest, ItemTypes
  <2>6. CASE RunSubscribes
    BY <2>6, TasksDiffer
       DEF RunSubscribes, AuthWorks, Subscribe, At, AfterError, IsConnected, Flags,
           Broker, Rest, ItemTypes
  <2>7. CASE RunAwaited
    BY <2>7 DEF RunAwaited, Flags, Broker, Rest, ItemTypes
  <2>8. CASE FallbackEnds
    BY <2>8 DEF FallbackEnds, Flags, Broker, Rest, ItemTypes
  <2> QED
    BY <1>2, <2>1, <2>2, <2>3, <2>4, <2>5, <2>6, <2>7, <2>8 DEF Run
<1>3. CASE Retry
  <2>1. CASE RetryAsks
    BY <2>1
       DEF RetryAsks, AskConnect, StartConnect, WaitForAuth, StartChild, At,
           IsConnected, Flags, Broker, Rest, ItemTypes
  <2>2. CASE RetryNotNeeded
    BY <2>2 DEF RetryNotNeeded, Flags, Broker, Rest, ItemTypes
  <2>3. CASE Connected(retry)
    BY <2>3 DEF Connected, Connect, StartChild, Rest, ItemTypes
  <2>4. CASE RetryConnectFails
    BY <2>4 DEF RetryConnectFails, Flags, Broker, Rest, ItemTypes
  <2>5. CASE RetryWorks
    BY <2>5 DEF RetryWorks, Flags, Broker, Rest, ItemTypes
  <2>6. CASE RetryAuthFails
    BY <2>6 DEF RetryAuthFails, Rest, ItemTypes
  <2>7. CASE RetryDisconnected
    BY <2>7 DEF RetryDisconnected, Flags, Broker, Rest, ItemTypes
  <2> QED
    BY <1>3, <2>1, <2>2, <2>3, <2>4, <2>5, <2>6, <2>7 DEF Retry
<1>4. ASSUME NEW s \in Sockets, Drop(s), UNCHANGED <<active, codes, child, tasks>>
      PROVE  ItemTypes'
  BY <1>4 DEF Drop, ItemTypes
<1>5. CASE Stop
  BY <1>5 DEF Stop, ItemTypes
<1>6. CASE Stopped
  BY <1>6 DEF Stopped, Flags, Broker, Rest, ItemTypes
<1>7. ASSUME NEW new \in SUBSET Codes, UpdateStockCodes(new) PROVE ItemTypes'
  <2>1. Adds(new) \in Seq({"add", "remove"} \X SUBSET Codes)
    BY DEF Adds
  <2>2. Removes(new) \in Seq({"add", "remove"} \X SUBSET Codes)
    BY DEF Removes, ItemTypes
  <2>3. tasks' \in Seq({"add", "remove"} \X SUBSET Codes)
    BY <1>7, <2>1, <2>2 DEF UpdateStockCodes, ItemTypes
  <2> QED
    BY <1>7, <2>3 DEF UpdateStockCodes, clientVars, ItemTypes
<1>8. CASE TellBroker
  <2>1. /\ tasks \in Seq({"add", "remove"} \X SUBSET Codes) /\ tasks /= <<>>
        /\ codes \subseteq Codes /\ Codes \subseteq Items
    BY <1>8, SessionAssumption DEF TellBroker, ItemTypes
  <2>2. Head(tasks)[2] \subseteq Items /\ tasks' \in Seq({"add", "remove"} \X SUBSET Codes)
    <3>1. Head(tasks) \in {"add", "remove"} \X SUBSET Codes /\ tasks' = Tail(tasks)
      BY <1>8, <2>1 DEF TellBroker
    <3> QED
      BY <2>1, <3>1
  <2>3. codes' \subseteq Codes
    BY <1>8, <2>1 DEF TellBroker
  <2>4. \/ UNCHANGED <<items, registered>>
        \/ Subscribe(Head(tasks)[2])
        \/ Unsubscribe(Head(tasks)[2])
    BY <1>8 DEF TellBroker
  <2>5. items' \subseteq Items
    BY <2>2, <2>4 DEF Subscribe, Unsubscribe, ItemTypes
  <2>6. registered' \in [Sockets -> SUBSET Items]
    <3>1. CASE Subscribe(Head(tasks)[2])
      BY <2>2, <3>1 DEF Subscribe, ItemTypes
    <3>2. CASE Unsubscribe(Head(tasks)[2])
      BY <2>2, <3>2 DEF Unsubscribe, ItemTypes
    <3>3. CASE UNCHANGED <<items, registered>>
      BY <3>3 DEF ItemTypes
    <3> QED
      BY <2>4, <3>1, <3>2, <3>3
  <2> QED
    BY <2>2, <2>3, <2>5, <2>6 DEF ItemTypes
<1>9. CASE UNCHANGED vars
  BY <1>9 DEF vars, clientVars, ItemTypes
<1> QED
  BY <1>1, <1>2, <1>3, <1>4, <1>5, <1>6, <1>7, <1>8, <1>9 DEF Next

\* What the tasks read, await and have started.
LEMMA TaskTypesStep ==
    ASSUME SocketTypes, TaskTypes, PcTypes, [Next]_vars
    PROVE  TaskTypes'
<1>1. ASSUME NEW r \in Receivers, Receive(r) PROVE TaskTypes'
  <2>u. UNCHANGED <<active, codes, child, tasks>>
    BY <1>1 DEF Receive
  <2>1. CASE Enter(r)
    BY <2>1, <2>u DEF Enter, At, Busy, IsConnected, SocketTypes, TaskTypes
  <2>2. CASE SocketEnds(r)
    BY <2>2, <2>u, TasksDiffer DEF SocketEnds, At, TaskTypes
  <2>3. CASE ReadLogin(r)
    BY <2>3, <2>u DEF ReadLogin, TaskTypes
  <2>4. CASE Refreshed(r)
    BY <2>4, <2>u, TasksDiffer
       DEF Refreshed, At, StartConnect, WaitForAuth, IsConnected, Busy, SocketTypes,
           TaskTypes
  <2>5. CASE Reconnected(r)
    BY <2>5, <2>u, TasksDiffer DEF Reconnected, Connect, At, SocketTypes, TaskTypes
  <2>6. CASE ReconnectFails(r)
    BY <2>6, <2>u, TasksDiffer DEF ReconnectFails, AuthFails, At, TaskTypes
  <2>7. CASE LoggedIn(r)
    BY <2>7, <2>u, TasksDiffer DEF LoggedIn, AuthWorks, At, TaskTypes
  <2>8. CASE Restore(r)
    BY <2>8, <2>u, TasksDiffer DEF Restore, At, Subscribe, IsConnected, TaskTypes
  <2> QED
    BY <1>1, <2>1, <2>2, <2>3, <2>4, <2>5, <2>6, <2>7, <2>8 DEF Receive, ReceiverStep
<1>2. CASE Run
  <2>1. CASE RunAsks
    BY <2>1, TasksDiffer
       DEF RunAsks, AskConnect, StartConnect, WaitForAuth, StartChild, At, IsConnected,
           Flags, Broker, Rest, SocketTypes, TaskTypes
  <2>2. CASE RunEnds
    BY <2>2 DEF RunEnds, TaskTypes
  <2>3. CASE Connected(main)
    BY <2>3, TasksDiffer
       DEF Connected, Connect, StartChild, Rest, SocketTypes, TaskTypes
  <2>4. CASE RunConnectFails
    BY <2>4 DEF RunConnectFails, TaskTypes
  <2>5. CASE RunAuthFails
    <3>a. 0 \in 0 .. MaxSockets
      BY TasksDiffer
    <3>b. reads' = [r \in Receivers |-> IF r = child[main] THEN 0 ELSE reads[r]]
      BY <2>5 DEF RunAuthFails, TaskTypes
    <3>1. reads' \in [Receivers -> 0 .. MaxSockets]
      BY <3>a, <3>b DEF TaskTypes
    <3>2. awaits' \in [Tasks -> 0 .. MaxSockets]
      BY <2>5, TasksDiffer DEF RunAuthFails, AuthFails, TaskTypes
    <3>3. child' \in [{main, retry} -> Receivers \union {NoTask}]
      BY <2>5 DEF RunAuthFails, TaskTypes
    <3> QED
      BY <3>1, <3>2, <3>3 DEF TaskTypes
  <2>6. CASE RunSubscribes
    BY <2>6, TasksDiffer
       DEF RunSubscribes, AuthWorks, Subscribe, At, AfterError, IsConnected, Flags,
           Broker, Rest, TaskTypes
  <2>7. CASE RunAwaited
    BY <2>7 DEF RunAwaited, TaskTypes
  <2>8. CASE FallbackEnds
    BY <2>8, TasksDiffer DEF FallbackEnds, Flags, Broker, Rest, TaskTypes
  <2> QED
    BY <1>2, <2>1, <2>2, <2>3, <2>4, <2>5, <2>6, <2>7, <2>8 DEF Run
<1>3. CASE Retry
  <2>1. CASE RetryAsks
    BY <2>1, TasksDiffer
       DEF RetryAsks, AskConnect, StartConnect, WaitForAuth, StartChild, At,
           IsConnected, Flags, Broker, Rest, SocketTypes, TaskTypes
  <2>2. CASE RetryNotNeeded
    BY <2>2 DEF RetryNotNeeded, TaskTypes
  <2>3. CASE Connected(retry)
    BY <2>3, TasksDiffer
       DEF Connected, Connect, StartChild, Rest, SocketTypes, TaskTypes
  <2>4. CASE RetryConnectFails
    BY <2>4 DEF RetryConnectFails, TaskTypes
  <2>5. CASE RetryWorks
    BY <2>5, TasksDiffer DEF RetryWorks, AuthWorks, At, Flags, Broker, Rest, TaskTypes
  <2>6. CASE RetryAuthFails
    BY <2>6, TasksDiffer
       DEF RetryAuthFails, AuthFails, GoesAfterCancel, BeginDisconnect, Rest, TaskTypes
  <2>7. CASE RetryDisconnected
    BY <2>7 DEF RetryDisconnected, TaskTypes
  <2> QED
    BY <1>3, <2>1, <2>2, <2>3, <2>4, <2>5, <2>6, <2>7 DEF Retry
<1>4. ASSUME NEW s \in Sockets, Drop(s), UNCHANGED <<active, codes, child, tasks>>
      PROVE  TaskTypes'
  BY <1>4 DEF Drop, TaskTypes
<1>5. CASE Stop
  BY <1>5 DEF Stop, TaskTypes
<1>6. CASE Stopped
  BY <1>6 DEF Stopped, TaskTypes
<1>7. ASSUME NEW new \in SUBSET Codes, UpdateStockCodes(new) PROVE TaskTypes'
  BY <1>7 DEF UpdateStockCodes, Adds, Removes, clientVars, TaskTypes
<1>8. CASE TellBroker
  BY <1>8 DEF TellBroker, TaskTypes
<1>9. CASE UNCHANGED vars
  BY <1>9 DEF vars, clientVars, SocketTypes, TaskTypes
<1> QED
  BY <1>1, <1>2, <1>3, <1>4, <1>5, <1>6, <1>7, <1>8, <1>9 DEF Next

\* Where the tasks stand; a cancelled task is a receiver.
LEMMA PcTypesStep ==
    ASSUME PcTypes, TaskTypes, [Next]_vars
    PROVE  PcTypes'
<1>1. ASSUME NEW r \in Receivers, Receive(r) PROVE PcTypes'
  <2>u. UNCHANGED <<active, codes, child, tasks>>
    BY <1>1 DEF Receive
  <2>1. CASE Enter(r)
    BY <2>1, <2>u, TasksDiffer
       DEF Enter, At, Busy, IsConnected, PcTypes, TaskTypes, Places
  <2>2. CASE SocketEnds(r)
    BY <2>2, <2>u, TasksDiffer DEF SocketEnds, At, PcTypes, TaskTypes, Places
  <2>3. CASE ReadLogin(r)
    BY <2>3, <2>u DEF ReadLogin, PcTypes
  <2>4. CASE Refreshed(r)
    BY <2>4, <2>u, TasksDiffer
       DEF Refreshed, At, StartConnect, WaitForAuth, IsConnected, Busy, PcTypes,
           TaskTypes, Places
  <2>5. CASE Reconnected(r)
    BY <2>5, <2>u, TasksDiffer DEF Reconnected, Connect, At, PcTypes, TaskTypes, Places
  <2>6. CASE ReconnectFails(r)
    BY <2>6, <2>u, TasksDiffer
       DEF ReconnectFails, AuthFails, At, PcTypes, TaskTypes, Places
  <2>7. CASE LoggedIn(r)
    BY <2>7, <2>u, TasksDiffer DEF LoggedIn, AuthWorks, At, PcTypes, TaskTypes, Places
  <2>8. CASE Restore(r)
    BY <2>8, <2>u, TasksDiffer
       DEF Restore, At, Subscribe, IsConnected, PcTypes, TaskTypes, Places
  <2> QED
    BY <1>1, <2>1, <2>2, <2>3, <2>4, <2>5, <2>6, <2>7, <2>8 DEF Receive, ReceiverStep
<1>2. CASE Run
  <2>1. CASE RunAsks
    BY <2>1, TasksDiffer
       DEF RunAsks, AskConnect, StartConnect, WaitForAuth, StartChild, At, IsConnected,
           Flags, Broker, Rest, PcTypes, TaskTypes, Places
  <2>2. CASE RunEnds
    BY <2>2, TasksDiffer
       DEF RunEnds, At, Flags, Broker, Rest, PcTypes, TaskTypes, Places
  <2>3. CASE Connected(main)
    BY <2>3, TasksDiffer
       DEF Connected, Connect, StartChild, Rest, PcTypes, TaskTypes, Places
  <2>4. CASE RunConnectFails
    BY <2>4, TasksDiffer
       DEF RunConnectFails, AfterError, Flags, Broker, Rest, PcTypes, TaskTypes, Places
  <2>5. CASE RunAuthFails
    <3>1. child[main] \in Tasks => child[main] \in Receivers
      BY TasksDiffer DEF TaskTypes
    <3>2. \A t \in Tasks : t /= main /\ t /= retry /\ t /= child[main] => pc'[t] = pc[t]
      BY <2>5 DEF RunAuthFails, PcTypes
    <3>3. pc' \in [Tasks -> Places]
      BY <2>5 DEF RunAuthFails, AfterError, PcTypes, Places
    <3>4. \A r \in Receivers : pc'[r] = pc[r] \/ pc'[r] = "off"
      BY <2>5, TasksDiffer DEF RunAuthFails, PcTypes
    <3>5. pc'[main] \in {"fallback", "ended"}
      BY <2>5, <3>1, TasksDiffer DEF RunAuthFails, AfterError, PcTypes
    <3>6. pc'[retry] \in {pc[retry], "wait"}
      BY <2>5, <3>1, TasksDiffer DEF RunAuthFails, AfterError, PcTypes
    <3>7. pc'[stopper] = pc[stopper]
      BY <2>5, <3>1, <3>2, TasksDiffer
    <3> QED
      BY <3>3, <3>4, <3>5, <3>6, <3>7 DEF PcTypes
  <2>6. CASE RunSubscribes
    BY <2>6, TasksDiffer
       DEF RunSubscribes, AuthWorks, Subscribe, At, AfterError, IsConnected, Flags,
           Broker, Rest, PcTypes, TaskTypes, Places
  <2>7. CASE RunAwaited
    BY <2>7, TasksDiffer
       DEF RunAwaited, At, Flags, Broker, Rest, PcTypes, TaskTypes, Places
  <2>8. CASE FallbackEnds
    BY <2>8, TasksDiffer
       DEF FallbackEnds, Flags, Broker, Rest, PcTypes, TaskTypes, Places
  <2> QED
    BY <1>2, <2>1, <2>2, <2>3, <2>4, <2>5, <2>6, <2>7, <2>8 DEF Run
<1>3. CASE Retry
  <2>1. CASE RetryAsks
    BY <2>1, TasksDiffer
       DEF RetryAsks, AskConnect, StartConnect, WaitForAuth, StartChild, At,
           IsConnected, Flags, Broker, Rest, PcTypes, TaskTypes, Places
  <2>2. CASE RetryNotNeeded
    BY <2>2, TasksDiffer
       DEF RetryNotNeeded, At, Flags, Broker, Rest, PcTypes, TaskTypes, Places
  <2>3. CASE Connected(retry)
    BY <2>3, TasksDiffer
       DEF Connected, Connect, StartChild, Rest, PcTypes, TaskTypes, Places
  <2>4. CASE RetryConnectFails
    BY <2>4, TasksDiffer
       DEF RetryConnectFails, At, Flags, Broker, Rest, PcTypes, TaskTypes, Places
  <2>5. CASE RetryWorks
    BY <2>5, TasksDiffer
       DEF RetryWorks, AuthWorks, At, Flags, Broker, Rest, PcTypes, TaskTypes, Places
  <2>6. CASE RetryAuthFails
    <3>1. child[retry] \in Tasks => child[retry] \in Receivers
      BY TasksDiffer DEF TaskTypes
    <3>2. pc' \in [Tasks -> Places]
      BY <2>6 DEF RetryAuthFails, GoesAfterCancel, PcTypes, Places
    <3>3. \A r \in Receivers : pc'[r] = pc[r] \/ pc'[r] = "off"
      BY <2>6, TasksDiffer DEF RetryAuthFails, GoesAfterCancel
    <3>4. pc'[main] = pc[main] /\ pc'[retry] = "closing" /\ pc'[stopper] = pc[stopper]
      BY <2>6, <3>1, TasksDiffer DEF RetryAuthFails, GoesAfterCancel
    <3> QED
      BY <3>2, <3>3, <3>4 DEF PcTypes
  <2>7. CASE RetryDisconnected
    BY <2>7, TasksDiffer
       DEF RetryDisconnected, EndDisconnect, At, Flags, Broker, Rest, PcTypes,
           TaskTypes, Places
  <2> QED
    BY <1>3, <2>1, <2>2, <2>3, <2>4, <2>5, <2>6, <2>7 DEF Retry
<1>4. ASSUME NEW s \in Sockets, Drop(s), UNCHANGED <<active, codes, child, tasks>>
      PROVE  PcTypes'
  BY <1>4 DEF Drop, PcTypes
<1>5. CASE Stop
  BY <1>5, TasksDiffer DEF Stop, BeginDisconnect, At, PcTypes, TaskTypes, Places
<1>6. CASE Stopped
  BY <1>6, TasksDiffer
     DEF Stopped, EndDisconnect, At, Flags, Broker, Rest, PcTypes, TaskTypes, Places
<1>7. ASSUME NEW new \in SUBSET Codes, UpdateStockCodes(new) PROVE PcTypes'
  BY <1>7 DEF UpdateStockCodes, Adds, Removes, clientVars, PcTypes
<1>8. CASE TellBroker
  BY <1>8 DEF TellBroker, PcTypes
<1>9. CASE UNCHANGED vars
  BY <1>9 DEF vars, clientVars, PcTypes, TaskTypes, Places
<1> QED
  BY <1>1, <1>2, <1>3, <1>4, <1>5, <1>6, <1>7, <1>8, <1>9 DEF Next

\* Types are kept by every step.
LEMMA TypeStep ==
    ASSUME TypeOK, Numbered, [Next]_vars
    PROVE  TypeOK'
<1>1. FlagTypes' /\ SocketTypes' /\ ItemTypes' /\ TaskTypes' /\ PcTypes'
  BY TypeParts, FlagTypesStep, SocketTypesStep, ItemTypesStep, TaskTypesStep, PcTypesStep
<1> QED
  BY <1>1 DEF TypeOK, ClientTypeOK, FlagTypes, SocketTypes, ItemTypes, TaskTypes, PcTypes

-----------------------------------------------------------------------------
(* The parts of the invariant.                                               *)

\* A new socket has the next number, and only the last one's event is waited for.
LEMMA NumberedStep ==
    ASSUME SocketTypes, TaskTypes, Numbered, [Next]_vars
    PROVE  Numbered'
<1>1. ASSUME NEW r \in Receivers, Receive(r) PROVE Numbered'
  <2>u. UNCHANGED <<active, codes, child, tasks>>
    BY <1>1 DEF Receive
  <2>1. CASE Enter(r)
    <3>1. \A q \in Receivers : reads'[q] \in {reads[q], ws}
      BY <2>1, <2>u DEF Enter, TaskTypes
    <3>2. IsConnected => ws <= made
      BY DEF IsConnected, SocketTypes
    <3>3. \A q \in Receivers : reads'[q] <= made
      BY <2>1, <2>u, <3>1, <3>2 DEF Enter, TaskTypes, Numbered
    <3> QED
      BY <2>1, <2>u, <3>3 DEF Enter, Numbered, Sockets
  <2>2. CASE SocketEnds(r)
    BY <2>2, <2>u DEF SocketEnds, At, SocketTypes, TaskTypes, Numbered, Sockets
  <2>3. CASE ReadLogin(r)
    BY <2>3, <2>u DEF ReadLogin, Numbered
  <2>4. CASE Refreshed(r)
    BY <2>4, <2>u
       DEF Refreshed, At, StartConnect, WaitForAuth, IsConnected, Busy, SocketTypes,
           TaskTypes, Numbered, Sockets
  <2>5. CASE Reconnected(r)
    BY <2>5, <2>u
       DEF Reconnected, Connect, At, SocketTypes, TaskTypes, Numbered, Sockets
  <2>6. CASE ReconnectFails(r)
    BY <2>6, <2>u
       DEF ReconnectFails, AuthFails, At, SocketTypes, TaskTypes, Numbered, Sockets
  <2>7. CASE LoggedIn(r)
    BY <2>7, <2>u DEF LoggedIn, Numbered
  <2>8. CASE Restore(r)
    BY <2>8, <2>u
       DEF Restore, At, Subscribe, IsConnected, SocketTypes, TaskTypes, Numbered,
           Sockets
  <2> QED
    BY <1>1, <2>1, <2>2, <2>3, <2>4, <2>5, <2>6, <2>7, <2>8 DEF Receive, ReceiverStep
<1>2. CASE Run
  <2>1. CASE RunAsks
    BY <2>1
       DEF RunAsks, AskConnect, StartConnect, WaitForAuth, StartChild, At, IsConnected,
           Flags, Broker, Rest, SocketTypes, TaskTypes, Numbered, Sockets
  <2>2. CASE RunEnds
    BY <2>2 DEF RunEnds, Flags, Broker, Rest, Numbered
  <2>3. CASE Connected(main)
    BY <2>3
       DEF Connected, Connect, StartChild, Rest, SocketTypes, TaskTypes, Numbered,
           Sockets
  <2>4. CASE RunConnectFails
    BY <2>4 DEF RunConnectFails, Flags, Broker, Rest, Numbered
  <2>5. CASE RunAuthFails
    BY <2>5
       DEF RunAuthFails, AuthFails, AfterError, Flags, Broker, Rest, SocketTypes,
           TaskTypes, Numbered, Sockets
  <2>6. CASE RunSubscribes
    BY <2>6 DEF RunSubscribes, Flags, Broker, Rest, Numbered
  <2>7. CASE RunAwaited
    BY <2>7 DEF RunAwaited, Flags, Broker, Rest, Numbered
  <2>8. CASE FallbackEnds
    BY <2>8 DEF FallbackEnds, Flags, Broker, Rest, Numbered
  <2> QED
    BY <1>2, <2>1, <2>2, <2>3, <2>4, <2>5, <2>6, <2>7, <2>8 DEF Run
<1>3. CASE Retry
  <2>1. CASE RetryAsks
    BY <2>1
       DEF RetryAsks, AskConnect, StartConnect, WaitForAuth, StartChild, At,
           IsConnected, Flags, Broker, Rest, SocketTypes, TaskTypes, Numbered, Sockets
  <2>2. CASE RetryNotNeeded
    BY <2>2 DEF RetryNotNeeded, Flags, Broker, Rest, Numbered
  <2>3. CASE Connected(retry)
    BY <2>3
       DEF Connected, Connect, StartChild, Rest, SocketTypes, TaskTypes, Numbered,
           Sockets
  <2>4. CASE RetryConnectFails
    BY <2>4 DEF RetryConnectFails, Flags, Broker, Rest, Numbered
  <2>5. CASE RetryWorks
    BY <2>5 DEF RetryWorks, Flags, Broker, Rest, Numbered
  <2>6. CASE RetryAuthFails
    BY <2>6
       DEF RetryAuthFails, AuthFails, GoesAfterCancel, BeginDisconnect, Rest,
           SocketTypes, TaskTypes, Numbered, Sockets
  <2>7. CASE RetryDisconnected
    BY <2>7 DEF RetryDisconnected, Flags, Broker, Rest, Numbered
  <2> QED
    BY <1>3, <2>1, <2>2, <2>3, <2>4, <2>5, <2>6, <2>7 DEF Retry
<1>4. ASSUME NEW s \in Sockets, Drop(s), UNCHANGED <<active, codes, child, tasks>>
      PROVE  Numbered'
  BY <1>4 DEF Drop, Numbered
<1>5. CASE Stop
  BY <1>5 DEF Stop, Numbered
<1>6. CASE Stopped
  BY <1>6 DEF Stopped, Flags, Broker, Rest, Numbered
<1>7. ASSUME NEW new \in SUBSET Codes, UpdateStockCodes(new) PROVE Numbered'
  BY <1>7 DEF UpdateStockCodes, Adds, Removes, clientVars, Numbered
<1>8. CASE TellBroker
  BY <1>8 DEF TellBroker, Flags, Broker, Numbered
<1>9. CASE UNCHANGED vars
  BY <1>9 DEF vars, clientVars, SocketTypes, TaskTypes, Numbered, Sockets
<1> QED
  BY <1>1, <1>2, <1>3, <1>4, <1>5, <1>6, <1>7, <1>8, <1>9 DEF Next

\* A receiver starts to read a new socket, or one that nobody reads.
LEMMA OneReaderStep ==
    ASSUME SocketTypes, TaskTypes, Numbered, OneReader, [Next]_vars
    PROVE  OneReader'
<1>1. ASSUME NEW r \in Receivers, Receive(r) PROVE OneReader'
  <2>u. UNCHANGED <<active, codes, child, tasks>>
    BY <1>1 DEF Receive
  <2>1. CASE Enter(r)
    BY <2>1, <2>u
       DEF Enter, At, Busy, IsConnected, SocketTypes, TaskTypes, Numbered, OneReader
  <2>2. CASE SocketEnds(r)
    BY <2>2, <2>u DEF SocketEnds, OneReader
  <2>3. CASE ReadLogin(r)
    BY <2>3, <2>u DEF ReadLogin, OneReader
  <2>4. CASE Refreshed(r)
    BY <2>4, <2>u
       DEF Refreshed, At, StartConnect, WaitForAuth, IsConnected, Busy, SocketTypes,
           TaskTypes, Numbered, OneReader
  <2>5. CASE Reconnected(r)
    BY <2>5, <2>u
       DEF Reconnected, Connect, At, SocketTypes, TaskTypes, Numbered, OneReader
  <2>6. CASE ReconnectFails(r)
    BY <2>6, <2>u DEF ReconnectFails, OneReader
  <2>7. CASE LoggedIn(r)
    BY <2>7, <2>u DEF LoggedIn, OneReader
  <2>8. CASE Restore(r)
    BY <2>8, <2>u DEF Restore, OneReader
  <2> QED
    BY <1>1, <2>1, <2>2, <2>3, <2>4, <2>5, <2>6, <2>7, <2>8 DEF Receive, ReceiverStep
<1>2. CASE Run
  <2>1. CASE RunAsks
    BY <2>1
       DEF RunAsks, AskConnect, StartConnect, WaitForAuth, StartChild, At, IsConnected,
           Flags, Broker, Rest, SocketTypes, TaskTypes, Numbered, OneReader
  <2>2. CASE RunEnds
    BY <2>2 DEF RunEnds, OneReader
  <2>3. CASE Connected(main)
    BY <2>3 DEF Connected, OneReader
  <2>4. CASE RunConnectFails
    BY <2>4 DEF RunConnectFails, OneReader
  <2>5. CASE RunAuthFails
    BY <2>5 DEF RunAuthFails, OneReader
  <2>6. CASE RunSubscribes
    BY <2>6 DEF RunSubscribes, OneReader
  <2>7. CASE RunAwaited
    BY <2>7 DEF RunAwaited, OneReader
  <2>8. CASE FallbackEnds
    BY <2>8 DEF FallbackEnds, OneReader
  <2> QED
    BY <1>2, <2>1, <2>2, <2>3, <2>4, <2>5, <2>6, <2>7, <2>8 DEF Run
<1>3. CASE Retry
  <2>1. CASE RetryAsks
    BY <2>1
       DEF RetryAsks, AskConnect, StartConnect, WaitForAuth, StartChild, At,
           IsConnected, Flags, Broker, Rest, SocketTypes, TaskTypes, Numbered, OneReader
  <2>2. CASE RetryNotNeeded
    BY <2>2 DEF RetryNotNeeded, OneReader
  <2>3. CASE Connected(retry)
    BY <2>3 DEF Connected, OneReader
  <2>4. CASE RetryConnectFails
    BY <2>4 DEF RetryConnectFails, OneReader
  <2>5. CASE RetryWorks
    BY <2>5 DEF RetryWorks, OneReader
  <2>6. CASE RetryAuthFails
    BY <2>6
       DEF RetryAuthFails, AuthFails, GoesAfterCancel, BeginDisconnect, Rest,
           SocketTypes, TaskTypes, Numbered, OneReader
  <2>7. CASE RetryDisconnected
    BY <2>7 DEF RetryDisconnected, OneReader
  <2> QED
    BY <1>3, <2>1, <2>2, <2>3, <2>4, <2>5, <2>6, <2>7 DEF Retry
<1>4. ASSUME NEW s \in Sockets, Drop(s), UNCHANGED <<active, codes, child, tasks>>
      PROVE  OneReader'
  BY <1>4 DEF Drop, OneReader
<1>5. CASE Stop
  BY <1>5 DEF Stop, OneReader
<1>6. CASE Stopped
  BY <1>6 DEF Stopped, OneReader
<1>7. ASSUME NEW new \in SUBSET Codes, UpdateStockCodes(new) PROVE OneReader'
  BY <1>7 DEF UpdateStockCodes, Adds, Removes, clientVars, OneReader
<1>8. CASE TellBroker
  BY <1>8 DEF TellBroker, OneReader
<1>9. CASE UNCHANGED vars
  BY <1>9 DEF vars, clientVars, SocketTypes, TaskTypes, Numbered, OneReader
<1> QED
  BY <1>1, <1>2, <1>3, <1>4, <1>5, <1>6, <1>7, <1>8, <1>9 DEF Next

\* Who starts to wait has just started its task, and forgets it when it stops.
LEMMA HasChildStep ==
    ASSUME TaskTypes, PcTypes, HasChild, [Next]_vars
    PROVE  HasChild'
<1>1. ASSUME NEW r \in Receivers, Receive(r) PROVE HasChild'
  <2>u. UNCHANGED <<active, codes, child, tasks>>
    BY <1>1 DEF Receive
  <2>1. CASE Enter(r)
    BY <2>1, <2>u, TasksDiffer
       DEF Enter, At, Busy, IsConnected, TaskTypes, PcTypes, HasChild
  <2>2. CASE SocketEnds(r)
    BY <2>2, <2>u, TasksDiffer DEF SocketEnds, At, TaskTypes, PcTypes, HasChild
  <2>3. CASE ReadLogin(r)
    BY <2>3, <2>u DEF ReadLogin, HasChild
  <2>4. CASE Refreshed(r)
    BY <2>4, <2>u
       DEF Refreshed, At, StartConnect, WaitForAuth, IsConnected, Busy, TaskTypes,
           PcTypes, HasChild
  <2>5. CASE Reconnected(r)
    BY <2>5, <2>u, TasksDiffer DEF Reconnected, Connect, At, HasChild
  <2>6. CASE ReconnectFails(r)
    BY <2>6, <2>u DEF ReconnectFails, AuthFails, At, TaskTypes, PcTypes, HasChild
  <2>7. CASE LoggedIn(r)
    BY <2>7, <2>u DEF LoggedIn, AuthWorks, At, TaskTypes, PcTypes, HasChild
  <2>8. CASE Restore(r)
    BY <2>8, <2>u DEF Restore, At, Subscribe, IsConnected, TaskTypes, PcTypes, HasChild
  <2> QED
    BY <1>1, <2>1, <2>2, <2>3, <2>4, <2>5, <2>6, <2>7, <2>8 DEF Receive, ReceiverStep
<1>2. CASE Run
  <2>1. CASE RunAsks
    BY <2>1, TasksDiffer
       DEF RunAsks, AskConnect, StartConnect, WaitForAuth, StartChild, At, IsConnected,
           Flags, Broker, Rest, TaskTypes, PcTypes, HasChild
  <2>2. CASE RunEnds
    BY <2>2 DEF RunEnds, At, Flags, Broker, Rest, TaskTypes, PcTypes, HasChild
  <2>3. CASE Connected(main)
    BY <2>3, TasksDiffer
       DEF Connected, Connect, StartChild, Rest, TaskTypes, PcTypes, HasChild
  <2>4. CASE RunConnectFails
    BY <2>4, TasksDiffer
       DEF RunConnectFails, AfterError, Flags, Broker, Rest, TaskTypes, PcTypes,
           HasChild
  <2>5. CASE RunAuthFails
    BY <2>5, TasksDiffer
       DEF RunAuthFails, AuthFails, AfterError, Flags, Broker, Rest, TaskTypes, PcTypes,
           HasChild
  <2>6. CASE RunSubscribes
    BY <2>6, TasksDiffer
       DEF RunSubscribes, AuthWorks, Subscribe, At, AfterError, IsConnected, Flags,
           Broker, Rest, TaskTypes, PcTypes, HasChild
  <2>7. CASE RunAwaited
    BY <2>7, TasksDiffer
       DEF RunAwaited, At, Flags, Broker, Rest, TaskTypes, PcTypes, HasChild
  <2>8. CASE FallbackEnds
    BY <2>8, TasksDiffer
       DEF FallbackEnds, Flags, Broker, Rest, TaskTypes, PcTypes, HasChild
  <2> QED
    BY <1>2, <2>1, <2>2, <2>3, <2>4, <2>5, <2>6, <2>7, <2>8 DEF Run
<1>3. CASE Retry
  <2>1. CASE RetryAsks
    BY <2>1, TasksDiffer
       DEF RetryAsks, AskConnect, StartConnect, WaitForAuth, StartChild, At,
           IsConnected, Flags, Broker, Rest, TaskTypes, PcTypes, HasChild
  <2>2. CASE RetryNotNeeded
    BY <2>2 DEF RetryNotNeeded, At, Flags, Broker, Rest, TaskTypes, PcTypes, HasChild
  <2>3. CASE Connected(retry)
    BY <2>3, TasksDiffer
       DEF Connected, Connect, StartChild, Rest, TaskTypes, PcTypes, HasChild
  <2>4. CASE RetryConnectFails
    BY <2>4 DEF RetryConnectFails, At, Flags, Broker, Rest, TaskTypes, PcTypes, HasChild
  <2>5. CASE RetryWorks
    BY <2>5, TasksDiffer
       DEF RetryWorks, AuthWorks, At, Flags, Broker, Rest, TaskTypes, PcTypes, HasChild
  <2>6. CASE RetryAuthFails
    BY <2>6, TasksDiffer
       DEF RetryAuthFails, AuthFails, GoesAfterCancel, BeginDisconnect, Rest, HasChild
  <2>7. CASE RetryDisconnected
    BY <2>7
       DEF RetryDisconnected, EndDisconnect, At, Flags, Broker, Rest, TaskTypes,
           PcTypes, HasChild
  <2> QED
    BY <1>3, <2>1, <2>2, <2>3, <2>4, <2>5, <2>6, <2>7 DEF Retry
<1>4. ASSUME NEW s \in Sockets, Drop(s), UNCHANGED <<active, codes, child, tasks>>
      PROVE  HasChild'
  BY <1>4 DEF Drop, HasChild
<1>5. CASE Stop
  BY <1>5 DEF Stop, BeginDisconnect, At, TaskTypes, PcTypes, HasChild
<1>6. CASE Stopped
  BY <1>6
     DEF Stopped, EndDisconnect, At, Flags, Broker, Rest, TaskTypes, PcTypes, HasChild
<1>7. ASSUME NEW new \in SUBSET Codes, UpdateStockCodes(new) PROVE HasChild'
  BY <1>7 DEF UpdateStockCodes, Adds, Removes, clientVars, HasChild
<1>8. CASE TellBroker
  BY <1>8 DEF TellBroker, HasChild
<1>9. CASE UNCHANGED vars
  BY <1>9 DEF vars, clientVars, TaskTypes, PcTypes, HasChild
<1> QED
  BY <1>1, <1>2, <1>3, <1>4, <1>5, <1>6, <1>7, <1>8, <1>9 DEF Next

\* run starts the second task as it enters the fallback and ends it as it leaves.
LEMMA RetryInFallbackStep ==
    ASSUME PcTypes, TaskTypes, RetryInFallback, [Next]_vars
    PROVE  RetryInFallback'
<1>1. ASSUME NEW r \in Receivers, Receive(r) PROVE RetryInFallback'
  <2>u. UNCHANGED <<active, codes, child, tasks>>
    BY <1>1 DEF Receive
  <2>1. CASE Enter(r)
    BY <2>1, <2>u, TasksDiffer
       DEF Enter, At, Busy, IsConnected, PcTypes, RetryInFallback
  <2>2. CASE SocketEnds(r)
    BY <2>2, <2>u, TasksDiffer DEF SocketEnds, At, PcTypes, RetryInFallback
  <2>3. CASE ReadLogin(r)
    BY <2>3, <2>u DEF ReadLogin, RetryInFallback
  <2>4. CASE Refreshed(r)
    BY <2>4, <2>u
       DEF Refreshed, At, StartConnect, WaitForAuth, IsConnected, Busy, PcTypes,
           RetryInFallback
  <2>5. CASE Reconnected(r)
    BY <2>5, <2>u DEF Reconnected, Connect, At, PcTypes, RetryInFallback
  <2>6. CASE ReconnectFails(r)
    BY <2>6, <2>u DEF ReconnectFails, AuthFails, At, PcTypes, RetryInFallback
  <2>7. CASE LoggedIn(r)
    BY <2>7, <2>u DEF LoggedIn, AuthWorks, At, PcTypes, RetryInFallback
  <2>8. CASE Restore(r)
    BY <2>8, <2>u DEF Restore, At, Subscribe, IsConnected, PcTypes, RetryInFallback
  <2> QED
    BY <1>1, <2>1, <2>2, <2>3, <2>4, <2>5, <2>6, <2>7, <2>8 DEF Receive, ReceiverStep
<1>2. CASE Run
  <2>1. CASE RunAsks
    BY <2>1, TasksDiffer
       DEF RunAsks, AskConnect, StartConnect, WaitForAuth, StartChild, At, IsConnected,
           Flags, Broker, Rest, PcTypes, RetryInFallback
  <2>2. CASE RunEnds
    BY <2>2 DEF RunEnds, At, Flags, Broker, Rest, PcTypes, RetryInFallback
  <2>3. CASE Connected(main)
    BY <2>3, TasksDiffer
       DEF Connected, Connect, StartChild, Rest, PcTypes, RetryInFallback
  <2>4. CASE RunConnectFails
    BY <2>4, TasksDiffer
       DEF RunConnectFails, AfterError, Flags, Broker, Rest, PcTypes, RetryInFallback
  <2>5. CASE RunAuthFails
    BY <2>5, TasksDiffer
       DEF RunAuthFails, AuthFails, AfterError, Flags, Broker, Rest, PcTypes,
           RetryInFallback
  <2>6. CASE RunSubscribes
    BY <2>6, TasksDiffer
       DEF RunSubscribes, AuthWorks, Subscribe, At, AfterError, IsConnected, Flags,
           Broker, Rest, PcTypes, RetryInFallback
  <2>7. CASE RunAwaited
    BY <2>7 DEF RunAwaited, At, Flags, Broker, Rest, PcTypes, RetryInFallback
  <2>8. CASE FallbackEnds
    BY <2>8, TasksDiffer DEF FallbackEnds, Flags, Broker, Rest, PcTypes, RetryInFallback
  <2> QED
    BY <1>2, <2>1, <2>2, <2>3, <2>4, <2>5, <2>6, <2>7, <2>8 DEF Run
<1>3. CASE Retry
  <2>1. CASE RetryAsks
    BY <2>1, TasksDiffer
       DEF RetryAsks, AskConnect, StartConnect, WaitForAuth, StartChild, At,
           IsConnected, Flags, Broker, Rest, PcTypes, RetryInFallback
  <2>2. CASE RetryNotNeeded
    BY <2>2 DEF RetryNotNeeded, At, Flags, Broker, Rest, PcTypes, RetryInFallback
  <2>3. CASE Connected(retry)
    BY <2>3, TasksDiffer
       DEF Connected, Connect, StartChild, Rest, PcTypes, RetryInFallback
  <2>4. CASE RetryConnectFails
    BY <2>4 DEF RetryConnectFails, At, Flags, Broker, Rest, PcTypes, RetryInFallback
  <2>5. CASE RetryWorks
    BY <2>5 DEF RetryWorks, AuthWorks, At, Flags, Broker, Rest, PcTypes, RetryInFallback
  <2>6. CASE RetryAuthFails
    <3>1. child[retry] /= main
      BY TasksDiffer DEF TaskTypes
    <3>2. pc[main] = "fallback"
      BY <2>6 DEF RetryAuthFails, AuthFails, RetryInFallback
    <3>3. pc'[main] = pc[main]
      BY <2>6, <3>1, TasksDiffer DEF RetryAuthFails, GoesAfterCancel
    <3> QED
      BY <3>2, <3>3 DEF RetryInFallback
  <2>7. CASE RetryDisconnected
    BY <2>7
       DEF RetryDisconnected, EndDisconnect, At, Flags, Broker, Rest, PcTypes,
           RetryInFallback
  <2> QED
    BY <1>3, <2>1, <2>2, <2>3, <2>4, <2>5, <2>6, <2>7 DEF Retry
<1>4. ASSUME NEW s \in Sockets, Drop(s), UNCHANGED <<active, codes, child, tasks>>
      PROVE  RetryInFallback'
  BY <1>4 DEF Drop, RetryInFallback
<1>5. CASE Stop
  BY <1>5, TasksDiffer DEF Stop, BeginDisconnect, At, RetryInFallback
<1>6. CASE Stopped
  BY <1>6 DEF Stopped, EndDisconnect, At, Flags, Broker, Rest, PcTypes, RetryInFallback
<1>7. ASSUME NEW new \in SUBSET Codes, UpdateStockCodes(new) PROVE RetryInFallback'
  BY <1>7 DEF UpdateStockCodes, Adds, Removes, clientVars, RetryInFallback
<1>8. CASE TellBroker
  BY <1>8 DEF TellBroker, RetryInFallback
<1>9. CASE UNCHANGED vars
  BY <1>9 DEF vars, clientVars, PcTypes, RetryInFallback
<1> QED
  BY <1>1, <1>2, <1>3, <1>4, <1>5, <1>6, <1>7, <1>8, <1>9 DEF Next

\* Order messages are never unsubscribed.
LEMMA ItemsKeptStep ==
    ASSUME PcTypes, ItemTypes, ItemsKept, [Next]_vars
    PROVE  ItemsKept'
<1>1. ASSUME NEW r \in Receivers, Receive(r) PROVE ItemsKept'
  <2>u. UNCHANGED <<active, codes, child, tasks>>
    BY <1>1 DEF Receive
  <2>1. CASE Enter(r)
    BY <2>1, <2>u, TasksDiffer
       DEF Enter, At, Busy, IsConnected, PcTypes, ItemTypes, ItemsKept
  <2>2. CASE SocketEnds(r)
    BY <2>2, <2>u, TasksDiffer DEF SocketEnds, At, PcTypes, ItemTypes, ItemsKept
  <2>3. CASE ReadLogin(r)
    BY <2>3, <2>u DEF ReadLogin, ItemsKept
  <2>4. CASE Refreshed(r)
    BY <2>4, <2>u
       DEF Refreshed, At, StartConnect, WaitForAuth, IsConnected, Busy, PcTypes,
           ItemTypes, ItemsKept
  <2>5. CASE Reconnected(r)
    BY <2>5, <2>u DEF Reconnected, Connect, At, PcTypes, ItemTypes, ItemsKept
  <2>6. CASE ReconnectFails(r)
    BY <2>6, <2>u DEF ReconnectFails, AuthFails, At, PcTypes, ItemTypes, ItemsKept
  <2>7. CASE LoggedIn(r)
    BY <2>7, <2>u DEF LoggedIn, AuthWorks, At, PcTypes, ItemTypes, ItemsKept
  <2>8. CASE Restore(r)
    BY <2>8, <2>u DEF Restore, At, Subscribe, IsConnected, PcTypes, ItemTypes, ItemsKept
  <2> QED
    BY <1>1, <2>1, <2>2, <2>3, <2>4, <2>5, <2>6, <2>7, <2>8 DEF Receive, ReceiverStep
<1>2. CASE Run
  <2>1. CASE RunAsks
    BY <2>1, TasksDiffer
       DEF RunAsks, AskConnect, StartConnect, WaitForAuth, StartChild, At, IsConnected,
           Flags, Broker, Rest, PcTypes, ItemTypes, ItemsKept
  <2>2. CASE RunEnds
    BY <2>2 DEF RunEnds, At, Flags, Broker, Rest, PcTypes, ItemTypes, ItemsKept
  <2>3. CASE Connected(main)
    BY <2>3, TasksDiffer
       DEF Connected, Connect, StartChild, Rest, PcTypes, ItemTypes, ItemsKept
  <2>4. CASE RunConnectFails
    BY <2>4, TasksDiffer
       DEF RunConnectFails, AfterError, Flags, Broker, Rest, PcTypes, ItemTypes,
           ItemsKept
  <2>5. CASE RunAuthFails
    BY <2>5, TasksDiffer
       DEF RunAuthFails, AuthFails, AfterError, Flags, Broker, Rest, PcTypes, ItemTypes,
           ItemsKept
  <2>6. CASE RunSubscribes
    BY <2>6, TasksDiffer
       DEF RunSubscribes, AuthWorks, Subscribe, At, AfterError, IsConnected, Flags,
           Broker, Rest, PcTypes, ItemTypes, ItemsKept
  <2>7. CASE RunAwaited
    BY <2>7 DEF RunAwaited, ItemsKept
  <2>8. CASE FallbackEnds
    BY <2>8, TasksDiffer
       DEF FallbackEnds, Flags, Broker, Rest, PcTypes, ItemTypes, ItemsKept
  <2> QED
    BY <1>2, <2>1, <2>2, <2>3, <2>4, <2>5, <2>6, <2>7, <2>8 DEF Run
<1>3. CASE Retry
  <2>1. CASE RetryAsks
    BY <2>1, TasksDiffer
       DEF RetryAsks, AskConnect, StartConnect, WaitForAuth, StartChild, At,
           IsConnected, Flags, Broker, Rest, PcTypes, ItemTypes, ItemsKept
  <2>2. CASE RetryNotNeeded
    BY <2>2 DEF RetryNotNeeded, At, Flags, Broker, Rest, PcTypes, ItemTypes, ItemsKept
  <2>3. CASE Connected(retry)
    BY <2>3, TasksDiffer
       DEF Connected, Connect, StartChild, Rest, PcTypes, ItemTypes, ItemsKept
  <2>4. CASE RetryConnectFails
    BY <2>4
       DEF RetryConnectFails, At, Flags, Broker, Rest, PcTypes, ItemTypes, ItemsKept
  <2>5. CASE RetryWorks
    BY <2>5
       DEF RetryWorks, AuthWorks, At, Flags, Broker, Rest, PcTypes, ItemTypes, ItemsKept
  <2>6. CASE RetryAuthFails
    BY <2>6, TasksDiffer
       DEF RetryAuthFails, AuthFails, GoesAfterCancel, BeginDisconnect, Rest, ItemsKept
  <2>7. CASE RetryDisconnected
    BY <2>7
       DEF RetryDisconnected, EndDisconnect, At, Flags, Broker, Rest, PcTypes,
           ItemTypes, ItemsKept
  <2> QED
    BY <1>3, <2>1, <2>2, <2>3, <2>4, <2>5, <2>6, <2>7 DEF Retry
<1>4. ASSUME NEW s \in Sockets, Drop(s), UNCHANGED <<active, codes, child, tasks>>
      PROVE  ItemsKept'
  BY <1>4 DEF Drop, ItemsKept
<1>5. CASE Stop
  BY <1>5 DEF Stop, BeginDisconnect, At, PcTypes, ItemTypes, ItemsKept
<1>6. CASE Stopped
  BY <1>6
     DEF Stopped, EndDisconnect, At, Flags, Broker, Rest, PcTypes, ItemTypes, ItemsKept
<1>7. ASSUME NEW new \in SUBSET Codes, UpdateStockCodes(new) PROVE ItemsKept'
  BY <1>7 DEF UpdateStockCodes, Adds, Removes, clientVars, ItemsKept
<1>8. CASE TellBroker
  BY <1>8, TasksDiffer
     DEF TellBroker, Subscribe, Unsubscribe, IsConnected, Flags, Broker, PcTypes,
         ItemTypes, ItemsKept
<1>9. CASE UNCHANGED vars
  BY <1>9 DEF vars, clientVars, PcTypes, ItemTypes, ItemsKept
<1> QED
  BY <1>1, <1>2, <1>3, <1>4, <1>5, <1>6, <1>7, <1>8, <1>9 DEF Next

\* A new session that main awaits comes from _reconnect, which restores it.
LEMMA RestoredStep ==
    ASSUME SocketTypes, ItemTypes, TaskTypes, PcTypes, RetryInFallback, ItemsKept,
           Restored, [Next]_vars
    PROVE  Restored'
<1>1. ASSUME NEW r \in Receivers, Receive(r) PROVE Restored'
  <2>u. UNCHANGED <<active, codes, child, tasks>>
    BY <1>1 DEF Receive
  <2>1. CASE Enter(r)
    BY <2>1, <2>u, TasksDiffer
       DEF Enter, At, Busy, IsConnected, SocketTypes, ItemTypes, TaskTypes, PcTypes,
           RetryInFallback, ItemsKept, Restored
  <2>2. CASE SocketEnds(r)
    BY <2>2, <2>u, TasksDiffer
       DEF SocketEnds, At, SocketTypes, ItemTypes, TaskTypes, PcTypes, RetryInFallback,
           ItemsKept, Restored, IsConnected
  <2>3. CASE ReadLogin(r)
    BY <2>3, <2>u
       DEF ReadLogin, SocketTypes, ItemTypes, TaskTypes, PcTypes, RetryInFallback,
           ItemsKept, Restored, IsConnected
  <2>4. CASE Refreshed(r)
    BY <2>4, <2>u
       DEF Refreshed, At, StartConnect, WaitForAuth, IsConnected, Busy, SocketTypes,
           ItemTypes, TaskTypes, PcTypes, RetryInFallback, ItemsKept, Restored
  <2>5. CASE Reconnected(r)
    BY <2>5, <2>u, TasksDiffer
       DEF Reconnected, Connect, At, SocketTypes, ItemTypes, TaskTypes, PcTypes,
           RetryInFallback, ItemsKept, Restored, IsConnected
  <2>6. CASE ReconnectFails(r)
    BY <2>6, <2>u
       DEF ReconnectFails, AuthFails, At, SocketTypes, ItemTypes, TaskTypes, PcTypes,
           RetryInFallback, ItemsKept, Restored, IsConnected
  <2>7. CASE LoggedIn(r)
    BY <2>7, <2>u
       DEF LoggedIn, AuthWorks, At, SocketTypes, ItemTypes, TaskTypes, PcTypes,
           RetryInFallback, ItemsKept, Restored, IsConnected
  <2>8. CASE Restore(r)
    <3> SUFFICES ASSUME pc'[main] = "await", IsConnected', login'[ws'] /= "refused"
                 PROVE  OrderItem \in registered'[ws']
      BY DEF Restored
    <3>1. IsConnected /\ pc[main] = "await" /\ ws' = ws /\ login' = login
      BY <2>8, <2>u, TasksDiffer DEF Restore, At, IsConnected, PcTypes
    <3>2. ws \in Sockets
      BY <3>1 DEF IsConnected, SocketTypes, Sockets
    <3>3. OrderItem \in items
      BY <3>1 DEF ItemsKept
    <3>4. registered'[ws] = registered[ws] \union items
      BY <2>8, <2>u, <3>1, <3>2 DEF Restore, Subscribe, ItemTypes
    <3> QED
      BY <3>1, <3>3, <3>4
  <2> QED
    BY <1>1, <2>1, <2>2, <2>3, <2>4, <2>5, <2>6, <2>7, <2>8 DEF Receive, ReceiverStep
<1>2. CASE Run
  <2>1. CASE RunAsks
    BY <2>1, TasksDiffer
       DEF RunAsks, AskConnect, StartConnect, WaitForAuth, StartChild, At, IsConnected,
           Flags, Broker, Rest, SocketTypes, ItemTypes, TaskTypes, PcTypes,
           RetryInFallback, ItemsKept, Restored
  <2>2. CASE RunEnds
    BY <2>2
       DEF RunEnds, At, Flags, Broker, Rest, SocketTypes, ItemTypes, TaskTypes, PcTypes,
           RetryInFallback, ItemsKept, Restored, IsConnected
  <2>3. CASE Connected(main)
    BY <2>3, TasksDiffer
       DEF Connected, Connect, StartChild, Rest, SocketTypes, ItemTypes, TaskTypes,
           PcTypes, RetryInFallback, ItemsKept, Restored, IsConnected
  <2>4. CASE RunConnectFails
    BY <2>4
       DEF RunConnectFails, AfterError, Flags, Broker, Rest, SocketTypes, ItemTypes,
           TaskTypes, PcTypes, RetryInFallback, ItemsKept, Restored, IsConnected
  <2>5. CASE RunAuthFails
    BY <2>5, TasksDiffer
       DEF RunAuthFails, AuthFails, AfterError, Flags, Broker, Rest, SocketTypes,
           ItemTypes, TaskTypes, PcTypes, RetryInFallback, ItemsKept, Restored,
           IsConnected
  <2>6. CASE RunSubscribes
    <3>1. CASE IsConnected
      <4>1. ws \in Sockets /\ ws' = ws /\ login' = login
        BY <2>6, <3>1 DEF RunSubscribes, IsConnected, SocketTypes, Sockets, Broker
      <4>2. login[ws] /= "refused" => OrderItem \in registered'[ws]
        BY <2>6, <3>1, <4>1 DEF RunSubscribes, Subscribe, ItemTypes
      <4> QED
        BY <4>1, <4>2 DEF Restored
    <3>2. CASE ~IsConnected
      BY <2>6, <3>2, TasksDiffer DEF RunSubscribes, AfterError, PcTypes, Restored
    <3> QED
      BY <3>1, <3>2
  <2>7. CASE RunAwaited
    BY <2>7
       DEF RunAwaited, At, Flags, Broker, Rest, SocketTypes, ItemTypes, TaskTypes,
           PcTypes, RetryInFallback, ItemsKept, Restored, IsConnected
  <2>8. CASE FallbackEnds
    BY <2>8, TasksDiffer
       DEF FallbackEnds, Flags, Broker, Rest, SocketTypes, ItemTypes, TaskTypes,
           PcTypes, RetryInFallback, ItemsKept, Restored, IsConnected
  <2> QED
    BY <1>2, <2>1, <2>2, <2>3, <2>4, <2>5, <2>6, <2>7, <2>8 DEF Run
<1>3. CASE Retry
  <2>1. CASE RetryAsks
    BY <2>1, TasksDiffer
       DEF RetryAsks, AskConnect, StartConnect, WaitForAuth, StartChild, At,
           IsConnected, Flags, Broker, Rest, SocketTypes, ItemTypes, TaskTypes, PcTypes,
           RetryInFallback, ItemsKept, Restored
  <2>2. CASE RetryNotNeeded
    BY <2>2
       DEF RetryNotNeeded, At, Flags, Broker, Rest, SocketTypes, ItemTypes, TaskTypes,
           PcTypes, RetryInFallback, ItemsKept, Restored, IsConnected
  <2>3. CASE Connected(retry)
    BY <2>3, TasksDiffer
       DEF Connected, Connect, StartChild, Rest, SocketTypes, ItemTypes, TaskTypes,
           PcTypes, RetryInFallback, ItemsKept, Restored, IsConnected
  <2>4. CASE RetryConnectFails
    BY <2>4
       DEF RetryConnectFails, At, Flags, Broker, Rest, SocketTypes, ItemTypes,
           TaskTypes, PcTypes, RetryInFallback, ItemsKept, Restored, IsConnected
  <2>5. CASE RetryWorks
    BY <2>5
       DEF RetryWorks, AuthWorks, At, Flags, Broker, Rest, SocketTypes, ItemTypes,
           TaskTypes, PcTypes, RetryInFallback, ItemsKept, Restored, IsConnected
  <2>6. CASE RetryAuthFails
    BY <2>6
       DEF RetryAuthFails, AuthFails, GoesAfterCancel, BeginDisconnect, Rest,
           SocketTypes, ItemTypes, TaskTypes, PcTypes, RetryInFallback, ItemsKept,
           Restored, IsConnected
  <2>7. CASE RetryDisconnected
    BY <2>7
       DEF RetryDisconnected, EndDisconnect, At, Flags, Broker, Rest, SocketTypes,
           ItemTypes, TaskTypes, PcTypes, RetryInFallback, ItemsKept, Restored,
           IsConnected
  <2> QED
    BY <1>3, <2>1, <2>2, <2>3, <2>4, <2>5, <2>6, <2>7 DEF Retry
<1>4. ASSUME NEW s \in Sockets, Drop(s), UNCHANGED <<active, codes, child, tasks>>
      PROVE  Restored'
  BY <1>4
     DEF Drop, SocketTypes, ItemTypes, TaskTypes, PcTypes, RetryInFallback, ItemsKept,
         Restored, IsConnected
<1>5. CASE Stop
  BY <1>5
     DEF Stop, BeginDisconnect, At, SocketTypes, ItemTypes, TaskTypes, PcTypes,
         RetryInFallback, ItemsKept, Restored, IsConnected
<1>6. CASE Stopped
  BY <1>6
     DEF Stopped, EndDisconnect, At, Flags, Broker, Rest, SocketTypes, ItemTypes,
         TaskTypes, PcTypes, RetryInFallback, ItemsKept, Restored, IsConnected
<1>7. ASSUME NEW new \in SUBSET Codes, UpdateStockCodes(new) PROVE Restored'
  BY <1>7
     DEF UpdateStockCodes, Adds, Removes, clientVars, SocketTypes, ItemTypes, TaskTypes,
         PcTypes, RetryInFallback, ItemsKept, Restored, IsConnected
<1>8. CASE TellBroker
  BY <1>8, TasksDiffer
     DEF TellBroker, Subscribe, Unsubscribe, IsConnected, Flags, Broker, SocketTypes,
         ItemTypes, TaskTypes, PcTypes, RetryInFallback, ItemsKept, Restored
<1>9. CASE UNCHANGED vars
  BY <1>9
     DEF vars, clientVars, SocketTypes, ItemTypes, TaskTypes, PcTypes, RetryInFallback,
         ItemsKept, Restored, IsConnected
<1> QED
  BY <1>1, <1>2, <1>3, <1>4, <1>5, <1>6, <1>7, <1>8, <1>9 DEF Next

-----------------------------------------------------------------------------
(* The theorems.                                                             *)

\* The session starts without a connection.
LEMMA SessionInit == Init => SessionInv
<1> SUFFICES ASSUME Init PROVE SessionInv
  OBVIOUS
<1>1. FlagTypes /\ SocketTypes
  <2>1. ws = 0 /\ event = 0 /\ made = 0 /\ 0 \in 0 .. MaxSockets
    BY TasksDiffer DEF Init
  <2>2. set = {} /\ open = {} /\ login \in [Sockets -> {"none", "ok", "refused", "read"}]
    BY DEF Init
  <2> QED
    BY <2>1, <2>2 DEF Init, FlagTypes, SocketTypes
<1>2. ItemTypes
  BY TasksDiffer DEF Init, ItemTypes
<1>3. TaskTypes
  BY TasksDiffer DEF Init, TaskTypes
<1>4. PcTypes
  BY TasksDiffer DEF Init, PcTypes, Places
<1>5. Numbered /\ OneReader /\ HasChild
  BY TasksDiffer DEF Init, Numbered, OneReader, HasChild, Tasks, Sockets
<1>6. RetryInFallback /\ ItemsKept /\ Restored
  BY TasksDiffer DEF Init, RetryInFallback, ItemsKept, Restored
<1> QED
  BY <1>1, <1>2, <1>3, <1>4, <1>5, <1>6, TypeParts DEF SessionInv

\* The invariant holds of every reachable state.
LEMMA SessionInvariant == Spec => []SessionInv
<1>1. SessionInv /\ [Next]_vars => SessionInv'
  <2> SUFFICES ASSUME SessionInv, [Next]_vars PROVE SessionInv'
    OBVIOUS
  <2>1. /\ TypeOK /\ Numbered /\ OneReader /\ HasChild /\ RetryInFallback
        /\ ItemsKept /\ Restored
        /\ SocketTypes /\ ItemTypes /\ TaskTypes /\ PcTypes
    BY TypeParts DEF SessionInv
  <2>2. TypeOK'
    BY <2>1, TypeStep
  <2>3. Numbered' /\ OneReader'
    BY <2>1, NumberedStep, OneReaderStep
  <2>4. HasChild' /\ RetryInFallback' /\ ItemsKept'
    BY <2>1, HasChildStep, RetryInFallbackStep, ItemsKeptStep
  <2>5. Restored'
    BY <2>1, RestoredStep
  <2> QED
    BY <2>2, <2>3, <2>4, <2>5 DEF SessionInv
<1> QED
  BY SessionInit, <1>1, PTL DEF Spec

\* Every variable of the session keeps its type, and every task stands at a place
\* that its code has.
THEOREM SessionTypeCorrect == Spec => []TypeOK
<1>1. SessionInv => TypeOK
  BY DEF SessionInv
<1> QED
  BY <1>1, SessionInvariant, PTL

\* A quiet session receives the messages about orders and balances: run and
\* _restore_subscriptions leave no session that is let in without them.
THEOREM SessionKeepsOrders == Spec => []OrdersStaySubscribed
<1>1. SessionInv => OrdersStaySubscribed
  <2> SUFFICES ASSUME SessionInv, Quiet PROVE OrderItem \in registered[ws]
    BY DEF OrdersStaySubscribed
  <2>1. ws /= 0
    BY DEF SessionInv, TypeOK, ClientTypeOK, Quiet, IsConnected
  <2>2. child[main] \in Receivers
    BY DEF SessionInv, HasChild, Quiet
  <2>3. \A r \in Receivers : reads[r] = ws => r = child[main]
    BY <2>1, <2>2 DEF SessionInv, OneReader, Quiet
  <2>4. ~ \E r \in Receivers : reads[r] = ws /\ pc[r] \in {"auth", "restore"}
    BY <2>3 DEF Quiet
  <2> QED
    BY <2>4 DEF SessionInv, Restored, Quiet
<1> QED
  BY <1>1, SessionInvariant, PTL
=============================================================================
