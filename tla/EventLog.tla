------------------------------ MODULE EventLog ------------------------------
(* The event bus, the event store and the analyses of events/, for the events *)
(* of one order and one position. The store's connection (aiosqlite) runs its *)
(* requests one by one in the order they were made, so publications overlap   *)
(* between an insert and its commit.                                          *)
EXTENDS Integers, Sequences, SequencesExt, FiniteSetsExt

CONSTANTS
    Published,          \* the types of the events that are published here
    Subscribable,       \* those the recorder may subscribe to; All is subscribe_all
    MaxEvents, MaxPublications, MaxFailures, MaxRestarts

VARIABLES
    made,       \* the events created: [id, type]; the id is the time of creation too
    requests,   \* what the connection has to do: [op, event]
    rows,       \* table events in the order of sequence_number
    committed,  \* so many of the rows a crash leaves
    subscribed, \* what the recorder is subscribed to
    handled,    \* the events the recorder was called with since the start
    base,       \* rows there were at the start
    regular,    \* no append failed and the recorder heard everything once
    spent       \* [publications, failures, restarts], bounded

vars == <<made, requests, rows, committed, subscribed, handled, base, regular, spent>>

OrderTypes == {"OrderCreated", "OrderSubmitted", "OrderFilled", "OrderPartiallyFilled",
               "OrderCancelled", "OrderRejected", "OrderFailed"}
PositionTypes == {"PositionOpened", "PositionIncreased", "PositionDecreased",
                  "PositionClosed", "PositionPriceUpdated"}
All == "All"

Events == [id : 1 .. MaxEvents, type : Published]

TypeOK ==
    /\ made \subseteq Events
    /\ requests \in Seq([op : {"insert", "commit"}, event : made])
    /\ rows \in Seq(Events) /\ committed \in 0 .. Len(rows) /\ base \in 0 .. committed
    /\ subscribed \subseteq Subscribable \union {All}
    /\ handled \in Seq(Events)
    /\ regular \in BOOLEAN
    /\ spent \in [publications : 0 .. MaxPublications, failures : 0 .. MaxFailures,
                  restarts : 0 .. MaxRestarts]

Init ==
    /\ made = {} /\ requests = <<>> /\ rows = <<>> /\ committed = 0
    /\ subscribed = {All} /\ handled = <<>> /\ base = 0 /\ regular = TRUE
    /\ spent = [publications |-> 0, failures |-> 0, restarts |-> 0]

-----------------------------------------------------------------------------

\* An event is given its time when it is created.
Create(type) ==
    /\ LET id == 1 + Max({0} \union {e.id : e \in made \union ToSet(rows)})
       IN  id <= MaxEvents /\ made' = made \union {[id |-> id, type |-> type]}
    /\ UNCHANGED <<requests, rows, committed, subscribed, handled, base, regular, spent>>

\* EventBus.publish begins with EventStore.append.
Publish(e) ==
    /\ spent.publications < MaxPublications
    /\ requests' = Append(requests, [op |-> "insert", event |-> e])
    /\ spent' = [spent EXCEPT !.publications = @ + 1]
    /\ UNCHANGED <<made, rows, committed, subscribed, handled, base, regular>>

\* The rest of publish: the handlers of the type, then those of all types; one
\* that raises does not disturb the others.
Call(e) ==
    handled' = handled \o (IF e.type \in subscribed THEN <<e>> ELSE <<>>)
                       \o (IF All \in subscribed THEN <<e>> ELSE <<>>)

IsStored(e) == \E i \in DOMAIN rows : rows[i].id = e.id

Insert(e) ==
    /\ rows' = Append(rows, e)
    /\ requests' = Append(Tail(requests), [op |-> "commit", event |-> e])
    /\ UNCHANGED <<committed, handled>>

\* One commit is the commit of all there is to commit.
Commit(e) ==
    /\ committed' = Len(rows)
    /\ requests' = Tail(requests)
    /\ Call(e)
    /\ UNCHANGED rows

\* append raised: the publication goes on without the store.
Refused(e) ==
    /\ requests' = Tail(requests)
    /\ Call(e)
    /\ regular' = FALSE
    /\ UNCHANGED <<rows, committed>>

Serve ==
    /\ requests /= <<>>
    /\ LET r == Head(requests) IN
           \/ r.op = "insert" /\ ~IsStored(r.event) /\ Insert(r.event) /\ UNCHANGED regular
           \/ r.op = "insert" /\ IsStored(r.event) /\ Refused(r.event)
           \/ r.op = "commit" /\ Commit(r.event) /\ UNCHANGED regular
    /\ UNCHANGED <<made, subscribed, base, spent>>

\* The database refuses an insert or a commit.
Fail ==
    /\ spent.failures < MaxFailures
    /\ requests /= <<>> /\ Refused(Head(requests).event)
    /\ spent' = [spent EXCEPT !.failures = @ + 1]
    /\ UNCHANGED <<made, subscribed, base>>

\* subscribe, subscribe_all and their opposites.
Subscribe(what) ==
    /\ what \notin subscribed
    /\ subscribed' = subscribed \union {what} /\ regular' = FALSE
    /\ UNCHANGED <<made, requests, rows, committed, handled, base, spent>>

Unsubscribe(what) ==
    /\ what \in subscribed
    /\ subscribed' = subscribed \ {what} /\ regular' = FALSE
    /\ UNCHANGED <<made, requests, rows, committed, handled, base, spent>>

\* A crash and a new start: init_schema finds what was committed.
Restart ==
    /\ spent.restarts < MaxRestarts
    /\ rows' = SubSeq(rows, 1, committed)
    /\ base' = committed
    /\ made' = {} /\ requests' = <<>> /\ handled' = <<>>
    /\ subscribed' = {All} /\ regular' = TRUE
    /\ spent' = [spent EXCEPT !.restarts = @ + 1]
    /\ UNCHANGED committed

Next ==
    \/ \E type \in Published : Create(type)
    \/ \E e \in made : Publish(e)
    \/ Serve \/ Fail
    \/ \E what \in Subscribable : Subscribe(what) \/ Unsubscribe(what)
    \/ Restart

Spec == Init /\ [][Next]_vars

-----------------------------------------------------------------------------

\* A mistake ReplayAgrees catches: the rows are read by the events' own times.
ByTimestamp(from) ==
    SortSeq(SubSeq(rows, from + 1, Len(rows)), LAMBDA a, b : a.id < b.id)

\* get_events_by_aggregate from a sequence number on, which the analyses do not
\* give, and of one aggregate.
GetEvents(from) == SubSeq(rows, from + 1, Len(rows))
OfAggregate(events, types) == SelectSeq(events, LAMBDA e : e.type \in types)

\* analyze_order_lifecycle: the last of the three types it knows decides.
FinalStatus(events) ==
    FoldLeft(LAMBDA status, e :
                CASE e.type = "OrderFilled" -> "FILLED"
                  [] e.type = "OrderRejected" -> "REJECTED"
                  [] e.type = "OrderCancelled" -> "CANCELLED"
                  [] OTHER -> status,
             "None", OfAggregate(events, OrderTypes))

\* analyze_position_pnl: a decrease adds its profit (1), a close replaces the
\* sum by its own (5).
TotalPnl(events) ==
    FoldLeft(LAMBDA total, e :
                CASE e.type = "PositionDecreased" -> total + 1
                  [] e.type = "PositionClosed" -> 5
                  [] OTHER -> total,
             0, OfAggregate(events, PositionTypes))

\* No handler has acted on an event that a crash could still take from the
\* log; and when nothing is being published, the analyses, which read the whole
\* log, say what the log held at the start of this run and its handlers were told
\* since, in spite of overlapping publications and of events published in
\* another order than they were created in.
ReplayAgrees ==
    regular =>
        /\ \A i \in DOMAIN handled : \E k \in base + 1 .. committed : rows[k] = handled[i]
        /\ requests = <<>> =>
              /\ FinalStatus(GetEvents(0)) = FinalStatus(SubSeq(rows, 1, base) \o handled)
              /\ TotalPnl(GetEvents(0)) = TotalPnl(SubSeq(rows, 1, base) \o handled)

=============================================================================
