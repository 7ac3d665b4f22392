--------------------------- MODULE TimeSeriesWriter ---------------------------
(* The buffers between the program and TimescaleDB: the collector of          *)
(* timeseries/collector.py with its flush loop, the log handler of             *)
(* utils/timescale_log_handler.py, and what timeseries/database.py does with   *)
(* a row that is there already. Every write is an await.                       *)
EXTENDS Integers, Sequences, SequencesExt, FiniteSetsExt

CONSTANTS
    BatchSize,
    KeyOf(_, _),            \* of a kind and an item: the primary key of its row
    MaxItems, MaxFailures   \* bounds: items collected of all kinds, failing writes

VARIABLES
    taken,      \* items 1, 2, ... of each kind were collected
    buffer,     \* the buffer of each kind
    table,      \* the rows of each kind
    writer,     \* the flush each task is in
    cancelled,  \* the loops that were cancelled
    failures

vars == <<taken, buffer, table, writer, cancelled, failures>>

\* In the order of _flush_all_buffers; the log is the handler's.
Flushed == <<"market", "order", "balance", "metric">>
Kinds == ToSet(Flushed) \union {"log"}
Loops == {"loop", "logger"}
Writers == Loops \union {"caller", "stop", "last"}

Off == [at |-> "off", kind |-> "none", next |-> 0, rows |-> <<>>]
Asleep == [Off EXCEPT !.at = "asleep"]

Items == Nat \ {0}

TypeOK ==
    /\ taken \in [Kinds -> Nat]
    /\ buffer \in [Kinds -> Seq(Items)] /\ table \in [Kinds -> SUBSET Items]
    /\ \A k \in Kinds : ToSet(buffer[k]) \subseteq 1 .. taken[k] /\ table[k] \subseteq 1 .. taken[k]
    /\ writer \in [Writers -> [at : {"off", "asleep", "write"}, kind : Kinds \union {"none"},
                              next : Nat, rows : Seq(Items)]]
    /\ \A w \in Writers, k \in Kinds :
           writer[w].kind = k => ToSet(writer[w].rows) \subseteq 1 .. taken[k]
    /\ cancelled \subseteq Loops /\ failures \in Nat

Init ==
    /\ taken = [k \in Kinds |-> 0]
    /\ buffer = [k \in Kinds |-> <<>>]
    /\ table = [k \in Kinds |-> {}]
    /\ writer = [w \in Writers |-> IF w \in Loops THEN Asleep ELSE Off]
    /\ cancelled = {} /\ failures = 0

-----------------------------------------------------------------------------

\* Market data and logs are copied and their buffer cleared before the write;
\* the others stay in it until the write is over.
TakenOut(kind) == kind \in {"market", "log"}

\* Orders and balances are written one by one, from the list as it is then.
OneByOne(kind) == kind \in {"order", "balance"}

Same(kind, m, n) == KeyOf(kind, m) = KeyOf(kind, n)

\* An order or a metric with a key that is there already is an error.
Conflicts(kind, rows) ==
    /\ kind \in {"order", "metric"}
    /\ \/ \E n \in ToSet(rows), r \in table[kind] : Same(kind, r, n)
       \/ \E i, j \in DOMAIN rows : i /= j /\ Same(kind, rows[i], rows[j])

Oldest(kind, rows) ==
    {rows[i] : i \in {j \in DOMAIN rows :
                          \A m \in DOMAIN rows : m < j => ~Same(kind, rows[m], rows[j])}}

Newest(kind, rows) ==
    {rows[i] : i \in {j \in DOMAIN rows :
                          \A m \in DOMAIN rows : m > j => ~Same(kind, rows[m], rows[j])}}

\* What the table of a kind holds once rows are written to it: of one key market
\* data and balances keep the row that was written last, logs the first.
Stored(kind, rows) ==
    CASE kind \in {"market", "balance"} ->
             {r \in table[kind] : \A n \in ToSet(rows) : ~Same(kind, r, n)} \union Newest(kind, rows)
      [] kind = "log" ->
             table[kind] \union {n \in Oldest(kind, rows) : \A r \in table[kind] : ~Same(kind, r, n)}
      [] OTHER -> table[kind] \union ToSet(rows)

Writing(kind, n, buf) ==
    [at |-> "write", kind |-> kind, next |-> n + 1,
     rows |-> IF OneByOne(kind) THEN <<buf[n]>> ELSE buf]

\* The task w, one of tasks, goes on to flush the kinds in order: those with nothing in their
\* buffers take no time. A task with none left is over, or sleeps.
Flush(tasks, w, kinds, buf) ==
    LET full == {i \in DOMAIN kinds : buf[kinds[i]] /= <<>>}
    IN  IF full = {}
        THEN /\ writer' = [tasks EXCEPT ![w] = IF w \in Loops THEN Asleep ELSE Off]
             /\ buffer' = buf
        ELSE LET k == kinds[Min(full)]
             IN  /\ writer' = [tasks EXCEPT ![w] = Writing(k, 1, buf[k])]
                 /\ buffer' = IF TakenOut(k) THEN [buf EXCEPT ![k] = <<>>] ELSE buf

\* What w has to flush after the kind.
Rest(w, kind) ==
    IF w \in {"loop", "stop"}
    THEN SubSeq(Flushed, 1 + SelectInSeq(Flushed, LAMBDA k : k = kind), Len(Flushed))
    ELSE <<>>

-----------------------------------------------------------------------------

\* collect_order and its like, _handle_market_data: a full batch is
\* flushed at once, by the caller or, for a log, by a task (a bound: one at a time).
Collect(kind) ==
    LET buf == [buffer EXCEPT ![kind] = Append(@, taken[kind] + 1)]
    IN  /\ cancelled = {}
        /\ MapThenSumSet(LAMBDA k : taken[k], Kinds) < MaxItems
        /\ taken' = [taken EXCEPT ![kind] = @ + 1]
        /\ IF Len(buf[kind]) >= BatchSize
           THEN writer["caller"] = Off /\ Flush(writer, "caller", <<kind>>, buf)
           ELSE buffer' = buf /\ UNCHANGED writer
        /\ UNCHANGED <<table, cancelled, failures>>

\* The log handler's emit.
Emit == Collect("log")

\* A loop's delay, buffer_timeout for the collector's, is over.
Wakes(w, kinds) ==
    /\ writer[w] = Asleep
    /\ Flush(writer, w, kinds, buffer)
    /\ UNCHANGED <<taken, table, cancelled, failures>>

\* _flush_loop, and the loop that calls _flush_buffer of the log handler.
Wake == Wakes("loop", Flushed)
WakeLogger == Wakes("logger", <<"log">>)

\* The database has written the rows of w. Its kind is done, except that the
\* list of orders or balances may have a next one; the buffer is cleared.
Written(w) ==
    LET f == writer[w]
    IN  /\ f.at = "write"
        /\ ~Conflicts(f.kind, f.rows)
        /\ table' = [table EXCEPT ![f.kind] = Stored(f.kind, f.rows)]
        /\ IF OneByOne(f.kind) /\ f.next <= Len(buffer[f.kind])
           THEN /\ writer' = [writer EXCEPT ![w] = Writing(f.kind, f.next, buffer[f.kind])]
                /\ UNCHANGED buffer
           ELSE Flush(writer, w, Rest(w, f.kind),
                      IF TakenOut(f.kind) THEN buffer ELSE [buffer EXCEPT ![f.kind] = <<>>])
        /\ UNCHANGED <<taken, cancelled, failures>>

\* A mistake NothingLost catches: what was taken out is not put back.
Dropped(f) == buffer

\* After a failure what was taken out of the buffer is put back, behind what
\* has come since; the rest was never taken out.
PutBack(f) ==
    IF TakenOut(f.kind) THEN [buffer EXCEPT ![f.kind] = @ \o f.rows] ELSE buffer

\* The key is there already, or the call fails, before or after the database
\* has written the rows.
WriteFails(w) ==
    LET f == writer[w]
    IN  /\ f.at = "write"
        /\ \/ Conflicts(f.kind, f.rows) /\ UNCHANGED <<table, failures>>
           \/ /\ ~Conflicts(f.kind, f.rows)
              /\ failures < MaxFailures /\ failures' = failures + 1
              /\ table' \in {table, [table EXCEPT ![f.kind] = Stored(f.kind, f.rows)]}
        /\ Flush(writer, w, Rest(w, f.kind), PutBack(f))
        /\ UNCHANGED <<taken, cancelled>>

\* stop, and for the log the end of the program, cancel the loop wherever it is,
\* which no handler of a failed write sees, and flush what the buffers hold.
Cancel(w) ==
    LET f == writer[w]
    IN  /\ w \notin cancelled /\ cancelled' = cancelled \union {w}
        /\ IF f.at = "write"
           THEN table' \in {table, [table EXCEPT ![f.kind] = Stored(f.kind, f.rows)]}
           ELSE UNCHANGED table
        /\ IF w = "loop"
           THEN Flush([writer EXCEPT ![w] = Off], "stop", Flushed, buffer)
           ELSE Flush([writer EXCEPT ![w] = Off], "last", <<"log">>, buffer)
        /\ UNCHANGED <<taken, failures>>

Next ==
    \/ \E k \in ToSet(Flushed) : Collect(k)
    \/ Emit
    \/ Wake \/ WakeLogger
    \/ \E w \in Loops : Cancel(w)
    \/ \E w \in Writers : Written(w) \/ WriteFails(w)

Spec == Init /\ [][Next]_vars

-----------------------------------------------------------------------------

OnItsWay(kind) == UNION {ToSet(writer[w].rows) : w \in {v \in Writers : writer[v].kind = kind}}

\* The items that rows of a table stand for: orders are there themselves, of the
\* others what has their key.
Covers(kind, rows) ==
    IF kind = "order" THEN rows
    ELSE {n \in Items : \E r \in rows : Same(kind, r, n)}

Safe(kind) ==
    1 .. taken[kind] \subseteq
        ToSet(buffer[kind]) \union Covers(kind, table[kind]) \union OnItsWay(kind)

\* Every order is in its buffer, in the table or on its way, and so are market
\* data and logs until their loop is cancelled, or else a row with their key is in
\* the table, however flushes overlap and fail. (Two records may have one key, as
\* two ticks of a symbol and two logs of a logger and a level have in one instant:
\* of market data the one written last is left, which is the older one if it had
\* been put back, of logs the first. Balances are lost when two flushes overlap,
\* and metrics when one is added during the write; what a cancelled loop was
\* writing is lost, too.)
NothingLost ==
    /\ Safe("order")
    /\ "loop" \in cancelled \/ Safe("market")
    /\ "logger" \in cancelled \/ Safe("log")

-----------------------------------------------------------------------------
(* The invariant the proof rests on.                                         *)

\* What w may be flushing.
OwnKinds(w) ==
    CASE w \in {"loop", "stop"} -> ToSet(Flushed)
      [] w \in {"logger", "last"} -> {"log"}
      [] OTHER -> Kinds

\* A task is writing what is its own, or flushes nothing.
Own(w, f) ==
    IF f.at = "write" THEN f.kind \in OwnKinds(w) /\ f.next > 1 ELSE f \in {Off, Asleep}

\* The last flushes come after the loops.
InPlace ==
    /\ \A w \in Writers : Own(w, writer[w])
    /\ "loop" \in cancelled \/ writer["stop"] = Off
    /\ "logger" \in cancelled \/ writer["last"] = Off

\* A flush f that writes the orders of the list one by one stands at the order it
\* writes, and all before it are in the table; or another flush was faster, and
\* the order, in the table already, will be refused.
InStep(f, list, known) ==
    /\ Len(f.rows) = 1
    /\ \/ f.rows[1] \in known
       \/ /\ f.next \in 2 .. Len(list) + 1
          /\ f.rows[1] = list[f.next - 1]
          /\ \A i \in 1 .. f.next - 2 : list[i] \in known

OrdersInStep ==
    \A w \in Writers :
        writer[w].kind = "order" => InStep(writer[w], buffer["order"], table["order"])

WriterInv == TypeOK /\ InPlace /\ OrdersInStep /\ NothingLost
=============================================================================
