--------------------------- MODULE TimeSeriesCache ---------------------------
(* The chart cache of services/timeseries_cache.py, for one stock and one     *)
(* interval: entries in the order they are evicted in, an index of their      *)
(* times, and the size they are accounted with. The levels two and three of   *)
(* MultiLevelCache are never given anything.                                  *)
EXTENDS Integers, Sequences, SequencesExt, FiniteSetsExt

CONSTANTS
    Times,      \* times of the bars, numbers
    Sizes,      \* estimated sizes: a bar's, and what else is put
    MaxSize, MaxIndex

VARIABLES
    entries,    \* cache, an OrderedDict: entries [time, size, expired], the first is evicted first
    index,      \* time_index
    size,       \* size_bytes
    found,      \* what the last range query returned
    running     \* the cleanup task runs

vars == <<entries, index, size, found, running>>

TimesOf(es) == {e.time : e \in ToSet(es)}

TypeOK ==
    /\ \A e \in ToSet(entries) : e.time \in Times /\ e.size \in Sizes /\ e.expired \in BOOLEAN
    /\ Cardinality(TimesOf(entries)) = Len(entries)
    /\ index \in Seq(Times) /\ Len(index) <= MaxIndex
    /\ size \in 0 .. MaxSize
    /\ found \subseteq Times
    /\ running \in BOOLEAN

Init ==
    /\ entries = <<>> /\ index = <<>> /\ size = 0
    /\ found = {} /\ running = FALSE

-----------------------------------------------------------------------------

SizeOf(es) == FoldSeq(LAMBDA e, n : e.size + n, 0, es)

Without(es, time) == SelectSeq(es, LAMBDA e : e.time /= time)

\* _evict_lru, from the front, until there is room for one more of that size;
\* what the new entry replaces is counted as if it stayed.
Evicted(room) ==
    LET fits == {n \in 0 .. Len(entries) : SizeOf(SubSeq(entries, 1, n)) >= size + room - MaxSize}
    IN  SubSeq(entries, 1 + Min(fits \union {Len(entries)}), Len(entries))

\* _update_time_index: in order, without repetition, the oldest first to go.
Indexed(time) ==
    LET longer == SetToSortSeq(ToSet(index) \union {time}, <)
    IN  IF Len(longer) > MaxIndex THEN Tail(longer) ELSE longer

\* A mistake Accounted catches: the entry replaced stays in the sum.
NeverReplaced(es, time) == es

\* A new entry takes the place of the old one of its key, in the old order.
Replaced(es, time) == Without(es, time)

\* _put_single
Put(time, s) ==
    LET kept == Evicted(s)
        entry == [time |-> time, size |-> s, expired |-> FALSE]
    IN  IF SizeOf(kept) + s > MaxSize
        THEN entries' = kept /\ size' = SizeOf(kept) /\ UNCHANGED <<index, found, running>>
        ELSE /\ entries' = IF time \in TimesOf(kept)
                           THEN [i \in DOMAIN kept |-> IF kept[i].time = time THEN entry ELSE kept[i]]
                           ELSE Append(kept, entry)
             /\ size' = size - (SizeOf(entries) - SizeOf(kept))
                            - (SizeOf(kept) - SizeOf(Replaced(kept, time))) + s
             /\ index' = Indexed(time)
             /\ UNCHANGED <<found, running>>

Removed(times) ==
    LET kept == SelectSeq(entries, LAMBDA e : e.time \notin times)
    IN  entries' = kept /\ size' = size - (SizeOf(entries) - SizeOf(kept))

\* get of one time: an expired entry is removed, another one is the last to be
\* evicted now. The index keeps the time either way.
Get(time) ==
    /\ \E i \in DOMAIN entries :
           /\ entries[i].time = time
           /\ IF entries[i].expired
              THEN Removed({time})
              ELSE entries' = Append(Without(entries, time), entries[i]) /\ UNCHANGED size
    /\ UNCHANGED <<index, found, running>>

\* _get_range: the first times of the index that are in the range are looked
\* up, as many as the limit, whether there is an entry for them or not.
GetRange(first, last, limit) ==
    LET inRange == SelectSeq(index, LAMBDA t : first <= t /\ t <= last)
        asked == ToSet(SubSeq(inRange, 1, Min({limit, Len(inRange)})))
    IN  /\ found' = {t \in asked : \E e \in ToSet(entries) : e.time = t /\ ~e.expired}
        /\ UNCHANGED <<entries, index, size, running>>

\* The lifetime of an entry ends.
Expire(time) ==
    /\ \E i \in DOMAIN entries :
           entries[i].time = time /\ entries' = [entries EXCEPT ![i].expired = TRUE]
    /\ UNCHANGED <<index, size, found, running>>

StartCleanup ==
    /\ ~running /\ running' = TRUE
    /\ UNCHANGED <<entries, index, size, found>>

StopCleanup ==
    /\ running /\ running' = FALSE
    /\ UNCHANGED <<entries, index, size, found>>

CleanupExpired ==
    /\ running
    /\ Removed({e.time : e \in {d \in ToSet(entries) : d.expired}})
    /\ UNCHANGED <<index, found, running>>

Clear ==
    /\ entries' = <<>> /\ index' = <<>> /\ size' = 0
    /\ UNCHANGED <<found, running>>

Next ==
    \/ \E t \in Times : Get(t) \/ Expire(t) \/ (\E s \in Sizes : Put(t, s))
    \/ \E a, b \in Times, limit \in 1 .. MaxIndex : GetRange(a, b, limit)
    \/ StartCleanup \/ StopCleanup \/ CleanupExpired
    \/ Clear

Spec == Init /\ [][Next]_vars

-----------------------------------------------------------------------------

\* The size is that of the entries, through replacement, eviction, expiry and
\* cleanup, so that nothing is evicted for a size that is not there; and a
\* range query can reach every entry but those older than a full index.
Accounted ==
    /\ size = SizeOf(entries) /\ size <= MaxSize
    /\ \A t \in TimesOf(entries) \ ToSet(index) : Len(index) = MaxIndex /\ t < Head(index)

=============================================================================
