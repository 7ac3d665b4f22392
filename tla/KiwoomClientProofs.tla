-------------------------- MODULE KiwoomClientProofs --------------------------
(* The rate limiter keeps its limit and its priorities, for any requests,    *)
(* limits and windows, and so do the requests of the client.                 *)
EXTENDS KiwoomClient, SequenceTheorems, TLAPS

\* h is the end of the record of slots, and what precedes it is out of the window.
Recent(h) ==
    /\ h \in Seq(Nat)
    /\ Len(h) <= Len(slots)
    /\ Len(h) <= MaxRequests
    /\ \A i \in 1 .. Len(h) : h[i] = slots[Len(slots) - Len(h) + i].at
    /\ \A i \in 1 .. Len(slots) - Len(h) : slots[i].at + Window <= clock

LimiterIInv == LimiterTypeOK /\ LimiterInv

-----------------------------------------------------------------------------
(* The history.                                                              *)

\* Pruning keeps the end of the history.
LEMMA PruneRecent ==
    ASSUME LimiterTypeOK, HistoryRecent, NEW k \in 0 .. Len(history),
           Expired(history, k)
    PROVE  Recent(SubSeq(history, k + 1, Len(history)))
<1> DEFINE h == SubSeq(history, k + 1, Len(history))
<1>1. history \in Seq(Nat) /\ slots \in Seq([request : Requests, at : Nat])
  BY DEF LimiterTypeOK
<1>2. h \in Seq(Nat) /\ Len(h) = Len(history) - k
  BY <1>1
<1>3. \A i \in 1 .. Len(h) : h[i] = history[k + i]
  BY <1>1, <1>2
<1>a. Len(history) \in Nat /\ Len(slots) \in Nat /\ Len(h) \in Nat /\ k \in Nat
  BY <1>1, <1>2
<1> HIDE DEF h
<1>4. Len(h) <= Len(slots) /\ Len(h) <= MaxRequests
  BY <1>1, <1>2, LimiterAssumption DEF HistoryRecent
<1>5. \A i \in 1 .. Len(h) : h[i] = slots[Len(slots) - Len(h) + i].at
  <2> TAKE i \in 1 .. Len(h)
  <2>1. k + i \in 1 .. Len(history) /\ h[i] = history[k + i]
    BY <1>1, <1>2, <1>3
  <2>2. history[k + i] = slots[Len(slots) - Len(history) + (k + i)].at
    BY <2>1 DEF HistoryRecent
  <2>3. Len(slots) - Len(history) + (k + i) = Len(slots) - Len(h) + i
    BY <1>2, <1>a
  <2> QED
    BY <2>1, <2>2, <2>3
<1>6. \A i \in 1 .. Len(slots) - Len(h) : slots[i].at + Window <= clock
  <2> TAKE i \in 1 .. Len(slots) - Len(h)
  <2>1. CASE i <= Len(slots) - Len(history)
    BY <2>1, <1>1 DEF HistoryRecent
  <2>2. CASE i > Len(slots) - Len(history)
    <3> DEFINE j == i - (Len(slots) - Len(history))
    <3>1. j \in 1 .. k
      BY <2>2, <1>1, <1>2
    <3>2. history[j] + Window <= clock
      BY <3>1 DEF Expired
    <3>3. j \in 1 .. Len(history) /\ Len(slots) - Len(history) + j = i
      BY <3>1, <1>1
    <3>4. history[j] = slots[i].at
      BY <3>3 DEF HistoryRecent
    <3> QED
      BY <3>2, <3>4
  <2> QED
    BY <2>1, <2>2, <1>1
<1>7. Recent(h)
  BY <1>2, <1>4, <1>5, <1>6 DEF Recent
<1> QED
  BY <1>7 DEF h

\* Granting a slot extends the record and keeps the limit, provided that a full
\* history has its oldest time out of the window.
LEMMA GrantRecent ==
    ASSUME LimiterTypeOK, SlotsSpaced, NEW r \in Requests, NEW h, Recent(h),
           Len(h) = MaxRequests => h[1] + Window <= clock,
           Grant(r, h), clock' = clock
    PROVE  /\ history' \in Seq(Nat)
           /\ slots' \in Seq([request : Requests, at : Nat])
           /\ call' \in [Requests -> {"idle", "waiting", "granted", "cancelled"}]
           /\ Len(slots') = Len(slots) + 1
           /\ \A i \in 1 .. Len(slots) : slots'[i] = slots[i]
           /\ slots'[Len(slots) + 1].request = r
           /\ HistoryRecent'
           /\ SlotsSpaced'
<1> DEFINE e == IF Len(h) = MaxRequests THEN Tail(h) ELSE h
<1>1. /\ clock \in Nat
      /\ h \in Seq(Nat)
      /\ slots \in Seq([request : Requests, at : Nat])
      /\ call \in [Requests -> {"idle", "waiting", "granted", "cancelled"}]
  BY DEF LimiterTypeOK, Recent
<1>2. MaxRequests \in Nat /\ MaxRequests >= 1 /\ Window \in Nat
  BY LimiterAssumption
<1>3. /\ history' = Append(e, clock)
      /\ slots' = Append(slots, [request |-> r, at |-> clock])
      /\ call' = [call EXCEPT ![r] = IF @ = "waiting" THEN "granted" ELSE @]
  BY DEF Grant
<1>4. Len(h) \in Nat /\ Len(slots) \in Nat /\ Len(h) <= MaxRequests
      /\ Len(h) <= Len(slots)
  BY <1>1 DEF Recent
<1>5. /\ e \in Seq(Nat)
      /\ Len(e) < MaxRequests
      /\ Len(e) <= Len(slots)
  BY <1>1, <1>2, <1>4
<1>12. Len(e) \in Nat
  BY <1>5
<1>6. \A i \in 1 .. Len(e) : e[i] = slots[Len(slots) - Len(e) + i].at
  <2> TAKE i \in 1 .. Len(e)
  <2>1. CASE Len(h) = MaxRequests
    <3>1. e = Tail(h) /\ Len(e) = Len(h) - 1
      BY <2>1, <1>1, <1>2
    <3>2. e[i] = h[i + 1] /\ i + 1 \in 1 .. Len(h)
      BY <3>1, <1>1, <1>2, <2>1
    <3>3. h[i + 1] = slots[Len(slots) - Len(h) + (i + 1)].at
      BY <3>2 DEF Recent
    <3>4. Len(slots) - Len(h) + (i + 1) = Len(slots) - Len(e) + i
      <4>1. Len(e) = Len(h) - 1 /\ i \in Nat
        BY <3>1, <1>12
      <4> HIDE DEF e
      <4> QED
        BY <4>1, <1>4
    <3> QED
      BY <3>2, <3>3, <3>4
  <2>2. CASE Len(h) /= MaxRequests
    BY <2>2 DEF Recent
  <2> QED
    BY <2>1, <2>2
<1>7. \A i \in 1 .. Len(slots) - Len(e) : slots[i].at + Window <= clock
  <2> TAKE i \in 1 .. Len(slots) - Len(e)
  <2>1. CASE Len(h) = MaxRequests
    <3>1. Len(e) = Len(h) - 1
      BY <2>1, <1>1, <1>2
    <3>2. CASE i <= Len(slots) - Len(h)
      BY <3>2, <1>4 DEF Recent
    <3>3. CASE i > Len(slots) - Len(h)
      <4>1. i = Len(slots) - Len(h) + 1
        BY <3>1, <3>3, <1>4
      <4>2. 1 \in 1 .. Len(h)
        BY <2>1, <1>2
      <4>3. h[1] = slots[i].at
        BY <4>1, <4>2 DEF Recent
      <4> QED
        BY <4>3, <2>1
    <3> QED
      BY <3>2, <3>3, <1>4
  <2>2. CASE Len(h) /= MaxRequests
    BY <2>2 DEF Recent
  <2> QED
    BY <2>1, <2>2
<1>8. history' \in Seq(Nat) /\ slots' \in Seq([request : Requests, at : Nat])
  BY <1>1, <1>3, <1>5
<1>9. call' \in [Requests -> {"idle", "waiting", "granted", "cancelled"}]
  BY <1>1, <1>3
<1>10. /\ Len(slots') = Len(slots) + 1
       /\ \A i \in 1 .. Len(slots) : slots'[i] = slots[i]
       /\ slots'[Len(slots) + 1] = [request |-> r, at |-> clock]
  BY <1>1, <1>3
<1>11. /\ Len(history') = Len(e) + 1
       /\ \A i \in 1 .. Len(e) : history'[i] = e[i]
       /\ history'[Len(e) + 1] = clock
  BY <1>1, <1>3, <1>5
<1>a. Len(slots') = Len(slots) + 1 /\ Len(history') = Len(e) + 1
  BY <1>10, <1>11
<1> HIDE DEF e
<1>13. HistoryRecent'
  <2>1. Len(slots') - Len(history') = Len(slots) - Len(e)
    BY <1>4, <1>10, <1>11, <1>12
  <2>2. Len(history') <= Len(slots') /\ Len(history') <= MaxRequests
    BY <1>2, <1>4, <1>5, <1>10, <1>11, <1>12
  <2>3. \A i \in 1 .. Len(history') :
            history'[i] = slots'[Len(slots) - Len(e) + i].at
    <3> TAKE i \in 1 .. Len(history')
    <3>1. CASE i <= Len(e)
      <4>1. i \in 1 .. Len(e) /\ Len(slots) - Len(e) + i \in 1 .. Len(slots)
        BY <3>1, <1>4, <1>5, <1>11, <1>12
      <4> QED
        BY <4>1, <1>6, <1>10, <1>11
    <3>2. CASE i > Len(e)
      <4>1. i = Len(e) + 1 /\ Len(slots) - Len(e) + i = Len(slots) + 1
        BY <3>2, <1>4, <1>a, <1>12
      <4> QED
        BY <4>1, <1>10, <1>11
    <3> QED
      BY <3>1, <3>2, <1>a, <1>12
  <2>4. \A i \in 1 .. Len(slots) - Len(e) : slots'[i].at + Window <= clock'
    <3> TAKE i \in 1 .. Len(slots) - Len(e)
    <3>1. i \in 1 .. Len(slots)
      BY <1>4, <1>12
    <3> QED
      BY <3>1, <1>7, <1>10
  <2> QED
    BY <2>1, <2>2, <2>3, <2>4 DEF HistoryRecent
<1>14. SlotsSpaced'
  <2> SUFFICES ASSUME NEW i \in 1 .. Len(slots') - MaxRequests
               PROVE  slots'[i].at + Window <= slots'[i + MaxRequests].at
    BY DEF SlotsSpaced
  <2>1. CASE i <= Len(slots) - MaxRequests
    <3>1. /\ i \in 1 .. Len(slots) - MaxRequests
          /\ i \in 1 .. Len(slots)
          /\ i + MaxRequests \in 1 .. Len(slots)
      BY <2>1, <1>2, <1>4
    <3> QED
      BY <3>1, <1>10 DEF SlotsSpaced
  <2>2. CASE i > Len(slots) - MaxRequests
    <3>1. i + MaxRequests = Len(slots) + 1
      BY <2>2, <1>2, <1>4, <1>a
    <3>2. i \in 1 .. Len(slots) - Len(e) /\ i \in 1 .. Len(slots)
      BY <3>1, <1>2, <1>4, <1>5, <1>12
    <3> QED
      BY <3>1, <3>2, <1>7, <1>10
  <2> QED
    BY <2>1, <2>2, <1>2, <1>4, <1>a
<1> QED
  BY <1>8, <1>9, <1>10, <1>13, <1>14

-----------------------------------------------------------------------------
(* The inductive invariant of the limiter.                                   *)

\* No slot is taken and nobody waits at the start.
LEMMA LimiterStarts == LimiterInit => LimiterIInv
<1> SUFFICES ASSUME LimiterInit PROVE LimiterIInv
  OBVIOUS
<1>1. Len(slots) = 0 /\ Len(history) = 0
  BY DEF LimiterInit
<1>2. LimiterTypeOK
  BY DEF LimiterInit, LimiterTypeOK
<1>3. HistoryRecent /\ SlotsSpaced
  BY <1>1, LimiterAssumption DEF HistoryRecent, SlotsSpaced
<1>4. SleepsWhenFull /\ HeldSinceBefore /\ BoundedOvertaking
  BY DEF LimiterInit, SleepsWhenFull, HeldSinceBefore, BoundedOvertaking
<1> QED
  BY <1>2, <1>3, <1>4 DEF LimiterIInv, LimiterInv

\* Every step of the limiter keeps the history, the spacing of the slots and the
\* priorities: one proof step per action.
LEMMA LimiterStep == LimiterIInv /\ [LimiterNext]_limiterVars => LimiterIInv'
<1> SUFFICES ASSUME LimiterIInv, [LimiterNext]_limiterVars
             PROVE  LimiterIInv'
  OBVIOUS
<1>a. /\ LimiterTypeOK
      /\ HistoryRecent
      /\ SleepsWhenFull
      /\ HeldSinceBefore
      /\ SlotsSpaced
      /\ BoundedOvertaking
  BY DEF LimiterIInv, LimiterInv
<1>b. /\ MaxRequests \in Nat /\ MaxRequests >= 1
      /\ Window \in Nat
      /\ Priority \in [Requests -> 1 .. 5]
      /\ None \notin Requests
  BY LimiterAssumption
<1>c. /\ clock \in Nat
      /\ queue \subseteq Requests
      /\ arrived \in [Requests -> Nat]
      /\ Len(slots) \in Nat
      /\ Len(history) \in Nat
      /\ slots \in Seq([request : Requests, at : Nat])
      /\ history \in Seq(Nat)
  BY <1>a DEF LimiterTypeOK
<1> USE DEF LimiterIInv, LimiterInv
<1>1. ASSUME NEW r \in Requests, Acquire(r)
      PROVE  LimiterIInv'
  <2>1. LimiterTypeOK'
    BY <1>1, <1>a, <1>c DEF Acquire, LimiterTypeOK
  <2>2. HistoryRecent' /\ SlotsSpaced'
    BY <1>1, <1>a DEF Acquire, HistoryRecent, SlotsSpaced
  <2>3. SleepsWhenFull'
    BY <1>1, <1>a DEF Acquire, SleepsWhenFull
  <2>4. arrived'[r] = Len(slots) /\ \A q \in Requests \ {r} : arrived'[q] = arrived[q]
    BY <1>1, <1>c DEF Acquire
  <2>5. HeldSinceBefore'
    BY <1>1, <1>a, <1>c, <2>4 DEF Acquire, HeldSinceBefore
  <2>6. BoundedOvertaking'
    BY <1>1, <1>a, <1>c, <2>4 DEF Acquire, BoundedOvertaking
  <2> QED
    BY <2>1, <2>2, <2>3, <2>5, <2>6
<1>2. ASSUME NEW r \in Requests, CallerCancelled(r)
      PROVE  LimiterIInv'
  <2>1. LimiterTypeOK'
    BY <1>2, <1>a DEF CallerCancelled, LimiterTypeOK
  <2> QED
    BY <1>2, <1>a, <2>1 DEF CallerCancelled, HistoryRecent, SlotsSpaced,
       SleepsWhenFull, HeldSinceBefore, BoundedOvertaking
<1>3. ASSUME NEW r \in Requests, Pop(r)
      PROVE  LimiterIInv'
  <2>1. /\ processor = "get" /\ r \in queue /\ queue' = queue \ {r}
        /\ \A q \in queue : Priority[r] <= Priority[q]
        /\ arrived' = [arrived EXCEPT ![r] = 0]
        /\ clock' = clock
    BY <1>3 DEF Pop
  <2>2. current = None
    BY <2>1, <1>a DEF SleepsWhenFull
  <2>3. PICK k \in 0 .. Len(history) :
            /\ Expired(history, k)
            /\ LET recent == SubSeq(history, k + 1, Len(history)) IN
               IF Len(recent) < MaxRequests
               THEN Grant(r, recent) /\ UNCHANGED <<processor, current>>
               ELSE /\ processor' = "sleep"
                    /\ current' = r
                    /\ history' = recent
                    /\ UNCHANGED <<slots, call>>
    BY <1>3 DEF Pop
  <2> DEFINE h == SubSeq(history, k + 1, Len(history))
  <2>4. Recent(h)
    BY <1>a, <2>3, PruneRecent
  <2> HIDE DEF h
  <2>5. arrived' \in [Requests -> Nat] /\ queue' \subseteq Requests
        /\ \A q \in queue' : q \in queue /\ arrived'[q] = arrived[q]
    BY <2>1, <1>c
  <2>6. CASE Len(h) < MaxRequests
    <3>1. Grant(r, h) /\ UNCHANGED <<processor, current>>
      BY <2>3, <2>6 DEF h
    <3>2. Len(h) /= MaxRequests
      BY <2>6, <1>b
    <3>3. /\ history' \in Seq(Nat)
          /\ slots' \in Seq([request : Requests, at : Nat])
          /\ call' \in [Requests -> {"idle", "waiting", "granted", "cancelled"}]
          /\ Len(slots') = Len(slots) + 1
          /\ \A i \in 1 .. Len(slots) : slots'[i] = slots[i]
          /\ slots'[Len(slots) + 1].request = r
          /\ HistoryRecent'
          /\ SlotsSpaced'
      BY <1>a, <2>1, <2>4, <3>1, <3>2, GrantRecent
    <3>4. LimiterTypeOK'
      BY <1>a, <1>c, <2>1, <2>5, <3>1, <3>3 DEF LimiterTypeOK
    <3>5. SleepsWhenFull'
      BY <2>1, <2>2, <3>1 DEF SleepsWhenFull
    <3>6. HeldSinceBefore'
      <4> SUFFICES ASSUME NEW q \in queue'
                   PROVE  arrived'[q] <= Len(slots')
        BY <2>2, <3>1 DEF HeldSinceBefore
      <4>1. arrived'[q] = arrived[q] /\ arrived[q] <= Len(slots) /\ arrived[q] \in Nat
        BY <1>a, <1>c, <2>5 DEF HeldSinceBefore
      <4> QED
        BY <4>1, <1>c, <3>3
    <3>7. BoundedOvertaking'
      <4> SUFFICES ASSUME NEW q \in queue', NEW i \in arrived'[q] + 1 .. Len(slots'),
                          Priority[slots'[i].request] > Priority[q]
                   PROVE  i = arrived'[q] + 1
        BY DEF BoundedOvertaking
      <4>1. q \in queue /\ arrived'[q] = arrived[q] /\ arrived[q] \in Nat
        BY <1>c, <2>5
      <4>2. CASE i <= Len(slots)
        <5>1. i \in arrived[q] + 1 .. Len(slots) /\ i \in 1 .. Len(slots)
          BY <4>1, <4>2, <1>c, <3>3
        <5>2. slots'[i] = slots[i]
          BY <5>1, <3>3
        <5> QED
          BY <4>1, <5>1, <5>2, <1>a DEF BoundedOvertaking
      <4>3. CASE i > Len(slots)
        <5>1. i = Len(slots) + 1
          BY <4>1, <4>3, <1>c, <3>3
        <5>2. Priority[r] <= Priority[q] /\ slots'[i].request = r
          BY <5>1, <2>1, <3>3, <4>1
        <5>3. Priority[r] \in 1 .. 5 /\ Priority[q] \in 1 .. 5
          BY <1>b, <1>c, <4>1
        <5> QED
          BY <5>2, <5>3
      <4> QED
        BY <4>1, <4>2, <4>3, <1>c, <3>3
    <3> QED
      BY <3>3, <3>4, <3>5, <3>6, <3>7
  <2>7. CASE ~(Len(h) < MaxRequests)
    <3>1. processor' = "sleep" /\ current' = r /\ history' = h
          /\ UNCHANGED <<slots, call>>
      BY <2>3, <2>7 DEF h
    <3>2. h \in Seq(Nat) /\ Len(h) = MaxRequests
      BY <2>4, <2>7, <1>b DEF Recent
    <3>3. LimiterTypeOK'
      BY <1>a, <1>c, <2>1, <2>5, <3>1, <3>2 DEF LimiterTypeOK
    <3>4. HistoryRecent'
      BY <2>1, <2>4, <3>1 DEF Recent, HistoryRecent
    <3>5. SlotsSpaced'
      BY <1>a, <3>1 DEF SlotsSpaced
    <3>6. SleepsWhenFull'
      BY <3>1, <3>2 DEF SleepsWhenFull
    <3>7. HeldSinceBefore'
      <4> SUFFICES ASSUME NEW q \in queue'
                   PROVE  /\ arrived'[q] <= Len(slots)
                          /\ ~(Priority[r] > Priority[q])
        BY <3>1 DEF HeldSinceBefore
      <4>1. q \in queue /\ arrived'[q] = arrived[q]
        BY <2>5
      <4>2. Priority[r] \in 1 .. 5 /\ Priority[q] \in 1 .. 5
        BY <1>b, <1>c, <4>1
      <4> QED
        BY <4>1, <4>2, <1>a, <2>1 DEF HeldSinceBefore
    <3>8. BoundedOvertaking'
      BY <1>a, <2>5, <3>1 DEF BoundedOvertaking
    <3> QED
      BY <3>3, <3>4, <3>5, <3>6, <3>7, <3>8
  <2> QED
    BY <2>6, <2>7
<1>4. CASE Wake
  <2>1. /\ processor = "sleep" /\ clock >= history[1] + Window
        /\ Grant(current, history)
        /\ processor' = "get" /\ current' = None
        /\ UNCHANGED <<clock, queue, arrived>>
    BY <1>4 DEF Wake
  <2>2. current \in Requests /\ Len(history) = MaxRequests
    BY <2>1, <1>a DEF SleepsWhenFull
  <2>3. Recent(history)
    BY <1>a, <1>c DEF Recent, HistoryRecent
  <2>4. history[1] \in Nat
    BY <1>b, <1>c, <2>2
  <2>5. history[1] + Window <= clock
    BY <1>b, <1>c, <2>1, <2>4
  <2>6. /\ history' \in Seq(Nat)
        /\ slots' \in Seq([request : Requests, at : Nat])
        /\ call' \in [Requests -> {"idle", "waiting", "granted", "cancelled"}]
        /\ Len(slots') = Len(slots) + 1
        /\ \A i \in 1 .. Len(slots) : slots'[i] = slots[i]
        /\ slots'[Len(slots) + 1].request = current
        /\ HistoryRecent'
        /\ SlotsSpaced'
    BY <1>a, <2>1, <2>2, <2>3, <2>5, GrantRecent
  <2>7. LimiterTypeOK'
    BY <1>a, <2>1, <2>6 DEF LimiterTypeOK
  <2>8. SleepsWhenFull'
    BY <2>1 DEF SleepsWhenFull
  <2>9. HeldSinceBefore'
    <3> SUFFICES ASSUME NEW q \in queue
                 PROVE  arrived[q] <= Len(slots')
      BY <2>1 DEF HeldSinceBefore
    <3>1. arrived[q] <= Len(slots) /\ arrived[q] \in Nat
      BY <1>a, <1>c DEF HeldSinceBefore
    <3> QED
      BY <3>1, <1>c, <2>6
  <2>10. BoundedOvertaking'
    <3> SUFFICES ASSUME NEW q \in queue, NEW i \in arrived[q] + 1 .. Len(slots'),
                        Priority[slots'[i].request] > Priority[q]
                 PROVE  i = arrived[q] + 1
      BY <2>1 DEF BoundedOvertaking
    <3>1. arrived[q] \in Nat
      BY <1>c
    <3>2. CASE i <= Len(slots)
      <4>1. i \in arrived[q] + 1 .. Len(slots) /\ i \in 1 .. Len(slots)
        BY <3>1, <3>2, <1>c, <2>6
      <4>2. slots'[i] = slots[i]
        BY <4>1, <2>6
      <4> QED
        BY <4>1, <4>2, <1>a DEF BoundedOvertaking
    <3>3. CASE i > Len(slots)
      <4>1. i = Len(slots) + 1
        BY <3>1, <3>3, <1>c, <2>6
      <4>2. Priority[current] > Priority[q]
        BY <4>1, <2>6
      <4>3. arrived[q] = Len(slots)
        BY <4>2, <2>2, <1>a, <1>b DEF HeldSinceBefore
      <4> QED
        BY <4>1, <4>3
    <3> QED
      BY <3>1, <3>2, <3>3, <1>c, <2>6
  <2> QED
    BY <2>6, <2>7, <2>8, <2>9, <2>10
<1>5. CASE Stop
  <2>1. LimiterTypeOK'
    BY <1>5, <1>a DEF Stop, LimiterTypeOK
  <2> QED
    BY <1>5, <1>a, <2>1 DEF Stop, HistoryRecent, SlotsSpaced, SleepsWhenFull,
       HeldSinceBefore, BoundedOvertaking
<1>6. CASE ProcessorStops
  <2>1. LimiterTypeOK'
    BY <1>6, <1>a DEF ProcessorStops, LimiterTypeOK
  <2>2. HistoryRecent' /\ SlotsSpaced' /\ SleepsWhenFull'
    BY <1>6, <1>a DEF ProcessorStops, HistoryRecent, SlotsSpaced, SleepsWhenFull
  <2>3. HeldSinceBefore' /\ BoundedOvertaking'
    BY <1>6 DEF ProcessorStops, HeldSinceBefore, BoundedOvertaking
  <2> QED
    BY <2>1, <2>2, <2>3
<1>7. CASE Tick
  <2>1. /\ clock' = clock + 1
        /\ UNCHANGED <<queue, call, processor, current, history, slots, arrived>>
    BY <1>7 DEF Tick
  <2>2. LimiterTypeOK'
    BY <2>1, <1>a DEF LimiterTypeOK
  <2>3. HistoryRecent'
    <3> DEFINE dropped == Len(slots) - Len(history)
    <3>1. \A i \in 1 .. dropped : slots[i].at + Window <= clock'
      <4> TAKE i \in 1 .. dropped
      <4>1. slots[i].at + Window <= clock
        BY <1>a DEF HistoryRecent
      <4>2. i \in 1 .. Len(slots)
        BY <1>c
      <4>a. slots[i] \in [request : Requests, at : Nat]
        BY <4>2, <1>c, ElementOfSeq
      <4>3. slots[i].at \in Nat
        BY <4>a
      <4>4. clock \in Nat /\ Window \in Nat
        BY <1>b, <1>c
      <4>5. slots[i].at + Window <= clock + 1
        BY <4>1, <4>3, <4>4
      <4>6. clock' = clock + 1
        BY <2>1
      <4> QED
        BY <4>5, <4>6
    <3> QED
      BY <3>1, <2>1, <1>a DEF HistoryRecent
  <2> QED
    BY <2>1, <2>2, <2>3, <1>a DEF SlotsSpaced, SleepsWhenFull, HeldSinceBefore,
       BoundedOvertaking
<1>8. CASE UNCHANGED limiterVars
  BY <1>8, <1>a DEF limiterVars, LimiterTypeOK, HistoryRecent, SlotsSpaced,
     SleepsWhenFull, HeldSinceBefore, BoundedOvertaking
<1> QED
  BY <1>1, <1>2, <1>3, <1>4, <1>5, <1>6, <1>7, <1>8 DEF LimiterNext

\* A step of the client is a step of the limiter or leaves it alone.
LEMMA ClientStepsLimiter == [Next]_vars => [LimiterNext]_limiterVars
<1> SUFFICES ASSUME [Next]_vars PROVE [LimiterNext]_limiterVars
  OBVIOUS
<1>1. ASSUME NEW r \in Requests, Request(r)
      PROVE  [LimiterNext]_limiterVars
  BY <1>1 DEF Request, AskForSlot, LimiterNext
<1>2. ASSUME NEW r \in Requests, RequestStep(r)
      PROVE  [LimiterNext]_limiterVars
  BY <1>2 DEF RequestStep, Refreshed, AskForSlot, RefreshFails, Send, SharedGrants,
     SharedDenies, Interrupted, Answered, AuthFails, AttemptFails, Resend, LimiterNext
<1>3. ASSUME NEW r \in Requests, TaskCancelled(r)
      PROVE  [LimiterNext]_limiterVars
  BY <1>3 DEF TaskCancelled, LimiterNext
<1>4. CASE Close
  BY <1>4 DEF Close, LimiterNext
<1>5. CASE InitializeRedis \/ StopReturns \/ HttpClosed
  BY <1>5 DEF InitializeRedis, StopReturns, HttpClosed
<1>6. CASE Processor \/ Tick
  BY <1>6 DEF Processor, LimiterNext
<1>7. CASE UNCHANGED vars
  BY <1>7 DEF vars
<1> QED
  BY <1>1, <1>2, <1>3, <1>4, <1>5, <1>6, <1>7 DEF Next

\* The limiter's specification is implemented by the client's: what is proved of
\* one holds of the other.
THEOREM ClientUsesLimiter == Spec => LimiterSpec
<1>1. Init => LimiterInit
  BY DEF Init
<1> QED
  BY <1>1, ClientStepsLimiter, PTL DEF Spec, LimiterSpec

\* The invariant of the limiter holds in every run of the client.
LEMMA LimiterHolds == Spec => []LimiterIInv
BY ClientUsesLimiter, LimiterStarts, LimiterStep, PTL DEF LimiterSpec

\* Any MaxRequests + 1 slots in a row span a Window or more, however requests
\* are cancelled, the processor stopped and started again.
THEOREM LimitIsKept == Spec => []SlotsSpaced
<1>1. LimiterIInv => SlotsSpaced
  BY DEF LimiterIInv, LimiterInv
<1> QED
  BY <1>1, LimiterHolds, PTL

\* A waiting request is overtaken by at most one less urgent request, the one
\* the processor had already popped when it arrived.
THEOREM UrgentRequestsFirst == Spec => []BoundedOvertaking
<1>1. LimiterIInv => BoundedOvertaking
  BY DEF LimiterIInv, LimiterInv
<1> QED
  BY <1>1, LimiterHolds, PTL

-----------------------------------------------------------------------------
(* The client's own variables.                                               *)

\* The variables of the client have their types once it is connected.
LEMMA ClientStarts == Init => ClientTypeOK
<1> SUFFICES ASSUME Init PROVE ClientTypeOK
  OBVIOUS
<1>1. failures \in [Requests -> 0 .. MaxRetries - 1] /\ token \in Nat
  BY ClientAssumption DEF Init
<1>2. distributed \in BOOLEAN /\ remote \subseteq Requests
  BY DEF Init
<1>3. /\ rpc \in [Requests -> {"idle", "refresh", "acquire", "shared", "sent",
                              "backoff", "ended"}]
      /\ conn = "open"
  BY DEF Init
<1> QED
  BY <1>1, <1>2, <1>3 DEF ClientTypeOK

\* Every step of the client keeps its variables of their types: a request makes
\* at most MaxRetries attempts.
LEMMA ClientTypeStep == LimiterTypeOK /\ ClientTypeOK /\ [Next]_vars => ClientTypeOK'
<1> SUFFICES ASSUME LimiterTypeOK, ClientTypeOK, [Next]_vars
             PROVE  ClientTypeOK'
  OBVIOUS
<1>a. MaxRetries \in Nat /\ MaxRetries >= 1 /\ TokenLife \in Nat /\ clock \in Nat
  BY ClientAssumption DEF LimiterTypeOK
<1>1. ASSUME NEW r \in Requests, Request(r)
      PROVE  ClientTypeOK'
  BY <1>1 DEF Request, AskForSlot, Go, ClientTypeOK
<1>2. ASSUME NEW r \in Requests, Refreshed(r)
      PROVE  ClientTypeOK'
  BY <1>2, <1>a DEF Refreshed, AskForSlot, Go, ClientTypeOK
<1>3. ASSUME NEW r \in Requests,
             \/ RefreshFails(r) \/ Send(r) \/ Interrupted(r) \/ Resend(r)
             \/ SharedGrants(r) \/ SharedDenies(r)
      PROVE  ClientTypeOK'
  BY <1>3 DEF RefreshFails, Send, Interrupted, Resend, SharedGrants, SharedDenies,
     Go, ClientTypeOK
<1>4. ASSUME NEW r \in Requests, Answered(r) \/ AuthFails(r)
      PROVE  ClientTypeOK'
  BY <1>4, <1>a DEF Answered, AuthFails, Forget, Go, ClientTypeOK
<1>5. ASSUME NEW r \in Requests, AttemptFails(r)
      PROVE  ClientTypeOK'
  <2>1. failures[r] \in 0 .. MaxRetries - 1
    BY DEF ClientTypeOK
  <2>2. failures' \in [Requests -> 0 .. MaxRetries - 1]
    BY <1>5, <1>a, <2>1 DEF AttemptFails, Forget, ClientTypeOK
  <2> QED
    BY <1>5, <2>2 DEF AttemptFails, Forget, Go, ClientTypeOK
<1>6. ASSUME NEW r \in Requests, TaskCancelled(r)
      PROVE  ClientTypeOK'
  BY <1>6 DEF TaskCancelled, clientVars, ClientTypeOK
<1>7. CASE InitializeRedis \/ Close \/ StopReturns \/ HttpClosed
  BY <1>7 DEF InitializeRedis, Close, StopReturns, HttpClosed, ClientTypeOK
<1>8. CASE UNCHANGED clientVars
  BY <1>8 DEF clientVars, ClientTypeOK
<1>10. UNCHANGED vars => UNCHANGED clientVars
  BY DEF vars
<1>9. ASSUME NEW r \in Requests, RequestStep(r)
      PROVE  ClientTypeOK'
  BY <1>2, <1>3, <1>4, <1>5, <1>9 DEF RequestStep
<1> QED
  BY <1>1, <1>6, <1>7, <1>8, <1>9, <1>10 DEF Next

\* Every variable of the client and of its limiter keeps its type, whatever the
\* requests, limits and lifetimes: no call exceeds its attempts.
THEOREM ClientTypeCorrect == Spec => []TypeOK
<1>1. Init => ClientTypeOK
  BY ClientStarts
<1>2. LimiterIInv => LimiterTypeOK
  BY DEF LimiterIInv
<1>3. LimiterTypeOK /\ ClientTypeOK => TypeOK
  BY DEF TypeOK
<1> QED
  BY <1>1, <1>2, <1>3, LimiterHolds, ClientTypeStep, PTL DEF Spec

\* What the limiter's two promises rest on holds in every state the client can
\* bring it to: the history is the recent end of the record of slots, and a
\* request the processor holds was popped before any later slot was taken.
THEOREM LimiterConsistent == Spec => []LimiterInv
<1>1. LimiterIInv => LimiterInv
  BY DEF LimiterIInv
<1> QED
  BY <1>1, LimiterHolds, PTL

-----------------------------------------------------------------------------
(* Every request passes one limiter, and somebody serves those that wait.    *)

HasSlot(r) == \E i \in 1 .. Len(slots) : slots[i].request = r

\* Where a request is: not made, queued, held by the processor, or on record,
\* and on record once. One that asks the shared limiter, or was let through by
\* it, has never been a call of the client's own.
SlotsUnique ==
    \A i, j \in 1 .. Len(slots) : slots[i].request = slots[j].request => i = j

OnePlaceEach ==
    /\ SlotsUnique
    /\ \A r \in queue : r /= current /\ ~HasSlot(r)
    /\ current /= None => ~HasSlot(current)
    /\ \A r \in Requests :
           /\ call[r] = "idle" => r \notin queue /\ r /= current /\ ~HasSlot(r)
           /\ call[r] = "granted" => HasSlot(r)
           /\ rpc[r] \in {"sent", "backoff"} => call[r] = "granted" \/ r \in remote
           /\ rpc[r] \in {"idle", "refresh", "shared"} => call[r] = "idle"
           /\ r \in remote => call[r] = "idle" /\ rpc[r] \in {"sent", "backoff"}

\* A slot taken by a request without one: it has one then, and so has nobody
\* else who had none.
LEMMA GrantsOnce ==
    ASSUME LimiterTypeOK, SlotsUnique, NEW r \in Requests, ~HasSlot(r),
           slots' = Append(slots, [request |-> r, at |-> clock])
    PROVE  /\ SlotsUnique'
           /\ \A q : HasSlot(q)' <=> HasSlot(q) \/ q = r
<1> DEFINE n == Len(slots)
<1>1. n \in Nat /\ Len(slots') = n + 1
  BY DEF LimiterTypeOK
<1>2. slots'[n + 1].request = r
  BY <1>1 DEF LimiterTypeOK
<1>3. \A i \in 1 .. n : slots'[i] = slots[i]
  BY <1>1 DEF LimiterTypeOK
<1>4. \A i \in 1 .. n : slots'[i].request /= r
  BY <1>3 DEF HasSlot
<1>5. \A i \in 1 .. n + 1 : i \in 1 .. n \/ i = n + 1
  BY <1>1
<1>6. SlotsUnique'
  BY <1>1, <1>2, <1>3, <1>4, <1>5 DEF SlotsUnique
<1>7. ASSUME NEW q PROVE HasSlot(q)' <=> HasSlot(q) \/ q = r
  <2>1. 1 .. n \subseteq 1 .. n + 1 /\ n + 1 \in 1 .. n + 1
    BY <1>1
  <2> QED
    BY <2>1, <1>1, <1>2, <1>3, <1>5 DEF HasSlot
<1> QED
  BY <1>6, <1>7

\* Every step keeps it: one proof step per kind of action.
LEMMA OnePlaceStep ==
    LimiterIInv /\ ClientTypeOK /\ OnePlaceEach /\ [Next]_vars => OnePlaceEach'
<1> SUFFICES ASSUME LimiterIInv, ClientTypeOK, OnePlaceEach, [Next]_vars
             PROVE  OnePlaceEach'
  OBVIOUS
<1>p. rpc = [r \in Requests |-> rpc[r]]
  BY DEF ClientTypeOK
<1> USE DEF LimiterIInv
<1>t. LimiterTypeOK /\ SleepsWhenFull /\ None \notin Requests
  BY LimiterAssumption DEF LimiterInv
<1>s. ASSUME UNCHANGED slots
      PROVE  SlotsUnique' /\ \A q : HasSlot(q)' <=> HasSlot(q)
  BY <1>s DEF OnePlaceEach, SlotsUnique, HasSlot
<1>1. ASSUME NEW r \in Requests, Acquire(r), Go(r, "acquire"),
             rpc[r] \in {"idle", "refresh"}, UNCHANGED remote
      PROVE  OnePlaceEach'
  BY <1>1, <1>s, <1>t, <1>p DEF Acquire, Go, OnePlaceEach, LimiterTypeOK
<1>2. ASSUME UNCHANGED <<queue, current, slots, call>>,
             \A r \in Requests :
                 /\ rpc'[r] \in {"sent", "backoff"} => call[r] = "granted" \/ r \in remote'
                 /\ rpc'[r] \in {"idle", "refresh", "shared"} => call[r] = "idle"
                 /\ r \in remote' => call[r] = "idle" /\ rpc'[r] \in {"sent", "backoff"}
      PROVE  OnePlaceEach'
  BY <1>2, <1>s DEF OnePlaceEach
<1>3. ASSUME NEW r \in Requests, Request(r) PROVE OnePlaceEach'
  <2>0. rpc[r] = "idle" /\ UNCHANGED remote
    BY <1>3 DEF Request
  <2>1. CASE Acquire(r) /\ Go(r, "acquire")
    BY <2>0, <2>1, <1>1
  <2>2. CASE UNCHANGED limiterVars /\ (Go(r, "ended") \/ Go(r, "refresh") \/ Go(r, "shared"))
    BY <2>0, <2>2, <1>2, <1>p DEF limiterVars, Go, OnePlaceEach
  <2> QED
    BY <1>3, <2>1, <2>2 DEF Request, AskForSlot
<1>4. ASSUME NEW r \in Requests, RequestStep(r) PROVE OnePlaceEach'
  <2>1. CASE Refreshed(r)
    <3>1. CASE Acquire(r) /\ Go(r, "acquire")
      BY <2>1, <3>1, <1>1 DEF Refreshed
    <3>2. CASE UNCHANGED limiterVars /\ Go(r, "shared")
      BY <2>1, <3>2, <1>2, <1>p DEF Refreshed, limiterVars, Go, OnePlaceEach
    <3> QED
      BY <2>1, <3>1, <3>2 DEF Refreshed, AskForSlot
  <2>2. CASE RefreshFails(r) \/ Send(r) \/ Interrupted(r) \/ Resend(r)
    BY <2>2, <1>2, <1>p
       DEF RefreshFails, Send, Interrupted, Resend, Go, limiterVars, OnePlaceEach
  <2>3. CASE SharedGrants(r) \/ SharedDenies(r)
    BY <2>3, <1>2, <1>p
       DEF SharedGrants, SharedDenies, Go, limiterVars, OnePlaceEach
  <2>4. CASE Answered(r) \/ AuthFails(r) \/ AttemptFails(r)
    BY <2>4, <1>2, <1>p
       DEF Answered, AuthFails, AttemptFails, Forget, Go, limiterVars, OnePlaceEach
  <2> QED
    BY <1>4, <2>1, <2>2, <2>3, <2>4 DEF RequestStep
<1>5. ASSUME NEW r \in Requests, TaskCancelled(r) PROVE OnePlaceEach'
  BY <1>5, <1>s
     DEF TaskCancelled, CallerCancelled, clientVars, OnePlaceEach, LimiterTypeOK
<1>6. CASE InitializeRedis \/ Close \/ StopReturns \/ HttpClosed
  BY <1>6, <1>2
     DEF InitializeRedis, Close, Stop, StopReturns, HttpClosed, limiterVars, OnePlaceEach
<1>7. ASSUME NEW r \in Requests, Pop(r), UNCHANGED clientVars PROVE OnePlaceEach'
  <2>1. ~HasSlot(r) /\ r \in queue /\ queue' = queue \ {r} /\ r /= None
    BY <1>7, <1>t DEF Pop, OnePlaceEach
  <2>2. current = None
    BY <1>7, <1>t DEF Pop, SleepsWhenFull
  <2>3. CASE UNCHANGED <<slots, call>> /\ current' = r
    BY <2>1, <2>3, <1>7, <1>s DEF OnePlaceEach, clientVars
  <2>4. ASSUME NEW h, Grant(r, h), UNCHANGED current PROVE OnePlaceEach'
    <3>1. SlotsUnique' /\ \A q : HasSlot(q)' <=> HasSlot(q) \/ q = r
      BY <2>1, <2>4, <1>t, GrantsOnce DEF Grant, OnePlaceEach
    <3>2. \A q \in Requests : call'[q] = "granted" => call[q] = "granted" \/ q = r
      BY <2>4, <1>t DEF Grant, LimiterTypeOK
    <3>3. \A q \in Requests : /\ call'[q] = "idle" <=> call[q] = "idle"
                              /\ call[q] = "granted" => call'[q] = "granted"
      BY <2>4, <1>t DEF Grant, LimiterTypeOK
    <3> QED
      BY <2>1, <2>2, <2>4, <3>1, <3>2, <3>3, <1>7 DEF OnePlaceEach, clientVars
  <2> QED
    BY <2>3, <2>4, <1>7 DEF Pop
<1>8. CASE Wake /\ UNCHANGED clientVars
  <2>1. current \in Requests /\ current /= None /\ ~HasSlot(current)
    BY <1>8, <1>t DEF Wake, SleepsWhenFull, OnePlaceEach
  <2>2. SlotsUnique' /\ \A q : HasSlot(q)' <=> HasSlot(q) \/ q = current
    BY <2>1, <1>8, <1>t, GrantsOnce DEF Wake, Grant, OnePlaceEach
  <2>3. \A q \in Requests :
            /\ call'[q] = "granted" => call[q] = "granted" \/ q = current
            /\ call'[q] = "idle" <=> call[q] = "idle"
            /\ call[q] = "granted" => call'[q] = "granted"
    BY <1>8, <1>t DEF Wake, Grant, LimiterTypeOK
  <2>4. queue' = queue /\ current' = None /\ queue \subseteq Requests
    BY <1>8, <1>t DEF Wake, LimiterTypeOK
  <2> QED
    BY <2>1, <2>2, <2>3, <2>4, <1>8, <1>t DEF OnePlaceEach, clientVars
<1>9. CASE ProcessorStops /\ UNCHANGED clientVars
  BY <1>9, <1>s, <1>t
     DEF ProcessorStops, clientVars, OnePlaceEach, LimiterTypeOK
<1>10. CASE (Tick /\ UNCHANGED clientVars) \/ UNCHANGED vars
  BY <1>10, <1>2 DEF Tick, clientVars, limiterVars, vars, OnePlaceEach
<1> QED
  BY <1>3, <1>4, <1>5, <1>6, <1>7, <1>8, <1>9, <1>10 DEF Next, Processor

\* A request that was sent has taken exactly one slot of the client's limiter or
\* was let through by the shared one, never both: however many requests wait,
\* retry, or are cancelled beside it, and whenever the limiter is changed.
THEOREM OneSlotPerRequest == Spec => []SentHoldsSlot
<1>1. Init => OnePlaceEach
  <2>1. Init => Len(slots) = 0 /\ 1 .. Len(slots) = {}
    BY DEF Init, LimiterInit
  <2>2. Init => SlotsUnique /\ \A r : ~HasSlot(r)
    BY <2>1 DEF SlotsUnique, HasSlot
  <2> QED
    BY <2>2, LimiterAssumption DEF Init, LimiterInit, OnePlaceEach
<1>2. OnePlaceEach => SentHoldsSlot
  <2> SUFFICES ASSUME OnePlaceEach, NEW r \in Requests, rpc[r] \in {"sent", "backoff"}
               PROVE  IF r \in remote
                      THEN \A i \in 1 .. Len(slots) : slots[i].request /= r
                      ELSE \E i \in 1 .. Len(slots) :
                               \A j \in 1 .. Len(slots) : slots[j].request = r <=> j = i
    BY DEF SentHoldsSlot
  <2>1. CASE r \in remote
    BY <2>1 DEF OnePlaceEach, HasSlot
  <2>2. CASE r \notin remote
    <3>1. HasSlot(r) /\ SlotsUnique
      BY <2>2 DEF OnePlaceEach
    <3> QED
      BY <2>2, <3>1 DEF HasSlot, SlotsUnique
  <2> QED
    BY <2>1, <2>2
<1>3. (Init => ClientTypeOK) /\ (LimiterIInv => LimiterTypeOK)
  BY ClientStarts DEF LimiterIInv
<1> QED
  BY <1>1, <1>2, <1>3, LimiterHolds, ClientTypeStep, OnePlaceStep, PTL DEF Spec

\* While the client is open nobody stops the processor.
ServedInv ==
    /\ WaitersServed
    /\ conn = "open" => processor /= "stopping"

\* Whoever waits is served after every step: one proof step per action that
\* queues, pops or ends a request or a processor.
LEMMA ServedStep == LimiterIInv /\ ServedInv /\ [Next]_vars => ServedInv'
<1> SUFFICES ASSUME LimiterIInv, ServedInv, [Next]_vars PROVE ServedInv'
  OBVIOUS
<1>t. LimiterTypeOK /\ SleepsWhenFull
  BY DEF LimiterIInv, LimiterInv
<1> USE DEF ServedInv, WaitersServed
<1>1. ASSUME NEW r \in Requests, Acquire(r), UNCHANGED conn PROVE ServedInv'
  BY <1>1, <1>t DEF Acquire, LimiterTypeOK
<1>2. ASSUME UNCHANGED <<queue, current, call, processor>>,
             conn' = "open" => conn = "open"
      PROVE  ServedInv'
  BY <1>2
<1>3. ASSUME NEW r \in Requests, Request(r) \/ RequestStep(r) PROVE ServedInv'
  <2>1. CASE Acquire(r) /\ UNCHANGED conn
    BY <2>1, <1>1
  <2>2. CASE UNCHANGED limiterVars /\ UNCHANGED conn
    BY <2>2, <1>2 DEF limiterVars
  <2> QED
    BY <1>3, <2>1, <2>2
       DEF Request, AskForSlot, RequestStep, Refreshed, RefreshFails, Send,
           SharedGrants, SharedDenies, Interrupted, Answered, AuthFails,
           AttemptFails, Resend
<1>4. ASSUME NEW r \in Requests, TaskCancelled(r) PROVE ServedInv'
  BY <1>4, <1>t DEF TaskCancelled, CallerCancelled, clientVars, LimiterTypeOK
<1>5. CASE Close
  BY <1>5 DEF Close, Stop, limiterVars
<1>6. CASE InitializeRedis \/ StopReturns \/ HttpClosed
  BY <1>6, <1>2 DEF InitializeRedis, StopReturns, HttpClosed, limiterVars
<1>7. ASSUME NEW r \in Requests, Pop(r), UNCHANGED clientVars PROVE ServedInv'
  <2>1. current = None /\ processor = "get" /\ queue' = queue \ {r}
    BY <1>7, <1>t DEF Pop, SleepsWhenFull
  <2>2. CASE processor' = "sleep" /\ current' = r /\ UNCHANGED call
    BY <2>1, <2>2, <1>7, LimiterAssumption DEF clientVars
  <2>3. ASSUME NEW h, Grant(r, h), UNCHANGED <<processor, current>>
        PROVE  ServedInv'
    <3>1. \A q \in Requests : call'[q] = "waiting" => call[q] = "waiting" /\ q /= r
      BY <2>3, <1>t DEF Grant, LimiterTypeOK
    <3>2. \A q \in Requests : q \in queue \union {current} /\ q /= r
                              => q \in queue' \union {current'}
      BY <2>1, <2>3
    <3> QED
      BY <2>1, <2>3, <3>1, <3>2, <1>7 DEF clientVars
  <2> QED
    BY <2>2, <2>3, <1>7 DEF Pop
<1>8. CASE Wake /\ UNCHANGED clientVars
  <2>1. \A q \in Requests : call'[q] = "waiting" => call[q] = "waiting" /\ q /= current
    BY <1>8, <1>t DEF Wake, Grant, LimiterTypeOK, SleepsWhenFull
  <2> QED
    BY <2>1, <1>8 DEF Wake, clientVars
<1>9. CASE ProcessorStops /\ UNCHANGED clientVars
  BY <1>9 DEF ProcessorStops, clientVars
<1>10. CASE (Tick /\ UNCHANGED clientVars) \/ UNCHANGED vars
  BY <1>10, <1>2 DEF Tick, clientVars, limiterVars, vars
<1> QED
  BY <1>3, <1>4, <1>5, <1>6, <1>7, <1>8, <1>9, <1>10 DEF Next, Processor

\* Requests in the queue have a processor that runs, and as long as nobody
\* closes the client every request that waits is in the queue or in its hands.
THEOREM NobodyForgotten == Spec => []WaitersServed
<1>1. Init => ServedInv
  BY DEF Init, LimiterInit, ServedInv, WaitersServed
<1>2. ServedInv => WaitersServed
  BY DEF ServedInv
<1> QED
  BY <1>1, <1>2, LimiterHolds, ServedStep, PTL DEF Spec
=============================================================================
