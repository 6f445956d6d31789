-------------------------- MODULE EventLoop_proofs --------------------------
(***************************************************************************)
(* Proofs about EventLoop, for any number of queues, threads and timers    *)
(* and any bounds.                                                         *)
(***************************************************************************)
EXTENDS EventLoop, SequenceLemmas

\* The smaller of two numbers, as furi_event_loop_run computes ticks_to_sleep.
LEMMA MinOfTwo ==
    ASSUME NEW a \in Nat, NEW b \in Nat
    PROVE  Min({a, b}) \in {a, b}
<1>1. {a, b} \in SUBSET Nat /\ {a, b} # {}
  OBVIOUS
<1>2. QED
  BY <1>1, MinOfNat

\* Modular arithmetic on the tick counter stays in its range.
LEMMA ModRange ==
    ASSUME NEW x \in Int
    PROVE  x % TickMod \in 0 .. TickMod - 1
  BY TimerAssumption

\* The intervals a timer may hold.
LEMMA IntervalFacts ==
    /\ TimerIntervals \subseteq Nat
    /\ 0 \in TimerIntervals
    /\ Intervals \subseteq TimerIntervals
    /\ TimerIntervals \subseteq 0 .. TickMod - 1
    /\ TickMod \in Nat \ {0}
<1>1. \A i \in Intervals : i \in Nat /\ i <= TickMod - 1
  BY TimerAssumption
<1>2. TickMod \in Nat \ {0} /\ 0 <= TickMod - 1
  BY TimerAssumption
<1>3. TimerIntervals \subseteq 0 .. TickMod - 1
  BY <1>1, <1>2 DEF TimerIntervals
<1>4. QED
  BY <1>1, <1>2, <1>3 DEF TimerIntervals

\* The intervals the tick may have.
LEMMA TickFacts ==
    /\ TickSettings \subseteq 0 .. TickMod - 1
    /\ TickSettings \subseteq Nat
    /\ 0 \in TickSettings
<1>1. \A i \in TickIntervals : i \in Nat /\ i <= TickMod - 1
  BY LoopAssumption, TimerAssumption
<1>2. 0 <= TickMod - 1
  BY IntervalFacts
<1>3. QED
  BY <1>1, <1>2, IntervalFacts DEF TickSettings

\* furi_event_loop_schedule_timer links the timer and keeps the others.
LEMMA ScheduleTimer ==
    ASSUME NEW list \in Seq(Timers), NEW t \in Timers, NEW start, NEW itv
    PROVE  LET new == furi_event_loop_schedule_timer(list, t, start, itv)
           IN  /\ new \in Seq(Timers)
               /\ ToSet(new) = ToSet(list) \cup {t}
               /\ IsInjective(list) /\ t \notin ToSet(list) => IsInjective(new)
<1> DEFINE rem(u) == furi_event_loop_timer_get_remaining_time_private(
                         start[u], itv[u])
           I == {i \in 1 .. Len(list) : rem(t) >= rem(list[i])}
           k == IF I # {} THEN Max(I) ELSE 0
<1>1. Len(list) \in Nat
  BY LenProperties
<1>2. k \in 0 .. Len(list)
  <2>1. I \in SUBSET (0 .. Len(list)) /\ I \in SUBSET (1 .. Len(list))
    BY <1>1
  <2> HIDE DEF I
  <2>2. ASSUME I # {}
        PROVE  Max(I) \in I
    BY <1>1, <2>1, <2>2, MaxOfNat
  <2>3. CASE I = {}
    BY <1>1, <2>3
  <2>4. CASE I # {}
    <3>1. Max(I) \in 1 .. Len(list)
      BY <2>1, <2>2, <2>4
    <3>2. k = Max(I)
      BY <2>4
    <3>3. QED
      BY <3>1, <3>2, <1>1
  <2>5. QED
    BY <2>3, <2>4
<1>3. furi_event_loop_schedule_timer(list, t, start, itv) =
          InsertAt(list, k + 1, t)
  BY DEF furi_event_loop_schedule_timer, SelectLastInSeq
<1> HIDE DEF k
<1>4. k + 1 \in 1 .. Len(list) + 1
  BY <1>1, <1>2
<1>5. QED
  BY <1>3, <1>4, InsertList
-----------------------------------------------------------------------------
(* Type correctness.                                                       *)

\* What the steps on timers leave well-typed.
LEMMA RequestType ==
    ASSUME TimerTypeOK, NEW t \in Timers, ExecuteRequest(t)
    PROVE  TimerTypeOK'
<1> USE DEF TimerTypeOK
<1>1. timer_queue' \in Seq(Timers) /\ tick_count' = tick_count
  BY PopList DEF ExecuteRequest
<1>2. Unlinked(t) \in Seq(Timers)
  BY UnlinkList DEF Unlinked
<1>3. CASE ExecuteStart(t)
  <2>1. timer_list' \in Seq(Timers)
    BY <1>2, <1>3, ScheduleTimer DEF ExecuteStart
  <2>2. QED
    BY <2>1, <1>1, <1>3 DEF ExecuteStart, Requests
<1>4. CASE ExecuteStop(t)
  BY <1>1, <1>2, <1>4 DEF ExecuteStop, Requests
<1>5. CASE ExecuteFree(t)
  BY <1>1, <1>2, <1>5, IntervalFacts DEF ExecuteFree, Requests
<1>6. QED
  BY <1>3, <1>4, <1>5 DEF ExecuteRequest

LEMMA SkippedType ==
    ASSUME TimerTypeOK, NEW t \in Timers
    PROVE  /\ interval[t] \in Nat
           /\ furi_event_loop_timer_get_elapsed_time(t) \in 0 .. TickMod - 1
           /\ Skipped(t) \in Nat
<1>1. interval[t] \in Nat /\ tick_count - start_time[t] \in Int
  <2>1. interval[t] \in TimerIntervals /\ start_time[t] \in 0 .. TickMod - 1
    BY DEF TimerTypeOK
  <2>2. interval[t] \in Nat
    BY <2>1, IntervalFacts
  <2>3. tick_count - start_time[t] \in Int
    BY <2>1, IntervalFacts DEF TimerTypeOK
  <2>4. QED
    BY <2>2, <2>3
<1>2. furi_event_loop_timer_get_elapsed_time(t) \in 0 .. TickMod - 1
  BY <1>1, ModRange DEF furi_event_loop_timer_get_elapsed_time
<1>3. Skipped(t) \in Nat
  <2>1. CASE interval[t] = 0
    BY <2>1 DEF Skipped
  <2>2. CASE interval[t] # 0
    <3> DEFINE d == furi_event_loop_timer_get_elapsed_time(t) \div interval[t]
    <3>1. d \in Nat
      BY <1>1, <1>2, <2>2, IntervalFacts
    <3> HIDE DEF d
    <3>2. interval[t] * d \in Nat
      BY <3>1, <1>1
    <3>3. QED
      BY <3>2, <2>2 DEF Skipped, d
  <2>3. QED
    BY <2>1, <2>2
<1>4. QED
  BY <1>1, <1>2, <1>3

LEMMA ExpiredType ==
    ASSUME TimerTypeOK, NEW t \in Timers,
           furi_event_loop_process_expired_timers(t)
    PROVE  TimerTypeOK'
<1> USE DEF TimerTypeOK
<1>1. timer_list # <<>> /\ Tail(timer_list) \in Seq(Timers)
  BY PopList DEF furi_event_loop_process_expired_timers, FrontExpired
<1>2. Skipped(t) \in Int /\ start_time[t] \in Int /\ age[t] \in Int
  BY SkippedType, IntervalFacts
<1> DEFINE x == (start_time[t] + Skipped(t)) % TickMod
           y == age[t] - Skipped(t)
<1>3. x \in 0 .. TickMod - 1 /\ y \in Int
  <2> DEFINE z == start_time[t] + Skipped(t)
  <2>1. z \in Int /\ y \in Int
    BY <1>2
  <2> HIDE DEF z
  <2>2. z % TickMod \in 0 .. TickMod - 1
    BY <2>1, ModRange
  <2>3. QED
    BY <2>1, <2>2 DEF z
<1>4. timer_list' \in Seq(Timers)
  <2>1. \/ timer_list' = Tail(timer_list)
        \/ timer_list' = furi_event_loop_schedule_timer(
                             Tail(timer_list), t, start_time', interval)
    BY DEF furi_event_loop_process_expired_timers
  <2>2. furi_event_loop_schedule_timer(
            Tail(timer_list), t, start_time', interval) \in Seq(Timers)
    BY <1>1, ScheduleTimer
  <2>3. QED
    BY <1>1, <2>1, <2>2
<1>5. start_time' \in [Timers -> 0 .. TickMod - 1] /\ age' \in [Timers -> Int]
  <2>1. \/ start_time' = start_time
        \/ start_time' = [start_time EXCEPT ![t] = x]
    BY DEF furi_event_loop_process_expired_timers
  <2>2. \/ age' = [age EXCEPT ![t] = y]
        \/ age' = [age EXCEPT ![t] = 0]
    BY DEF furi_event_loop_process_expired_timers
  <2> HIDE DEF x, y
  <2>3. start_time' \in [Timers -> 0 .. TickMod - 1]
    BY <1>3, <2>1
  <2>4. age' \in [Timers -> Int]
    BY <1>3, <2>2
  <2>5. QED
    BY <2>3, <2>4
<1>6. QED
  BY <1>4, <1>5 DEF furi_event_loop_process_expired_timers

LEMMA EnqueueType ==
    ASSUME TimerTypeOK, NEW t \in Timers, NEW req \in Requests,
           furi_event_loop_timer_enqueue_request(t, req),
           next_interval' \in [Timers -> TimerIntervals]
    PROVE  TimerTypeOK'
<1> USE DEF TimerTypeOK
<1>1. RemoveFirst(timer_queue, t) \in Seq(Timers)
  BY UnlinkList
<1>2. timer_queue' \in Seq(Timers)
  BY <1>1, AppendList DEF furi_event_loop_timer_enqueue_request
<1>3. QED
  BY <1>2 DEF furi_event_loop_timer_enqueue_request

LEMMA TimerCallType ==
    ASSUME TimerTypeOK, NEW t \in Timers, TimerCall(t)
    PROVE  TimerTypeOK'
<1> USE DEF TimerTypeOK
<1>1. ASSUME NEW p \in BOOLEAN, furi_event_loop_timer_alloc(t, p)
      PROVE  TimerTypeOK'
  BY <1>1 DEF furi_event_loop_timer_alloc
<1>2. ASSUME NEW i \in Intervals, furi_event_loop_timer_start(t, i)
      PROVE  TimerTypeOK'
  BY <1>2, EnqueueType, IntervalFacts DEF furi_event_loop_timer_start, Requests
<1>3. ASSUME furi_event_loop_timer_restart(t)
      PROVE  TimerTypeOK'
  BY <1>3, EnqueueType DEF furi_event_loop_timer_restart, Requests
<1>4. ASSUME furi_event_loop_timer_stop(t) \/ furi_event_loop_timer_free(t)
      PROVE  TimerTypeOK'
  BY <1>4, EnqueueType
     DEF furi_event_loop_timer_stop, furi_event_loop_timer_free, Requests
<1>5. QED
  BY <1>1, <1>2, <1>3, <1>4 DEF TimerCall

\* Steps that leave a group of variables alone.
LEMMA TimersKept == TimerTypeOK /\ UNCHANGED timerVars => TimerTypeOK'
  BY DEF timerVars, timerFields, TimerTypeOK

LEMMA QueuesKept == QueueTypeOK /\ UNCHANGED queueVars => QueueTypeOK'
  BY DEF queueVars, QueueTypeOK

LEMMA LoopKept == LoopTypeOK /\ UNCHANGED loopVars => LoopTypeOK'
  BY DEF loopVars, LoopTypeOK

\* The sets of types.
LEMMA TypeFacts ==
    /\ None \in Served /\ Queues \subseteq Served /\ Timers \subseteq Served
    /\ None \in Subscriptions /\ Events \subseteq Subscriptions
    /\ Freed \in Items /\ Queues \subseteq Items
    /\ \A x \in Items : x # Freed => x \in Queues
    /\ None \in Notices
    /\ \A q \in Queues, e \in Events : <<q, e>> \in Notices
    /\ Loop \in Callers
  BY DEF Served, Subscriptions, Items, Notices, Callers

\* Giving flags back at the end of a round.
LEMMA NextRoundType ==
    ASSUME LoopTypeOK, NEW also \in SUBSET Flags, NextRound(also),
           consumed' \in BOOLEAN
    PROVE  LoopTypeOK'
  BY TypeFacts DEF LoopTypeOK, NextRound, Places

\* Linking an item to the waiting list.
LEMMA LinkItemType ==
    ASSUME QueueTypeOK, NEW q \in Queues, LinkItem(q)
    PROVE  waiting_list' \in Seq(Items) /\ ub' \in BOOLEAN
<1>1. Append(waiting_list, q) \in Seq(Items)
  BY AppendList, TypeFacts DEF QueueTypeOK
<1>2. QED
  BY <1>1 DEF QueueTypeOK, LinkItem

\* Counting a call.
LEMMA CanCallType ==
    ASSUME TypeOK, NEW c \in Callers, NEW consuming, CanCall(c, consuming)
    PROVE  calls' \in [Callers -> Nat] /\ consumed' \in BOOLEAN
<1>1. calls[c] + 1 \in Nat
  BY DEF TypeOK, RestTypeOK
<1>2. calls' \in [Callers -> Nat]
  BY <1>1 DEF TypeOK, RestTypeOK, CanCall
<1>3. consumed' \in BOOLEAN
  BY DEF TypeOK, LoopTypeOK, CanCall
<1>4. QED
  BY <1>2, <1>3

LEMMA InitType == Init => TypeOK
<1> SUFFICES ASSUME Init PROVE TypeOK
  OBVIOUS
<1>1. TimerTypeOK
  BY IntervalFacts DEF Init, TimerInit, TimerTypeOK, Requests
<1>2. LoopTypeOK
  BY TypeFacts DEF Init, LoopTypeOK, Places, UserCode
<1>3. QueueTypeOK
  <2>1. 0 \in 0 .. Capacity
    BY LoopAssumption
  <2>2. count \in [Queues -> 0 .. Capacity]
    BY <2>1 DEF Init
  <2>3. sub \in [Queues -> Subscriptions] /\ owe \in [Callers -> Notices]
    BY TypeFacts DEF Init
  <2>4. waiting_list \in Seq(Items)
    BY EmptySeq DEF Init
  <2>5. ub \in BOOLEAN
    BY DEF Init
  <2>6. QED
    BY <2>2, <2>3, <2>4, <2>5 DEF QueueTypeOK
<1>4. RestTypeOK
  BY IntervalFacts, TickFacts DEF Init, RestTypeOK, Ticks
<1>5. QED
  BY <1>1, <1>2, <1>3, <1>4 DEF TypeOK

\* ticks_to_sleep is a tick count.
LEMMA WaitTimeType ==
    ASSUME TypeOK
    PROVE  Min({furi_event_loop_get_timer_wait_time,
                furi_event_loop_get_tick_wait_time}) \in 0 .. TickMod - 1
<1> DEFINE a == furi_event_loop_get_timer_wait_time
           b == furi_event_loop_get_tick_wait_time
<1>1. FuriWaitForever \in 0 .. TickMod - 1
  BY IntervalFacts DEF FuriWaitForever
<1>2. a \in 0 .. TickMod - 1
  <2>1. CASE timer_list = <<>>
    BY <1>1, <2>1 DEF furi_event_loop_get_timer_wait_time
  <2>2. CASE timer_list # <<>>
    <3> DEFINE t == Head(timer_list)
               elapsed == (tick_count - start_time[t]) % TickMod
    <3>1. t \in Timers
      BY <2>2, PopList DEF TypeOK, TimerTypeOK
    <3>2. elapsed \in 0 .. TickMod - 1
      BY <3>1, SkippedType
         DEF TypeOK, furi_event_loop_timer_get_elapsed_time
    <3>3. interval[t] \in 0 .. TickMod - 1
      BY <3>1, IntervalFacts DEF TypeOK, TimerTypeOK
    <3> HIDE DEF t, elapsed
    <3>4. (IF elapsed < interval[t] THEN interval[t] - elapsed ELSE 0)
              \in 0 .. TickMod - 1
      BY <3>2, <3>3, IntervalFacts
    <3>5. QED
      BY <2>2, <3>4 DEF furi_event_loop_get_timer_wait_time, t, elapsed,
         furi_event_loop_timer_get_remaining_time,
         furi_event_loop_timer_get_remaining_time_private
  <2>3. QED
    BY <2>1, <2>2
<1>3. b \in 0 .. TickMod - 1
  <2>1. tick.interval \in 0 .. TickMod - 1 /\ tick.prev_time \in 0 .. TickMod - 1
    BY TickFacts DEF TypeOK, RestTypeOK, Ticks
  <2>2. tick_count - tick.prev_time \in Int
    BY <2>1, IntervalFacts DEF TypeOK, TimerTypeOK
  <2>3. TickElapsed \in 0 .. TickMod - 1
    BY <2>2, ModRange DEF TickElapsed
  <2>4. (IF TickElapsed < tick.interval THEN tick.interval - TickElapsed ELSE 0)
            \in 0 .. TickMod - 1
    BY <2>1, <2>3, IntervalFacts
  <2>5. QED
    BY <1>1, <2>4 DEF furi_event_loop_get_tick_wait_time
<1> HIDE DEF a, b
<1>4. Min({a, b}) \in {a, b}
  BY <1>2, <1>3, MinOfTwo, IntervalFacts
<1>5. QED
  BY <1>2, <1>3, <1>4 DEF a, b

\* The tick's next due time.
LEMMA NextTickType ==
    ASSUME TypeOK
    PROVE  [tick EXCEPT !.prev_time = (@ + tick.interval) % TickMod] \in Ticks
<1> DEFINE x == tick.prev_time + tick.interval
<1>1. tick.interval \in TickSettings /\ tick.prev_time \in 0 .. TickMod - 1
  BY DEF TypeOK, RestTypeOK, Ticks
<1>2. x \in Int
  <2>1. tick.interval \in Nat
    BY <1>1, TickFacts
  <2>2. tick.prev_time \in Nat
    BY <1>1, IntervalFacts
  <2>3. QED
    BY <2>1, <2>2
<1> HIDE DEF x
<1>3. x % TickMod \in 0 .. TickMod - 1
  BY <1>2, ModRange
<1> DEFINE y == x % TickMod
<1> HIDE DEF y
<1>4. [tick EXCEPT !.prev_time = y] \in Ticks
  BY <1>3 DEF TypeOK, RestTypeOK, Ticks, y
<1>5. QED
  BY <1>4 DEF x, y

\* Calls of user code.
LEMMA UserCallType ==
    ASSUME TypeOK, UserCall
    PROVE  /\ calls' \in [Callers -> Nat]
           /\ flags' \subseteq Flags => LoopTypeOK'
<1>1. calls' \in [Callers -> Nat] /\ consumed' \in BOOLEAN
  BY CanCallType, TypeFacts DEF UserCall
<1>2. QED
  BY <1>1 DEF TypeOK, LoopTypeOK, UserCall

\* The front of the waiting list becomes the item being served.
LEMMA PopWaitingType ==
    ASSUME TypeOK, PopWaiting
    PROVE  LoopTypeOK' /\ QueueTypeOK'
<1>1. CASE waiting_list = <<>> /\ NextRound({}) /\ UNCHANGED <<waiting_list, ub>>
  <2>1. LoopTypeOK'
    BY <1>1, NextRoundType DEF TypeOK, PopWaiting, LoopTypeOK
  <2>2. QED
    BY <1>1, <2>1 DEF TypeOK, QueueTypeOK, PopWaiting, LoopStep
<1>2. CASE waiting_list # <<>> /\ PopTouchesFreed
  BY <1>2 DEF TypeOK, PopWaiting, LoopStep, LoopTypeOK, QueueTypeOK
<1>3. CASE waiting_list # <<>> /\ ~PopTouchesFreed
  <2>1. Head(waiting_list) \in Items /\ Tail(waiting_list) \in Seq(Items)
    BY <1>3, PopList DEF TypeOK, QueueTypeOK
  <2>2. Head(waiting_list) = waiting_list[1] /\ 1 <= Len(waiting_list)
    BY <1>3, EmptySeq, LenProperties DEF TypeOK, QueueTypeOK
  <2>3. Head(waiting_list) \in Queues
    BY <2>1, <2>2, <1>3, TypeFacts DEF PopTouchesFreed
  <2>4. LoopTypeOK'
    BY <1>3, <2>3, TypeFacts DEF TypeOK, PopWaiting, LoopTypeOK, Places
  <2>5. QED
    BY <1>3, <2>1, <2>4 DEF TypeOK, PopWaiting, LoopStep, QueueTypeOK
<1>4. QED
  BY <1>1, <1>2, <1>3 DEF PopWaiting

\* Polling an item.
LEMMA PollType ==
    ASSUME TypeOK, furi_event_loop_poll_process_event
    PROVE  LoopTypeOK'
<1>1. CASE NextRound({}) /\ UNCHANGED consumed
  BY <1>1, NextRoundType DEF TypeOK, LoopTypeOK
<1>2. CASE /\ pc' = "item_cb" /\ consumed' = FALSE
           /\ UNCHANGED <<flags, held, cur>>
  BY <1>2 DEF TypeOK, LoopTypeOK, Places, UserCode,
     furi_event_loop_poll_process_event
<1>3. QED
  BY <1>1, <1>2 DEF furi_event_loop_poll_process_event

\* An item callback returns.
LEMMA ItemReturnsType ==
    ASSUME TypeOK, ItemCallbackReturns
    PROVE  LoopTypeOK' /\ QueueTypeOK'
<1>1. cur \in Queues /\ consumed' = FALSE
  BY DEF ItemCallbackReturns, TypeOK, LoopTypeOK
<1>2. CASE pc' = "poll" /\ UNCHANGED <<flags, held, cur, waiting_list, ub>>
  BY <1>1, <1>2 DEF TypeOK, LoopTypeOK, QueueTypeOK, Places,
     ItemCallbackReturns, LoopStep
<1>3. CASE NextRound({"Event"}) /\ LinkItem(cur)
  <2>1. LoopTypeOK'
    BY <1>1, <1>3, NextRoundType DEF TypeOK, Flags
  <2>2. waiting_list' \in Seq(Items) /\ ub' \in BOOLEAN
    BY <1>1, <1>3, LinkItemType DEF TypeOK
  <2>3. QED
    BY <2>1, <2>2 DEF TypeOK, QueueTypeOK, ItemCallbackReturns, LoopStep
<1>4. QED
  BY <1>2, <1>3 DEF ItemCallbackReturns

\* Pending callbacks: a request is executed, one is pended, one returns.
LEMMA PendingType ==
    ASSUME TypeOK
    PROVE  /\ \A t \in Timers :
                 [i \in DOMAIN pending_queue |->
                     [pending_queue[i] EXCEPT !.preceding = @ \ {t}]]
                         \in Seq(Pended)
           /\ <<[preceding |-> ToSet(timer_queue), nested |-> pc = "pend_cb"]>>
                  \o pending_queue \in Seq(Pended)
           /\ Front(pending_queue) \in Seq(Pended)
<1> DEFINE S == Pended
<1>1. /\ pending_queue \in Seq(S)
      /\ Len(pending_queue) \in Nat
      /\ DOMAIN pending_queue = 1 .. Len(pending_queue)
      /\ \A i \in 1 .. Len(pending_queue) : pending_queue[i] \in S
  <2>1. pending_queue \in Seq(S)
    BY DEF TypeOK, RestTypeOK
  <2> HIDE DEF S
  <2>2. QED
    BY <2>1, LenProperties, ElementOfSeq
<1>2. ASSUME NEW t \in Timers
      PROVE  [i \in DOMAIN pending_queue |->
                 [pending_queue[i] EXCEPT !.preceding = @ \ {t}]] \in Seq(S)
  <2> DEFINE f == [i \in 1 .. Len(pending_queue) |->
                      [pending_queue[i] EXCEPT !.preceding = @ \ {t}]]
  <2>1. \A e \in S : [e EXCEPT !.preceding = @ \ {t}] \in S
    BY DEF Pended
  <2> HIDE DEF S
  <2>2. f \in [1 .. Len(pending_queue) -> S]
    BY <1>1, <2>1
  <2> HIDE DEF f
  <2>3. f \in Seq(S)
    BY <2>2, <1>1, SeqDef
  <2>4. QED
    BY <2>3, <1>1 DEF f
<1>3. <<[preceding |-> ToSet(timer_queue), nested |-> pc = "pend_cb"]>>
          \o pending_queue \in Seq(S)
  <2> DEFINE new == [preceding |-> ToSet(timer_queue), nested |-> pc = "pend_cb"]
  <2>1. ToSet(timer_queue) \in SUBSET Timers
    BY LenProperties DEF TypeOK, TimerTypeOK, ToSet
  <2>2. new \in S
    BY <2>1 DEF Pended
  <2> HIDE DEF S, new
  <2>3. <<new>> \in Seq(S)
    BY <2>2
  <2>4. <<new>> \o pending_queue \in Seq(S)
    BY <1>1, <2>3, ConcatProperties
  <2>5. QED
    BY <2>4 DEF new
<1>4. Front(pending_queue) \in Seq(S)
  <2> HIDE DEF S
  <2>1. \A i \in 1 .. Len(pending_queue) - 1 : pending_queue[i] \in S
    BY <1>1
  <2>2. 1 \in Int /\ Len(pending_queue) - 1 \in Int
    BY <1>1
  <2>3. SubSeq(pending_queue, 1, Len(pending_queue) - 1) \in Seq(S)
    BY <2>1, <2>2, SubSeqProperties
  <2>4. QED
    BY <2>3 DEF Front
<1>5. QED
  BY <1>2, <1>3, <1>4

\* Beginning and ending of the calls of pending callbacks.
LEMMA PendType ==
    ASSUME TypeOK, furi_event_loop_process_pending_callbacks
    PROVE  LoopTypeOK'
<1>1. CASE NextRound({})
  BY <1>1, NextRoundType DEF TypeOK, LoopTypeOK,
     furi_event_loop_process_pending_callbacks
<1>2. CASE pc' = "pend_cb" /\ UNCHANGED <<flags, held, cur>>
  BY <1>2 DEF TypeOK, LoopTypeOK, Places, UserCode,
     furi_event_loop_process_pending_callbacks
<1>3. QED
  BY <1>1, <1>2 DEF furi_event_loop_process_pending_callbacks

\* Subscribing and unsubscribing.
LEMMA SubscribeType ==
    ASSUME TypeOK, NEW q \in Queues, NEW e \in Events,
           furi_event_loop_message_queue_subscribe(q, e)
    PROVE  LoopTypeOK' /\ QueueTypeOK'
<1>1. /\ waiting_list' \in Seq(Items) /\ ub' \in BOOLEAN
      /\ flags' \subseteq Flags
  <2>1. CASE furi_event_loop_item_notify(q)
    BY <2>1, LinkItemType
       DEF TypeOK, LoopTypeOK, furi_event_loop_item_notify, Notify, Flags
  <2>2. CASE UNCHANGED <<flags, waiting_list, ub>>
    BY <2>2 DEF TypeOK, LoopTypeOK, QueueTypeOK
  <2>3. QED
    BY <2>1, <2>2 DEF furi_event_loop_message_queue_subscribe
<1>2. LoopTypeOK'
  BY <1>1, UserCallType DEF furi_event_loop_message_queue_subscribe
<1>3. sub' \in [Queues -> Subscriptions]
  BY TypeFacts DEF TypeOK, QueueTypeOK, furi_event_loop_message_queue_subscribe
<1>4. QED
  BY <1>1, <1>2, <1>3 DEF TypeOK, QueueTypeOK, UserCall,
     furi_event_loop_message_queue_subscribe

LEMMA UnsubscribeType ==
    ASSUME TypeOK, NEW q \in Queues,
           furi_event_loop_message_queue_unsubscribe(q)
    PROVE  QueueTypeOK'
<1>1. waiting_list' \in Seq(Items)
  BY ReplaceInList, TypeFacts
     DEF TypeOK, QueueTypeOK, furi_event_loop_message_queue_unsubscribe
<1>2. sub' \in [Queues -> Subscriptions]
  BY TypeFacts
     DEF TypeOK, QueueTypeOK, furi_event_loop_message_queue_unsubscribe
<1>3. QED
  BY <1>1, <1>2 DEF TypeOK, QueueTypeOK, UserCall,
     furi_event_loop_message_queue_unsubscribe

\* The part of put, get and reset that they have in common.
LEMMA QueueAccessType ==
    ASSUME TypeOK, NEW c \in Callers, NEW consuming, NEW q \in Queues,
           NEW e \in Events, NEW n \in 0 .. Capacity, CanCall(c, consuming),
           count' = [count EXCEPT ![q] = n], QueueAccess(c, q, e)
    PROVE  TypeOK'
<1>1. calls' \in [Callers -> Nat] /\ consumed' \in BOOLEAN
  BY CanCallType
<1>2. owe' \in [Callers -> Notices]
  BY TypeFacts DEF TypeOK, QueueTypeOK, QueueAccess
<1>3. QueueTypeOK'
  BY <1>2 DEF TypeOK, QueueTypeOK, QueueAccess
<1>4. LoopTypeOK'
  BY <1>1 DEF TypeOK, LoopTypeOK, QueueAccess
<1>5. RestTypeOK'
  BY <1>1 DEF TypeOK, RestTypeOK, QueueAccess
<1>6. TimerTypeOK'
  BY TimersKept DEF TypeOK, QueueAccess
<1>7. QED
  BY <1>3, <1>4, <1>5, <1>6 DEF TypeOK

LEMMA QueueCallType ==
    ASSUME TypeOK, NEW c \in Callers, NEW q \in Queues,
           \/ furi_message_queue_put(c, q)
           \/ furi_message_queue_get(c, q)
           \/ furi_message_queue_reset(c, q)
    PROVE  TypeOK'
<1>1. count[q] \in 0 .. Capacity /\ Capacity \in Nat \ {0}
  BY LoopAssumption DEF TypeOK, QueueTypeOK
<1>2. CASE furi_message_queue_put(c, q)
  <2>1. count[q] + 1 \in 0 .. Capacity
    BY <1>1, <1>2 DEF furi_message_queue_put
  <2>2. QED
    BY <2>1, <1>2, QueueAccessType DEF furi_message_queue_put, Events
<1>3. CASE furi_message_queue_get(c, q)
  <2>1. count[q] - 1 \in 0 .. Capacity
    BY <1>1, <1>3 DEF furi_message_queue_get
  <2>2. QED
    BY <2>1, <1>3, QueueAccessType DEF furi_message_queue_get, Events
<1>4. CASE furi_message_queue_reset(c, q)
  <2>1. 0 \in 0 .. Capacity
    BY <1>1
  <2>2. QED
    BY <2>1, <1>4, QueueAccessType DEF furi_message_queue_reset, Events
<1>5. QED
  BY <1>2, <1>3, <1>4

LEMMA LinkNotifyType ==
    ASSUME TypeOK, NEW c \in Callers, furi_event_loop_link_notify(c)
    PROVE  TypeOK'
<1> DEFINE q == owe[c][1]
           e == owe[c][2]
<1>1. q \in Queues
  BY DEF TypeOK, QueueTypeOK, Notices, furi_event_loop_link_notify
<1>2. /\ waiting_list' \in Seq(Items) /\ ub' \in BOOLEAN
      /\ flags' \subseteq Flags
  <2>1. CASE furi_event_loop_item_notify(q)
    BY <1>1, <2>1, LinkItemType
       DEF TypeOK, LoopTypeOK, furi_event_loop_item_notify, Notify, Flags
  <2>2. CASE UNCHANGED <<flags, waiting_list, ub>>
    BY <2>2 DEF TypeOK, LoopTypeOK, QueueTypeOK
  <2>3. QED
    BY <2>1, <2>2 DEF furi_event_loop_link_notify
<1>3. TimerTypeOK'
  BY TimersKept DEF TypeOK, furi_event_loop_link_notify
<1>4. LoopTypeOK'
  BY <1>2 DEF TypeOK, LoopTypeOK, furi_event_loop_link_notify
<1>5. owe' \in [Callers -> Notices]
  BY TypeFacts DEF TypeOK, QueueTypeOK, furi_event_loop_link_notify
<1>6. QueueTypeOK'
  BY <1>2, <1>5 DEF TypeOK, QueueTypeOK, furi_event_loop_link_notify
<1>7. RestTypeOK'
  BY DEF TypeOK, RestTypeOK, furi_event_loop_link_notify
<1>8. QED
  BY <1>3, <1>4, <1>6, <1>7 DEF TypeOK

\* The tick interrupt.
LEMMA TickType ==
    ASSUME TypeOK, Tick
    PROVE  TypeOK'
<1>1. tick_count' \in 0 .. TickMod - 1
  <2>1. tick_count + 1 \in Int
    BY IntervalFacts DEF TypeOK, TimerTypeOK
  <2>2. (tick_count + 1) % TickMod \in 0 .. TickMod - 1
    BY <2>1, ModRange
  <2>3. QED
    BY <2>2 DEF Tick, TickTimers
<1>2. age' \in [Timers -> Int]
  <2>1. \A t \in Timers : age[t] \in Int
    BY DEF TypeOK, TimerTypeOK
  <2>2. QED
    BY <2>1 DEF Tick, TickTimers
<1>3. TimerTypeOK'
  BY <1>1, <1>2 DEF TypeOK, TimerTypeOK, Tick, TickTimers
<1>4. LoopTypeOK' /\ QueueTypeOK'
  BY LoopKept, QueuesKept DEF TypeOK, Tick
<1>5. sleep' \in 0 .. TickMod - 1
  BY IntervalFacts DEF TypeOK, RestTypeOK, Tick
<1>6. RestTypeOK'
  BY <1>5 DEF TypeOK, RestTypeOK, Tick
<1>7. QED
  BY <1>3, <1>4, <1>6 DEF TypeOK

\* The steps of the loop preserve its types: one step per action, one below
\* it per group of variables.
LEMMA NextType == TypeOK /\ [Next]_vars => TypeOK'
<1> SUFFICES ASSUME TypeOK, [Next]_vars PROVE TypeOK'
  OBVIOUS
<1> USE DEF TypeOK
<1>1. CASE UNCHANGED vars
  BY <1>1, TimersKept, QueuesKept, LoopKept DEF vars, RestTypeOK
<1>2. CASE EnterWait
  <2>1. TimerTypeOK'
    BY <1>2, TimersKept DEF EnterWait
  <2>2. LoopTypeOK'
    BY <1>2, TypeFacts DEF EnterWait, LoopTypeOK, Places, UserCode
  <2>3. QueueTypeOK'
    BY <1>2, QueuesKept DEF EnterWait, LoopStep, queueVars
  <2>4. RestTypeOK'
    BY <1>2, WaitTimeType DEF EnterWait, LoopStep, RestTypeOK
  <2>5. QED
    BY <2>1, <2>2, <2>3, <2>4
<1>3. CASE Wake
  <2>1. TimerTypeOK'
    BY <1>3, TimersKept DEF Wake
  <2>2. LoopTypeOK'
    BY <1>3 DEF Wake, ServeFlag, LoopTypeOK, Places, UserCode, Flags
  <2>3. QueueTypeOK'
    BY <1>3, QueuesKept DEF Wake, LoopStep, queueVars
  <2>4. RestTypeOK'
    BY <1>3, IntervalFacts DEF Wake, LoopStep, RestTypeOK
  <2>5. QED
    BY <2>1, <2>2, <2>3, <2>4
<1>4. CASE PopWaiting
  <2>1. TimerTypeOK'
    BY <1>4, TimersKept DEF PopWaiting
  <2>2. LoopTypeOK'
    BY <1>4, PopWaitingType
  <2>3. QueueTypeOK'
    BY <1>4, PopWaitingType
  <2>4. RestTypeOK'
    BY <1>4 DEF PopWaiting, LoopStep, RestTypeOK
  <2>5. QED
    BY <2>1, <2>2, <2>3, <2>4
<1>5. CASE furi_event_loop_poll_process_event
  <2>1. TimerTypeOK'
    BY <1>5, TimersKept DEF furi_event_loop_poll_process_event
  <2>2. LoopTypeOK'
    BY <1>5, PollType
  <2>3. QueueTypeOK'
    BY <1>5, QueuesKept DEF furi_event_loop_poll_process_event, LoopStep,
       queueVars
  <2>4. RestTypeOK'
    BY <1>5 DEF furi_event_loop_poll_process_event, LoopStep, RestTypeOK
  <2>5. QED
    BY <2>1, <2>2, <2>3, <2>4
<1>6. CASE ItemCallbackReturns
  <2>1. TimerTypeOK'
    BY <1>6, TimersKept DEF ItemCallbackReturns
  <2>2. LoopTypeOK'
    BY <1>6, ItemReturnsType
  <2>3. QueueTypeOK'
    BY <1>6, ItemReturnsType
  <2>4. RestTypeOK'
    BY <1>6 DEF ItemCallbackReturns, LoopStep, RestTypeOK
  <2>5. QED
    BY <2>1, <2>2, <2>3, <2>4
<1>7. CASE furi_event_loop_process_timer_queue
  <2>1. TimerTypeOK'
    BY <1>7, RequestType DEF furi_event_loop_process_timer_queue
  <2>2. LoopTypeOK'
    BY <1>7, LoopKept DEF furi_event_loop_process_timer_queue
  <2>3. QueueTypeOK'
    BY <1>7, QueuesKept DEF furi_event_loop_process_timer_queue, LoopStep,
       queueVars
  <2>4. RestTypeOK'
    BY <1>7, PendingType DEF furi_event_loop_process_timer_queue, LoopStep,
       RestTypeOK
  <2>5. QED
    BY <2>1, <2>2, <2>3, <2>4
<1>8. CASE TimerQueueProcessed
  <2>1. TimerTypeOK'
    BY <1>8, TimersKept DEF TimerQueueProcessed
  <2>2. LoopTypeOK'
    BY <1>8, NextRoundType DEF TimerQueueProcessed, LoopTypeOK
  <2>3. QueueTypeOK'
    BY <1>8, QueuesKept DEF TimerQueueProcessed, LoopStep, queueVars
  <2>4. RestTypeOK'
    BY <1>8 DEF TimerQueueProcessed, LoopStep, RestTypeOK
  <2>5. QED
    BY <2>1, <2>2, <2>3, <2>4
<1>9. CASE furi_event_loop_process_pending_callbacks
  <2>1. TimerTypeOK'
    BY <1>9, TimersKept DEF furi_event_loop_process_pending_callbacks
  <2>2. LoopTypeOK'
    BY <1>9, PendType
  <2>3. QueueTypeOK'
    BY <1>9, QueuesKept DEF furi_event_loop_process_pending_callbacks,
       LoopStep, queueVars
  <2>4. RestTypeOK'
    BY <1>9 DEF furi_event_loop_process_pending_callbacks, LoopStep,
       RestTypeOK
  <2>5. QED
    BY <2>1, <2>2, <2>3, <2>4
<1>10. CASE PendingCallbackReturns
  <2>1. TimerTypeOK'
    BY <1>10, TimersKept DEF PendingCallbackReturns
  <2>2. LoopTypeOK'
    BY <1>10, TypeFacts DEF PendingCallbackReturns, LoopTypeOK, Places,
       UserCode
  <2>3. QueueTypeOK'
    BY <1>10, QueuesKept DEF PendingCallbackReturns, LoopStep, queueVars
  <2>4. RestTypeOK'
    BY <1>10, PendingType DEF PendingCallbackReturns, LoopStep, RestTypeOK
  <2>5. QED
    BY <2>1, <2>2, <2>3, <2>4
<1>11. ASSUME NEW t \in Timers, FireTimer(t)
      PROVE  TypeOK'
  <2>1. TimerTypeOK'
    BY <1>11, ExpiredType DEF FireTimer
  <2>2. LoopTypeOK'
    BY <1>11, TypeFacts DEF FireTimer, LoopTypeOK, Places, UserCode
  <2>3. QueueTypeOK'
    BY <1>11, QueuesKept DEF FireTimer, LoopStep, queueVars
  <2>4. RestTypeOK'
    BY <1>11 DEF FireTimer, LoopStep, RestTypeOK
  <2>5. QED
    BY <2>1, <2>2, <2>3, <2>4
<1>12. CASE furi_event_loop_process_tick
  <2>1. TimerTypeOK'
    BY <1>12, TimersKept DEF furi_event_loop_process_tick
  <2>2. LoopTypeOK'
    BY <1>12, TypeFacts DEF furi_event_loop_process_tick, LoopTypeOK,
       Places, UserCode
  <2>3. QueueTypeOK'
    BY <1>12, QueuesKept DEF furi_event_loop_process_tick, LoopStep, queueVars
  <2>4. RestTypeOK'
    BY <1>12, NextTickType DEF furi_event_loop_process_tick, LoopStep,
       RestTypeOK
  <2>5. QED
    BY <2>1, <2>2, <2>3, <2>4
<1>13. CASE TimedCallbackReturns
  <2>1. TimerTypeOK'
    BY <1>13, TimersKept DEF TimedCallbackReturns
  <2>2. LoopTypeOK'
    BY <1>13, TypeFacts DEF TimedCallbackReturns, LoopTypeOK, Places, UserCode
  <2>3. QueueTypeOK'
    BY <1>13, QueuesKept DEF TimedCallbackReturns, LoopStep, queueVars
  <2>4. RestTypeOK'
    BY <1>13 DEF TimedCallbackReturns, LoopStep, RestTypeOK
  <2>5. QED
    BY <2>1, <2>2, <2>3, <2>4
<1>14. CASE LoopReleased
  <2>1. TimerTypeOK'
    BY <1>14, TimersKept DEF LoopReleased
  <2>2. LoopTypeOK'
    BY <1>14, TypeFacts DEF LoopReleased, LoopTypeOK, Places, UserCode
  <2>3. QueueTypeOK'
    BY <1>14, QueuesKept DEF LoopReleased, LoopStep, queueVars
  <2>4. RestTypeOK'
    BY <1>14 DEF LoopReleased, LoopStep, RestTypeOK
  <2>5. QED
    BY <2>1, <2>2, <2>3, <2>4
<1>15. ASSUME NEW q \in Queues, NEW e \in Events,
              furi_event_loop_message_queue_subscribe(q, e)
      PROVE  TypeOK'
  <2>1. TimerTypeOK'
    BY <1>15, TimersKept DEF furi_event_loop_message_queue_subscribe
  <2>2. LoopTypeOK'
    BY <1>15, SubscribeType
  <2>3. QueueTypeOK'
    BY <1>15, SubscribeType
  <2>4. RestTypeOK'
    BY <1>15, UserCallType DEF furi_event_loop_message_queue_subscribe,
       UserCall, RestTypeOK
  <2>5. QED
    BY <2>1, <2>2, <2>3, <2>4
<1>16. ASSUME NEW q \in Queues, furi_event_loop_message_queue_unsubscribe(q)
      PROVE  TypeOK'
  <2>1. TimerTypeOK'
    BY <1>16, TimersKept DEF furi_event_loop_message_queue_unsubscribe
  <2>2. LoopTypeOK'
    <3>1. UserCall /\ flags' \subseteq Flags
      BY <1>16 DEF furi_event_loop_message_queue_unsubscribe, LoopTypeOK
    <3>2. QED
      BY <3>1, UserCallType
  <2>3. QueueTypeOK'
    BY <1>16, UnsubscribeType
  <2>4. RestTypeOK'
    BY <1>16, UserCallType DEF furi_event_loop_message_queue_unsubscribe,
       UserCall, RestTypeOK
  <2>5. QED
    BY <2>1, <2>2, <2>3, <2>4
<1>17. ASSUME NEW t \in Timers, TimerCall(t)
      PROVE  TypeOK'
  <2>1. TimerTypeOK'
    BY <1>17, TimerCallType
  <2>2. LoopTypeOK'
    <3>1. UserCall /\ flags' \subseteq Flags
      BY <1>17 DEF TimerCall, LoopTypeOK, Notify, Flags
    <3>2. QED
      BY <3>1, UserCallType
  <2>3. QueueTypeOK'
    BY <1>17, QueuesKept DEF TimerCall, UserCall, queueVars
  <2>4. RestTypeOK'
    BY <1>17, UserCallType DEF TimerCall, UserCall, RestTypeOK
  <2>5. QED
    BY <2>1, <2>2, <2>3, <2>4
<1>18. CASE furi_event_loop_stop
  <2>1. TimerTypeOK'
    BY <1>18, TimersKept DEF furi_event_loop_stop
  <2>2. LoopTypeOK'
    <3>1. UserCall /\ flags' \subseteq Flags
      BY <1>18 DEF furi_event_loop_stop, LoopTypeOK, Notify, Flags
    <3>2. QED
      BY <3>1, UserCallType
  <2>3. QueueTypeOK'
    BY <1>18, QueuesKept DEF furi_event_loop_stop, UserCall, queueVars
  <2>4. RestTypeOK'
    BY <1>18, UserCallType DEF furi_event_loop_stop, UserCall, RestTypeOK
  <2>5. QED
    BY <2>1, <2>2, <2>3, <2>4
<1>19. CASE furi_event_loop_pend_callback
  <2>1. TimerTypeOK'
    BY <1>19, TimersKept DEF furi_event_loop_pend_callback
  <2>2. LoopTypeOK'
    <3>1. UserCall /\ flags' \subseteq Flags
      BY <1>19 DEF furi_event_loop_pend_callback, LoopTypeOK, Notify, Flags
    <3>2. QED
      BY <3>1, UserCallType
  <2>3. QueueTypeOK'
    BY <1>19, QueuesKept DEF furi_event_loop_pend_callback, UserCall, queueVars
  <2>4. RestTypeOK'
    BY <1>19, UserCallType, PendingType DEF furi_event_loop_pend_callback,
       UserCall, RestTypeOK
  <2>5. QED
    BY <2>1, <2>2, <2>3, <2>4
<1>20. ASSUME NEW i \in TickSettings, furi_event_loop_tick_set(i)
      PROVE  TypeOK'
  <2>1. TimerTypeOK'
    BY <1>20, TimersKept DEF furi_event_loop_tick_set
  <2>2. LoopTypeOK'
    <3>1. UserCall /\ flags' \subseteq Flags
      BY <1>20 DEF furi_event_loop_tick_set, LoopTypeOK
    <3>2. QED
      BY <3>1, UserCallType
  <2>3. QueueTypeOK'
    BY <1>20, QueuesKept DEF furi_event_loop_tick_set, UserCall, queueVars
  <2>4. RestTypeOK'
    BY <1>20, UserCallType DEF furi_event_loop_tick_set, UserCall,
       RestTypeOK, Ticks, TimerTypeOK
  <2>5. QED
    BY <2>1, <2>2, <2>3, <2>4
<1>21. CASE furi_event_loop_run
  <2>1. TimerTypeOK'
    BY <1>21, TimersKept DEF furi_event_loop_run
  <2>2. LoopTypeOK'
    BY <1>21, TypeFacts DEF furi_event_loop_run, LoopTypeOK, Places, UserCode
  <2>3. QueueTypeOK'
    BY <1>21, QueuesKept DEF furi_event_loop_run, LoopStep, queueVars
  <2>4. RestTypeOK'
    <3>1. tick' \in Ticks
      BY <1>21 DEF furi_event_loop_run, RestTypeOK, Ticks, TimerTypeOK
    <3>2. runs' \in Nat
      BY <1>21 DEF furi_event_loop_run, RestTypeOK
    <3>3. QED
      BY <1>21, <3>1, <3>2 DEF furi_event_loop_run, LoopStep, RestTypeOK
  <2>5. QED
    BY <2>1, <2>2, <2>3, <2>4
<1>22. CASE furi_event_loop_free
  <2>1. TimerTypeOK'
    BY <1>22, TimersKept DEF furi_event_loop_free
  <2>2. LoopTypeOK'
    BY <1>22, TypeFacts DEF furi_event_loop_free, LoopTypeOK, Places, UserCode
  <2>3. QueueTypeOK'
    BY <1>22, QueuesKept DEF furi_event_loop_free, LoopStep, queueVars
  <2>4. RestTypeOK'
    BY <1>22 DEF furi_event_loop_free, LoopStep, RestTypeOK
  <2>5. QED
    BY <2>1, <2>2, <2>3, <2>4
<1>23. ASSUME NEW c \in Callers, QueueApi(c)
      PROVE  TypeOK'
  <2>1. ASSUME furi_event_loop_signal_callback(c)
        PROVE  TypeOK'
    <3>1. calls' \in [Callers -> Nat] /\ consumed' \in BOOLEAN
      BY <2>1, CanCallType DEF furi_event_loop_signal_callback
    <3>2. TimerTypeOK' /\ QueueTypeOK'
      BY <2>1, TimersKept, QueuesKept DEF furi_event_loop_signal_callback
    <3>3. LoopTypeOK'
      BY <2>1, <3>1
         DEF furi_event_loop_signal_callback, Notify, Flags, LoopTypeOK
    <3>4. RestTypeOK'
      BY <2>1, <3>1 DEF furi_event_loop_signal_callback, RestTypeOK
    <3>5. QED
      BY <3>2, <3>3, <3>4
  <2>2. QED
    BY <1>23, <2>1, QueueCallType DEF QueueApi
<1>24. ASSUME NEW c \in Callers, furi_event_loop_link_notify(c)
      PROVE  TypeOK'
  BY <1>24, LinkNotifyType
<1>25. CASE Tick
  BY <1>25, TickType
<1> HIDE DEF TypeOK
<1>26. CASE RunLoop
  BY <1>26, <1>2, <1>3, <1>4, <1>5, <1>6, <1>7, <1>8, <1>9, <1>10, <1>11,
     <1>12, <1>13, <1>14 DEF RunLoop
<1>27. CASE UserApi
  BY <1>27, <1>15, <1>16, <1>17, <1>18, <1>19, <1>20, <1>21, <1>22 DEF UserApi
<1>28. QED
  BY <1>1, <1>23, <1>24, <1>25, <1>26, <1>27 DEF Next

\* Every variable of the loop, its timers and its queues keeps its type: the
\* tick counters stay in 32 bits, a queue holds at most Capacity messages, the
\* item being served belongs to a queue.
THEOREM TypeCorrect == Spec => []TypeOK
  BY InitType, NextType, PTL DEF Spec
-----------------------------------------------------------------------------
(* No arrival is missed.                                                   *)

\* One queue's share of NoMissedArrival.
Noticed(q) ==
    sub[q] # None /\ Level(q, sub[q]) > 0 =>
        \/ q \in ToSet(waiting_list)
        \/ Serving(q)
        \/ \E c \in Callers : owe[c] = <<q, sub[q]>>

\* A step that changes no queue and no notice, takes no item off the waiting
\* list and does not stop serving one.
LEMMA NoticedKept ==
    ASSUME NEW q \in Queues, Noticed(q), UNCHANGED <<sub, count, owe>>,
           q \in ToSet(waiting_list) => q \in ToSet(waiting_list)',
           Serving(q) => Serving(q)'
    PROVE  Noticed(q)'
  BY DEF Noticed, Level

\* Linking an item puts it in the waiting list, and takes none off.
LEMMA LinkItemLinks ==
    ASSUME QueueTypeOK, NEW q \in Queues, LinkItem(q), ~ub'
    PROVE  ToSet(waiting_list)' = ToSet(waiting_list) \cup {q}
<1>1. CASE q \in ToSet(waiting_list)
  BY <1>1 DEF LinkItem
<1>2. CASE q \notin ToSet(waiting_list)
  <2>1. waiting_list' = Append(waiting_list, q)
    BY <1>2 DEF LinkItem
  <2>2. QED
    BY <2>1, AppendList, TypeFacts DEF QueueTypeOK
<1>3. QED
  BY <1>1, <1>2

\* A caller that accesses queue q owes the notice afterwards and owed none
\* before.
LEMMA AccessNoticed ==
    ASSUME TypeOK, NEW c \in Callers, NEW consuming, NEW q \in Queues,
           NEW e \in Events, NEW r \in Queues, CanCall(c, consuming),
           NEW n, count' = [count EXCEPT ![q] = n], QueueAccess(c, q, e),
           sub[q] # None /\ sub[q] # e =>
              (Level(q, sub[q])' > 0 => Level(q, sub[q]) > 0),
           Noticed(r)
    PROVE  Noticed(r)'
<1>1. /\ owe[c] = None /\ sub' = sub /\ waiting_list' = waiting_list
      /\ owe' = [owe EXCEPT ![c] = <<q, e>>]
      /\ Serving(r)' = Serving(r)
  BY DEF CanCall, QueueAccess, Serving
<1>2. \A x \in Queues, f \in Events : <<x, f>> # None
  BY LoopAssumption
<1>3. sub[r] # None => sub[r] \in Events
  BY DEF TypeOK, QueueTypeOK, Subscriptions
<1>4. owe \in [Callers -> Notices]
  BY DEF TypeOK, QueueTypeOK
<1>5. CASE r = q /\ sub[q] = e
  BY <1>1, <1>4, <1>5 DEF Noticed
<1>6. CASE r # q \/ sub[q] # e
  <2> SUFFICES ASSUME sub[r] # None, Level(r, sub[r])' > 0
               PROVE  \/ r \in ToSet(waiting_list)
                      \/ Serving(r)
                      \/ \E d \in Callers : owe'[d] = <<r, sub[r]>>
    BY <1>1 DEF Noticed
  <2>1. Level(r, sub[r]) > 0
    <3>1. CASE r = q
      BY <1>1, <1>6, <3>1
    <3>2. CASE r # q
      BY <3>2, <1>1 DEF Level, TypeOK, QueueTypeOK
    <3>3. QED
      BY <3>1, <3>2
  <2>2. ASSUME NEW d \in Callers, owe[d] = <<r, sub[r]>>
        PROVE  owe'[d] = <<r, sub[r]>>
    BY <2>2, <1>1, <1>2, <1>3, <1>4
  <2>3. QED
    BY <2>1, <2>2 DEF Noticed
<1>7. QED
  BY <1>5, <1>6

LEMMA QueueCallNoticed ==
    ASSUME TypeOK, NEW c \in Callers, NEW q \in Queues, NEW r \in Queues,
           \/ furi_message_queue_put(c, q)
           \/ furi_message_queue_get(c, q)
           \/ furi_message_queue_reset(c, q),
           Noticed(r)
    PROVE  Noticed(r)'
<1>1. /\ count \in [Queues -> 0 .. Capacity] /\ Capacity \in Nat
      /\ sub[q] # None => sub[q] \in Events
  BY LoopAssumption DEF TypeOK, QueueTypeOK, Subscriptions
<1>2. sub' = sub
  BY DEF furi_message_queue_put, furi_message_queue_get,
     furi_message_queue_reset, QueueAccess
<1>3. CASE furi_message_queue_put(c, q)
  <2>1. sub[q] # None /\ sub[q] # "In" =>
            (Level(q, sub[q])' > 0 => Level(q, sub[q]) > 0)
    BY <1>1, <1>2, <1>3 DEF furi_message_queue_put, Level, Events
  <2>2. QED
    BY <2>1, <1>3, AccessNoticed DEF furi_message_queue_put, Events
<1>4. CASE furi_message_queue_get(c, q)
  <2>1. sub[q] # None /\ sub[q] # "Out" =>
            (Level(q, sub[q])' > 0 => Level(q, sub[q]) > 0)
    BY <1>1, <1>2, <1>4 DEF furi_message_queue_get, Level, Events
  <2>2. QED
    BY <2>1, <1>4, AccessNoticed DEF furi_message_queue_get, Events
<1>5. CASE furi_message_queue_reset(c, q)
  <2>1. sub[q] # None /\ sub[q] # "Out" =>
            (Level(q, sub[q])' > 0 => Level(q, sub[q]) > 0)
    BY <1>1, <1>2, <1>5 DEF furi_message_queue_reset, Level, Events
  <2>2. QED
    BY <2>1, <1>5, AccessNoticed DEF furi_message_queue_reset, Events
<1>6. QED
  BY <1>3, <1>4, <1>5

LEMMA LinkNotifyNoticed ==
    ASSUME TypeOK, NEW c \in Callers, furi_event_loop_link_notify(c), ~ub',
           NEW r \in Queues, Noticed(r)
    PROVE  Noticed(r)'
<1> DEFINE q == owe[c][1]
           e == owe[c][2]
<1>1. owe[c] = <<q, e>> /\ q \in Queues /\ owe \in [Callers -> Notices]
  BY DEF TypeOK, QueueTypeOK, Notices, furi_event_loop_link_notify
<1>2. /\ sub' = sub /\ count' = count
      /\ Serving(r)' = Serving(r)
      /\ owe' = [owe EXCEPT ![c] = None]
  BY DEF furi_event_loop_link_notify, Serving
<1> HIDE DEF q, e
<1>3. /\ r \in ToSet(waiting_list) => r \in ToSet(waiting_list)'
      /\ sub[q] = e => q \in ToSet(waiting_list)'
  <2>1. CASE sub[q] = e
    <3>1. LinkItem(q)
      BY <2>1 DEF furi_event_loop_link_notify, furi_event_loop_item_notify, q, e
    <3>2. QED
      BY <3>1, <1>1, LinkItemLinks DEF TypeOK
  <2>2. CASE sub[q] # e
    BY <2>2 DEF furi_event_loop_link_notify, q, e
  <2>3. QED
    BY <2>1, <2>2
<1>4. ASSUME NEW d \in Callers, owe[d] = <<r, sub[r]>>
      PROVE  r \in ToSet(waiting_list)' \/ owe'[d] = <<r, sub[r]>>
  <2>1. CASE d = c
    BY <1>1, <1>3, <1>4, <2>1
  <2>2. CASE d # c
    BY <1>1, <1>2, <1>4, <2>2
  <2>3. QED
    BY <2>1, <2>2
<1>5. QED
  BY <1>2, <1>3, <1>4 DEF Noticed, Level

LEMMA SubscribeNoticed ==
    ASSUME TypeOK, NEW q \in Queues, NEW e \in Events, NEW r \in Queues,
           furi_event_loop_message_queue_subscribe(q, e), ~ub', Noticed(r)
    PROVE  Noticed(r)'
<1>1. /\ sub' = [sub EXCEPT ![q] = e] /\ sub \in [Queues -> Subscriptions]
      /\ count' = count /\ owe' = owe /\ Serving(r)' = Serving(r)
  BY DEF furi_event_loop_message_queue_subscribe, UserCall, Serving, TypeOK,
     QueueTypeOK
<1>2. /\ r \in ToSet(waiting_list) => r \in ToSet(waiting_list)'
      /\ Level(q, e) > 0 => q \in ToSet(waiting_list)'
  <2>1. CASE Level(q, e) > 0
    <3>1. LinkItem(q)
      BY <2>1 DEF furi_event_loop_message_queue_subscribe,
         furi_event_loop_item_notify
    <3>2. QED
      BY <3>1, LinkItemLinks DEF TypeOK
  <2>2. CASE ~(Level(q, e) > 0)
    BY <2>2 DEF furi_event_loop_message_queue_subscribe
  <2>3. QED
    BY <2>1, <2>2
<1>3. CASE r = q
  BY <1>1, <1>2, <1>3 DEF Noticed, Level
<1>4. CASE r # q
  BY <1>1, <1>2, <1>4 DEF Noticed, Level
<1>5. QED
  BY <1>3, <1>4

LEMMA UnsubscribeNoticed ==
    ASSUME TypeOK, NEW q \in Queues, NEW r \in Queues,
           furi_event_loop_message_queue_unsubscribe(q), Noticed(r)
    PROVE  Noticed(r)'
<1>1. /\ sub' = [sub EXCEPT ![q] = None] /\ sub \in [Queues -> Subscriptions]
      /\ count' = count /\ owe' = owe /\ Serving(r)' = Serving(r)
  BY DEF furi_event_loop_message_queue_unsubscribe, UserCall, Serving, TypeOK,
     QueueTypeOK
<1>2. r # q => (r \in ToSet(waiting_list) => r \in ToSet(waiting_list)')
  BY ReplaceInList, TypeFacts
     DEF TypeOK, QueueTypeOK, furi_event_loop_message_queue_unsubscribe
<1>3. CASE r = q
  BY <1>1, <1>3 DEF Noticed
<1>4. CASE r # q
  BY <1>1, <1>2, <1>4 DEF Noticed, Level
<1>5. QED
  BY <1>3, <1>4

LEMMA PopWaitingNoticed ==
    ASSUME TypeOK, PopWaiting, ~ub', NEW r \in Queues, Noticed(r)
    PROVE  Noticed(r)'
<1>1. UNCHANGED <<sub, count, owe>> /\ ~Serving(r)
  BY DEF PopWaiting, LoopStep, Serving
<1>2. CASE waiting_list = <<>> /\ UNCHANGED waiting_list
  BY <1>1, <1>2, NoticedKept
<1>3. CASE /\ waiting_list # <<>>
           /\ waiting_list' = Tail(waiting_list)
           /\ cur' = Head(waiting_list)
           /\ pc' = "poll"
  <2>1. ToSet(waiting_list) = ToSet(Tail(waiting_list)) \cup {Head(waiting_list)}
    BY <1>3, PopList DEF TypeOK, QueueTypeOK
  <2>2. r \in ToSet(waiting_list) => r \in ToSet(waiting_list)' \/ Serving(r)'
    BY <2>1, <1>3 DEF Serving
  <2>3. QED
    BY <1>1, <2>2 DEF Noticed, Level
<1>4. QED
  BY <1>2, <1>3 DEF PopWaiting

LEMMA PollNoticed ==
    ASSUME TypeOK, furi_event_loop_poll_process_event, NEW r \in Queues,
           Noticed(r)
    PROVE  Noticed(r)'
<1>1. /\ UNCHANGED <<sub, count, owe, waiting_list>> /\ pc = "poll"
      /\ cur \in Queues
  BY DEF furi_event_loop_poll_process_event, LoopStep, TypeOK, LoopTypeOK
<1>2. CASE Level(cur, sub[cur]) = 0
  BY <1>1, <1>2 DEF Noticed, Serving, Level
<1>3. CASE pc' = "item_cb" /\ UNCHANGED cur
  BY <1>1, <1>3 DEF Noticed, Serving, Level
<1>4. QED
  BY <1>2, <1>3 DEF furi_event_loop_poll_process_event

LEMMA ItemReturnsNoticed ==
    ASSUME TypeOK, ItemCallbackReturns, ~ub', NEW r \in Queues, Noticed(r)
    PROVE  Noticed(r)'
<1>1. /\ UNCHANGED <<sub, count, owe>> /\ pc = "item_cb"
      /\ cur \in Queues
  BY DEF ItemCallbackReturns, LoopStep, TypeOK, LoopTypeOK
<1>2. CASE pc' = "poll" /\ UNCHANGED <<cur, waiting_list>>
  BY <1>1, <1>2 DEF Noticed, Serving, Level
<1>3. CASE LinkItem(cur)
  <2>1. ToSet(waiting_list)' = ToSet(waiting_list) \cup {cur}
    BY <1>1, <1>3, LinkItemLinks DEF TypeOK
  <2>2. QED
    BY <1>1, <2>1 DEF Noticed, Serving, Level
<1>4. QED
  BY <1>2, <1>3 DEF ItemCallbackReturns

\* The other steps leave queues, notices and waiting list alone and are taken
\* where the loop serves no item, or leave the place alone.
LEMMA OtherNoticed ==
    ASSUME NEW r \in Queues, Noticed(r),
           UNCHANGED <<sub, count, owe, waiting_list>>,
           pc \notin {"poll", "item_cb"} \/ UNCHANGED <<pc, cur>>
    PROVE  Noticed(r)'
<1>1. Serving(r) => Serving(r)'
  BY DEF Serving
<1>2. QED
  BY <1>1, NoticedKept

LEMMA NextNoticed ==
    TypeOK /\ NoMissedArrival /\ [Next]_vars => NoMissedArrival'
<1> SUFFICES ASSUME TypeOK, NoMissedArrival, [Next]_vars, ~ub',
                    NEW r \in Queues
             PROVE  Noticed(r)'
  BY DEF NoMissedArrival, Noticed
<1>1. CASE UNCHANGED vars
  BY <1>1 DEF vars, queueVars, loopVars, NoMissedArrival, Noticed, Level, Serving
<1>2. CASE Next
  <2>1. Noticed(r)
    BY <1>2 DEF Next, NoMissedArrival, Noticed
  <2>2. CASE PopWaiting
    BY <2>1, <2>2, PopWaitingNoticed
  <2>3. CASE furi_event_loop_poll_process_event
    BY <2>1, <2>3, PollNoticed
  <2>4. CASE ItemCallbackReturns
    BY <2>1, <2>4, ItemReturnsNoticed
  <2>5. CASE \/ EnterWait \/ Wake \/ TimerQueueProcessed
             \/ furi_event_loop_process_pending_callbacks
             \/ PendingCallbackReturns
             \/ \E t \in Timers : FireTimer(t)
             \/ furi_event_loop_process_tick \/ TimedCallbackReturns
             \/ LoopReleased \/ furi_event_loop_run \/ furi_event_loop_free
    <3>1. /\ UNCHANGED <<sub, count, owe, waiting_list>>
          /\ pc \notin {"poll", "item_cb"}
      BY <2>5 DEF EnterWait, Wake, TimerQueueProcessed,
         furi_event_loop_process_pending_callbacks, PendingCallbackReturns,
         FireTimer, furi_event_loop_process_tick, TimedCallbackReturns,
         LoopReleased, furi_event_loop_run, furi_event_loop_free, LoopStep
    <3>2. QED
      BY <2>1, <3>1, OtherNoticed
  <2>6. CASE \/ furi_event_loop_process_timer_queue \/ furi_event_loop_stop
             \/ furi_event_loop_pend_callback
             \/ \E t \in Timers : TimerCall(t)
             \/ \E i \in TickSettings : furi_event_loop_tick_set(i)
             \/ \E c \in Callers : furi_event_loop_signal_callback(c)
             \/ Tick
    <3>1. UNCHANGED <<sub, count, owe, waiting_list, pc, cur>>
      BY <2>6 DEF furi_event_loop_process_timer_queue, furi_event_loop_stop,
         furi_event_loop_pend_callback, TimerCall, furi_event_loop_tick_set,
         furi_event_loop_signal_callback, Tick, LoopStep, UserCall, queueVars,
         loopVars
    <3>2. QED
      BY <2>1, <3>1, OtherNoticed
  <2>7. ASSUME NEW q \in Queues, NEW e \in Events,
               furi_event_loop_message_queue_subscribe(q, e)
        PROVE  Noticed(r)'
    BY <2>1, <2>7, SubscribeNoticed
  <2>8. ASSUME NEW q \in Queues, furi_event_loop_message_queue_unsubscribe(q)
        PROVE  Noticed(r)'
    BY <2>1, <2>8, UnsubscribeNoticed
  <2>9. ASSUME NEW c \in Callers, furi_event_loop_link_notify(c)
        PROVE  Noticed(r)'
    BY <2>1, <2>9, LinkNotifyNoticed
  <2>10. ASSUME NEW c \in Callers, QueueApi(c)
         PROVE  Noticed(r)'
    BY <2>1, <2>6, <2>10, QueueCallNoticed DEF QueueApi
  <2>11. CASE RunLoop
    BY <2>2, <2>3, <2>4, <2>5, <2>6, <2>11 DEF RunLoop
  <2>12. CASE UserApi
    BY <2>5, <2>6, <2>7, <2>8, <2>12 DEF UserApi
  <2>13. QED
    BY <1>2, <2>6, <2>9, <2>10, <2>11, <2>12 DEF Next
<1>3. QED
  BY <1>1, <1>2

\* A subscribed queue with a pending event is in the waiting list, is being
\* served, or its last user is about to notify the loop: whatever the number
\* of producers and consumers and however their queue operations and
\* notifications interleave with the loop's.
THEOREM NoArrivalMissed == Spec => []NoMissedArrival
<1>1. Init => NoMissedArrival
  BY DEF Init, NoMissedArrival
<1>2. QED
  BY <1>1, TypeCorrect, NextNoticed, PTL DEF Spec
-----------------------------------------------------------------------------
(* The links of the timers.                                                *)

\* Taking a timer off the list of running timers.
LEMMA UnlinkedTimer ==
    ASSUME TimerTypeOK, TimersLinked, NEW t \in Timers
    PROVE  /\ Unlinked(t) \in Seq(Timers)
           /\ ToSet(Unlinked(t)) = ToSet(timer_list) \ {t}
           /\ IsInjective(Unlinked(t))
<1>1. CASE t \in active
  BY <1>1, UnlinkList DEF Unlinked, TimerTypeOK, TimersLinked
<1>2. CASE t \notin active
  <2>1. t \notin ToSet(timer_list)
    BY <1>2 DEF TimersLinked
  <2>2. QED
    BY <1>2, <2>1 DEF Unlinked, TimerTypeOK, TimersLinked
<1>3. QED
  BY <1>1, <1>2

LEMMA RequestLinked ==
    ASSUME TimerTypeOK, TimersLinked, NEW t \in Timers, ExecuteRequest(t)
    PROVE  TimersLinked'
<1>1. /\ IsInjective(timer_queue')
      /\ t \notin ToSet(timer_queue')
      /\ ToSet(timer_queue') = ToSet(timer_queue) \ {t}
      /\ request[t] # "None"
      /\ t \in alive
  <2>1. /\ timer_queue # <<>> /\ t = Head(timer_queue)
        /\ timer_queue' = Tail(timer_queue)
        /\ timer_queue \in Seq(Timers) /\ IsInjective(timer_queue)
    BY DEF ExecuteRequest, TimerTypeOK, TimersLinked
  <2>2. /\ IsInjective(timer_queue')
        /\ t \notin ToSet(timer_queue')
        /\ ToSet(timer_queue) = ToSet(timer_queue') \cup {t}
    BY <2>1, PopList
  <2>3. QED
    BY <2>2 DEF TimersLinked
<1>2. request' = [request EXCEPT ![t] = "None"]
  BY DEF ExecuteRequest, ExecuteStart, ExecuteStop, ExecuteFree
<1>3. /\ Unlinked(t) \in Seq(Timers)
      /\ ToSet(Unlinked(t)) = ToSet(timer_list) \ {t}
      /\ IsInjective(Unlinked(t))
  BY UnlinkedTimer
<1>4. CASE ExecuteStart(t)
  <2>1. /\ ToSet(timer_list') = ToSet(timer_list) \cup {t}
        /\ IsInjective(timer_list')
    <3>1. timer_list' = furi_event_loop_schedule_timer(
                            Unlinked(t), t, start_time', interval')
      BY <1>4 DEF ExecuteStart
    <3>2. t \notin ToSet(Unlinked(t))
      BY <1>3
    <3>3. /\ ToSet(timer_list') = ToSet(Unlinked(t)) \cup {t}
          /\ IsInjective(timer_list')
      BY <1>3, <3>1, <3>2, ScheduleTimer
    <3>4. QED
      BY <1>3, <3>3
  <2>2. active' = active \cup {t} /\ alive' = alive
    BY <1>4 DEF ExecuteStart
  <2>3. QED
    BY <1>1, <1>2, <2>1, <2>2 DEF TimersLinked, TimerTypeOK
<1>5. CASE ExecuteStop(t) \/ ExecuteFree(t)
  <2>1. /\ timer_list' = Unlinked(t)
        /\ active' = active \ {t}
        /\ alive' = alive \/ alive' = alive \ {t}
    BY <1>5 DEF ExecuteStop, ExecuteFree
  <2>2. QED
    BY <1>1, <1>2, <1>3, <2>1 DEF TimersLinked, TimerTypeOK
<1>6. QED
  BY <1>4, <1>5 DEF ExecuteRequest

LEMMA ExpiredLinked ==
    ASSUME TimerTypeOK, TimersLinked, NEW t \in Timers,
           furi_event_loop_process_expired_timers(t)
    PROVE  TimersLinked'
<1>1. /\ timer_list # <<>> /\ t = Head(timer_list)
      /\ UNCHANGED <<timer_queue, alive, request>>
      /\ timer_list \in Seq(Timers) /\ IsInjective(timer_list)
  BY DEF furi_event_loop_process_expired_timers, FrontExpired, TimerTypeOK,
     TimersLinked
<1>2. /\ Tail(timer_list) \in Seq(Timers)
      /\ IsInjective(Tail(timer_list))
      /\ t \notin ToSet(Tail(timer_list))
      /\ ToSet(timer_list) = ToSet(Tail(timer_list)) \cup {t}
  BY <1>1, PopList
<1>3. CASE t \in periodic
  <2>1. /\ timer_list' = furi_event_loop_schedule_timer(
                             Tail(timer_list), t, start_time', interval)
        /\ active' = active
    BY <1>3 DEF furi_event_loop_process_expired_timers
  <2> DEFINE rest == Tail(timer_list)
             list == furi_event_loop_schedule_timer(
                         rest, t, start_time', interval)
  <2>2. ToSet(list) = ToSet(rest) \cup {t} /\ IsInjective(list)
    <3>1. rest \in Seq(Timers) /\ IsInjective(rest) /\ t \notin ToSet(rest)
      BY <1>2
    <3> HIDE DEF rest
    <3>2. QED
      BY <3>1, ScheduleTimer
  <2> HIDE DEF list
  <2>3. timer_list' = list
    BY <2>1 DEF list
  <2>4. QED
    BY <1>1, <1>2, <2>1, <2>2, <2>3 DEF TimersLinked
<1>4. CASE t \notin periodic
  <2>1. timer_list' = Tail(timer_list) /\ active' = active \ {t}
    BY <1>4 DEF furi_event_loop_process_expired_timers
  <2>2. QED
    BY <1>1, <1>2, <2>1 DEF TimersLinked
<1>5. QED
  BY <1>3, <1>4

LEMMA EnqueueLinked ==
    ASSUME TimerTypeOK, TimersLinked, NEW t \in Timers, NEW req \in Requests,
           req # "None", furi_event_loop_timer_enqueue_request(t, req)
    PROVE  TimersLinked'
<1> DEFINE q == IF request[t] # "None"
                THEN RemoveFirst(timer_queue, t) ELSE timer_queue
<1>1. /\ q \in Seq(Timers) /\ IsInjective(q) /\ t \notin ToSet(q)
      /\ ToSet(timer_queue) \ {t} \subseteq ToSet(q)
      /\ ToSet(q) \subseteq ToSet(timer_queue)
  BY UnlinkList DEF TimerTypeOK, TimersLinked
<1>2. /\ timer_queue' = Append(q, t)
      /\ request' = [request EXCEPT ![t] = req]
      /\ UNCHANGED <<timer_list, alive, active>> /\ t \in alive
  BY DEF furi_event_loop_timer_enqueue_request
<1> HIDE DEF q
<1>3. ToSet(timer_queue') = ToSet(q) \cup {t} /\ IsInjective(timer_queue')
  BY <1>1, <1>2, AppendList
<1>4. QED
  BY <1>1, <1>2, <1>3 DEF TimersLinked, TimerTypeOK

LEMMA NextLinked ==
    TypeOK /\ TimersLinked /\ [Next]_vars => TimersLinked'
<1> SUFFICES ASSUME TypeOK, TimersLinked, [Next]_vars PROVE TimersLinked'
  OBVIOUS
<1>1. TimerTypeOK
  BY DEF TypeOK
<1>2. CASE UNCHANGED <<timer_list, timer_queue, alive, active, request>>
  BY <1>2 DEF TimersLinked
<1>3. ASSUME NEW t \in Timers, TimerCall(t)
      PROVE  TimersLinked'
  <2>1. ASSUME NEW p \in BOOLEAN, furi_event_loop_timer_alloc(t, p)
        PROVE  TimersLinked'
    BY <2>1 DEF furi_event_loop_timer_alloc, TimersLinked
  <2>2. ASSUME NEW i \in Intervals, furi_event_loop_timer_start(t, i)
        PROVE  TimersLinked'
    BY <1>1, <2>2, EnqueueLinked DEF furi_event_loop_timer_start, Requests
  <2>3. ASSUME \/ furi_event_loop_timer_restart(t)
               \/ furi_event_loop_timer_stop(t)
               \/ furi_event_loop_timer_free(t)
        PROVE  TimersLinked'
    BY <1>1, <2>3, EnqueueLinked DEF furi_event_loop_timer_restart,
       furi_event_loop_timer_stop, furi_event_loop_timer_free, Requests
  <2>4. QED
    BY <1>3, <2>1, <2>2, <2>3 DEF TimerCall
<1>4. CASE furi_event_loop_process_timer_queue
  BY <1>1, <1>4, RequestLinked DEF furi_event_loop_process_timer_queue
<1>5. ASSUME NEW t \in Timers, FireTimer(t)
      PROVE  TimersLinked'
  BY <1>1, <1>5, ExpiredLinked DEF FireTimer
<1>6. CASE RunLoop
  BY <1>2, <1>4, <1>5, <1>6
     DEF RunLoop, EnterWait, Wake, PopWaiting,
         furi_event_loop_poll_process_event, ItemCallbackReturns,
         TimerQueueProcessed, furi_event_loop_process_pending_callbacks,
         PendingCallbackReturns, furi_event_loop_process_tick,
         TimedCallbackReturns, LoopReleased, timerVars, timerFields
<1>7. CASE UserApi
  BY <1>2, <1>3, <1>7
     DEF UserApi, furi_event_loop_message_queue_subscribe,
         furi_event_loop_message_queue_unsubscribe, furi_event_loop_stop,
         furi_event_loop_pend_callback, furi_event_loop_tick_set,
         furi_event_loop_run, furi_event_loop_free, timerVars, timerFields
<1>8. ASSUME NEW c \in Callers, QueueApi(c) \/ furi_event_loop_link_notify(c)
      PROVE  TimersLinked'
  BY <1>2, <1>8
     DEF QueueApi, furi_message_queue_put, furi_message_queue_get,
         furi_message_queue_reset, QueueAccess, furi_event_loop_signal_callback,
         furi_event_loop_link_notify, timerVars, timerFields
<1>9. CASE Tick \/ UNCHANGED vars
  BY <1>2, <1>9 DEF Tick, TickTimers, vars, timerVars, timerFields
<1>10. QED
  BY <1>6, <1>7, <1>8, <1>9 DEF Next

\* The request queue and the list of running timers hold exactly the timers
\* with a request and the active ones, each once, whatever user code asks of
\* its timers and whenever: the furi_crash() of
\* furi_event_loop_process_timer_queue cannot be reached and no unlink meets a
\* timer that is not linked.
THEOREM TimersStayLinked == Spec => []TimersLinked
<1>1. Init => TimersLinked
  <2>1. \A s \in {<<>>} : ToSet(s) = {} /\ IsInjective(s)
    BY DEF ToSet, IsInjective
  <2>2. QED
    BY <2>1 DEF Init, TimerInit, TimersLinked
<1>2. QED
  BY <1>1, TypeCorrect, NextLinked, PTL DEF Spec
-----------------------------------------------------------------------------
(* Commands stay announced, and a stopped timer stays silent.              *)

\* What keeps CommandsAnnounced true: flags are held back only while one is
\* being served, and the loop looks at the timers only after it has found no
\* flag, hence no request.
Announcements ==
    /\ CommandsAnnounced
    /\ Running => runs > 0
    /\ pc \notin {"event", "poll", "item_cb", "timer_q", "pend", "pend_cb"} =>
          held = {}
    /\ pc = "expire" /\ NothingSwallowed => timer_queue = <<>>

\* A step that queues nothing new, loses no flag and does not leave the place
\* where the commands are served.
LEMMA AnnouncedKept ==
    ASSUME CommandsAnnounced, NothingSwallowed' => NothingSwallowed,
           timer_queue' # <<>> => timer_queue # <<>>,
           pending_queue' # <<>> => pending_queue # <<>>,
           flags \cup held \subseteq flags' \cup held',
           \/ pc \notin {"timer_q", "pend", "pend_cb"}
           \/ pc' = pc
           \/ pc = "timer_q" /\ timer_queue' = <<>>
           \/ pc = "pend" /\ pending_queue' = <<>>
           \/ {pc, pc'} \subseteq {"pend", "pend_cb"}
    PROVE  CommandsAnnounced'
  BY DEF CommandsAnnounced

\* A round that ends gives all flags back.
LEMMA RoundEnds ==
    ASSUME NEW also, NextRound(also), UNCHANGED runs, Announcements,
           pc \in {"event", "poll", "item_cb", "timer_q", "pend"},
           UNCHANGED <<timer_queue, pending_queue>>,
           pc = "timer_q" => timer_queue = <<>>,
           pc = "pend" => pending_queue = <<>>
    PROVE  Announcements'
<1>1. CommandsAnnounced'
  BY AnnouncedKept
     DEF NextRound, Announcements, NothingSwallowed, Running, LoopState
<1>2. QED
  BY <1>1 DEF NextRound, Announcements, Running, LoopState

\* Executing a request leaves an empty pending queue empty.
LEMMA RelabelledEmpty ==
    ASSUME TypeOK, NEW t \in Timers
    PROVE  [i \in DOMAIN pending_queue |->
               [pending_queue[i] EXCEPT !.preceding = @ \ {t}]] # <<>>
               => pending_queue # <<>>
<1> DEFINE f == [i \in DOMAIN pending_queue |->
                    [pending_queue[i] EXCEPT !.preceding = @ \ {t}]]
           S == Pended
<1>1. f \in Seq(S) /\ DOMAIN f = DOMAIN pending_queue
  BY PendingType
<1> HIDE DEF f, S
<1>2. ASSUME f # <<>>, pending_queue = <<>>
      PROVE  FALSE
  <2>1. Len(f) \in Nat \ {0} /\ DOMAIN f = 1 .. Len(f)
    BY <1>1, <1>2, EmptySeq, LenProperties
  <2>2. DOMAIN pending_queue = {}
    BY <1>2
  <2>3. 1 \in DOMAIN f
    BY <2>1
  <2>4. QED
    BY <1>1, <2>2, <2>3
<1>3. QED
  BY <1>2 DEF f

\* Calls that queue nothing and take nothing, at any place.
LEMMA CallAnnounced ==
    ASSUME Announcements, UNCHANGED <<pc, held, runs, timer_queue>>,
           pending_queue' = pending_queue, flags \subseteq flags'
    PROVE  Announcements'
  BY DEF Announcements, CommandsAnnounced, NothingSwallowed, Running, LoopState

LEMMA WakeAnnounced ==
    ASSUME Announcements, Wake
    PROVE  Announcements'
<1>1. /\ held = {} /\ pc = "wait" /\ flags' = {} /\ runs > 0
      /\ UNCHANGED <<runs, timer_queue, pending_queue>>
  BY DEF Announcements, Wake, timerVars, Running, LoopState
<1>2. CASE pc' = "user" /\ held' = {}
  <2>1. ~NothingSwallowed' /\ ~Running'
    BY <1>1, <1>2 DEF NothingSwallowed, Running, LoopState
  <2>2. QED
    BY <1>2, <2>1 DEF Announcements, CommandsAnnounced
<1>3. CASE pc' = "event" /\ held' = flags \ {"Event"}
  BY <1>1, <1>3 DEF Announcements, CommandsAnnounced, NothingSwallowed, Running,
     LoopState
<1>4. CASE pc' = "timer_q" /\ held' = flags \ {"Timer"}
  BY <1>1, <1>4 DEF Announcements, CommandsAnnounced, NothingSwallowed, Running,
     LoopState
<1>5. CASE flags = {"Pending"} /\ pc' = "pend" /\ held' = {}
  BY <1>1, <1>5 DEF Announcements, CommandsAnnounced, NothingSwallowed, Running,
     LoopState
<1>6. CASE flags = {} /\ pc' = "expire" /\ held' = {}
  BY <1>1, <1>6 DEF Announcements, CommandsAnnounced, NothingSwallowed, Running,
     LoopState
<1>7. QED
  BY <1>2, <1>3, <1>4, <1>5, <1>6 DEF Wake, ServeFlag

LEMMA NextAnnounced ==
    TypeOK /\ Announcements /\ [Next]_vars => Announcements'
<1> SUFFICES ASSUME TypeOK, Announcements, [Next]_vars PROVE Announcements'
  OBVIOUS
<1> USE DEF timerVars, timerFields
<1>1. CASE UNCHANGED vars
  BY <1>1, CallAnnounced DEF vars, loopVars
<1>2. CASE EnterWait \/ furi_event_loop_process_tick \/ TimedCallbackReturns
           \/ \E t \in Timers : FireTimer(t)
  <2>1. /\ UNCHANGED <<flags, held, runs, timer_queue, pending_queue>>
        /\ pc \in {"top", "expire", "timer_cb", "tick_cb"}
        /\ pc' \in {"wait", "tick_cb", "top", "timer_cb"}
    BY <1>2 DEF EnterWait, furi_event_loop_process_tick, TimedCallbackReturns,
       FireTimer, furi_event_loop_process_expired_timers
  <2>2. QED
    BY <2>1
       DEF Announcements, CommandsAnnounced, NothingSwallowed, Running, LoopState
<1>3. CASE Wake
  BY <1>3, WakeAnnounced
<1>4. CASE PopWaiting
  <2>1. CASE NextRound({})
    BY <1>4, <2>1, RoundEnds DEF PopWaiting
  <2>2. CASE UNCHANGED <<flags, held>> /\ pc' \in {"event", "poll"}
    BY <1>4, <2>2 DEF PopWaiting, Announcements, CommandsAnnounced,
       NothingSwallowed, Running, LoopState
  <2>3. QED
    BY <1>4, <2>1, <2>2 DEF PopWaiting
<1>5. CASE furi_event_loop_poll_process_event
  <2>1. CASE NextRound({})
    BY <1>5, <2>1, RoundEnds DEF furi_event_loop_poll_process_event
  <2>2. CASE UNCHANGED <<flags, held>> /\ pc' = "item_cb"
    BY <1>5, <2>2 DEF furi_event_loop_poll_process_event, Announcements,
       CommandsAnnounced, NothingSwallowed, Running, LoopState
  <2>3. QED
    BY <1>5, <2>1, <2>2 DEF furi_event_loop_poll_process_event
<1>6. CASE ItemCallbackReturns
  <2>1. CASE NextRound({"Event"})
    BY <1>6, <2>1, RoundEnds DEF ItemCallbackReturns
  <2>2. CASE UNCHANGED <<flags, held>> /\ pc' = "poll"
    BY <1>6, <2>2 DEF ItemCallbackReturns, Announcements, CommandsAnnounced,
       NothingSwallowed, Running, LoopState
  <2>3. QED
    BY <1>6, <2>1, <2>2 DEF ItemCallbackReturns
<1>7. CASE furi_event_loop_process_timer_queue
  <2>1. PICK t \in Timers :
           /\ ExecuteRequest(t)
           /\ pending_queue' = [i \in DOMAIN pending_queue |->
                 [pending_queue[i] EXCEPT !.preceding = @ \ {t}]]
    BY <1>7 DEF furi_event_loop_process_timer_queue
  <2>2. /\ timer_queue # <<>>
        /\ pending_queue' # <<>> => pending_queue # <<>>
    BY <2>1, RelabelledEmpty DEF ExecuteRequest
  <2>3. /\ UNCHANGED <<flags, held, runs, pc>>
        /\ pc \in {"timer_q", "free"}
    BY <1>7 DEF furi_event_loop_process_timer_queue, loopVars
  <2>4. QED
    BY <2>2, <2>3 DEF Announcements, CommandsAnnounced, NothingSwallowed, Running,
       LoopState
<1>8. CASE TimerQueueProcessed
  BY <1>8, RoundEnds DEF TimerQueueProcessed
<1>9. CASE furi_event_loop_process_pending_callbacks
  <2>1. CASE pending_queue = <<>> /\ NextRound({})
    BY <1>9, <2>1, RoundEnds DEF furi_event_loop_process_pending_callbacks
  <2>2. CASE UNCHANGED <<flags, held>> /\ pc' = "pend_cb"
    BY <1>9, <2>2 DEF furi_event_loop_process_pending_callbacks, Announcements,
       CommandsAnnounced, NothingSwallowed, Running, LoopState
  <2>3. QED
    BY <1>9, <2>1, <2>2 DEF furi_event_loop_process_pending_callbacks
<1>10. CASE PendingCallbackReturns
  BY <1>10 DEF PendingCallbackReturns, Announcements, CommandsAnnounced,
     NothingSwallowed, Running, LoopState
<1>11. CASE LoopReleased
  BY <1>11 DEF LoopReleased, Announcements, CommandsAnnounced, NothingSwallowed,
     Running, LoopState
<1>12. CASE furi_event_loop_run
  BY <1>12 DEF furi_event_loop_run, Announcements, CommandsAnnounced,
     NothingSwallowed, Running, LoopState, TypeOK, RestTypeOK
<1>13. CASE furi_event_loop_free
  BY <1>13 DEF furi_event_loop_free, Announcements, CommandsAnnounced,
     NothingSwallowed, Running, LoopState
<1>14. ASSUME NEW t \in Timers, TimerCall(t)
       PROVE  Announcements'
  <2>1. /\ UNCHANGED <<pc, held, runs, pending_queue>>
        /\ pc \in UserCode
        /\ \/ UNCHANGED <<timer_queue, flags>>
           \/ flags' = flags \cup {"Timer"}
    BY <1>14 DEF TimerCall, UserCall, CanCall, Notify,
       furi_event_loop_timer_alloc
  <2>2. QED
    BY <2>1 DEF Announcements, CommandsAnnounced, NothingSwallowed, Running,
       LoopState, UserCode
<1>15. CASE furi_event_loop_pend_callback
  <2>1. /\ UNCHANGED <<pc, held, runs, timer_queue>>
        /\ flags' = flags \cup {"Pending"}
    BY <1>15 DEF furi_event_loop_pend_callback, UserCall, Notify
  <2>2. QED
    BY <2>1 DEF Announcements, CommandsAnnounced, NothingSwallowed, Running,
       LoopState
<1>16. CASE \/ \E q \in Queues : \E e \in Events :
                  furi_event_loop_message_queue_subscribe(q, e)
            \/ \E q \in Queues : furi_event_loop_message_queue_unsubscribe(q)
            \/ furi_event_loop_stop
            \/ \E i \in TickSettings : furi_event_loop_tick_set(i)
            \/ \E c \in Callers : QueueApi(c) \/ furi_event_loop_link_notify(c)
            \/ Tick
  <2>1. /\ UNCHANGED <<pc, held, runs, timer_queue, pending_queue>>
        /\ flags \subseteq flags'
    BY <1>16 DEF furi_event_loop_message_queue_subscribe,
       furi_event_loop_message_queue_unsubscribe, furi_event_loop_stop,
       furi_event_loop_tick_set, UserCall, QueueApi, furi_message_queue_put,
       furi_message_queue_get, furi_message_queue_reset, QueueAccess,
       furi_event_loop_signal_callback, furi_event_loop_link_notify,
       furi_event_loop_item_notify, Notify, Tick, TickTimers, loopVars
  <2>2. QED
    BY <2>1, CallAnnounced
<1>17. CASE RunLoop
  BY <1>2, <1>3, <1>4, <1>5, <1>6, <1>7, <1>8, <1>9, <1>10, <1>11, <1>17
     DEF RunLoop
<1>18. CASE UserApi
  BY <1>12, <1>13, <1>14, <1>15, <1>16, <1>18 DEF UserApi
<1>19. QED
  BY <1>1, <1>16, <1>17, <1>18 DEF Next

LEMMA AlwaysAnnounced == Spec => []Announcements
<1>1. Init => Announcements
  BY DEF Init, TimerInit, Announcements, CommandsAnnounced, Running, LoopState
<1>2. QED
  BY <1>1, TypeCorrect, NextAnnounced, PTL DEF Spec

\* Until the loop is stopped, a queued timer request or pending callback is
\* announced by a flag the loop has yet to serve or is being served, in every
\* interleaving of user calls, notifications and rounds of the loop.
THEOREM CommandsStayAnnounced == Spec => []CommandsAnnounced
<1>1. Announcements => CommandsAnnounced
  BY DEF Announcements
<1>2. QED
  BY <1>1, AlwaysAnnounced, PTL

\* From the call of furi_event_loop_timer_stop or _free on, the callback of
\* the timer does not run in the first furi_event_loop_run: the request is
\* announced, and the loop looks at expired timers only when nothing is.
THEOREM StoppedTimerIsSilent == Spec => SilentAfterStop
<1>1. ASSUME TypeOK, TimersLinked, Announcements
      PROVE  [\A t \in Timers : runs = 1 /\ FireTimer(t) =>
                  request[t] \notin {"Stop", "Free"}]_vars
  <2> SUFFICES ASSUME NEW t \in Timers, runs = 1, FireTimer(t)
               PROVE  request[t] \notin {"Stop", "Free"}
    OBVIOUS
  <2>1. timer_queue = <<>>
    BY <1>1 DEF FireTimer, Announcements, NothingSwallowed, Running, LoopState
  <2>2. t \notin ToSet(timer_queue)
    BY <2>1 DEF ToSet
  <2>3. QED
    BY <1>1, <2>2 DEF TimersLinked
<1>2. QED
  BY <1>1, TypeCorrect, TimersStayLinked, AlwaysAnnounced, PTL
     DEF SilentAfterStop
-----------------------------------------------------------------------------
(* Pending callbacks run after the commands that precede them.             *)

\* What keeps PendedAfterCommands true: an entry waits for queued requests
\* only, and the loop gets to the pending callbacks when none is queued; what
\* is pended from then on until it has called them all is nested.
PendedKnown ==
    /\ \A i \in 1 .. Len(pending_queue) :
          /\ pending_queue[i].preceding \subseteq ToSet(timer_queue)
          /\ NothingSwallowed /\ pc \in {"pend", "pend_cb"} =>
                pending_queue[i].nested \/ pending_queue[i].preceding = {}
    /\ pc = "pend_cb" => pending_queue # <<>>

\* A step that queues no callback and executes no request.
LEMMA PendedKept ==
    ASSUME TypeOK, PendedKnown, UNCHANGED pending_queue,
           ToSet(timer_queue) \subseteq ToSet(timer_queue'),
           NothingSwallowed' => NothingSwallowed,
           \/ pc' \notin {"pend", "pend_cb"}
           \/ pc' = pc
           \/ pc = "pend" /\ pc' = "pend_cb" /\ pending_queue # <<>>
    PROVE  PendedKnown'
  BY DEF PendedKnown

\* Pending a callback, and the return of one.
LEMMA PendCalls ==
    ASSUME TypeOK, PendedKnown,
           furi_event_loop_pend_callback \/ PendingCallbackReturns
    PROVE  PendedKnown'
<1> DEFINE n == Len(pending_queue)
<1>1. /\ pending_queue \in Seq(Pended) /\ n \in Nat
      /\ \A i \in 1 .. n : pending_queue[i] \in Pended
  <2> DEFINE S == Pended
  <2>1. pending_queue \in Seq(S)
    BY DEF TypeOK, RestTypeOK
  <2> HIDE DEF S
  <2>2. n \in Nat /\ \A i \in 1 .. n : pending_queue[i] \in S
    BY <2>1, LenProperties, ElementOfSeq
  <2>3. QED
    BY <2>1, <2>2 DEF S
<1>2. CASE furi_event_loop_pend_callback
  <2> DEFINE new == [preceding |-> ToSet(timer_queue), nested |-> pc = "pend_cb"]
  <2>1. /\ pending_queue' = <<new>> \o pending_queue
        /\ UNCHANGED <<timer_queue, pc, runs>> /\ pc \in UserCode
    BY <1>2 DEF furi_event_loop_pend_callback, UserCall, CanCall, timerVars
  <2>2. /\ new.preceding \subseteq ToSet(timer_queue)
        /\ pc \in {"pend", "pend_cb"} => new.nested
    BY <2>1 DEF UserCode
  <2> HIDE DEF new
  <2>3. /\ Len(<<new>> \o pending_queue) = n + 1
        /\ \A i \in 1 .. n + 1 :
              (<<new>> \o pending_queue)[i] =
                  IF i = 1 THEN new ELSE pending_queue[i - 1]
    <3> DEFINE S == Pended \cup {new}
    <3>1. pending_queue \in Seq(S) /\ <<new>> \in Seq(S)
      <4>1. new \in S /\ Pended \subseteq S
        OBVIOUS
      <4> HIDE DEF S
      <4>2. \A i \in 1 .. n : pending_queue[i] \in S
        BY <1>1, <4>1
      <4>3. pending_queue \in Seq(S)
        BY <1>1, <4>2, LenProperties, IsASeq
      <4>4. QED
        BY <4>1, <4>3
    <3> HIDE DEF S
    <3>2. Len(<<new>>) = 1 /\ <<new>>[1] = new
      OBVIOUS
    <3>3. /\ Len(<<new>> \o pending_queue) = 1 + n
          /\ \A i \in 1 .. 1 + n :
                (<<new>> \o pending_queue)[i] =
                    IF i <= 1 THEN <<new>>[i] ELSE pending_queue[i - 1]
      BY <3>1, <3>2, ConcatProperties
    <3>4. QED
      BY <1>1, <3>2, <3>3
  <2>4. Len(pending_queue') = n + 1
    BY <2>1, <2>3
  <2>5. ASSUME NEW i \in 1 .. n + 1
        PROVE  /\ pending_queue'[i].preceding \subseteq ToSet(timer_queue)
               /\ NothingSwallowed /\ pc \in {"pend", "pend_cb"} =>
                     \/ pending_queue'[i].nested
                     \/ pending_queue'[i].preceding = {}
    <3>1. CASE i = 1
      BY <2>1, <2>2, <2>3, <3>1
    <3>2. CASE i # 1
      <4>1. i - 1 \in 1 .. n
        BY <1>1, <3>2
      <4>2. pending_queue'[i] = pending_queue[i - 1]
        BY <2>1, <2>3, <3>2
      <4>3. QED
        BY <4>1, <4>2 DEF PendedKnown
    <3>3. QED
      BY <3>1, <3>2
  <2>6. NothingSwallowed' <=> NothingSwallowed
    BY <2>1 DEF NothingSwallowed, Running, LoopState
  <2>7. pending_queue' # <<>>
    BY <1>1, <2>4
  <2>8. QED
    BY <2>1, <2>4, <2>5, <2>6, <2>7 DEF PendedKnown
<1>3. CASE PendingCallbackReturns
  <2>1. /\ pc = "pend_cb" /\ pc' = "pend" /\ UNCHANGED <<runs, timer_queue>>
        /\ pending_queue' = Front(pending_queue)
    BY <1>3 DEF PendingCallbackReturns, timerVars
  <2>2. pending_queue # <<>> /\ n # 0
    BY <1>1, <2>1, EmptySeq DEF PendedKnown
  <2>3. /\ Len(Front(pending_queue)) = n - 1
        /\ \A i \in 1 .. n - 1 : Front(pending_queue)[i] = pending_queue[i]
    <3> DEFINE S == Pended
    <3>1. pending_queue \in Seq(S)
      BY <1>1
    <3> HIDE DEF S
    <3> DEFINE m == n - 1
    <3>2. m \in Nat /\ \A i \in 1 .. m : pending_queue[i] \in S
      BY <1>1, <2>2 DEF S
    <3> HIDE DEF m
    <3>3. /\ Len(SubSeq(pending_queue, 1, m)) = m
          /\ \A i \in 1 .. m : SubSeq(pending_queue, 1, m)[i] = pending_queue[i]
      <4>1. /\ Len(SubSeq(pending_queue, 1, m)) = IF 1 <= m THEN m - 1 + 1 ELSE 0
            /\ \A i \in 1 .. m - 1 + 1 :
                  SubSeq(pending_queue, 1, m)[i] = pending_queue[1 + i - 1]
        BY <3>2, SubSeqProperties
      <4>2. QED
        BY <3>2, <4>1
    <3>4. QED
      BY <3>3 DEF Front, m
  <2>4. NothingSwallowed' <=> NothingSwallowed
    BY <2>1 DEF NothingSwallowed, Running, LoopState
  <2>5. QED
    BY <1>1, <2>1, <2>3, <2>4 DEF PendedKnown
<1>4. QED
  BY <1>2, <1>3

\* Executing a request.
LEMMA RequestPended ==
    ASSUME TypeOK, PendedKnown, furi_event_loop_process_timer_queue
    PROVE  PendedKnown'
<1>1. PICK t \in Timers :
         /\ ExecuteRequest(t)
         /\ pending_queue' = [i \in DOMAIN pending_queue |->
               [pending_queue[i] EXCEPT !.preceding = @ \ {t}]]
  BY DEF furi_event_loop_process_timer_queue
<1>2. pc' = pc /\ pc \notin {"pend", "pend_cb"}
  BY DEF furi_event_loop_process_timer_queue, loopVars
<1> DEFINE n == Len(pending_queue)
           f == [i \in 1 .. n |->
                    [pending_queue[i] EXCEPT !.preceding = @ \ {t}]]
<1>3. DOMAIN pending_queue = 1 .. n /\ n \in Nat
  <2> DEFINE S == Pended
  <2>1. pending_queue \in Seq(S)
    BY DEF TypeOK, RestTypeOK
  <2> HIDE DEF S
  <2>2. QED
    BY <2>1, LenProperties
<1>4. pending_queue' = f
  BY <1>1, <1>3
<1>5. /\ Len(pending_queue') = n
      /\ \A i \in 1 .. n :
            pending_queue'[i] = [pending_queue[i] EXCEPT !.preceding = @ \ {t}]
  <2>1. /\ DOMAIN f = 1 .. n
        /\ \A i \in 1 .. n :
              f[i] = [pending_queue[i] EXCEPT !.preceding = @ \ {t}]
    OBVIOUS
  <2>2. f \in Seq(Pended)
    BY <1>1, <1>4, PendingType
  <2> HIDE DEF f
  <2> DEFINE S == Pended
  <2>3. f \in Seq(S)
    BY <2>2
  <2> HIDE DEF S
  <2>4. Len(f) \in Nat /\ DOMAIN f = 1 .. Len(f)
    BY <2>3, LenProperties
  <2>5. Len(f) = n
    BY <1>3, <2>1, <2>4
  <2>6. QED
    BY <1>4, <2>1, <2>5
<1>6. ToSet(timer_queue) \ {t} \subseteq ToSet(timer_queue')
  BY <1>1, PopList DEF ExecuteRequest, TypeOK, TimerTypeOK
<1> HIDE DEF n, f
<1>7. ASSUME NEW i \in 1 .. n
      PROVE  pending_queue'[i].preceding \subseteq ToSet(timer_queue')
  <2>1. pending_queue[i].preceding \subseteq ToSet(timer_queue)
    BY <1>7 DEF PendedKnown, n
  <2>2. pending_queue[i] \in Pended
    <3> DEFINE S == Pended
    <3>1. pending_queue \in Seq(S)
      BY DEF TypeOK, RestTypeOK
    <3> HIDE DEF S
    <3>2. pending_queue[i] \in S
      BY <1>7, <3>1, ElementOfSeq DEF n
    <3>3. QED
      BY <3>2 DEF S
  <2>3. pending_queue'[i].preceding = pending_queue[i].preceding \ {t}
    BY <1>5, <1>7, <2>2 DEF Pended
  <2>4. QED
    BY <1>6, <2>1, <2>3
<1>8. QED
  BY <1>2, <1>5, <1>7 DEF PendedKnown, n

\* Requests are queued.
LEMMA TimerCallPended ==
    ASSUME TypeOK, NEW t \in Timers, TimerCall(t)
    PROVE  ToSet(timer_queue) \subseteq ToSet(timer_queue')
<1>1. CASE UNCHANGED timer_queue
  BY <1>1
<1>2. ASSUME NEW req, furi_event_loop_timer_enqueue_request(t, req)
      PROVE  ToSet(timer_queue) \subseteq ToSet(timer_queue')
  <2>1. timer_queue \in Seq(Timers)
    BY DEF TypeOK, TimerTypeOK
  <2> DEFINE r == RemoveFirst(timer_queue, t)
  <2>2. r \in Seq(Timers) /\ ToSet(timer_queue) \ {t} \subseteq ToSet(r)
    BY <2>1, UnlinkList
  <2> HIDE DEF r
  <2>3. \/ timer_queue' = Append(timer_queue, t)
        \/ timer_queue' = Append(r, t)
    BY <1>2 DEF furi_event_loop_timer_enqueue_request, r
  <2>4. /\ ToSet(Append(timer_queue, t)) = ToSet(timer_queue) \cup {t}
        /\ ToSet(Append(r, t)) = ToSet(r) \cup {t}
    BY <2>1, <2>2, AppendList
  <2>5. QED
    BY <2>2, <2>3, <2>4
<1>3. QED
  BY <1>1, <1>2
     DEF TimerCall, furi_event_loop_timer_alloc, furi_event_loop_timer_start,
         furi_event_loop_timer_restart, furi_event_loop_timer_stop,
         furi_event_loop_timer_free

LEMMA NextPended ==
    TypeOK /\ Announcements /\ PendedKnown /\ [Next]_vars => PendedKnown'
<1> SUFFICES ASSUME TypeOK, Announcements, PendedKnown, [Next]_vars
             PROVE  PendedKnown'
  OBVIOUS
<1> USE DEF timerVars, timerFields
<1>1. CASE Wake
  <2>1. /\ pc = "wait" /\ UNCHANGED <<timer_queue, pending_queue>>
        /\ pc' \in {"user", "event", "timer_q", "pend", "expire"}
        /\ pc' = "pend" => flags = {"Pending"}
        /\ UNCHANGED runs
    BY <1>1 DEF Wake, ServeFlag
  <2>2. CASE pc' # "pend"
    BY <2>1, <2>2 DEF PendedKnown
  <2>3. CASE pc' = "pend"
    <3>1. NothingSwallowed' => NothingSwallowed
      BY <2>1 DEF NothingSwallowed, Running, LoopState
    <3>2. NothingSwallowed => timer_queue = <<>>
      BY <2>1, <2>3 DEF Announcements, CommandsAnnounced
    <3>3. NothingSwallowed => ToSet(timer_queue) = {}
      BY <3>2 DEF ToSet
    <3>4. QED
      BY <2>1, <2>3, <3>1, <3>3 DEF PendedKnown
  <2>4. QED
    BY <2>2, <2>3
<1>2. CASE \/ EnterWait \/ PopWaiting \/ furi_event_loop_poll_process_event
           \/ ItemCallbackReturns \/ TimerQueueProcessed
           \/ (\E t \in Timers : FireTimer(t))
           \/ furi_event_loop_process_tick \/ TimedCallbackReturns
           \/ furi_event_loop_run \/ furi_event_loop_free
  <2>1. /\ UNCHANGED <<timer_queue, pending_queue>>
        /\ pc' \notin {"pend", "pend_cb"}
    BY <1>2 DEF EnterWait, PopWaiting, furi_event_loop_poll_process_event,
       ItemCallbackReturns, TimerQueueProcessed, NextRound, FireTimer,
       furi_event_loop_process_expired_timers, furi_event_loop_process_tick,
       TimedCallbackReturns, furi_event_loop_run, furi_event_loop_free
  <2>2. QED
    BY <2>1 DEF PendedKnown
<1>3. CASE furi_event_loop_process_timer_queue
  BY <1>3, RequestPended
<1>4. CASE furi_event_loop_process_pending_callbacks
  <2>1. /\ pc = "pend" /\ UNCHANGED <<timer_queue, pending_queue, runs>>
        /\ \/ pc' = "top"
           \/ pc' = "pend_cb" /\ pending_queue # <<>>
    BY <1>4 DEF furi_event_loop_process_pending_callbacks, NextRound
  <2>2. NothingSwallowed' => NothingSwallowed
    BY <2>1 DEF NothingSwallowed, Running, LoopState
  <2>3. QED
    BY <2>1, <2>2, PendedKept
<1>5. CASE furi_event_loop_pend_callback \/ PendingCallbackReturns
  BY <1>5, PendCalls
<1>6. CASE LoopReleased
  <2>1. pending_queue' = <<>> /\ pc' = "freed"
    BY <1>6 DEF LoopReleased
  <2>2. Len(pending_queue') = 0
    BY <2>1, EmptySeq
  <2>3. QED
    BY <2>1, <2>2 DEF PendedKnown
<1>7. ASSUME UNCHANGED <<pc, runs, pending_queue>>,
             ToSet(timer_queue) \subseteq ToSet(timer_queue')
      PROVE  PendedKnown'
  <2>1. NothingSwallowed' => NothingSwallowed
    BY <1>7 DEF NothingSwallowed, Running, LoopState
  <2>2. QED
    BY <1>7, <2>1, PendedKept
<1>8. ASSUME NEW t \in Timers, TimerCall(t)
      PROVE  PendedKnown'
  <2>1. UNCHANGED <<pc, runs, pending_queue>>
    BY <1>8 DEF TimerCall, UserCall
  <2>2. QED
    BY <1>7, <1>8, <2>1, TimerCallPended
<1>9. CASE \/ \E q \in Queues : \E e \in Events :
                 furi_event_loop_message_queue_subscribe(q, e)
           \/ \E q \in Queues : furi_event_loop_message_queue_unsubscribe(q)
           \/ furi_event_loop_stop
           \/ \E i \in TickSettings : furi_event_loop_tick_set(i)
           \/ \E c \in Callers : QueueApi(c) \/ furi_event_loop_link_notify(c)
           \/ Tick \/ UNCHANGED vars
  <2>1. UNCHANGED <<pc, runs, timer_queue, pending_queue>>
    BY <1>9 DEF furi_event_loop_message_queue_subscribe,
       furi_event_loop_message_queue_unsubscribe, furi_event_loop_stop,
       furi_event_loop_tick_set, UserCall, QueueApi, furi_message_queue_put,
       furi_message_queue_get, furi_message_queue_reset, QueueAccess,
       furi_event_loop_signal_callback, furi_event_loop_link_notify,
       Tick, TickTimers, loopVars, vars
  <2>2. QED
    BY <1>7, <2>1
<1>10. CASE RunLoop
  BY <1>1, <1>2, <1>3, <1>4, <1>5, <1>6, <1>10 DEF RunLoop
<1>11. CASE UserApi
  BY <1>2, <1>5, <1>8, <1>9, <1>11 DEF UserApi
<1>12. QED
  BY <1>9, <1>10, <1>11 DEF Next

\* A waiting loop leaves the wait by taking the flags.
LEMMA WaitEndsInWake ==
    ASSUME [Next]_vars, pc = "wait", pc' # "wait"
    PROVE  Wake
<1> USE DEF timerVars, timerFields, loopVars
<1>1. ASSUME NEW c \in Callers, QueueApi(c) \/ furi_event_loop_link_notify(c)
      PROVE  pc' = pc
  BY <1>1 DEF QueueApi, furi_message_queue_put, furi_message_queue_get,
     furi_message_queue_reset, QueueAccess, furi_event_loop_signal_callback,
     furi_event_loop_link_notify
<1>2. ~UserApi
  BY DEF UserApi, furi_event_loop_message_queue_subscribe,
     furi_event_loop_message_queue_unsubscribe, TimerCall, furi_event_loop_stop,
     furi_event_loop_pend_callback, furi_event_loop_tick_set, UserCall, CanCall,
     UserCode, furi_event_loop_run, furi_event_loop_free
<1>3. RunLoop => Wake
  BY DEF RunLoop, EnterWait, PopWaiting, furi_event_loop_poll_process_event,
     ItemCallbackReturns, furi_event_loop_process_timer_queue,
     TimerQueueProcessed, furi_event_loop_process_pending_callbacks,
     PendingCallbackReturns, FireTimer, furi_event_loop_process_tick,
     TimedCallbackReturns, LoopReleased
<1>4. Tick \/ UNCHANGED vars => pc' = pc
  BY DEF Tick, vars
<1>5. QED
  BY <1>1, <1>2, <1>3, <1>4 DEF Next

\* furi_event_loop_pend_callback in the first furi_event_loop_run: the loop
\* turns to its pending callbacks when no timer request is queued, and a
\* callback pended by anything but a pending callback is called when all
\* requests queued before it have been executed.  A callback pended by a pending
\* callback is called in the same go, before what was requested meanwhile: the
\* first half is all that holds for it.
THEOREM PendedRunAfterCommands == Spec => PendedAfterCommands
<1>1. Init => PendedKnown
  <2>1. Len(<<>>) = 0
    BY EmptySeq
  <2>2. QED
    BY <2>1 DEF Init, PendedKnown
<1>2. ASSUME TypeOK, PendedKnown, runs = 1, pc = "pend_cb",
             ~Last(pending_queue).nested
      PROVE  Last(pending_queue).preceding = {}
  <2>1. NothingSwallowed
    BY <1>2 DEF NothingSwallowed, Running, LoopState
  <2> DEFINE n == Len(pending_queue)
             S == Pended
  <2>2. pending_queue \in Seq(S) /\ pending_queue # <<>>
    BY <1>2 DEF TypeOK, RestTypeOK, PendedKnown
  <2>3. n \in 1 .. n
    <3> HIDE DEF S
    <3>1. QED
      BY <2>2, EmptySeq, LenProperties
  <2>4. pending_queue[n].nested \/ pending_queue[n].preceding = {}
    BY <1>2, <2>1, <2>3 DEF PendedKnown
  <2>5. QED
    BY <1>2, <2>4 DEF Last
<1>3. ASSUME TypeOK, Announcements, [Next]_vars,
             runs = 1, pc = "wait", pc' = "pend"
      PROVE  timer_queue = <<>>
  <2>1. Wake
    BY <1>3, WaitEndsInWake
  <2>2. flags = {"Pending"} /\ held = {}
    BY <1>3, <2>1 DEF Wake, ServeFlag, Announcements
  <2>3. NothingSwallowed
    BY <1>3 DEF NothingSwallowed, Running, LoopState
  <2>4. QED
    BY <1>3, <2>2, <2>3 DEF Announcements, CommandsAnnounced
<1>4. TypeOK /\ PendedKnown =>
          (runs = 1 /\ pc = "pend_cb" /\ ~Last(pending_queue).nested =>
               Last(pending_queue).preceding = {})
  BY <1>2
<1>5. TypeOK /\ Announcements /\ [Next]_vars =>
          [runs = 1 /\ pc = "wait" /\ pc' = "pend" => timer_queue = <<>>]_vars
  BY <1>3
<1>6. QED
  BY <1>1, <1>4, <1>5, TypeCorrect, AlwaysAnnounced, NextPended, PTL
     DEF Spec, PendedAfterCommands
-----------------------------------------------------------------------------
(* Releasing the loop.                                                     *)

\* While furi_event_loop_free executes the last requests, every timer that is
\* left waits for its release.
AllFreed == pc = "free" => \A t \in alive : request[t] = "Free"

LEMMA NextAllFreed == TypeOK /\ AllFreed /\ [Next]_vars => AllFreed'
<1> SUFFICES ASSUME TypeOK, AllFreed, [Next]_vars, pc' = "free",
                    NEW t \in alive'
             PROVE  request'[t] = "Free"
  BY DEF AllFreed
<1>1. CASE furi_event_loop_free
  BY <1>1 DEF furi_event_loop_free, timerVars, timerFields, TypeOK, TimerTypeOK
<1>2. CASE furi_event_loop_process_timer_queue
  <2>1. pc = "free"
    BY <1>2 DEF furi_event_loop_process_timer_queue, loopVars
  <2>2. PICK u \in Timers : ExecuteRequest(u)
    BY <1>2 DEF furi_event_loop_process_timer_queue
  <2>3. ExecuteFree(u) \/ u \notin alive
    BY <2>1, <2>2 DEF AllFreed, ExecuteRequest, ExecuteStart, ExecuteStop
  <2>4. CASE ExecuteFree(u)
    BY <2>1, <2>4 DEF AllFreed, ExecuteFree, TypeOK, TimerTypeOK
  <2>5. CASE u \notin alive
    BY <2>1, <2>2, <2>5 DEF AllFreed, ExecuteRequest, ExecuteStart,
       ExecuteStop, ExecuteFree, TypeOK, TimerTypeOK
  <2>6. QED
    BY <2>3, <2>4, <2>5
<1>3. CASE UNCHANGED <<pc, alive, request>>
  BY <1>3 DEF AllFreed
<1>4. ASSUME NEW u \in Timers, TimerCall(u)
      PROVE  FALSE
  BY <1>4 DEF TimerCall, UserCall, CanCall, UserCode
<1>5. CASE RunLoop
  BY <1>2, <1>5
     DEF RunLoop, EnterWait, Wake, ServeFlag, PopWaiting, NextRound,
         furi_event_loop_poll_process_event, ItemCallbackReturns,
         TimerQueueProcessed, furi_event_loop_process_pending_callbacks,
         PendingCallbackReturns, furi_event_loop_process_tick, FireTimer,
         TimedCallbackReturns, LoopReleased
<1>6. CASE UserApi
  BY <1>1, <1>3, <1>4, <1>6
     DEF UserApi, furi_event_loop_message_queue_subscribe,
         furi_event_loop_message_queue_unsubscribe, furi_event_loop_stop,
         furi_event_loop_pend_callback, furi_event_loop_tick_set, UserCall,
         furi_event_loop_run, timerVars, timerFields
<1>7. ASSUME NEW c \in Callers, QueueApi(c) \/ furi_event_loop_link_notify(c)
      PROVE  request'[t] = "Free"
  BY <1>3, <1>7
     DEF QueueApi, furi_message_queue_put, furi_message_queue_get,
         furi_message_queue_reset, QueueAccess, furi_event_loop_signal_callback,
         furi_event_loop_link_notify, timerVars, timerFields
<1>8. CASE Tick \/ UNCHANGED vars
  BY <1>3, <1>8 DEF Tick, TickTimers, vars, timerVars, timerFields, loopVars
<1>9. QED
  BY <1>5, <1>6, <1>7, <1>8 DEF Next

\* furi_event_loop_free finds no running timer (furi_check of the list) once
\* it has executed the requests, if user code has asked for the release
\* of all its timers.
THEOREM FreeIsClean == Spec => []FreeFindsNoTimer
<1>1. Init => AllFreed
  BY DEF Init, AllFreed
<1>2. ASSUME TypeOK, TimersLinked, AllFreed
      PROVE  FreeFindsNoTimer
  <2> SUFFICES ASSUME pc = "free", timer_queue = <<>>
               PROVE  timer_list = <<>>
    BY DEF FreeFindsNoTimer
  <2>1. ToSet(timer_queue) = {}
    BY DEF ToSet
  <2>2. active = {}
    BY <1>2, <2>1 DEF TimersLinked, AllFreed, TypeOK, TimerTypeOK
  <2>3. timer_list \in Seq(Timers)
    BY <1>2 DEF TypeOK, TimerTypeOK
  <2>4. ASSUME timer_list # <<>>
        PROVE  FALSE
    <3>1. Head(timer_list) \in Timers /\ Head(timer_list) \in ToSet(timer_list)
      BY <2>3, <2>4, PopList
    <3>2. QED
      BY <1>2, <2>2, <3>1 DEF TimersLinked
  <2>5. QED
    BY <2>4
<1>3. QED
  BY <1>1, <1>2, TypeCorrect, TimersStayLinked, NextAllFreed, PTL DEF Spec
=============================================================================
