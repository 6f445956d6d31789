----------------------------- MODULE EventLoop ------------------------------
(***************************************************************************)
(* FuriEventLoop (furi/core/event_loop.c, event_loop_tick.c) and the       *)
(* message queues it watches (furi/core/message_queue.c).                  *)
(*                                                                         *)
(* One thread owns the loop.  It sleeps on one word of notification flags, *)
(* serves one flag per wake-up in the order Stop, Event, Timer, Pending    *)
(* and gives the other flags back.  Threads and interrupt handlers put     *)
(* into, take from and reset message queues; a queue operation and the     *)
(* notification of the loop that follows it are two steps.                 *)
(*                                                                         *)
(* User code runs on the loop's thread outside furi_event_loop_run and in  *)
(* the callbacks; it may call any function of the API there.               *)
(***************************************************************************)
EXTENDS EventLoopTimer, FiniteSets

CONSTANTS
    Queues,         \* message queues
    Capacity,       \* message slots of a queue
    Threads,        \* other threads and interrupt handlers
    Loop,           \* the loop's own thread
    None,           \* NULL
    Freed,          \* a released FuriEventLoopItem still in the waiting list
    TickIntervals,  \* intervals user code passes to furi_event_loop_tick_set
    MaxPend,        \* bound: pending callbacks
    LoopCalls,      \* bound: API calls of user code on the loop's thread
    ThreadCalls,    \* bound: calls of each other thread
    MaxRuns         \* bound: calls of furi_event_loop_run

\* FuriEventLoopEventIn: a message has come; ...Out: a slot has come free.
Events == {"In", "Out"}

ASSUME LoopAssumption ==
    /\ Capacity \in Nat \ {0}
    /\ Loop \notin Threads
    /\ None \notin Queues \cup Timers \cup Events \cup (Queues \X Events)
    /\ Freed \notin Queues
    /\ TickIntervals \subseteq Nat \ {0}
    /\ \A i \in TickIntervals : i + MaxLate + 1 < TickMod
    /\ {MaxPend, LoopCalls, ThreadCalls, MaxRuns} \subseteq Nat

VARIABLES
    flags,          \* task notification value of the loop's thread
    pc,             \* where the loop's thread is
    held,           \* flags taken by the wait and not served in this round
    cur,            \* the queue or timer whose callback is being served
    consumed,       \* the item callback has taken or added a message
    sub,            \* event a queue is subscribed for; None: no item
    waiting_list,   \* WaitingList: items with an event to process
    count,          \* messages in each queue
    owe,            \* <<queue, event>> a caller has yet to notify
    pending_queue,  \* PendingQueue, the newest callback first
    tick,           \* the tick: interval 0 stands for no callback
    sleep,          \* ticks until the wait times out
    calls,          \* API calls made by each thread
    runs,           \* calls of furi_event_loop_run
    ub              \* released memory has been written

loopVars == <<flags, pc, held, cur, consumed>>
queueVars == <<sub, waiting_list, count, owe, ub>>
vars == <<timerVars, loopVars, queueVars, pending_queue, tick, sleep,
          calls, runs>>

Flags == {"Event", "Stop", "Timer", "Pending"}
Callers == Threads \cup {Loop}

\* Places where user code runs on the loop's thread.
UserCode == {"user", "item_cb", "pend_cb", "timer_cb", "tick_cb"}
Places == UserCode \cup
    {"top", "wait", "event", "poll", "timer_q", "pend", "expire",
     "free", "freed"}

\* What cur, sub, waiting_list, owe and tick range over.
Served == Queues \cup Timers \cup {None}
Subscriptions == Events \cup {None}
Items == Queues \cup {Freed}
Notices == (Queues \X Events) \cup {None}
TickSettings == TickIntervals \cup {0}
Ticks == [interval : TickSettings, prev_time : 0 .. TickMod - 1]

\* A pending callback, with what PendedAfterCommands tells apart: the timers
\* whose requests precede it and are not executed yet, and whether it was pended
\* by a pending callback.
Pended == [preceding : SUBSET Timers, nested : BOOLEAN]

LoopTypeOK ==
    /\ flags \subseteq Flags /\ held \subseteq Flags
    /\ pc \in Places
    /\ cur \in Served
    /\ pc \in {"poll", "item_cb"} => cur \in Queues
    /\ consumed \in BOOLEAN

QueueTypeOK ==
    /\ sub \in [Queues -> Subscriptions]
    /\ waiting_list \in Seq(Items)
    /\ count \in [Queues -> 0 .. Capacity]
    /\ owe \in [Callers -> Notices]
    /\ ub \in BOOLEAN

RestTypeOK ==
    /\ pending_queue \in Seq(Pended)
    /\ tick \in Ticks
    /\ sleep \in 0 .. TickMod - 1
    /\ calls \in [Callers -> Nat]
    /\ runs \in Nat

TypeOK == TimerTypeOK /\ LoopTypeOK /\ QueueTypeOK /\ RestTypeOK

\* The loop as furi_event_loop_alloc leaves it, with empty queues.
Init ==
    /\ TimerInit
    /\ flags = {} /\ held = {}
    /\ pc = "user"
    /\ cur = None
    /\ consumed = FALSE /\ ub = FALSE
    /\ sub = [q \in Queues |-> None]
    /\ waiting_list = <<>>
    /\ count = [q \in Queues |-> 0]
    /\ owe = [c \in Callers |-> None]
    /\ pending_queue = <<>>
    /\ tick = [interval |-> 0, prev_time |-> 0]
    /\ sleep = 0
    /\ calls = [c \in Callers |-> 0]
    /\ runs = 0

\* FuriEventLoopState; furi_event_loop_run is active unless it is Stopped.
LoopState ==
    IF pc \in {"user", "free", "freed"} THEN "Stopped"
    ELSE IF pc \in {"top", "wait"} THEN "Idle" ELSE "Processing"
Running == LoopState # "Stopped"
-----------------------------------------------------------------------------
(* Items and the waiting list.                                             *)

\* furi_message_queue_event_loop_get_level for a queue subscribed for event
Level(q, event) == IF event = "In" THEN count[q] ELSE Capacity - count[q]

\* xTaskNotifyIndexed(.., flag, eSetBits)
Notify(flag) == flags' = flags \cup {flag}

\* Appending to the list writes its last element, taking the first one writes
\* the second.
PushTouchesFreed == waiting_list # <<>> /\ Last(waiting_list) = Freed
PopTouchesFreed ==
    \E i \in {1, 2} : i <= Len(waiting_list) /\ waiting_list[i] = Freed

\* The item of q goes to the back of the waiting list unless it is in it.
LinkItem(q) ==
    IF q \in ToSet(waiting_list)
    THEN UNCHANGED <<waiting_list, ub>>
    ELSE IF PushTouchesFreed
    THEN ub' = TRUE /\ UNCHANGED waiting_list
    ELSE waiting_list' = Append(waiting_list, q) /\ UNCHANGED ub

furi_event_loop_item_notify(q) == LinkItem(q) /\ Notify("Event")
-----------------------------------------------------------------------------
(* Message queues, used by any thread.                                     *)

\* Caller c is at liberty to call a function.  `consuming' tells the access
\* with which an item callback serves its event; it is not counted.
CanCall(c, consuming) ==
    /\ owe[c] = None
    /\ IF c = Loop
       THEN /\ pc \in UserCode
            /\ IF consuming
               THEN consumed' = TRUE /\ UNCHANGED calls
               ELSE /\ calls[c] < LoopCalls
                    /\ calls' = [calls EXCEPT ![c] = @ + 1]
                    /\ UNCHANGED consumed
       ELSE /\ calls[c] < ThreadCalls
            /\ calls' = [calls EXCEPT ![c] = @ + 1]
            /\ UNCHANGED consumed

\* The item callback of q accesses q for the event it was called for.
Consuming(c, q, event) ==
    /\ c = Loop /\ pc = "item_cb" /\ cur = q
    /\ sub[q] = event /\ ~consumed

QueueAccess(c, q, event) ==
    /\ owe' = [owe EXCEPT ![c] = <<q, event>>]
    /\ UNCHANGED <<timerVars, flags, pc, held, cur, sub, waiting_list, ub,
                   pending_queue, tick, sleep, runs>>

\* Mutant: does not look for a free slot.
PutUnchecked(c, q) ==
    /\ pc # "freed"
    /\ CanCall(c, Consuming(c, q, "Out"))
    /\ count' = [count EXCEPT ![q] = @ + 1]
    /\ QueueAccess(c, q, "In")

\* A full queue makes the caller wait or fail: no step.
furi_message_queue_put(c, q) ==
    /\ pc # "freed"
    /\ CanCall(c, Consuming(c, q, "Out"))
    /\ count[q] < Capacity
    /\ count' = [count EXCEPT ![q] = @ + 1]
    /\ QueueAccess(c, q, "In")

furi_message_queue_get(c, q) ==
    /\ pc # "freed"
    /\ CanCall(c, Consuming(c, q, "In"))
    /\ count[q] > 0
    /\ count' = [count EXCEPT ![q] = @ - 1]
    /\ QueueAccess(c, q, "Out")

furi_message_queue_reset(c, q) ==
    /\ pc # "freed"
    /\ CanCall(c, FALSE)
    /\ count' = [count EXCEPT ![q] = 0]
    /\ QueueAccess(c, q, "Out")

\* The notification at the end of a queue operation, in a critical section.
furi_event_loop_link_notify(c) ==
    /\ owe[c] # None
    /\ LET q == owe[c][1]
           event == owe[c][2]
       IN  IF sub[q] = event
           THEN furi_event_loop_item_notify(q)
           ELSE UNCHANGED <<flags, waiting_list, ub>>
    /\ owe' = [owe EXCEPT ![c] = None]
    /\ UNCHANGED <<timerVars, pc, held, cur, consumed, sub, count,
                   pending_queue, tick, sleep, calls, runs>>
-----------------------------------------------------------------------------
(* The API of the loop, called by user code on the loop's thread.          *)

UserCall ==
    /\ CanCall(Loop, FALSE)
    /\ UNCHANGED <<pc, held, cur, count, owe, sleep, runs>>

furi_event_loop_message_queue_subscribe(q, event) ==
    /\ pc = "user"
    /\ sub[q] = None
    /\ UserCall
    /\ sub' = [sub EXCEPT ![q] = event]
    /\ IF Level(q, event) > 0
       THEN furi_event_loop_item_notify(q)
       ELSE UNCHANGED <<flags, waiting_list, ub>>
    /\ UNCHANGED <<timerVars, pending_queue, tick>>

\* The item is released even if it is still in the waiting list.
furi_event_loop_message_queue_unsubscribe(q) ==
    /\ pc = "user"
    /\ sub[q] # None
    /\ UserCall
    /\ sub' = [sub EXCEPT ![q] = None]
    /\ waiting_list' = ReplaceAll(waiting_list, q, Freed)
    /\ UNCHANGED <<timerVars, flags, ub, pending_queue, tick>>

furi_event_loop_stop ==
    /\ UserCall
    /\ Notify("Stop")
    /\ UNCHANGED <<timerVars, sub, waiting_list, ub, pending_queue, tick>>

\* Another thread calls furi_event_loop_stop or sends FuriSignalExit.
furi_event_loop_signal_callback(c) ==
    /\ pc # "freed"
    /\ c # Loop
    /\ CanCall(c, FALSE)
    /\ Notify("Stop")
    /\ UNCHANGED <<timerVars, pc, held, cur, queueVars, pending_queue, tick,
                   sleep, runs>>

furi_event_loop_pend_callback ==
    /\ UserCall
    /\ Len(pending_queue) < MaxPend
    /\ pending_queue' = <<[preceding |-> ToSet(timer_queue),
                           nested |-> pc = "pend_cb"]>> \o pending_queue
    /\ Notify("Pending")
    /\ UNCHANGED <<timerVars, sub, waiting_list, ub, tick>>

furi_event_loop_tick_set(i) ==
    /\ UserCall
    /\ tick' = [interval |-> i, prev_time |-> tick_count]
    /\ UNCHANGED <<timerVars, flags, sub, waiting_list, ub, pending_queue>>

TimerCall(t) ==
    /\ UserCall
    /\ \/ /\ \E p \in BOOLEAN : furi_event_loop_timer_alloc(t, p)
          /\ UNCHANGED flags
       \/ /\ \/ \E i \in Intervals : furi_event_loop_timer_start(t, i)
             \/ furi_event_loop_timer_restart(t)
             \/ furi_event_loop_timer_stop(t)
             \/ furi_event_loop_timer_free(t)
          /\ Notify("Timer")
    /\ UNCHANGED <<sub, waiting_list, ub, pending_queue, tick>>
-----------------------------------------------------------------------------
(* furi_event_loop_run, step by step.                                      *)

\* Step of the loop's thread that leaves queues and the caller's notes alone.
LoopStep == UNCHANGED <<sub, count, owe, calls>>

furi_event_loop_run ==
    /\ pc = "user" /\ owe[Loop] = None
    /\ runs < MaxRuns
    /\ runs' = runs + 1
    /\ pc' = "top"
    /\ tick' = IF tick.interval = 0
               THEN tick ELSE [tick EXCEPT !.prev_time = tick_count]
    /\ LoopStep
    /\ UNCHANGED <<timerVars, flags, held, cur, consumed, waiting_list, ub,
                   pending_queue, sleep>>

TickElapsed == (tick_count - tick.prev_time) % TickMod

\* Mutant: an elapsed tick wakes nobody.
TickWaitForgetsElapsed ==
    IF tick.interval > 0 /\ TickElapsed < tick.interval
    THEN tick.interval - TickElapsed
    ELSE FuriWaitForever

furi_event_loop_get_tick_wait_time ==
    IF tick.interval = 0 THEN FuriWaitForever
    ELSE IF TickElapsed < tick.interval THEN tick.interval - TickElapsed
    ELSE 0

\* Head of the loop: how long to sleep.
EnterWait ==
    /\ pc = "top"
    /\ pc' = "wait"
    /\ sleep' = Min({furi_event_loop_get_timer_wait_time,
                     furi_event_loop_get_tick_wait_time})
    /\ LoopStep
    /\ UNCHANGED <<timerVars, flags, held, cur, consumed, waiting_list, ub,
                   pending_queue, tick, runs>>

\* Mutant: an event is served before a stop.
ServeEventFirst ==
    \/ "Event" \in flags /\ pc' = "event" /\ held' = flags \ {"Event"}
    \/ "Event" \notin flags /\ "Stop" \in flags /\ pc' = "user" /\ held' = {}
    \/ /\ {"Stop", "Event"} \cap flags = {} /\ "Timer" \in flags
       /\ pc' = "timer_q" /\ held' = flags \ {"Timer"}
    \/ flags = {"Pending"} /\ pc' = "pend" /\ held' = {}
    \/ flags = {} /\ pc' = "expire" /\ held' = {}

\* Mutant: a timeout is served before the flags.
ServeTimeoutFirst ==
    \/ sleep = 0 /\ pc' = "expire" /\ held' = flags
    \/ sleep > 0 /\ "Stop" \in flags /\ pc' = "user" /\ held' = {}
    \/ /\ sleep > 0 /\ "Stop" \notin flags /\ "Event" \in flags
       /\ pc' = "event" /\ held' = flags \ {"Event"}
    \/ /\ sleep > 0 /\ {"Stop", "Event"} \cap flags = {} /\ "Timer" \in flags
       /\ pc' = "timer_q" /\ held' = flags \ {"Timer"}
    \/ sleep > 0 /\ flags = {"Pending"} /\ pc' = "pend" /\ held' = {}

\* Mutant: pending callbacks are served before timer requests.
ServePendingFirst ==
    \/ "Stop" \in flags /\ pc' = "user" /\ held' = {}
    \/ /\ "Stop" \notin flags /\ "Event" \in flags
       /\ pc' = "event" /\ held' = flags \ {"Event"}
    \/ /\ {"Stop", "Event"} \cap flags = {} /\ "Pending" \in flags
       /\ pc' = "pend" /\ held' = flags \ {"Pending"}
    \/ flags = {"Timer"} /\ pc' = "timer_q" /\ held' = {}
    \/ flags = {} /\ pc' = "expire" /\ held' = {}

\* The one flag that is served, in order of precedence; the others are held.
\* Stop drops them.  Without a flag the wait has timed out.
ServeFlag ==
    \/ "Stop" \in flags /\ pc' = "user" /\ held' = {}
    \/ /\ "Stop" \notin flags /\ "Event" \in flags
       /\ pc' = "event" /\ held' = flags \ {"Event"}
    \/ /\ {"Stop", "Event"} \cap flags = {} /\ "Timer" \in flags
       /\ pc' = "timer_q" /\ held' = flags \ {"Timer"}
    \/ flags = {"Pending"} /\ pc' = "pend" /\ held' = {}
    \/ flags = {} /\ pc' = "expire" /\ held' = {}

\* xTaskNotifyWaitIndexed returns and takes all flags.
Wake ==
    /\ pc = "wait"
    /\ flags # {} \/ sleep = 0
    /\ flags' = {}
    /\ sleep' = 0
    /\ ServeFlag
    /\ LoopStep
    /\ UNCHANGED <<timerVars, cur, consumed, waiting_list, ub, pending_queue,
                   tick, runs>>

\* Mutant: the flags not served are dropped.
RoundDropsHeld(also) ==
    /\ pc' = "top"
    /\ flags' = flags \cup also
    /\ held' = {}
    /\ cur' = None

\* Mutant: an item to be processed later does not raise Event again.
RoundForgetsItem(also) ==
    /\ pc' = "top"
    /\ flags' = flags \cup held
    /\ held' = {}
    /\ cur' = None

\* End of a round: furi_event_loop_restore_flags gives back the flags that
\* were not served; `also' are raised in the same breath.
NextRound(also) ==
    /\ pc' = "top"
    /\ flags' = flags \cup held \cup also
    /\ held' = {}
    /\ cur' = None

PopWaiting ==
    /\ pc = "event"
    /\ \/ waiting_list = <<>> /\ NextRound({}) /\ UNCHANGED <<waiting_list, ub>>
       \/ /\ waiting_list # <<>> /\ PopTouchesFreed
          /\ ub' = TRUE
          /\ UNCHANGED <<waiting_list, pc, cur, flags, held>>
       \/ /\ waiting_list # <<>> /\ ~PopTouchesFreed
          /\ waiting_list' = Tail(waiting_list)
          /\ cur' = Head(waiting_list)
          /\ pc' = "poll"
          /\ UNCHANGED <<flags, held, ub>>
    /\ LoopStep
    /\ UNCHANGED <<timerVars, consumed, pending_queue, tick, sleep, runs>>

furi_event_loop_poll_process_event ==
    /\ pc = "poll"
    /\ \/ Level(cur, sub[cur]) = 0 /\ NextRound({}) /\ UNCHANGED consumed
       \/ /\ Level(cur, sub[cur]) > 0
          /\ pc' = "item_cb" /\ consumed' = FALSE
          /\ UNCHANGED <<flags, held, cur>>
    /\ LoopStep
    /\ UNCHANGED <<timerVars, waiting_list, ub, pending_queue, tick, sleep,
                   runs>>

\* Mutant: an item to be processed later is not linked again.
ReturnDropsItem ==
    /\ pc = "item_cb" /\ owe[Loop] = None
    /\ \/ /\ consumed \/ Level(cur, sub[cur]) = 0
          /\ pc' = "poll"
          /\ UNCHANGED <<flags, held, cur>>
       \/ NextRound({"Event"})
    /\ consumed' = FALSE
    /\ LoopStep
    /\ UNCHANGED <<timerVars, waiting_list, ub, pending_queue, tick, sleep,
                   runs>>

\* The item callback returns: true if it has processed the event, false to
\* have it processed later.
ItemCallbackReturns ==
    /\ pc = "item_cb" /\ owe[Loop] = None
    /\ \/ /\ consumed \/ Level(cur, sub[cur]) = 0
          /\ pc' = "poll"
          /\ UNCHANGED <<flags, held, cur, waiting_list, ub>>
       \/ NextRound({"Event"}) /\ LinkItem(cur)
    /\ consumed' = FALSE
    /\ LoopStep
    /\ UNCHANGED <<timerVars, pending_queue, tick, sleep, runs>>

\* furi_event_loop_process_timer_queue, called by the loop and by
\* furi_event_loop_free.
furi_event_loop_process_timer_queue ==
    /\ pc \in {"timer_q", "free"}
    /\ \E t \in Timers :
          /\ ExecuteRequest(t)
          /\ pending_queue' = [i \in DOMAIN pending_queue |->
              [pending_queue[i] EXCEPT !.preceding = @ \ {t}]]
    /\ LoopStep
    /\ UNCHANGED <<loopVars, waiting_list, ub, tick, sleep, runs>>

TimerQueueProcessed ==
    /\ pc = "timer_q" /\ timer_queue = <<>>
    /\ NextRound({})
    /\ LoopStep
    /\ UNCHANGED <<timerVars, consumed, waiting_list, ub, pending_queue, tick,
                   sleep, runs>>

\* The oldest pending callback is called; it is removed when it returns.
furi_event_loop_process_pending_callbacks ==
    /\ pc = "pend"
    /\ \/ pending_queue = <<>> /\ NextRound({})
       \/ /\ pending_queue # <<>> /\ pc' = "pend_cb"
          /\ UNCHANGED <<flags, held, cur>>
    /\ LoopStep
    /\ UNCHANGED <<timerVars, consumed, waiting_list, ub, pending_queue, tick,
                   sleep, runs>>

PendingCallbackReturns ==
    /\ pc = "pend_cb" /\ owe[Loop] = None
    /\ pc' = "pend"
    /\ pending_queue' = Front(pending_queue)
    /\ LoopStep
    /\ UNCHANGED <<timerVars, flags, held, cur, consumed, waiting_list, ub,
                   tick, sleep, runs>>

FireTimer(t) ==
    /\ pc = "expire"
    /\ furi_event_loop_process_expired_timers(t)
    /\ pc' = "timer_cb"
    /\ cur' = t
    /\ LoopStep
    /\ UNCHANGED <<flags, held, consumed, waiting_list, ub, pending_queue,
                   tick, sleep, runs>>

furi_event_loop_process_tick ==
    /\ pc = "expire" /\ ~FrontExpired
    /\ IF tick.interval > 0 /\ TickElapsed >= tick.interval
       THEN /\ tick' = [tick EXCEPT !.prev_time =
                            (@ + tick.interval) % TickMod]
            /\ pc' = "tick_cb"
       ELSE pc' = "top" /\ UNCHANGED tick
    /\ LoopStep
    /\ UNCHANGED <<timerVars, flags, held, cur, consumed, waiting_list, ub,
                   pending_queue, sleep, runs>>

TimedCallbackReturns ==
    /\ pc \in {"timer_cb", "tick_cb"} /\ owe[Loop] = None
    /\ pc' = "top"
    /\ cur' = None
    /\ LoopStep
    /\ UNCHANGED <<timerVars, flags, held, consumed, waiting_list, ub,
                   pending_queue, tick, sleep, runs>>
-----------------------------------------------------------------------------
\* User code has unsubscribed from every queue and called
\* furi_event_loop_timer_free on every timer, as the API demands.
furi_event_loop_free ==
    /\ pc = "user" /\ owe[Loop] = None
    /\ \A q \in Queues : sub[q] = None
    /\ \A t \in Timers : t \in alive => request[t] = "Free"
    /\ pc' = "free"
    /\ LoopStep
    /\ UNCHANGED <<timerVars, flags, held, cur, consumed, waiting_list, ub,
                   pending_queue, tick, sleep, runs>>

\* ... once the requests are executed; TimerList must be empty (furi_check).
LoopReleased ==
    /\ pc = "free" /\ timer_queue = <<>> /\ timer_list = <<>>
    /\ pc' = "freed"
    /\ pending_queue' = <<>>
    /\ flags' = {}
    /\ LoopStep
    /\ UNCHANGED <<timerVars, held, cur, consumed, waiting_list, ub, tick,
                   sleep, runs>>

\* The tick interrupt; the tick callback is as late as a timer may be.
Tick ==
    /\ Timers # {} \/ tick.interval > 0
    /\ tick.interval > 0 /\ Running => TickElapsed < tick.interval + MaxLate
    /\ TickTimers
    /\ sleep' = IF sleep \in {0, FuriWaitForever} THEN sleep ELSE sleep - 1
    /\ UNCHANGED <<loopVars, queueVars, pending_queue, tick, calls, runs>>
-----------------------------------------------------------------------------
\* Steps the loop's thread takes on its own, user code returning included.
RunLoop ==
    \/ EnterWait \/ Wake \/ PopWaiting
    \/ furi_event_loop_poll_process_event \/ ItemCallbackReturns
    \/ furi_event_loop_process_timer_queue \/ TimerQueueProcessed
    \/ furi_event_loop_process_pending_callbacks \/ PendingCallbackReturns
    \/ \E t \in Timers : FireTimer(t)
    \/ furi_event_loop_process_tick \/ TimedCallbackReturns
    \/ LoopReleased

\* Calls user code may or may not make on the loop's thread.
UserApi ==
    \/ \E q \in Queues :
          \/ \E event \in Events :
                furi_event_loop_message_queue_subscribe(q, event)
          \/ furi_event_loop_message_queue_unsubscribe(q)
    \/ \E t \in Timers : TimerCall(t)
    \/ furi_event_loop_stop
    \/ furi_event_loop_pend_callback
    \/ \E i \in TickSettings : furi_event_loop_tick_set(i)
    \/ furi_event_loop_run
    \/ furi_event_loop_free

QueueApi(c) ==
    \/ \E q \in Queues :
          \/ furi_message_queue_put(c, q)
          \/ furi_message_queue_get(c, q)
          \/ furi_message_queue_reset(c, q)
    \/ furi_event_loop_signal_callback(c)

\* Nothing is said of the steps after released memory is written.
Next ==
    /\ ~ub
    /\ \/ RunLoop
       \/ UserApi
       \/ \E c \in Callers : QueueApi(c) \/ furi_event_loop_link_notify(c)
       \/ Tick

Spec == Init /\ [][Next]_vars

\* The scheduler lets every thread that can run go on, callbacks return, and
\* time passes.
Fairness ==
    /\ WF_vars(~ub /\ RunLoop)
    /\ \A c \in Callers : WF_vars(~ub /\ furi_event_loop_link_notify(c))
    /\ WF_vars(~ub /\ Tick)

FairSpec == Spec /\ Fairness
-----------------------------------------------------------------------------
(* Properties.                                                             *)

Serving(q) == cur = q /\ pc \in {"poll", "item_cb"}

\* A subscribed queue whose event is pending is never forgotten: its item is
\* in the waiting list, or is being served, or the thread that changed the
\* queue is about to notify it.  This is the hand-over between
\* furi_message_queue_put/get/reset, which notify after the queue operation,
\* and the loop, which takes the item off the list before it reads the level.
NoMissedArrival ==
    ~ub => \A q \in Queues :
        sub[q] # None /\ Level(q, sub[q]) > 0 =>
            \/ q \in ToSet(waiting_list)
            \/ Serving(q)
            \/ \E c \in Callers : owe[c] = <<q, sub[q]>>

\* No furi_event_loop_run has swallowed flags by stopping.
NothingSwallowed == runs = 0 \/ (runs = 1 /\ Running)

\* Until the loop is stopped, queued timer requests and pending callbacks are
\* announced by a flag that the loop has yet to serve, or are being served:
\* giving flags back after each round (furi_event_loop_restore_flags) loses
\* none.
CommandsAnnounced ==
    NothingSwallowed =>
        /\ timer_queue # <<>> =>
              "Timer" \in flags \cup held \/ pc = "timer_q"
        /\ pending_queue # <<>> =>
              "Pending" \in flags \cup held \/ pc \in {"pend", "pend_cb"}

\* The request queue holds exactly the timers with a request and the timer
\* list exactly the active ones, each once: furi_crash() in
\* furi_event_loop_process_timer_queue is unreachable and TimerQueue_unlink
\* and TimerList_unlink only unlink timers that are linked.
TimersLinked ==
    /\ \A t \in Timers :
          /\ t \in ToSet(timer_queue) <=> request[t] # "None"
          /\ t \in ToSet(timer_list) <=> t \in active
          /\ t \in active \/ request[t] # "None" => t \in alive
    /\ IsInjective(timer_queue)
    /\ IsInjective(timer_list)

\* furi_event_loop_free finds TimerList empty (its furi_check holds) when user
\* code has called furi_event_loop_timer_free on all timers.
FreeFindsNoTimer == pc = "free" /\ timer_queue = <<>> => timer_list = <<>>

Overdue(t) == age[t] - interval[t]

\* A timer callback runs only when the interval has really passed since the
\* timer was started, also across a wrap of the tick counter, and not before
\* that of a timer that was due earlier ("at this point, TimerList_front()
\* points to the first timer to expire", event_loop_timer.c:50).  A periodic
\* timer of interval 0 is due all the time and waits its turn.
FiresWhenDue ==
    [][\A t \in Timers : FireTimer(t) =>
           /\ age[t] >= interval[t]
           /\ \A u \in active :
                interval[u] > 0 \/ u \notin periodic =>
                    Overdue(u) <= Overdue(t)]_vars

\* "Stop a timer without firing its callback" (event_loop_timer.h): from the
\* call of furi_event_loop_timer_stop or _free on, the callback does not run.
\* True as long as the loop has not been stopped and run again.
SilentAfterStop ==
    [][\A t \in Timers : runs = 1 /\ FireTimer(t) =>
           request[t] \notin {"Stop", "Free"}]_vars

\* "Call a function when all preceding timer commands are processed"
\* (event_loop.h, furi_event_loop_pend_callback), as long as the loop has not
\* been stopped and run again.  When the loop turns to its pending callbacks no
\* request is queued, so what was pended before has no request to wait for.
\* Only a callback pended by one of these callbacks may come before a request
\* made earlier, by such a callback too: it is called in the same go
\* (event_loop.c:33), and the documented order does not hold for it.
PendedAfterCommands ==
    /\ [][runs = 1 /\ pc = "wait" /\ pc' = "pend" => timer_queue = <<>>]_vars
    /\ [](runs = 1 /\ pc = "pend_cb" /\ ~Last(pending_queue).nested =>
              Last(pending_queue).preceding = {})

\* The loop never follows a pointer to a released item.  "Remove and add
\* should not cause crash" (unit test furi_event_loop.c).
NoReleasedItemTouched == ~ub

\* "Continuously poll for events" (event_loop.h, furi_event_loop_run): while
\* the loop runs, a subscribed queue with a pending event is served.  In a
\* second furi_event_loop_run an item linked before may wait for the next
\* notification: the stop has dropped its flag (event_loop.c:129).
ArrivalProcessed ==
    \A q \in Queues :
        runs = 1 /\ Running /\ sub[q] # None /\ Level(q, sub[q]) > 0 ~>
            \/ Serving(q) \/ Level(q, sub[q]) = 0 \/ ~Running \/ ub

\* "Can be stopped with furi_event_loop_stop" (event_loop.h): once the other
\* threads pause, a requested stop is honoured.
StopHonoured == "Stop" \in flags \cup held /\ Running ~> ~Running \/ ub

\* Queued timer requests are executed and pending callbacks called, unless the
\* loop is stopped.  In a second furi_event_loop_run what was queued before may
\* stay queued for ever: the stop has dropped its flag (event_loop.c:129).
CommandsExecuted ==
    runs = 1 /\ Running /\ (timer_queue # <<>> \/ pending_queue # <<>>) ~>
        (timer_queue = <<>> /\ pending_queue = <<>>) \/ ~Running

\* A running timer whose time has passed is fired, restarted, stopped or
\* freed, unless the loop is stopped.
ExpiredTimerServed ==
    \A t \in Timers :
        Running /\ t \in active /\ age[t] >= interval[t] ~>
            \/ cur = t /\ pc = "timer_cb"
            \/ t \notin active \/ age[t] < interval[t]
            \/ ~Running

\* An elapsed tick is eventually called back, unless the loop is stopped or
\* the tick is set anew.  A periodic timer of interval 0, which is what
\* furi_event_loop_timer_restart makes of one never started, starves it.
TickServed ==
    Running /\ tick.interval > 0 /\ TickElapsed >= tick.interval ~>
        \/ pc = "tick_cb"
        \/ tick.interval = 0 \/ TickElapsed < tick.interval \/ ~Running
        \/ \E t \in active \cap periodic : interval[t] = 0
=============================================================================
