--------------------------- MODULE EventLoopTimer ---------------------------
(***************************************************************************)
(* Software timers of FuriEventLoop (furi/core/event_loop_timer.c).        *)
(*                                                                         *)
(* Timers belong to one event loop and are only touched by its thread.  A  *)
(* user call never changes the list of running timers: it queues a request *)
(* that the loop executes later.  This module holds the timers, the        *)
(* request queue and the list of running timers, with one action fragment  *)
(* per function; EventLoop decides when the loop's thread takes them.      *)
(*                                                                         *)
(* Time is the 32-bit FreeRTOS tick counter, kept modulo TickMod.          *)
(***************************************************************************)
EXTENDS Integers, Sequences, SequencesExt

CONSTANTS
    Timers,     \* timer objects
    Intervals,  \* intervals user code passes to furi_event_loop_timer_start
    TickMod,    \* number of values of the tick counter (2^32 in the code)
    MaxLate     \* bound: an expired timer waits at most this many ticks

\* The counter must not wrap around past a running timer: an interval and the
\* delay in serving it fit below TickMod.
ASSUME TimerAssumption ==
    /\ TickMod \in Nat /\ MaxLate \in Nat /\ MaxLate + 1 < TickMod
    /\ Intervals \subseteq Nat
    /\ \A i \in Intervals : i + MaxLate + 1 < TickMod

VARIABLES
    tick_count,     \* xTaskGetTickCount()
    timer_list,     \* TimerList: running timers, the next to expire first
    timer_queue,    \* TimerQueue: timers with a request not yet executed
    (* The fields of FuriEventLoopTimer. *)
    alive,          \* timers allocated and not released
    periodic,       \* timers of type FuriEventLoopTimerTypePeriodic
    active,         \* timers that are running
    request,        \* the request to execute
    interval,
    next_interval,  \* interval of the next start
    start_time,     \* tick count at the start
    (* Not in the code: *)
    age             \* ticks since start_time, counted without wrapping

timerFields ==
    <<alive, periodic, active, request, interval, next_interval, start_time,
      age>>
timerVars == <<tick_count, timer_list, timer_queue, timerFields>>

Requests == {"None", "Start", "Stop", "Free"}

\* The interval of a timer that was never started is 0.
TimerIntervals == Intervals \cup {0}

TimerTypeOK ==
    /\ tick_count \in 0 .. TickMod - 1
    /\ timer_list \in Seq(Timers)
    /\ timer_queue \in Seq(Timers)
    /\ alive \subseteq Timers
    /\ periodic \subseteq Timers
    /\ active \subseteq Timers
    /\ request \in [Timers -> Requests]
    /\ interval \in [Timers -> TimerIntervals]
    /\ next_interval \in [Timers -> TimerIntervals]
    /\ start_time \in [Timers -> 0 .. TickMod - 1]
    /\ age \in [Timers -> Int]

\* malloc() returns zeroed memory; the fields of an object that is not
\* allocated are zero.
TimerInit ==
    /\ tick_count = 0
    /\ timer_list = <<>> /\ timer_queue = <<>>
    /\ alive = {} /\ periodic = {} /\ active = {}
    /\ request = [t \in Timers |-> "None"]
    /\ interval = [t \in Timers |-> 0]
    /\ next_interval = [t \in Timers |-> 0]
    /\ start_time = [t \in Timers |-> 0]
    /\ age = [t \in Timers |-> 0]
-----------------------------------------------------------------------------
(* Reading a timer.                                                        *)

furi_event_loop_timer_get_elapsed_time(t) ==
    (tick_count - start_time[t]) % TickMod

\* Mutant: no check for an elapsed interval, the subtraction underflows.
RemainingUnderflows(start, i) == i - ((tick_count - start) % TickMod)

\* For the fields `start' and `i'.
furi_event_loop_timer_get_remaining_time_private(start, i) ==
    LET elapsed_time == (tick_count - start) % TickMod
    IN  IF elapsed_time < i THEN i - elapsed_time ELSE 0

furi_event_loop_timer_get_remaining_time(t) ==
    furi_event_loop_timer_get_remaining_time_private(start_time[t], interval[t])

\* Mutant: compares with the wrapped deadline.
ExpiredAtDeadline(t) == tick_count >= (start_time[t] + interval[t]) % TickMod

furi_event_loop_timer_is_expired(t) ==
    furi_event_loop_timer_get_elapsed_time(t) >= interval[t]

\* FuriWaitForever is the largest tick count.
FuriWaitForever == TickMod - 1

\* Mutant: takes a remaining time of 0 for no timer.
TimerWaitForgetsExpired ==
    IF timer_list = <<>> \/
       furi_event_loop_timer_get_remaining_time(Head(timer_list)) = 0
    THEN FuriWaitForever
    ELSE furi_event_loop_timer_get_remaining_time(Head(timer_list))

furi_event_loop_get_timer_wait_time ==
    IF timer_list = <<>>
    THEN FuriWaitForever
    ELSE furi_event_loop_timer_get_remaining_time(Head(timer_list))
-----------------------------------------------------------------------------
(* The list of running timers.                                             *)

\* The list with t inserted behind the last timer that does not expire later
\* than t, where the fields of the timers are start[u] and i[u].
furi_event_loop_schedule_timer(list, t, start, i) ==
    LET remaining_time(u) ==
            furi_event_loop_timer_get_remaining_time_private(start[u], i[u])
        timer_pos ==
            SelectLastInSeq(list,
                LAMBDA u : remaining_time(t) >= remaining_time(u))
    IN  InsertAt(list, timer_pos + 1, t)

Unlinked(t) == IF t \in active THEN RemoveFirst(timer_list, t) ELSE timer_list

ExecuteStart(t) ==
    /\ request[t] = "Start"
    /\ active' = active \cup {t}
    /\ request' = [request EXCEPT ![t] = "None"]
    /\ interval' = [interval EXCEPT ![t] = next_interval[t]]
    /\ start_time' = [start_time EXCEPT ![t] = tick_count]
    /\ age' = [age EXCEPT ![t] = 0]
    /\ timer_list' = furi_event_loop_schedule_timer(
                         Unlinked(t), t, start_time', interval')
    /\ UNCHANGED <<alive, periodic, next_interval>>

ExecuteStop(t) ==
    /\ request[t] = "Stop"
    /\ active' = active \ {t}
    /\ request' = [request EXCEPT ![t] = "None"]
    /\ age' = [age EXCEPT ![t] = 0]
    /\ timer_list' = Unlinked(t)
    /\ UNCHANGED <<alive, periodic, interval, next_interval, start_time>>

\* Mutant: releases a running timer without taking it off the list.
FreeLeavesLinked(t) ==
    /\ request[t] = "Free"
    /\ alive' = alive \ {t}
    /\ periodic' = periodic \ {t}
    /\ active' = active \ {t}
    /\ request' = [request EXCEPT ![t] = "None"]
    /\ interval' = [interval EXCEPT ![t] = 0]
    /\ next_interval' = [next_interval EXCEPT ![t] = 0]
    /\ start_time' = [start_time EXCEPT ![t] = 0]
    /\ age' = [age EXCEPT ![t] = 0]
    /\ UNCHANGED timer_list

\* The object is released; all its fields are zero when it is allocated again.
ExecuteFree(t) ==
    /\ request[t] = "Free"
    /\ alive' = alive \ {t}
    /\ periodic' = periodic \ {t}
    /\ active' = active \ {t}
    /\ request' = [request EXCEPT ![t] = "None"]
    /\ interval' = [interval EXCEPT ![t] = 0]
    /\ next_interval' = [next_interval EXCEPT ![t] = 0]
    /\ start_time' = [start_time EXCEPT ![t] = 0]
    /\ age' = [age EXCEPT ![t] = 0]
    /\ timer_list' = Unlinked(t)

\* One iteration of furi_event_loop_process_timer_queue: the request of the
\* front timer.  A queued timer without a request would reach furi_crash().
ExecuteRequest(t) ==
    /\ timer_queue # <<>> /\ t = Head(timer_queue)
    /\ timer_queue' = Tail(timer_queue)
    /\ UNCHANGED tick_count
    /\ ExecuteStart(t) \/ ExecuteStop(t) \/ ExecuteFree(t)

\* The front timer has expired.
FrontExpired ==
    /\ timer_list # <<>>
    /\ furi_event_loop_timer_is_expired(Head(timer_list))

\* The whole intervals that have passed since the start.  A division by zero
\* (a periodic timer of interval 0) yields 0: the trap for it is not enabled
\* on this processor.
Skipped(t) ==
    IF interval[t] = 0
    THEN 0
    ELSE interval[t] *
            (furi_event_loop_timer_get_elapsed_time(t) \div interval[t])

\* Everything furi_event_loop_process_expired_timers does for an expired
\* front timer t, up to the call of its callback.
furi_event_loop_process_expired_timers(t) ==
    /\ FrontExpired
    /\ t = Head(timer_list)
    /\ UNCHANGED <<tick_count, timer_queue, alive, periodic, request, interval,
                   next_interval>>
    /\ \/ /\ t \in periodic
          /\ start_time' =
                [start_time EXCEPT ![t] = (@ + Skipped(t)) % TickMod]
          /\ age' = [age EXCEPT ![t] = @ - Skipped(t)]
          /\ timer_list' = furi_event_loop_schedule_timer(
                               Tail(timer_list), t, start_time', interval)
          /\ UNCHANGED active
       \/ /\ t \notin periodic
          /\ active' = active \ {t}
          /\ age' = [age EXCEPT ![t] = 0]
          /\ timer_list' = Tail(timer_list)
          /\ UNCHANGED start_time
-----------------------------------------------------------------------------
(* Public API, called by user code on the loop's thread.                   *)

\* Mutant: queues a timer again that is already queued.
EnqueueTwice(t, new_request) ==
    /\ t \in alive
    /\ request[t] # "Free"
    /\ timer_queue' = Append(timer_queue, t)
    /\ request' = [request EXCEPT ![t] = new_request]
    /\ UNCHANGED <<tick_count, timer_list, alive, periodic, active, interval,
                   start_time, age>>

\* A request replaces the one already queued.  Nothing may follow Free
\* (furi_check in the code).
furi_event_loop_timer_enqueue_request(t, new_request) ==
    /\ t \in alive
    /\ request[t] # "Free"
    /\ timer_queue' =
           Append(IF request[t] # "None"
                  THEN RemoveFirst(timer_queue, t)
                  ELSE timer_queue, t)
    /\ request' = [request EXCEPT ![t] = new_request]
    /\ UNCHANGED <<tick_count, timer_list, alive, periodic, active, interval,
                   start_time, age>>

furi_event_loop_timer_alloc(t, is_periodic) ==
    /\ t \notin alive
    /\ alive' = alive \cup {t}
    /\ periodic' = IF is_periodic THEN periodic \cup {t} ELSE periodic
    /\ UNCHANGED <<tick_count, timer_list, timer_queue, active, request,
                   interval, next_interval, start_time, age>>

furi_event_loop_timer_start(t, new_interval) ==
    /\ next_interval' = [next_interval EXCEPT ![t] = new_interval]
    /\ furi_event_loop_timer_enqueue_request(t, "Start")

furi_event_loop_timer_restart(t) ==
    /\ next_interval' = [next_interval EXCEPT ![t] = interval[t]]
    /\ furi_event_loop_timer_enqueue_request(t, "Start")

furi_event_loop_timer_stop(t) ==
    /\ furi_event_loop_timer_enqueue_request(t, "Stop")
    /\ UNCHANGED next_interval

furi_event_loop_timer_free(t) ==
    /\ furi_event_loop_timer_enqueue_request(t, "Free")
    /\ UNCHANGED next_interval
-----------------------------------------------------------------------------
\* A running timer may be served up to MaxLate ticks late.
Aging(t) == t \in active /\ age[t] < interval[t] + MaxLate

\* The tick interrupt.  It may not leave a running timer behind by MaxLate; a
\* timer of interval 0 is expired at any time and does not restrain it.
TickTimers ==
    /\ \A t \in active : interval[t] > 0 => Aging(t)
    /\ tick_count' = (tick_count + 1) % TickMod
    /\ age' = [t \in Timers |-> IF Aging(t) THEN age[t] + 1 ELSE age[t]]
    /\ UNCHANGED <<timer_list, timer_queue, alive, periodic, active, request,
                   interval, next_interval, start_time>>
=============================================================================
