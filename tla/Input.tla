------------------------------- MODULE Input --------------------------------
(***************************************************************************)
(* The input service (services/input): its thread debounces the pins of    *)
(* the keys, a kernel timer per key makes long presses and repeats, and    *)
(* both publish events, to which the GUI service is subscribed.            *)
(*                                                                         *)
(* The CLI command `input' (input_cli.c) takes part: `input send'          *)
(* publishes an event, `input dump' subscribes a queue of its own.         *)
(***************************************************************************)
EXTENDS FuriTimer, PubSub, FiniteSets

CONSTANTS
    Pins,           \* sequence of keys: input_pins
    DebounceTicks,  \* INPUT_DEBOUNCE_TICKS
    GuiQueueSize,   \* slots of gui->input_queue
    DumpQueueSize,  \* slots of the queue of `input dump'
    InputSrv, TimerTask, Cli,   \* the publishers
    Gui, Dump,      \* the subscribers
    TimerElevated,  \* the timer task has FuriTimerThreadPriorityElevated
    None

Keys == ToSet(Pins)
LongPressCounts == 2    \* INPUT_LONG_PRESS_COUNTS

ASSUME InputAssumption ==
    /\ Pins \in Seq(Keys) /\ IsInjective(Pins) /\ Pins # <<>>
    /\ FuriTimers = Keys
    /\ DebounceTicks \in Nat \ {0}
    /\ {GuiQueueSize, DumpQueueSize} \subseteq Nat \ {0}
    /\ Publishers = {InputSrv, TimerTask, Cli}
    /\ Cardinality(Publishers) = 3
    /\ Subscribers = {Gui, Dump} /\ Gui # Dump
    /\ Nobody \notin Publishers
    /\ TimerElevated \in BOOLEAN
    /\ None \notin Keys

VARIABLES
    level,          \* keys whose pin is active
    isr,            \* INPUT_THREAD_FLAG_ISR
    \* InputPinState
    state,          \* keys whose state is true
    debounce,
    press_counter,
    \* The thread of the service
    ipc,            \* where input_srv is
    pin,            \* index of the pin it looks at
    is_changing,
    \* The events being published
    event,          \* by each publisher: key and type
    \* The subscribers
    gui_queue,      \* events in gui->input_queue
    dump_queue,     \* events in the queue of `input dump'
    dump,           \* where the command is
    \* Not in the code:
    last            \* type of the last hardware event published for each key

pinVars == <<state, debounce, press_counter>>
threadVars == <<ipc, pin, is_changing>>
dumpVars == <<dump_queue, dump>>
vars == <<level, isr, pinVars, threadVars, furiTimerVars, pubsubVars, event,
          gui_queue, dumpVars, last>>

Key == Pins[pin]    \* the key the thread looks at

InputType == {"Press", "Release", "Short", "Long", "Repeat"}
Events == [key : Keys, type : InputType] \cup {None}
Event(key, type) == [key |-> key, type |-> type]

ASSUME NoneAssumption == None \notin [key : Keys, type : InputType]

PinTypeOK ==
    /\ level \subseteq Keys /\ state \subseteq Keys
    /\ isr \in BOOLEAN
    /\ debounce \in [Keys -> 0 .. DebounceTicks]
    /\ press_counter \in [Keys -> 0 .. LongPressCounts]

ThreadTypeOK ==
    /\ ipc \in {"read", "timer", "stop", "short", "edge", "sleep", "wait"}
    /\ pin \in 1 .. Len(Pins)
    /\ is_changing \in BOOLEAN

EventTypeOK ==
    /\ event \in [Publishers -> Events]
    /\ last \in [Keys -> InputType]

QueueTypeOK ==
    /\ gui_queue \in 0 .. GuiQueueSize
    /\ dump_queue \in 0 .. DumpQueueSize
    /\ dump \in {"off", "on", "unsubscribe"}

TypeOK ==
    /\ FuriTimerTypeOK /\ PubSubTypeOK
    /\ PinTypeOK /\ ThreadTypeOK /\ EventTypeOK /\ QueueTypeOK

\* A key may be held down while the system starts.
Init ==
    /\ FuriTimerInit /\ PubSubInit(<<Gui>>)
    /\ level \in SUBSET Keys
    /\ isr = FALSE
    /\ state = level
    /\ debounce = [k \in Keys |-> DebounceTicks \div 2]
    /\ press_counter = [k \in Keys |-> 0]
    /\ ipc = "read" /\ pin = 1 /\ is_changing = FALSE
    /\ event = [p \in Publishers |-> None]
    /\ gui_queue = 0
    /\ dump_queue = 0 /\ dump = "off"
    /\ last = [k \in Keys |-> IF k \in level THEN "Press" ELSE "Release"]
-----------------------------------------------------------------------------
(* Pins.                                                                   *)

\* A key is pressed, let go or bounces; input_isr runs.
PinChanges(k) ==
    /\ level' = IF k \in level THEN level \ {k} ELSE level \cup {k}
    /\ isr' = TRUE
    /\ UNCHANGED <<pinVars, threadVars, furiTimerVars, pubsubVars, event,
                   gui_queue, dumpVars, last>>
-----------------------------------------------------------------------------
(* The thread of the service.                                              *)

Publish(p, e) ==
    /\ furi_pubsub_publish(p)
    /\ event' = [event EXCEPT ![p] = e]

\* On to the next pin, or to the end of the round.
NextPin(changing) ==
    IF pin < Len(Pins)
    THEN ipc' = "read" /\ pin' = pin + 1 /\ is_changing' = changing
    ELSE /\ ipc' = IF changing THEN "sleep" ELSE "wait"
         /\ pin' = 1 /\ is_changing' = FALSE

Debounced(k) ==
    IF k \in level
    THEN IF debounce[k] < DebounceTicks THEN debounce[k] + 1 ELSE debounce[k]
    ELSE IF debounce[k] > 0 THEN debounce[k] - 1 ELSE debounce[k]

ReadPin ==
    /\ ipc = "read"
    /\ debounce' = [debounce EXCEPT ![Key] = Debounced(Key)]
    /\ \/ /\ debounce'[Key] \in 1 .. DebounceTicks - 1
          /\ NextPin(TRUE)
          /\ UNCHANGED state
       \/ /\ debounce'[Key] \notin 1 .. DebounceTicks - 1
          /\ (Key \in state) = (Key \in level)
          /\ NextPin(is_changing)
          /\ UNCHANGED state
       \/ /\ debounce'[Key] \notin 1 .. DebounceTicks - 1
          /\ (Key \in state) # (Key \in level)
          /\ state' = IF Key \in level THEN state \cup {Key} ELSE state \ {Key}
          /\ ipc' = "timer"
          /\ UNCHANGED <<pin, is_changing>>
    /\ UNCHANGED <<level, isr, press_counter, furiTimerVars, pubsubVars, event,
                   gui_queue, dumpVars, last>>

\* The key is pressed: its timer is started before the event is published.
KeyPressed ==
    /\ ipc = "timer" /\ Key \in state
    /\ furi_timer_start(Key)
    /\ Publish(InputSrv, Event(Key, "Press"))
    /\ ipc' = "edge"
    /\ UNCHANGED <<level, isr, pinVars, pin, is_changing, gui_queue, dumpVars,
                   last>>

KeyReleased ==
    /\ ipc = "timer" /\ Key \notin state
    /\ furi_timer_stop(Key)
    /\ ipc' = "stop"
    /\ UNCHANGED <<level, isr, pinVars, pin, is_changing, pubsubVars, event,
                   gui_queue, dumpVars, last>>

\* Mutant: the thread does not wait for the timer to stop.
ReleaseUnwaited ==
    /\ ipc = "stop"
    /\ \/ /\ press_counter[Key] < LongPressCounts
          /\ Publish(InputSrv, Event(Key, "Short"))
          /\ ipc' = "short"
          /\ UNCHANGED press_counter
       \/ /\ press_counter[Key] >= LongPressCounts
          /\ press_counter' = [press_counter EXCEPT ![Key] = 0]
          /\ Publish(InputSrv, Event(Key, "Release"))
          /\ ipc' = "edge"
    /\ UNCHANGED <<level, isr, state, debounce, pin, is_changing,
                   furiTimerVars, gui_queue, dumpVars, last>>

\* The timer of the released key has stopped.
TimerStopped ==
    /\ ipc = "stop" /\ ~furi_timer_is_running(Key)
    /\ \/ /\ press_counter[Key] < LongPressCounts
          /\ Publish(InputSrv, Event(Key, "Short"))
          /\ ipc' = "short"
          /\ UNCHANGED press_counter
       \/ /\ press_counter[Key] >= LongPressCounts
          /\ press_counter' = [press_counter EXCEPT ![Key] = 0]
          /\ Publish(InputSrv, Event(Key, "Release"))
          /\ ipc' = "edge"
    /\ UNCHANGED <<level, isr, state, debounce, pin, is_changing,
                   furiTimerVars, gui_queue, dumpVars, last>>

ShortPublished ==
    /\ ipc = "short" /\ publishing[InputSrv] = "no"
    /\ press_counter' = [press_counter EXCEPT ![Key] = 0]
    /\ Publish(InputSrv, Event(Key, "Release"))
    /\ ipc' = "edge"
    /\ UNCHANGED <<level, isr, state, debounce, pin, is_changing,
                   furiTimerVars, gui_queue, dumpVars, last>>

\* Mutant: the flags that came while the event was published are dropped.
EdgeClearsFlag ==
    /\ ipc = "edge" /\ publishing[InputSrv] = "no"
    /\ NextPin(is_changing)
    /\ isr' = FALSE
    /\ UNCHANGED <<level, pinVars, furiTimerVars, pubsubVars, event,
                   gui_queue, dumpVars, last>>

EdgePublished ==
    /\ ipc = "edge" /\ publishing[InputSrv] = "no"
    /\ NextPin(is_changing)
    /\ UNCHANGED <<level, isr, pinVars, furiTimerVars, pubsubVars, event,
                   gui_queue, dumpVars, last>>

\* furi_delay_tick, furi_thread_flags_wait
NextRound ==
    /\ \/ ipc = "sleep" /\ UNCHANGED isr
       \/ ipc = "wait" /\ isr /\ isr' = FALSE
    /\ ipc' = "read"
    /\ UNCHANGED <<level, pinVars, pin, is_changing, furiTimerVars,
                   pubsubVars, event, gui_queue, dumpVars, last>>

RunInput ==
    \/ ReadPin \/ KeyPressed \/ KeyReleased \/ TimerStopped
    \/ ShortPublished \/ EdgePublished \/ NextRound
-----------------------------------------------------------------------------
(* The timer task.                                                         *)

\* Mutant: counts on after a long press.
CallbackCountsOn(k) ==
    /\ daemon = "top" /\ furi_timer_is_running(k)
    /\ press_counter' = [press_counter EXCEPT ![k] = (@ + 1) % 3]
    /\ \/ press_counter'[k] < LongPressCounts
          /\ UNCHANGED <<publishing, event>>
       \/ /\ press_counter'[k] = LongPressCounts
          /\ publishing' = [publishing EXCEPT ![TimerTask] = "acquire"]
          /\ event' = [event EXCEPT ![TimerTask] = Event(k, "Long")]
    /\ daemon' = "callback"
    /\ UNCHANGED <<running, commands, mutex, items, called>>

\* An expired timer counts the press; from the second time on it publishes.
input_press_timer_callback(k) ==
    /\ TimerExpires(k)
    /\ press_counter' =
          [press_counter EXCEPT ![k] = IF @ < LongPressCounts THEN @ + 1 ELSE @]
    /\ \/ /\ press_counter[k] + 1 < LongPressCounts
          /\ UNCHANGED <<pubsubVars, event>>
       \/ /\ press_counter[k] + 1 = LongPressCounts
          /\ Publish(TimerTask, Event(k, "Long"))
       \/ /\ press_counter[k] + 1 > LongPressCounts
          /\ Publish(TimerTask, Event(k, "Repeat"))

TimerCallback(k) ==
    /\ input_press_timer_callback(k)
    /\ UNCHANGED <<level, isr, state, debounce, threadVars, gui_queue,
                   dumpVars, last>>

\* The rest of the timer task.
RunTimerTask ==
    /\ \/ publishing[TimerTask] = "no" /\ TimerCallbackReturns
       \/ CommandArrives
       \/ ExecuteCommand
    /\ UNCHANGED <<level, isr, pinVars, threadVars, pubsubVars, event,
                   gui_queue, dumpVars, last>>
-----------------------------------------------------------------------------
(* Publishing.                                                             *)

\* The mutex goes to the waiting thread of the highest priority: the timer
\* task, of priority 2, gets it after the input thread, of priority 16.  The
\* input thread waits at most for the mutex between starting a timer and
\* publishing the press, which is far less than two intervals of the timer.
MayAcquire(p) ==
    p = TimerTask /\ ~TimerElevated => publishing[InputSrv] # "acquire"

AcquireMutex(p) ==
    /\ MayAcquire(p)
    /\ PublishAcquired(p)
    /\ last' = IF p = Cli THEN last
               ELSE [last EXCEPT ![event[p].key] = event[p].type]
    /\ UNCHANGED <<level, isr, pinVars, threadVars, furiTimerVars, event,
                   gui_queue, dumpVars>>

\* gui_input_events_callback and input_cli_dump_events_callback wait for room
\* in their queues.
CallSubscriber(p) ==
    /\ \/ /\ Calling(p, Gui) /\ gui_queue < GuiQueueSize
          /\ gui_queue' = gui_queue + 1
          /\ UNCHANGED dump_queue
       \/ /\ Calling(p, Dump) /\ dump_queue < DumpQueueSize
          /\ dump_queue' = dump_queue + 1
          /\ UNCHANGED gui_queue
    /\ CallbackReturns
    /\ UNCHANGED <<level, isr, pinVars, threadVars, furiTimerVars, event,
                   dump, last>>

ReleaseMutex(p) ==
    /\ PublishReturns(p)
    /\ event' = [event EXCEPT ![p] = None]
    /\ UNCHANGED <<level, isr, pinVars, threadVars, furiTimerVars, gui_queue,
                   dumpVars, last>>
-----------------------------------------------------------------------------
(* The other threads.                                                      *)

\* The GUI service takes an event.
GuiTakes ==
    /\ gui_queue > 0
    /\ gui_queue' = gui_queue - 1
    /\ UNCHANGED <<level, isr, pinVars, threadVars, furiTimerVars, pubsubVars,
                   event, dumpVars, last>>

\* `input send'; a CLI session runs one command at a time.
input_cli_send ==
    /\ dump = "off"
    /\ furi_pubsub_publish(Cli)
    /\ UNCHANGED <<level, isr, pinVars, threadVars, furiTimerVars, event,
                   gui_queue, dumpVars, last>>

\* `input dump': the queue is allocated and subscribed, ...
input_cli_dump ==
    /\ dump = "off" /\ publishing[Cli] = "no"
    /\ furi_pubsub_subscribe(Dump)
    /\ dump' = "on"
    /\ UNCHANGED <<level, isr, pinVars, threadVars, furiTimerVars, event,
                   gui_queue, dump_queue, last>>

\* ... emptied until CTRL+C is seen, ...
DumpRuns ==
    /\ dump = "on"
    /\ \/ /\ dump_queue > 0
          /\ dump_queue' = dump_queue - 1
          /\ UNCHANGED dump
       \/ dump' = "unsubscribe" /\ UNCHANGED dump_queue
    /\ UNCHANGED <<level, isr, pinVars, threadVars, furiTimerVars, pubsubVars,
                   event, gui_queue, last>>

\* ... unsubscribed and released.
DumpEnds ==
    /\ dump = "unsubscribe"
    /\ furi_pubsub_unsubscribe(Dump)
    /\ dump' = "off" /\ dump_queue' = 0
    /\ UNCHANGED <<level, isr, pinVars, threadVars, furiTimerVars, event,
                   gui_queue, last>>
-----------------------------------------------------------------------------
Next ==
    \/ \E k \in Keys : PinChanges(k) \/ TimerCallback(k)
    \/ RunInput \/ RunTimerTask
    \/ \E p \in Publishers :
          AcquireMutex(p) \/ CallSubscriber(p) \/ ReleaseMutex(p)
    \/ GuiTakes \/ input_cli_send \/ input_cli_dump \/ DumpRuns \/ DumpEnds

Spec == Init /\ [][Next]_vars

\* Threads that can go on do, a running timer expires again and again, and a
\* thread that waits for the mutex gets it in the end.
Fairness ==
    /\ WF_vars(RunInput) /\ WF_vars(RunTimerTask)
    /\ \A k \in Keys : SF_vars(TimerCallback(k))
    /\ \A p \in Publishers :
          /\ SF_vars(AcquireMutex(p))
          /\ WF_vars(CallSubscriber(p)) /\ WF_vars(ReleaseMutex(p))
    /\ WF_vars(GuiTakes) /\ WF_vars(DumpRuns) /\ SF_vars(DumpEnds)

FairSpec == Spec /\ Fairness
-----------------------------------------------------------------------------
(* Properties.                                                             *)

Sequence == INSTANCE KeySequence WITH Keys <- Keys, last <- last

\* The input service publishes the events of every key in the order of
\* KeySequence, in which the GUI discards none, although two threads publish
\* them: no Long or Repeat after the Release (the thread waits for the timer to
\* stop), none before the Press, and exactly one of Short and Long.  That it
\* holds refutes input.h:24, "emitted after InputTypeRelease": every Short comes
\* right before the Release of its press (input.c:145).
KeysInSequence == Sequence!Spec

\* While the input thread deals with the end of a press, the timer task neither
\* is in the callback of that key nor will be: press_counter, which both write
\* without a lock, has one writer at a time.  The thread may even get here
\* before the timer task has executed the start; the stop is then right behind
\* it, and no callback comes between commands.
CounterHasOneWriter ==
    ipc = "short" \/ (ipc = "edge" /\ Key \notin state) =>
        /\ event[TimerTask] # None => event[TimerTask].key # Key
        /\ Key \in running =>
              daemon = "commands" /\ <<"Stop", Key>> \in ToSet(commands)
        /\ \A i \in DOMAIN commands : commands[i] = <<"Start", Key>> =>
              \E j \in i + 1 .. Len(commands) : commands[j] = <<"Stop", Key>>

\* `input dump' has been told to stop, its queue is full and a publisher waits
\* for room in it with the mutex that unsubscribing needs.
DumpLockup ==
    /\ dump = "unsubscribe" /\ dump_queue = DumpQueueSize
    /\ \E p \in Publishers : Calling(p, Dump)

\* A key that is let go for good is reported released, one that is pressed and
\* held is reported long: no edge is lost between reading the pins and waiting
\* for the interrupt's flag, and no thread waits for ever, but for DumpLockup.
\* A key held since the start is not reported.
LevelReported ==
    \A k \in Keys :
        /\ <>[](k \notin level) => <>([](last[k] = "Release") \/ DumpLockup)
        /\ <>(last[k] = "Release") /\ <>[](k \in level) =>
              <>([](last[k] \in {"Long", "Repeat"}) \/ DumpLockup)
=============================================================================
