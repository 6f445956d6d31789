---------------------------- MODULE Input_proofs ----------------------------
(***************************************************************************)
(* Proofs about Input, for any keys, debounce time and queue lengths: one  *)
(* writer of a key's counter at a time, and the refinement of KeySequence. *)
(***************************************************************************)
EXTENDS Input, SequenceLemmas, FiniteSetTheorems

\* The input thread deals with the edge of k.
Busy(k) == Key = k /\ ipc \in {"timer", "stop", "short", "edge"}

\* Who publishes has an event, and the one that calls has the mutex.
Publication ==
    /\ \A p \in Publishers : publishing[p] = "call" <=> mutex = p
    /\ mutex = Nobody => called = 0
    /\ \A p \in {InputSrv, TimerTask} :
          event[p] = None <=> publishing[p] = "no"
    /\ event[Cli] = None

\* The input thread's event is the one of the edge it deals with.
ThreadEvent ==
    /\ ipc \notin {"short", "edge"} => event[InputSrv] = None
    /\ ipc = "short" => event[InputSrv] \in {None, Event(Key, "Short")}
    /\ ipc = "edge" => event[InputSrv] \in
          {None, Event(Key, IF Key \in state THEN "Press" ELSE "Release")}
    /\ ipc \in {"stop", "short"} => Key \notin state

\* The timer task publishes in the callback of a timer that runs.
TaskEvent ==
    event[TimerTask] # None =>
        /\ daemon = "callback" /\ event[TimerTask].key \in running
        /\ press_counter[event[TimerTask].key] = LongPressCounts
        /\ event[TimerTask].type \in {"Long", "Repeat"}

\* The last command for k's timer stops it.
Stopping(k) ==
    /\ k \in running => <<"Stop", k>> \in ToSet(commands)
    /\ \A i \in DOMAIN commands : commands[i] = <<"Start", k>> =>
          \E j \in i + 1 .. Len(commands) : commands[j] = <<"Stop", k>>

\* k's callback neither runs nor will run.
Quiet(k) ==
    /\ Stopping(k)
    /\ k \in running => daemon = "commands"
    /\ event[TimerTask] # None => event[TimerTask].key # k

\* The input thread has reported the release of k, or is about to: it has seen
\* that the timer does not run.
Settled(k) ==
    IF k \in state THEN Busy(k) /\ ipc = "timer"
                   ELSE ~ (Busy(k) /\ ipc \in {"timer", "stop"})

TimerQuiet ==
    /\ \A k \in Keys : Settled(k) => Quiet(k)
    /\ ipc = "stop" => Stopping(Key)

Basic == TypeOK /\ Publication /\ ThreadEvent /\ TaskEvent

Inv == Basic /\ TimerQuiet

\* k's Press is still to be published, ...
PressPending(k) ==
    /\ Busy(k) /\ ipc = "edge" /\ k \in state
    /\ publishing[InputSrv] = "acquire"

\* ... or its Long is.
LongPending(k) ==
    publishing[TimerTask] = "acquire" /\ event[TimerTask] = Event(k, "Long")

\* k is down: Long follows Press when the counter has come to it.
Held(k) ==
    IF press_counter[k] < LongPressCounts \/ LongPending(k)
    THEN last[k] = IF PressPending(k) THEN "Release" ELSE "Press"
    ELSE last[k] \in {"Long", "Repeat"} /\ ~ PressPending(k)

\* The input thread publishes the end of a press of k or its start.
Reporting(k) == Busy(k) /\ ipc \in {"short", "edge"}

\* The last event published of k, from the place of the input thread.
LastEvent(k) ==
    /\ Settled(k) /\ ~ Reporting(k) =>
          press_counter[k] = 0 /\ last[k] = "Release"
    /\ ~ Settled(k) => Held(k)
    /\ Busy(k) /\ ipc = "short" =>
          last[k] = IF publishing[InputSrv] = "acquire" THEN "Press"
                                                        ELSE "Short"
    /\ Busy(k) /\ ipc = "edge" /\ k \notin state =>
          /\ press_counter[k] = 0
          /\ IF publishing[InputSrv] = "acquire"
             THEN last[k] \in {"Short", "Long", "Repeat"}
             ELSE last[k] = "Release"

OrderInv == Inv /\ \A k \in Keys : LastEvent(k)
-----------------------------------------------------------------------------
\* The publishers and subscribers are different ones, and None is no event.
LEMMA Actors ==
    /\ Publishers = {InputSrv, TimerTask, Cli}
    /\ InputSrv # TimerTask /\ InputSrv # Cli /\ TimerTask # Cli
    /\ Nobody \notin Publishers
    /\ FuriTimers = Keys /\ Subscribers = {Gui, Dump}
    /\ \A k \in Keys, t \in InputType : Event(k, t) # None
<1>1. \A x, y : Cardinality({x, y}) # 3
  <2> TAKE x, y
  <2>1. IsFiniteSet({x}) /\ Cardinality({x}) = 1
    BY FS_Singleton
  <2>2. {x, y} = {x} \cup {y}
    OBVIOUS
  <2>3. Cardinality({x} \cup {y}) = IF y \in {x} THEN 1 ELSE 2
    BY <2>1, FS_AddElement
  <2>4. QED
    BY <2>2, <2>3
<1>2. InputSrv # TimerTask /\ InputSrv # Cli /\ TimerTask # Cli
  <2>1. Publishers = {InputSrv, TimerTask, Cli} /\ Cardinality(Publishers) = 3
    BY InputAssumption
  <2>2. InputSrv = TimerTask => Publishers = {TimerTask, Cli}
    BY <2>1
  <2>3. InputSrv = Cli => Publishers = {TimerTask, Cli}
    BY <2>1
  <2>4. TimerTask = Cli => Publishers = {InputSrv, Cli}
    BY <2>1
  <2>5. QED
    BY <1>1, <2>1, <2>2, <2>3, <2>4
<1>3. \A k \in Keys, t \in InputType : Event(k, t) # None
  BY NoneAssumption DEF Event
<1>4. QED
  BY <1>2, <1>3, InputAssumption

\* The key the input thread looks at is a key.
LEMMA KeyIsKey ==
    ASSUME ThreadTypeOK
    PROVE  Key \in Keys
<1>1. Pins \in Seq(Keys) /\ Len(Pins) \in Nat
  BY InputAssumption
<1>2. QED
  BY <1>1 DEF ThreadTypeOK, Key, Keys, ToSet

LEMMA InputInit == Init => Inv
<1> SUFFICES ASSUME Init PROVE Inv
  OBVIOUS
<1> USE Actors
<1>1. /\ ToSet(<<>>) = {} /\ Len(<<>>) = 0 /\ <<>> \in Seq(Commands)
      /\ <<Gui>> \in Seq(Subscribers) /\ Len(<<Gui>>) = 1
  BY DEF ToSet
<1>2. FuriTimerTypeOK
  BY <1>1, FuriTimerAssumption DEF Init, FuriTimerInit, FuriTimerTypeOK
<1>3. PubSubTypeOK
  BY <1>1 DEF Init, PubSubInit, PubSubTypeOK
<1>4. PinTypeOK
  <2>1. DebounceTicks \div 2 \in 0 .. DebounceTicks
    BY InputAssumption
  <2>2. \A h \in 0 .. DebounceTicks :
            [k \in Keys |-> h] \in [Keys -> 0 .. DebounceTicks]
    OBVIOUS
  <2>3. debounce \in [Keys -> 0 .. DebounceTicks]
    BY <2>1, <2>2 DEF Init
  <2>4. press_counter \in [Keys -> 0 .. LongPressCounts]
    BY DEF Init, LongPressCounts
  <2>5. QED
    BY <2>3, <2>4 DEF Init, PinTypeOK
<1>5. ThreadTypeOK
  <2>1. 1 \in 1 .. Len(Pins)
    BY InputAssumption, EmptySeq
  <2>2. QED
    BY <2>1 DEF Init, ThreadTypeOK
<1>6. EventTypeOK /\ QueueTypeOK
  BY InputAssumption DEF Init, EventTypeOK, QueueTypeOK, Events, InputType
<1>7. Publication /\ ThreadEvent /\ TaskEvent
  BY DEF Init, PubSubInit, Publication, ThreadEvent, TaskEvent
<1>8. TimerQuiet
  BY <1>1 DEF Init, FuriTimerInit, TimerQuiet, Quiet, Stopping
<1>9. QED
  BY <1>2, <1>3, <1>4, <1>5, <1>6, <1>7, <1>8 DEF Inv, Basic, TypeOK
-----------------------------------------------------------------------------
(* Types, and who publishes what.                                          *)

LEMMA SendType ==
    ASSUME FuriTimerTypeOK, NEW command \in Commands, SendCommand(command)
    PROVE  /\ FuriTimerTypeOK' /\ commands' = Append(commands, command)
           /\ UNCHANGED <<running, daemon>>
  BY FuriTimerAssumption DEF SendCommand, FuriTimerTypeOK

\* A thread calls furi_pubsub_publish.
LEMMA PublishCalled ==
    ASSUME Basic, NEW p \in {InputSrv, TimerTask},
           NEW k \in Keys, NEW t \in InputType, Publish(p, Event(k, t))
    PROVE  /\ PubSubTypeOK' /\ Publication'
           /\ event' \in [Publishers -> Events]
           /\ event[p] = None /\ event'[p] = Event(k, t)
           /\ publishing[p] = "no" /\ publishing'[p] = "acquire"
           /\ \A q \in Publishers \ {p} : /\ event'[q] = event[q]
                                          /\ publishing'[q] = publishing[q]
<1> USE Actors
<1>1. PubSubTypeOK /\ EventTypeOK /\ Publication
  BY DEF Basic, TypeOK
<1>2. /\ publishing[p] = "no"
      /\ publishing' = [publishing EXCEPT ![p] = "acquire"]
      /\ UNCHANGED <<mutex, items, called>>
      /\ event' = [event EXCEPT ![p] = Event(k, t)]
  BY DEF Publish, furi_pubsub_publish
<1>3. /\ publishing'[p] = "acquire" /\ event'[p] = Event(k, t)
      /\ \A q \in Publishers \ {p} : /\ event'[q] = event[q]
                                     /\ publishing'[q] = publishing[q]
  BY <1>1, <1>2 DEF PubSubTypeOK, EventTypeOK
<1>4. PubSubTypeOK'
  BY <1>1, <1>2 DEF PubSubTypeOK
<1>5. event' \in [Publishers -> Events]
  BY <1>1, <1>2 DEF EventTypeOK, Events, Event
<1>6. Publication'
  BY <1>1, <1>2, <1>3 DEF Publication
<1>7. event[p] = None
  BY <1>1, <1>2 DEF Publication
<1>8. QED
  BY <1>2, <1>3, <1>4, <1>5, <1>6, <1>7

\* TypeOK of a step of the input thread.
LEMMA ThreadType ==
    ASSUME Basic, FuriTimerTypeOK', PubSubTypeOK', PinTypeOK', ThreadTypeOK',
           event' \in [Publishers -> Events],
           UNCHANGED <<gui_queue, dumpVars, last>>
    PROVE  TypeOK'
  BY DEF Basic, TypeOK, EventTypeOK, QueueTypeOK, dumpVars

\* The next pin is one.
LEMMA NextPinType ==
    ASSUME ThreadTypeOK, NEW changing \in BOOLEAN, NextPin(changing)
    PROVE  ThreadTypeOK' /\ ipc' \in {"read", "sleep", "wait"}
<1>1. Len(Pins) \in Nat /\ Len(Pins) > 0
  BY InputAssumption, EmptySeq
<1>2. CASE pin < Len(Pins)
  BY <1>1, <1>2 DEF NextPin, ThreadTypeOK
<1>3. CASE ~ pin < Len(Pins)
  <2>1. /\ ipc' = IF changing THEN "sleep" ELSE "wait"
        /\ pin' = 1 /\ is_changing' = FALSE
    BY <1>3 DEF NextPin
  <2>2. ipc' = "sleep" \/ ipc' = "wait"
    BY <2>1, Zenon
  <2>3. pin' = 1 /\ is_changing' \in BOOLEAN
    BY <2>1, Zenon
  <2>4. QED
    BY <1>1, <2>2, <2>3 DEF ThreadTypeOK
<1>4. QED
  BY <1>2, <1>3

LEMMA ReadBasic ==
    ASSUME Basic, ReadPin
    PROVE  /\ Basic' /\ ipc = "read" /\ ipc' \notin {"stop", "short", "edge"}
           /\ \/ state' = state /\ ipc' # "timer"
              \/ /\ ipc' = "timer" /\ Key' = Key
                 /\ Key \in state' <=> Key \notin state
                 /\ \A k \in Keys \ {Key} : k \in state' <=> k \in state
<1> USE Actors
<1> USE DEF ReadPin
<1>1. /\ ipc = "read" /\ Key \in Keys /\ PinTypeOK /\ ThreadTypeOK
      /\ UNCHANGED <<running, commands, daemon, event, last, gui_queue,
                     press_counter, level, isr>>
      /\ UNCHANGED <<furiTimerVars, pubsubVars, dumpVars>>
  BY KeyIsKey DEF Basic, TypeOK, furiTimerVars
<1>2. debounce' \in [Keys -> 0 .. DebounceTicks]
  <2>1. Debounced(Key) \in 0 .. DebounceTicks
    BY <1>1, InputAssumption DEF Debounced, PinTypeOK
  <2>2. QED
    BY <1>1, <2>1 DEF PinTypeOK
<1>3. /\ \/ state' = state /\ ipc' \in {"read", "sleep", "wait"}
         \/ /\ ipc' = "timer" /\ Key' = Key
            /\ Key \in state' <=> Key \notin state
            /\ \A k \in Keys \ {Key} : k \in state' <=> k \in state
      /\ ThreadTypeOK'
      /\ state' \subseteq Keys
  <2>1. CASE /\ \E changing \in BOOLEAN : NextPin(changing)
             /\ UNCHANGED state
    BY <1>1, <2>1, NextPinType DEF PinTypeOK
  <2>2. CASE /\ (Key \in state) # (Key \in level)
             /\ state' = IF Key \in level THEN state \cup {Key}
                                          ELSE state \ {Key}
             /\ ipc' = "timer"
             /\ UNCHANGED <<pin, is_changing>>
    BY <1>1, <2>2 DEF ThreadTypeOK, PinTypeOK, Key
  <2>3. is_changing \in BOOLEAN
    BY <1>1 DEF ThreadTypeOK
  <2>4. QED
    BY <2>1, <2>2, <2>3
<1>4. FuriTimerTypeOK' /\ PubSubTypeOK' /\ Publication'
  BY <1>1 DEF Basic, TypeOK, FuriTimerTypeOK, PubSubTypeOK, Publication,
              pubsubVars
<1>5. TypeOK'
  <2>1. PinTypeOK'
    BY <1>1, <1>2, <1>3 DEF PinTypeOK
  <2>2. event' \in [Publishers -> Events]
    BY <1>1 DEF Basic, TypeOK, EventTypeOK
  <2>3. QED
    BY <1>1, <1>3, <1>4, <2>1, <2>2, ThreadType
<1>6. ThreadEvent'
  BY <1>1, <1>3 DEF Basic, ThreadEvent
<1>7. TaskEvent'
  BY <1>1 DEF Basic, TaskEvent
<1>8. QED
  BY <1>1, <1>3, <1>4, <1>5, <1>6, <1>7 DEF Basic

LEMMA PressBasic ==
    ASSUME Basic, KeyPressed
    PROVE  Basic'
<1> USE Actors
<1> USE DEF KeyPressed
<1>1. /\ ipc = "timer" /\ ipc' = "edge" /\ Key' = Key /\ Key \in Keys
      /\ Key \in state /\ UNCHANGED <<pinVars, pin, is_changing, level, isr>>
      /\ PinTypeOK /\ ThreadTypeOK
  BY KeyIsKey DEF Basic, TypeOK, Key
<1>2. /\ FuriTimerTypeOK' /\ UNCHANGED <<running, daemon>>
  <2>1. <<"Start", Key>> \in Commands
    BY <1>1 DEF Commands
  <2>2. QED
    BY <2>1, SendType DEF furi_timer_start, Basic, TypeOK
<1>3. /\ PubSubTypeOK' /\ Publication' /\ event' \in [Publishers -> Events]
      /\ event'[InputSrv] = Event(Key, "Press")
      /\ event'[TimerTask] = event[TimerTask]
  BY <1>1, PublishCalled DEF InputType
<1>4. PinTypeOK' /\ ThreadTypeOK'
  BY <1>1 DEF PinTypeOK, ThreadTypeOK, pinVars
<1>5. TypeOK'
  BY <1>2, <1>3, <1>4, ThreadType
<1>6. ThreadEvent'
  BY <1>1, <1>3 DEF ThreadEvent, pinVars
<1>7. TaskEvent'
  BY <1>1, <1>2, <1>3 DEF Basic, TaskEvent, pinVars
<1>8. QED
  BY <1>3, <1>5, <1>6, <1>7 DEF Basic

LEMMA ReleaseBasic ==
    ASSUME Basic, KeyReleased
    PROVE  Basic'
<1> USE Actors
<1> USE DEF KeyReleased
<1>1. /\ ipc = "timer" /\ ipc' = "stop" /\ Key' = Key /\ Key \in Keys
      /\ Key \notin state
      /\ UNCHANGED <<pinVars, pin, is_changing, level, isr, pubsubVars, event>>
      /\ PinTypeOK /\ ThreadTypeOK
  BY KeyIsKey DEF Basic, TypeOK, Key
<1>2. /\ FuriTimerTypeOK' /\ UNCHANGED <<running, daemon>>
  <2>1. <<"Stop", Key>> \in Commands
    BY <1>1 DEF Commands
  <2>2. QED
    BY <2>1, SendType DEF furi_timer_stop, Basic, TypeOK
<1>3. /\ PubSubTypeOK' /\ Publication' /\ event' \in [Publishers -> Events]
  BY <1>1 DEF Basic, TypeOK, EventTypeOK, PubSubTypeOK, Publication, pubsubVars
<1>4. PinTypeOK' /\ ThreadTypeOK'
  BY <1>1 DEF PinTypeOK, ThreadTypeOK, pinVars
<1>5. TypeOK'
  BY <1>2, <1>3, <1>4, ThreadType
<1>6. ThreadEvent'
  BY <1>1 DEF Basic, ThreadEvent, pinVars
<1>7. TaskEvent'
  BY <1>1, <1>2 DEF Basic, TaskEvent, pinVars
<1>8. QED
  BY <1>3, <1>5, <1>6, <1>7 DEF Basic

\* The end of a press: Short, or Release, which resets the counter.
LEMMA EndBasic ==
    ASSUME Inv, TimerStopped \/ ShortPublished
    PROVE  /\ Basic' /\ Key \in Keys /\ Key \notin state /\ Key' = Key
           /\ event[InputSrv] = None /\ publishing[InputSrv] = "no"
           /\ publishing'[InputSrv] = "acquire"
           /\ event'[TimerTask] = event[TimerTask]
           /\ publishing'[TimerTask] = publishing[TimerTask]
           /\ \/ /\ ipc' = "short" /\ press_counter' = press_counter
                 /\ ipc = "stop" /\ press_counter[Key] < LongPressCounts
              \/ /\ ipc' = "edge"
                 /\ ipc = "stop" => press_counter[Key] >= LongPressCounts
                 /\ press_counter'[Key] = 0
                 /\ \A k \in Keys \ {Key} : press_counter'[k] = press_counter[k]
<1> USE Actors
<1> USE DEF TimerStopped, ShortPublished
<1>0. Basic
  BY DEF Inv
<1>1. /\ ipc \in {"stop", "short"} /\ Key' = Key /\ Key \in Keys
      /\ ipc = "stop" => Key \notin running
      /\ UNCHANGED <<level, isr, state, debounce, pin, is_changing,
                     running, commands, daemon, gui_queue, dumpVars, last>>
      /\ PinTypeOK /\ ThreadTypeOK
  BY <1>0, KeyIsKey DEF Basic, TypeOK, Key, furi_timer_is_running, furiTimerVars
<1>2. Key \notin state
  BY <1>0, <1>1 DEF Basic, ThreadEvent
<1>3. PICK t \in {"Short", "Release"} :
         /\ Publish(InputSrv, Event(Key, t))
         /\ t = "Short" => /\ ipc' = "short" /\ press_counter' = press_counter
                           /\ ipc = "stop" /\ press_counter[Key] < LongPressCounts
         /\ t = "Release" =>
               /\ ipc' = "edge"
               /\ ipc = "stop" => press_counter[Key] >= LongPressCounts
               /\ press_counter' = [press_counter EXCEPT ![Key] = 0]
  BY Zenon
<1>4. t = "Release" =>
         /\ press_counter'[Key] = 0
         /\ \A k \in Keys \ {Key} : press_counter'[k] = press_counter[k]
  BY <1>1, <1>3 DEF PinTypeOK
<1>5. /\ PubSubTypeOK' /\ Publication' /\ event' \in [Publishers -> Events]
      /\ event[InputSrv] = None /\ event'[InputSrv] = Event(Key, t)
      /\ publishing[InputSrv] = "no" /\ publishing'[InputSrv] = "acquire"
      /\ event'[TimerTask] = event[TimerTask]
      /\ publishing'[TimerTask] = publishing[TimerTask]
  BY <1>0, <1>1, <1>3, PublishCalled DEF InputType
<1>6. PinTypeOK' /\ ThreadTypeOK' /\ FuriTimerTypeOK'
  <2>1. press_counter' \in [Keys -> 0 .. LongPressCounts]
    BY <1>1, <1>3 DEF PinTypeOK, LongPressCounts
  <2>2. FuriTimerTypeOK'
    BY <1>0, <1>1 DEF Basic, TypeOK, FuriTimerTypeOK
  <2>3. QED
    BY <1>1, <1>3, <2>1, <2>2 DEF PinTypeOK, ThreadTypeOK
<1>7. TypeOK'
  BY <1>0, <1>1, <1>5, <1>6, ThreadType
<1>8. ThreadEvent'
  BY <1>1, <1>2, <1>3, <1>5 DEF ThreadEvent
<1>9. TaskEvent'
  <2>1. event[TimerTask] # None => event[TimerTask].key \in Keys
    BY <1>0, <1>5 DEF Basic, TypeOK, EventTypeOK, Events
  <2>2. event[TimerTask] # None => event[TimerTask].key # Key
    <3>1. CASE ipc = "stop"
      BY <1>0, <1>1, <3>1 DEF Basic, TaskEvent
    <3>2. CASE ipc = "short"
      BY <1>1, <1>2, <3>2 DEF Inv, TimerQuiet, Settled, Busy, Quiet
    <3>3. QED
      BY <1>1, <3>1, <3>2
  <2>3. QED
    BY <1>0, <1>1, <1>3, <1>4, <1>5, <2>1, <2>2 DEF Basic, TaskEvent
<1>10. QED
  BY <1>1, <1>2, <1>3, <1>4, <1>5, <1>7, <1>8, <1>9 DEF Basic

LEMMA EdgeBasic ==
    ASSUME Basic, EdgePublished \/ NextRound
    PROVE  /\ Basic' /\ ipc' \in {"read", "sleep", "wait"}
           /\ ipc \in {"edge", "sleep", "wait"}
           /\ ipc = "edge" => publishing[InputSrv] = "no"
<1> USE Actors
<1> USE DEF EdgePublished, NextRound
<1>1. /\ ipc \in {"edge", "sleep", "wait"}
      /\ ipc = "edge" => publishing[InputSrv] = "no"
      /\ isr' \in BOOLEAN
      /\ UNCHANGED <<level, pinVars, furiTimerVars, pubsubVars, event,
                     gui_queue, dumpVars, last>>
  BY DEF Basic, TypeOK, PinTypeOK
<1>2. ThreadTypeOK' /\ ipc' \in {"read", "sleep", "wait"}
  BY NextPinType DEF Basic, TypeOK, ThreadTypeOK
<1>3. /\ FuriTimerTypeOK' /\ PubSubTypeOK' /\ Publication'
      /\ event' \in [Publishers -> Events]
  BY <1>1 DEF Basic, TypeOK, EventTypeOK, PubSubTypeOK, FuriTimerTypeOK,
              Publication, pubsubVars, furiTimerVars
<1>4. PinTypeOK'
  BY <1>1 DEF Basic, TypeOK, PinTypeOK, pinVars
<1>5. TypeOK'
  BY <1>1, <1>2, <1>3, <1>4, ThreadType
<1>6. event[InputSrv] = None
  BY <1>1 DEF Basic, ThreadEvent, Publication
<1>7. ThreadEvent'
  BY <1>1, <1>2, <1>6 DEF ThreadEvent
<1>8. TaskEvent'
  BY <1>1 DEF Basic, TaskEvent, pinVars, furiTimerVars
<1>9. QED
  BY <1>1, <1>2, <1>3, <1>5, <1>7, <1>8 DEF Basic

\* A callback: it counts, and publishes from the second time on.
LEMMA CallbackBasic ==
    ASSUME Basic, NEW k \in Keys, TimerCallback(k)
    PROVE  /\ Basic' /\ k \in running /\ daemon = "top" /\ daemon' = "callback"
           /\ event[TimerTask] = None /\ publishing[TimerTask] = "no"
           /\ event'[InputSrv] = event[InputSrv]
           /\ publishing'[InputSrv] = publishing[InputSrv]
           /\ \A j \in Keys \ {k} : press_counter'[j] = press_counter[j]
           /\ \/ /\ press_counter'[k] < LongPressCounts
                 /\ press_counter[k] < LongPressCounts
                 /\ event' = event
              \/ /\ press_counter'[k] = LongPressCounts
                 /\ event'[TimerTask] = Event(k,
                       IF press_counter[k] < LongPressCounts THEN "Long"
                                                             ELSE "Repeat")
                 /\ publishing'[TimerTask] = "acquire"
<1> USE Actors
<1> USE DEF TimerCallback, input_press_timer_callback, LongPressCounts
<1>1. /\ daemon = "top" /\ daemon' = "callback" /\ k \in running
      /\ UNCHANGED <<level, isr, state, debounce, ipc, pin, is_changing,
                     running, commands, gui_queue, dumpVars, last>>
      /\ UNCHANGED threadVars
  BY DEF TimerExpires, threadVars
<1>2. press_counter \in [Keys -> 0 .. 2]
  BY DEF Basic, TypeOK, PinTypeOK
<1>3. /\ press_counter'[k] = IF press_counter[k] < 2 THEN press_counter[k] + 1
                                                     ELSE press_counter[k]
      /\ \A j \in Keys \ {k} : press_counter'[j] = press_counter[j]
      /\ press_counter' \in [Keys -> 0 .. 2]
  BY <1>2
<1>4. event[TimerTask] = None /\ publishing[TimerTask] = "no"
  BY <1>1 DEF Basic, TaskEvent, Publication
<1>5. /\ PubSubTypeOK' /\ Publication' /\ event' \in [Publishers -> Events]
      /\ event'[InputSrv] = event[InputSrv]
      /\ publishing'[InputSrv] = publishing[InputSrv]
      /\ \/ press_counter'[k] < 2 /\ press_counter[k] < 2 /\ event' = event
         \/ /\ press_counter'[k] = 2
            /\ event'[TimerTask] = Event(k, IF press_counter[k] < 2
                                            THEN "Long" ELSE "Repeat")
            /\ publishing'[TimerTask] = "acquire"
  <2>1. CASE press_counter[k] + 1 < 2 /\ UNCHANGED <<pubsubVars, event>>
    BY <1>2, <1>3, <2>1 DEF Basic, TypeOK, PubSubTypeOK, EventTypeOK,
                            Publication, pubsubVars
  <2>2. CASE press_counter[k] + 1 = 2 /\ Publish(TimerTask, Event(k, "Long"))
    BY <1>2, <1>3, <2>2, PublishCalled DEF InputType
  <2>3. CASE press_counter[k] + 1 > 2 /\ Publish(TimerTask, Event(k, "Repeat"))
    BY <1>2, <1>3, <2>3, PublishCalled DEF InputType
  <2>4. QED
    BY <2>1, <2>2, <2>3
<1>6. FuriTimerTypeOK' /\ PinTypeOK' /\ ThreadTypeOK'
  BY <1>1, <1>3 DEF Basic, TypeOK, FuriTimerTypeOK, PinTypeOK, ThreadTypeOK
<1>7. TypeOK'
  BY <1>1, <1>5, <1>6, ThreadType
<1>8. ThreadEvent'
  BY <1>1, <1>5 DEF Basic, ThreadEvent, Key
<1>9. TaskEvent'
  <2>1. CASE event' = event
    BY <1>4, <2>1 DEF TaskEvent
  <2>2. CASE /\ press_counter'[k] = 2
             /\ event'[TimerTask] = Event(k, IF press_counter[k] < 2
                                             THEN "Long" ELSE "Repeat")
    BY <1>1, <2>2 DEF TaskEvent, Event
  <2>3. QED
    BY <1>5, <2>1, <2>2
<1>10. QED
  BY <1>1, <1>3, <1>4, <1>5, <1>7, <1>8, <1>9 DEF Basic

LEMMA TaskBasic ==
    ASSUME Basic, RunTimerTask
    PROVE  Basic'
<1> USE Actors
<1> USE DEF RunTimerTask
<1>1. /\ UNCHANGED <<level, isr, pinVars, threadVars, pubsubVars, event,
                     gui_queue, dumpVars, last>>
      /\ UNCHANGED <<ipc, pin, is_changing>>
  BY DEF threadVars
<1>2. event[TimerTask] # None => FALSE
  BY DEF TimerCallbackReturns, CommandArrives, ExecuteCommand, Basic,
         Publication, TaskEvent
<1>3. FuriTimerTypeOK'
  <2>1. /\ running \subseteq Keys /\ commands \in Seq(Commands)
        /\ Len(commands) \in Nat /\ Len(commands) <= TimerQueueLength
        /\ TimerQueueLength \in Nat
    BY FuriTimerAssumption DEF Basic, TypeOK, FuriTimerTypeOK
  <2>2. CASE TimerCallbackReturns \/ CommandArrives
    BY <2>1, <2>2 DEF TimerCallbackReturns, CommandArrives, FuriTimerTypeOK
  <2>3. CASE ExecuteCommand /\ commands = <<>>
    BY <2>1, <2>3 DEF ExecuteCommand, FuriTimerTypeOK
  <2>4. CASE ExecuteCommand /\ commands # <<>>
    <3>1. /\ Head(commands) \in Commands /\ Tail(commands) \in Seq(Commands)
          /\ Len(Tail(commands)) = Len(commands) - 1
      BY <2>1, <2>4
    <3>2. Head(commands)[2] \in Keys
      BY <3>1 DEF Commands
    <3>3. running' \subseteq Keys
      BY <2>1, <2>4, <3>2 DEF ExecuteCommand
    <3>4. QED
      BY <2>1, <2>4, <3>1, <3>3 DEF ExecuteCommand, FuriTimerTypeOK, Basic,
                                    TypeOK
  <2>5. QED
    BY <2>2, <2>3, <2>4
<1>4. /\ PubSubTypeOK' /\ Publication' /\ event' \in [Publishers -> Events]
      /\ PinTypeOK' /\ ThreadTypeOK'
  BY <1>1 DEF Basic, TypeOK, EventTypeOK, PubSubTypeOK, Publication, pubsubVars,
              PinTypeOK, ThreadTypeOK, pinVars
<1>5. TypeOK'
  BY <1>1, <1>3, <1>4, ThreadType
<1>6. ThreadEvent'
  BY <1>1 DEF Basic, ThreadEvent, Key, pinVars
<1>7. TaskEvent'
  BY <1>1, <1>2 DEF TaskEvent
<1>8. QED
  BY <1>4, <1>5, <1>6, <1>7 DEF Basic

\* What the steps of publishing and of the other threads leave alone.
keyVars == <<state, press_counter, ipc, pin, furiTimerVars>>

\* TypeOK of such a step.
LEMMA OtherType ==
    ASSUME Basic, UNCHANGED <<keyVars, isr, debounce, is_changing>>,
           level' \subseteq Keys, PubSubTypeOK', EventTypeOK', QueueTypeOK'
    PROVE  TypeOK'
<1>1. FuriTimerTypeOK'
  BY DEF keyVars, furiTimerVars, Basic, TypeOK, FuriTimerTypeOK
<1>2. PinTypeOK'
  BY DEF keyVars, Basic, TypeOK, PinTypeOK
<1>3. ThreadTypeOK'
  BY DEF keyVars, Basic, TypeOK, ThreadTypeOK
<1>4. QED
  BY <1>1, <1>2, <1>3 DEF TypeOK

\* Its events: they stay, or one is done with.
LEMMA OtherEvents ==
    ASSUME Basic, UNCHANGED keyVars,
           \A p \in {InputSrv, TimerTask} : event'[p] \in {event[p], None}
    PROVE  ThreadEvent' /\ TaskEvent'
<1> USE Actors
<1>1. UNCHANGED <<ipc, Key, state, press_counter, running, daemon>>
  BY DEF keyVars, furiTimerVars, Key
<1>2. ThreadEvent'
  BY <1>1 DEF Basic, ThreadEvent
<1>3. TaskEvent'
  BY <1>1 DEF Basic, TaskEvent
<1>4. QED
  BY <1>2, <1>3

LEMMA AcquireBasic ==
    ASSUME Basic, NEW p \in Publishers, AcquireMutex(p)
    PROVE  /\ Basic' /\ UNCHANGED <<keyVars, event>>
           /\ publishing[p] = "acquire" /\ publishing'[p] = "call"
           /\ \A q \in Publishers \ {p} : publishing'[q] = publishing[q]
           /\ p # Cli => event[p] # None /\ event[p].key \in Keys
                         /\ event[p].type \in InputType
<1> USE Actors
<1> USE DEF AcquireMutex
<1>1. /\ UNCHANGED keyVars /\ PubSubTypeOK /\ EventTypeOK /\ Publication
      /\ UNCHANGED <<isr, debounce, is_changing, level, event, gui_queue>>
      /\ UNCHANGED <<dump, dump_queue>>
  BY DEF keyVars, pinVars, threadVars, dumpVars, Basic, TypeOK
<1>2. /\ publishing[p] = "acquire" /\ mutex = Nobody /\ mutex' = p
      /\ called' = 0 /\ items' = items /\ publishing'[p] = "call"
      /\ \A q \in Publishers \ {p} : publishing'[q] = publishing[q]
      /\ publishing' \in [Publishers -> {"no", "acquire", "call"}]
  BY <1>1 DEF PublishAcquired, PubSubTypeOK
<1>3. p # Cli => /\ event[p] # None /\ event[p].key \in Keys
                 /\ event[p].type \in InputType
  BY <1>1, <1>2 DEF Publication, EventTypeOK, Events
<1>4. EventTypeOK'
  BY <1>1, <1>3 DEF EventTypeOK
<1>5. PubSubTypeOK' /\ Publication'
  <2>1. Len(items) \in Nat
    BY <1>1 DEF PubSubTypeOK
  <2>2. PubSubTypeOK'
    BY <1>1, <1>2, <2>1 DEF PubSubTypeOK
  <2>3. Publication'
    BY <1>1, <1>2 DEF Publication
  <2>4. QED
    BY <2>2, <2>3
<1>6. TypeOK'
  <2>1. QueueTypeOK' /\ level' \subseteq Keys
    BY <1>1 DEF Basic, TypeOK, QueueTypeOK, PinTypeOK
  <2>2. QED
    BY <1>1, <1>4, <1>5, <2>1, OtherType
<1>7. ThreadEvent' /\ TaskEvent'
  BY <1>1, OtherEvents
<1>8. QED
  BY <1>1, <1>2, <1>3, <1>5, <1>6, <1>7 DEF Basic

\* The other steps of publishing, and of the other threads.
Other ==
    \/ \E k \in Keys : PinChanges(k)
    \/ \E p \in Publishers : CallSubscriber(p) \/ ReleaseMutex(p)
    \/ GuiTakes \/ input_cli_send \/ input_cli_dump \/ DumpRuns \/ DumpEnds
    \/ UNCHANGED vars

LEMMA OtherBasic ==
    ASSUME Basic, Other
    PROVE  /\ Basic' /\ UNCHANGED <<keyVars, last>>
           /\ \A p \in {InputSrv, TimerTask} :
                 /\ event'[p] \in {event[p], None}
                 /\ publishing'[p] = "acquire" <=> publishing[p] = "acquire"
                 /\ publishing[p] = "acquire" => event'[p] = event[p]
<1> USE Actors
<1>1. PubSubTypeOK /\ EventTypeOK /\ Publication /\ QueueTypeOK /\ PinTypeOK
  BY DEF Basic, TypeOK
<1>2. CASE \/ \E k \in Keys : PinChanges(k)
           \/ GuiTakes \/ DumpRuns \/ UNCHANGED vars
  <2>1. /\ UNCHANGED keyVars
        /\ UNCHANGED <<debounce, is_changing, event, last, pubsubVars>>
    BY <1>2 DEF PinChanges, GuiTakes, DumpRuns, vars, keyVars, pinVars,
                threadVars
  <2>2. level' \subseteq Keys /\ isr' \in BOOLEAN /\ QueueTypeOK'
    <3>1. CASE \E k \in Keys : PinChanges(k)
      <4>1. level' \subseteq Keys /\ QueueTypeOK'
        BY <1>1, <3>1 DEF PinChanges, QueueTypeOK, PinTypeOK, dumpVars
      <4>2. isr' \in BOOLEAN
        BY <3>1, Zenon DEF PinChanges
      <4>3. QED
        BY <4>1, <4>2
    <3>2. CASE GuiTakes \/ DumpRuns
      BY <1>1, <3>2, InputAssumption
         DEF GuiTakes, DumpRuns, QueueTypeOK, PinTypeOK, dumpVars
    <3>3. CASE UNCHANGED vars
      BY <1>1, <3>3 DEF vars, QueueTypeOK, PinTypeOK, dumpVars
    <3>4. QED
      BY <1>2, <3>1, <3>2, <3>3
  <2>3. FuriTimerTypeOK' /\ PinTypeOK' /\ ThreadTypeOK'
    BY <1>1, <2>1, <2>2 DEF keyVars, furiTimerVars, Basic, TypeOK,
                            FuriTimerTypeOK, PinTypeOK, ThreadTypeOK
  <2>4. PubSubTypeOK' /\ EventTypeOK' /\ Publication'
    BY <1>1, <2>1 DEF PubSubTypeOK, EventTypeOK, Publication, pubsubVars
  <2>5. ThreadEvent' /\ TaskEvent'
    BY <2>1, OtherEvents
  <2>6. QED
    BY <2>1, <2>2, <2>3, <2>4, <2>5 DEF Basic, TypeOK, pubsubVars
<1>3. ASSUME NEW p \in Publishers, CallSubscriber(p)
      PROVE  /\ Basic' /\ UNCHANGED <<keyVars, last, event, publishing>>
  <2>1. /\ UNCHANGED keyVars
        /\ UNCHANGED <<isr, level, debounce, is_changing, event, last,
                       publishing, mutex, items, dump>>
        /\ publishing[p] = "call" /\ called < Len(items)
        /\ called' = called + 1
    BY <1>3 DEF CallSubscriber, Calling, CallbackReturns, keyVars, pinVars,
                threadVars
  <2>2. QueueTypeOK'
    BY <1>1, <1>3, InputAssumption DEF CallSubscriber, QueueTypeOK
  <2>3. PubSubTypeOK' /\ Publication' /\ EventTypeOK' /\ level' \subseteq Keys
    BY <1>1, <2>1 DEF PubSubTypeOK, Publication, EventTypeOK, PinTypeOK
  <2>4. ThreadEvent' /\ TaskEvent'
    BY <2>1, OtherEvents
  <2>5. QED
    BY <2>1, <2>2, <2>3, <2>4, OtherType DEF Basic
<1>4. ASSUME NEW p \in Publishers, ReleaseMutex(p)
      PROVE  /\ Basic' /\ UNCHANGED <<keyVars, last>>
             /\ publishing[p] = "call" /\ publishing'[p] = "no"
             /\ event'[p] = None
             /\ \A q \in Publishers \ {p} : /\ event'[q] = event[q]
                                            /\ publishing'[q] = publishing[q]
  <2>1. /\ UNCHANGED keyVars
        /\ UNCHANGED <<isr, level, debounce, is_changing, last, items,
                       gui_queue, dump, dump_queue>>
        /\ publishing[p] = "call" /\ called' = 0 /\ mutex' = Nobody
        /\ publishing' = [publishing EXCEPT ![p] = "no"]
        /\ event' = [event EXCEPT ![p] = None]
    BY <1>4 DEF ReleaseMutex, PublishReturns, keyVars, pinVars, threadVars,
                dumpVars
  <2>2. /\ publishing'[p] = "no" /\ event'[p] = None
        /\ \A q \in Publishers \ {p} : /\ event'[q] = event[q]
                                       /\ publishing'[q] = publishing[q]
    BY <1>1, <2>1 DEF PubSubTypeOK, EventTypeOK
  <2>3. QueueTypeOK' /\ EventTypeOK' /\ level' \subseteq Keys
    BY <1>1, <2>1 DEF QueueTypeOK, EventTypeOK, Events, PinTypeOK
  <2>4. PubSubTypeOK'
    BY <1>1, <2>1 DEF PubSubTypeOK
  <2>5. Publication'
    BY <1>1, <2>1, <2>2 DEF Publication
  <2>6. ThreadEvent' /\ TaskEvent'
    BY <2>1, <2>2, OtherEvents
  <2>7. QED
    BY <2>1, <2>2, <2>3, <2>4, <2>5, <2>6, OtherType DEF Basic
<1>5. CASE input_cli_send \/ input_cli_dump \/ DumpEnds
  <2>1. /\ UNCHANGED keyVars
        /\ UNCHANGED <<isr, level, debounce, is_changing, last, event, mutex,
                       called>>
        /\ \A p \in {InputSrv, TimerTask} : publishing'[p] = publishing[p]
    BY <1>1, <1>5
       DEF input_cli_send, input_cli_dump, DumpEnds, keyVars, pinVars,
           threadVars, furi_pubsub_publish, furi_pubsub_subscribe,
           furi_pubsub_unsubscribe, PubSubTypeOK
  <2>2. QueueTypeOK' /\ EventTypeOK' /\ level' \subseteq Keys
    BY <1>1, <1>5, <2>1, InputAssumption
       DEF input_cli_send, input_cli_dump, DumpEnds, QueueTypeOK, EventTypeOK,
           PinTypeOK, dumpVars
  <2>3. CASE input_cli_send
    <3>1. /\ publishing[Cli] = "no" /\ items' = items
          /\ publishing' = [publishing EXCEPT ![Cli] = "acquire"]
      BY <2>3 DEF input_cli_send, furi_pubsub_publish
    <3>2. publishing'[Cli] = "acquire"
      BY <1>1, <3>1 DEF PubSubTypeOK
    <3>3. PubSubTypeOK' /\ Publication'
      BY <1>1, <2>1, <3>1, <3>2 DEF PubSubTypeOK, Publication
    <3>4. QED
      BY <2>1, <2>2, <3>3, OtherType, OtherEvents DEF Basic
  <2>4. CASE input_cli_dump \/ DumpEnds
    <3>1. /\ items \in Seq(Subscribers) /\ Dump \in Subscribers
          /\ mutex = Nobody /\ called = 0 /\ publishing' = publishing
          /\ items' = Append(items, Dump) \/ items' = RemoveFirst(items, Dump)
      BY <1>1, <2>4 DEF input_cli_dump, DumpEnds, furi_pubsub_subscribe,
                        furi_pubsub_unsubscribe, PubSubTypeOK, Publication
    <3>2. items' \in Seq(Subscribers) /\ Len(items') \in Nat
      BY <3>1, AppendList, UnlinkList
    <3>3. PubSubTypeOK' /\ Publication'
      BY <1>1, <2>1, <3>1, <3>2 DEF PubSubTypeOK, Publication
    <3>4. QED
      BY <2>1, <2>2, <3>3, OtherType, OtherEvents DEF Basic
  <2>5. QED
    BY <1>5, <2>1, <2>3, <2>4
<1>6. QED
  BY <1>2, <1>3, <1>4, <1>5 DEF Other
-----------------------------------------------------------------------------
(* The timer of a settled key is quiet.                                    *)

\* A command for another timer, or one that stops k's, is put into the queue.
LEMMA StoppingSend ==
    ASSUME FuriTimerTypeOK, NEW k \in Keys, NEW command \in Commands,
           commands' = Append(commands, command), running' = running,
           \/ Stopping(k) /\ command # <<"Start", k>>
           \/ command = <<"Stop", k>>
    PROVE  Stopping(k)'
<1>1. /\ commands \in Seq(Commands) /\ Len(commands) \in Nat
      /\ Len(commands') = Len(commands) + 1
      /\ \A i \in 1 .. Len(commands) : commands'[i] = commands[i]
      /\ commands'[Len(commands) + 1] = command
      /\ DOMAIN commands' = 1 .. Len(commands')
      /\ DOMAIN commands = 1 .. Len(commands)
      /\ ToSet(commands') = ToSet(commands) \cup {command}
  BY AppendList DEF FuriTimerTypeOK
<1>2. CASE command = <<"Stop", k>>
  <2>1. k \in running' => <<"Stop", k>> \in ToSet(commands')
    BY <1>1, <1>2
  <2>2. ASSUME NEW i \in DOMAIN commands', commands'[i] = <<"Start", k>>
        PROVE  \E j \in i + 1 .. Len(commands') : commands'[j] = <<"Stop", k>>
    <3>1. i # Len(commands) + 1
      BY <1>1, <1>2, <2>2
    <3>2. Len(commands) + 1 \in i + 1 .. Len(commands')
      BY <1>1, <3>1
    <3>3. QED
      BY <1>1, <1>2, <3>2
  <2>3. QED
    BY <2>1, <2>2 DEF Stopping
<1>3. CASE Stopping(k) /\ command # <<"Start", k>>
  <2>1. k \in running' => <<"Stop", k>> \in ToSet(commands')
    BY <1>1, <1>3 DEF Stopping
  <2>2. ASSUME NEW i \in DOMAIN commands', commands'[i] = <<"Start", k>>
        PROVE  \E j \in i + 1 .. Len(commands') : commands'[j] = <<"Stop", k>>
    <3>0. i # Len(commands) + 1
      BY <1>1, <1>3, <2>2
    <3>1. i \in DOMAIN commands /\ commands[i] = <<"Start", k>>
      BY <1>1, <2>2, <3>0
    <3>2. PICK j \in i + 1 .. Len(commands) : commands[j] = <<"Stop", k>>
      BY <1>3, <3>1 DEF Stopping
    <3>3. j \in 1 .. Len(commands) /\ j \in i + 1 .. Len(commands')
      BY <1>1, <3>1
    <3>4. QED
      BY <1>1, <3>2, <3>3
  <2>3. QED
    BY <2>1, <2>2 DEF Stopping
<1>4. QED
  BY <1>2, <1>3

\* The task executes a command.
LEMMA StoppingExecute ==
    ASSUME FuriTimerTypeOK, NEW k \in Keys, ExecuteCommand, Stopping(k)
    PROVE  Stopping(k)' /\ (k \in running' => daemon' = "commands")
<1> USE DEF ExecuteCommand
<1>1. CASE commands = <<>>
  <2>1. k \notin running
    BY <1>1 DEF Stopping, ToSet
  <2>2. QED
    BY <1>1, <2>1 DEF Stopping
<1>2. CASE commands # <<>>
  <2>1. /\ commands \in Seq(Commands) /\ Len(commands) \in Nat
        /\ commands' = Tail(commands) /\ daemon' = "commands"
        /\ Len(commands') = Len(commands) - 1
        /\ DOMAIN commands' = 1 .. Len(commands')
        /\ DOMAIN commands = 1 .. Len(commands)
        /\ \A i \in 1 .. Len(commands') : commands'[i] = commands[i + 1]
        /\ Head(commands) = commands[1] /\ Head(commands) \in Commands
        /\ ToSet(commands) = ToSet(commands') \cup {Head(commands)}
    <3>1. commands \in Seq(Commands) /\ commands' = Tail(commands)
      BY <1>2 DEF FuriTimerTypeOK
    <3>2. /\ Head(commands) \in Commands
          /\ ToSet(commands) = ToSet(Tail(commands)) \cup {Head(commands)}
      BY <1>2, <3>1, PopList
    <3>3. /\ Len(commands) \in Nat /\ daemon' = "commands"
          /\ Len(commands') = Len(commands) - 1
          /\ DOMAIN commands' = 1 .. Len(commands')
          /\ DOMAIN commands = 1 .. Len(commands)
          /\ \A i \in 1 .. Len(commands') : commands'[i] = commands[i + 1]
          /\ Head(commands) = commands[1]
      BY <1>2, <3>1
    <3>4. QED
      BY <3>1, <3>2, <3>3
  <2>2. ASSUME NEW i \in DOMAIN commands', commands'[i] = <<"Start", k>>
        PROVE  \E j \in i + 1 .. Len(commands') : commands'[j] = <<"Stop", k>>
    <3>1. i + 1 \in DOMAIN commands /\ commands[i + 1] = <<"Start", k>>
      BY <2>1, <2>2
    <3>2. PICK j \in (i + 1) + 1 .. Len(commands) : commands[j] = <<"Stop", k>>
      BY <2>1, <3>1 DEF Stopping
    <3>3. j - 1 \in i + 1 .. Len(commands') /\ commands'[j - 1] = commands[j]
      BY <2>1, <3>1
    <3>4. QED
      BY <3>2, <3>3
  <2>3. ASSUME k \in running' PROVE <<"Stop", k>> \in ToSet(commands')
    <3>1. CASE Head(commands) = <<"Start", k>>
      <4>1. 1 \in DOMAIN commands
        BY <1>2, <2>1
      <4>2. PICK j \in 1 + 1 .. Len(commands) : commands[j] = <<"Stop", k>>
        BY <2>1, <3>1, <4>1 DEF Stopping
      <4>3. j - 1 \in DOMAIN commands' /\ commands'[j - 1] = commands[j]
        BY <2>1
      <4>4. QED
        BY <2>1, <4>2, <4>3 DEF ToSet
    <3>2. CASE Head(commands) # <<"Start", k>>
      <4>1. Head(commands)[1] = "Start" => Head(commands)[2] # k
        BY <2>1, <3>2 DEF Commands
      <4>2. k \in running /\ Head(commands) # <<"Stop", k>>
        BY <1>2, <2>3, <4>1
      <4>3. QED
        BY <2>1, <4>2 DEF Stopping
    <3>3. QED
      BY <3>1, <3>2
  <2>4. QED
    BY <2>1, <2>2, <2>3 DEF Stopping
<1>3. QED
  BY <1>1, <1>2

\* Steps that neither settle a key nor touch the timers.
LEMMA QuietKept ==
    ASSUME Inv, \A k \in Keys : Settled(k)' => Settled(k),
           UNCHANGED furiTimerVars, event'[TimerTask] \in {event[TimerTask], None},
           ipc' = "stop" => ipc = "stop" /\ Key' = Key
    PROVE  TimerQuiet'
<1>1. UNCHANGED <<running, commands, daemon>>
  BY DEF furiTimerVars
<1>2. ASSUME NEW k \in Keys, Settled(k)' PROVE Quiet(k)'
  <2>1. Quiet(k)
    BY <1>2 DEF Inv, TimerQuiet
  <2>2. QED
    BY <1>1, <2>1 DEF Quiet, Stopping
<1>3. ipc' = "stop" => Stopping(Key)'
  BY <1>1 DEF Inv, TimerQuiet, Stopping
<1>4. QED
  BY <1>2, <1>3 DEF TimerQuiet

\* Steps of the timer task.
LEMMA TaskQuiet ==
    ASSUME Inv, RunTimerTask \/ \E k \in Keys : TimerCallback(k)
    PROVE  TimerQuiet'
<1> USE Actors
<1>1. Basic /\ Basic' /\ FuriTimerTypeOK
  BY TaskBasic, CallbackBasic DEF Inv, Basic, TypeOK
<1>2. UNCHANGED <<state, ipc, pin, Key>>
  BY DEF RunTimerTask, TimerCallback, pinVars, threadVars, Key
<1>3. \A k \in Keys : Settled(k)' <=> Settled(k)
  BY <1>2 DEF Settled, Busy
<1>4. CASE RunTimerTask /\ ExecuteCommand
  <2>1. event' = event
    BY <1>4 DEF RunTimerTask
  <2>2. ASSUME NEW k \in Keys, Settled(k)' PROVE Quiet(k)'
    <3>1. Quiet(k)
      BY <1>3, <2>2 DEF Inv, TimerQuiet
    <3>2. Stopping(k)' /\ (k \in running' => daemon' = "commands")
      BY <1>1, <1>4, <3>1, StoppingExecute DEF Quiet
    <3>3. QED
      BY <2>1, <3>1, <3>2 DEF Quiet
  <2>3. Key \in Keys
    BY <1>1, KeyIsKey DEF Basic, TypeOK
  <2>4. ipc' = "stop" => Stopping(Key)'
    <3>1. ASSUME ipc = "stop" PROVE Stopping(Key)'
      <4>1. PICK k \in Keys : k = Key
        BY <2>3
      <4>2. Stopping(k)
        BY <3>1, <4>1 DEF Inv, TimerQuiet
      <4>3. Stopping(k)'
        BY <1>1, <1>4, <4>2, StoppingExecute
      <4>4. k = Key'
        BY <1>2, <4>1
      <4>5. QED
        BY <4>3, <4>4 DEF Stopping
    <3>2. QED
      BY <1>2, <3>1
  <2>5. QED
    BY <2>2, <2>4 DEF TimerQuiet
<1>5. CASE RunTimerTask /\ (TimerCallbackReturns \/ CommandArrives)
  <2>1. UNCHANGED <<running, commands, event>> /\ daemon' = "commands"
    BY <1>5 DEF RunTimerTask, TimerCallbackReturns, CommandArrives
  <2>2. ASSUME NEW k \in Keys, Settled(k)' PROVE Quiet(k)'
    BY <1>3, <2>1, <2>2 DEF Inv, TimerQuiet, Quiet, Stopping
  <2>3. ipc' = "stop" => Stopping(Key)'
    BY <1>2, <2>1 DEF Inv, TimerQuiet, Stopping
  <2>4. QED
    BY <2>2, <2>3 DEF TimerQuiet
<1>6. ASSUME NEW k \in Keys, TimerCallback(k) PROVE TimerQuiet'
  <2>1. UNCHANGED <<running, commands>>
    BY <1>6 DEF TimerCallback, input_press_timer_callback, TimerExpires
  <2>2. /\ k \in running /\ daemon = "top"
        /\ event'[TimerTask] # None => event'[TimerTask].key = k
    <3>1. /\ k \in running /\ daemon = "top" /\ event[TimerTask] = None
          /\ \/ event' = event
             \/ \E t \in {"Long", "Repeat"} : event'[TimerTask] = Event(k, t)
      <4>1. /\ k \in running /\ daemon = "top" /\ event[TimerTask] = None
            /\ \/ event' = event
               \/ event'[TimerTask] = Event(k,
                     IF press_counter[k] < LongPressCounts THEN "Long"
                                                           ELSE "Repeat")
        BY <1>1, <1>6, CallbackBasic
      <4>2. QED
        BY <4>1
    <3>2. QED
      BY <3>1 DEF Event
  <2>3. ASSUME NEW j \in Keys, Settled(j)' PROVE Quiet(j)'
    <3>1. Quiet(j)
      BY <1>3, <2>3 DEF Inv, TimerQuiet
    <3>2. j \notin running
      BY <2>2, <3>1 DEF Quiet
    <3>3. QED
      BY <2>1, <2>2, <3>1, <3>2 DEF Quiet, Stopping
  <2>4. ipc' = "stop" => Stopping(Key)'
    BY <1>2, <2>1 DEF Inv, TimerQuiet, Stopping
  <2>5. QED
    BY <2>3, <2>4 DEF TimerQuiet
<1>7. QED
  BY <1>4, <1>5, <1>6 DEF RunTimerTask

\* The edge is settled for the other keys whatever the input thread does.
LEMMA OtherSettled ==
    ASSUME Key' = Key, state' = state
    PROVE  \A k : k # Key => (Settled(k)' <=> Settled(k))
  BY DEF Settled, Busy

\* A timer is started or stopped.
LEMMA EdgeQuiet ==
    ASSUME Inv, KeyPressed \/ KeyReleased
    PROVE  TimerQuiet'
<1> USE Actors
<1>1. /\ Basic /\ FuriTimerTypeOK /\ Key \in Keys /\ Key' = Key
      /\ state' = state /\ ipc = "timer"
  BY KeyIsKey DEF Inv, Basic, TypeOK, KeyPressed, KeyReleased, Key, pinVars
<1>2. PICK type \in {"Start", "Stop"} :
         /\ commands' = Append(commands, <<type, Key>>)
         /\ UNCHANGED <<running, daemon>>
         /\ type = "Start" => Key \in state /\ ipc' = "edge"
         /\ type = "Stop" => Key \notin state /\ ipc' = "stop"
  BY DEF KeyPressed, KeyReleased, furi_timer_start, furi_timer_stop, SendCommand
<1>3. <<type, Key>> \in Commands
  BY <1>1 DEF Commands
<1>4. event'[TimerTask] = event[TimerTask]
  <2>1. CASE KeyPressed
    BY <1>1, <2>1, PublishCalled DEF KeyPressed, InputType
  <2>2. CASE KeyReleased
    BY <2>2 DEF KeyReleased
  <2>3. QED
    BY <2>1, <2>2
<1>5. ASSUME NEW k \in Keys, Settled(k)' PROVE Quiet(k)'
  <2>1. k # Key
    BY <1>1, <1>2, <1>5 DEF Settled, Busy
  <2>2. Quiet(k)
    BY <1>1, <1>5, <2>1, OtherSettled DEF Inv, TimerQuiet
  <2>3. <<type, Key>> # <<"Start", k>>
    BY <2>1
  <2>4. Stopping(k)'
    BY <1>1, <1>2, <1>3, <2>2, <2>3, StoppingSend DEF Quiet
  <2>5. QED
    BY <1>2, <1>4, <2>2, <2>4 DEF Quiet
<1>6. ipc' = "stop" => Stopping(Key)'
  <2> SUFFICES ASSUME ipc' = "stop" PROVE Stopping(Key)'
    OBVIOUS
  <2>1. PICK k \in Keys : k = Key
    BY <1>1
  <2>2. <<type, Key>> = <<"Stop", k>>
    BY <1>2, <2>1
  <2>3. Stopping(k)'
    BY <1>1, <1>2, <1>3, <2>2, StoppingSend
  <2>4. k = Key'
    BY <1>1, <2>1
  <2>5. QED
    BY <2>3, <2>4 DEF Stopping
<1>7. QED
  BY <1>5, <1>6 DEF TimerQuiet

\* The input thread has seen that the timer does not run: it is settled.
LEMMA EndQuiet ==
    ASSUME Inv, TimerStopped \/ ShortPublished
    PROVE  TimerQuiet'
<1> USE Actors
<1>1. /\ Basic /\ Key' = Key /\ state' = state /\ Key \notin state
      /\ UNCHANGED <<running, commands, daemon>>
      /\ event'[TimerTask] = event[TimerTask] /\ ipc' \in {"short", "edge"}
      /\ \/ ipc = "stop" /\ Key \notin running
         \/ ipc = "short"
  BY EndBasic DEF Inv, TimerStopped, ShortPublished, furi_timer_is_running,
                  furiTimerVars
<1>2. Quiet(Key)
  <2>1. CASE ipc = "stop" /\ Key \notin running
    <3>1. event[TimerTask] # None => event[TimerTask].key # Key
      BY <1>1, <2>1 DEF Basic, TaskEvent
    <3>2. QED
      BY <2>1, <3>1 DEF Inv, TimerQuiet, Quiet
  <2>2. CASE ipc = "short"
    BY <1>1, <2>2, KeyIsKey DEF Inv, TimerQuiet, Settled, Busy, Basic, TypeOK
  <2>3. QED
    BY <1>1, <2>1, <2>2
<1>3. ASSUME NEW k \in Keys, Settled(k)' PROVE Quiet(k)'
  <2>1. Quiet(k)
    BY <1>1, <1>2, <1>3, OtherSettled DEF Inv, TimerQuiet
  <2>2. QED
    BY <1>1, <2>1 DEF Quiet, Stopping
<1>4. QED
  BY <1>1, <1>3 DEF TimerQuiet

LEMMA NextKeeps == Inv /\ [Next]_vars => Inv'
<1> SUFFICES ASSUME Inv, [Next]_vars PROVE Inv'
  OBVIOUS
<1> USE Actors
<1>1. Basic
  BY DEF Inv
<1>2. CASE ReadPin
  <2>1. /\ Basic' /\ ipc = "read" /\ ipc' \notin {"stop", "short", "edge"}
        /\ \/ state' = state /\ ipc' # "timer"
           \/ /\ ipc' = "timer" /\ Key' = Key
              /\ Key \in state' <=> Key \notin state
              /\ \A k \in Keys \ {Key} : k \in state' <=> k \in state
        /\ UNCHANGED <<furiTimerVars, event>>
    BY <1>1, <1>2, ReadBasic DEF ReadPin
  <2>2. \A k \in Keys : Settled(k)' => Settled(k)
    BY <2>1 DEF Settled, Busy
  <2>3. QED
    BY <2>1, <2>2, QuietKept DEF Inv
<1>3. CASE KeyPressed \/ KeyReleased
  BY <1>1, <1>3, PressBasic, ReleaseBasic, EdgeQuiet DEF Inv
<1>4. CASE TimerStopped \/ ShortPublished
  BY <1>4, EndBasic, EndQuiet DEF Inv
<1>5. CASE EdgePublished \/ NextRound
  <2>1. /\ Basic' /\ ipc' \in {"read", "sleep", "wait"}
        /\ ipc \in {"edge", "sleep", "wait"}
        /\ UNCHANGED <<state, furiTimerVars, event>>
    BY <1>1, <1>5, EdgeBasic DEF EdgePublished, NextRound, pinVars
  <2>2. \A k \in Keys : Settled(k)' => Settled(k)
    BY <2>1 DEF Settled, Busy
  <2>3. QED
    BY <2>1, <2>2, QuietKept DEF Inv
<1>6. CASE RunTimerTask \/ \E k \in Keys : TimerCallback(k)
  BY <1>1, <1>6, TaskBasic, CallbackBasic, TaskQuiet DEF Inv
<1>7. ASSUME Basic', UNCHANGED keyVars,
             event'[TimerTask] \in {event[TimerTask], None}
      PROVE  Inv'
  <2>1. UNCHANGED <<state, ipc, Key, furiTimerVars>>
    BY <1>7 DEF keyVars, Key
  <2>2. \A k \in Keys : Settled(k)' => Settled(k)
    BY <2>1 DEF Settled, Busy
  <2>3. QED
    BY <1>7, <2>1, <2>2, QuietKept DEF Inv
<1>8. CASE \E p \in Publishers : AcquireMutex(p)
  BY <1>1, <1>7, <1>8, AcquireBasic
<1>9. CASE Other
  BY <1>1, <1>7, <1>9, OtherBasic
<1>10. QED
  BY <1>2, <1>3, <1>4, <1>5, <1>6, <1>8, <1>9 DEF Next, RunInput, Other

\* Every variable of the input service keeps its type, for any keys, debounce
\* time and queue lengths.
THEOREM TypeCorrect == Spec => []TypeOK
<1>1. Inv => TypeOK
  BY DEF Inv, Basic
<1>2. QED
  BY InputInit, NextKeeps, <1>1, PTL DEF Spec

\* press_counter of a key whose press ends has one writer, the input thread,
\* although its timer may not even have been started when it is stopped.
THEOREM OneWriter == Spec => []CounterHasOneWriter
<1>1. Inv => CounterHasOneWriter
  <2> SUFFICES ASSUME Inv, ipc = "short" \/ (ipc = "edge" /\ Key \notin state)
               PROVE  /\ event[TimerTask] # None => event[TimerTask].key # Key
                      /\ Key \in running => /\ daemon = "commands"
                                            /\ <<"Stop", Key>> \in ToSet(commands)
                      /\ \A i \in DOMAIN commands :
                            commands[i] = <<"Start", Key>> =>
                               \E j \in i + 1 .. Len(commands) :
                                  commands[j] = <<"Stop", Key>>
    BY DEF CounterHasOneWriter
  <2>1. Key \in Keys /\ Key \notin state
    BY KeyIsKey DEF Inv, Basic, TypeOK, ThreadEvent
  <2>2. Quiet(Key)
    BY <2>1 DEF Settled, Busy, Inv, TimerQuiet
  <2>3. QED
    BY <2>2 DEF Quiet, Stopping
<1>2. QED
  BY InputInit, NextKeeps, <1>1, PTL DEF Spec
-----------------------------------------------------------------------------
(* The order of the events.                                                *)

LEMMA OrderInit == Init => OrderInv
<1> SUFFICES ASSUME Init PROVE OrderInv
  OBVIOUS
<1> USE Actors
<1>1. Inv
  BY InputInit
<1>2. ASSUME NEW k \in Keys PROVE LastEvent(k)
  <2>1. /\ k \in state <=> k \in level
        /\ ~ Busy(k) /\ press_counter[k] = 0
        /\ publishing[InputSrv] = "no" /\ publishing[TimerTask] = "no"
        /\ last[k] = IF k \in level THEN "Press" ELSE "Release"
    BY DEF Init, PubSubInit, Busy
  <2>2. QED
    BY <2>1 DEF LastEvent, Settled, Reporting, Held, PressPending, LongPending,
                LongPressCounts
<1>3. QED
  BY <1>1, <1>2 DEF OrderInv

\* Steps that concern k in nothing but, perhaps, the place of the input thread.
LEMMA LastKept ==
    ASSUME NEW k \in Keys, LastEvent(k),
           k \in state' <=> k \in state, Settled(k)' <=> Settled(k),
           \/ ~ Busy(k) /\ ~ Busy(k)'
           \/ /\ Busy(k) /\ Busy(k)' /\ ipc' = ipc
              /\ publishing'[InputSrv] = "acquire" <=>
                    publishing[InputSrv] = "acquire",
           press_counter'[k] = press_counter[k], last'[k] = last[k],
           LongPending(k)' <=> LongPending(k)
    PROVE  LastEvent(k)'
<1>1. PressPending(k)' <=> PressPending(k)
  BY DEF PressPending
<1>2. Held(k)' <=> Held(k)
  BY <1>1 DEF Held
<1>3. Reporting(k)' <=> Reporting(k)
  BY DEF Reporting
<1>4. QED
  BY <1>2, <1>3 DEF LastEvent

\* An expired timer counts and may publish Long or Repeat.
LEMMA CallbackOrder ==
    ASSUME OrderInv, NEW k \in Keys, TimerCallback(k), NEW j \in Keys
    PROVE  LastEvent(j)'
<1> USE Actors
<1>1. /\ k \in running /\ daemon = "top"
      /\ event[TimerTask] = None /\ publishing[TimerTask] = "no"
      /\ publishing'[InputSrv] = publishing[InputSrv]
      /\ \A h \in Keys \ {k} : press_counter'[h] = press_counter[h]
      /\ \/ /\ press_counter'[k] < LongPressCounts
            /\ press_counter[k] < LongPressCounts
            /\ event' = event
         \/ /\ press_counter'[k] = LongPressCounts
            /\ event'[TimerTask] = Event(k,
                  IF press_counter[k] < LongPressCounts THEN "Long"
                                                        ELSE "Repeat")
            /\ publishing'[TimerTask] = "acquire"
  BY CallbackBasic DEF OrderInv, Inv
<1>2. UNCHANGED <<state, ipc, Key, last>>
  BY DEF TimerCallback, threadVars, Key
<1>3. \A h \in Keys : /\ Settled(h)' <=> Settled(h)
                      /\ Busy(h)' <=> Busy(h)
  BY <1>2 DEF Settled, Busy
<1>4. \A h \in Keys : ~ LongPending(h)
  BY <1>1 DEF LongPending
<1>5. CASE j # k
  <2>1. ~ LongPending(j)'
    <3>1. CASE event' = event
      BY <1>1, <3>1 DEF LongPending, InputType
    <3>2. CASE \E t : event'[TimerTask] = Event(k, t)
      BY <1>5, <3>2 DEF LongPending, Event
    <3>3. QED
      BY <1>1, <3>1, <3>2
  <2>2. QED
    BY <1>1, <1>2, <1>3, <1>4, <1>5, <2>1, LastKept DEF OrderInv
<1>6. CASE j = k
  <2>1. ~ Settled(k)
    BY <1>1 DEF OrderInv, Inv, TimerQuiet, Quiet
  <2>2. Held(k) /\ (PressPending(k)' <=> PressPending(k))
    BY <1>1, <1>2, <1>3, <2>1 DEF OrderInv, LastEvent, PressPending
  <2>3. Held(k)'
    <3>1. CASE press_counter[k] < LongPressCounts
      <4>1. last[k] = IF PressPending(k) THEN "Release" ELSE "Press"
        BY <2>2, <3>1 DEF Held
      <4>2. press_counter'[k] < LongPressCounts \/ LongPending(k)'
        BY <1>1, <3>1 DEF LongPending
      <4>3. QED
        BY <1>2, <2>2, <4>1, <4>2 DEF Held
    <3>2. CASE ~ press_counter[k] < LongPressCounts
      <4>1. last[k] \in {"Long", "Repeat"} /\ ~ PressPending(k)
        BY <1>4, <2>2, <3>2 DEF Held
      <4>2. /\ event'[TimerTask] = Event(k, "Repeat")
            /\ press_counter'[k] = LongPressCounts
        BY <1>1, <3>2
      <4>3. ~ LongPending(k)' /\ ~ press_counter'[k] < LongPressCounts
        BY <4>2 DEF LongPending, Event, LongPressCounts
      <4>4. QED
        BY <1>2, <2>2, <4>1, <4>3 DEF Held
    <3>3. QED
      BY <3>1, <3>2
  <2>4. ~ Settled(k)' /\ ~ (Busy(k)' /\ ipc' = "short")
    BY <1>2, <1>3, <2>1 DEF Settled, Busy, OrderInv, Inv, Basic, ThreadEvent
  <2>5. ~ (Busy(k)' /\ ipc' = "edge" /\ k \notin state')
    BY <2>4 DEF Settled
  <2>6. QED
    BY <1>6, <2>3, <2>4, <2>5 DEF LastEvent
<1>7. QED
  BY <1>5, <1>6

\* Steps of the input thread that publish nothing.
LEMMA ThreadOrder ==
    ASSUME OrderInv, ReadPin \/ KeyReleased \/ EdgePublished \/ NextRound,
           NEW k \in Keys
    PROVE  LastEvent(k)'
<1> USE Actors
<1>1. Basic /\ LastEvent(k)
  BY DEF OrderInv, Inv
<1>2. UNCHANGED <<event, publishing, press_counter, last>>
  BY DEF ReadPin, KeyReleased, EdgePublished, NextRound, pinVars, pubsubVars
<1>3. LongPending(k)' <=> LongPending(k)
  BY <1>2 DEF LongPending
<1>4. CASE ReadPin
  <2>1. /\ ipc = "read" /\ ipc' \notin {"stop", "short", "edge"}
        /\ \/ state' = state /\ ipc' # "timer"
           \/ /\ ipc' = "timer" /\ Key' = Key
              /\ Key \in state' <=> Key \notin state
              /\ \A j \in Keys \ {Key} : j \in state' <=> j \in state
    BY <1>1, <1>4, ReadBasic
  <2>2. CASE Busy(k)'
    <3>1. /\ k = Key /\ ipc' = "timer" /\ ~ Busy(k)
          /\ k \in state' <=> k \notin state
      BY <2>1, <2>2 DEF Busy
    <3>2. ~ PressPending(k) /\ ~ PressPending(k)'
      BY <2>1 DEF PressPending
    <3>3. Held(k)' <=> Held(k)
      BY <1>2, <1>3, <3>2 DEF Held
    <3>4. Settled(k)' <=> Settled(k)
      BY <2>2, <3>1 DEF Settled
    <3>5. ~ Reporting(k) /\ ~ Reporting(k)'
      BY <2>1 DEF Reporting
    <3>6. QED
      BY <1>1, <1>2, <2>1, <3>3, <3>4, <3>5 DEF LastEvent
  <2>3. CASE ~ Busy(k)'
    <3>1. ~ Busy(k) /\ (k \in state' <=> k \in state)
      BY <2>1, <2>3 DEF Busy
    <3>2. Settled(k)' <=> Settled(k)
      BY <2>3, <3>1 DEF Settled
    <3>3. QED
      BY <1>1, <1>2, <1>3, <2>3, <3>1, <3>2, LastKept
  <2>4. QED
    BY <2>2, <2>3
<1>5. CASE KeyReleased
  <2>1. /\ ipc = "timer" /\ ipc' = "stop" /\ Key' = Key /\ state' = state
        /\ Key \notin state
    BY <1>5 DEF KeyReleased, pinVars, Key
  <2>2. Settled(k)' <=> Settled(k)
    BY <2>1 DEF Settled, Busy
  <2>3. ~ PressPending(k) /\ ~ PressPending(k)'
    BY <2>1 DEF PressPending
  <2>4. Held(k)' <=> Held(k)
    BY <1>2, <1>3, <2>3 DEF Held
  <2>5. ~ Reporting(k) /\ ~ Reporting(k)'
    BY <2>1 DEF Reporting
  <2>6. QED
    BY <1>1, <1>2, <2>1, <2>2, <2>4, <2>5 DEF LastEvent
<1>6. CASE EdgePublished \/ NextRound
  <2>1. /\ ipc' \in {"read", "sleep", "wait"} /\ ipc \in {"edge", "sleep", "wait"}
        /\ ipc = "edge" => publishing[InputSrv] = "no"
        /\ state' = state
    BY <1>1, <1>6, EdgeBasic DEF EdgePublished, NextRound, pinVars
  <2>2. ~ Busy(k)' /\ (Settled(k)' <=> Settled(k))
    BY <2>1 DEF Settled, Busy
  <2>3. ~ PressPending(k) /\ ~ PressPending(k)'
    BY <2>1 DEF PressPending
  <2>4. Held(k)' <=> Held(k)
    BY <1>2, <1>3, <2>3 DEF Held
  <2>5. Settled(k) => press_counter[k] = 0 /\ last[k] = "Release"
    <3>1. CASE Busy(k)
      BY <1>1, <2>1, <3>1 DEF LastEvent, Settled, Busy
    <3>2. CASE ~ Busy(k)
      BY <1>1, <3>2 DEF LastEvent, Reporting
    <3>3. QED
      BY <3>1, <3>2
  <2>6. QED
    BY <1>1, <1>2, <2>2, <2>4, <2>5 DEF LastEvent
<1>7. QED
  BY <1>4, <1>5, <1>6

\* Steps of the input thread that publish.
LEMMA PublishOrder ==
    ASSUME OrderInv, KeyPressed \/ TimerStopped \/ ShortPublished,
           NEW k \in Keys
    PROVE  LastEvent(k)'
<1> USE Actors
<1>1. Basic /\ LastEvent(k) /\ (k = Key => LastEvent(Key))
  BY DEF OrderInv, Inv
<1>2. /\ UNCHANGED <<last, state, Key>> /\ ipc' \in {"short", "edge"}
      /\ ipc \in {"timer", "stop", "short"}
  BY DEF KeyPressed, TimerStopped, ShortPublished, pinVars, Key
<1>3. /\ publishing'[InputSrv] = "acquire"
      /\ publishing'[TimerTask] = publishing[TimerTask]
      /\ event'[TimerTask] = event[TimerTask]
      /\ \A j \in Keys \ {Key} : press_counter'[j] = press_counter[j]
  <2>1. CASE KeyPressed
    <3>1. press_counter' = press_counter /\ Key \in Keys
      BY <1>1, <2>1, KeyIsKey DEF KeyPressed, pinVars, Basic, TypeOK
    <3>2. QED
      BY <1>1, <2>1, <3>1, PublishCalled DEF KeyPressed, InputType
  <2>2. CASE TimerStopped \/ ShortPublished
    BY <2>2, EndBasic DEF OrderInv
  <2>3. QED
    BY <2>1, <2>2
<1>4. \A j \in Keys : LongPending(j)' <=> LongPending(j)
  BY <1>3 DEF LongPending
<1>5. CASE k # Key
  <2>1. ~ Busy(k) /\ ~ Busy(k)' /\ (Settled(k)' <=> Settled(k))
    BY <1>2, <1>5 DEF Busy, Settled
  <2>2. QED
    BY <1>1, <1>2, <1>3, <1>4, <1>5, <2>1, LastKept
<1>6. CASE k = Key /\ KeyPressed
  <2>1. ipc = "timer" /\ k \in state /\ ipc' = "edge" /\ UNCHANGED press_counter
    BY <1>6 DEF KeyPressed, pinVars
  <2>2. press_counter[k] = 0 /\ last[k] = "Release"
    BY <1>1, <1>6, <2>1 DEF LastEvent, Settled, Busy, Reporting
  <2>3. ~ Settled(k)' /\ PressPending(k)'
    BY <1>2, <1>3, <1>6, <2>1 DEF Settled, Busy, PressPending
  <2>4. Held(k)'
    BY <1>2, <2>1, <2>2, <2>3 DEF Held, LongPressCounts
  <2>5. QED
    BY <1>2, <2>1, <2>3, <2>4 DEF LastEvent
<1>7. CASE k = Key /\ (TimerStopped \/ ShortPublished)
  <2>1. /\ k \notin state /\ publishing[InputSrv] = "no"
        /\ \/ /\ ipc' = "short" /\ ipc = "stop"
              /\ press_counter[k] < LongPressCounts
           \/ /\ ipc' = "edge" /\ press_counter'[k] = 0
              /\ ipc = "stop" => press_counter[k] >= LongPressCounts
    BY <1>7, EndBasic DEF OrderInv
  <2>2. Settled(k)' /\ Reporting(k)'
    BY <1>2, <1>7, <2>1 DEF Settled, Busy, Reporting
  <2>3. CASE ipc = "stop"
    <3>1. k \notin running
      BY <1>7, <2>3 DEF TimerStopped, ShortPublished, furi_timer_is_running
    <3>2. ~ LongPending(k)
      <4>1. Event(k, "Long") # None /\ Event(k, "Long").key = k
        BY DEF InputType, Event
      <4>2. QED
        BY <1>1, <3>1, <4>1 DEF LongPending, Basic, TaskEvent
    <3>3. Held(k) /\ ~ PressPending(k)
      BY <1>1, <1>7, <2>1, <2>3 DEF LastEvent, Settled, Busy, PressPending
    <3>4. CASE press_counter[k] < LongPressCounts /\ ipc' = "short"
      <4>1. last[k] = "Press"
        BY <3>3, <3>4 DEF Held
      <4>2. QED
        BY <1>2, <1>3, <2>2, <3>4, <4>1 DEF LastEvent
    <3>5. CASE /\ press_counter[k] >= LongPressCounts /\ ipc' = "edge"
               /\ press_counter'[k] = 0
      <4>1. ~ press_counter[k] < LongPressCounts
        BY <1>1, <3>5 DEF Basic, TypeOK, PinTypeOK, LongPressCounts
      <4>2. last[k] \in {"Long", "Repeat"}
        BY <3>2, <3>3, <4>1 DEF Held
      <4>3. QED
        BY <1>2, <1>3, <2>2, <3>5, <4>2 DEF LastEvent
    <3>6. QED
      BY <2>1, <2>3, <3>4, <3>5
  <2>4. CASE ipc = "short"
    <3>1. last[k] = "Short" /\ ipc' = "edge" /\ press_counter'[k] = 0
      BY <1>1, <1>7, <2>1, <2>4 DEF LastEvent, Busy
    <3>2. QED
      BY <1>2, <1>3, <2>2, <3>1 DEF LastEvent
  <2>5. QED
    BY <1>2, <1>7, <2>3, <2>4 DEF TimerStopped, ShortPublished
<1>8. QED
  BY <1>5, <1>6, <1>7

\* What KeySequence lets follow.
LEMMA Follows ==
    /\ Sequence!Following("Release") = {"Press"}
    /\ Sequence!Following("Press") = {"Short", "Long"}
    /\ Sequence!Following("Short") = {"Release"}
    /\ Sequence!Following("Long") = {"Repeat", "Release"}
    /\ Sequence!Following("Repeat") = {"Repeat", "Release"}
  BY DEF Sequence!Following

\* An event becomes the last one of its key.  The timer task does not overtake
\* an input thread that waits with a Press.
LEMMA AcquireOrder ==
    ASSUME OrderInv, ~ TimerElevated, NEW p \in Publishers, AcquireMutex(p)
    PROVE  /\ \A k \in Keys : LastEvent(k)'
           /\ [Sequence!Next]_last
<1> USE Actors
<1>1. /\ Basic /\ UNCHANGED <<state, ipc, Key, press_counter, event>>
      /\ publishing[p] = "acquire" /\ publishing'[p] = "call"
      /\ \A q \in Publishers \ {p} : publishing'[q] = publishing[q]
      /\ p # Cli => event[p] # None /\ event[p].key \in Keys
                    /\ event[p].type \in InputType
      /\ last \in [Keys -> InputType]
  BY AcquireBasic DEF OrderInv, Inv, keyVars, Key, Basic, TypeOK, EventTypeOK
<1>2. \A k \in Keys : /\ Busy(k)' <=> Busy(k)
                      /\ Settled(k)' <=> Settled(k)
  BY <1>1 DEF Busy, Settled
<1>3. ASSUME NEW k \in Keys, last'[k] = last[k], LongPending(k)' <=> LongPending(k),
             p = InputSrv => ~ Busy(k)
      PROVE  LastEvent(k)'
  BY <1>1, <1>2, <1>3, LastKept DEF OrderInv
<1>4. CASE p = Cli
  <2>1. last' = last
    BY <1>4 DEF AcquireMutex
  <2>2. \A k \in Keys : LongPending(k)' <=> LongPending(k)
    BY <1>1, <1>4 DEF LongPending
  <2>3. QED
    BY <1>3, <1>4, <2>1, <2>2
<1>5. CASE p # Cli
  <2>0. PICK k \in Keys, t \in InputType : event[p].key = k /\ event[p].type = t
    BY <1>1, <1>5
  <2>1. /\ k \in Keys /\ t \in InputType
        /\ last'[k] = t /\ \A j \in Keys \ {k} : last'[j] = last[j]
        /\ last' = [last EXCEPT ![k] = t]
    BY <1>1, <1>5, <2>0 DEF AcquireMutex
  <2>2. LastEvent(k)
    BY <2>1 DEF OrderInv
  <2>3. t \in Sequence!Following(last[k]) => [Sequence!Next]_last
    BY <2>1 DEF Sequence!Next, Sequence!Publish, InputType, Sequence!InputType
  <2>4. CASE p = InputSrv
    <3>1. /\ k = Key /\ ipc \in {"short", "edge"}
          /\ ipc = "short" => t = "Short" /\ Key \notin state
          /\ ipc = "edge" => t = IF Key \in state THEN "Press" ELSE "Release"
      BY <1>1, <1>5, <2>0, <2>4 DEF Basic, ThreadEvent, Event
    <3>2. \A j \in Keys : LongPending(j)' <=> LongPending(j)
      BY <1>1, <2>4 DEF LongPending
    <3>3. \A j \in Keys \ {k} : LastEvent(j)'
      BY <1>3, <2>1, <3>1, <3>2 DEF Busy
    <3>4. Busy(k) /\ Reporting(k) /\ (Settled(k) <=> k \notin state)
      BY <3>1 DEF Busy, Reporting, Settled
    <3>5. Busy(k)' /\ Reporting(k)' /\ (Settled(k)' <=> k \notin state')
      BY <1>1, <3>1 DEF Busy, Reporting, Settled
    <3>6. publishing[InputSrv] = "acquire" /\ publishing'[InputSrv] = "call"
      BY <1>1, <2>4
    <3>7. CASE ipc = "short"
      <4>1. last[k] = "Press"
        BY <2>2, <3>4, <3>6, <3>7 DEF LastEvent
      <4>2. LastEvent(k)'
        BY <1>1, <2>1, <3>1, <3>5, <3>6, <3>7 DEF LastEvent
      <4>3. QED
        BY <2>3, <3>1, <3>3, <3>7, <4>1, <4>2, Follows
    <3>8. CASE ipc = "edge" /\ k \notin state
      <4>1. last[k] \in {"Short", "Long", "Repeat"} /\ press_counter[k] = 0
        BY <2>2, <3>4, <3>6, <3>8 DEF LastEvent
      <4>2. t = "Release"
        BY <3>1, <3>8
      <4>3. LastEvent(k)'
        BY <1>1, <2>1, <3>5, <3>6, <3>8, <4>1, <4>2 DEF LastEvent
      <4>4. QED
        BY <2>3, <3>3, <4>1, <4>2, <4>3, Follows
    <3>9. CASE ipc = "edge" /\ k \in state
      <4>1. Held(k) /\ PressPending(k) /\ ~ PressPending(k)'
        BY <1>1, <2>2, <3>4, <3>6, <3>9 DEF LastEvent, PressPending
      <4>2. /\ last[k] = "Release" /\ t = "Press"
            /\ press_counter[k] < LongPressCounts \/ LongPending(k)
        BY <3>1, <3>9, <4>1 DEF Held
      <4>3. Held(k)'
        BY <1>1, <2>1, <3>2, <4>1, <4>2 DEF Held
      <4>4. LastEvent(k)'
        BY <1>1, <3>5, <3>9, <4>3 DEF LastEvent
      <4>5. QED
        BY <2>3, <3>3, <4>2, <4>4, Follows
    <3>10. QED
      BY <3>1, <3>7, <3>8, <3>9
  <2>5. CASE p = TimerTask
    <3>1. /\ k \in running /\ press_counter[k] = LongPressCounts
          /\ t \in {"Long", "Repeat"} /\ event[TimerTask] = Event(k, t)
          /\ publishing[InputSrv] # "acquire"
          /\ publishing'[InputSrv] # "acquire"
      <4>1. /\ event[TimerTask] # None /\ event[TimerTask] \in Events
        BY <1>1, <1>5, <2>5 DEF Basic, TypeOK, EventTypeOK
      <4>2. event[TimerTask] = Event(k, t)
        BY <2>0, <2>5, <4>1 DEF Events, Event
      <4>3. publishing[InputSrv] # "acquire"
        BY <2>5 DEF AcquireMutex, MayAcquire
      <4>4. publishing'[InputSrv] = publishing[InputSrv]
        BY <1>1, <2>5
      <4>5. QED
        BY <1>1, <2>0, <2>5, <4>1, <4>2, <4>3, <4>4 DEF Basic, TaskEvent
    <3>2. \A j \in Keys \ {k} : ~ LongPending(j) /\ ~ LongPending(j)'
      BY <1>1, <3>1 DEF LongPending, Event
    <3>3. \A j \in Keys \ {k} : LastEvent(j)'
      BY <1>3, <2>1, <2>5, <3>2
    <3>4. ~ Settled(k)
      BY <1>1, <1>5, <2>0, <2>5 DEF OrderInv, Inv, TimerQuiet, Quiet
    <3>5. Held(k) /\ ~ PressPending(k) /\ ~ PressPending(k)'
      BY <2>2, <3>1, <3>4 DEF LastEvent, PressPending
    <3>6. ~ LongPending(k)' /\ ~ press_counter[k] < LongPressCounts
      BY <1>1, <2>5, <3>1 DEF LongPending, LongPressCounts
    <3>7. Held(k)'
      BY <1>1, <2>1, <3>1, <3>5, <3>6 DEF Held
    <3>8. ~ Settled(k)' /\ ~ (Busy(k)' /\ ipc' = "short")
      BY <1>1, <1>2, <2>1, <3>4 DEF Settled, Busy, Basic, ThreadEvent
    <3>9. LastEvent(k)'
      BY <3>7, <3>8 DEF LastEvent, Settled
    <3>10. t \in Sequence!Following(last[k])
      <4>1. CASE t = "Long"
        <5>1. LongPending(k)
          BY <1>1, <2>5, <3>1, <4>1 DEF LongPending
        <5>2. last[k] = "Press"
          BY <3>5, <5>1 DEF Held
        <5>3. QED
          BY <4>1, <5>2, Follows
      <4>2. CASE t = "Repeat"
        <5>1. ~ LongPending(k)
          BY <3>1, <4>2 DEF LongPending, Event
        <5>2. last[k] \in {"Long", "Repeat"}
          BY <3>5, <3>6, <5>1 DEF Held
        <5>3. QED
          BY <4>2, <5>2, Follows
      <4>3. QED
        BY <3>1, <4>1, <4>2
    <3>11. QED
      BY <2>3, <3>3, <3>9, <3>10
  <2>6. QED
    BY <1>5, <2>4, <2>5
<1>6. QED
  BY <1>4, <1>5

LEMMA OtherOrder ==
    ASSUME OrderInv, Other \/ RunTimerTask, NEW k \in Keys
    PROVE  LastEvent(k)'
<1> USE Actors
<1>1. /\ UNCHANGED <<state, press_counter, ipc, Key, last>>
      /\ \A p \in {InputSrv, TimerTask} :
            /\ publishing'[p] = "acquire" <=> publishing[p] = "acquire"
            /\ publishing[p] = "acquire" => event'[p] = event[p]
  <2>1. CASE Other
    BY <2>1, OtherBasic DEF OrderInv, Inv, keyVars, Key
  <2>2. CASE RunTimerTask
    BY <2>2 DEF RunTimerTask, pinVars, threadVars, pubsubVars, Key
  <2>3. QED
    BY <2>1, <2>2
<1>2. /\ Busy(k)' <=> Busy(k)
      /\ Settled(k)' <=> Settled(k)
      /\ LongPending(k)' <=> LongPending(k)
  BY <1>1 DEF Busy, Settled, LongPending
<1>3. QED
  BY <1>1, <1>2, LastKept DEF OrderInv

LEMMA NextOrder ==
    ASSUME ~ TimerElevated, OrderInv, [Next]_vars
    PROVE  OrderInv' /\ [Sequence!Next]_last
<1>1. Inv'
  BY NextKeeps DEF OrderInv
<1>2. CASE \E p \in Publishers : AcquireMutex(p)
  BY <1>1, <1>2, AcquireOrder DEF OrderInv
<1>3. CASE RunInput \/ RunTimerTask \/ Other
           \/ \E k \in Keys : TimerCallback(k)
  <2>1. \A k \in Keys : LastEvent(k)'
    BY <1>3, ThreadOrder, PublishOrder, CallbackOrder, OtherOrder DEF RunInput
  <2>2. last' = last
    <3>1. CASE Other
      BY <3>1, OtherBasic DEF OrderInv, Inv
    <3>2. CASE RunInput
      BY <3>2 DEF RunInput, ReadPin, KeyPressed, KeyReleased, TimerStopped,
                  ShortPublished, EdgePublished, NextRound
    <3>3. CASE RunTimerTask \/ \E k \in Keys : TimerCallback(k)
      BY <3>3 DEF RunTimerTask, TimerCallback
    <3>4. QED
      BY <1>3, <3>1, <3>2, <3>3
  <2>3. QED
    BY <1>1, <2>1, <2>2 DEF OrderInv
<1>4. QED
  BY <1>2, <1>3 DEF Next, Other

\* The input service implements KeySequence for any keys, if the timer task
\* does not get the mutex before an input thread that waits for it with a
\* Press: its priority is the lower one.
THEOREM KeysStayInSequence == ~ TimerElevated => (Spec => KeysInSequence)
<1> SUFFICES ASSUME ~ TimerElevated PROVE Spec => KeysInSequence
  OBVIOUS
<1>1. Init => Sequence!Init
  BY DEF Init, Sequence!Init
<1>2. OrderInv /\ [Next]_vars => OrderInv' /\ [Sequence!Next]_last
  BY NextOrder
<1>3. QED
  BY OrderInit, <1>1, <1>2, PTL DEF Spec, KeysInSequence, Sequence!Spec
=============================================================================
