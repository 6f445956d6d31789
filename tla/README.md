# TLA+ models of the Flipper Zero firmware

This directory holds TLA+ specifications of the parts of the firmware that
decide whether it works when threads, interrupts and time interleave, the TLC
configurations that check them on small instances, and TLAPS proofs that hold
for every instance. Every definition is translated from the source; most have
the name of the C function they stand for. `PROJECT.json` maps definitions to
source lines, and lists runs, mutants, findings, hazards and theorems.

## 1. The system

The firmware is a set of threads on FreeRTOS. Services (GUI, input, storage,
loader, RPC, ...) are threads that never end; they meet through *records*
(`furi/core/record.c`), message queues and publish-subscribe objects. An
application is one more thread, started by the loader. Since most threads wait
for more than one thing, they run a `FuriEventLoop`.

| Component | State | Operations | Meets | What makes it correct |
|---|---|---|---|---|
| Event loop (`furi/core/event_loop.c`, `_tick.c`) | notification flags, waiting list of items, pending callbacks, tick | run, stop, subscribe, unsubscribe, pend, tick | queues notify it from any thread; it calls user callbacks | no event, request or stop is lost; nothing released is touched |
| Event loop timers (`event_loop_timer.c`) | request queue, ordered list of running timers | alloc, start, restart, stop, free | run by the loop | linked exactly when queued or active; never early, in order, silent after stop |
| Message queue (`message_queue.c`) | messages | put, get, reset | any thread, interrupts; notifies the loop | bounded; every change reaches the subscribed loop |
| Records (`record.c`) | data, ready flag, holders | create, open, close, destroy | all services | an open returns data that stays valid until the close |
| Publish-subscribe (`pubsub.c`) | subscriptions, mutex | subscribe, unsubscribe, publish | input, storage, power, bt, loader | no callback after unsubscribe; no lock-up through a callback that waits |
| Threads (`thread.c`) | state, flags, list of threads | alloc, start, join, free, flags, suspend | everything | join returns after the thread has ended; no flag is lost |
| Kernel timers (`timer.c`) | FreeRTOS timer, removal flag | alloc, start, stop, free | timer task, input | a stop is a request: who needs silence has to wait for it; free returns after the last callback |
| Heap (`memmgr_heap.c`) | free list, per-thread traces | malloc, free, realloc | everything | blocks disjoint, free list ordered, no memory lost |
| Input (`services/input`) | debounce and press counters, a timer per key | poll, timer callback; CLI `input dump`, `input send` | publishes to GUI and CLI from two threads | press, short or long and repeats, release in sequence; every lasting change reported |
| GUI service (`gui.c`, `view_port.c`) | input queue, flags, layers of view ports, keys held and who holds them, lockdown, direct draw | add, remove, raise, lower view ports; lock down; draw directly; redraw | input events in, callbacks of view ports out | the view port that saw a press sees the release; the screen is current |
| View dispatcher (`view_dispatcher.c`) | views, current view, keys held, queues | run, stop, add, remove, switch, custom events | GUI thread on one side, the application's event loop on the other | a view that saw a press sees the release; run returns |
| Scene manager (`scene_manager.c`) | scene stack | next, previous, search | view dispatcher | enter and exit of scenes alternate |
| Expansion (`services/expansion`) | state, worker, control queue | enable, disable, set serial, module connected or gone | serial interrupt, worker, RPC | one worker at a time; control never waits for ever |
| Serial control (`furi_hal_serial_control.c`) | handles in use, log interface, detection callback | acquire, release, set log, set callback | expansion, applications, log | an interface has one user; log and detection come back when it is released |
| Loader (`services/loader`) | running application, lock | start, lock, close | threads, GUI | one application at a time |
| RPC (`services/rpc`) | session, stream, handlers | open, feed, close | bt, CLI, expansion | close ends the session thread; bytes in order |
| Storage (`services/storage`) | open files, card status | message per call, tick | every application; events to subscribers | a path is open once, a File leads to its own entry; an open that waits is woken; open files keep the card mounted |
| Power, Bluetooth, Notification, Dolphin, Desktop | see sources | events and timers | each other | state follows the last event |

Hard behaviour: a single word of flags that stands for queues of things to do;
steps made of two critical sections; callbacks that call back into the loop;
requests executed later than they are made; a tick counter that wraps; waits
without a timeout between threads that wait for each other. `PROJECT.json`
lists them one by one under `hazards`.

## 2. Modules

| Module | Contents |
|---|---|
| `EventLoopTimer` | timers: state, request queue, list of running timers; one action fragment per function of `event_loop_timer.c` |
| `EventLoop` | the loop, its tick, message queues and the threads that use them; extends `EventLoopTimer`; specification, fairness, properties |
| `MCEventLoop` | symmetry for TLC |
| `SequenceLemmas` | what the list operators (append, pop, remove, insert, replace) do to contents and injectivity; least and greatest elements |
| `EventLoop_proofs` | the theorems about it |
| `EventLoopClock_proofs` | those about time: the order of the running timers and the wrapping tick counter |
| `SerialControl` | the serial control service: who has an interface, where the log goes, where modules are detected; action fragments |
| `Expansion` | the expansion service: clients, control thread, worker thread, interrupts, the worker's RPC session; extends `SerialControl`; specification, fairness, properties |
| `MCExpansion` | symmetry for TLC |
| `Expansion_proofs` | the theorems about the expansion service and serial control, for any number of clients |
| `ExpansionAlone_proofs` | those about what the service promises to a client that is alone |
| `PubSub` | a publish-subscribe object and its mutex; action fragments |
| `FuriTimer` | kernel timers and the timer task; action fragments |
| `KeySequence` | abstract: the order of the events of each key in which the GUI needs them |
| `Input` | the input service, the timer task and the CLI commands; extends `PubSub` and `FuriTimer`; implements `KeySequence` |
| `MCInput` | the keys for TLC |
| `Input_proofs` | the theorems about the input service, among them the refinement of `KeySequence` |
| `Gui` | the GUI service and its view ports; driven by the events `KeySequence` allows; action fragments |
| `ViewDispatcher` | the view dispatcher of an application on top of `Gui`; specification, properties |
| `MCViewDispatcher` | symmetry for TLC |
| `ViewDispatcher_proofs` | the theorems about GUI service and view dispatcher |
| `Storage` | the storage service and its clients; extends `PubSub`; specification, fairness, properties |
| `MCStorage` | an instance for TLC |
| `Storage_proofs` | the theorems about the storage service |

`KeySequence` is the seam between the services: `Input` is checked to implement it,
and `Gui` takes its key events from it, so that neither needs the other's state.

### EventLoop: correspondence with the code

*Loop's thread.* `pc` is the place in `furi_event_loop_run`:

| `pc` | code |
|---|---|
| `user` | outside `furi_event_loop_run` (state Stopped); user code may call anything |
| `top`, `wait` | computing `ticks_to_sleep`; inside `xTaskNotifyWaitIndexed` (state Idle) |
| `event`, `poll`, `item_cb` | Event branch: taking an item, reading its level, in its callback |
| `timer_q` | Timer branch: `furi_event_loop_process_timer_queue` |
| `pend`, `pend_cb` | Pending branch |
| `expire`, `timer_cb`, `tick_cb` | the wait timed out: expired timers, else tick |
| `free`, `freed` | in and after `furi_event_loop_free` |

`flags` is the notification value, `held` the local variable `flags` without the
bit being served. Each action is what happens between two points where another
thread, an interrupt or user code can act: `EnterWait`, `Wake` (with `ServeFlag`,
the if-else chain), `PopWaiting` (one critical section), polling, callbacks
returning, one request of the timer queue at a time, and so on. Giving flags back
(`NextRound`) is part of the action that ends a round, since only the loop's own
thread can take flags.

*Items and the waiting list.* `sub[q]` is the event a queue is subscribed for
(its item and the link to it), `waiting_list` the intrusive list. Unsubscribing
releases the item also when it is in the list; its place is then taken by
`Freed`, and an operation that writes that element sets `ub`. Nothing is said
about steps after that.

*Other threads and interrupts* put, get and reset; the change of the queue and
`furi_event_loop_link_notify` are separate steps, `owe[c]` being what caller `c`
has yet to notify. A put to a full queue and a get from an empty one are steps
that are not taken: the call waits or fails without effect. Messages are
counted; their contents matter to no property.

*User code* on the loop's thread is unconstrained outside the loop and in every
callback: any call of the API, in any order, subject to the `furi_check`s of the
code (a call whose check fails does not happen: the firmware reboots). An item
callback may serve its event any number of times and returns true only after it
has accessed the queue or found it empty; a callback that returns true and does
nothing makes the loop spin, which is user code not returning.

*Time.* `tick_count` wraps at `TickMod` (2^32 in the code). A timer is served at
most `MaxLate` ticks late (`TickTimers` stops time otherwise), so that intervals
plus lateness stay below `TickMod`, as `TimerAssumption` demands; with a longer
delay the code's modular arithmetic is ambiguous. `age`, a counter without
wrap-around, exists only in the model: properties compare the code's arithmetic
with it. Division by a zero interval yields 0, as on the Cortex-M4 with the trap
off.

*Not modelled of these files:* the getters `furi_event_loop_timer_get_interval`
and `_is_running`; allocation and release of message queues; the thread checks.

### Expansion: correspondence with the code

*Control thread.* `hpc` is the place in `expansion_control`: `get` (waiting for a
message), `handle` (a handler begins), `stop_join` (in `furi_thread_join` of
`expansion_worker_stop`), `free_join` (in that of `expansion_worker_free`, after
`rx_buf` has been released), `listen` (second half of
`expansion_control_handler_set_listen_serial`). A handler that waits for nothing
is one step: only the control thread writes `state`, `serial_id` and the worker
pointer.

*Worker thread.* `wpc`: `start`, `tx` (sending a frame), `recv` (in
`expansion_worker_receive_callback`; `part` is the part of the frame
`expansion_protocol_decode` is at, `got` whether this call has received some but
not all bytes), `handle`, `put_connected` and `put_exit` (in the callback, waiting
for room in the control thread's queue), `exit`, `dead`. `wflags` has the thread's
flags without Data, whose only effect is to end a wait early. Flags are noticed
only where the thread waits for bytes.

*Frames* are those the worker's handlers tell apart; `Invalid` has an unknown
type, `BadBaudRate` an unsupported rate. A checksum may always be wrong. Contents
of more than one byte may arrive in two parts (`SplitFrames`); more parts would
repeat the same step.

*RPC session.* `rpc_tx` is the place of the session's thread in
`expansion_worker_rpc_send_callback`. `rpc_session_close` (external) waits until
the callback has returned.

*Serial control.* A request is one step: its thread has the highest priority,
never waits while it handles one, and its callers wait for the answer. The
`furi_check`s on switching detection are guards of `DetectOn` and `DetectOff`;
that they hold follows from `DetectionFollowsState`.

*Clients* follow the two rules of `expansion.h`: an interface is acquired only
after `expansion_disable` has returned, and released before `expansion_enable`.
`expansion_on_system_start` makes the first call like any other client. The
settings application changes `uart_index` in place before it calls
`expansion_set_listen_serial`.

A worker that reads `rx_buf` after its release (`Corrupt`) ends the behaviour:
nothing can be said of what follows.

*Not modelled of these files:* baud rate switching, the power lock
(`furi_hal_power_insomnia_*`), logging, and of the serial control service
`suspend`, `resume`, `deinit` and `is_busy`.

### Input: correspondence with the code

*Thread of the service.* `ipc` is the place in `input_srv`, `pin` the pin it looks
at: `read` (the pin is read and debounced), `timer` (the state has changed; the
timer is started or told to stop), `stop` (in the loop that waits for the timer to
stop), `short` (publishing Short), `edge` (publishing Press or Release), `sleep`
(in `furi_delay_tick`), `wait` (in `furi_thread_flags_wait`). Waiting for the timer
and publishing are separate steps, because the timer task runs in between.

*Timer task.* `daemon` is the place in FreeRTOS's timer task: it looks for an
expired timer, runs its callback, then executes every command in its queue. Time is
left out: a running timer may expire whenever the task looks, which includes all
that can happen with real periods. What a period guarantees is one guard,
`MayAcquire`: between the start of a timer and the publication of its press the input
thread only waits for the mutex, which is far less than the two periods (300 ms)
after which the timer publishes, and it has the higher priority.

*Publishing.* `furi_pubsub_publish` is: waiting for the mutex, one callback after
the other, release. A callback that waits for room in its queue is a step that is
not taken. Each publisher (input thread, timer task, CLI) is at its own place in
`publishing`; `event` is what it publishes.

*Keys* bounce as they like (`PinChanges`); a key may be down at the start.

### GUI and view dispatcher: correspondence with the code

*GUI thread.* `gpc`: `wait` (for flags), `input` (taking events from the queue),
`deliver` (in a view port's input callback), `redraw` (about to clear the DRAW flag),
`draw` (in `gui_redraw`). Setting a flag and putting an event into the queue are
separate steps of the publisher. `gui->mutex` and the mutex of a view port are
held across steps only in `deliver`, by the GUI thread; everybody else's critical
section is one step, guarded by `Unlocked`. A rotation takes the mutex of the
dispatcher's view port alone (`PortUnlocked`).

*Application.* `dpc` is the place in `view_dispatcher_run` and after it: the loop,
the drain of input events, done, freed. `call` is the dispatcher's operation a
callback has called and that is still to be executed: it may have to wait for the
GUI's mutex while the GUI thread waits for room in the dispatcher's queue.

*Other threads* send custom events, add, remove, lower view ports of their own,
lock the device down and draw directly.

`holding` and `sacrificed` exist only in the model: what each view believes of the
keys, and whether a rotation has given up keys.

Left out: the status bar, framebuffer callbacks, sizes, the left-hand setting,
drawing itself, events made by software (`input send`, `gui_..._input`), attaching
the dispatcher, `send_to_back`, callbacks that make several calls.

### Storage: correspondence with the code

*Clients.* `cpc`: `idle`, `subscribed` (in `storage_file_open`, the event flag
allocated and subscribed), `answer` (waiting for the API lock), `answered`, `opened`.
An open whose answer is `ALREADY_OPEN` waits for its flag (`Waiting`) and is tried
again. A client has one File, opens paths on the card, and closes after every open,
also after a failed one, as `storage.h` demands; it may close a File it never
opened.

*Storage thread.* A message is executed in one step, except for the close, whose
event is published callback by callback before it is answered (`serving`, `event`).
A tick is one step and the publication of its event. In a tick the card may be pulled
out while it is mounted.

*Files.* `files` is `storage->files`; `id` is the address of the list node, which is
taken again after the node is freed, while the client's `file_id` keeps it.
`usable` says whether FatFs still accepts the file. What FatFs and the card answer is a
choice.

Left out: messages that leave the service's state alone (reading, writing,
directories, rename, remove), aliases, the internal and virtual storages.

## 3. Runs

The runs of the event loop use `MCEventLoop`, those named `expansion_*`
`MCExpansion`, the others the module of their name. Deadlock checking is off, except
in `input`: when the calls are used up, or the expansion service is disabled and nobody
calls, nothing has to happen; in `views` two lock-ups of the code stop it besides
(see the observations).

| Run | Instance | Checks |
|---|---|---|
| `queues` | 1 queue of 2 slots, 2 threads with 3 calls each, 5 calls of user code, the loop run twice, fairness | `NoMissedArrival`, `ArrivalProcessed`, `StopHonoured` |
| `timers` | 2 timers, intervals 1 and 2, counter modulo 5, service delayed by up to 1 tick, tick interval 1, pending callbacks, 4 calls, the loop run twice, fairness | `TypeOK`, `TimersLinked`, `FreeFindsNoTimer`, `PendedAfterCommands`, `FiresWhenDue`, `SilentAfterStop`, `CommandsExecuted`, `ExpiredTimerServed`, `TickServed` |
| `expansion_app` | 1 client that enables, disables, asks and uses the interface; 1 interface, the log on it or not, all frames, each in one part, queue of 4, 1 detection, fairness | `DetectionFollowsState`, `SessionInsideWorker`, `LogFollowsConfig`, `DisabledMeansQuiet`, `WorkerGetsSerial`, `RxBufOutlivesReader`, `ConnectedMeansReady`, `WorkerEndsAfterError`, `CallReturns` |
| `expansion_clients` | 2 clients with every call, 1 interface, heartbeats, handshakes and garbage in one or two parts, queue of 3, 2 detections | `TypeOK`, `WorkerAccountedFor`, `CallsAnsweredOnce` |
| `input` | 1 key that bounces without bound, debounced over 3 rounds; timer task with a queue of 3 commands; a GUI queue of 1, `input dump` with a queue of 2, `input send` at any time, fairness | `TypeOK`, `CounterHasOneWriter`, `KeysInSequence`, `LevelReported` |
| `views` | 2 keys, 2 views of two orientations, view ports of two other applications, queues of 1, 3 presses or calls of callbacks and other threads | `TypeOK`, `NoStuckKey`, `DetachedUntouched`, `ScreenUpToDate`, `RunCanReturn` |
| `storage` | 2 clients, 2 paths, 2 node addresses, 2 opens; 2 commands about the card, closes of an unopened File or changes of the card, fairness | `TypeOK`, `FilesConsistent`, `CloseNotMissed`, `FlagAllocated`, `FilesKept`, `OpenEnds`, `RemovalNoticed` |

`KeysInSequence` is a refinement: the specification of `KeySequence`, through
`INSTANCE`, as a property of `Input`. The order it states is the one the consumers
need: the GUI service and the view dispatcher discard a Short, Long or Repeat of a key
whose Release they have seen (`gui.c:377`, `view_dispatcher.c:255`). It is not the
order of `input.h:24`, where Short is "emitted after InputTypeRelease": that the
property holds refutes this line, which `PROJECT.json` lists as a finding. (As a
property, "Short follows Release" fails on the shortest press.)

Bounds of the event loop: two slots, so that a queue is full, empty or neither; two
threads for a notification to be overtaken by another thread's; two timers for the list
to have an order; a counter of a few values wraps several times. With two queues
`ArrivalProcessed` does not hold (`lost_wakeup`); that `NoMissedArrival` holds for
any number of queues is proved. A loop is run twice so that what a stop leaves
behind meets the next run: without their `runs = 1` the instances refute
`ArrivalProcessed`, `CommandsExecuted`, `SilentAfterStop` and the first half of
`PendedAfterCommands`, and without `~nested` its second half. `MaxPend`,
`LoopCalls`, `ThreadCalls` and `MaxRuns` bound the calls, `TickMod` and `MaxLate`
time.

Bounds of the expansion service: `QueueSize` is 8 in the code. In
`expansion_app` the four slots hold all that can be under way (one message per client,
`MaxDetect` detections, two of a worker), which excludes the deadlock of
`expansion_blocked`, and frames arrive in one part, which excludes the lost stop of
`expansion_stop_lost`: the run shows that calls return but for these two. In
`expansion_clients` the queue of 3 fills up and frames come in parts.
`expansion_blocked` uses the code's queue with 7 detections. The calls themselves are not
bounded. In `expansion_app` the client does not call `expansion_set_listen_serial`: that
call replaces a worker, and `RxBufOutlivesReader` and `ConnectedMeansReady` do
not survive it (`expansion_stale_exit`, and the observations below). What
`WorkerAccountedFor`, `DetectionFollowsState` and `CallsAnsweredOnce` say of any
number of clients and interfaces is proved.

Bounds of `input`: one key reaches every interleaving of the three publishers with
its timer; keys share nothing but the thread, the mutex and the timer task's
queue, all of which the run keeps busy with the CLI. (The safety part also passes with
two keys.) Nothing is counted: the run is about behaviours of any length. The
code debounces over 4 rounds, its queues have 8 slots; the smaller numbers keep
the cases empty, partly full and full.

Bounds of `views`: `MaxSteps` counts presses and calls together. Two keys overlap
while one call is made; or two calls switch, remove or rotate and come back, or cover
the view port, during one press. (Two presses with two calls also pass, in 6.1 million
states.) A queue of one slot is empty or full, so that the GUI thread waits in the
callback. After the dispatcher is freed neither presses nor calls begin.

Bounds of `storage`: two opens let one client wait for the other, and a client open
again with an address that was freed. `MaxSteps` counts commands and changes of the
card together: a command meets an open file, a waiting one, a mounted and an unmounted
card, before and after the card goes or comes, and the card goes and comes back.
The safety part also passes with 3 opens.

*Fairness* (`FairSpec`): weak fairness of the loop's thread, of the pending
notification of each caller and of the tick. FreeRTOS runs every ready thread
eventually here because the callers' steps are finite in number (the bounds) and
callbacks return; the tick is a hardware interrupt. User calls and calls of
other threads have no fairness: nobody has to make them.

For the expansion service: weak fairness of the control thread and of the RPC
session's callback (`furi_semaphore_acquire` has a time-out), strong fairness of
the worker (the queue it waits for and the session it closes become available
again and again) and of a client that waits for a slot; the kernel serves waiting
threads in order of priority and age, and detections are switched off while a
worker runs. Besides, a worker that waits for the first byte of a frame again and
again with a flag set notices it once: the protocol is request-response, so the
module cannot keep the buffer full for ever. No assumption is made about
priorities, nor that the module sends anything.

For the input service: weak fairness of every thread that can go on; strong
fairness of a running timer (it expires again and again), of each publisher that waits
for the mutex and of the unsubscription of `input dump`, since FreeRTOS hands a mutex
to the waiting thread of highest priority and the CPU is idle most of the time. Nothing
is assumed of the keys and of `input send`.

For the storage service: weak fairness of its thread, of the client calls under way and of
the close that follows an open (a client that never closes makes the others wait, as
documented); strong fairness of unsubscribing, which waits for the mutex. New calls
and the card have none.

`views` has no liveness: the code does lock up (see below), and what can be said is
`RunCanReturn`, that what `view_dispatcher_run` waits for is on its way.

Each run with expectation *violation* states what a comment or a test says and
TLC shows that the code does otherwise:

| Run | Claim | What the counterexample shows |
|---|---|---|
| `lost_wakeup` | the loop polls continuously | two queues notify before one wake-up: one item is served, the other waits for the next notification |
| `released_item` | removing and adding does not crash | unsubscribing with a message waiting leaves a dangling element in the waiting list |
| `expansion_stop_lost` | disabling ends the communication | a stop request noticed in mid-frame is consumed and forgotten; a module that goes on sending keeps the worker alive and `expansion_disable` never returns |
| `expansion_blocked` | no deadlock between callback and control thread | the control thread joins a worker that waits for room in a queue full of detections |
| `expansion_stale_exit` | a worker is stopped on disconnection or error | the end reported by a replaced worker releases its running successor, buffer first |

*Further observations.* These differences between code and documentation were
met while modelling; no run is spent on them.

- Stopping a loop drops the Event, Timer and Pending flags it has taken
  (`event_loop.c:129`): when the loop is run again, requests and pending callbacks
  stay queued and items stay linked without a flag, for ever if nothing new is
  announced, and a timer stopped before may fire. `ArrivalProcessed`,
  `CommandsExecuted`, `SilentAfterStop`, `CommandsAnnounced` and
  `PendedAfterCommands` therefore speak of the first run of a loop.
- A callback pended by a pending callback runs before timer requests made in
  between (`event_loop.c:33`; `event_loop.h:104` says it runs after them). Of such a
  callback `PendedAfterCommands` says only that the requests it may precede were
  made in the same go; each entry of `pending_queue` records whether it is `nested`
  and, nested or not, which requests precede it.
- A timer that has been stopped still reports a remaining time
  (`event_loop_timer.c:204`; `event_loop_timer.h` says 0).
- `furi_event_loop_timer_restart` does not see the interval of a start that is
  still queued (`event_loop_timer.c:190`).
- Ticks missed while the loop was busy are called back in a row
  (`event_loop_tick.c:37`; `event_loop.h` says they are skipped).
- A stop request noticed in mid-frame has its reason overwritten by the time-out
  that follows (`expansion_worker.c:93`): the worker then reports an end that was
  asked for, against the comment at line 353.
- A `ConnectionEstablished` message of a replaced worker is credited to its
  successor (`expansion.c:200`): `expansion_is_connected` returns true too early.
- Worker and RPC session send on the same interface from two threads without a
  lock (`expansion_worker.c:125`): frames may mix.
- The lock allocated for `ConnectionEstablished` is released by nobody
  (`expansion.c:90`): each connection leaks one.
- Stopping `input dump` can lock all input up (`DumpLockup`): its callback waits
  for room in the command's queue with the mutex held (`input_cli.c:19`), the command
  no longer empties the queue and waits for that mutex to unsubscribe. `LevelReported`
  leaves the lock-up out.
- A subscriber that subscribes or unsubscribes in its callback, or calls the
  service that publishes, waits for itself (`pubsub.c:94`); so does a callback of a
  storage event that calls storage.
- Long may precede Press if the timer task is given a high priority
  (`furi_timer_set_thread_priority`) and the input thread does not run for
  300 ms; the run has `TimerElevated` = FALSE.
- A key held at start-up has no Press and never a Long; letting go of it publishes
  Short and Release, with a sequence number that was never set (`input.c:101`).
- Events made by software (`input send`) have no place in the bookkeeping of the GUI,
  which mixes them with those of the keys (`gui.c:373`).
- The GUI thread waits in `view_dispatcher_input_callback` for room in the
  dispatcher's queue with the GUI's mutex held, while the application, which alone
  empties it, waits for that mutex in `view_dispatcher_add_view`, `_remove_view`,
  `_send_to_front`, `_free` or in a rotation: with 16 events queued the user
  interface stops. Likewise when nobody empties the queue any more because
  `view_dispatcher_run` has returned.
- `view_dispatcher_send_custom_event` from the dispatcher's thread with its queue full waits for
  itself (`view_dispatcher.c:334`).
- A rotation forgets the keys that are down, but the events already queued were
  mapped with the old orientation: a key may stay down that nobody releases, and
  `view_dispatcher_run` then drains for ever (`view_dispatcher.c:124`). `NoStuckKey` and
  `RunCanReturn` leave rotations with keys under way out (`sacrificed`).
- While one key is down, a view that is switched to and back can get the Short of
  a second key whose Press it has not got (`view_dispatcher.c:272`); the
  draining of events keeps releases from the views.
- A File's id is never reset and `storage_file_close` does not check that it is
  open (`storage_external_api.c:127`): a second close, or the close after an open of an
  invalid path, closes another client's file whose node has got the same address.
  The clients of the model close once per open.
- The card is looked at only when no message has come for a second (`storage.c:114`):
  clients that keep calling put it off. `RemovalNoticed` holds because calls are
  bounded.
- A card that goes and comes back between two ticks is not noticed. One that
  `storage_sd_mount` mounts before the tick has seen it is mounted again by the next
  tick, under open files, or its removal is never noticed: `MountUnseen`,
  `MountBeforeTick`. Formatting does not ask for open files.
- A client that opens a file it has open itself waits for ever.
- `furi_record_close` decrements without a check (`record.c:145`);
  `furi_record_open` waits for ever for a record nobody creates (`record.c:127`);
  `furi_timer_free` called in a timer's callback waits for itself (`timer.c:70`).

## 4. Proofs

`EventLoop_proofs` proves, for any sets of queues, threads and timers and any
bounds that satisfy `TimerAssumption` and `LoopAssumption`:

| Theorem | States | Argument |
|---|---|---|
| `TypeCorrect` | `[]TypeOK` | inductive as it stands: one step per action, one below it per group of variables (timers, loop, queues, rest) |
| `NoArrivalMissed` | `[]NoMissedArrival` | inductive with `TypeOK`, one queue at a time (`Noticed`): an access leaves a notice owed, a notice becomes a link, a link becomes the item being served, and serving ends only at level 0 or with a new link |
| `TimersStayLinked` | `[]TimersLinked` | inductive with `TypeOK`; the list lemmas give contents and injectivity after each list operation |
| `CommandsStayAnnounced` | `[]CommandsAnnounced` | strengthened to `Announcements`: flags are held only while one is served, a running loop has been run, and at `expire` the request queue is empty |
| `StoppedTimerIsSilent` | `SilentAfterStop` | at `expire` the request queue is empty (`Announcements`), so no timer has a request (`TimersLinked`) |
| `FreeIsClean` | `[]FreeFindsNoTimer` | while `furi_event_loop_free` works, every timer left has a Free request (`AllFreed`) |
| `PendedRunAfterCommands` | `PendedAfterCommands` | its first half, that the loop turns to its pending callbacks when no request is queued: otherwise the Timer flag would be set and served first (`Announcements`). Its second half, for callbacks not pended by a pending callback, by `PendedKnown`: an entry waits only for requests that are still queued, and what is pended from that turn on is `nested` |

`EventLoopClock_proofs` proves, from the same assumptions:

| Theorem | States | Argument |
|---|---|---|
| `TimersStaySorted` | `[](Clocked /\ Sorted)` | `Clocked`: an active timer is at most `MaxLate` overdue, so that its wrapped elapsed time is its real age. `Sorted`: the list is in the order of deadlines, as `SortedBy` has it. The code compares remaining times, which are 0 for every expired timer; sorting by deadline survives because a timer that is put back goes behind the expired ones, and time passes for all alike. Periodic timers of interval 0 are due always and are told apart (`AlwaysDue`) |
| `TimersFireWhenDue` | `FiresWhenDue` | at the head of a sorted list is the earliest deadline; that it is due in real time is `Clocked` |

`Expansion_proofs` proves, for any clients, interfaces, frames and queue size that
satisfy `SerialAssumption`, `ExpansionAssumption` and `MessageAssumption` (`None`
is no interface, client or message; the queue has a slot):

| Theorem | States | Argument |
|---|---|---|
| `TypeCorrect` | `[]TypeOK` | not inductive alone: the interface that a worker acquires is `serial_id`, which is an interface only because a worker exists in the right states. `Accounts` is `TypeOK` with what the control thread remembers between the steps of a handler (`ControlState`) and when there is a worker (`WorkerKnown`) |
| `WorkerIsAccountedFor` | `[]WorkerAccountedFor` | `WorkerKnown`, and for the interface `Owners`: applications and worker have different interfaces, all of them in use, so that nobody releases another's |
| `DetectionStaysPaired` | `[]DetectionFollowsState` | `Sensing` (interrupts are on exactly where detection is and the interface is free) is kept by each request to serial control; `Watched` names the interface on which detection has to be, handler by handler |
| `LogStaysRouted` | `[]LogFollowsConfig` | inductive with `Accounts`, request by request |
| `SessionStaysInside` | `[]SessionInsideWorker` | inductive; sessions change only where the worker handles a frame or exits |
| `CallsAreAnsweredOnce` | `[]CallsAnsweredOnce` | `Answers`, one client at a time: the set of places of a client's messages in the queue under append and tail (`CarriedAppend`, `CarriedTail`), and a request waiting for a slot carries its own client's lock |

`ExpansionAlone_proofs` proves, from the same assumptions, what holds only for some
clients; the condition is part of the property or the hypothesis of the theorem:

| Theorem | States | Argument |
|---|---|---|
| `DisabledIsQuiet` | `[]DisabledMeansQuiet` | the property speaks of a client that is alone. `Alone`: each message is the one its client waits for (`Tracks`), so while the only client waits for no answer there is no request under way, and from the answer to its Disable until its next call nothing can enable the service (`Quiet`); whoever uses an interface is an application or the worker (`UsersKnown`) |
| `WorkerFindsSerialFree` | `OneClient` implies `[]WorkerGetsSerial` | an interface in use that is not the worker's is the client's, who acquires only while the service is disabled |
| `RxBufIsReleasedLast` | `Undisturbed` implies `[]RxBufOutlivesReader` | `Reports`: while there is a worker, every report in the queue is its own and the one of its end is the last (`OwnReports`); while a module is awaited there are none (`NoReports`); while the service is disabled, those left over are ahead of the Enable that lets the next worker come (`StaleFirst`) |
| `ConnectedIsReady` | `Undisturbed` implies `ConnectedMeansReady` | a report of a connection is of the present worker (`Reports`), which has left the handshake and does not return to it (`WorkerStage`) |

`OneClient` says that one thread calls the API, `Undisturbed` that it moreover never
moves the interface (`expansion_set_listen_serial`). Both are what `expansion_app`
checks, and neither can be dropped: with two clients, of which one enables the service
while the other uses the interface or has just disabled it, TLC refutes all three
properties; with one client that moves the interface it refutes
`RxBufOutlivesReader` (`expansion_stale_exit`).

`ViewDispatcher_proofs` proves, for any keys, views, queue lengths and number of calls
that satisfy `GuiAssumption`, `ViewDispatcherAssumption` and `NoneAssumption`. The
invariant `Inv` joins `Structure`, `Redrawn`, `Woken`, `GuiInStep`, `Drained` and
`InStep`:

| Theorem | States | Argument |
|---|---|---|
| `TypeCorrect` | `[]TypeOK` | part of `Structure`: with the places of view ports (each in one layer, once; the dispatcher's in none after it has been freed) and `DetachedUntouched`, which says that what is called exists |
| `DetachedStayUntouched` | `[]DetachedUntouched` | part of `Structure`: removing a view port or a view clears what refers to it in the same critical section |
| `ScreenStaysUpToDate` | `[]ScreenUpToDate` | `Redrawn`: what changes the picture sets the DRAW flag; a flag taken is served before the next wait |
| `NoKeyStuck` | `[]NoStuckKey` | `GuiInStep` and `InStep`: the events in a queue, one after the other, take the keys from what the receiver believes to what the sender knows (`Through`), from the user to the GUI service and from there, with the keys mapped to the orientation of the view port, to the dispatcher and its views. Empty queues leave no difference; `Woken` says that the GUI's queue is served |
| `RunMayReturn` | `[]RunCanReturn` | a key that is down for the dispatcher is up at the end of its queue, and then a release is in it (`ThroughRelease`), or its release is promised by the GUI service (`Promised`), for which `GuiInStep` finds it in the other queue or with the user |

`Storage_proofs` proves, for any clients, paths and list nodes that satisfy
`StorageAssumption` and `NoneAssumption`:

| Theorem | States | Argument |
|---|---|---|
| `TypeCorrect` | `[]TypeOK` | inductive with `Dialogue` (a client waits for one answer; a served client closes a file) and `Publication` (the storage thread publishes exactly while it has an event; the subscribers are the clients that have an event flag, each once) |
| `FlagStaysAllocated` | `[]FlagAllocated` | `Publication`: who is called is subscribed, and who is subscribed has a flag |
| `ListConsistent` | `[]FilesConsistent` | `Listed`: who has a file (`Has`: opened, or an answer says so, or the close is still queued) has an entry of the list, and every entry is of somebody who has one; a step that opens or closes nothing keeps this (`ListedKept`) |
| `NoCloseMissed` | `[]CloseNotMissed` | inductive with `Listed`: before the publisher has the mutex it has called nobody, so an open that waits is still to be called (`Pending`) until its flag is set |
| `OpenFilesKept` | `FilesKept` | no file is usable while there is no card (`UsableOnCard`); with unique paths no step but an unmount makes an entry unusable (`CardSteps`) |

`Input_proofs` proves, for any keys, debounce time and queue lengths that satisfy
`InputAssumption`, `FuriTimerAssumption` and `NoneAssumption` (the run has one key):

| Theorem | States | Argument |
|---|---|---|
| `TypeCorrect` | `[]TypeOK` | with `Publication` (who calls has the mutex, who publishes has an event), `ThreadEvent` and `TaskEvent` (whose event it is, from the place of the thread and of the task) |
| `OneWriter` | `[]CounterHasOneWriter` | `TimerQuiet`: from the moment the input thread has seen that a key's timer does not run until it starts it again (`Settled`), the timer's callback neither runs nor will (`Quiet`): its last command stops it, and if the start before that has just been executed the task is still among the commands. `StoppingSend` and `StoppingExecute` keep this, one command at a time |
| `KeysStayInSequence` | `~TimerElevated => (Spec => KeysInSequence)` | the refinement: `LastEvent` gives the last event published of a key from the place of the input thread and, while the key is held (`Held`), from its counter and the event the timer task waits to publish. Only the publisher that gets the mutex takes an abstract step (`AcquireOrder`); all other steps stutter. The assumption is needed: with the elevated priority the task could publish Long before an input thread that waits with the Press |

So every safety property of a run is proved. Only model-checked is liveness, which is
out of the prover's reach: `ArrivalProcessed`, `StopHonoured`, `CommandsExecuted`,
`ExpiredTimerServed`, `TickServed`, `WorkerEndsAfterError`, `CallReturns`,
`LevelReported`, `OpenEnds`, `RemovalNoticed`. `CommandsAnnounced` is proved and used by
the proofs; on the small instance `CommandsExecuted` says more. The invariants the
proofs rest on (among them `PendedKnown`, `Clocked`, `Sorted`, `Alone`, `Reports`, `Inv`) were checked by TLC on
the instances of the runs before they were proved.

## 5. Plan

1. Done: event loop, timers, queues; expansion service and serial control; with type
   correctness and the safety theorems.
2. Done: `PubSub`, `FuriTimer`, `Input` with its abstract `KeySequence`; `Gui` and
   `ViewDispatcher`; `Storage`; liveness of the event loop, the expansion service, input and
   storage.
3. Done: the safety properties of `Storage` and `Input` proved, among them the refinement
   of `KeySequence`; the order and time of firing of timers; the promises of the
   expansion service to a single client; the properties of GUI and view dispatcher.
4. To state and prove: what more than the runs check follows from these invariants, first
   whether the events of a key reach the dispatcher in the order of `KeySequence` between
   two rotations (those that reach a view do not, see the observations).
5. Candidates for further modules, in this order: `Loader` (one application at a time,
   locking), `Rpc` (session, feeding, closing), `Record`, `Thread`, and the free list
   of the heap.

### Not modelled

- Records, threads, heap, scene manager, loader, RPC, power, Bluetooth,
  notification, dolphin: see the plan; the parts above come first because several threads
  or interrupts meet in them without a lock. `furi_thread`, mutexes, semaphores and event
  flags are used by the models as atomic steps.
- Drawing, radio and card protocols, file systems, the hardware layer, the build
  system, applications and plug-ins: data, third-party code, registers, or users
  of the services.
