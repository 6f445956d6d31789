--------------------------- MODULE ViewDispatcher ---------------------------
(***************************************************************************)
(* The view dispatcher (services/gui/view_dispatcher.c) of an application, *)
(* with the GUI service it is attached to.  Its view port's input callback *)
(* runs in the GUI thread and puts key events into a queue; the thread of  *)
(* the application takes them in its event loop and hands each to a view.  *)
(*                                                                         *)
(* A callback of the application (of a view, for a custom event, a tick or *)
(* back navigation) makes at most one call of the dispatcher, and a view   *)
(* whose input callback makes one has consumed the event.  The event loop  *)
(* is the one of EventLoop: it serves the queues and the tick in any order *)
(* and ends after view_dispatcher_stop.                                    *)
(***************************************************************************)
EXTENDS Gui

CONSTANTS
    Views,
    Dispatcher,     \* view_dispatcher->view_port
    Desktop, Popup, \* view ports of other applications
    InputQueueSize, \* slots of view_dispatcher->input_queue
    EventQueueSize, \* slots of view_dispatcher->event_queue
    \* Bounds
    Types,          \* types of the key events
    MaxSteps        \* number of key presses and of calls of the callbacks and
                    \* of other threads

ASSUME ViewDispatcherAssumption ==
    /\ Ports = {Dispatcher, Desktop, Popup}
    /\ Dispatcher # Desktop /\ Dispatcher # Popup /\ Desktop # Popup
    /\ Views # {} /\ None \notin Views
    /\ Types \subseteq KeyOrder!InputType
    /\ {InputQueueSize, EventQueueSize, MaxSteps} \subseteq Nat

VARIABLES
    view_orientation,   \* of each view
    dpc,            \* where the application is
    call,           \* the dispatcher's operation it is in
    views,          \* views that are added
    current_view,
    ongoing_input_view,
    ongoing_input,
    input_queue,
    events,         \* number of custom events in event_queue
    stopping,       \* the loop has been told to stop
    \* Not in the code:
    holding,        \* keys whose press a view got, and not yet the release
    sacrificed,     \* a key was down or on its way at a rotation
    steps           \* counted against the bound

inputVars == <<ongoing_input_view, ongoing_input, input_queue>>
viewVars == <<view_orientation, views, current_view>>
ghostVars == <<holding, sacrificed>>
vdVars == <<viewVars, inputVars, dpc, call, events, stopping, ghostVars>>
vars == <<guiVars, vdVars, steps>>

NoCall == <<"none", None>>
Calls ==
    {NoCall, <<"custom", None>>, <<"stop", None>>, <<"front", None>>,
     <<"switch", None>>}
    \cup ({"switch", "add", "remove"} \X Views)

ViewTypeOK ==
    /\ view_orientation \in [Views -> Orientation]
    /\ views \subseteq Views
    /\ current_view \in Views \cup {None}
    /\ ongoing_input_view \in Views \cup {None}
    /\ holding \in [Views -> SUBSET InputKey]
    /\ sacrificed \in BOOLEAN

ApplicationTypeOK ==
    /\ dpc \in {"loop", "drain", "done", "freed"}
    /\ call \in Calls
    /\ ongoing_input \subseteq InputKey
    /\ input_queue \in Seq(Events) /\ Len(input_queue) <= InputQueueSize
    /\ events \in 0 .. EventQueueSize
    /\ stopping \in BOOLEAN

TypeOK == GuiTypeOK /\ ViewTypeOK /\ ApplicationTypeOK

\* view_dispatcher_attach_to_gui; the first view is chosen, then
\* view_dispatcher_run starts the loop.
Init ==
    /\ GuiInit(<<Desktop>>, <<Dispatcher>>)
    /\ view_orientation \in [Views -> {"Horizontal", "HorizontalFlip"}]
    /\ dpc = "loop" /\ call = NoCall
    /\ views = Views
    /\ current_view \in Views
    /\ view_orientation[current_view] = "Horizontal"
    /\ shown = current_view
    /\ ongoing_input_view = None /\ ongoing_input = {}
    /\ input_queue = <<>> /\ events = 0
    /\ stopping = FALSE
    /\ holding = [v \in Views |-> {}] /\ sacrificed = FALSE
    /\ steps = 0
-----------------------------------------------------------------------------
(* The GUI thread and the user.                                            *)

KeyEvent(k, type) ==
    /\ type = "Press" => steps < MaxSteps /\ dpc # "freed"
    /\ gui_input_events_callback(k, type)
    /\ steps' = IF type = "Press" THEN steps + 1 ELSE steps
    /\ UNCHANGED vdVars

\* view_dispatcher_input_callback waits for room in the queue; the callbacks
\* of the other view ports return.
view_dispatcher_input_callback ==
    /\ DeliveryReturns
    /\ \/ /\ delivery.port = Dispatcher
          /\ Len(input_queue) < InputQueueSize
          /\ input_queue' = Append(input_queue, delivery.event)
       \/ /\ delivery.port # Dispatcher
          /\ UNCHANGED input_queue
    /\ UNCHANGED <<viewVars, ongoing_input_view, ongoing_input, dpc, call,
                   events, stopping, ghostVars, steps>>

\* view_dispatcher_draw_callback draws the current view.
Picture ==
    IF Topmost = Dispatcher THEN current_view ELSE Topmost

GuiThread ==
    \/ /\ TakeFlags \/ gui_input \/ InputDone \/ ClearDrawFlag
          \/ gui_redraw(Picture)
       /\ UNCHANGED <<vdVars, steps>>
    \/ view_dispatcher_input_callback

Publisher == SetInputFlag /\ UNCHANGED <<vdVars, steps>>
-----------------------------------------------------------------------------
(* Operations of the dispatcher.                                           *)

\* view_dispatcher_set_current_view with NULL: the loop is stopped.
NoCurrentView ==
    /\ current_view' = None
    /\ enabled' = enabled \ {Dispatcher}
    /\ gui_update(direct_draw \/ Dispatcher \notin enabled)
    /\ stopping' = TRUE
    /\ UNCHANGED <<orientation, ongoing_input, sacrificed>>

\* view_dispatcher_set_current_view with a view.  A rotation waits for the
\* mutex of the view port; enabling it gives up on the mutex after two ticks.
view_dispatcher_set_current_view(v) ==
    /\ current_view' = v
    /\ \/ /\ orientation[Dispatcher] = view_orientation[v]
          /\ UNCHANGED <<orientation, ongoing_input, sacrificed>>
       \/ /\ orientation[Dispatcher] # view_orientation[v]
          /\ PortUnlocked(Dispatcher)
          /\ orientation' =
                [orientation EXCEPT ![Dispatcher] = view_orientation[v]]
          /\ ongoing_input' = {}
          /\ sacrificed' = (sacrificed \/ ongoing_input # {}
                                       \/ input_queue # <<>>)
    /\ enabled' = enabled \cup {Dispatcher}
    /\ gui_update(direct_draw)
    /\ UNCHANGED stopping

view_dispatcher_switch_to_view(v) ==
    /\ \/ v = None /\ NoCurrentView
       \/ v \in views /\ view_dispatcher_set_current_view(v)
    /\ UNCHANGED <<guiInputVars, guiThreadVars, layers, lockdown, direct_draw,
                   shown, view_orientation, views, ongoing_input_view,
                   input_queue, events, holding>>

view_dispatcher_add_view(v) ==
    /\ v \notin views /\ Unlocked
    /\ views' = views \cup {v}
    /\ UNCHANGED <<guiVars, view_orientation, current_view, inputVars, events,
                   stopping, ghostVars>>

\* Mutant: the view keeps the keys that are down.
RemoveKeepsOngoing(v) ==
    /\ v \in views /\ Unlocked
    /\ \/ current_view = v /\ NoCurrentView
       \/ /\ current_view # v
          /\ UNCHANGED <<current_view, enabled, stopping, orientation,
                         ongoing_input, sacrificed, flags>>
    /\ views' = views \ {v}
    /\ holding' = [holding EXCEPT ![v] = {}]
    /\ UNCHANGED <<guiInputVars, guiThreadVars, layers, lockdown, direct_draw,
                   shown, view_orientation, ongoing_input_view, input_queue,
                   events>>

\* With gui->mutex held; view_exit and what follows are within it.
view_dispatcher_remove_view(v) ==
    /\ v \in views /\ Unlocked
    /\ \/ current_view = v /\ NoCurrentView
       \/ /\ current_view # v
          /\ UNCHANGED <<current_view, enabled, stopping, orientation,
                         ongoing_input, sacrificed, flags>>
    /\ ongoing_input_view' =
          IF ongoing_input_view = v THEN None ELSE ongoing_input_view
    /\ views' = views \ {v}
    /\ holding' = [holding EXCEPT ![v] = {}]
    /\ UNCHANGED <<guiInputVars, guiThreadVars, layers, lockdown, direct_draw,
                   shown, view_orientation, input_queue, events>>

view_dispatcher_send_to_front ==
    /\ gui_view_port_send(Dispatcher, TRUE)
    /\ UNCHANGED <<viewVars, inputVars, events, stopping, ghostVars>>

\* Mutant: the caller does not wait.
SendUnwaited ==
    /\ events' = events + 1
    /\ UNCHANGED <<guiVars, viewVars, inputVars, stopping, ghostVars>>

\* The caller waits for room in the queue.
view_dispatcher_send_custom_event ==
    /\ events < EventQueueSize
    /\ events' = events + 1
    /\ UNCHANGED <<guiVars, viewVars, inputVars, stopping, ghostVars>>

view_dispatcher_stop ==
    /\ stopping' = TRUE
    /\ UNCHANGED <<guiVars, viewVars, inputVars, events, ghostVars>>

\* The call that the application is in is executed.
ExecuteCall ==
    /\ call # NoCall
    /\ \/ call[1] = "switch" /\ view_dispatcher_switch_to_view(call[2])
       \/ call[1] = "add" /\ view_dispatcher_add_view(call[2])
       \/ call[1] = "remove" /\ view_dispatcher_remove_view(call[2])
       \/ call[1] = "front" /\ view_dispatcher_send_to_front
       \/ call[1] = "custom" /\ view_dispatcher_send_custom_event
       \/ call[1] = "stop" /\ view_dispatcher_stop
    /\ call' = NoCall
    /\ UNCHANGED <<dpc, steps>>
-----------------------------------------------------------------------------
(* The thread of the application.                                          *)

\* The callback makes no call, or one that passes the checks.
CallbackCalls ==
    \/ call' = NoCall /\ UNCHANGED steps
    \/ /\ steps < MaxSteps
       /\ steps' = steps + 1
       /\ call' \in {c \in Calls \ {NoCall} :
                        /\ c[1] = "remove" => c[2] \in views
                        /\ c[1] = "switch" => c[2] \in views \cup {None}
                        /\ c[1] = "add" => c[2] \notin views}

\* A view's input callback gets the event.
view_input(v, e) ==
    /\ holding' = [holding EXCEPT ![v] =
                      CASE e.type = "Press" -> @ \cup {e.key}
                        [] e.type = "Release" -> @ \ {e.key}
                        [] OTHER -> @]
    /\ CallbackCalls

Ongoing(e) ==
    CASE e.type = "Press" -> ongoing_input \cup {e.key}
      [] e.type = "Release" -> ongoing_input \ {e.key}
      [] OTHER -> ongoing_input

\* Mutant: the release is for the current view only.
ViewForCurrent(e, ongoing) ==
    IF current_view # None /\ ongoing = current_view
       /\ (e.type \in {"Press", "Release"} \/ e.key \in ongoing_input)
    THEN ongoing ELSE None

\* The view that gets the event, if any.
ViewFor(e, ongoing) ==
    IF \/ e.type = "Release"
       \/ /\ current_view # None /\ ongoing = current_view
          /\ e.type = "Press" \/ e.key \in ongoing_input
    THEN ongoing ELSE None

\* view_dispatcher_handle_input, from the loop; navigation, for an unconsumed
\* back event, is among the calls.
view_dispatcher_handle_input ==
    /\ dpc = "loop" /\ call = NoCall /\ input_queue # <<>>
    /\ input_queue' = Tail(input_queue)
    /\ LET e == Head(input_queue)
           first == e.type = "Press" /\ Ongoing(e) = {e.key}
       IN  /\ ongoing_input' = Ongoing(e)
           /\ ongoing_input_view' =
                 IF first THEN current_view ELSE ongoing_input_view
           /\ LET v == ViewFor(e, ongoing_input_view')
              IN  \/ v # None /\ view_input(v, e)
                  \/ v = None /\ UNCHANGED <<holding, call, steps>>
    /\ UNCHANGED <<guiVars, viewVars, dpc, events, stopping, sacrificed>>

\* view_dispatcher_handle_custom_event, view_dispatcher_handle_tick_event
HandleEvent ==
    /\ dpc = "loop" /\ call = NoCall
    /\ \/ events > 0 /\ events' = events - 1
       \/ UNCHANGED events
    /\ CallbackCalls
    /\ UNCHANGED <<guiVars, viewVars, inputVars, dpc, stopping, ghostVars>>

\* The loop ends, ...
LoopEnds ==
    /\ dpc = "loop" /\ call = NoCall /\ stopping
    /\ dpc' = "drain"
    /\ UNCHANGED <<guiVars, viewVars, inputVars, call, events, stopping,
                   ghostVars, steps>>

\* ... view_dispatcher_run waits till all input events are delivered, ...
Drain ==
    /\ dpc = "drain"
    /\ \/ /\ ongoing_input = {}
          /\ dpc' = "done"
          /\ UNCHANGED <<input_queue, ongoing_input>>
       \/ /\ ongoing_input # {} /\ input_queue # <<>>
          /\ input_queue' = Tail(input_queue)
          /\ ongoing_input' = Ongoing(Head(input_queue))
          /\ UNCHANGED dpc
    /\ UNCHANGED <<guiVars, viewVars, ongoing_input_view, call, events,
                   stopping, ghostVars, steps>>

\* ... the application removes its views ...
RemoveViews ==
    /\ dpc = "done" /\ call = NoCall
    /\ \E v \in views : call' = <<"remove", v>>
    /\ UNCHANGED <<guiVars, viewVars, inputVars, dpc, events, stopping,
                   ghostVars, steps>>

\* ... and frees the dispatcher.
view_dispatcher_free ==
    /\ dpc = "done" /\ call = NoCall /\ views = {}
    /\ gui_remove_view_port(Dispatcher)
    /\ dpc' = "freed"
    /\ input_queue' = <<>> /\ events' = 0
    /\ UNCHANGED <<viewVars, ongoing_input_view, ongoing_input, call, stopping,
                   ghostVars, steps>>

Application ==
    \/ view_dispatcher_handle_input \/ HandleEvent \/ LoopEnds \/ Drain
    \/ RemoveViews \/ view_dispatcher_free \/ ExecuteCall
-----------------------------------------------------------------------------
(* Other threads.                                                          *)

\* A thread sends a custom event, or another application calls the GUI.
OtherThread ==
    /\ steps < MaxSteps /\ dpc # "freed"
    /\ steps' = steps + 1
    /\ \/ /\ dpc = "loop" /\ view_dispatcher_send_custom_event
          /\ UNCHANGED <<dpc, call>>
       \/ /\ \/ gui_add_view_port(Popup, "Fullscreen")
             \/ Attached(Popup) /\ gui_remove_view_port(Popup)
             \/ gui_view_port_send(Popup, FALSE)
             \/ gui_set_lockdown(~lockdown)
             \/ ~direct_draw /\ gui_direct_draw_acquire
          /\ UNCHANGED vdVars

\* The screen is given back.
DirectDrawEnds ==
    /\ gui_direct_draw_release
    /\ UNCHANGED <<vdVars, steps>>
-----------------------------------------------------------------------------
Next ==
    \/ \E k \in Keys, type \in Types : KeyEvent(k, type)
    \/ Publisher \/ GuiThread \/ Application \/ OtherThread \/ DirectDrawEnds

Spec == Init /\ [][Next]_vars
-----------------------------------------------------------------------------
(* Properties.                                                             *)

\* The user, the GUI thread and the application have nothing to do with keys.
Quiet ==
    /\ \A k \in Keys : last[k] = "Release"
    /\ ~publishing /\ gpc = "wait" /\ "INPUT" \notin flags
    /\ dpc = "loop" /\ call = NoCall /\ input_queue = <<>>

\* Once all keys are up and nobody has anything to do, no event is left and no
\* view believes that a key is down, however views and view ports were switched,
\* removed, covered or locked meanwhile: a view that got a press gets the
\* release, and the GUI thread never sleeps on an event that came between its
\* last look into the queue and its wait.  A rotation gives this up on purpose
\* for the keys that are down or on their way ("it's time to sacrifice some
\* input").
NoStuckKey ==
    Quiet /\ ~sacrificed =>
        /\ gui_queue = <<>>
        /\ gui_ongoing_input = {} /\ ongoing_input = {}
        /\ \A v \in Views : holding[v] = {}

\* The GUI thread and the loop never reach a view that is removed, and may be
\* freed, nor a view port that is detached (view_port_input checks this).
DetachedUntouched ==
    /\ {current_view, ongoing_input_view} \subseteq views \cup {None}
    /\ ongoing_input_view_port # None => Attached(ongoing_input_view_port)
    /\ delivery # None => Attached(delivery.port)

\* When the GUI thread has nothing to do, the screen shows the view that is on
\* top: every change asks for a redraw, and no request is lost between the
\* thread's flags and its redraw.
ScreenUpToDate ==
    gpc = "wait" /\ "DRAW" \notin flags /\ ~direct_draw => shown = Picture

\* The release of a key is in the dispatcher's queue, on its way into it, or
\* will be: the key is down and the dispatcher's view port gets its events.
ReleaseComes(k) ==
    \/ Event(k, "Release") \in ToSet(input_queue)
    \/ delivery = [port |-> Dispatcher, event |-> Event(k, "Release")]
    \/ /\ ongoing_input_view_port = Dispatcher
       /\ \E p \in gui_ongoing_input :
             /\ view_port_input_mapping[orientation[Dispatcher]][p] = k
             /\ last[p] # "Release" \/ Event(p, "Release") \in ToSet(gui_queue)

\* "Wait till all input events delivered" (view_dispatcher.c): every key that
\* view_dispatcher_run waits for is going to be released in its queue, so that
\* it returns when the user lets go, whatever covers or locks the view port
\* meanwhile.  A rotation can leave a key down that nobody pressed.
RunCanReturn ==
    dpc \in {"loop", "drain"} /\ ~sacrificed =>
        \A k \in ongoing_input : ReleaseComes(k)
=============================================================================
