--------------------------------- MODULE Gui --------------------------------
(***************************************************************************)
(* The GUI service (services/gui/gui.c, view_port.c): a thread takes key   *)
(* events from a queue and hands each to one view port, and redraws the    *)
(* screen on request.  Threads of applications add, remove and rearrange   *)
(* view ports.                                                             *)
(*                                                                         *)
(* Every holder of gui->mutex or of a view port's mutex releases it within *)
(* a step, but for the GUI thread that waits in a view port's input        *)
(* callback: both mutexes are held exactly while gpc = "deliver".          *)
(***************************************************************************)
EXTENDS Naturals, Sequences, SequencesExt

CONSTANTS
    Keys,           \* the keys of this instance, some of InputKey
    Ports,          \* view ports
    GuiQueueSize,   \* slots of gui->input_queue
    None            \* NULL

InputKey == {"Up", "Down", "Right", "Left", "Ok", "Back"}
GuiLayer == {"Desktop", "Window", "Fullscreen"}   \* those that get input
Orientation == {"Horizontal", "HorizontalFlip", "Vertical", "VerticalFlip"}

ASSUME GuiAssumption ==
    /\ Keys \subseteq InputKey
    /\ GuiQueueSize \in Nat \ {0}
    /\ None \notin Ports

VARIABLES
    last,           \* type of the last event published for each key
    publishing,     \* the publisher is to set the thread's flag
    gui_queue,      \* gui->input_queue
    flags,          \* thread flags of the GUI thread
    gpc,            \* where gui_srv is
    taken,          \* flags it has taken
    delivery,       \* event in a view port's callback
    gui_ongoing_input,
    ongoing_input_view_port,
    layers,         \* view ports of each layer, the topmost last
    enabled,        \* view ports that are enabled
    orientation,    \* of each view port
    lockdown,
    direct_draw,
    shown           \* the view port on the screen

KeyOrder == INSTANCE KeySequence

guiInputVars == <<last, publishing, gui_queue, gui_ongoing_input,
                  ongoing_input_view_port>>
guiThreadVars == <<gpc, taken, delivery>>
portVars == <<layers, enabled, orientation, lockdown, direct_draw>>
guiVars == <<guiInputVars, guiThreadVars, portVars, flags, shown>>

Event(key, type) == [key |-> key, type |-> type]
Events == [key : InputKey, type : KeyOrder!InputType]
Deliveries == [port : Ports, event : Events]

ASSUME NoneAssumption == None \notin Deliveries

KeyTypeOK ==
    /\ last \in [Keys -> KeyOrder!InputType]
    /\ publishing \in BOOLEAN
    /\ gui_queue \in Seq(Events) /\ Len(gui_queue) <= GuiQueueSize
    /\ gui_ongoing_input \subseteq InputKey
    /\ ongoing_input_view_port \in Ports \cup {None}

GuiThreadTypeOK ==
    /\ flags \subseteq {"DRAW", "INPUT"} /\ taken \subseteq {"DRAW", "INPUT"}
    /\ gpc \in {"wait", "input", "deliver", "redraw", "draw"}
    /\ delivery \in Deliveries \cup {None}

PortTypeOK ==
    /\ layers \in [GuiLayer -> Seq(Ports)]
    /\ enabled \subseteq Ports
    /\ orientation \in [Ports -> Orientation]
    /\ lockdown \in BOOLEAN /\ direct_draw \in BOOLEAN

GuiTypeOK == KeyTypeOK /\ GuiThreadTypeOK /\ PortTypeOK

\* gui_alloc, gui_srv; the given view ports have been added.
GuiInit(desktop, fullscreen) ==
    /\ last = [k \in Keys |-> "Release"]
    /\ publishing = FALSE
    /\ gui_queue = <<>>
    /\ flags = {} /\ taken = {}
    /\ gpc = "wait"
    /\ delivery = None
    /\ gui_ongoing_input = {}
    /\ ongoing_input_view_port = None
    /\ layers = [Desktop |-> desktop, Window |-> <<>>, Fullscreen |-> fullscreen]
    /\ enabled = Ports
    /\ orientation = [p \in Ports |-> "Horizontal"]
    /\ lockdown = FALSE /\ direct_draw = FALSE
-----------------------------------------------------------------------------
(* View ports.                                                             *)

\* view_port_input_mapping
view_port_input_mapping ==
    [Horizontal     |-> [k \in InputKey |-> k],
     HorizontalFlip |-> [Up |-> "Down", Down |-> "Up", Right |-> "Left",
                         Left |-> "Right", Ok |-> "Ok", Back |-> "Back"],
     Vertical       |-> [Up |-> "Right", Down |-> "Left", Right |-> "Down",
                         Left |-> "Up", Ok |-> "Ok", Back |-> "Back"],
     VerticalFlip   |-> [Up |-> "Left", Down |-> "Right", Right |-> "Up",
                         Left |-> "Down", Ok |-> "Ok", Back |-> "Back"]]

view_port_map_input(event, o) ==
    Event(view_port_input_mapping[o][event.key], event.type)

Attached(port) == \E l \in GuiLayer : port \in ToSet(layers[l])

\* The last enabled view port of a layer.
gui_view_port_find_enabled(layer) ==
    LET ports == layers[layer]
        top == SelectLastInSeq(ports, LAMBDA p : p \in enabled)
    IN  IF top = 0 THEN None ELSE ports[top]

\* The view port that gets input and is drawn.
Topmost ==
    LET fullscreen == gui_view_port_find_enabled("Fullscreen")
        window == gui_view_port_find_enabled("Window")
    IN  CASE ~lockdown /\ fullscreen # None -> fullscreen
          [] ~lockdown /\ fullscreen = None /\ window # None -> window
          [] OTHER -> gui_view_port_find_enabled("Desktop")

\* gui->mutex and the mutex of a view port are free.
Unlocked == gpc # "deliver"
PortUnlocked(port) == gpc = "deliver" => delivery.port # port

\* gui_update, for the value of direct_draw it reads
gui_update(drawn) ==
    flags' = IF drawn THEN flags ELSE flags \cup {"DRAW"}
-----------------------------------------------------------------------------
(* Input: the publisher of an event, which is an event KeySequence allows, *)
(* in gui_input_events_callback.                                           *)

gui_input_events_callback(k, type) ==
    /\ ~publishing /\ Len(gui_queue) < GuiQueueSize
    /\ KeyOrder!Publish(k, type)
    /\ gui_queue' = Append(gui_queue, Event(k, type))
    /\ publishing' = TRUE
    /\ UNCHANGED <<flags, gui_ongoing_input, ongoing_input_view_port,
                   guiThreadVars, portVars, shown>>

\* Mutant: only a thread that waits is notified.
NotifyWaiting ==
    /\ publishing
    /\ publishing' = FALSE
    /\ flags' = IF gpc = "wait" THEN flags \cup {"INPUT"} ELSE flags
    /\ UNCHANGED <<last, gui_queue, gui_ongoing_input,
                   ongoing_input_view_port, guiThreadVars, portVars, shown>>

SetInputFlag ==
    /\ publishing
    /\ publishing' = FALSE
    /\ flags' = flags \cup {"INPUT"}
    /\ UNCHANGED <<last, gui_queue, gui_ongoing_input,
                   ongoing_input_view_port, guiThreadVars, portVars, shown>>
-----------------------------------------------------------------------------
(* The GUI thread.                                                         *)

\* furi_thread_flags_wait; only a redraw is asked for, or input comes first.
TakeFlags ==
    /\ gpc = "wait" /\ flags # {}
    /\ flags' = {}
    /\ \/ "INPUT" \in flags /\ gpc' = "input" /\ taken' = flags
       \/ "INPUT" \notin flags /\ gpc' = "redraw" /\ UNCHANGED taken
    /\ UNCHANGED <<guiInputVars, delivery, portVars, shown>>

\* Mutant: a view port that is no longer on top gets no release.
ReceiverOnTop(e, port, ongoing) ==
    IF port # None /\ port = ongoing THEN ongoing ELSE None

\* The view port that gets the event, if any.
Receiver(e, port, ongoing) ==
    IF (port # None /\ port = ongoing) \/ e.type = "Release"
    THEN ongoing ELSE None

\* gui_input
gui_input ==
    /\ gpc = "input" /\ gui_queue # <<>>
    /\ gui_queue' = Tail(gui_queue)
    /\ LET e == Head(gui_queue)
           ongoing == CASE e.type = "Release" -> gui_ongoing_input \ {e.key}
                        [] e.type = "Press" -> gui_ongoing_input \cup {e.key}
                        [] OTHER -> gui_ongoing_input
           complementary == e.type = "Release" \/ e.key \in ongoing
           port == Topmost
           first == e.type = "Press" /\ ongoing = {e.key}
           ignored == direct_draw /\ ongoing_input_view_port = None
           receiver == Receiver(e, port, ongoing_input_view_port')
       IN  /\ gui_ongoing_input' = ongoing
           /\ ongoing_input_view_port' =
                 IF first /\ ~ignored THEN port ELSE ongoing_input_view_port
           /\ \/ /\ complementary /\ ~ignored /\ receiver # None
                 /\ delivery' =
                      [port |-> receiver,
                       event |-> view_port_map_input(e, orientation[receiver])]
                 /\ gpc' = "deliver"
              \/ /\ ~complementary \/ ignored \/ receiver = None
                 /\ UNCHANGED <<delivery, gpc>>
    /\ UNCHANGED <<last, publishing, taken, portVars, flags, shown>>

\* The input callback of the view port returns.
DeliveryReturns ==
    /\ gpc = "deliver"
    /\ delivery' = None /\ gpc' = "input"
    /\ UNCHANGED <<guiInputVars, taken, portVars, flags, shown>>

\* The queue is empty.
InputDone ==
    /\ gpc = "input" /\ gui_queue = <<>>
    /\ gpc' = IF "DRAW" \in taken THEN "redraw" ELSE "wait"
    /\ taken' = {}
    /\ UNCHANGED <<guiInputVars, delivery, portVars, flags, shown>>

\* furi_thread_flags_clear, ...
ClearDrawFlag ==
    /\ gpc = "redraw"
    /\ flags' = flags \ {"DRAW"}
    /\ gpc' = "draw"
    /\ UNCHANGED <<guiInputVars, taken, delivery, portVars, shown>>

\* ... then gui_redraw; picture is what the view ports draw.
gui_redraw(picture) ==
    /\ gpc = "draw"
    /\ shown' = IF direct_draw THEN shown ELSE picture
    /\ gpc' = "wait"
    /\ UNCHANGED <<guiInputVars, taken, delivery, portVars, flags>>
-----------------------------------------------------------------------------
(* Calls of other threads; each changes the state with the mutex held,     *)
(* then asks for a redraw.                                                 *)

gui_add_view_port(port, layer) ==
    /\ Unlocked /\ ~Attached(port)
    /\ layer = "Fullscreen" \/ orientation[port] \notin {"Vertical", "VerticalFlip"}
    /\ layers' = [layers EXCEPT ![layer] = Append(@, port)]
    /\ gui_update(direct_draw)
    /\ UNCHANGED <<guiInputVars, guiThreadVars, enabled, orientation, lockdown,
                   direct_draw, shown>>

\* A view port is in the layers at most once (see gui_add_view_port).
gui_remove_view_port(port) ==
    /\ Unlocked
    /\ layers' = [l \in GuiLayer |-> RemoveFirst(layers[l], port)]
    /\ ongoing_input_view_port' =
          IF ongoing_input_view_port = port THEN None
          ELSE ongoing_input_view_port
    /\ gui_update(direct_draw)
    /\ UNCHANGED <<last, publishing, gui_queue, gui_ongoing_input,
                   guiThreadVars, enabled, orientation, lockdown, direct_draw,
                   shown>>

\* The layer of the view port, without it and with it at the given end.
Moved(l, port, tofront) ==
    LET rest == RemoveFirst(layers[l], port)
    IN  IF port \notin ToSet(layers[l]) THEN layers[l]
        ELSE IF tofront THEN Append(rest, port)
        ELSE InsertAt(rest, 1, port)

\* gui_view_port_send_to_front, gui_view_port_send_to_back
gui_view_port_send(port, tofront) ==
    /\ Unlocked /\ Attached(port)
    /\ layers' = [l \in GuiLayer |-> Moved(l, port, tofront)]
    /\ gui_update(direct_draw)
    /\ UNCHANGED <<guiInputVars, guiThreadVars, enabled, orientation, lockdown,
                   direct_draw, shown>>

gui_set_lockdown(locked) ==
    /\ Unlocked
    /\ lockdown' = locked
    /\ gui_update(direct_draw)
    /\ UNCHANGED <<guiInputVars, guiThreadVars, layers, enabled, orientation,
                   direct_draw, shown>>

\* The screen is the caller's until it is released.
gui_direct_draw_acquire ==
    /\ Unlocked
    /\ direct_draw' = TRUE
    /\ shown' = None
    /\ UNCHANGED <<guiInputVars, guiThreadVars, layers, enabled, orientation,
                   lockdown, flags>>

\* Mutant: the redraw is requested first.
ReleaseUpdatesFirst ==
    /\ Unlocked /\ direct_draw
    /\ direct_draw' = FALSE
    /\ shown' = None
    /\ gui_update(direct_draw)
    /\ UNCHANGED <<guiInputVars, guiThreadVars, layers, enabled, orientation,
                   lockdown>>

gui_direct_draw_release ==
    /\ Unlocked /\ direct_draw
    /\ direct_draw' = FALSE
    /\ shown' = None
    /\ gui_update(FALSE)
    /\ UNCHANGED <<guiInputVars, guiThreadVars, layers, enabled, orientation,
                   lockdown>>
=============================================================================
