------------------------ MODULE ViewDispatcher_proofs ------------------------
(***************************************************************************)
(* Proofs about ViewDispatcher and the GUI service it is attached to, for  *)
(* any keys, views and queue lengths.                                      *)
(***************************************************************************)
EXTENDS ViewDispatcher, SequenceLemmas

\* Each view port is in one layer, once, ...
LayersOnce ==
    /\ \A l \in GuiLayer : IsInjective(layers[l])
    /\ \A l, m \in GuiLayer :
          l # m => ToSet(layers[l]) \cap ToSet(layers[m]) = {}

\* ... the dispatcher's in none when it has been freed.  An event is delivered
\* while the GUI thread is in a callback.
Placed ==
    /\ LayersOnce
    /\ dpc = "freed" => ~ Attached(Dispatcher)
    /\ gpc = "deliver" <=> delivery # None

\* What the screen shows is current, or it will be drawn again.
Redrawn ==
    \/ shown = Picture \/ direct_draw
    \/ "DRAW" \in flags
    \/ gpc \in {"input", "deliver"} /\ "DRAW" \in taken
    \/ gpc \in {"redraw", "draw"}

\* The thread is woken for the events in its queue.
Woken ==
    gui_queue # <<>> =>
        publishing \/ "INPUT" \in flags \/ gpc \in {"input", "deliver"}

\* An event takes the keys that are down from `before' to `after'; a key is
\* not pressed while it is down.
Moves(before, e, after) ==
    /\ e.type = "Press" => e.key \notin before /\ after = before \cup {e.key}
    /\ e.type = "Release" => after = before \ {e.key}
    /\ e.type \notin {"Press", "Release"} => after = before

\* So do the events of a queue, one after the other.
Through(before, q, after) ==
    \E down \in [0 .. Len(q) -> SUBSET InputKey] :
        /\ down[0] = before /\ down[Len(q)] = after
        /\ \A i \in 1 .. Len(q) : Moves(down[i - 1], q[i], down[i])

\* What the GUI thread knows of the keys, and its queue, agree with the user.
KeysDown == {k \in Keys : last[k] # "Release"}
GuiInStep == Through(gui_ongoing_input, gui_queue, KeysDown)

\* The events on their way to the dispatcher, the one that waits for room
\* included.
Incoming ==
    IF delivery # None /\ delivery.port = Dispatcher
    THEN Append(input_queue, delivery.event) ELSE input_queue

\* The keys whose release will go to the dispatcher.
Promised ==
    IF ongoing_input_view_port = Dispatcher
    THEN {view_port_input_mapping[orientation[Dispatcher]][k] :
             k \in gui_ongoing_input}
    ELSE {}

\* After the events on their way no other keys are down for the dispatcher.
DispatcherInStep ==
    \E after \in SUBSET Promised : Through(ongoing_input, Incoming, after)

\* The view that has got a press is the one that gets the release.
ViewInStep ==
    dpc = "loop" =>
        \A v \in Views :
            /\ holding[v] \subseteq ongoing_input
            /\ holding[v] # {} => ongoing_input_view = v

InStep == ~ sacrificed => DispatcherInStep /\ ViewInStep

\* Nobody waits for a key once view_dispatcher_run has returned.
Drained == dpc \in {"done", "freed"} => ongoing_input = {}

Structure == TypeOK /\ Placed /\ DetachedUntouched

Inv ==
    /\ Structure /\ Redrawn /\ Woken
    /\ GuiInStep /\ Drained /\ InStep
-----------------------------------------------------------------------------
(* Sequences of key events.                                                *)

LEMMA ThroughEmpty ==
    ASSUME NEW before \in SUBSET InputKey, NEW after
    PROVE  Through(before, <<>>, after) <=> before = after
<1>1. Len(<<>>) = 0
  BY EmptySeq
<1>2. ASSUME before = after
      PROVE  Through(before, <<>>, after)
  <2> DEFINE down == [i \in 0 .. 0 |-> before]
  <2>1. down \in [0 .. 0 -> SUBSET InputKey] /\ down[0] = before
    OBVIOUS
  <2> HIDE DEF down
  <2>2. QED
    BY <1>1, <1>2, <2>1 DEF Through
<1>3. QED
  BY <1>1, <1>2 DEF Through

LEMMA ThroughAppend ==
    ASSUME NEW q \in Seq(Events), NEW e \in Events, NEW before, NEW between,
           NEW after \in SUBSET InputKey,
           Through(before, q, between), Moves(between, e, after)
    PROVE  Through(before, Append(q, e), after)
<1> DEFINE n == Len(q)
<1>1. /\ n \in Nat /\ Len(Append(q, e)) = n + 1
      /\ \A i \in 1 .. n : Append(q, e)[i] = q[i]
      /\ Append(q, e)[n + 1] = e
  BY AppendProperties, LenProperties
<1>2. PICK down \in [0 .. n -> SUBSET InputKey] :
          /\ down[0] = before /\ down[n] = between
          /\ \A i \in 1 .. n : Moves(down[i - 1], q[i], down[i])
  BY DEF Through
<1> DEFINE new == [i \in 0 .. n + 1 |-> IF i <= n THEN down[i] ELSE after]
<1> HIDE DEF n
<1>3. /\ new \in [0 .. n + 1 -> SUBSET InputKey]
      /\ new[n + 1] = after /\ \A i \in 0 .. n : new[i] = down[i]
  BY <1>1
<1> HIDE DEF new
<1>4. ASSUME NEW i \in 1 .. n + 1
      PROVE  Moves(new[i - 1], Append(q, e)[i], new[i])
  <2>1. CASE i = n + 1
    <3>1. n \in 0 .. n /\ i - 1 = n
      BY <1>1, <2>1
    <3>2. new[i - 1] = between /\ new[i] = after /\ Append(q, e)[i] = e
      BY <1>1, <1>2, <1>3, <2>1, <3>1
    <3>3. QED
      BY <3>2
  <2>2. CASE i # n + 1
    <3>1. i \in 1 .. n /\ i \in 0 .. n /\ i - 1 \in 0 .. n
      BY <1>1, <2>2
    <3>2. /\ new[i - 1] = down[i - 1] /\ new[i] = down[i]
          /\ Append(q, e)[i] = q[i]
      BY <1>1, <1>3, <3>1
    <3>3. Moves(down[i - 1], q[i], down[i])
      BY <1>2, <3>1
    <3>4. QED
      BY <3>2, <3>3
  <2>3. QED
    BY <2>1, <2>2
<1>5. new[0] = before
  BY <1>1, <1>2, <1>3
<1>6. QED
  BY <1>1, <1>3, <1>4, <1>5 DEF Through

LEMMA ThroughTail ==
    ASSUME NEW q \in Seq(Events), q # <<>>, NEW before, NEW after,
           Through(before, q, after)
    PROVE  \E between \in SUBSET InputKey :
               /\ Moves(before, Head(q), between)
               /\ Through(between, Tail(q), after)
<1> DEFINE n == Len(Tail(q))
<1>1. /\ n \in Nat /\ Len(q) = n + 1 /\ Head(q) = q[1]
      /\ \A i \in 1 .. n : Tail(q)[i] = q[i + 1]
  BY HeadTailProperties, LenProperties, EmptySeq
<1>2. PICK down \in [0 .. n + 1 -> SUBSET InputKey] :
          /\ down[0] = before /\ down[n + 1] = after
          /\ \A i \in 1 .. n + 1 : Moves(down[i - 1], q[i], down[i])
  BY <1>1 DEF Through
<1> DEFINE new == [i \in 0 .. n |-> down[i + 1]]
<1> HIDE DEF n
<1>3. /\ new \in [0 .. n -> SUBSET InputKey]
      /\ \A i \in 0 .. n : new[i] = down[i + 1]
  BY <1>1
<1> HIDE DEF new
<1>4. ASSUME NEW i \in 1 .. n
      PROVE  Moves(new[i - 1], Tail(q)[i], new[i])
  <2>1. /\ i + 1 \in 1 .. n + 1 /\ (i + 1) - 1 = i
        /\ i \in 0 .. n /\ i - 1 \in 0 .. n /\ (i - 1) + 1 = i
    BY <1>1
  <2>2. Moves(down[i], q[i + 1], down[i + 1])
    BY <1>2, <2>1
  <2>3. new[i - 1] = down[i] /\ new[i] = down[i + 1]
    BY <1>3, <2>1
  <2>4. QED
    BY <1>1, <2>2, <2>3
<1>5. new[0] = down[1] /\ new[n] = after
  BY <1>1, <1>2, <1>3
<1>6. Through(down[1], Tail(q), after)
  <2>1. Len(Tail(q)) = n
    BY DEF n
  <2>2. QED
    BY <1>3, <1>4, <1>5, <2>1 DEF Through
<1>7. Moves(before, Head(q), down[1])
  <2>1. 1 \in 1 .. n + 1 /\ 1 - 1 = 0
    BY <1>1
  <2>2. QED
    BY <1>1, <1>2, <2>1
<1>8. down[1] \in SUBSET InputKey
  BY <1>1, <1>2
<1>9. QED
  BY <1>6, <1>7, <1>8

\* A key that is down before and not after has been released in between.
LEMMA ThroughRelease ==
    ASSUME NEW q \in Seq(Events), NEW before, NEW after,
           Through(before, q, after), NEW k \in before, k \notin after
    PROVE  Event(k, "Release") \in ToSet(q)
<1>1. Len(q) \in Nat /\ DOMAIN q = 1 .. Len(q)
      /\ \A i \in 1 .. Len(q) : q[i] \in Events
  BY LenProperties, ElementOfSeq
<1>2. PICK down \in [0 .. Len(q) -> SUBSET InputKey] :
          /\ down[0] = before /\ down[Len(q)] = after
          /\ \A i \in 1 .. Len(q) : Moves(down[i - 1], q[i], down[i])
  BY DEF Through
<1> DEFINE U == {i \in 0 .. Len(q) : k \notin down[i]}
           i == Min(U)
<1>3. U \in SUBSET Nat /\ Len(q) \in U
  BY <1>1, <1>2
<1>4. i \in U /\ \A j \in U : i <= j
  <2> HIDE DEF U
  <2>1. QED
    BY <1>3, MinOfNat
<1> HIDE DEF i
<1>5. i # 0 /\ i \in 0 .. Len(q) /\ k \notin down[i]
  BY <1>2, <1>4
<1>6. i \in 1 .. Len(q) /\ i - 1 \in 0 .. Len(q) /\ ~ (i <= i - 1)
  BY <1>1, <1>5
<1>7. k \in down[i - 1]
  BY <1>4, <1>6
<1>8. Moves(down[i - 1], q[i], down[i]) /\ q[i] \in Events
  BY <1>1, <1>2, <1>6
<1>9. q[i].type = "Release" /\ q[i].key = k
  BY <1>5, <1>7, <1>8 DEF Moves
<1>10. q[i] = Event(k, "Release")
  BY <1>8, <1>9 DEF Events, Event
<1>11. QED
  BY <1>1, <1>6, <1>10 DEF ToSet
-----------------------------------------------------------------------------
(* View ports and layers.                                                  *)

LEMMA PortFacts ==
    /\ Dispatcher \in Ports /\ Desktop \in Ports /\ Popup \in Ports
    /\ Dispatcher # Desktop /\ Dispatcher # Popup /\ Desktop # Popup
    /\ None \notin Ports /\ None \notin Views
  BY ViewDispatcherAssumption, GuiAssumption

\* view_port_input_mapping is a permutation of the keys.
LEMMA MapInput ==
    ASSUME NEW o \in Orientation
    PROVE  /\ \A k \in InputKey : view_port_input_mapping[o][k] \in InputKey
           /\ \A k, j \in InputKey :
                 view_port_input_mapping[o][k] = view_port_input_mapping[o][j]
                     => k = j
<1>1. CASE o = "Horizontal"
  BY <1>1 DEF view_port_input_mapping, InputKey
<1>2. CASE o = "HorizontalFlip"
  BY <1>2 DEF view_port_input_mapping, InputKey
<1>3. CASE o = "Vertical"
  BY <1>3 DEF view_port_input_mapping, InputKey
<1>4. CASE o = "VerticalFlip"
  BY <1>4 DEF view_port_input_mapping, InputKey
<1>5. QED
  BY <1>1, <1>2, <1>3, <1>4 DEF Orientation

LEMMA FindEnabled ==
    ASSUME PortTypeOK, NEW l \in GuiLayer
    PROVE  \/ gui_view_port_find_enabled(l) = None
           \/ /\ gui_view_port_find_enabled(l) \in enabled
              /\ gui_view_port_find_enabled(l) \in ToSet(layers[l])
<1> DEFINE n == Len(layers[l])
           I == {i \in 1 .. n : layers[l][i] \in enabled}
           top == IF I # {} THEN Max(I) ELSE 0
<1>1. layers[l] \in Seq(Ports)
  BY DEF PortTypeOK
<1>2. n \in Nat /\ DOMAIN layers[l] = 1 .. n
  BY <1>1, LenProperties
<1>3. top = 0 \/ (top \in 1 .. n /\ layers[l][top] \in enabled)
  <2>1. CASE I = {}
    BY <2>1
  <2>2. CASE I # {}
    <3>1. I \in SUBSET (0 .. n)
      BY <1>2
    <3>2. Max(I) \in I
      <4> HIDE DEF I, n
      <4>1. QED
        BY <1>2, <2>2, <3>1, MaxOfNat
    <3>3. QED
      BY <2>2, <3>2
  <2>3. QED
    BY <2>1, <2>2
<1>4. gui_view_port_find_enabled(l) =
          IF top = 0 THEN None ELSE layers[l][top]
  BY DEF gui_view_port_find_enabled, SelectLastInSeq
<1> HIDE DEF top
<1>5. QED
  BY <1>2, <1>3, <1>4 DEF ToSet

LEMMA TopmostAttached ==
    ASSUME PortTypeOK, Topmost # None
    PROVE  Topmost \in enabled /\ Topmost \in Ports /\ Attached(Topmost)
<1>1. \E l \in GuiLayer : Topmost = gui_view_port_find_enabled(l)
  <2> DEFINE F == gui_view_port_find_enabled("Fullscreen")
             W == gui_view_port_find_enabled("Window")
             D == gui_view_port_find_enabled("Desktop")
  <2>1. Topmost = CASE ~lockdown /\ F # None -> F
                    [] ~lockdown /\ F = None /\ W # None -> W
                    [] OTHER -> D
    BY Zenon DEF Topmost
  <2> HIDE DEF F, W, D
  <2>2. Topmost = F \/ Topmost = W \/ Topmost = D
    BY <2>1
  <2>3. QED
    BY <2>2 DEF F, W, D, GuiLayer
<1>2. PICK l \in GuiLayer : Topmost = gui_view_port_find_enabled(l)
  BY <1>1
<1>3. Topmost \in enabled /\ Topmost \in ToSet(layers[l])
  BY <1>2, FindEnabled
<1>4. QED
  BY <1>3 DEF Attached, PortTypeOK

\* What the layers are after a change of one of them.
LayersType == layers \in [GuiLayer -> Seq(Ports)]

LEMMA AddPort ==
    ASSUME PortTypeOK, LayersOnce, NEW port \in Ports, NEW layer \in GuiLayer,
           gui_add_view_port(port, layer)
    PROVE  /\ LayersType' /\ LayersOnce'
           /\ \A p \in Ports : Attached(p)' <=> Attached(p) \/ p = port
<1>1. /\ ~ Attached(port)
      /\ layers' = [layers EXCEPT ![layer] = Append(@, port)]
  BY DEF gui_add_view_port
<1>2. layers[layer] \in Seq(Ports) /\ port \notin ToSet(layers[layer])
  BY <1>1 DEF PortTypeOK, Attached
<1>3. /\ Append(layers[layer], port) \in Seq(Ports)
      /\ ToSet(Append(layers[layer], port)) = ToSet(layers[layer]) \cup {port}
      /\ IsInjective(Append(layers[layer], port))
  BY <1>2, AppendList DEF LayersOnce
<1>4. /\ layers' \in [GuiLayer -> Seq(Ports)]
      /\ layers'[layer] = Append(layers[layer], port)
      /\ \A l \in GuiLayer : l # layer => layers'[l] = layers[l]
  BY <1>1, <1>3 DEF PortTypeOK
<1>5. \A l \in GuiLayer :
          /\ IsInjective(layers'[l])
          /\ ToSet(layers'[l]) = IF l = layer THEN ToSet(layers[l]) \cup {port}
                                              ELSE ToSet(layers[l])
  BY <1>3, <1>4 DEF LayersOnce
<1>6. \A l \in GuiLayer : port \notin ToSet(layers[l])
  BY <1>1 DEF Attached
<1>7. LayersOnce'
  BY <1>5, <1>6 DEF LayersOnce
<1>8. QED
  BY <1>4, <1>5, <1>7 DEF LayersType, Attached

LEMMA RemovePort ==
    ASSUME PortTypeOK, LayersOnce, NEW port \in Ports,
           gui_remove_view_port(port)
    PROVE  /\ LayersType' /\ LayersOnce'
           /\ \A p \in Ports : Attached(p)' <=> Attached(p) /\ p # port
<1>1. layers' = [l \in GuiLayer |-> RemoveFirst(layers[l], port)]
  BY DEF gui_remove_view_port
<1>2. ASSUME NEW l \in GuiLayer
      PROVE  /\ layers'[l] \in Seq(Ports) /\ IsInjective(layers'[l])
             /\ ToSet(layers'[l]) = ToSet(layers[l]) \ {port}
  <2>1. layers[l] \in Seq(Ports) /\ IsInjective(layers[l])
    BY DEF PortTypeOK, LayersOnce
  <2>2. layers'[l] = RemoveFirst(layers[l], port)
    BY <1>1
  <2>3. QED
    BY <2>1, <2>2, UnlinkList
<1>3. layers' \in [GuiLayer -> Seq(Ports)]
  BY <1>1, <1>2
<1>4. LayersOnce'
  BY <1>2 DEF LayersOnce
<1>5. QED
  BY <1>2, <1>3, <1>4 DEF LayersType, Attached

LEMMA SendPort ==
    ASSUME PortTypeOK, LayersOnce, NEW port \in Ports, NEW tofront \in BOOLEAN,
           gui_view_port_send(port, tofront)
    PROVE  /\ LayersType' /\ LayersOnce'
           /\ \A p \in Ports : Attached(p)' <=> Attached(p)
<1>1. layers' = [l \in GuiLayer |-> Moved(l, port, tofront)]
  BY DEF gui_view_port_send
<1>2. ASSUME NEW l \in GuiLayer
      PROVE  /\ layers'[l] \in Seq(Ports) /\ IsInjective(layers'[l])
             /\ ToSet(layers'[l]) = ToSet(layers[l])
  <2> DEFINE rest == RemoveFirst(layers[l], port)
  <2>1. layers[l] \in Seq(Ports) /\ IsInjective(layers[l])
    BY DEF PortTypeOK, LayersOnce
  <2>2. /\ rest \in Seq(Ports) /\ IsInjective(rest)
        /\ ToSet(rest) = ToSet(layers[l]) \ {port}
    BY <2>1, UnlinkList
  <2>3. layers'[l] = Moved(l, port, tofront)
    BY <1>1
  <2>4. CASE port \notin ToSet(layers[l])
    <3>1. layers'[l] = layers[l]
      BY <2>3, <2>4 DEF Moved
    <3> HIDE DEF rest
    <3>2. QED
      BY <2>1, <3>1
  <2>5. CASE port \in ToSet(layers[l]) /\ tofront
    <3>1. layers'[l] = Append(rest, port)
      BY <2>3, <2>5 DEF Moved
    <3> HIDE DEF rest
    <3>2. QED
      BY <2>2, <2>5, <3>1, AppendList
  <2>6. CASE port \in ToSet(layers[l]) /\ ~ tofront
    <3>1. layers'[l] = InsertAt(rest, 1, port)
      BY <2>3, <2>6 DEF Moved
    <3> HIDE DEF rest
    <3>2. 1 \in 1 .. Len(rest) + 1
      BY <2>2, LenProperties
    <3>3. port \notin ToSet(rest)
      BY <2>2
    <3>4. /\ InsertAt(rest, 1, port) \in Seq(Ports)
          /\ ToSet(InsertAt(rest, 1, port)) = ToSet(rest) \cup {port}
          /\ IsInjective(InsertAt(rest, 1, port))
      BY <2>2, <3>2, <3>3, InsertList
    <3>5. QED
      BY <2>2, <2>6, <3>1, <3>4
  <2>7. QED
    BY <2>4, <2>5, <2>6
<1>3. layers' \in [GuiLayer -> Seq(Ports)]
  BY <1>1, <1>2
<1>4. LayersOnce'
  BY <1>2 DEF LayersOnce
<1>5. QED
  BY <1>2, <1>3, <1>4 DEF LayersType, Attached
-----------------------------------------------------------------------------
(* Types, view ports and views.                                            *)

\* A step that leaves the layers alone leaves the view ports where they are.
LEMMA LayersKept ==
    ASSUME UNCHANGED layers
    PROVE  /\ LayersOnce' <=> LayersOnce
           /\ \A p : Attached(p)' <=> Attached(p)
  BY DEF LayersOnce, Attached

\* A step that leaves the dispatcher alone is a matter of the GUI service.
LEMMA DispatcherKept ==
    ASSUME Structure, UNCHANGED vdVars, GuiTypeOK', Placed',
           ongoing_input_view_port' # None => Attached(ongoing_input_view_port)',
           delivery' # None => Attached(delivery.port)'
    PROVE  Structure'
<1>1. ViewTypeOK'
  BY DEF Structure, TypeOK, ViewTypeOK, vdVars, viewVars, inputVars, ghostVars
<1>2. ApplicationTypeOK'
  BY DEF Structure, TypeOK, ApplicationTypeOK, vdVars, inputVars
<1>3. {current_view, ongoing_input_view}' \subseteq views' \cup {None}
  BY DEF Structure, DetachedUntouched, vdVars, viewVars, inputVars
<1>4. QED
  BY <1>1, <1>2, <1>3 DEF Structure, TypeOK, DetachedUntouched

\* A step that leaves the GUI service alone is a matter of the dispatcher.
LEMMA GuiKept ==
    ASSUME Structure, UNCHANGED guiVars, ViewTypeOK', ApplicationTypeOK',
           {current_view, ongoing_input_view}' \subseteq views' \cup {None},
           dpc' = "freed" => dpc = "freed"
    PROVE  Structure'
<1>1. /\ UNCHANGED <<last, publishing, gui_queue, gui_ongoing_input,
                     ongoing_input_view_port>>
      /\ UNCHANGED <<gpc, taken, delivery, flags>>
      /\ UNCHANGED <<layers, enabled, orientation, lockdown, direct_draw>>
  BY DEF guiVars, guiInputVars, guiThreadVars, portVars
<1>2. GuiTypeOK'
  BY <1>1 DEF Structure, TypeOK, GuiTypeOK, KeyTypeOK, GuiThreadTypeOK,
              PortTypeOK
<1>3. Placed'
  BY <1>1, LayersKept DEF Structure, Placed
<1>4. DetachedUntouched'
  BY <1>1, LayersKept DEF Structure, DetachedUntouched
<1>5. QED
  BY <1>2, <1>3, <1>4 DEF Structure, TypeOK

LEMMA KeyEventStructure ==
    ASSUME Structure, NEW k \in Keys, NEW type \in Types, KeyEvent(k, type)
    PROVE  Structure'
<1>1. /\ Len(gui_queue) < GuiQueueSize /\ KeyOrder!Publish(k, type)
      /\ gui_queue' = Append(gui_queue, Event(k, type))
      /\ publishing' = TRUE
      /\ UNCHANGED <<flags, gui_ongoing_input, ongoing_input_view_port,
                     guiThreadVars, portVars>>
      /\ UNCHANGED vdVars
  BY DEF KeyEvent, gui_input_events_callback
<1>2. k \in InputKey /\ type \in KeyOrder!InputType
  BY GuiAssumption, ViewDispatcherAssumption
<1>3. Event(k, type) \in Events
  BY <1>2 DEF Event, Events
<1>4. gui_queue \in Seq(Events) /\ Len(gui_queue) \in Nat
  BY LenProperties DEF Structure, TypeOK, GuiTypeOK, KeyTypeOK
<1>5. gui_queue' \in Seq(Events) /\ Len(gui_queue') = Len(gui_queue) + 1
  BY <1>1, <1>3, <1>4, AppendProperties
<1>6. Len(gui_queue') <= GuiQueueSize
  BY <1>1, <1>4, <1>5, GuiAssumption
<1>7. last' \in [Keys -> KeyOrder!InputType]
  BY <1>1, <1>2 DEF Structure, TypeOK, GuiTypeOK, KeyTypeOK, KeyOrder!Publish
<1>8. KeyTypeOK'
  BY <1>1, <1>5, <1>6, <1>7 DEF Structure, TypeOK, GuiTypeOK, KeyTypeOK
<1>9. GuiThreadTypeOK' /\ PortTypeOK'
  BY <1>1 DEF Structure, TypeOK, GuiTypeOK, GuiThreadTypeOK, PortTypeOK,
              guiThreadVars, portVars
<1>10. UNCHANGED <<layers, gpc, delivery, dpc, ongoing_input_view_port>>
  BY <1>1 DEF guiThreadVars, portVars, vdVars
<1>11. QED
  BY <1>1, <1>8, <1>9, <1>10, LayersKept, DispatcherKept
     DEF Structure, Placed, DetachedUntouched, GuiTypeOK

\* Steps of the publisher and of the GUI thread that hand over no event.
LEMMA ThreadStructure ==
    ASSUME Structure,
           \/ SetInputFlag \/ TakeFlags \/ InputDone \/ ClearDrawFlag
           \/ gui_redraw(Picture),
           UNCHANGED vdVars
    PROVE  Structure'
<1>1. /\ UNCHANGED <<last, gui_queue, gui_ongoing_input,
                     ongoing_input_view_port, delivery>>
      /\ UNCHANGED portVars
      /\ publishing' \in {publishing, FALSE}
  BY DEF SetInputFlag, TakeFlags, InputDone, ClearDrawFlag, gui_redraw,
         guiInputVars, guiThreadVars
<1>2. KeyTypeOK' /\ PortTypeOK'
  BY <1>1 DEF Structure, TypeOK, GuiTypeOK, KeyTypeOK, PortTypeOK, portVars
<1>3. GuiThreadTypeOK' /\ (gpc' = "deliver" <=> gpc = "deliver")
  BY <1>1 DEF Structure, TypeOK, GuiTypeOK, GuiThreadTypeOK, SetInputFlag,
              TakeFlags, InputDone, ClearDrawFlag, gui_redraw, guiThreadVars
<1>4. UNCHANGED <<layers, dpc>>
  BY <1>1 DEF portVars, vdVars
<1>5. QED
  BY <1>1, <1>2, <1>3, <1>4, LayersKept, DispatcherKept
     DEF Structure, Placed, DetachedUntouched, GuiTypeOK

\* What gui_input does with the event e at the head of the queue.
OngoingKeys(e) ==
    IF e.type = "Release" THEN gui_ongoing_input \ {e.key}
    ELSE IF e.type = "Press" THEN gui_ongoing_input \cup {e.key}
    ELSE gui_ongoing_input

LEMMA GuiInputStep ==
    ASSUME gui_input, NEW e, e = Head(gui_queue)
    PROVE  /\ gpc = "input" /\ gui_queue # <<>> /\ gui_queue' = Tail(gui_queue)
           /\ gui_ongoing_input' = OngoingKeys(e)
           /\ ongoing_input_view_port' =
                 IF /\ e.type = "Press" /\ OngoingKeys(e) = {e.key}
                    /\ ~ (direct_draw /\ ongoing_input_view_port = None)
                 THEN Topmost ELSE ongoing_input_view_port
           /\ LET r == Receiver(e, Topmost, ongoing_input_view_port')
              IN  \/ /\ r # None
                     /\ delivery' = [port |-> r,
                            event |-> view_port_map_input(e, orientation[r])]
                     /\ gpc' = "deliver"
                  \/ /\ \/ e.type # "Release" /\ e.key \notin OngoingKeys(e)
                        \/ direct_draw /\ ongoing_input_view_port = None
                        \/ r = None
                     /\ UNCHANGED <<delivery, gpc>>
           /\ UNCHANGED <<last, publishing, taken, portVars, flags, shown>>
<1>1. OngoingKeys(e) =
          CASE e.type = "Release" -> gui_ongoing_input \ {e.key}
            [] e.type = "Press" -> gui_ongoing_input \cup {e.key}
            [] OTHER -> gui_ongoing_input
  <2>1. CASE e.type = "Release"
    <3>1. e.type # "Press"
      BY <2>1
    <3>2. QED
      BY <2>1, <3>1, Zenon DEF OngoingKeys
  <2>2. CASE e.type = "Press"
    <3>1. e.type # "Release"
      BY <2>2
    <3>2. QED
      BY <2>2, <3>1, Zenon DEF OngoingKeys
  <2>3. CASE e.type # "Release" /\ e.type # "Press"
    BY <2>3, Zenon DEF OngoingKeys
  <2>4. QED
    BY <2>1, <2>2, <2>3
<1>2. QED
  BY <1>1, Zenon DEF gui_input

LEMMA OngoingKeysType ==
    ASSUME KeyTypeOK, NEW e \in Events
    PROVE  OngoingKeys(e) \subseteq InputKey
  BY DEF KeyTypeOK, Events, OngoingKeys

LEMMA GuiInputStructure ==
    ASSUME Structure, gui_input, UNCHANGED vdVars
    PROVE  Structure'
<1> DEFINE e == Head(gui_queue)
           r == Receiver(e, Topmost, ongoing_input_view_port')
<1>1. /\ gpc = "input" /\ gui_queue # <<>> /\ gui_queue' = Tail(gui_queue)
      /\ gui_ongoing_input' = OngoingKeys(e)
      /\ ongoing_input_view_port' \in {Topmost, ongoing_input_view_port}
      /\ \/ /\ r # None /\ gpc' = "deliver"
            /\ delivery' = [port |-> r,
                            event |-> view_port_map_input(e, orientation[r])]
         \/ UNCHANGED <<delivery, gpc>>
      /\ UNCHANGED <<last, publishing, taken, portVars, flags>>
  BY GuiInputStep
<1>2. gui_queue \in Seq(Events) /\ KeyTypeOK /\ GuiThreadTypeOK /\ PortTypeOK
  BY DEF Structure, TypeOK, GuiTypeOK, KeyTypeOK
<1>3. e \in Events /\ Tail(gui_queue) \in Seq(Events)
  BY <1>1, <1>2, HeadTailProperties
<1>4. Len(Tail(gui_queue)) <= GuiQueueSize
  <2>1. Len(gui_queue) \in Nat /\ Len(Tail(gui_queue)) = Len(gui_queue) - 1
    BY <1>1, <1>2, LenProperties, HeadTailProperties
  <2>2. QED
    BY <1>2, <2>1, GuiAssumption DEF KeyTypeOK
<1>5. ongoing_input_view_port' # None =>
          /\ ongoing_input_view_port' \in Ports
          /\ Attached(ongoing_input_view_port')
  BY <1>1, <1>2, TopmostAttached DEF KeyTypeOK, Structure, DetachedUntouched
<1>6. r = None \/ r = ongoing_input_view_port'
  BY DEF Receiver
<1> HIDE DEF r
<1>7. ASSUME r # None
      PROVE  /\ r \in Ports /\ Attached(r)
             /\ view_port_map_input(e, orientation[r]) \in Events
  <2>1. r \in Ports /\ Attached(r)
    BY <1>5, <1>6, <1>7
  <2>2. orientation[r] \in Orientation
    BY <1>2, <2>1 DEF PortTypeOK
  <2>3. e.key \in InputKey /\ e.type \in KeyOrder!InputType
    BY <1>3 DEF Events
  <2>4. view_port_input_mapping[orientation[r]][e.key] \in InputKey
    BY <2>2, <2>3, MapInput
  <2>5. QED
    BY <2>1, <2>3, <2>4 DEF view_port_map_input, Event, Events
<1>8. UNCHANGED <<layers, enabled, orientation, lockdown, direct_draw, dpc>>
  BY <1>1 DEF portVars, vdVars
<1>9. KeyTypeOK'
  BY <1>1, <1>2, <1>3, <1>4, <1>5, OngoingKeysType DEF KeyTypeOK
<1>10. GuiThreadTypeOK' /\ PortTypeOK'
  BY <1>1, <1>2, <1>7, <1>8 DEF GuiThreadTypeOK, PortTypeOK, Deliveries
<1>11. Placed'
  <2>1. delivery = None
    BY <1>1 DEF Structure, Placed
  <2>2. gpc' = "deliver" <=> delivery' # None
    <3>1. CASE UNCHANGED <<delivery, gpc>>
      BY <1>1, <2>1, <3>1
    <3>2. CASE /\ r # None /\ gpc' = "deliver"
               /\ delivery' = [port |-> r,
                     event |-> view_port_map_input(e, orientation[r])]
      <4>1. delivery' \in Deliveries
        BY <1>7, <3>2 DEF Deliveries
      <4>2. QED
        BY <3>2, <4>1, NoneAssumption
    <3>3. QED
      BY <1>1, <3>1, <3>2
  <2>3. QED
    BY <1>8, <2>2, LayersKept DEF Structure, Placed
<1>12. /\ ongoing_input_view_port' # None => Attached(ongoing_input_view_port)'
       /\ delivery' # None => Attached(delivery.port)'
  <2>1. delivery' # None => Attached(delivery'.port)
    <3>1. delivery = None
      BY <1>1 DEF Structure, Placed
    <3>2. QED
      BY <1>1, <1>7, <3>1
  <2>2. \A l \in GuiLayer : layers'[l] = layers[l]
    BY <1>8
  <2>3. QED
    BY <1>5, <2>1, <2>2 DEF Attached
<1>13. QED
  BY <1>9, <1>10, <1>11, <1>12, DispatcherKept DEF GuiTypeOK

LEMMA CallbackStructure ==
    ASSUME Structure, view_dispatcher_input_callback
    PROVE  Structure'
<1>1. /\ gpc = "deliver" /\ delivery' = None /\ gpc' = "input"
      /\ UNCHANGED <<last, publishing, gui_queue, gui_ongoing_input,
                     ongoing_input_view_port, taken, flags>>
      /\ UNCHANGED <<layers, enabled, orientation, lockdown, direct_draw>>
      /\ UNCHANGED <<view_orientation, views, current_view, ongoing_input_view,
                     ongoing_input, dpc, call, events, stopping, holding,
                     sacrificed>>
  BY DEF view_dispatcher_input_callback, DeliveryReturns, guiInputVars,
         portVars, viewVars, ghostVars
<1>2. input_queue' \in Seq(Events) /\ Len(input_queue') <= InputQueueSize
  <2>1. input_queue \in Seq(Events) /\ Len(input_queue) <= InputQueueSize
    BY DEF Structure, TypeOK, ApplicationTypeOK
  <2>2. CASE UNCHANGED input_queue
    BY <2>1, <2>2
  <2>3. CASE /\ Len(input_queue) < InputQueueSize
             /\ input_queue' = Append(input_queue, delivery.event)
    <3>1. delivery.event \in Events
      BY <1>1 DEF Structure, Placed, TypeOK, GuiTypeOK, GuiThreadTypeOK,
                  Deliveries
    <3>2. /\ input_queue' \in Seq(Events)
          /\ Len(input_queue') = Len(input_queue) + 1
      BY <2>1, <2>3, <3>1, AppendProperties
    <3>3. Len(input_queue) \in Nat /\ InputQueueSize \in Nat
      BY <2>1, LenProperties, ViewDispatcherAssumption
    <3>4. QED
      BY <2>3, <3>2, <3>3
  <2>4. QED
    BY <2>2, <2>3 DEF view_dispatcher_input_callback
<1>3. TypeOK'
  <2>1. KeyTypeOK' /\ PortTypeOK'
    BY <1>1 DEF Structure, TypeOK, GuiTypeOK, KeyTypeOK, PortTypeOK
  <2>2. GuiThreadTypeOK'
    BY <1>1 DEF Structure, TypeOK, GuiTypeOK, GuiThreadTypeOK
  <2>3. ViewTypeOK'
    BY <1>1 DEF Structure, TypeOK, ViewTypeOK
  <2>4. ApplicationTypeOK'
    BY <1>1, <1>2 DEF Structure, TypeOK, ApplicationTypeOK
  <2>5. QED
    BY <2>1, <2>2, <2>3, <2>4 DEF TypeOK, GuiTypeOK
<1>4. Placed' /\ DetachedUntouched'
  BY <1>1, LayersKept DEF Structure, Placed, DetachedUntouched
<1>5. QED
  BY <1>3, <1>4 DEF Structure

LEMMA OngoingIs ==
    ASSUME NEW e
    PROVE  Ongoing(e) = IF e.type = "Press" THEN ongoing_input \cup {e.key}
                        ELSE IF e.type = "Release" THEN ongoing_input \ {e.key}
                        ELSE ongoing_input
<1>1. CASE e.type = "Press"
  <2>1. e.type # "Release"
    BY <1>1
  <2>2. QED
    BY <1>1, <2>1, Zenon DEF Ongoing
<1>2. CASE e.type = "Release"
  <2>1. e.type # "Press"
    BY <1>2
  <2>2. QED
    BY <1>2, <2>1, Zenon DEF Ongoing
<1>3. CASE e.type # "Release" /\ e.type # "Press"
  BY <1>3, Zenon DEF Ongoing
<1>4. QED
  BY <1>1, <1>2, <1>3

\* What a view does with the event it gets.
LEMMA ViewInputIs ==
    ASSUME NEW v, NEW e, view_input(v, e)
    PROVE  /\ holding' = [holding EXCEPT ![v] =
                             IF e.type = "Press" THEN @ \cup {e.key}
                             ELSE IF e.type = "Release" THEN @ \ {e.key} ELSE @]
           /\ CallbackCalls
<1>1. CASE e.type = "Press"
  <2>1. e.type # "Release"
    BY <1>1
  <2>2. QED
    BY <1>1, <2>1, Zenon DEF view_input
<1>2. CASE e.type = "Release"
  <2>1. e.type # "Press"
    BY <1>2
  <2>2. QED
    BY <1>2, <2>1, Zenon DEF view_input
<1>3. CASE e.type # "Release" /\ e.type # "Press"
  BY <1>3, Zenon DEF view_input
<1>4. QED
  BY <1>1, <1>2, <1>3

\* The head and the tail of a queue of events.
LEMMA TakeEvent ==
    ASSUME NEW q \in Seq(Events), q # <<>>, NEW n \in Nat, Len(q) <= n
    PROVE  /\ Head(q) \in Events /\ Head(q).key \in InputKey
           /\ Tail(q) \in Seq(Events) /\ Len(Tail(q)) <= n
<1>1. /\ Head(q) \in Events /\ Tail(q) \in Seq(Events)
      /\ Len(q) \in Nat /\ Len(Tail(q)) = Len(q) - 1
  BY HeadTailProperties, LenProperties
<1>2. QED
  BY <1>1 DEF Events

LEMMA HandleInputStructure ==
    ASSUME Structure, view_dispatcher_handle_input
    PROVE  Structure'
<1> DEFINE e == Head(input_queue)
           v == ViewFor(e, ongoing_input_view')
<1>1. /\ input_queue # <<>> /\ input_queue' = Tail(input_queue)
      /\ ongoing_input' = Ongoing(e)
      /\ ongoing_input_view' \in {current_view, ongoing_input_view}
      /\ UNCHANGED <<guiVars, view_orientation, views, current_view, dpc, events,
                     stopping, sacrificed>>
  BY DEF view_dispatcher_handle_input, viewVars
<1>2. input_queue \in Seq(Events) /\ Len(input_queue) <= InputQueueSize
      /\ InputQueueSize \in Nat
  BY ViewDispatcherAssumption DEF Structure, TypeOK, ApplicationTypeOK
<1>3. /\ e.key \in InputKey /\ Tail(input_queue) \in Seq(Events)
      /\ Len(Tail(input_queue)) <= InputQueueSize
  BY <1>1, <1>2, TakeEvent
<1>4. ongoing_input' \subseteq InputKey
  <2> HIDE DEF e
  <2>1. ongoing_input \subseteq InputKey
    BY DEF Structure, TypeOK, ApplicationTypeOK
  <2>2. QED
    BY <1>1, <1>3, <2>1, OngoingIs
<1>5. \/ v # None /\ view_input(v, e)
      \/ UNCHANGED <<holding, call>>
  BY DEF view_dispatcher_handle_input
<1>6. call' \in Calls /\ holding' \in [Views -> SUBSET InputKey]
  <2> HIDE DEF e, v
  <2>1. call \in Calls /\ holding \in [Views -> SUBSET InputKey]
    BY DEF Structure, TypeOK, ApplicationTypeOK, ViewTypeOK
  <2>2. CASE UNCHANGED <<holding, call>>
    BY <2>1, <2>2
  <2>3. CASE view_input(v, e)
    <3>1. /\ holding' = [holding EXCEPT ![v] =
                            IF e.type = "Press" THEN @ \cup {e.key}
                            ELSE IF e.type = "Release" THEN @ \ {e.key} ELSE @]
          /\ CallbackCalls
      BY <2>3, ViewInputIs
    <3>2. call' \in Calls
      BY <3>1 DEF CallbackCalls, Calls
    <3>3. QED
      BY <1>3, <2>1, <3>1, <3>2
  <2>4. QED
    BY <1>5, <2>2, <2>3
<1> HIDE DEF e, v
<1>7. ViewTypeOK' /\ {current_view, ongoing_input_view}' \subseteq views' \cup {None}
  BY <1>1, <1>6 DEF Structure, TypeOK, ViewTypeOK, DetachedUntouched
<1>8. ApplicationTypeOK'
  BY <1>1, <1>3, <1>4, <1>6 DEF Structure, TypeOK, ApplicationTypeOK
<1>9. QED
  BY <1>1, <1>7, <1>8, GuiKept

LEMMA DrainStructure ==
    ASSUME Structure, Drain
    PROVE  Structure'
<1>1. UNCHANGED <<guiVars, viewVars, ongoing_input_view, call, events, stopping,
                  holding, sacrificed>>
  BY DEF Drain, ghostVars
<1>2. input_queue \in Seq(Events) /\ Len(input_queue) <= InputQueueSize
      /\ InputQueueSize \in Nat /\ ongoing_input \subseteq InputKey
  BY ViewDispatcherAssumption DEF Structure, TypeOK, ApplicationTypeOK
<1>3. /\ input_queue' \in Seq(Events) /\ Len(input_queue') <= InputQueueSize
      /\ ongoing_input' \subseteq InputKey
  <2>1. CASE UNCHANGED <<input_queue, ongoing_input>>
    BY <1>2, <2>1
  <2>2. CASE /\ input_queue # <<>> /\ input_queue' = Tail(input_queue)
             /\ ongoing_input' = Ongoing(Head(input_queue))
    <3>1. /\ Head(input_queue).key \in InputKey
          /\ Tail(input_queue) \in Seq(Events)
          /\ Len(Tail(input_queue)) <= InputQueueSize
      BY <1>2, <2>2, TakeEvent
    <3>2. QED
      BY <1>2, <2>2, <3>1, OngoingIs
  <2>3. QED
    BY <2>1, <2>2 DEF Drain
<1>4. dpc' \in {"drain", "done"}
  BY DEF Drain
<1>5. ViewTypeOK' /\ {current_view, ongoing_input_view}' \subseteq views' \cup {None}
  BY <1>1 DEF Structure, TypeOK, ViewTypeOK, DetachedUntouched, viewVars
<1>6. ApplicationTypeOK'
  BY <1>1, <1>3, <1>4 DEF Structure, TypeOK, ApplicationTypeOK
<1>7. QED
  BY <1>1, <1>4, <1>5, <1>6, GuiKept

\* The other steps of the application's loop that the GUI service knows
\* nothing of.
LEMMA LoopStructure ==
    ASSUME Structure, HandleEvent \/ LoopEnds \/ RemoveViews
    PROVE  Structure'
<1>1. UNCHANGED <<guiVars, viewVars, inputVars, stopping, holding, sacrificed>>
  BY DEF HandleEvent, LoopEnds, RemoveViews, ghostVars
<1>2. call' \in Calls
  BY DEF HandleEvent, LoopEnds, RemoveViews, CallbackCalls, Calls, Structure,
         TypeOK, ViewTypeOK, ApplicationTypeOK
<1>3. events' \in 0 .. EventQueueSize
  BY ViewDispatcherAssumption
     DEF HandleEvent, LoopEnds, RemoveViews, Structure, TypeOK, ApplicationTypeOK
<1>4. dpc' \in {"loop", "drain", "done"}
  BY DEF HandleEvent, LoopEnds, RemoveViews
<1>5. ViewTypeOK' /\ {current_view, ongoing_input_view}' \subseteq views' \cup {None}
  BY <1>1 DEF Structure, TypeOK, ViewTypeOK, DetachedUntouched, viewVars,
              inputVars
<1>6. ApplicationTypeOK'
  BY <1>1, <1>2, <1>3, <1>4 DEF Structure, TypeOK, ApplicationTypeOK, inputVars
<1>7. QED
  BY <1>1, <1>4, <1>5, <1>6, GuiKept

\* A call of the GUI service, made while the mutexes are free.
LEMMA GuiCall ==
    ASSUME Structure, Unlocked, UNCHANGED guiThreadVars,
           UNCHANGED <<last, publishing, gui_queue, gui_ongoing_input,
                       orientation, enabled>>,
           flags' \in {flags, flags \cup {"DRAW"}},
           LayersType', LayersOnce', lockdown' \in BOOLEAN,
           direct_draw' \in BOOLEAN,
           ongoing_input_view_port' \in {ongoing_input_view_port, None},
           ongoing_input_view_port' # None => Attached(ongoing_input_view_port)',
           dpc' = "freed" => ~ Attached(Dispatcher)'
    PROVE  /\ GuiTypeOK' /\ Placed'
           /\ delivery' # None => Attached(delivery.port)'
<1>1. UNCHANGED <<gpc, taken, delivery>>
  BY DEF guiThreadVars
<1>2. KeyTypeOK'
  BY DEF Structure, TypeOK, GuiTypeOK, KeyTypeOK
<1>3. GuiThreadTypeOK'
  BY <1>1 DEF Structure, TypeOK, GuiTypeOK, GuiThreadTypeOK
<1>4. PortTypeOK'
  BY DEF Structure, TypeOK, GuiTypeOK, PortTypeOK, LayersType
<1>5. delivery' = None
  BY <1>1 DEF Unlocked, Structure, Placed
<1>6. Placed'
  BY <1>1 DEF Structure, Placed
<1>7. QED
  BY <1>2, <1>3, <1>4, <1>5, <1>6 DEF GuiTypeOK

LEMMA FreeStructure ==
    ASSUME Structure, view_dispatcher_free
    PROVE  Structure'
<1>1. /\ gui_remove_view_port(Dispatcher) /\ dpc' = "freed"
      /\ input_queue' = <<>> /\ events' = 0
      /\ UNCHANGED <<viewVars, ongoing_input_view, ongoing_input, call, stopping,
                     holding, sacrificed>>
  BY DEF view_dispatcher_free, ghostVars
<1>2. /\ Unlocked
      /\ ongoing_input_view_port' = IF ongoing_input_view_port = Dispatcher
                                    THEN None ELSE ongoing_input_view_port
      /\ flags' \in {flags, flags \cup {"DRAW"}}
      /\ UNCHANGED <<last, publishing, gui_queue, gui_ongoing_input,
                     guiThreadVars, enabled, orientation, lockdown, direct_draw>>
  BY <1>1 DEF gui_remove_view_port, gui_update
<1>3. PortTypeOK /\ LayersOnce
  BY DEF Structure, TypeOK, GuiTypeOK, Placed
<1>4. /\ LayersType' /\ LayersOnce'
      /\ \A p \in Ports : Attached(p)' <=> Attached(p) /\ p # Dispatcher
  BY <1>1, <1>3, PortFacts, RemovePort
<1>5. /\ ongoing_input_view_port \in Ports \cup {None}
      /\ ongoing_input_view_port # None => Attached(ongoing_input_view_port)
      /\ lockdown \in BOOLEAN /\ direct_draw \in BOOLEAN
  BY DEF Structure, TypeOK, GuiTypeOK, KeyTypeOK, PortTypeOK, DetachedUntouched
<1>6. ongoing_input_view_port' # None => Attached(ongoing_input_view_port)'
  <2>1. CASE ongoing_input_view_port \in {Dispatcher, None}
    BY <1>2, <2>1
  <2>2. CASE ongoing_input_view_port \notin {Dispatcher, None}
    <3> DEFINE p == ongoing_input_view_port
    <3>1. p \in Ports /\ p # Dispatcher /\ Attached(p) /\ p' = p
      BY <1>2, <1>5, <2>2
    <3>2. \E l \in GuiLayer : p \in ToSet(layers'[l])
      BY <1>4, <3>1 DEF Attached
    <3>3. QED
      BY <3>1, <3>2 DEF Attached
  <2>3. QED
    BY <2>1, <2>2
<1>7. ~ Attached(Dispatcher)'
  BY <1>4, PortFacts
<1>8. /\ GuiTypeOK' /\ Placed'
      /\ delivery' # None => Attached(delivery.port)'
  BY <1>2, <1>4, <1>5, <1>6, <1>7, GuiCall
<1>9. ViewTypeOK' /\ {current_view, ongoing_input_view}' \subseteq views' \cup {None}
  BY <1>1 DEF Structure, TypeOK, ViewTypeOK, DetachedUntouched, viewVars
<1>10. ApplicationTypeOK'
  <2>1. /\ input_queue' \in Seq(Events) /\ Len(input_queue') <= InputQueueSize
        /\ events' \in 0 .. EventQueueSize
    BY <1>1, EmptySeq, ViewDispatcherAssumption
  <2>2. QED
    BY <1>1, <2>1 DEF Structure, TypeOK, ApplicationTypeOK
<1>11. QED
  BY <1>6, <1>8, <1>9, <1>10 DEF Structure, TypeOK, DetachedUntouched

LEMMA OtherThreadStructure ==
    ASSUME Structure, UNCHANGED vdVars, dpc # "freed",
           \/ gui_add_view_port(Popup, "Fullscreen")
           \/ gui_remove_view_port(Popup)
           \/ gui_view_port_send(Popup, FALSE)
           \/ gui_set_lockdown(~lockdown)
           \/ gui_direct_draw_acquire
    PROVE  Structure'
<1>1. /\ Unlocked
      /\ flags' \in {flags, flags \cup {"DRAW"}}
      /\ UNCHANGED <<last, publishing, gui_queue, gui_ongoing_input,
                     guiThreadVars, enabled, orientation>>
      /\ \/ ongoing_input_view_port' = ongoing_input_view_port
         \/ ongoing_input_view_port' = None
      /\ lockdown' \in {lockdown, ~lockdown} /\ direct_draw' \in {direct_draw, TRUE}
  BY DEF gui_add_view_port, gui_remove_view_port, gui_view_port_send,
         gui_set_lockdown, gui_direct_draw_acquire, gui_update, guiInputVars
<1>2. PortTypeOK /\ LayersOnce /\ LayersType
  BY DEF Structure, TypeOK, GuiTypeOK, Placed, PortTypeOK, LayersType
<1> DEFINE o == ongoing_input_view_port
<1>3. o \in Ports \cup {None} /\ (o # None => Attached(o))
  BY DEF Structure, TypeOK, GuiTypeOK, KeyTypeOK, DetachedUntouched
<1>4. /\ LayersType' /\ LayersOnce'
      /\ o' # None => Attached(o)'
  <2>1. CASE UNCHANGED <<layers, ongoing_input_view_port>>
    BY <1>2, <1>3, <2>1, LayersKept DEF LayersType, Attached
  <2>2. ASSUME NEW S \in SUBSET Ports,
               \A p \in Ports : Attached(p)' <=> p \in S,
               o' # None => o' \in S
        PROVE  o' # None => Attached(o)'
    <3>1. \A p \in Ports : p \in S => \E l \in GuiLayer : p \in ToSet(layers'[l])
      BY <2>2 DEF Attached
    <3>2. QED
      BY <2>2, <3>1 DEF Attached
  <2>3. CASE gui_add_view_port(Popup, "Fullscreen")
    <3> DEFINE S == {p \in Ports : Attached(p) \/ p = Popup}
    <3>1. /\ LayersType' /\ LayersOnce'
          /\ \A p \in Ports : Attached(p)' <=> Attached(p) \/ p = Popup
      <4>1. "Fullscreen" \in GuiLayer
        BY DEF GuiLayer
      <4>2. QED
        BY <1>2, <2>3, <4>1, PortFacts, AddPort
    <3>2. o' = o
      BY <2>3 DEF gui_add_view_port, guiInputVars
    <3>3. o' # None => o' \in S
      BY <1>3, <3>2
    <3>4. \A p \in Ports : Attached(p)' <=> p \in S
      BY <3>1
    <3> HIDE DEF S
    <3>5. S \in SUBSET Ports
      BY DEF S
    <3>6. QED
      BY <2>2, <3>1, <3>3, <3>4, <3>5
  <2>4. CASE gui_remove_view_port(Popup)
    <3> DEFINE S == {p \in Ports : Attached(p) /\ p # Popup}
    <3>1. /\ LayersType' /\ LayersOnce'
          /\ \A p \in Ports : Attached(p)' <=> Attached(p) /\ p # Popup
      BY <1>2, <2>4, PortFacts, RemovePort
    <3>2. o' = IF o = Popup THEN None ELSE o
      BY <2>4 DEF gui_remove_view_port
    <3>3. o' # None => o' \in S
      BY <1>3, <3>2
    <3>4. \A p \in Ports : Attached(p)' <=> p \in S
      BY <3>1
    <3> HIDE DEF S
    <3>5. S \in SUBSET Ports
      BY DEF S
    <3>6. QED
      BY <2>2, <3>1, <3>3, <3>4, <3>5
  <2>5. CASE gui_view_port_send(Popup, FALSE)
    <3> DEFINE S == {p \in Ports : Attached(p)}
    <3>1. /\ LayersType' /\ LayersOnce'
          /\ \A p \in Ports : Attached(p)' <=> Attached(p)
      BY <1>2, <2>5, PortFacts, SendPort
    <3>2. o' = o
      BY <2>5 DEF gui_view_port_send, guiInputVars
    <3>3. o' # None => o' \in S
      BY <1>3, <3>2
    <3>4. \A p \in Ports : Attached(p)' <=> p \in S
      BY <3>1
    <3> HIDE DEF S
    <3>5. S \in SUBSET Ports
      BY DEF S
    <3>6. QED
      BY <2>2, <3>1, <3>3, <3>4, <3>5
  <2>6. CASE gui_set_lockdown(~lockdown) \/ gui_direct_draw_acquire
    BY <2>1, <2>6 DEF gui_set_lockdown, gui_direct_draw_acquire, guiInputVars
  <2>7. QED
    BY <2>3, <2>4, <2>5, <2>6, Zenon
<1>5. lockdown' \in BOOLEAN /\ direct_draw' \in BOOLEAN
  BY <1>1, <1>2 DEF PortTypeOK
<1>6. dpc' # "freed"
  BY DEF vdVars
<1>7. GuiTypeOK' /\ Placed' /\ (delivery' # None => Attached(delivery.port)')
  BY <1>1, <1>4, <1>5, <1>6, GuiCall
<1>8. QED
  BY <1>4, <1>7, DispatcherKept

\* view_dispatcher_set_current_view is called.
Chosen(v) ==
    \/ v = None /\ NoCurrentView
    \/ v \in views /\ view_dispatcher_set_current_view(v)

LEMMA ChosenType ==
    ASSUME Structure, NEW v, Chosen(v)
    PROVE  /\ current_view' = v /\ v \in views \cup {None}
           /\ enabled' \subseteq Ports
           /\ orientation' \in [Ports -> Orientation]
           /\ flags' \in {flags, flags \cup {"DRAW"}}
           /\ stopping' \in BOOLEAN /\ sacrificed' \in BOOLEAN
           /\ ongoing_input' \in {ongoing_input, {}}
<1>1. /\ enabled \subseteq Ports /\ orientation \in [Ports -> Orientation]
      /\ stopping \in BOOLEAN /\ sacrificed \in BOOLEAN
      /\ views \subseteq Views /\ view_orientation \in [Views -> Orientation]
  BY DEF Structure, TypeOK, GuiTypeOK, PortTypeOK, ApplicationTypeOK, ViewTypeOK
<1>2. CASE v = None /\ NoCurrentView
  BY <1>1, <1>2 DEF NoCurrentView, gui_update
<1>3. CASE v \in views /\ view_dispatcher_set_current_view(v)
  <2>1. /\ current_view' = v /\ UNCHANGED stopping
        /\ enabled' = enabled \cup {Dispatcher} /\ gui_update(direct_draw)
        /\ \/ UNCHANGED <<orientation, ongoing_input, sacrificed>>
           \/ /\ orientation' =
                   [orientation EXCEPT ![Dispatcher] = view_orientation[v]]
              /\ ongoing_input' = {}
              /\ sacrificed' = (sacrificed \/ ongoing_input # {}
                                           \/ input_queue # <<>>)
    BY <1>3 DEF view_dispatcher_set_current_view
  <2>2. orientation' \in [Ports -> Orientation]
    BY <1>1, <1>3, <2>1
  <2>3. QED
    BY <1>1, <1>3, <2>1, <2>2, PortFacts DEF gui_update
<1>4. QED
  BY <1>2, <1>3 DEF Chosen

\* A call of the dispatcher after which the view ports are where they were.
LEMMA CallKept ==
    ASSUME Structure, UNCHANGED <<guiInputVars, guiThreadVars, layers, lockdown,
                                  direct_draw, dpc, input_queue,
                                  view_orientation>>,
           enabled' \subseteq Ports, orientation' \in [Ports -> Orientation],
           flags' \in {flags, flags \cup {"DRAW"}},
           stopping' \in BOOLEAN, sacrificed' \in BOOLEAN, call' \in Calls,
           ongoing_input' \in {ongoing_input, {}},
           events' \in 0 .. EventQueueSize, views' \subseteq Views,
           holding' \in [Views -> SUBSET InputKey],
           {current_view, ongoing_input_view}' \subseteq views' \cup {None}
    PROVE  Structure'
<1>1. UNCHANGED <<last, publishing, gui_queue, gui_ongoing_input,
                  ongoing_input_view_port, gpc, taken, delivery>>
  BY DEF guiInputVars, guiThreadVars
<1>2. KeyTypeOK' /\ GuiThreadTypeOK' /\ PortTypeOK'
  BY <1>1 DEF Structure, TypeOK, GuiTypeOK, KeyTypeOK, GuiThreadTypeOK,
              PortTypeOK
<1>3. ViewTypeOK' /\ ApplicationTypeOK'
  BY DEF Structure, TypeOK, ViewTypeOK, ApplicationTypeOK
<1>4. Placed' /\ DetachedUntouched'
  BY <1>1, LayersKept DEF Structure, Placed, DetachedUntouched
<1>5. QED
  BY <1>2, <1>3, <1>4 DEF Structure, TypeOK, GuiTypeOK

\* A view is removed.
LEMMA RemoveView ==
    ASSUME NEW v, view_dispatcher_remove_view(v)
    PROVE  /\ v \in views /\ Unlocked
           /\ \/ current_view = v /\ Chosen(None)
              \/ /\ current_view # v
                 /\ UNCHANGED <<current_view, enabled, stopping, orientation,
                                ongoing_input, sacrificed, flags>>
           /\ ongoing_input_view' =
                 IF ongoing_input_view = v THEN None ELSE ongoing_input_view
           /\ views' = views \ {v}
           /\ holding' = [holding EXCEPT ![v] = {}]
           /\ UNCHANGED <<guiInputVars, guiThreadVars, layers, lockdown,
                          direct_draw, shown, view_orientation, input_queue,
                          events>>
  BY DEF view_dispatcher_remove_view, Chosen

LEMMA ExecuteCallStructure ==
    ASSUME Structure, ExecuteCall
    PROVE  Structure'
<1> DEFINE v == call[2]
<1>1. call' = NoCall /\ UNCHANGED dpc
  BY DEF ExecuteCall
<1>2. call' \in Calls
  BY <1>1 DEF Calls
<1>3. /\ {current_view, ongoing_input_view} \subseteq views \cup {None}
      /\ views \subseteq Views /\ holding \in [Views -> SUBSET InputKey]
      /\ enabled \subseteq Ports /\ orientation \in [Ports -> Orientation]
      /\ stopping \in BOOLEAN /\ sacrificed \in BOOLEAN
      /\ events \in 0 .. EventQueueSize
  BY DEF Structure, TypeOK, GuiTypeOK, PortTypeOK, ApplicationTypeOK, ViewTypeOK,
         DetachedUntouched
<1>4. CASE call[1] = "switch" /\ view_dispatcher_switch_to_view(v)
  <2>1. /\ Chosen(v)
        /\ UNCHANGED <<guiInputVars, guiThreadVars, layers, lockdown,
                       direct_draw, view_orientation, views, ongoing_input_view,
                       input_queue, events, holding>>
    BY <1>4 DEF view_dispatcher_switch_to_view, Chosen
  <2>2. QED
    BY <1>1, <1>2, <1>3, <2>1, ChosenType, CallKept
<1>5. CASE call[1] = "remove" /\ view_dispatcher_remove_view(v)
  <2>1. /\ v \in views
        /\ \/ current_view = v /\ Chosen(None)
           \/ /\ current_view # v
              /\ UNCHANGED <<current_view, enabled, stopping, orientation,
                             ongoing_input, sacrificed, flags>>
        /\ ongoing_input_view' =
              IF ongoing_input_view = v THEN None ELSE ongoing_input_view
        /\ views' = views \ {v}
        /\ holding' = [holding EXCEPT ![v] = {}]
        /\ UNCHANGED <<guiInputVars, guiThreadVars, layers, lockdown,
                       direct_draw, view_orientation, input_queue, events>>
    BY <1>5, RemoveView
  <2>2. holding' \in [Views -> SUBSET InputKey]
    BY <1>3, <2>1
  <2>3. /\ enabled' \subseteq Ports
        /\ orientation' \in [Ports -> Orientation]
        /\ flags' \in {flags, flags \cup {"DRAW"}}
        /\ stopping' \in BOOLEAN /\ sacrificed' \in BOOLEAN
        /\ ongoing_input' \in {ongoing_input, {}}
        /\ current_view' \in (views \ {v}) \cup {None}
    <3>1. CASE Chosen(None)
      BY <3>1, ChosenType
    <3>2. CASE /\ current_view # v
               /\ UNCHANGED <<current_view, enabled, stopping, orientation,
                              ongoing_input, sacrificed, flags>>
      BY <1>3, <3>2
    <3>3. QED
      BY <2>1, <3>1, <3>2
  <2>4. ongoing_input_view' \in (views \ {v}) \cup {None}
    BY <1>3, <2>1
  <2> HIDE DEF v
  <2>5. QED
    BY <1>1, <1>2, <1>3, <2>1, <2>2, <2>3, <2>4, CallKept
<1>6. CASE call[1] = "front" /\ view_dispatcher_send_to_front
  <2>1. /\ gui_view_port_send(Dispatcher, TRUE)
        /\ UNCHANGED <<viewVars, inputVars, events, stopping, ghostVars>>
    BY <1>6 DEF view_dispatcher_send_to_front
  <2>2. /\ Unlocked /\ Attached(Dispatcher) /\ gui_update(direct_draw)
        /\ UNCHANGED <<guiInputVars, guiThreadVars, enabled, orientation,
                       lockdown, direct_draw, shown>>
    BY <2>1 DEF gui_view_port_send
  <2>3. /\ LayersType' /\ LayersOnce'
        /\ \A p \in Ports : Attached(p)' <=> Attached(p)
    BY <2>1, PortFacts, SendPort DEF Structure, TypeOK, GuiTypeOK, Placed
  <2>4. /\ dpc # "freed"
        /\ ongoing_input_view_port \in Ports \cup {None}
        /\ ongoing_input_view_port # None => Attached(ongoing_input_view_port)
        /\ lockdown \in BOOLEAN /\ direct_draw \in BOOLEAN
    BY <2>2 DEF Structure, Placed, DetachedUntouched, TypeOK, GuiTypeOK,
                KeyTypeOK, PortTypeOK
  <2>5. UNCHANGED <<last, publishing, gui_queue, gui_ongoing_input,
                    ongoing_input_view_port>>
    BY <2>2 DEF guiInputVars
  <2>6. flags' \in {flags, flags \cup {"DRAW"}}
    BY <2>2 DEF gui_update
  <2>7. ongoing_input_view_port' # None => Attached(ongoing_input_view_port)'
    <3>1. \A p \in Ports : Attached(p) =>
              \E l \in GuiLayer : p \in ToSet(layers'[l])
      BY <2>3 DEF Attached
    <3>2. QED
      BY <2>4, <2>5, <3>1 DEF Attached
  <2>8. GuiTypeOK' /\ Placed' /\ (delivery' # None => Attached(delivery.port)')
    BY <1>1, <2>2, <2>3, <2>4, <2>5, <2>6, <2>7, GuiCall
  <2>9. ViewTypeOK' /\ ApplicationTypeOK'
    BY <1>1, <1>2, <2>1 DEF Structure, TypeOK, ViewTypeOK, ApplicationTypeOK,
         viewVars, inputVars, ghostVars
  <2>10. {current_view, ongoing_input_view}' \subseteq views' \cup {None}
    BY <1>3, <2>1 DEF viewVars, inputVars
  <2>11. QED
    BY <2>7, <2>8, <2>9, <2>10 DEF Structure, TypeOK, DetachedUntouched
<1>7. CASE call[1] = "add" /\ view_dispatcher_add_view(v)
  <2>1. /\ views' = views \cup {v}
        /\ UNCHANGED <<guiVars, view_orientation, current_view, inputVars, events,
                       stopping, ghostVars>>
    BY <1>7 DEF view_dispatcher_add_view
  <2>2. v \in Views
    BY <1>7 DEF Structure, TypeOK, ApplicationTypeOK, Calls, NoCall
  <2>3. ViewTypeOK' /\ ApplicationTypeOK'
    BY <1>1, <1>2, <2>1, <2>2 DEF Structure, TypeOK, ViewTypeOK,
         ApplicationTypeOK, inputVars, ghostVars
  <2>4. {current_view, ongoing_input_view}' \subseteq views' \cup {None}
    BY <1>3, <2>1 DEF inputVars
  <2>5. QED
    BY <1>1, <2>1, <2>3, <2>4, GuiKept
<1>8. CASE \/ call[1] = "custom" /\ view_dispatcher_send_custom_event
           \/ call[1] = "stop" /\ view_dispatcher_stop
  <2>1. /\ UNCHANGED <<guiVars, viewVars, inputVars, ghostVars>>
        /\ stopping' \in BOOLEAN /\ events' \in 0 .. EventQueueSize
    <3>1. EventQueueSize \in Nat
      BY ViewDispatcherAssumption
    <3>2. CASE view_dispatcher_send_custom_event
      BY <1>3, <3>1, <3>2 DEF view_dispatcher_send_custom_event
    <3>3. CASE view_dispatcher_stop
      BY <1>3, <3>3 DEF view_dispatcher_stop
    <3>4. QED
      BY <1>8, <3>2, <3>3
  <2>2. ViewTypeOK' /\ ApplicationTypeOK'
    BY <1>1, <1>2, <2>1 DEF Structure, TypeOK, ViewTypeOK, ApplicationTypeOK,
         viewVars, inputVars, ghostVars
  <2>3. {current_view, ongoing_input_view}' \subseteq views' \cup {None}
    BY <1>3, <2>1 DEF viewVars, inputVars
  <2>4. QED
    BY <1>1, <2>1, <2>2, <2>3, GuiKept
<1>9. QED
  BY <1>4, <1>5, <1>6, <1>7, <1>8 DEF ExecuteCall

LEMMA InitStructure ==
    ASSUME Init
    PROVE  Structure
<1>1. /\ GuiInit(<<Desktop>>, <<Dispatcher>>)
      /\ view_orientation \in [Views -> {"Horizontal", "HorizontalFlip"}]
      /\ dpc = "loop" /\ call = NoCall /\ views = Views
      /\ current_view \in Views /\ ongoing_input_view = None
      /\ ongoing_input = {} /\ input_queue = <<>> /\ events = 0
      /\ stopping = FALSE /\ holding = [u \in Views |-> {}]
      /\ sacrificed = FALSE
  BY DEF Init
<1>2. /\ last = [k \in Keys |-> "Release"] /\ publishing = FALSE
      /\ gui_queue = <<>> /\ flags = {} /\ taken = {} /\ gpc = "wait"
      /\ delivery = None /\ gui_ongoing_input = {}
      /\ ongoing_input_view_port = None
      /\ layers = [Desktop |-> <<Desktop>>, Window |-> <<>>,
                   Fullscreen |-> <<Dispatcher>>]
      /\ enabled = Ports /\ orientation = [p \in Ports |-> "Horizontal"]
      /\ lockdown = FALSE /\ direct_draw = FALSE
  BY <1>1 DEF GuiInit
<1>3. KeyTypeOK
  <2>1. last \in [Keys -> KeyOrder!InputType]
    BY <1>2 DEF KeyOrder!InputType
  <2>2. gui_queue \in Seq(Events) /\ Len(gui_queue) <= GuiQueueSize
    BY <1>2, EmptySeq, GuiAssumption
  <2>3. QED
    BY <1>2, <2>1, <2>2 DEF KeyTypeOK
<1>4. GuiThreadTypeOK
  BY <1>2 DEF GuiThreadTypeOK
<1>5. /\ layers \in [GuiLayer -> Seq(Ports)]
      /\ layers["Desktop"] = <<Desktop>> /\ layers["Window"] = <<>>
      /\ layers["Fullscreen"] = <<Dispatcher>>
  <2>1. <<Desktop>> \in Seq(Ports) /\ <<Dispatcher>> \in Seq(Ports)
        /\ <<>> \in Seq(Ports)
    BY PortFacts
  <2>2. ASSUME NEW S, NEW a \in S, NEW b \in S, NEW c \in S,
               layers = [Desktop |-> a, Window |-> b, Fullscreen |-> c]
        PROVE  /\ layers \in [GuiLayer -> S] /\ layers["Desktop"] = a
               /\ layers["Window"] = b /\ layers["Fullscreen"] = c
    BY <2>2 DEF GuiLayer
  <2>3. QED
    BY <1>2, <2>1, <2>2, Zenon
<1>6. PortTypeOK
  BY <1>2, <1>5 DEF PortTypeOK, Orientation
<1>7. ViewTypeOK /\ ApplicationTypeOK
  <2>1. ViewTypeOK
    BY <1>1 DEF ViewTypeOK, Orientation
  <2>2. /\ input_queue \in Seq(Events) /\ Len(input_queue) <= InputQueueSize
        /\ events \in 0 .. EventQueueSize
    BY <1>1, EmptySeq, ViewDispatcherAssumption
  <2>3. ApplicationTypeOK
    BY <1>1, <2>2 DEF ApplicationTypeOK, Calls
  <2>4. QED
    BY <2>1, <2>3
<1>8. LayersOnce
  <2>1. /\ ToSet(layers["Desktop"]) = {Desktop} /\ ToSet(layers["Window"]) = {}
        /\ ToSet(layers["Fullscreen"]) = {Dispatcher}
    BY <1>5 DEF ToSet
  <2>2. \A l \in GuiLayer : IsInjective(layers[l])
    <3>1. \A l \in GuiLayer : Len(layers[l]) \in {0, 1}
      <4>1. Len(<<Desktop>>) = 1 /\ Len(<<Dispatcher>>) = 1 /\ Len(<<>>) = 0
        OBVIOUS
      <4>2. QED
        BY <1>5, <4>1, Zenon DEF GuiLayer
    <3>2. ASSUME NEW l \in GuiLayer
          PROVE  DOMAIN layers[l] \subseteq {1}
      <4>1. Len(layers[l]) \in {0, 1}
        BY <3>1
      <4>2. DOMAIN layers[l] = 1 .. Len(layers[l])
        BY <1>5, LenProperties
      <4> DEFINE n == Len(layers[l])
      <4>3. n = 0 \/ n = 1
        BY <4>1
      <4> HIDE DEF n
      <4>4. 1 .. n \subseteq {1}
        BY <4>3
      <4>5. QED
        BY <4>2, <4>4 DEF n
    <3>3. QED
      BY <3>2 DEF IsInjective
  <2>3. QED
    BY <2>1, <2>2, PortFacts DEF LayersOnce, GuiLayer
<1>9. Placed /\ DetachedUntouched
  BY <1>1, <1>2, <1>8 DEF Placed, DetachedUntouched
<1>10. QED
  BY <1>3, <1>4, <1>6, <1>7, <1>9 DEF Structure, TypeOK, GuiTypeOK


LEMMA StructureStep ==
    ASSUME Structure, [Next]_vars
    PROVE  Structure'
<1>1. CASE \E k \in Keys, type \in Types : KeyEvent(k, type)
  BY <1>1, KeyEventStructure
<1>2. CASE Publisher
  BY <1>2, ThreadStructure DEF Publisher
<1>3. CASE GuiThread
  BY <1>3, ThreadStructure, GuiInputStructure, CallbackStructure DEF GuiThread
<1>4. CASE Application
  BY <1>4, HandleInputStructure, LoopStructure, DrainStructure, FreeStructure,
     ExecuteCallStructure DEF Application
<1>5. CASE OtherThread
  <2>1. CASE view_dispatcher_send_custom_event /\ UNCHANGED <<dpc, call>>
    <3>1. /\ UNCHANGED <<guiVars, viewVars, inputVars, stopping, holding,
                         sacrificed>>
          /\ events' \in 0 .. EventQueueSize
      <4>1. EventQueueSize \in Nat /\ events \in 0 .. EventQueueSize
        BY ViewDispatcherAssumption DEF Structure, TypeOK, ApplicationTypeOK
      <4>2. QED
        BY <2>1, <4>1 DEF view_dispatcher_send_custom_event, ghostVars
    <3>2. ViewTypeOK' /\ ApplicationTypeOK'
      BY <2>1, <3>1 DEF Structure, TypeOK, ViewTypeOK, ApplicationTypeOK,
           viewVars, inputVars
    <3>3. {current_view, ongoing_input_view}' \subseteq views' \cup {None}
      BY <3>1 DEF Structure, DetachedUntouched, viewVars, inputVars
    <3>4. QED
      BY <2>1, <3>1, <3>2, <3>3, GuiKept
  <2>2. QED
    BY <1>5, <2>1, OtherThreadStructure DEF OtherThread
<1>6. CASE DirectDrawEnds
  <2>1. /\ Unlocked /\ UNCHANGED vdVars
        /\ direct_draw' = FALSE
        /\ flags' = flags \cup {"DRAW"}
        /\ UNCHANGED <<last, publishing, gui_queue, gui_ongoing_input,
                       ongoing_input_view_port, guiThreadVars, layers, enabled,
                       orientation, lockdown>>
    BY <1>6 DEF DirectDrawEnds, gui_direct_draw_release, gui_update, guiInputVars
  <2>2. UNCHANGED dpc
    BY <2>1 DEF vdVars
  <2>3. /\ LayersType' /\ LayersOnce' /\ lockdown \in BOOLEAN
        /\ ongoing_input_view_port' # None => Attached(ongoing_input_view_port)'
        /\ dpc' = "freed" => ~ Attached(Dispatcher)'
    BY <2>1, <2>2, LayersKept DEF Structure, Placed, TypeOK, GuiTypeOK, PortTypeOK,
         LayersType, DetachedUntouched
  <2>4. GuiTypeOK' /\ Placed' /\ (delivery' # None => Attached(delivery.port)')
    BY <2>1, <2>3, GuiCall
  <2>5. QED
    BY <2>1, <2>3, <2>4, DispatcherKept
<1>7. CASE UNCHANGED vars
  <2>1. UNCHANGED guiVars /\ UNCHANGED vdVars
    BY <1>7 DEF vars
  <2>2. ViewTypeOK' /\ ApplicationTypeOK'
    BY <2>1 DEF Structure, TypeOK, ViewTypeOK, ApplicationTypeOK, vdVars, viewVars,
         inputVars, ghostVars
  <2>3. UNCHANGED <<current_view, ongoing_input_view, views, dpc>>
    BY <2>1 DEF vdVars, viewVars, inputVars
  <2>4. QED
    BY <2>1, <2>2, <2>3, GuiKept DEF Structure, DetachedUntouched
<1>8. QED
  BY <1>1, <1>2, <1>3, <1>4, <1>5, <1>6, <1>7 DEF Next
-----------------------------------------------------------------------------
(* The screen, and the queue of the GUI thread.                            *)

LEMMA PictureKept ==
    ASSUME UNCHANGED <<layers, enabled, lockdown, current_view>>
    PROVE  Topmost' = Topmost /\ Picture' = Picture
<1>1. \A l : gui_view_port_find_enabled(l)' = gui_view_port_find_enabled(l)
  BY DEF gui_view_port_find_enabled, SelectLastInSeq
<1>2. Topmost' = Topmost
  BY <1>1, Zenon DEF Topmost
<1>3. QED
  BY <1>2 DEF Picture

\* The dispatcher chooses a view: the screen is redrawn if it has to be.
LEMMA ChosenDrawn ==
    ASSUME Structure, NEW v, Chosen(v),
           UNCHANGED <<layers, lockdown, direct_draw>>
    PROVE  \/ Picture' = Picture
           \/ "DRAW" \in flags' \/ direct_draw
<1>1. CASE NoCurrentView /\ Dispatcher \notin enabled
  <2>1. enabled' = enabled
    BY <1>1 DEF NoCurrentView
  <2>2. \A l : gui_view_port_find_enabled(l)' = gui_view_port_find_enabled(l)
    BY <2>1 DEF gui_view_port_find_enabled, SelectLastInSeq
  <2>3. Topmost' = Topmost
    BY <2>2, Zenon DEF Topmost
  <2>4. Topmost # Dispatcher
    <3>1. PortTypeOK
      BY DEF Structure, TypeOK, GuiTypeOK
    <3>2. QED
      BY <1>1, <3>1, PortFacts, TopmostAttached
  <2>5. QED
    BY <2>3, <2>4 DEF Picture
<1>2. CASE NoCurrentView /\ Dispatcher \in enabled
  BY <1>2 DEF NoCurrentView, gui_update
<1>3. CASE v \in views /\ view_dispatcher_set_current_view(v)
  BY <1>3 DEF view_dispatcher_set_current_view, gui_update
<1>4. QED
  BY <1>1, <1>2, <1>3 DEF Chosen

\* What the application leaves alone of the GUI service.
LEMMA ApplicationFrame ==
    ASSUME Structure, Application
    PROVE  /\ UNCHANGED <<last, publishing, gui_queue, gui_ongoing_input, gpc,
                          taken, delivery, shown, direct_draw, lockdown>>
           /\ flags' \in {flags, flags \cup {"DRAW"}}
           /\ Picture' = Picture \/ "DRAW" \in flags' \/ direct_draw
<1>1. CASE UNCHANGED guiVars /\ UNCHANGED current_view
  <2>1. UNCHANGED <<last, publishing, gui_queue, gui_ongoing_input, gpc, taken,
                    delivery, shown, direct_draw, lockdown, layers, enabled,
                    flags>>
    BY <1>1 DEF guiVars, guiInputVars, guiThreadVars, portVars
  <2>2. QED
    BY <1>1, <2>1, PictureKept
<1>2. CASE view_dispatcher_handle_input \/ HandleEvent \/ LoopEnds \/ Drain
           \/ RemoveViews
  <2>1. UNCHANGED <<guiVars, viewVars>>
    BY <1>2 DEF view_dispatcher_handle_input, HandleEvent, LoopEnds, Drain,
                RemoveViews
  <2>2. QED
    BY <1>1, <2>1 DEF viewVars
<1>3. CASE gui_update(direct_draw) /\ UNCHANGED <<last, publishing, gui_queue,
               gui_ongoing_input, guiThreadVars, shown, direct_draw, lockdown>>
  BY <1>3 DEF gui_update, guiThreadVars
<1>4. CASE view_dispatcher_free
  BY <1>3, <1>4 DEF view_dispatcher_free, gui_remove_view_port
<1>5. CASE ExecuteCall
  <2> DEFINE v == call[2]
  <2>1. CASE view_dispatcher_switch_to_view(v)
    <3>1. /\ Chosen(v)
          /\ UNCHANGED <<guiInputVars, guiThreadVars, layers, lockdown,
                         direct_draw, shown>>
      BY <2>1 DEF view_dispatcher_switch_to_view, Chosen
    <3>2. QED
      BY <3>1, ChosenType, ChosenDrawn DEF guiInputVars, guiThreadVars
  <2>2. CASE view_dispatcher_remove_view(v)
    <3>1. /\ \/ Chosen(None)
             \/ UNCHANGED <<current_view, enabled, flags>>
          /\ UNCHANGED <<guiInputVars, guiThreadVars, layers, lockdown,
                         direct_draw, shown>>
      BY <2>2, RemoveView
    <3>2. CASE Chosen(None)
      BY <3>1, <3>2, ChosenType, ChosenDrawn DEF guiInputVars, guiThreadVars
    <3>3. CASE UNCHANGED <<current_view, enabled, flags>>
      BY <3>1, <3>3, PictureKept DEF guiInputVars, guiThreadVars
    <3>4. QED
      BY <3>1, <3>2, <3>3
  <2>3. CASE view_dispatcher_send_to_front
    BY <1>3, <2>3 DEF view_dispatcher_send_to_front, gui_view_port_send,
                      guiInputVars
  <2>4. CASE \/ view_dispatcher_add_view(v) \/ view_dispatcher_send_custom_event
             \/ view_dispatcher_stop
    BY <1>1, <2>4 DEF view_dispatcher_add_view, view_dispatcher_stop,
                      view_dispatcher_send_custom_event, viewVars
  <2>5. QED
    BY <1>5, <2>1, <2>2, <2>3, <2>4 DEF ExecuteCall
<1>6. QED
  BY <1>2, <1>4, <1>5 DEF Application

\* What other threads, and the end of a direct draw, leave alone.
LEMMA OthersFrame ==
    ASSUME OtherThread \/ DirectDrawEnds
    PROVE  /\ UNCHANGED <<last, publishing, gui_queue, gui_ongoing_input, gpc,
                          taken, delivery, enabled, orientation>>
           /\ UNCHANGED <<viewVars, inputVars, dpc, call, stopping, holding,
                          sacrificed>>
           /\ flags' \in {flags, flags \cup {"DRAW"}}
           /\ \/ Picture' = Picture /\ UNCHANGED <<shown, direct_draw>>
              \/ "DRAW" \in flags' \/ direct_draw'
<1>1. CASE view_dispatcher_send_custom_event /\ UNCHANGED <<dpc, call>>
  <2>1. UNCHANGED <<guiVars, viewVars>>
    BY <1>1 DEF view_dispatcher_send_custom_event
  <2>2. UNCHANGED <<layers, enabled, lockdown, current_view>>
    BY <2>1 DEF guiVars, portVars, viewVars
  <2>3. QED
    BY <1>1, <2>1, <2>2, PictureKept
       DEF guiVars, guiInputVars, guiThreadVars, portVars, ghostVars,
           view_dispatcher_send_custom_event
<1>2. CASE UNCHANGED vdVars /\ \/ gui_add_view_port(Popup, "Fullscreen")
                               \/ gui_remove_view_port(Popup)
                               \/ gui_view_port_send(Popup, FALSE)
                               \/ gui_set_lockdown(~lockdown)
                               \/ gui_direct_draw_acquire
                               \/ gui_direct_draw_release
  <2>1. UNCHANGED <<viewVars, inputVars, dpc, call, stopping, holding,
                    sacrificed>>
    BY <1>2 DEF vdVars, ghostVars
  <2>2. UNCHANGED <<last, publishing, gui_queue, gui_ongoing_input, gpc, taken,
                    delivery, enabled, orientation>>
    BY <1>2 DEF gui_add_view_port, gui_remove_view_port, gui_view_port_send,
         gui_set_lockdown, gui_direct_draw_acquire, gui_direct_draw_release,
         guiInputVars, guiThreadVars
  <2>3. /\ flags' \in {flags, flags \cup {"DRAW"}}
        /\ "DRAW" \in flags' \/ direct_draw'
    <3>1. CASE gui_update(direct_draw) /\ UNCHANGED direct_draw
      BY <3>1 DEF gui_update
    <3>2. CASE gui_direct_draw_acquire
      BY <3>2 DEF gui_direct_draw_acquire
    <3>3. CASE gui_direct_draw_release
      BY <3>3 DEF gui_direct_draw_release, gui_update
    <3>4. CASE gui_set_lockdown(~lockdown)
      BY <3>1, <3>4 DEF gui_set_lockdown
    <3>5. QED
      BY <1>2, <3>1, <3>2, <3>3, <3>4
         DEF gui_add_view_port, gui_remove_view_port, gui_view_port_send
  <2>4. QED
    BY <2>1, <2>2, <2>3
<1>3. QED
  BY <1>1, <1>2 DEF OtherThread, DirectDrawEnds

LEMMA RedrawnStep ==
    ASSUME Structure, Redrawn, [Next]_vars
    PROVE  Redrawn'
<1>1. ASSUME UNCHANGED <<layers, enabled, lockdown, direct_draw, current_view>>,
             \/ UNCHANGED <<shown, gpc, taken>> /\ flags \subseteq flags'
             \/ gui_redraw(Picture) \/ ClearDrawFlag \/ TakeFlags \/ InputDone
             \/ gui_input \/ DeliveryReturns
      PROVE  Redrawn'
  <2>1. Picture' = Picture
    BY <1>1, PictureKept
  <2>2. CASE UNCHANGED <<shown, gpc, taken>> /\ flags \subseteq flags'
    BY <1>1, <2>1, <2>2 DEF Redrawn
  <2>3. CASE gui_redraw(Picture)
    BY <1>1, <2>1, <2>3 DEF Redrawn, gui_redraw
  <2>4. CASE ClearDrawFlag
    BY <2>4 DEF Redrawn, ClearDrawFlag
  <2>5. CASE TakeFlags
    BY <1>1, <2>1, <2>5 DEF Redrawn, TakeFlags
  <2>6. CASE InputDone
    BY <1>1, <2>1, <2>6 DEF Redrawn, InputDone
  <2>7. CASE gui_input
    <3>1. gpc = "input" /\ gpc' \in {"input", "deliver"}
          /\ UNCHANGED <<taken, flags, shown>>
      BY <2>7, GuiInputStep
    <3>2. QED
      BY <1>1, <2>1, <3>1 DEF Redrawn
  <2>8. CASE DeliveryReturns
    BY <1>1, <2>1, <2>8 DEF Redrawn, DeliveryReturns
  <2>9. QED
    BY <1>1, <2>2, <2>3, <2>4, <2>5, <2>6, <2>7, <2>8
<1>2. CASE \E k \in Keys, type \in Types : KeyEvent(k, type)
  <2>1. UNCHANGED <<portVars, guiThreadVars, shown, flags, vdVars>>
    BY <1>2 DEF KeyEvent, gui_input_events_callback
  <2>2. QED
    BY <1>1, <2>1 DEF portVars, guiThreadVars, vdVars, viewVars
<1>3. CASE Publisher
  <2>1. UNCHANGED <<portVars, guiThreadVars, shown, vdVars>> /\ flags \subseteq flags'
    BY <1>3 DEF Publisher, SetInputFlag
  <2>2. QED
    BY <1>1, <2>1 DEF portVars, guiThreadVars, vdVars, viewVars
<1>4. CASE GuiThread
  <2>1. UNCHANGED <<portVars, viewVars>>
    <3>1. CASE view_dispatcher_input_callback
      BY <3>1 DEF view_dispatcher_input_callback, DeliveryReturns
    <3>2. CASE gui_input /\ UNCHANGED vdVars
      BY <3>2, GuiInputStep DEF vdVars
    <3>3. CASE /\ UNCHANGED vdVars
               /\ TakeFlags \/ InputDone \/ ClearDrawFlag \/ gui_redraw(Picture)
      BY <3>3 DEF vdVars, TakeFlags, InputDone, ClearDrawFlag, gui_redraw
    <3>4. QED
      BY <1>4, <3>1, <3>2, <3>3 DEF GuiThread
  <2>2. gui_redraw(Picture) \/ ClearDrawFlag \/ TakeFlags \/ InputDone
        \/ gui_input \/ DeliveryReturns
    BY <1>4 DEF GuiThread, view_dispatcher_input_callback
  <2>3. UNCHANGED <<layers, enabled, lockdown, direct_draw, current_view>>
    BY <2>1 DEF portVars, viewVars
  <2>4. QED
    BY <1>1, <2>2, <2>3
<1>5. CASE Application
  BY <1>5, ApplicationFrame DEF Redrawn
<1>6. CASE OtherThread \/ DirectDrawEnds
  BY <1>6, OthersFrame DEF Redrawn
<1>7. CASE UNCHANGED vars
  <2>1. UNCHANGED <<portVars, guiThreadVars, shown, flags, viewVars>>
    BY <1>7 DEF vars, guiVars, vdVars
  <2>2. QED
    BY <1>1, <2>1 DEF portVars, guiThreadVars, viewVars
<1>8. QED
  BY <1>2, <1>3, <1>4, <1>5, <1>6, <1>7 DEF Next

LEMMA WokenStep ==
    ASSUME Structure, Woken, [Next]_vars
    PROVE  Woken'
<1>1. CASE \E k \in Keys, type \in Types : KeyEvent(k, type)
  BY <1>1 DEF KeyEvent, gui_input_events_callback, Woken
<1>2. CASE Publisher
  BY <1>2 DEF Publisher, SetInputFlag, Woken
<1>3. CASE GuiThread
  <2>1. CASE view_dispatcher_input_callback
    BY <2>1 DEF view_dispatcher_input_callback, DeliveryReturns, Woken
  <2>2. CASE gui_input
    BY <2>2, GuiInputStep DEF Woken
  <2>3. CASE TakeFlags \/ InputDone \/ ClearDrawFlag \/ gui_redraw(Picture)
    BY <2>3 DEF TakeFlags, InputDone, ClearDrawFlag, gui_redraw, guiInputVars,
                Woken
  <2>4. QED
    BY <1>3, <2>1, <2>2, <2>3 DEF GuiThread
<1>4. CASE Application
  BY <1>4, ApplicationFrame DEF Woken
<1>5. CASE OtherThread \/ DirectDrawEnds
  BY <1>5, OthersFrame DEF Woken
<1>6. CASE UNCHANGED vars
  BY <1>6 DEF vars, guiVars, guiInputVars, guiThreadVars, Woken
<1>7. QED
  BY <1>1, <1>2, <1>3, <1>4, <1>5, <1>6 DEF Next
-----------------------------------------------------------------------------
(* The keys that are down.                                                 *)

\* A press comes after a release, and only then.
LEMMA PressFollows ==
    ASSUME NEW a \in KeyOrder!InputType, NEW type \in KeyOrder!Following(a)
    PROVE  type = "Press" <=> a = "Release"
<1>1. CASE a = "Release"
  <2>1. a # "Press" /\ a # "Short" /\ a \notin {"Long", "Repeat"}
    BY <1>1
  <2>2. KeyOrder!Following(a) = {"Press"}
    BY <1>1, <2>1, Zenon DEF KeyOrder!Following
  <2>3. QED
    BY <1>1, <2>2
<1>2. CASE a = "Press"
  <2>1. a # "Release" /\ a # "Short" /\ a \notin {"Long", "Repeat"}
    BY <1>2
  <2>2. KeyOrder!Following(a) = {"Short", "Long"}
    BY <1>2, <2>1, Zenon DEF KeyOrder!Following
  <2>3. QED
    BY <1>2, <2>2
<1>3. CASE a = "Short"
  <2>1. a # "Release" /\ a # "Press" /\ a \notin {"Long", "Repeat"}
    BY <1>3
  <2>2. KeyOrder!Following(a) = {"Release"}
    BY <1>3, <2>1, Zenon DEF KeyOrder!Following
  <2>3. QED
    BY <1>3, <2>2
<1>4. CASE a \in {"Long", "Repeat"}
  <2>1. a # "Release" /\ a # "Press" /\ a # "Short"
    BY <1>4
  <2>2. KeyOrder!Following(a) = {"Repeat", "Release"}
    BY <1>4, <2>1, Zenon DEF KeyOrder!Following
  <2>3. QED
    BY <1>4, <2>2
<1>5. QED
  BY <1>1, <1>2, <1>3, <1>4 DEF KeyOrder!InputType

\* gui_input follows the keys as the events of its queue move them.
LEMMA GuiInputMoves ==
    ASSUME Structure, GuiInStep, gui_input
    PROVE  /\ Head(gui_queue) \in Events
           /\ Moves(gui_ongoing_input, Head(gui_queue), gui_ongoing_input')
           /\ Through(gui_ongoing_input', gui_queue', KeysDown)
<1> DEFINE e == Head(gui_queue)
<1>1. gui_queue # <<>> /\ gui_queue' = Tail(gui_queue)
      /\ gui_ongoing_input' = OngoingKeys(e)
  BY GuiInputStep
<1>2. gui_queue \in Seq(Events)
  BY DEF Structure, TypeOK, GuiTypeOK, KeyTypeOK
<1>3. PICK between \in SUBSET InputKey :
          /\ Moves(gui_ongoing_input, e, between)
          /\ Through(between, Tail(gui_queue), KeysDown)
  BY <1>1, <1>2, ThroughTail DEF GuiInStep
<1>4. e \in Events
  BY <1>1, <1>2, HeadTailProperties
<1> HIDE DEF e
<1>5. between = OngoingKeys(e)
  BY <1>3 DEF Moves, OngoingKeys
<1>6. QED
  BY <1>1, <1>3, <1>4, <1>5 DEF e

LEMMA GuiInStepStep ==
    ASSUME Structure, GuiInStep, [Next]_vars
    PROVE  GuiInStep'
<1>1. CASE UNCHANGED <<last, gui_queue, gui_ongoing_input>>
  BY <1>1 DEF GuiInStep, KeysDown
<1>2. ASSUME NEW k \in Keys, NEW type \in Types, KeyEvent(k, type)
      PROVE  GuiInStep'
  <2>1. /\ KeyOrder!Publish(k, type) /\ UNCHANGED gui_ongoing_input
        /\ gui_queue' = Append(gui_queue, Event(k, type))
    BY <1>2 DEF KeyEvent, gui_input_events_callback
  <2>2. /\ last \in [Keys -> KeyOrder!InputType]
        /\ gui_queue \in Seq(Events) /\ gui_ongoing_input \subseteq InputKey
    BY DEF Structure, TypeOK, GuiTypeOK, KeyTypeOK
  <2>3. type = "Press" <=> last[k] = "Release"
    BY <2>1, <2>2, PressFollows DEF KeyOrder!Publish
  <2>4. last' = [last EXCEPT ![k] = type]
    BY <2>1 DEF KeyOrder!Publish
  <2>5. Moves(KeysDown, Event(k, type), KeysDown')
    <3>1. KeysDown' = IF type = "Release" THEN KeysDown \ {k}
                      ELSE KeysDown \cup {k}
      BY <2>2, <2>4 DEF KeysDown
    <3>2. type = "Press" <=> k \notin KeysDown
      BY <2>3 DEF KeysDown
    <3>3. Event(k, type).key = k /\ Event(k, type).type = type
      BY DEF Event
    <3> HIDE DEF KeysDown
    <3>4. QED
      BY <3>1, <3>2, <3>3 DEF Moves
  <2>6. Event(k, type) \in Events /\ KeysDown' \in SUBSET InputKey
    BY GuiAssumption, ViewDispatcherAssumption DEF Event, Events, KeysDown
  <2>7. QED
    BY <2>1, <2>2, <2>5, <2>6, ThroughAppend DEF GuiInStep
<1>3. CASE Publisher
  BY <1>1, <1>3 DEF Publisher, SetInputFlag
<1>4. CASE GuiThread
  <2>1. CASE view_dispatcher_input_callback
    BY <1>1, <2>1 DEF view_dispatcher_input_callback, DeliveryReturns,
                      guiInputVars
  <2>2. CASE gui_input
    BY <2>2, GuiInputMoves, GuiInputStep DEF GuiInStep, KeysDown
  <2>3. CASE TakeFlags \/ InputDone \/ ClearDrawFlag \/ gui_redraw(Picture)
    BY <1>1, <2>3 DEF TakeFlags, InputDone, ClearDrawFlag, gui_redraw,
                      guiInputVars
  <2>4. QED
    BY <1>4, <2>1, <2>2, <2>3 DEF GuiThread
<1>5. CASE Application
  BY <1>1, <1>5, ApplicationFrame
<1>6. CASE OtherThread \/ DirectDrawEnds
  BY <1>1, <1>6, OthersFrame
<1>7. CASE UNCHANGED vars
  BY <1>1, <1>7 DEF vars, guiVars, guiInputVars
<1>8. QED
  BY <1>2, <1>3, <1>4, <1>5, <1>6, <1>7 DEF Next

LEMMA DrainedStep ==
    ASSUME Structure, Drained, [Next]_vars
    PROVE  Drained'
<1>1. CASE UNCHANGED <<dpc, ongoing_input>>
  BY <1>1 DEF Drained
<1>2. CASE (\E k \in Keys, type \in Types : KeyEvent(k, type)) \/ Publisher
  BY <1>1, <1>2 DEF KeyEvent, Publisher, vdVars, inputVars
<1>3. CASE GuiThread
  BY <1>1, <1>3 DEF GuiThread, view_dispatcher_input_callback, vdVars, inputVars
<1>4. CASE Application
  <2>1. CASE view_dispatcher_handle_input
    BY <2>1 DEF view_dispatcher_handle_input, Drained
  <2>2. CASE HandleEvent \/ LoopEnds \/ RemoveViews \/ view_dispatcher_free
    BY <2>2 DEF HandleEvent, LoopEnds, RemoveViews, view_dispatcher_free,
                inputVars, Drained
  <2>3. CASE Drain
    BY <2>3 DEF Drain, Drained
  <2>4. CASE ExecuteCall
    <3> DEFINE v == call[2]
    <3>1. UNCHANGED dpc
      BY <2>4 DEF ExecuteCall
    <3>2. ongoing_input' \in {ongoing_input, {}}
      <4>1. CASE view_dispatcher_switch_to_view(v)
        BY <4>1, ChosenType DEF view_dispatcher_switch_to_view, Chosen
      <4>2. CASE view_dispatcher_remove_view(v)
        BY <4>2, RemoveView, ChosenType
      <4>3. CASE \/ view_dispatcher_add_view(v) \/ view_dispatcher_send_to_front
                 \/ view_dispatcher_send_custom_event \/ view_dispatcher_stop
        BY <4>3 DEF view_dispatcher_add_view, view_dispatcher_send_to_front,
                    view_dispatcher_send_custom_event, view_dispatcher_stop,
                    inputVars
      <4>4. QED
        BY <2>4, <4>1, <4>2, <4>3 DEF ExecuteCall
    <3>3. QED
      BY <3>1, <3>2 DEF Drained
  <2>5. QED
    BY <1>4, <2>1, <2>2, <2>3, <2>4 DEF Application
<1>5. CASE OtherThread \/ DirectDrawEnds
  BY <1>1, <1>5, OthersFrame DEF inputVars
<1>6. CASE UNCHANGED vars
  BY <1>1, <1>6 DEF vars, vdVars, inputVars
<1>7. QED
  BY <1>2, <1>3, <1>4, <1>5, <1>6 DEF Next
-----------------------------------------------------------------------------
(* The dispatcher and its views are in step with the user.                 *)

LEMMA IncomingType ==
    ASSUME Structure
    PROVE  /\ Incoming \in Seq(Events) /\ input_queue \in Seq(Events)
           /\ gpc # "deliver" => Incoming = input_queue
<1>1. input_queue \in Seq(Events) /\ delivery \in Deliveries \cup {None}
  BY DEF Structure, TypeOK, ApplicationTypeOK, GuiTypeOK, GuiThreadTypeOK
<1>2. delivery # None => delivery.event \in Events
  BY <1>1 DEF Deliveries
<1>3. Incoming \in Seq(Events)
  BY <1>1, <1>2, AppendProperties DEF Incoming
<1>4. QED
  BY <1>1, <1>3 DEF Incoming, Structure, Placed

LEMMA InStepKept ==
    ASSUME InStep, UNCHANGED <<sacrificed, ongoing_input, dpc, holding,
                               ongoing_input_view>>,
           Incoming' = Incoming, Promised' = Promised
    PROVE  InStep'
<1>1. DispatcherInStep => DispatcherInStep'
  BY DEF DispatcherInStep
<1>2. ViewInStep => ViewInStep'
  BY DEF ViewInStep
<1>3. QED
  BY <1>1, <1>2 DEF InStep

\* A key that the dispatcher hears of is pressed when it is up.
LEMMA PressMapped ==
    ASSUME Structure, NEW e \in Events,
           Moves(gui_ongoing_input, e, gui_ongoing_input'),
           NEW after \in SUBSET Promised,
           ongoing_input_view_port' = Dispatcher,
           UNCHANGED orientation,
           e.type = "Press" \/ UNCHANGED ongoing_input_view_port
    PROVE  \E next \in SUBSET Promised' :
              Moves(after, view_port_map_input(e, orientation[Dispatcher]), next)
<1> DEFINE m == view_port_input_mapping[orientation[Dispatcher]]
           k == m[e.key]
<1>1. /\ e.key \in InputKey /\ gui_ongoing_input \subseteq InputKey
      /\ orientation[Dispatcher] \in Orientation
  BY PortFacts DEF Events, Structure, TypeOK, GuiTypeOK, KeyTypeOK, PortTypeOK
<1>2. /\ \A j \in InputKey : m[j] \in InputKey
      /\ \A i, j \in InputKey : m[i] = m[j] => i = j
  BY <1>1, MapInput
<1>3. /\ view_port_map_input(e, orientation[Dispatcher]).key = k
      /\ view_port_map_input(e, orientation[Dispatcher]).type = e.type
  BY DEF view_port_map_input, Event
<1>4. after \subseteq {m[j] : j \in gui_ongoing_input}
  BY DEF Promised
<1>5. Promised' = {m[j] : j \in gui_ongoing_input'}
  BY DEF Promised
<1> HIDE DEF m
<1>6. CASE e.type = "Press"
  <2>1. e.key \notin gui_ongoing_input
        /\ gui_ongoing_input' = gui_ongoing_input \cup {e.key}
    BY <1>6 DEF Moves
  <2>2. k \notin after /\ after \cup {k} \subseteq Promised'
    BY <1>1, <1>2, <1>4, <1>5, <2>1
  <2>3. Moves(after, view_port_map_input(e, orientation[Dispatcher]), after \cup {k})
    BY <1>3, <1>6, <2>2 DEF Moves
  <2>4. QED
    BY <2>2, <2>3
<1>7. CASE e.type = "Release"
  <2>1. gui_ongoing_input' = gui_ongoing_input \ {e.key}
    BY <1>7 DEF Moves
  <2>2. after \ {k} \subseteq Promised'
    BY <1>4, <1>5, <2>1
  <2>3. Moves(after, view_port_map_input(e, orientation[Dispatcher]), after \ {k})
    BY <1>3, <1>7 DEF Moves
  <2>4. QED
    BY <2>2, <2>3
<1>8. CASE e.type \notin {"Press", "Release"}
  <2>1. gui_ongoing_input' = gui_ongoing_input
    BY <1>8 DEF Moves
  <2>2. after \subseteq Promised'
    BY <1>4, <1>5, <2>1
  <2>3. Moves(after, view_port_map_input(e, orientation[Dispatcher]), after)
    BY <1>3, <1>8 DEF Moves
  <2>4. QED
    BY <2>2, <2>3
<1>9. QED
  BY <1>6, <1>7, <1>8

LEMMA GuiInputInStep ==
    ASSUME Structure, GuiInStep, DispatcherInStep, gui_input, UNCHANGED vdVars
    PROVE  DispatcherInStep'
<1> DEFINE e == Head(gui_queue)
           vp == ongoing_input_view_port
           r == Receiver(e, Topmost, ongoing_input_view_port')
<1>1. /\ gpc = "input"
      /\ gui_ongoing_input' = OngoingKeys(e)
      /\ vp' = IF /\ e.type = "Press" /\ OngoingKeys(e) = {e.key}
                  /\ ~ (direct_draw /\ vp = None)
               THEN Topmost ELSE vp
      /\ \/ /\ r # None
            /\ delivery' = [port |-> r,
                            event |-> view_port_map_input(e, orientation[r])]
            /\ gpc' = "deliver"
         \/ /\ \/ e.type # "Release" /\ e.key \notin OngoingKeys(e)
               \/ direct_draw /\ vp = None
               \/ r = None
            /\ UNCHANGED <<delivery, gpc>>
      /\ UNCHANGED portVars
  BY GuiInputStep
<1>2. e \in Events /\ Moves(gui_ongoing_input, e, gui_ongoing_input')
  BY GuiInputMoves
<1>3. UNCHANGED <<ongoing_input, input_queue, orientation>>
  BY <1>1 DEF vdVars, inputVars, portVars
<1>4. delivery = None /\ Incoming = input_queue /\ input_queue \in Seq(Events)
  BY <1>1, IncomingType DEF Structure, Placed
<1>5. PICK after \in SUBSET Promised : Through(ongoing_input, Incoming, after)
  BY DEF DispatcherInStep
<1>6. (r = None \/ r = vp') /\ (e.type = "Release" => r = vp')
  BY DEF Receiver
<1>7. gui_ongoing_input \subseteq InputKey /\ Promised' \subseteq InputKey
  <2>1. Structure'
    BY GuiInputStructure
  <2>2. /\ \A j \in InputKey :
              view_port_input_mapping[orientation[Dispatcher]'][j] \in InputKey
        /\ gui_ongoing_input' \subseteq InputKey
    BY <2>1, PortFacts, MapInput
       DEF Structure, TypeOK, GuiTypeOK, PortTypeOK, KeyTypeOK
  <2>3. QED
    BY <2>2 DEF Promised, Structure, TypeOK, GuiTypeOK, KeyTypeOK
<1> HIDE DEF e, r
<1>8. CASE r = Dispatcher /\ delivery' # None
  <2>1. vp' = Dispatcher
    BY <1>6, <1>8, PortFacts
  <2>2. /\ delivery' = [port |-> Dispatcher,
                  event |-> view_port_map_input(e, orientation[Dispatcher])]
    BY <1>1, <1>4, <1>8
  <2>3. e.type = "Press" \/ UNCHANGED ongoing_input_view_port
    BY <1>1
  <2>4. PICK next \in SUBSET Promised' :
            Moves(after, view_port_map_input(e, orientation[Dispatcher]), next)
    BY <1>2, <1>3, <1>5, <2>1, <2>3, PressMapped
  <2>5. Incoming' = Append(input_queue,
                           view_port_map_input(e, orientation[Dispatcher]))
    BY <1>3, <1>8, <2>2 DEF Incoming
  <2>6. view_port_map_input(e, orientation[Dispatcher]) \in Events
    <3>1. delivery' \in Deliveries
      BY <1>8, GuiInputStructure DEF Structure, TypeOK, GuiTypeOK, GuiThreadTypeOK
    <3>2. QED
      BY <2>2, <3>1 DEF Deliveries
  <2>7. next \in SUBSET InputKey
    BY <1>7
  <2>8. Through(ongoing_input, Incoming', next)
    BY <1>4, <1>5, <2>4, <2>5, <2>6, <2>7, ThroughAppend
  <2>9. QED
    BY <1>3, <2>8 DEF DispatcherInStep
<1>9. CASE ~ (r = Dispatcher /\ delivery' # None)
  <2>1. Incoming' = input_queue
    BY <1>1, <1>3, <1>4, <1>9 DEF Incoming
  <2>2. after \subseteq Promised'
    <3>1. CASE after = {}
      BY <3>1
    <3>2. CASE after # {}
      <4>1. vp = Dispatcher /\ gui_ongoing_input # {}
        BY <3>2 DEF Promised
      <4>2. vp' = vp
        BY <1>1, <1>2, <4>1 DEF Moves
      <4>3. e.type # "Release"
        <5>1. ASSUME e.type = "Release"
              PROVE  FALSE
          <6>1. r = Dispatcher /\ r # None /\ vp # None
            BY <1>6, <4>1, <4>2, <5>1, PortFacts
          <6>2. delivery' = [port |-> r,
                             event |-> view_port_map_input(e, orientation[r])]
                /\ gpc' = "deliver"
            BY <1>1, <5>1, <6>1
          <6>3. Structure'
            BY GuiInputStructure
          <6>4. delivery' # None
            BY <6>2, <6>3 DEF Structure, Placed
          <6>5. QED
            BY <1>9, <6>1, <6>4
        <5>2. QED
          BY <5>1
      <4>4. gui_ongoing_input \subseteq gui_ongoing_input'
        BY <1>2, <4>3 DEF Moves
      <4>5. QED
        BY <1>3, <1>5, <4>1, <4>2, <4>4 DEF Promised
    <3>3. QED
      BY <3>1, <3>2
  <2>3. QED
    BY <1>3, <1>4, <1>5, <2>1, <2>2 DEF DispatcherInStep
<1>10. QED
  BY <1>8, <1>9

\* The application takes an event out of the dispatcher's queue.
LEMMA TakeInStep ==
    ASSUME Structure, DispatcherInStep, input_queue # <<>>,
           input_queue' = Tail(input_queue),
           ongoing_input' = Ongoing(Head(input_queue)),
           UNCHANGED guiVars
    PROVE  /\ Moves(ongoing_input, Head(input_queue), ongoing_input')
           /\ DispatcherInStep'
<1> DEFINE e == Head(input_queue)
<1>1. UNCHANGED <<delivery, ongoing_input_view_port, orientation,
                  gui_ongoing_input>>
  BY DEF guiVars, guiInputVars, guiThreadVars, portVars
<1>2. input_queue \in Seq(Events) /\ Incoming \in Seq(Events)
  BY IncomingType
<1>3. PICK after \in SUBSET Promised : Through(ongoing_input, Incoming, after)
  BY DEF DispatcherInStep
<1>4. /\ Incoming # <<>> /\ Head(Incoming) = e
      /\ Tail(Incoming) = Incoming'
  <2>1. CASE delivery # None /\ delivery.port = Dispatcher
    <3> DEFINE d == delivery.event
    <3>1. d \in Events
      BY <2>1 DEF Structure, TypeOK, GuiTypeOK, GuiThreadTypeOK, Deliveries
    <3>2. Incoming = Append(input_queue, d)
      BY <2>1 DEF Incoming
    <3>3. Incoming' = Append(Tail(input_queue), d)
      BY <1>1, <2>1 DEF Incoming
    <3> HIDE DEF d
    <3>4. /\ Append(input_queue, d) # <<>>
          /\ Head(Append(input_queue, d)) = Head(input_queue)
          /\ Tail(Append(input_queue, d)) = Append(Tail(input_queue), d)
      BY <1>2, <3>1
    <3>5. QED
      BY <3>2, <3>3, <3>4
  <2>2. CASE ~ (delivery # None /\ delivery.port = Dispatcher)
    BY <1>1, <2>2 DEF Incoming
  <2>3. QED
    BY <2>1, <2>2
<1>5. PICK between \in SUBSET InputKey :
          Moves(ongoing_input, e, between) /\ Through(between, Incoming', after)
  BY <1>2, <1>3, <1>4, ThroughTail
<1>6. between = ongoing_input'
  BY <1>5, OngoingIs DEF Moves
<1>7. Promised' = Promised
  BY <1>1 DEF Promised
<1>8. QED
  BY <1>3, <1>5, <1>6, <1>7 DEF DispatcherInStep

LEMMA HandleInputInStep ==
    ASSUME Structure, InStep, view_dispatcher_handle_input
    PROVE  InStep'
<1> DEFINE e == Head(input_queue)
           v == ViewFor(e, ongoing_input_view')
<1>1. /\ dpc = "loop" /\ input_queue # <<>> /\ input_queue' = Tail(input_queue)
      /\ ongoing_input' = Ongoing(e)
      /\ ongoing_input_view' = IF e.type = "Press" /\ Ongoing(e) = {e.key}
                               THEN current_view ELSE ongoing_input_view
      /\ \/ v # None /\ view_input(v, e)
         \/ v = None /\ UNCHANGED holding
      /\ UNCHANGED <<guiVars, sacrificed>>
  BY DEF view_dispatcher_handle_input
<1>2. SUFFICES ASSUME ~ sacrificed
               PROVE  DispatcherInStep' /\ ViewInStep'
  BY <1>1 DEF InStep
<1>3. DispatcherInStep /\ ViewInStep
  BY <1>2 DEF InStep
<1>4. Moves(ongoing_input, e, ongoing_input') /\ DispatcherInStep'
  BY <1>1, <1>3, TakeInStep
<1>5. /\ \A u \in Views : /\ holding[u] \subseteq ongoing_input
                          /\ holding[u] # {} => ongoing_input_view = u
      /\ holding \in [Views -> SUBSET InputKey]
      /\ current_view \in Views \cup {None}
      /\ ongoing_input_view \in Views \cup {None}
  BY <1>1, <1>3 DEF ViewInStep, Structure, TypeOK, ViewTypeOK
<1>6. /\ v \in {ongoing_input_view', None}
      /\ e.type = "Release" => v = ongoing_input_view'
  BY DEF ViewFor
<1>7. v # None =>
          /\ v \in Views
          /\ holding' = [holding EXCEPT ![v] =
                            IF e.type = "Press" THEN @ \cup {e.key}
                            ELSE IF e.type = "Release" THEN @ \ {e.key} ELSE @]
  <2> HIDE DEF v
  <2>1. QED
    BY <1>1, <1>5, <1>6, ViewInputIs
<1> HIDE DEF e, v
<1>8. ASSUME NEW u \in Views
      PROVE  /\ holding'[u] \subseteq ongoing_input'
             /\ holding'[u] # {} => ongoing_input_view' = u
  <2>1. CASE e.type = "Press"
    <3>1. /\ e.key \notin ongoing_input
          /\ ongoing_input' = ongoing_input \cup {e.key}
      BY <1>4, <2>1 DEF Moves
    <3>2. holding[u] # {} => ongoing_input_view' = ongoing_input_view
      BY <1>1, <1>5, <3>1
    <3>3. holding'[u] = IF u = v THEN holding[u] \cup {e.key} ELSE holding[u]
      BY <1>1, <1>5, <1>7, <2>1, PortFacts
    <3>4. QED
      BY <1>5, <1>6, <3>1, <3>2, <3>3, PortFacts
  <2>2. CASE e.type = "Release"
    <3>1. /\ ongoing_input' = ongoing_input \ {e.key}
          /\ ongoing_input_view' = ongoing_input_view
      BY <1>1, <1>4, <2>2 DEF Moves
    <3>2. holding[u] # {} => u = v
      BY <1>5, <1>6, <2>2, <3>1
    <3>3. holding'[u] = IF u = v THEN holding[u] \ {e.key} ELSE holding[u]
      BY <1>1, <1>5, <1>7, <2>2, PortFacts
    <3>4. QED
      BY <1>5, <3>1, <3>2, <3>3
  <2>3. CASE e.type \notin {"Press", "Release"}
    <3>1. /\ ongoing_input' = ongoing_input
          /\ ongoing_input_view' = ongoing_input_view
      BY <1>1, <1>4, <2>3 DEF Moves
    <3>2. holding'[u] = holding[u]
      BY <1>1, <1>5, <1>7, <2>3
    <3>3. QED
      BY <1>5, <3>1, <3>2
  <2>4. QED
    BY <2>1, <2>2, <2>3
<1>9. QED
  BY <1>4, <1>8 DEF ViewInStep

\* A view is chosen: nobody knows of a key that is down, or it stays as it was.
LEMMA ChosenInStep ==
    ASSUME Structure, InStep, NEW v, Chosen(v),
           UNCHANGED <<guiInputVars, guiThreadVars, dpc, input_queue>>,
           \A u \in Views : holding'[u] = {} \/
                            /\ holding'[u] = holding[u]
                            /\ ongoing_input_view' = ongoing_input_view
    PROVE  InStep'
<1>1. UNCHANGED <<delivery, ongoing_input_view_port, gui_ongoing_input, gpc>>
  BY DEF guiInputVars, guiThreadVars
<1>2. Incoming' = Incoming
  BY <1>1 DEF Incoming
<1>3. SUFFICES ASSUME ~ sacrificed'
               PROVE  DispatcherInStep' /\ ViewInStep'
  BY DEF InStep
<1>4. CASE UNCHANGED <<orientation, ongoing_input, sacrificed>>
  <2>1. DispatcherInStep /\ ViewInStep
    BY <1>3, <1>4 DEF InStep
  <2>2. Promised' = Promised
    BY <1>1, <1>4 DEF Promised
  <2>3. DispatcherInStep'
    BY <1>2, <1>4, <2>1, <2>2 DEF DispatcherInStep
  <2>4. ViewInStep'
    BY <1>4, <2>1 DEF ViewInStep
  <2>5. QED
    BY <2>3, <2>4
<1>5. CASE /\ PortUnlocked(Dispatcher) /\ ongoing_input' = {}
           /\ sacrificed' = (sacrificed \/ ongoing_input # {}
                                        \/ input_queue # <<>>)
  <2>1. ~ sacrificed /\ ongoing_input = {} /\ input_queue = <<>>
    BY <1>3, <1>5
  <2>2. Incoming' = <<>>
    BY <1>2, <1>5, <2>1 DEF PortUnlocked, Incoming, Structure, Placed
  <2>3. Through(ongoing_input', Incoming', {})
    BY <1>5, <2>2, ThroughEmpty
  <2>4. DispatcherInStep'
    BY <2>3 DEF DispatcherInStep
  <2>5. dpc = "loop" => \A u \in Views : holding[u] = {}
    BY <2>1 DEF InStep, ViewInStep
  <2>6. ViewInStep'
    BY <2>5 DEF ViewInStep
  <2>7. QED
    BY <2>4, <2>6
<1>6. QED
  BY <1>4, <1>5 DEF Chosen, NoCurrentView, view_dispatcher_set_current_view

LEMMA InStepStep ==
    ASSUME Structure, GuiInStep, Drained, InStep, [Next]_vars
    PROVE  InStep'
<1>1. ASSUME UNCHANGED <<sacrificed, ongoing_input, dpc, holding,
                         ongoing_input_view, input_queue, delivery, orientation,
                         gui_ongoing_input, ongoing_input_view_port>>
      PROVE  InStep'
  <2>1. Incoming' = Incoming /\ Promised' = Promised
    BY <1>1 DEF Incoming, Promised
  <2>2. QED
    BY <1>1, <2>1, InStepKept
<1>2. ASSUME UNCHANGED guiVars,
             UNCHANGED <<sacrificed, ongoing_input, dpc, holding,
                         ongoing_input_view, input_queue>>
      PROVE  InStep'
  BY <1>1, <1>2 DEF guiVars, guiInputVars, guiThreadVars, portVars
<1>3. CASE (\E k \in Keys, type \in Types : KeyEvent(k, type)) \/ Publisher
  <2>1. UNCHANGED <<delivery, orientation, gui_ongoing_input,
                    ongoing_input_view_port, vdVars>>
    BY <1>3 DEF KeyEvent, gui_input_events_callback, Publisher, SetInputFlag,
                guiThreadVars, portVars
  <2>2. QED
    BY <1>1, <2>1 DEF vdVars, inputVars, ghostVars
<1>4. CASE GuiThread
  <2>1. CASE view_dispatcher_input_callback
    <3>1. UNCHANGED <<sacrificed, ongoing_input, dpc, holding,
                      ongoing_input_view, orientation, gui_ongoing_input,
                      ongoing_input_view_port>>
      BY <2>1 DEF view_dispatcher_input_callback, DeliveryReturns, ghostVars,
                  guiInputVars, portVars
    <3>2. delivery' = None /\ delivery # None
      BY <2>1 DEF view_dispatcher_input_callback, DeliveryReturns, Structure,
                  Placed
    <3>3. Incoming' = Incoming
      BY <2>1, <3>2 DEF view_dispatcher_input_callback, Incoming
    <3>4. Promised' = Promised
      BY <3>1 DEF Promised
    <3>5. QED
      BY <3>1, <3>3, <3>4, InStepKept
  <2>2. CASE gui_input /\ UNCHANGED vdVars
    <3>1. UNCHANGED <<sacrificed, ongoing_input, dpc, holding,
                      ongoing_input_view>>
      BY <2>2 DEF vdVars, inputVars, ghostVars
    <3>2. DispatcherInStep => DispatcherInStep'
      BY <2>2, GuiInputInStep
    <3>3. ViewInStep => ViewInStep'
      BY <3>1 DEF ViewInStep
    <3>4. QED
      BY <3>1, <3>2, <3>3 DEF InStep
  <2>3. CASE /\ TakeFlags \/ InputDone \/ ClearDrawFlag \/ gui_redraw(Picture)
             /\ UNCHANGED vdVars
    BY <1>1, <2>3 DEF TakeFlags, InputDone, ClearDrawFlag, gui_redraw,
         guiInputVars, portVars, vdVars, inputVars, ghostVars
  <2>4. QED
    BY <1>4, <2>1, <2>2, <2>3 DEF GuiThread
<1>5. CASE Application
  <2>1. CASE view_dispatcher_handle_input
    BY <2>1, HandleInputInStep
  <2>2. CASE HandleEvent \/ RemoveViews
    BY <1>2, <2>2 DEF HandleEvent, RemoveViews, inputVars, ghostVars
  <2>3. CASE LoopEnds
    <3>1. UNCHANGED <<guiVars, inputVars, sacrificed>> /\ dpc' = "drain"
      BY <2>3 DEF LoopEnds, ghostVars
    <3>2. UNCHANGED <<ongoing_input, input_queue, delivery, orientation,
                      gui_ongoing_input, ongoing_input_view_port>>
      BY <3>1 DEF guiVars, guiInputVars, guiThreadVars, portVars, inputVars
    <3>3. Incoming' = Incoming /\ Promised' = Promised
      BY <3>2 DEF Incoming, Promised
    <3>4. DispatcherInStep => DispatcherInStep'
      BY <3>2, <3>3 DEF DispatcherInStep
    <3>5. ViewInStep'
      BY <3>1 DEF ViewInStep
    <3>6. QED
      BY <3>1, <3>4, <3>5 DEF InStep
  <2>4. CASE Drain
    <3>1. UNCHANGED <<guiVars, sacrificed>> /\ dpc' # "loop"
      BY <2>4 DEF Drain, ghostVars
    <3>2. ViewInStep'
      BY <3>1 DEF ViewInStep
    <3>3. DispatcherInStep => DispatcherInStep'
      <4>1. CASE UNCHANGED <<input_queue, ongoing_input>>
        <5>1. UNCHANGED <<delivery, orientation, gui_ongoing_input,
                          ongoing_input_view_port>>
          BY <3>1 DEF guiVars, guiInputVars, guiThreadVars, portVars
        <5>2. Incoming' = Incoming /\ Promised' = Promised
          BY <4>1, <5>1 DEF Incoming, Promised
        <5>3. QED
          BY <4>1, <5>2 DEF DispatcherInStep
      <4>2. CASE /\ input_queue # <<>> /\ input_queue' = Tail(input_queue)
                 /\ ongoing_input' = Ongoing(Head(input_queue))
        BY <3>1, <4>2, TakeInStep
      <4>3. QED
        BY <2>4, <4>1, <4>2 DEF Drain
    <3>4. QED
      BY <3>1, <3>2, <3>3 DEF InStep
  <2>5. CASE view_dispatcher_free
    <3>1. /\ dpc = "done" /\ dpc' = "freed" /\ input_queue' = <<>>
          /\ gui_remove_view_port(Dispatcher) /\ UNCHANGED ongoing_input
      BY <2>5 DEF view_dispatcher_free
    <3>2. Unlocked /\ UNCHANGED guiThreadVars
      BY <3>1 DEF gui_remove_view_port
    <3>3. delivery' = None
      BY <3>2 DEF Unlocked, guiThreadVars, Structure, Placed
    <3>4. ongoing_input' = {} /\ Incoming' = <<>>
      BY <3>1, <3>3 DEF Drained, Incoming
    <3>5. Through(ongoing_input', Incoming', {})
      BY <3>4, ThroughEmpty
    <3>6. DispatcherInStep' /\ ViewInStep'
      BY <3>1, <3>5 DEF DispatcherInStep, ViewInStep
    <3>7. QED
      BY <3>6 DEF InStep
  <2>6. CASE ExecuteCall
    <3> DEFINE v == call[2]
    <3>1. UNCHANGED dpc
      BY <2>6 DEF ExecuteCall
    <3>2. holding \in [Views -> SUBSET InputKey]
      BY DEF Structure, TypeOK, ViewTypeOK
    <3>3. CASE view_dispatcher_switch_to_view(v)
      <4>1. /\ Chosen(v)
            /\ UNCHANGED <<guiInputVars, guiThreadVars, input_queue, holding,
                           ongoing_input_view>>
        BY <3>3 DEF view_dispatcher_switch_to_view, Chosen
      <4>2. QED
        BY <3>1, <4>1, ChosenInStep
    <3>4. CASE view_dispatcher_remove_view(v)
      <4>1. /\ \/ Chosen(None)
               \/ UNCHANGED <<orientation, ongoing_input, sacrificed>>
            /\ ongoing_input_view' =
                  IF ongoing_input_view = v THEN None ELSE ongoing_input_view
            /\ holding' = [holding EXCEPT ![v] = {}]
            /\ UNCHANGED <<guiInputVars, guiThreadVars, input_queue>>
        BY <3>4, RemoveView
      <4>2. CASE Chosen(None)
        <5>1. ~ sacrificed => ViewInStep
          BY DEF InStep
        <5>2. sacrificed' = sacrificed /\ ongoing_input' = ongoing_input
              /\ orientation' = orientation
          <6>1. NoCurrentView
            <7>1. None \notin views
              BY PortFacts DEF Structure, TypeOK, ViewTypeOK
            <7>2. QED
              BY <4>2, <7>1 DEF Chosen
          <6>2. QED
            BY <6>1 DEF NoCurrentView
        <5>3. QED
          BY <3>1, <3>2, <4>1, <5>2 DEF InStep, DispatcherInStep, ViewInStep,
             Incoming, Promised, guiInputVars, guiThreadVars
      <4>3. CASE UNCHANGED <<orientation, ongoing_input, sacrificed>>
        BY <3>1, <3>2, <4>1, <4>3 DEF InStep, DispatcherInStep, ViewInStep,
           Incoming, Promised, guiInputVars, guiThreadVars
      <4>4. QED
        BY <4>1, <4>2, <4>3
    <3>5. CASE view_dispatcher_send_to_front
      <4>1. /\ gui_view_port_send(Dispatcher, TRUE)
            /\ UNCHANGED <<inputVars, ghostVars>>
        BY <3>5, Zenon DEF view_dispatcher_send_to_front
      <4>2. UNCHANGED <<delivery, orientation, gui_ongoing_input,
                        ongoing_input_view_port>>
        BY <4>1 DEF gui_view_port_send, guiInputVars, guiThreadVars
      <4>3. QED
        BY <1>1, <3>1, <4>1, <4>2 DEF inputVars, ghostVars
    <3>6. CASE \/ view_dispatcher_add_view(v) \/ view_dispatcher_send_custom_event
               \/ view_dispatcher_stop
      BY <1>2, <3>1, <3>6 DEF view_dispatcher_add_view, view_dispatcher_stop,
           view_dispatcher_send_custom_event, inputVars, ghostVars
    <3>7. QED
      BY <2>6, <3>3, <3>4, <3>5, <3>6 DEF ExecuteCall
  <2>7. QED
    BY <1>5, <2>1, <2>2, <2>3, <2>4, <2>5, <2>6 DEF Application
<1>6. CASE OtherThread \/ DirectDrawEnds
  <2>1. UNCHANGED <<gui_ongoing_input, delivery, orientation, inputVars, dpc,
                    holding, sacrificed>>
    BY <1>6, OthersFrame
  <2>2. \/ ongoing_input_view_port' = ongoing_input_view_port
        \/ ongoing_input_view_port = Popup /\ ongoing_input_view_port' = None
    BY <1>6 DEF OtherThread, DirectDrawEnds, view_dispatcher_send_custom_event,
         gui_add_view_port, gui_remove_view_port, gui_view_port_send,
         gui_set_lockdown, gui_direct_draw_acquire, gui_direct_draw_release,
         guiVars, guiInputVars
  <2>3. Incoming' = Incoming
    BY <2>1 DEF Incoming, inputVars
  <2>4. Promised' = Promised
    BY <2>1, <2>2, PortFacts DEF Promised
  <2>5. QED
    BY <2>1, <2>3, <2>4, InStepKept DEF inputVars
<1>7. CASE UNCHANGED vars
  <2>1. UNCHANGED guiVars /\ UNCHANGED vdVars
    BY <1>7 DEF vars
  <2>2. QED
    BY <1>2, <2>1 DEF vdVars, inputVars, ghostVars
<1>8. QED
  BY <1>3, <1>4, <1>5, <1>6, <1>7 DEF Next
-----------------------------------------------------------------------------
(* The theorems.                                                           *)

LEMMA InitInv ==
    ASSUME Init
    PROVE  Inv
<1>1. Structure
  BY InitStructure
<1>2. /\ last = [k \in Keys |-> "Release"] /\ gui_queue = <<>>
      /\ gui_ongoing_input = {} /\ delivery = None /\ gpc = "wait"
      /\ enabled = Ports /\ lockdown = FALSE
      /\ layers = [Desktop |-> <<Desktop>>, Window |-> <<>>,
                   Fullscreen |-> <<Dispatcher>>]
      /\ ongoing_input = {} /\ input_queue = <<>> /\ dpc = "loop"
      /\ shown = current_view /\ holding = [u \in Views |-> {}]
  BY DEF Init, GuiInit
<1>3. Topmost = Dispatcher
  <2>1. gui_view_port_find_enabled("Fullscreen") = Dispatcher
    <3>1. layers["Fullscreen"] = <<Dispatcher>>
      BY <1>2
    <3> DEFINE I == {i \in 1 .. 1 : <<Dispatcher>>[i] \in enabled}
    <3>2. I = {1}
      BY <1>2, PortFacts
    <3>3. Len(<<Dispatcher>>) = 1 /\ <<Dispatcher>>[1] = Dispatcher
      OBVIOUS
    <3>4. Max(I) = 1
      <4>1. Max(I) \in I
        <5> HIDE DEF I
        <5>1. I \in SUBSET (0 .. 1) /\ I # {}
          BY <3>2
        <5>2. QED
          BY <5>1, MaxOfNat
      <4>2. QED
        BY <3>2, <4>1
    <3>5. gui_view_port_find_enabled("Fullscreen") =
              LET top == IF I # {} THEN Max(I) ELSE 0
              IN  IF top = 0 THEN None ELSE <<Dispatcher>>[top]
      BY <3>1, <3>3, Zenon DEF gui_view_port_find_enabled, SelectLastInSeq
    <3> HIDE DEF I
    <3>6. QED
      BY <3>2, <3>3, <3>4, <3>5
  <2>2. ~ lockdown /\ gui_view_port_find_enabled("Fullscreen") # None
    BY <1>2, <2>1, PortFacts
  <2>3. QED
    BY <2>1, <2>2, Zenon DEF Topmost
<1>4. Redrawn /\ Woken /\ Drained
  BY <1>2, <1>3 DEF Redrawn, Woken, Drained, Picture
<1>5. GuiInStep
  <2>1. KeysDown = {}
    BY <1>2 DEF KeysDown
  <2>2. QED
    BY <1>2, <2>1, ThroughEmpty DEF GuiInStep
<1>6. InStep
  <2>1. Incoming = <<>>
    BY <1>2 DEF Incoming
  <2>2. Through(ongoing_input, Incoming, {})
    BY <1>2, <2>1, ThroughEmpty
  <2>3. QED
    BY <1>2, <2>2 DEF InStep, DispatcherInStep, ViewInStep
<1>7. QED
  BY <1>1, <1>4, <1>5, <1>6 DEF Inv

LEMMA Invariance == Spec => []Inv
<1>1. Init => Inv
  BY InitInv
<1>2. Inv /\ [Next]_vars => Inv'
  BY StructureStep, RedrawnStep, WokenStep, GuiInStepStep, DrainedStep, InStepStep
     DEF Inv
<1>3. QED
  BY <1>1, <1>2, PTL DEF Spec

\* Every variable of the GUI service and of the dispatcher keeps its type: no
\* queue outgrows its slots, and every call names a view.
THEOREM TypeCorrect == Spec => []TypeOK
<1>1. Inv => TypeOK
  BY DEF Inv, Structure
<1>2. QED
  BY <1>1, Invariance, PTL

\* gui_input and the dispatcher's handlers never reach a view port that is
\* detached or a view that is removed, for any number of views and of events on
\* their way.
THEOREM DetachedStayUntouched == Spec => []DetachedUntouched
<1>1. Inv => DetachedUntouched
  BY DEF Inv, Structure
<1>2. QED
  BY <1>1, Invariance, PTL

\* gui_update and gui_redraw lose no request: a screen that is out of date will
\* be drawn again.
THEOREM ScreenStaysUpToDate == Spec => []ScreenUpToDate
<1>1. Inv => ScreenUpToDate
  BY DEF Inv, Redrawn, ScreenUpToDate
<1>2. QED
  BY <1>1, Invariance, PTL

\* No key stays down in gui_input, in view_dispatcher_handle_input or in a view
\* once the user has let go of all of them and the queues have been served.
THEOREM NoKeyStuck == Spec => []NoStuckKey
<1>1. ASSUME Inv
      PROVE  NoStuckKey
  <2>1. SUFFICES ASSUME Quiet, ~ sacrificed
                 PROVE  /\ gui_queue = <<>> /\ gui_ongoing_input = {}
                        /\ ongoing_input = {} /\ \A v \in Views : holding[v] = {}
    BY DEF NoStuckKey
  <2>2. gui_queue = <<>>
    BY <1>1, <2>1 DEF Quiet, Inv, Woken
  <2>3. gui_ongoing_input = {}
    <3>1. KeysDown = {} /\ gui_ongoing_input \in SUBSET InputKey
      BY <1>1, <2>1 DEF Quiet, KeysDown, Inv, Structure, TypeOK, GuiTypeOK,
                        KeyTypeOK
    <3>2. Through(gui_ongoing_input, <<>>, {})
      BY <1>1, <2>2, <3>1 DEF Inv, GuiInStep
    <3>3. QED
      BY <3>1, <3>2, ThroughEmpty
  <2>4. ongoing_input = {}
    <3>1. Incoming = <<>> /\ ongoing_input \in SUBSET InputKey
      BY <1>1, <2>1, IncomingType DEF Quiet, Inv, Structure, TypeOK,
                                      ApplicationTypeOK
    <3>2. PICK after \in SUBSET Promised : Through(ongoing_input, <<>>, after)
      BY <1>1, <2>1, <3>1 DEF Inv, InStep, DispatcherInStep
    <3>3. Promised = {}
      BY <2>3 DEF Promised
    <3>4. QED
      BY <3>1, <3>2, <3>3, ThroughEmpty
  <2>5. \A v \in Views : holding[v] = {}
    BY <1>1, <2>1, <2>4 DEF Quiet, Inv, InStep, ViewInStep
  <2>6. QED
    BY <2>2, <2>3, <2>4, <2>5
<1>2. QED
  BY <1>1, Invariance, PTL

\* view_dispatcher_run waits for no key in vain: its release is in the queue, on
\* its way, or still with the user, who has only to let go.
THEOREM RunMayReturn == Spec => []RunCanReturn
<1>1. ASSUME Inv
      PROVE  RunCanReturn
  <2>1. SUFFICES ASSUME ~ sacrificed, NEW k \in ongoing_input
                 PROVE  ReleaseComes(k)
    BY DEF RunCanReturn
  <2>2. PICK after \in SUBSET Promised : Through(ongoing_input, Incoming, after)
    BY <1>1, <2>1 DEF Inv, InStep, DispatcherInStep
  <2>3. input_queue \in Seq(Events) /\ Incoming \in Seq(Events)
    BY <1>1, IncomingType DEF Inv
  <2>4. CASE k \notin after
    <3>1. Event(k, "Release") \in ToSet(Incoming)
      BY <2>1, <2>2, <2>3, <2>4, ThroughRelease
    <3>2. CASE Event(k, "Release") \in ToSet(input_queue)
      BY <3>2 DEF ReleaseComes
    <3>3. CASE Event(k, "Release") \notin ToSet(input_queue)
      <4>1. delivery # None /\ delivery.port = Dispatcher
        BY <3>1, <3>3 DEF Incoming
      <4>2. delivery \in Deliveries
        BY <1>1, <4>1 DEF Inv, Structure, TypeOK, GuiTypeOK, GuiThreadTypeOK
      <4>3. delivery.event \in Events
        BY <4>2 DEF Deliveries
      <4>4. ToSet(Incoming) = ToSet(input_queue) \cup {delivery.event}
        BY <2>3, <4>1, <4>3, AppendList DEF Incoming
      <4>5. Event(k, "Release") = delivery.event
        BY <3>1, <3>3, <4>4
      <4>6. delivery = [port |-> Dispatcher, event |-> Event(k, "Release")]
        BY <4>1, <4>2, <4>5 DEF Deliveries
      <4>7. QED
        BY <4>6 DEF ReleaseComes
    <3>4. QED
      BY <3>2, <3>3
  <2>5. CASE k \in after
    <3>1. ongoing_input_view_port = Dispatcher
      BY <2>2, <2>5 DEF Promised
    <3>2. PICK p \in gui_ongoing_input :
              view_port_input_mapping[orientation[Dispatcher]][p] = k
      BY <2>2, <2>5, <3>1 DEF Promised
    <3>3. \/ p \in Keys /\ last[p] # "Release"
          \/ Event(p, "Release") \in ToSet(gui_queue)
      <4>1. /\ gui_queue \in Seq(Events)
            /\ Through(gui_ongoing_input, gui_queue, KeysDown)
        BY <1>1 DEF Inv, GuiInStep, Structure, TypeOK, GuiTypeOK, KeyTypeOK
      <4>2. CASE p \in KeysDown
        BY <4>2 DEF KeysDown
      <4>3. CASE p \notin KeysDown
        BY <4>1, <4>3, ThroughRelease
      <4>4. QED
        BY <4>2, <4>3
    <3>4. QED
      BY <3>1, <3>2, <3>3 DEF ReleaseComes
  <2>6. QED
    BY <2>4, <2>5
<1>2. QED
  BY <1>1, Invariance, PTL
=============================================================================
