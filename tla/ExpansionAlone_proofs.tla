----------------------- MODULE ExpansionAlone_proofs ------------------------
(***************************************************************************)
(* Proofs about what Expansion promises to a client that is alone, for any *)
(* interfaces, frames and bounds.                                          *)
(*                                                                         *)
(* The promises of expansion.h do not hold when two clients call the       *)
(* service, nor when the settings move it to another interface while a     *)
(* report of the last worker is still in the queue: the control thread     *)
(* cannot tell such a report from one of the next worker.  The invariant   *)
(* Reports says why no report outlives its worker otherwise.               *)
(***************************************************************************)
EXTENDS Expansion_proofs

\* Messages in the queue after a put and after a get.
LEMMA QueuePut ==
    ASSUME Accounts, NEW m \in Messages, PutMessage(m)
    PROVE  /\ Len(queue) \in Nat /\ Len(queue') = Len(queue) + 1
           /\ \A i \in 1 .. Len(queue) : queue'[i] = queue[i]
           /\ queue'[Len(queue) + 1] = m
  BY AppendProperties, LenProperties
  DEF PutMessage, Accounts, TypeOK, QueueTypeOK

LEMMA QueueGet ==
    ASSUME Accounts, GetMessage
    PROVE  /\ Len(queue) \in Nat \ {0} /\ Len(queue') = Len(queue) - 1
           /\ \A i \in 1 .. Len(queue) - 1 : queue'[i] = queue[i + 1]
           /\ msg' = queue[1] /\ msg' \in Messages /\ msg' # None
<1>1. queue \in Seq(Messages) /\ queue # <<>>
  BY DEF Accounts, TypeOK, QueueTypeOK, GetMessage
<1>2. /\ Len(queue) \in Nat \ {0} /\ Len(Tail(queue)) = Len(queue) - 1
      /\ \A i \in 1 .. Len(queue) - 1 : Tail(queue)[i] = queue[i + 1]
      /\ Head(queue) = queue[1] /\ Head(queue) \in Messages
  BY <1>1, HeadTailProperties, LenProperties, EmptySeq
<1>3. QED
  BY <1>2, MessageAssumption DEF GetMessage
-----------------------------------------------------------------------------
(* Which message is whose.                                                 *)

\* A call's message carries the lock of the client that made it, and is the
\* one that client waits for.
TrackedBy(m, r) ==
    /\ m.type \in CallTypes => m.from \in Clients
    /\ m.from \in Clients => m = r[m.from]

Tracks ==
    /\ \A i \in 1 .. Len(queue) : TrackedBy(queue[i], req)
    /\ msg # None => TrackedBy(msg, req)
    /\ \A c \in Clients : req[c] # None => /\ req[c].type \in Calls
                                           /\ req[c].from = c

\* Steps that put and take nothing, or end the handling of a message.
LEMMA TracksKept ==
    ASSUME Tracks, UNCHANGED <<queue, req>>, msg' = msg \/ msg' = None
    PROVE  Tracks'
  BY DEF Tracks

LEMMA TracksPut ==
    ASSUME Accounts, Tracks, NEW m \in Messages, TrackedBy(m, req),
           PutMessage(m), UNCHANGED <<msg, req>>
    PROVE  Tracks'
<1>1. \A i \in 1 .. Len(queue') : TrackedBy(queue'[i], req)
  BY QueuePut DEF Tracks
<1>2. QED
  BY <1>1 DEF Tracks

LEMMA TracksGet ==
    ASSUME Accounts, Tracks, GetMessage
    PROVE  Tracks'
<1>1. UNCHANGED req
  BY DEF GetMessage, clientVars
<1>2. \A i \in 1 .. Len(queue') : TrackedBy(queue'[i], req)
  BY QueueGet DEF Tracks
<1>3. TrackedBy(msg', req)
  BY QueueGet DEF Tracks
<1>4. QED
  BY <1>1, <1>2, <1>3 DEF Tracks

\* While no message of a client is on its way, the client may begin or end a
\* call.
LEMMA TracksRequest ==
    ASSUME Accounts, Answers, Tracks, NEW c \in Clients, phase[c] # "wait",
           NEW x, x # None => x.type \in Calls /\ x.from = c,
           req' = [req EXCEPT ![c] = x], UNCHANGED <<queue, msg>>
    PROVE  Tracks'
<1>1. /\ \A i \in 1 .. Len(queue) : queue[i].from # c
      /\ msg = None \/ msg.from # c
  BY DEF Answers, Answered, Carried
<1>2. /\ req'[c] = x
      /\ \A d \in Clients : d # c => req'[d] = req[d]
  BY DEF Accounts, TypeOK, ClientTypeOK
<1>3. \A m : TrackedBy(m, req) /\ m.from # c => TrackedBy(m, req')
  BY <1>2 DEF TrackedBy
<1>4. \A i \in 1 .. Len(queue) : TrackedBy(queue[i], req')
  BY <1>1, <1>3 DEF Tracks
<1>5. msg # None => TrackedBy(msg, req')
  BY <1>1, <1>3 DEF Tracks
<1>6. QED
  BY <1>2, <1>4, <1>5 DEF Tracks

\* The reports of worker and interrupt carry no lock.
LEMMA ReportTracked ==
    ASSUME NEW type \in {"ModuleConnected", "ModuleDisconnected",
                         "ConnectionEstablished"}
    PROVE  /\ Message(type, None, None) \in Messages
           /\ TrackedBy(Message(type, None, None), req)
           /\ Message(type, None, None).type = type
<1>1. None \notin Clients
  BY ExpansionAssumption
<1>2. type \in Types /\ type # "SetListenSerial" /\ type \notin CallTypes
  BY DEF Types, CallTypes
<1>3. QED
  BY <1>1, <1>2, MessageType DEF Message, TrackedBy

\* What the control thread does to the messages.
LEMMA ControlMessages ==
    ASSUME expansion_control
    PROVE  /\ UNCHANGED <<req, offline, app_serial>>
           /\ \/ GetMessage
              \/ UNCHANGED queue /\ (msg' = msg \/ msg' = None)
<1>1. CASE GetMessage
  BY <1>1 DEF GetMessage, clientVars
<1>2. CASE WorkerStopped \/ WorkerJoined \/ Listen
  BY <1>2 DEF WorkerStopped, WorkerJoined, Listen, Handled
<1>3. CASE Handle
  BY <1>3
  DEF Handle, Handled, StopWorker,
      expansion_control_handler_enable, expansion_control_handler_disable,
      expansion_control_handler_set_listen_serial,
      expansion_control_handler_module_connected,
      expansion_control_handler_module_disconnected,
      expansion_control_handler_connection_established,
      expansion_control_handler_is_connected
<1>4. QED
  BY <1>1, <1>2, <1>3 DEF expansion_control

\* A client's call: which messages it may send, and what else it changes.
Calling(c, m) ==
    /\ phase[c] = "idle" /\ phase' = [phase EXCEPT ![c] = "put"]
    /\ req' = [req EXCEPT ![c] = m]
    /\ m.from = c /\ m.type \in Calls
    /\ \/ /\ m.type \in {"Enable", "SetListenSerial"}
          /\ app_serial[c] = None /\ offline' = offline \ {c}
       \/ /\ m.type \in {"Disable", "IsConnected"}
          /\ UNCHANGED offline

LEMMA CallSteps ==
    ASSUME Accounts, NEW c \in Clients, Call(c)
    PROVE  /\ UNCHANGED <<queue, state, serial_id, hpc, msg, app_serial,
                          serialVars, workerVars, rpcVars>>
           /\ \E m \in Messages : Calling(c, m)
<1>1. /\ UNCHANGED <<queue, state, serial_id, hpc, msg, app_serial,
                     serialVars, workerVars, rpcVars>>
  BY DEF Call
<1>2. \A t, s : /\ Message(t, c, s).from = c
                /\ Message(t, c, s).type = t
  BY DEF Message
<1>3. /\ \A t \in {"Enable", "Disable", "IsConnected"} :
            Message(t, c, None) \in Messages
      /\ \A s \in Serials : Message("SetListenSerial", c, s) \in Messages
  <2>1. \A t \in CallTypes : t \in Types
    BY DEF Types
  <2>2. QED
    BY <2>1, MessageType DEF CallTypes
<1>4. CASE expansion_enable(c)
  <2> DEFINE m == Message("Enable", c, None)
  <2>1. m \in Messages /\ m.from = c /\ m.type = "Enable"
    BY <1>2, <1>3
  <2>2. Request(c, m) /\ expansion_enable(c)
    BY <1>4 DEF expansion_enable
  <2> HIDE DEF m
  <2>3. Calling(c, m)
    BY <2>1, <2>2 DEF Request, Calling, expansion_enable
  <2>4. QED
    BY <1>1, <2>1, <2>3
<1>5. CASE expansion_disable(c)
  <2> DEFINE m == Message("Disable", c, None)
  <2>1. m \in Messages /\ m.from = c /\ m.type = "Disable"
    BY <1>2, <1>3
  <2>2. Request(c, m) /\ expansion_disable(c)
    BY <1>5 DEF expansion_disable
  <2> HIDE DEF m
  <2>3. Calling(c, m)
    BY <2>1, <2>2 DEF Request, Calling, expansion_disable
  <2>4. QED
    BY <1>1, <2>1, <2>3
<1>6. CASE expansion_is_connected(c)
  <2> DEFINE m == Message("IsConnected", c, None)
  <2>1. m \in Messages /\ m.from = c /\ m.type = "IsConnected"
    BY <1>2, <1>3
  <2>2. Request(c, m) /\ expansion_is_connected(c)
    BY <1>6 DEF expansion_is_connected
  <2> HIDE DEF m
  <2>3. Calling(c, m)
    BY <2>1, <2>2 DEF Request, Calling, expansion_is_connected
  <2>4. QED
    BY <1>1, <2>1, <2>3
<1>7. ASSUME NEW s \in Serials, expansion_set_listen_serial(c, s)
      PROVE  \E m \in Messages : Calling(c, m)
  <2> DEFINE m == Message("SetListenSerial", c, s)
  <2>1. m \in Messages /\ m.from = c /\ m.type = "SetListenSerial"
    BY <1>2, <1>3
  <2>2. Request(c, m) /\ expansion_set_listen_serial(c, s)
    BY <1>7 DEF expansion_set_listen_serial
  <2> HIDE DEF m
  <2>3. Calling(c, m)
    BY <2>1, <2>2 DEF Request, Calling, expansion_set_listen_serial
  <2>4. QED
    BY <2>1, <2>3
<1>8. QED
  BY <1>1, <1>4, <1>5, <1>6, <1>7 DEF Call

LEMMA NextTracks ==
    Accounts /\ Answers /\ Tracks /\ [Next]_vars => Tracks'
<1> SUFFICES ASSUME Accounts, Answers, Tracks, [Next]_vars
             PROVE  Tracks'
  OBVIOUS
<1>1. CASE expansion_control
  BY <1>1, ControlMessages, TracksGet, TracksKept
<1>2. CASE expansion_worker
  <2>1. UNCHANGED <<msg, req>>
    BY <1>2 DEF expansion_worker, controlVars, clientVars
  <2>2. CASE UNCHANGED queue
    BY <2>1, <2>2, TracksKept
  <2>3. CASE expansion_worker_callback
    <3>1. PICK t \in {"ConnectionEstablished", "ModuleDisconnected"} :
              PutMessage(Message(t, None, None))
      BY <2>3 DEF expansion_worker_callback
    <3>2. QED
      BY <2>1, <3>1, ReportTracked, TracksPut
  <2>4. QED
    BY <1>2, <2>2, <2>3 DEF expansion_worker
<1>3. CASE expansion_detect_callback
  <2>1. /\ UNCHANGED <<msg, req>>
        /\ PutMessage(Message("ModuleConnected", None, None))
    BY <1>3 DEF expansion_detect_callback, controlVars, clientVars
  <2>2. QED
    BY <2>1, ReportTracked, TracksPut
<1>4. CASE \/ UNCHANGED vars
           \/ expansion_worker_serial_rx_callback
           \/ expansion_worker_rpc_send_callback \/ ChooseLog
  BY <1>4, TracksKept
  DEF vars, controlVars, clientVars, expansion_worker_serial_rx_callback,
      expansion_worker_rpc_send_callback, ChooseLog
<1>5. ASSUME NEW c \in Clients, AppAcquire(c) \/ AppRelease(c)
      PROVE  Tracks'
  BY <1>5, TracksKept DEF AppAcquire, AppRelease, controlVars
<1>6. ASSUME NEW c \in Clients, Call(c)
      PROVE  Tracks'
  <2>1. PICK m \in Messages : Calling(c, m)
    BY <1>6, CallSteps
  <2>2. /\ UNCHANGED <<queue, msg>> /\ phase[c] # "wait"
        /\ req' = [req EXCEPT ![c] = m]
        /\ m.from = c /\ m.type \in Calls
    BY <1>6, <2>1, CallSteps DEF Calling
  <2>3. QED
    BY <2>2, TracksRequest
<1>7. ASSUME NEW c \in Clients, PutCall(c)
      PROVE  Tracks'
  <2>1. /\ UNCHANGED <<msg, req>> /\ PutMessage(req[c])
        /\ req[c] \in Messages /\ req[c] # None
    BY <1>7 DEF PutCall, controlVars, Accounts, TypeOK, ClientTypeOK
  <2>2. TrackedBy(req[c], req)
    BY <2>1 DEF Tracks, TrackedBy
  <2>3. QED
    BY <2>1, <2>2, TracksPut
<1>8. ASSUME NEW c \in Clients, Return(c)
      PROVE  Tracks'
  <2>1. /\ UNCHANGED <<queue, msg>> /\ phase[c] # "wait"
        /\ req' = [req EXCEPT ![c] = None]
    BY <1>8 DEF Return, controlVars
  <2>2. QED
    BY <2>1, TracksRequest
<1>9. QED
  BY <1>1, <1>2, <1>3, <1>4, <1>5, <1>6, <1>7, <1>8 DEF Next

\* A client that is alone and does not wait has no message on its way; one
\* whose message is handled has no other.
LEMMA AloneFree ==
    ASSUME Answers, Tracks, NEW c, Clients = {c}, phase[c] # "wait"
    PROVE  /\ \A i \in 1 .. Len(queue) : queue[i].type \notin CallTypes
           /\ msg = None \/ msg.type \notin CallTypes
  BY DEF Answers, Answered, Carried, Tracks, TrackedBy

LEMMA AloneBusy ==
    ASSUME Answers, Tracks, NEW c, Clients = {c}, msg # None,
           msg.type \in CallTypes
    PROVE  /\ msg.from = c /\ msg = req[c] /\ phase[c] = "wait"
           /\ \A i \in 1 .. Len(queue) : queue[i].type \notin CallTypes
<1>1. msg.from = c /\ msg = req[c]
  BY DEF Tracks, TrackedBy
<1>2. phase[c] = "wait" /\ Carried(queue, c) = {}
  BY <1>1 DEF Answers, Answered
<1>3. QED
  BY <1>1, <1>2 DEF Carried, Tracks, TrackedBy
-----------------------------------------------------------------------------
(* Every interface in use has a user.                                      *)

UsersKnown ==
    \A s \in in_use :
        \/ Acquired /\ s = serial_id
        \/ \E d \in Clients : app_serial[d] = s

\* A step that takes nothing into use and lets no user forget its interface.
LEMMA UsersKept ==
    ASSUME UsersKnown, in_use' = in_use, app_serial' = app_serial,
           Acquired => Acquired' /\ serial_id' = serial_id
    PROVE  UsersKnown'
  BY DEF UsersKnown

LEMMA ControlUsers ==
    ASSUME Accounts, UsersKnown, expansion_control
    PROVE  UsersKnown'
<1>1. in_use' = in_use
  BY DEF expansion_control, GetMessage, Handle, WorkerStopped, WorkerJoined,
         Listen, serialVars, DetectOn, DetectOff, StopWorker,
         expansion_control_handler_enable, expansion_control_handler_disable,
         expansion_control_handler_set_listen_serial,
         expansion_control_handler_module_connected,
         expansion_control_handler_module_disconnected,
         expansion_control_handler_connection_established,
         expansion_control_handler_is_connected
<1>2. app_serial' = app_serial
  BY ControlMessages
<1>3. Acquired => Acquired' /\ serial_id' = serial_id
  <2> SUFFICES ASSUME Acquired PROVE Acquired' /\ serial_id' = serial_id
    OBVIOUS
  <2>1. wpc # "none" /\ wpc # "dead"
    BY DEF Acquired, Listening, Reading
  <2>2. HasWorker \/ hpc = "free_join"
    BY <2>1 DEF Accounts, WorkerKnown
  <2>3. CASE GetMessage
    BY <2>3 DEF GetMessage, workerVars, Acquired
  <2>4. CASE WorkerStopped \/ WorkerJoined
    BY <2>1, <2>4 DEF WorkerStopped, WorkerJoined, FreeWorker
  <2>5. CASE Listen
    BY <2>1, <2>2, <2>5 DEF Listen, Accounts, WorkerKnown
  <2>6. CASE Handle
    <3>1. hpc = "handle" /\ HasWorker
      BY <2>2, <2>6 DEF Handle
    <3>2. wpc' = wpc /\ serial_id' = serial_id
      BY <2>6, <3>1
      DEF Handle, HasWorker, StopWorker, workerVars,
          expansion_control_handler_enable, expansion_control_handler_disable,
          expansion_control_handler_set_listen_serial,
          expansion_control_handler_module_connected,
          expansion_control_handler_module_disconnected,
          expansion_control_handler_connection_established,
          expansion_control_handler_is_connected
    <3>3. QED
      BY <3>2 DEF Acquired
  <2>7. QED
    BY <2>3, <2>4, <2>5, <2>6 DEF expansion_control
<1>4. QED
  BY <1>1, <1>2, <1>3, UsersKept

LEMMA WorkerUsers ==
    ASSUME Accounts, UsersKnown, expansion_worker
    PROVE  UsersKnown'
<1>1. UNCHANGED <<serial_id, app_serial>>
  BY DEF expansion_worker, controlVars, clientVars
<1>2. CASE expansion_worker_callback
  <2>1. in_use' = in_use /\ (Acquired => Acquired')
    BY <1>2 DEF expansion_worker_callback, serialVars, Acquired, Listening,
                Reading
  <2>2. QED
    BY <1>1, <2>1, UsersKept
<1>3. CASE WorkerRun
  <2>1. Acquired' /\ ~Acquired /\ in_use' = in_use \cup {serial_id}
    BY <1>3 DEF WorkerRun, furi_hal_serial_control_acquire, Acquired,
                Listening, Reading
  <2>2. QED
    BY <1>1, <2>1 DEF UsersKnown
<1>4. CASE WorkerExit
  BY <1>1, <1>4 DEF WorkerExit, furi_hal_serial_control_release, UsersKnown
<1>5. CASE \/ WorkerSent \/ ReceiveAll \/ ReceiveSome
           \/ ReceiveTimeout \/ ReceiveStop \/ ReceiveError \/ HandleFrame
  <2>1. in_use' = in_use
    BY <1>5, ReceiveType DEF serialVars, Accounts, TypeOK
  <2>2. wpc' \in Listening
    BY <1>5
    DEF Listening, Reading, WorkerSent, ReceiveAll, ReceiveSome,
        ReceiveTimeout, ReceiveStop, ReceiveError, GiveUp, HandleFrame,
        HandlerBreaks, expansion_worker_handle_state_handshake,
        expansion_worker_handle_state_connected,
        expansion_worker_handle_state_rpc_active
  <2>3. QED
    BY <1>1, <2>1, <2>2, UsersKept DEF Acquired
<1>6. QED
  BY <1>2, <1>3, <1>4, <1>5 DEF expansion_worker

LEMMA NextUsers == Accounts /\ UsersKnown /\ [Next]_vars => UsersKnown'
<1> SUFFICES ASSUME Accounts, UsersKnown, [Next]_vars PROVE UsersKnown'
  OBVIOUS
<1>1. CASE expansion_control
  BY <1>1, ControlUsers
<1>2. CASE expansion_worker
  BY <1>2, WorkerUsers
<1>3. CASE \/ UNCHANGED vars
           \/ expansion_worker_serial_rx_callback
           \/ expansion_worker_rpc_send_callback
           \/ ChooseLog \/ expansion_detect_callback
  <2>1. UNCHANGED <<in_use, app_serial, wpc, serial_id>>
    BY <1>3
    DEF vars, expansion_worker_serial_rx_callback,
        expansion_worker_rpc_send_callback, ChooseLog,
        expansion_detect_callback, serialVars, clientVars, workerVars,
        controlVars, furi_hal_serial_control_set_logging_config
  <2>2. QED
    BY <2>1, UsersKept DEF Acquired
<1>4. ASSUME NEW c \in Clients, Call(c) \/ PutCall(c) \/ Return(c)
      PROVE  UsersKnown'
  <2>1. UNCHANGED <<in_use, app_serial, wpc, serial_id>>
    BY <1>4 DEF Call, PutCall, Return, serialVars, workerVars, controlVars
  <2>2. QED
    BY <2>1, UsersKept DEF Acquired
<1>5. ASSUME NEW c \in Clients, AppAcquire(c) \/ AppRelease(c)
      PROVE  UsersKnown'
  <2>1. UNCHANGED <<wpc, serial_id>> /\ (Acquired' <=> Acquired)
    BY <1>5 DEF AppAcquire, AppRelease, workerVars, controlVars, Acquired
  <2>2. /\ app_serial \in [Clients -> Serials \cup {None}]
        /\ in_use \subseteq Serials
    BY DEF Accounts, TypeOK, ClientTypeOK, SerialTypeOK
  <2>3. CASE AppAcquire(c)
    <3>1. PICK s \in Serials : /\ in_use' = in_use \cup {s}
                               /\ app_serial[c] = None
                               /\ app_serial' = [app_serial EXCEPT ![c] = s]
      BY <2>3 DEF AppAcquire, furi_hal_serial_control_acquire
    <3>2. QED
      BY <2>1, <2>2, <3>1, SerialAssumption DEF UsersKnown
  <2>4. CASE AppRelease(c)
    <3>1. /\ in_use' = in_use \ {app_serial[c]}
          /\ app_serial' = [app_serial EXCEPT ![c] = None]
      BY <2>4 DEF AppRelease, furi_hal_serial_control_release
    <3>2. QED
      BY <2>1, <2>2, <3>1 DEF UsersKnown
  <2>5. QED
    BY <1>5, <2>3, <2>4
<1>6. QED
  BY <1>1, <1>2, <1>3, <1>4, <1>5 DEF Next
-----------------------------------------------------------------------------
(* The service is quiet for an application that is alone.                  *)

\* The control thread waits for a worker that has ended by itself only in the
\* handler of its report.
JoinsForReport == hpc = "free_join" => msg.type = "ModuleDisconnected"

\* expansion_disable is returning to the client, or has.
Disabled(c) ==
    c \in offline \/ (phase[c] = "done" /\ req[c].type = "Disable")

Quiet(c) ==
    /\ Disabled(c) =>
          /\ state = "Disabled" /\ hpc \in {"get", "handle"}
          /\ req[c] # None => req[c].type \in {"Disable", "IsConnected"}
    /\ app_serial[c] # None => c \in offline

LEMMA ControlJoins ==
    ASSUME JoinsForReport, expansion_control
    PROVE  JoinsForReport'
<1>1. CASE GetMessage \/ WorkerStopped \/ WorkerJoined \/ Listen
  BY <1>1 DEF GetMessage, WorkerStopped, WorkerJoined, Listen, Handled,
              JoinsForReport
<1>2. CASE Handle
  BY <1>2
  DEF Handle, Handled, StopWorker, JoinsForReport,
      expansion_control_handler_enable, expansion_control_handler_disable,
      expansion_control_handler_set_listen_serial,
      expansion_control_handler_module_connected,
      expansion_control_handler_module_disconnected,
      expansion_control_handler_connection_established,
      expansion_control_handler_is_connected
<1>3. QED
  BY <1>1, <1>2 DEF expansion_control

\* Who changes what: the control thread is the only one that changes its own
\* state.
LEMMA ControlAlone ==
    ASSUME Accounts, [Next]_vars, ~expansion_control
    PROVE  UNCHANGED <<state, serial_id, hpc, msg>>
<1>1. CASE expansion_worker
  BY <1>1 DEF expansion_worker, controlVars
<1>2. CASE \/ UNCHANGED vars
           \/ expansion_worker_serial_rx_callback
           \/ expansion_worker_rpc_send_callback
           \/ ChooseLog \/ expansion_detect_callback
  BY <1>2
  DEF vars, expansion_worker_serial_rx_callback,
      expansion_worker_rpc_send_callback, ChooseLog,
      expansion_detect_callback, controlVars
<1>3. ASSUME NEW c \in Clients, \/ Call(c) \/ PutCall(c) \/ Return(c)
                                \/ AppAcquire(c) \/ AppRelease(c)
      PROVE  UNCHANGED <<state, serial_id, hpc, msg>>
  BY <1>3 DEF Call, PutCall, Return, AppAcquire, AppRelease, controlVars
<1>4. QED
  BY <1>1, <1>2, <1>3 DEF Next

LEMMA NextJoins == Accounts /\ JoinsForReport /\ [Next]_vars => JoinsForReport'
  BY ControlJoins, ControlAlone DEF JoinsForReport

LEMMA ControlQuiet ==
    ASSUME Accounts, Answers, Tracks, JoinsForReport, NEW c, Clients = {c},
           Quiet(c), expansion_control
    PROVE  Quiet(c)'
<1>1. UNCHANGED <<req, offline, app_serial>>
  BY ControlMessages
<1>2. phase'[c] = phase[c] \/ phase'[c] = "done"
  BY DEF expansion_control, GetMessage, Handle, WorkerStopped, WorkerJoined,
         Listen, clientVars, Handled, StopWorker, Accounts, TypeOK,
         ClientTypeOK, expansion_control_handler_enable,
         expansion_control_handler_disable,
         expansion_control_handler_set_listen_serial,
         expansion_control_handler_module_connected,
         expansion_control_handler_module_disconnected,
         expansion_control_handler_connection_established,
         expansion_control_handler_is_connected
<1>3. CASE Disabled(c)
  <2>1. /\ state = "Disabled" /\ hpc \in {"get", "handle"}
        /\ req[c] # None => req[c].type \in {"Disable", "IsConnected"}
    BY <1>3 DEF Quiet
  <2>2. CASE GetMessage
    BY <1>1, <2>1, <2>2 DEF GetMessage, clientVars, Quiet
  <2>3. CASE Handle
    <3>1. msg \in Messages /\ msg # None
      BY <2>3, MessageAssumption DEF Handle, Accounts, ControlState
    <3>2. msg.type \in CallTypes => msg.type \in {"Disable", "IsConnected"}
      BY <2>1, <3>1, AloneBusy
    <3>3. msg.type \notin {"Enable", "SetListenSerial"}
      BY <3>2 DEF CallTypes
    <3>4. state' = "Disabled" /\ hpc' = "get"
      BY <2>1, <2>3, <3>3
      DEF Handle, Handled, HasWorker,
          expansion_control_handler_enable, expansion_control_handler_disable,
          expansion_control_handler_set_listen_serial,
          expansion_control_handler_module_connected,
          expansion_control_handler_module_disconnected,
          expansion_control_handler_connection_established,
          expansion_control_handler_is_connected
    <3>5. QED
      BY <1>1, <2>1, <3>4 DEF Quiet
  <2>4. QED
    BY <2>1, <2>2, <2>3
    DEF expansion_control, WorkerStopped, WorkerJoined, Listen
<1>4. CASE ~Disabled(c)
  <2>1. CASE ~Disabled(c)'
    BY <1>1, <2>1 DEF Quiet
  <2>2. CASE Disabled(c)'
    <3>1. /\ phase[c] # "done" /\ phase'[c] = "done"
          /\ req[c].type = "Disable"
      BY <1>1, <1>2, <1>4, <2>2 DEF Disabled
    <3>2. Handled /\ msg.from = c /\ hpc # "get"
      BY <3>1
      DEF expansion_control, GetMessage, Handle, WorkerStopped, WorkerJoined,
          Listen, clientVars, Handled, StopWorker, Accounts, TypeOK,
          ClientTypeOK, expansion_control_handler_enable,
          expansion_control_handler_disable,
          expansion_control_handler_set_listen_serial,
          expansion_control_handler_module_connected,
          expansion_control_handler_module_disconnected,
          expansion_control_handler_connection_established,
          expansion_control_handler_is_connected
    <3>3. msg # None
      BY <3>2, MessageAssumption DEF Accounts, ControlState
    <3>4. msg = req[c] /\ msg.type = "Disable"
      BY <3>1, <3>2, <3>3 DEF Tracks, TrackedBy
    <3>5. state' = "Disabled" /\ hpc' = "get"
      <4>1. CASE Handle
        BY <3>2, <3>4, <4>1
        DEF Handle, Handled, StopWorker,
            expansion_control_handler_enable,
            expansion_control_handler_disable,
            expansion_control_handler_set_listen_serial,
            expansion_control_handler_module_connected,
            expansion_control_handler_module_disconnected,
            expansion_control_handler_connection_established,
            expansion_control_handler_is_connected
      <4>2. CASE WorkerStopped
        BY <3>2, <3>4, <4>2 DEF WorkerStopped, Handled
      <4>3. CASE WorkerJoined
        BY <3>4, <4>3 DEF WorkerJoined, JoinsForReport
      <4>4. CASE Listen
        BY <3>4, <4>4 DEF Listen, Accounts, ControlState
      <4>5. QED
        BY <3>2, <4>1, <4>2, <4>3, <4>4 DEF expansion_control, GetMessage
    <3>6. QED
      BY <1>1, <3>1, <3>5, <2>2 DEF Quiet
  <2>3. QED
    BY <2>1, <2>2
<1>5. QED
  BY <1>3, <1>4

\* What a client that is alone does itself.
LEMMA ClientQuiet ==
    ASSUME Accounts, Tracks, NEW c, Clients = {c}, Quiet(c),
           \/ Call(c) \/ PutCall(c) \/ Return(c)
           \/ AppAcquire(c) \/ AppRelease(c)
    PROVE  Quiet(c)'
<1> USE DEF Quiet, Disabled
<1>1. UNCHANGED <<state, hpc>>
  BY DEF Call, PutCall, Return, AppAcquire, AppRelease, controlVars
<1>2. /\ phase \in [Clients -> {"idle", "put", "wait", "done"}]
      /\ req \in [Clients -> Messages \cup {None}]
      /\ app_serial \in [Clients -> Serials \cup {None}]
  BY DEF Accounts, TypeOK, ClientTypeOK
<1>3. CASE Call(c)
  <2>1. PICK m \in Messages : Calling(c, m)
    BY <1>3, CallSteps
  <2>2. /\ phase'[c] = "put" /\ req'[c] = m /\ app_serial' = app_serial
    BY <1>2, <1>3, <2>1, CallSteps DEF Calling
  <2>3. \/ /\ m.type \in {"Enable", "SetListenSerial"}
           /\ app_serial[c] = None /\ offline' = offline \ {c}
        \/ m.type \in {"Disable", "IsConnected"} /\ UNCHANGED offline
    BY <2>1 DEF Calling
  <2>4. QED
    BY <1>1, <2>2, <2>3
<1>4. CASE PutCall(c)
  <2>1. /\ phase'[c] = "wait"
        /\ UNCHANGED <<req, offline, app_serial>>
    BY <1>2, <1>4 DEF PutCall
  <2>2. QED
    BY <1>1, <2>1
<1>5. CASE Return(c)
  <2>1. /\ phase[c] = "done" /\ phase'[c] = "idle" /\ req'[c] = None
        /\ app_serial' = app_serial
        /\ offline' = IF req[c].type = "Disable"
                      THEN offline \cup {c} ELSE offline
    BY <1>2, <1>5 DEF Return
  <2>2. QED
    BY <1>1, <2>1
<1>6. CASE AppAcquire(c) \/ AppRelease(c)
  <2>1. /\ UNCHANGED <<phase, req, offline>>
        /\ app_serial'[c] # None => c \in offline
    BY <1>2, <1>6 DEF AppAcquire, AppRelease
  <2>2. QED
    BY <1>1, <2>1
<1>7. QED
  BY <1>3, <1>4, <1>5, <1>6

\* Everybody else leaves the client alone.
LEMMA OthersQuiet ==
    ASSUME NEW c, Quiet(c),
           \/ UNCHANGED vars \/ expansion_worker
           \/ expansion_worker_serial_rx_callback
           \/ expansion_worker_rpc_send_callback
           \/ ChooseLog \/ expansion_detect_callback
    PROVE  Quiet(c)'
<1>1. UNCHANGED <<state, hpc, phase, req, offline, app_serial>>
  BY DEF vars, expansion_worker, expansion_worker_serial_rx_callback,
         expansion_worker_rpc_send_callback, ChooseLog,
         expansion_detect_callback, controlVars, clientVars
<1>2. QED
  BY <1>1 DEF Quiet, Disabled

\* What holds of a client that is alone, and what it rests on.
Alone ==
    /\ Answers /\ Tracks /\ UsersKnown /\ JoinsForReport
    /\ \A c \in Clients : Clients = {c} => Quiet(c)

LEMMA InitAlone == Init => Alone
<1> SUFFICES ASSUME Init PROVE Alone
  OBVIOUS
<1>1. /\ queue = <<>> /\ msg = None /\ hpc = "get" /\ offline = {}
      /\ in_use = {}
      /\ \A c \in Clients : /\ phase[c] = "idle" /\ req[c] = None
                            /\ app_serial[c] = None
  BY DEF Init, SerialInit
<1>2. Len(queue) = 0
  BY <1>1
<1>3. Answers
  BY <1>1, <1>2 DEF Answers, Answered, Carried
<1>4. Tracks /\ UsersKnown /\ JoinsForReport
  BY <1>1, <1>2 DEF Tracks, UsersKnown, JoinsForReport
<1>5. \A c \in Clients : Quiet(c)
  BY <1>1 DEF Quiet, Disabled
<1>6. QED
  BY <1>3, <1>4, <1>5 DEF Alone

LEMMA NextAlone == Accounts /\ Alone /\ [Next]_vars => Alone'
<1> SUFFICES ASSUME Accounts, Alone, [Next]_vars PROVE Alone'
  OBVIOUS
<1>1. Answers /\ Tracks /\ UsersKnown /\ JoinsForReport
  BY DEF Alone
<1>2. Answers' /\ Tracks' /\ UsersKnown' /\ JoinsForReport'
  BY <1>1, NextAnswers, NextTracks, NextUsers, NextJoins
<1>3. ASSUME NEW c \in Clients, Clients = {c}
      PROVE  Quiet(c)'
  <2>1. Quiet(c)
    BY <1>3 DEF Alone
  <2>2. CASE expansion_control
    BY <1>1, <1>3, <2>1, <2>2, ControlQuiet
  <2>3. ASSUME NEW d \in Clients, \/ Call(d) \/ PutCall(d) \/ Return(d)
                                  \/ AppAcquire(d) \/ AppRelease(d)
        PROVE  Quiet(c)'
    <3>1. d = c
      BY <1>3
    <3>2. QED
      BY <1>1, <1>3, <2>1, <2>3, <3>1, ClientQuiet
  <2>4. QED
    BY <2>1, <2>2, <2>3, OthersQuiet DEF Next
<1>4. QED
  BY <1>2, <1>3 DEF Alone

LEMMA AloneHolds == Spec => [](Accounts /\ Alone)
  BY InitAccounts, NextAccounts, InitAlone, NextAlone, PTL DEF Spec

\* After expansion_disable has returned to an application that is alone, no
\* worker runs, no interface is watched for modules and none is in use but
\* the application's own.
THEOREM DisabledIsQuiet == Spec => []DisabledMeansQuiet
<1>1. Accounts /\ Alone /\ DetectionFollowsState => DisabledMeansQuiet
  <2> SUFFICES ASSUME Accounts, Alone, DetectionFollowsState,
                      NEW c \in offline, Clients = {c}
               PROVE  /\ wpc = "none" /\ irq = {} /\ state = "Disabled"
                      /\ in_use \subseteq {app_serial[c]}
    BY DEF DisabledMeansQuiet
  <2>1. state = "Disabled" /\ hpc \in {"get", "handle"}
    BY DEF Alone, Quiet, Disabled
  <2>2. wpc = "none"
    BY <2>1 DEF Accounts, WorkerKnown, HasWorker
  <2>3. irq = {}
    <3>1. expansion_serial = None /\ irq \subseteq {expansion_serial}
      BY <2>1 DEF DetectionFollowsState
    <3>2. irq \subseteq Serials
      BY DEF Accounts, TypeOK, SerialTypeOK
    <3>3. QED
      BY <3>1, <3>2, SerialAssumption
  <2>4. in_use \subseteq {app_serial[c]}
    BY <2>2 DEF Alone, UsersKnown, Acquired, Listening, Reading
  <2>5. QED
    BY <2>1, <2>2, <2>3, <2>4
<1>2. QED
  BY <1>1, AloneHolds, DetectionStaysPaired, PTL

OneClient == \E c \in Clients : Clients = {c}

\* With one client, the interface is free when the worker acquires it: its
\* furi_check cannot fail.
THEOREM WorkerFindsSerialFree ==
    ASSUME OneClient
    PROVE  Spec => []WorkerGetsSerial
<1>1. PICK c \in Clients : Clients = {c}
  BY DEF OneClient
<1>2. Accounts /\ Alone => WorkerGetsSerial
  <2> SUFFICES ASSUME Accounts, Alone, wpc = "start", serial_id \in in_use
               PROVE  FALSE
    BY DEF WorkerGetsSerial
  <2>1. app_serial[c] = serial_id
    BY <1>1 DEF Alone, UsersKnown, Acquired, Listening
  <2>2. serial_id # None
    BY WorkerSerial, SerialAssumption
  <2>3. c \in offline /\ Quiet(c)
    BY <1>1, <2>1, <2>2 DEF Alone, Quiet
  <2>4. state = "Disabled" /\ hpc \in {"get", "handle"}
    BY <2>3 DEF Quiet, Disabled
  <2>5. QED
    BY <2>4 DEF Accounts, WorkerKnown, HasWorker
<1>3. QED
  BY <1>2, AloneHolds, PTL
-----------------------------------------------------------------------------
(* No report outlives its worker.                                          *)

\* The conditions without which a report may: see the runs that refute them.
Undisturbed == OneClient /\ "SetListenSerial" \notin Calls

\* A worker's reports: it has ended, it is connected.
Report(m) == m.type \in {"ModuleDisconnected", "ConnectionEstablished"}

\* Where the worker is.
WorkerStage ==
    /\ hpc # "listen"
    /\ wpc \in {"none", "start"} => wstate = "HandShake"
    /\ rx_freed => hpc = "free_join"
    /\ hpc = "free_join" => wpc = "dead"
    /\ HasWorker /\ (state = "ConnectionEstablished" \/ wpc = "put_connected")
          => wstate # "HandShake"

\* A report says what the worker w in state ws has done.
Fits(m, w, ws) ==
    /\ m.type = "ModuleDisconnected" => w = "dead"
    /\ m.type = "ConnectionEstablished" => ws # "HandShake"

\* While there is a worker all reports are its own, and the one of its end is
\* the last.
OwnReports ==
    HasWorker =>
        /\ \A i \in 1 .. Len(queue) :
              /\ Fits(queue[i], wpc, wstate)
              /\ queue[i].type = "ModuleDisconnected" =>
                    \A j \in 1 .. Len(queue) : j > i => ~Report(queue[j])
        /\ msg # None =>
              /\ Fits(msg, wpc, wstate)
              /\ msg.type = "ModuleDisconnected" =>
                    \A j \in 1 .. Len(queue) : ~Report(queue[j])

\* While a module is awaited there is none.
NoReports ==
    state = "Enabled" =>
        /\ \A i \in 1 .. Len(queue) : ~Report(queue[i])
        /\ msg # None /\ Report(msg) => hpc = "free_join"

\* While the service is disabled, those left over come before the message that
\* enables it.
StaleFirst ==
    state = "Disabled" =>
        \A i \in 1 .. Len(queue) : Report(queue[i]) =>
            /\ msg # None => msg.type # "Enable"
            /\ \A j \in 1 .. Len(queue) : j < i => queue[j].type # "Enable"

Reports == WorkerStage /\ OwnReports /\ NoReports /\ StaleFirst

\* Steps that leave messages and worker alone, or end a handler.
LEMMA ReportsKept ==
    ASSUME Reports, UNCHANGED <<queue, state, wpc, wstate, rx_freed>>,
           \/ UNCHANGED <<hpc, msg>>
           \/ hpc = "handle" /\ hpc' = "get" /\ msg' = None
    PROVE  Reports'
<1>1. WorkerStage' /\ OwnReports'
  BY DEF Reports, WorkerStage, OwnReports, HasWorker
<1>2. NoReports' /\ StaleFirst'
  BY DEF Reports, NoReports, StaleFirst
<1>3. QED
  BY <1>1, <1>2 DEF Reports

\* A message that is no report is put.
LEMMA CallReports ==
    ASSUME Accounts, Reports, NEW m \in Messages, ~Report(m), PutMessage(m),
           UNCHANGED <<state, hpc, msg, wpc, wstate, rx_freed>>
    PROVE  Reports'
<1>1. /\ Len(queue) \in Nat /\ Len(queue') = Len(queue) + 1
      /\ \A i \in 1 .. Len(queue) : queue'[i] = queue[i]
      /\ queue'[Len(queue) + 1] = m
  BY QueuePut
<1>2. \A i \in 1 .. Len(queue') : /\ Report(queue'[i]) => i \in 1 .. Len(queue)
                                  /\ i \in 1 .. Len(queue) \/ queue'[i] = m
  BY <1>1
<1>3. \A w, ws : Fits(m, w, ws)
  BY DEF Report, Fits
<1>4. m.type # "ModuleDisconnected"
  BY DEF Report
<1>5. WorkerStage'
  BY DEF Reports, WorkerStage, HasWorker
<1>6. OwnReports'
  BY <1>1, <1>2, <1>3, <1>4 DEF Reports, OwnReports, HasWorker
<1>7. NoReports'
  BY <1>1, <1>2 DEF Reports, NoReports
<1>8. StaleFirst'
  <2> SUFFICES ASSUME state = "Disabled", NEW i \in 1 .. Len(queue'),
                      Report(queue'[i])
               PROVE  /\ msg # None => msg.type # "Enable"
                      /\ \A j \in 1 .. Len(queue') :
                            j < i => queue'[j].type # "Enable"
    BY DEF StaleFirst
  <2>1. i \in 1 .. Len(queue) /\ Report(queue[i])
    BY <1>1, <1>2
  <2>2. \A j \in 1 .. Len(queue') : j < i => /\ j \in 1 .. Len(queue)
                                             /\ queue'[j] = queue[j]
    BY <1>1, <2>1
  <2>3. QED
    BY <2>1, <2>2 DEF Reports, StaleFirst
<1>9. QED
  BY <1>5, <1>6, <1>7, <1>8 DEF Reports

\* The control thread takes a message.
LEMMA GetReports ==
    ASSUME Accounts, Answers, Reports, GetMessage
    PROVE  Reports'
<1>1. /\ Len(queue) \in Nat \ {0} /\ Len(queue') = Len(queue) - 1
      /\ \A i \in 1 .. Len(queue) - 1 : queue'[i] = queue[i + 1]
      /\ msg' = queue[1]
  BY QueueGet
<1>2. /\ hpc = "get" /\ hpc' = "handle" /\ msg = None
      /\ UNCHANGED <<state, wpc, wstate, rx_freed>>
  BY DEF GetMessage, Answers, workerVars
<1>3. \A i \in 1 .. Len(queue') : /\ i + 1 \in 1 .. Len(queue)
                                  /\ queue'[i] = queue[i + 1]
  BY <1>1
<1>4. 1 \in 1 .. Len(queue)
  BY <1>1
<1>5. WorkerStage'
  BY <1>2 DEF Reports, WorkerStage, HasWorker
<1>6. OwnReports'
  <2> SUFFICES ASSUME HasWorker
               PROVE  /\ \A i \in 1 .. Len(queue') :
                            /\ Fits(queue'[i], wpc, wstate)
                            /\ queue'[i].type = "ModuleDisconnected" =>
                                  \A j \in 1 .. Len(queue') :
                                     j > i => ~Report(queue'[j])
                      /\ Fits(msg', wpc, wstate)
                      /\ msg'.type = "ModuleDisconnected" =>
                            \A j \in 1 .. Len(queue') : ~Report(queue'[j])
    BY <1>2 DEF OwnReports, HasWorker
  <2>1. \A i \in 1 .. Len(queue) :
           /\ Fits(queue[i], wpc, wstate)
           /\ queue[i].type = "ModuleDisconnected" =>
                 \A j \in 1 .. Len(queue) : j > i => ~Report(queue[j])
    BY DEF Reports, OwnReports
  <2>2. ASSUME NEW i \in 1 .. Len(queue')
        PROVE  /\ Fits(queue'[i], wpc, wstate)
               /\ queue'[i].type = "ModuleDisconnected" =>
                     \A j \in 1 .. Len(queue') : j > i => ~Report(queue'[j])
    <3>1. i + 1 \in 1 .. Len(queue) /\ queue'[i] = queue[i + 1]
      BY <1>3
    <3>2. \A j \in 1 .. Len(queue') : j > i => j + 1 > i + 1
      BY <1>1
    <3>3. QED
      BY <1>3, <2>1, <3>1, <3>2
  <2>3. /\ Fits(msg', wpc, wstate)
        /\ msg'.type = "ModuleDisconnected" =>
              \A j \in 1 .. Len(queue') : ~Report(queue'[j])
    BY <1>1, <1>3, <1>4, <2>1
  <2>4. QED
    BY <2>2, <2>3
<1>7. NoReports'
  BY <1>1, <1>2, <1>3, <1>4 DEF Reports, NoReports
<1>8. StaleFirst'
  <2> SUFFICES ASSUME state = "Disabled", NEW i \in 1 .. Len(queue'),
                      Report(queue'[i])
               PROVE  /\ msg'.type # "Enable"
                      /\ \A j \in 1 .. Len(queue') :
                            j < i => queue'[j].type # "Enable"
    BY <1>2 DEF StaleFirst
  <2>1. \A j \in 1 .. Len(queue) : j < i + 1 => queue[j].type # "Enable"
    BY <1>3 DEF Reports, StaleFirst
  <2>2. 1 < i + 1
    BY <1>1
  <2>3. \A j \in 1 .. Len(queue') : j < i => j + 1 < i + 1
    BY <1>1
  <2>4. QED
    BY <1>1, <1>3, <1>4, <2>1, <2>2, <2>3
<1>9. QED
  BY <1>5, <1>6, <1>7, <1>8 DEF Reports

\* A step of the worker's thread, which is the worker the control thread knows.
LEMMA WorkerMoves ==
    ASSUME Accounts, Reports, expansion_worker
    PROVE  /\ HasWorker /\ hpc \notin {"listen", "free_join"}
           /\ UNCHANGED <<state, hpc, msg, rx_freed>>
           /\ wpc # "dead" /\ wpc' \notin {"none", "start"}
           /\ wstate # "HandShake" => wstate' # "HandShake"
           /\ wpc' = "put_connected" => wstate' # "HandShake"
<1>1. UNCHANGED <<state, hpc, msg>>
  BY DEF expansion_worker, controlVars
<1>2. wpc \notin {"none", "dead"}
  BY DEF expansion_worker, expansion_worker_callback, WorkerRun, WorkerSent,
         ReceiveAll, ReceiveSome, ReceiveTimeout, ReceiveStop, ReceiveError,
         GiveUp, HandleFrame, WorkerExit
<1>3. HasWorker /\ hpc \notin {"listen", "free_join"}
  BY <1>2 DEF Accounts, WorkerKnown, Reports, WorkerStage
<1>4. ASSUME WorkerRun \/ WorkerSent \/ ReceiveAll \/ ReceiveSome
             \/ ReceiveTimeout \/ ReceiveStop \/ ReceiveError
      PROVE  /\ wpc' \notin {"none", "start", "dead", "put_connected"}
             /\ UNCHANGED rx_freed
             /\ wstate # "HandShake" => wstate' # "HandShake"
  BY <1>4 DEF WorkerRun, WorkerSent, ReceiveAll, ReceiveSome, ReceiveTimeout,
              ReceiveStop, ReceiveError, GiveUp, Reports, WorkerStage
<1>5. ASSUME HandleFrame
      PROVE  /\ wpc' \notin {"none", "start", "dead"}
             /\ UNCHANGED rx_freed
             /\ wstate # "HandShake" => wstate' # "HandShake"
             /\ wpc' = "put_connected" => wstate' # "HandShake"
  BY <1>5 DEF HandleFrame, HandlerBreaks,
              expansion_worker_handle_state_handshake,
              expansion_worker_handle_state_connected,
              expansion_worker_handle_state_rpc_active
<1>6. ASSUME WorkerExit \/ expansion_worker_callback
      PROVE  /\ wpc' \in {"tx", "put_exit", "dead"}
             /\ UNCHANGED <<rx_freed, wstate>>
  BY <1>6 DEF WorkerExit, expansion_worker_callback
<1>7. QED
  BY <1>1, <1>2, <1>3, <1>4, <1>5, <1>6 DEF expansion_worker

LEMMA WorkerReports ==
    ASSUME Accounts, Reports, expansion_worker
    PROVE  Reports'
<1>1. /\ HasWorker /\ hpc \notin {"listen", "free_join"}
      /\ UNCHANGED <<state, hpc, msg, rx_freed>>
      /\ wpc # "dead" /\ wpc' \notin {"none", "start"}
      /\ wstate # "HandShake" => wstate' # "HandShake"
      /\ wpc' = "put_connected" => wstate' # "HandShake"
  BY WorkerMoves
<1>2. WorkerStage' /\ NoReports' /\ StaleFirst'
  BY <1>1 DEF Reports, WorkerStage, NoReports, StaleFirst, HasWorker
<1>3. \A m : Fits(m, wpc, wstate) =>
          m.type # "ModuleDisconnected" /\ Fits(m, wpc', wstate')
  BY <1>1 DEF Fits
<1>4. /\ \A i \in 1 .. Len(queue) : /\ queue[i].type # "ModuleDisconnected"
                                    /\ Fits(queue[i], wpc', wstate')
      /\ msg # None => /\ msg.type # "ModuleDisconnected"
                       /\ Fits(msg, wpc', wstate')
  BY <1>1, <1>3 DEF Reports, OwnReports
<1>5. CASE UNCHANGED queue
  <2>1. OwnReports'
    BY <1>1, <1>4, <1>5 DEF OwnReports
  <2>2. QED
    BY <1>2, <2>1 DEF Reports
<1>6. CASE expansion_worker_callback
  <2>1. PICK t \in {"ConnectionEstablished", "ModuleDisconnected"} :
            /\ PutMessage(Message(t, None, None))
            /\ t = "ConnectionEstablished" => wpc = "put_connected"
            /\ t = "ModuleDisconnected" => wpc' = "dead"
            /\ UNCHANGED wstate
    BY <1>6 DEF expansion_worker_callback
  <2> DEFINE m == Message(t, None, None)
  <2>2. m \in Messages /\ m.type = t
    BY ReportTracked
  <2> HIDE DEF m
  <2>3. Fits(m, wpc', wstate')
    BY <1>1, <2>1, <2>2 DEF Fits, Reports, WorkerStage
  <2>4. /\ Len(queue) \in Nat /\ Len(queue') = Len(queue) + 1
        /\ \A i \in 1 .. Len(queue) : queue'[i] = queue[i]
        /\ queue'[Len(queue) + 1] = m
    BY <2>1, <2>2, QueuePut DEF m
  <2>5. ASSUME NEW i \in 1 .. Len(queue')
        PROVE  /\ Fits(queue'[i], wpc', wstate')
               /\ queue'[i].type = "ModuleDisconnected" => i = Len(queue')
    <3>1. i \in 1 .. Len(queue) \/ i = Len(queue) + 1
      BY <2>4
    <3>2. QED
      BY <1>4, <2>3, <2>4, <3>1
  <2>6. \A i, j \in 1 .. Len(queue') : j > i => i # Len(queue')
    BY <2>4
  <2>7. OwnReports'
    BY <1>1, <1>4, <2>5, <2>6 DEF OwnReports
  <2>8. QED
    BY <1>2, <2>7 DEF Reports
<1>7. QED
  BY <1>5, <1>6 DEF expansion_worker

\* A call that is never made is never handled.
LEMMA NeverListens ==
    ASSUME Undisturbed, Accounts, Tracks, hpc # "get"
    PROVE  /\ msg \in Messages /\ msg # None
           /\ msg.type # "SetListenSerial"
<1>1. msg \in Messages /\ msg # None
  BY MessageAssumption DEF Accounts, ControlState
<1>2. msg.type \in CallTypes => msg.type \in Calls
  BY <1>1 DEF Tracks, TrackedBy
<1>3. QED
  BY <1>1, <1>2 DEF Undisturbed, CallTypes

\* The interface is moved while no worker runs and no report is on its way.
LEMMA EnableReports ==
    ASSUME Accounts, Reports, hpc = "handle", msg # None,
           expansion_control_handler_enable, UNCHANGED queue
    PROVE  Reports'
<1>1. /\ hpc' = "get" /\ msg' = None /\ msg.type = "Enable"
      /\ UNCHANGED <<wpc, wstate, rx_freed>>
  BY DEF expansion_control_handler_enable, Handled, workerVars
<1>2. CASE UNCHANGED state
  BY <1>1, <1>2, ReportsKept
<1>3. CASE state = "Disabled" /\ state' = "Enabled"
  <2>1. WorkerStage' /\ OwnReports' /\ StaleFirst'
    BY <1>1, <1>3 DEF Reports, WorkerStage, OwnReports, StaleFirst, HasWorker
  <2>2. NoReports'
    BY <1>1, <1>3 DEF Reports, NoReports, StaleFirst
  <2>3. QED
    BY <2>1, <2>2 DEF Reports
<1>4. QED
  BY <1>2, <1>3 DEF expansion_control_handler_enable

LEMMA DisableReports ==
    ASSUME Accounts, Reports, hpc = "handle",
           expansion_control_handler_disable, UNCHANGED queue
    PROVE  Reports'
<1>1. UNCHANGED <<wpc, wstate, rx_freed>>
  BY DEF expansion_control_handler_disable, StopWorker, workerVars
<1>2. CASE HasWorker /\ StopWorker
  <2>1. UNCHANGED <<state, msg>> /\ hpc' = "stop_join"
    BY <1>2 DEF StopWorker
  <2>2. WorkerStage' /\ OwnReports' /\ NoReports' /\ StaleFirst'
    BY <1>1, <1>2, <2>1
    DEF Reports, WorkerStage, OwnReports, NoReports, StaleFirst, HasWorker
  <2>3. QED
    BY <2>2 DEF Reports
<1>3. CASE state = "Enabled" /\ state' = "Disabled" /\ Handled
  <2>1. hpc' = "get" /\ msg' = None
    BY <1>3 DEF Handled
  <2>2. WorkerStage' /\ OwnReports' /\ NoReports'
    BY <1>1, <1>3, <2>1
    DEF Reports, WorkerStage, OwnReports, NoReports, HasWorker
  <2>3. StaleFirst'
    BY <1>3, <2>1 DEF Reports, NoReports, StaleFirst
  <2>4. QED
    BY <2>2, <2>3 DEF Reports
<1>4. CASE state = "Disabled" /\ UNCHANGED state /\ Handled
  BY <1>1, <1>4, ReportsKept DEF Handled
<1>5. QED
  BY <1>2, <1>3, <1>4 DEF expansion_control_handler_disable

LEMMA ModuleConnectedReports ==
    ASSUME Accounts, Reports, hpc = "handle",
           expansion_control_handler_module_connected, UNCHANGED queue
    PROVE  Reports'
<1>1. /\ hpc' = "get" /\ msg' = None
      /\ UNCHANGED <<wstate, rx_freed>>
  BY DEF expansion_control_handler_module_connected, Handled, workerVars
<1>2. CASE UNCHANGED <<state, wpc>>
  BY <1>1, <1>2, ReportsKept
<1>3. CASE state = "Enabled" /\ state' = "Running" /\ wpc' = "start"
  <2>1. wpc = "none" /\ ~rx_freed
    BY <1>3 DEF Accounts, WorkerKnown, HasWorker, Reports, WorkerStage
  <2>2. WorkerStage' /\ NoReports' /\ StaleFirst'
    BY <1>1, <1>3, <2>1
    DEF Reports, WorkerStage, NoReports, StaleFirst, HasWorker
  <2>3. \A m, w, ws : ~Report(m) =>
            m.type # "ModuleDisconnected" /\ Fits(m, w, ws)
    BY DEF Report, Fits
  <2>4. OwnReports'
    BY <1>1, <1>3, <2>3 DEF Reports, NoReports, OwnReports
  <2>5. QED
    BY <2>2, <2>4 DEF Reports
<1>4. QED
  BY <1>2, <1>3 DEF expansion_control_handler_module_connected, workerVars

\* The worker whose end is reported has ended, and left no other report.
LEMMA ModuleDisconnectedReports ==
    ASSUME Accounts, Reports, hpc = "handle", msg # None,
           expansion_control_handler_module_disconnected, UNCHANGED queue
    PROVE  Reports'
<1>1. msg.type = "ModuleDisconnected" /\ UNCHANGED <<wpc, wstate>>
  BY DEF expansion_control_handler_module_disconnected
<1>2. CASE ~HasWorker /\ Handled /\ UNCHANGED <<state, rx_freed>>
  BY <1>1, <1>2, ReportsKept DEF Handled
<1>3. CASE /\ HasWorker /\ state' = "Enabled" /\ hpc' = "free_join"
           /\ UNCHANGED msg
  <2>1. /\ wpc = "dead"
        /\ \A j \in 1 .. Len(queue) : ~Report(queue[j])
    BY <1>1, <1>3 DEF Reports, OwnReports, Fits
  <2>2. WorkerStage'
    BY <1>1, <1>3, <2>1 DEF Reports, WorkerStage, HasWorker
  <2>3. OwnReports' /\ NoReports' /\ StaleFirst'
    BY <1>3, <2>1 DEF OwnReports, NoReports, StaleFirst, HasWorker
  <2>4. QED
    BY <2>2, <2>3 DEF Reports
<1>4. QED
  BY <1>2, <1>3 DEF expansion_control_handler_module_disconnected

LEMMA EstablishedReports ==
    ASSUME Accounts, Reports, hpc = "handle", msg # None,
           expansion_control_handler_connection_established, UNCHANGED queue
    PROVE  Reports'
<1>1. /\ hpc' = "get" /\ msg' = None
      /\ UNCHANGED <<wpc, wstate, rx_freed>>
      /\ msg.type = "ConnectionEstablished"
      /\ state' = IF HasWorker THEN "ConnectionEstablished" ELSE state
  BY DEF expansion_control_handler_connection_established, Handled, workerVars
<1>2. CASE ~HasWorker
  BY <1>1, <1>2, ReportsKept
<1>3. CASE HasWorker
  <2>1. wstate # "HandShake"
    BY <1>1, <1>3 DEF Reports, OwnReports, Fits
  <2>2. WorkerStage'
    BY <1>1, <1>3, <2>1 DEF Reports, WorkerStage
  <2>3. OwnReports' /\ NoReports' /\ StaleFirst'
    BY <1>1, <1>3 DEF Reports, OwnReports, NoReports, StaleFirst
  <2>4. QED
    BY <2>2, <2>3 DEF Reports
<1>4. QED
  BY <1>2, <1>3

LEMMA HandleReports ==
    ASSUME Undisturbed, Accounts, Tracks, Reports, Handle
    PROVE  Reports'
<1>1. hpc = "handle" /\ UNCHANGED queue
  BY DEF Handle
<1>2. msg # None /\ msg.type # "SetListenSerial"
  BY <1>1, NeverListens
<1>3. CASE expansion_control_handler_enable
  BY <1>1, <1>2, <1>3, EnableReports
<1>4. CASE expansion_control_handler_disable
  BY <1>1, <1>4, DisableReports
<1>5. CASE expansion_control_handler_module_connected
  BY <1>1, <1>5, ModuleConnectedReports
<1>6. CASE expansion_control_handler_module_disconnected
  BY <1>1, <1>2, <1>6, ModuleDisconnectedReports
<1>7. CASE expansion_control_handler_connection_established
  BY <1>1, <1>2, <1>7, EstablishedReports
<1>8. CASE expansion_control_handler_is_connected
  BY <1>1, <1>8, ReportsKept
  DEF expansion_control_handler_is_connected, Handled, workerVars
<1>9. QED
  BY <1>2, <1>3, <1>4, <1>5, <1>6, <1>7, <1>8
  DEF Handle, expansion_control_handler_set_listen_serial

\* The worker has been waited for.
LEMMA JoinedReports ==
    ASSUME Undisturbed, Accounts, Answers, Tracks, Reports,
           WorkerStopped \/ WorkerJoined
    PROVE  Reports'
<1>1. /\ hpc # "get" /\ UNCHANGED queue
      /\ wpc' = "none" /\ wstate' = "HandShake" /\ rx_freed' = FALSE
  BY DEF WorkerStopped, WorkerJoined, FreeWorker
<1>2. msg # None /\ msg.type # "SetListenSerial"
  BY <1>1, NeverListens
<1>3. hpc' = "get" /\ msg' = None
  BY <1>2 DEF WorkerStopped, WorkerJoined, Handled
<1>4. CASE WorkerJoined
  <2>1. state = "Enabled" /\ UNCHANGED state
    BY <1>4 DEF WorkerJoined, Accounts, ControlState
  <2>2. WorkerStage' /\ OwnReports' /\ NoReports' /\ StaleFirst'
    BY <1>1, <1>3, <2>1
    DEF Reports, WorkerStage, OwnReports, NoReports, StaleFirst, HasWorker
  <2>3. QED
    BY <2>2 DEF Reports
<1>5. CASE WorkerStopped
  <2>1. msg.type = "Disable" /\ state' = "Disabled"
    BY <1>2, <1>5 DEF WorkerStopped
  <2>2. \A i \in 1 .. Len(queue) : queue[i].type # "Enable"
    BY <1>2, <2>1, AloneBusy DEF Undisturbed, OneClient, CallTypes
  <2>3. WorkerStage' /\ OwnReports' /\ NoReports' /\ StaleFirst'
    BY <1>1, <1>3, <2>1, <2>2
    DEF WorkerStage, OwnReports, NoReports, StaleFirst, HasWorker
  <2>4. QED
    BY <2>3 DEF Reports
<1>6. QED
  BY <1>4, <1>5

LEMMA ControlReports ==
    ASSUME Undisturbed, Accounts, Answers, Tracks, Reports, expansion_control
    PROVE  Reports'
<1>1. ~Listen
  BY NeverListens DEF Listen, Accounts, ControlState
<1>2. QED
  BY <1>1, GetReports, HandleReports, JoinedReports DEF expansion_control

\* Calls and the interrupt put no reports of a worker.
LEMMA OthersReports ==
    ASSUME Accounts, Tracks, Reports,
           \/ UNCHANGED vars \/ ChooseLog
           \/ expansion_worker_serial_rx_callback
           \/ expansion_worker_rpc_send_callback
           \/ expansion_detect_callback
           \/ \E c \in Clients :
                 Call(c) \/ PutCall(c) \/ Return(c) \/ AppAcquire(c)
                 \/ AppRelease(c)
    PROVE  Reports'
<1>1. UNCHANGED <<state, hpc, msg, wpc, wstate, rx_freed>>
  BY DEF vars, ChooseLog, expansion_worker_serial_rx_callback,
         expansion_worker_rpc_send_callback, expansion_detect_callback,
         Call, PutCall, Return, AppAcquire, AppRelease, controlVars,
         workerVars
<1>2. CASE UNCHANGED queue
  BY <1>1, <1>2, ReportsKept
<1>3. CASE expansion_detect_callback
  <2> DEFINE m == Message("ModuleConnected", None, None)
  <2>1. m \in Messages /\ m.type = "ModuleConnected"
    BY ReportTracked
  <2>2. PutMessage(m)
    BY <1>3 DEF expansion_detect_callback
  <2> HIDE DEF m
  <2>3. ~Report(m)
    BY <2>1 DEF Report
  <2>4. QED
    BY <1>1, <2>1, <2>2, <2>3, CallReports
<1>4. ASSUME NEW c \in Clients, PutCall(c)
      PROVE  Reports'
  <2>1. PutMessage(req[c]) /\ req[c] \in Messages /\ req[c] # None
    BY <1>4 DEF PutCall, Accounts, TypeOK, ClientTypeOK
  <2>2. req[c].type \in CallTypes
    BY <2>1, ExpansionAssumption DEF Tracks
  <2>3. ~Report(req[c])
    BY <2>2 DEF Report, CallTypes
  <2>4. QED
    BY <1>1, <2>1, <2>3, CallReports
<1>5. QED
  BY <1>2, <1>3, <1>4
  DEF vars, ChooseLog, expansion_worker_serial_rx_callback,
      expansion_worker_rpc_send_callback, Call, Return, AppAcquire, AppRelease

LEMMA InitReports == Init => Reports
<1> SUFFICES ASSUME Init PROVE Reports
  OBVIOUS
<1>1. /\ state = "Disabled" /\ hpc = "get" /\ msg = None /\ queue = <<>>
      /\ wpc = "none" /\ wstate = "HandShake" /\ ~rx_freed
  BY DEF Init, NoWorker
<1>2. Len(queue) = 0
  BY <1>1
<1>3. WorkerStage /\ OwnReports /\ NoReports /\ StaleFirst
  BY <1>1, <1>2
  DEF WorkerStage, OwnReports, NoReports, StaleFirst, HasWorker
<1>4. QED
  BY <1>3 DEF Reports

LEMMA NextReports ==
    ASSUME Undisturbed
    PROVE  Accounts /\ Alone /\ Reports /\ [Next]_vars => Reports'
<1> SUFFICES ASSUME Accounts, Alone, Reports, [Next]_vars PROVE Reports'
  OBVIOUS
<1>1. Answers /\ Tracks
  BY DEF Alone
<1>2. QED
  BY <1>1, ControlReports, WorkerReports, OthersReports DEF Next

LEMMA ReportsHold ==
    ASSUME Undisturbed
    PROVE  Spec => [](Accounts /\ Reports)
  BY AloneHolds, InitReports, NextReports, PTL DEF Spec

\* rx_buf is released only after the worker has ended, when one client uses
\* the service and the interface is never moved.
THEOREM RxBufIsReleasedLast ==
    ASSUME Undisturbed
    PROVE  Spec => []RxBufOutlivesReader
<1>1. Reports => RxBufOutlivesReader
  BY DEF Reports, WorkerStage, RxBufOutlivesReader, Corrupt, Reading
<1>2. QED
  BY <1>1, ReportsHold, PTL

\* expansion_is_connected answers true only when the worker has left the
\* handshake, on the same conditions.
THEOREM ConnectedIsReady ==
    ASSUME Undisturbed
    PROVE  Spec => ConnectedMeansReady
<1>1. ASSUME Accounts, Reports, [Next]_vars, NEW c \in Clients,
             is_connected'[c], ~is_connected[c]
      PROVE  wstate # "HandShake"
  <2>1. is_connected' # is_connected
    BY <1>1
  <2>2. \/ expansion_control_handler_is_connected /\ hpc = "handle"
        \/ \E d \in Clients : Return(d)
    BY <1>1, <2>1
    DEF Next, vars, clientVars, expansion_control, GetMessage, Handle,
        WorkerStopped, WorkerJoined, Listen, expansion_worker,
        expansion_worker_serial_rx_callback,
        expansion_worker_rpc_send_callback, expansion_detect_callback,
        ChooseLog, Call, PutCall, AppAcquire, AppRelease, StopWorker,
        expansion_control_handler_enable, expansion_control_handler_disable,
        expansion_control_handler_set_listen_serial,
        expansion_control_handler_module_connected,
        expansion_control_handler_module_disconnected,
        expansion_control_handler_connection_established
  <2>3. is_connected \in [Clients -> BOOLEAN]
    BY <1>1 DEF Accounts, TypeOK, ClientTypeOK
  <2>4. ~ \E d \in Clients : Return(d)
    BY <1>1, <2>3 DEF Return
  <2>5. state = "ConnectionEstablished" /\ hpc = "handle"
    BY <1>1, <2>2, <2>3, <2>4 DEF expansion_control_handler_is_connected
  <2>6. QED
    BY <1>1, <2>5 DEF Reports, WorkerStage, HasWorker
<1>2. Accounts /\ Reports /\ [Next]_vars =>
          [\A c \in Clients :
              is_connected'[c] /\ ~is_connected[c] =>
                  wstate # "HandShake"]_vars
  BY <1>1
<1>3. QED
  BY <1>2, ReportsHold, PTL DEF Spec, ConnectedMeansReady
=============================================================================
