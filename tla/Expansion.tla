------------------------------ MODULE Expansion -----------------------------
(***************************************************************************)
(* The expansion service (services/expansion): support for hardware        *)
(* modules on a serial interface.                                          *)
(*                                                                         *)
(* Clients call its API: each call puts a message into the queue of the    *)
(* control thread and waits until it has been handled.  The interrupt of   *)
(* the serial interface reports a module, a worker thread then talks to    *)
(* it, and reports its end in the same queue.  The control thread starts   *)
(* the worker, stops it, and waits for it to end.                          *)
(*                                                                         *)
(* The module at the other end sends any frames at any time, stops, or     *)
(* sends garbage.  Frames are abstracted to what the worker tells apart.   *)
(***************************************************************************)
EXTENDS SerialControl, Sequences

CONSTANTS
    Clients,        \* threads that call the API
    Calls,          \* the calls they make
    QueueSize,      \* EXPANSION_CONTROL_QUEUE_SIZE
    MaxDetect,      \* bound: ModuleConnected messages in the queue
    LogChoices,     \* interfaces chosen for the log
    ModuleFrames,   \* the frames the module sends
    SplitFrames     \* frame contents may arrive in two parts

CallTypes == {"Enable", "Disable", "IsConnected", "SetListenSerial"}

Frames == {"Heartbeat", "StatusOk", "StatusError", "BaudRate", "BadBaudRate",
           "StartRpc", "StopRpc", "Data", "Invalid"}
MultiByte == {"BaudRate", "BadBaudRate", "Data"}

ASSUME ExpansionAssumption ==
    /\ None \notin Clients
    /\ Calls \subseteq CallTypes
    /\ QueueSize \in Nat \ {0}
    /\ MaxDetect \in Nat
    /\ LogChoices \subseteq Serials \cup {None}
    /\ ModuleFrames \subseteq Frames
    /\ SplitFrames \in BOOLEAN

VARIABLES
    \* struct Expansion
    state,          \* ExpansionState
    serial_id,      \* the interface last listened on
    uart_index,     \* settings.uart_index
    queue,          \* messages to the control thread
    \* Control thread
    hpc,            \* where expansion_control is
    msg,            \* the message being handled
    \* Clients
    phase,          \* where each client's call is
    req,            \* the message it sends
    is_connected,   \* the answer to expansion_is_connected
    offline,        \* clients that have disabled the service
    app_serial,     \* the interface a client has acquired
    \* struct ExpansionWorker and its thread
    wpc,            \* where the worker's thread is; "none": no worker
    wstate,         \* ExpansionWorkerState
    exit_reason,    \* ExpansionWorkerExitReason
    wflags,         \* thread flags, Data left out
    rx_freed,       \* rx_buf has been released
    frame,          \* the frame being received, then handled
    part,           \* the part of it that is being received
    got,            \* bytes received by this call of the receive callback
    \* The RPC session of the worker
    rpc,            \* the session is open
    tx_semaphore,   \* a data frame may be sent
    rpc_tx          \* where expansion_worker_rpc_send_callback is

controlVars == <<state, serial_id, uart_index, hpc, msg>>
clientVars == <<phase, req, is_connected, offline, app_serial>>
rpcVars == <<rpc, tx_semaphore, rpc_tx>>
receiveVars == <<frame, part, got>>
workerVars == <<wpc, wstate, exit_reason, wflags, rx_freed, receiveVars>>
vars == <<serialVars, queue, controlVars, clientVars, workerVars, rpcVars>>

States == {"Disabled", "Enabled", "Running", "ConnectionEstablished"}
Types == CallTypes \cup
    {"ModuleConnected", "ModuleDisconnected", "ConnectionEstablished"}

\* from: the client whose api_lock the message carries.
Messages ==
    {m \in [type : Types, from : Clients \cup {None},
            serial : Serials \cup {None}] :
        m.type = "SetListenSerial" => m.serial \in Serials}

ASSUME MessageAssumption == None \notin Messages

Message(type, from, serial) ==
    [type |-> type, from |-> from, serial |-> serial]

\* Places from which the worker's thread still reads rx_buf or its serial
\* interrupt writes into it, and in which that interrupt is on.
Reading == {"start", "tx", "recv", "handle", "put_connected", "exit"}
Listening == Reading \ {"start"}
Places == Reading \cup {"none", "put_exit", "dead"}

QueueTypeOK == queue \in Seq(Messages) /\ Len(queue) <= QueueSize

ControlTypeOK ==
    /\ state \in States
    /\ serial_id \in Serials \cup {None}
    /\ uart_index \in Serials \cup {None}
    /\ hpc \in {"get", "handle", "stop_join", "free_join", "listen"}
    /\ msg \in Messages \cup {None}

ClientTypeOK ==
    /\ phase \in [Clients -> {"idle", "put", "wait", "done"}]
    /\ req \in [Clients -> Messages \cup {None}]
    /\ \A c \in Clients : phase[c] = "put" => req[c] # None
    /\ is_connected \in [Clients -> BOOLEAN]
    /\ offline \subseteq Clients
    /\ app_serial \in [Clients -> Serials \cup {None}]

WorkerTypeOK ==
    /\ wpc \in Places
    /\ wstate \in {"HandShake", "Connected", "RpcActive"}
    /\ exit_reason \in {"Unknown", "User", "Error", "Timeout"}
    /\ wflags \subseteq {"Stop", "Error"}
    /\ rx_freed \in BOOLEAN
    /\ frame \in Frames
    /\ part \in {"head", "body", "rest", "sum"}
    /\ got \in BOOLEAN
    /\ rpc \in BOOLEAN
    /\ tx_semaphore \in {0, 1}
    /\ rpc_tx \in {"idle", "acquire", "send"}

TypeOK ==
    /\ SerialTypeOK
    /\ QueueTypeOK
    /\ ControlTypeOK
    /\ ClientTypeOK
    /\ WorkerTypeOK

\* No worker: what expansion_worker_alloc leaves to be set by the thread.
NoWorker ==
    /\ wpc = "none"
    /\ wstate = "HandShake"
    /\ exit_reason = "Unknown"
    /\ wflags = {}
    /\ rx_freed = FALSE
    /\ frame = "Heartbeat" /\ part = "head" /\ got = FALSE

\* expansion_on_system_start up to its call of expansion_enable, which is the
\* call of some client.
Init ==
    /\ SerialInit
    /\ state = "Disabled"
    /\ serial_id = None
    /\ uart_index \in Serials \cup {None}
    /\ queue = <<>>
    /\ hpc = "get" /\ msg = None
    /\ phase = [c \in Clients |-> "idle"]
    /\ req = [c \in Clients |-> None]
    /\ is_connected = [c \in Clients |-> FALSE]
    /\ offline = {}
    /\ app_serial = [c \in Clients |-> None]
    /\ NoWorker
    /\ rpc = FALSE /\ tx_semaphore = 0 /\ rpc_tx = "idle"

\* Mutant: the put does not wait.
PutUnchecked(m) == queue' = Append(queue, m)

\* furi_message_queue_put that waits for a free slot.
PutMessage(m) ==
    /\ Len(queue) < QueueSize
    /\ queue' = Append(queue, m)
-----------------------------------------------------------------------------
(* Clients.                                                                *)

Request(c, m) ==
    /\ phase[c] = "idle"
    /\ m.type \in Calls
    /\ phase' = [phase EXCEPT ![c] = "put"]
    /\ req' = [req EXCEPT ![c] = m]

\* An application that has acquired an interface releases it before it enables
\* the service again (expansion.h).
expansion_enable(c) ==
    /\ app_serial[c] = None
    /\ Request(c, Message("Enable", c, None))
    /\ offline' = offline \ {c}
    /\ UNCHANGED uart_index

expansion_disable(c) ==
    /\ Request(c, Message("Disable", c, None))
    /\ UNCHANGED <<offline, uart_index>>

expansion_is_connected(c) ==
    /\ Request(c, Message("IsConnected", c, None))
    /\ UNCHANGED <<offline, uart_index>>

\* The settings application (expansion_settings_app_uart_changed) changes the
\* settings in place and then calls expansion_set_listen_serial.
expansion_set_listen_serial(c, s) ==
    /\ app_serial[c] = None
    /\ Request(c, Message("SetListenSerial", c, s))
    /\ uart_index' = s
    /\ offline' = offline \ {c}

Call(c) ==
    /\ \/ expansion_enable(c) \/ expansion_disable(c)
       \/ expansion_is_connected(c)
       \/ \E s \in Serials : expansion_set_listen_serial(c, s)
    /\ UNCHANGED <<serialVars, queue, state, serial_id, hpc, msg,
                   is_connected, app_serial, workerVars, rpcVars>>

PutCall(c) ==
    /\ phase[c] = "put"
    /\ PutMessage(req[c])
    /\ phase' = [phase EXCEPT ![c] = "wait"]
    /\ UNCHANGED <<serialVars, controlVars, req, is_connected, offline,
                   app_serial, workerVars, rpcVars>>

\* api_lock_wait_unlock_and_free returns.
Return(c) ==
    /\ phase[c] = "done"
    /\ phase' = [phase EXCEPT ![c] = "idle"]
    /\ req' = [req EXCEPT ![c] = None]
    /\ is_connected' = [is_connected EXCEPT ![c] = FALSE]
    /\ offline' = IF req[c].type = "Disable" THEN offline \cup {c} ELSE offline
    /\ UNCHANGED <<serialVars, queue, controlVars, app_serial, workerVars,
                   rpcVars>>

\* An application uses the interface after expansion_disable.
AppAcquire(c) ==
    /\ c \in offline /\ phase[c] = "idle" /\ app_serial[c] = None
    /\ \E s \in Serials :
          /\ furi_hal_serial_control_acquire(s)
          /\ app_serial' = [app_serial EXCEPT ![c] = s]
    /\ UNCHANGED <<queue, controlVars, phase, req, is_connected, offline,
                   workerVars, rpcVars>>

AppRelease(c) ==
    /\ app_serial[c] # None /\ phase[c] = "idle"
    /\ furi_hal_serial_control_release(app_serial[c])
    /\ app_serial' = [app_serial EXCEPT ![c] = None]
    /\ UNCHANGED <<queue, controlVars, phase, req, is_connected, offline,
                   workerVars, rpcVars>>

\* The user moves the log.
ChooseLog ==
    /\ \E id \in LogChoices \ {log_config_serial_id} :
          furi_hal_serial_control_set_logging_config(id)
    /\ UNCHANGED <<queue, controlVars, clientVars, workerVars, rpcVars>>

\* The Rx pin falls and the serial control thread calls the callback; with the
\* queue full the message is discarded, which changes nothing.
expansion_detect_callback ==
    /\ expansion_serial # None /\ expansion_serial \in irq
    /\ Len(SelectSeq(queue, LAMBDA m : m.type = "ModuleConnected")) < MaxDetect
    /\ PutMessage(Message("ModuleConnected", None, None))
    /\ UNCHANGED <<serialVars, controlVars, clientVars, workerVars, rpcVars>>
-----------------------------------------------------------------------------
(* Control thread.                                                         *)

\* furi_message_queue_get
GetMessage ==
    /\ hpc = "get" /\ queue # <<>>
    /\ hpc' = "handle"
    /\ msg' = Head(queue)
    /\ queue' = Tail(queue)
    /\ UNCHANGED <<serialVars, state, serial_id, uart_index, clientVars,
                   workerVars, rpcVars>>

\* Mutant: the lock is not unlocked.
HandledForgetsLock == hpc' = "get" /\ msg' = None /\ UNCHANGED phase

\* The handler returns: api_lock_unlock
Handled ==
    /\ hpc' = "get"
    /\ msg' = None
    /\ phase' = IF msg.from \in Clients
                THEN [phase EXCEPT ![msg.from] = "done"] ELSE phase

HasWorker == state \in {"Running", "ConnectionEstablished"}

\* Mutant: a running service is enabled again.
EnableUnchecked ==
    /\ msg.type = "Enable"
    /\ \/ /\ state # "Enabled" /\ uart_index # None
          /\ state' = "Enabled"
          /\ serial_id' = uart_index
          /\ DetectOn(uart_index)
       \/ /\ state = "Enabled" \/ uart_index = None
          /\ UNCHANGED <<serialVars, state, serial_id>>
    /\ Handled
    /\ UNCHANGED <<is_connected, workerVars>>

expansion_control_handler_enable ==
    /\ msg.type = "Enable"
    /\ \/ /\ state = "Disabled" /\ uart_index # None
          /\ state' = "Enabled"
          /\ serial_id' = uart_index
          /\ DetectOn(uart_index)
       \/ /\ state # "Disabled" \/ uart_index = None
          /\ UNCHANGED <<serialVars, state, serial_id>>
    /\ Handled
    /\ UNCHANGED <<is_connected, workerVars>>

\* Mutant: the worker is waited for and not told to stop.
StopWithoutFlag ==
    /\ hpc' = "stop_join"
    /\ UNCHANGED <<serialVars, state, serial_id, msg, phase, is_connected,
                   workerVars>>

\* expansion_worker_stop up to its join
StopWorker ==
    /\ wflags' = wflags \cup {"Stop"}
    /\ hpc' = "stop_join"
    /\ UNCHANGED <<serialVars, state, serial_id, msg, phase, is_connected, wpc,
                   wstate, exit_reason, rx_freed, receiveVars>>

\* Mutant: the worker is told to stop and not waited for.
DisableWithoutJoin ==
    /\ msg.type = "Disable"
    /\ \/ /\ state = "Enabled"
          /\ DetectOff(serial_id)
          /\ UNCHANGED wflags
       \/ /\ state # "Enabled"
          /\ wflags' = IF HasWorker THEN wflags \cup {"Stop"} ELSE wflags
          /\ UNCHANGED serialVars
    /\ state' = "Disabled"
    /\ Handled
    /\ UNCHANGED <<serial_id, is_connected, wpc, wstate, exit_reason, rx_freed,
                   receiveVars>>

expansion_control_handler_disable ==
    /\ msg.type = "Disable"
    /\ \/ /\ HasWorker
          /\ StopWorker
       \/ /\ state = "Enabled"
          /\ DetectOff(serial_id)
          /\ state' = "Disabled"
          /\ Handled
          /\ UNCHANGED <<serial_id, is_connected, workerVars>>
       \/ /\ state = "Disabled"
          /\ Handled
          /\ UNCHANGED <<serialVars, state, serial_id, is_connected,
                         workerVars>>

\* The first half: the old interface is given up.
expansion_control_handler_set_listen_serial ==
    /\ msg.type = "SetListenSerial"
    /\ \/ /\ HasWorker
          /\ StopWorker
       \/ /\ state = "Enabled"
          /\ DetectOff(serial_id)
          /\ hpc' = "listen"
          /\ UNCHANGED <<state, serial_id, msg, phase, is_connected,
                         workerVars>>
       \/ /\ state = "Disabled"
          /\ hpc' = "listen"
          /\ UNCHANGED <<serialVars, state, serial_id, msg, phase,
                         is_connected, workerVars>>

\* Mutant: detection stays on.
ConnectedKeepsDetecting ==
    /\ msg.type = "ModuleConnected"
    /\ IF state = "Enabled" THEN state' = "Running" /\ wpc' = "start"
       ELSE UNCHANGED <<state, wpc>>
    /\ Handled
    /\ UNCHANGED <<serialVars, serial_id, is_connected, wstate, exit_reason,
                   wflags, rx_freed, receiveVars>>

expansion_control_handler_module_connected ==
    /\ msg.type = "ModuleConnected"
    /\ \/ /\ state = "Enabled"
          /\ DetectOff(serial_id)
          /\ state' = "Running"
          /\ wpc' = "start"
          /\ UNCHANGED <<wstate, exit_reason, wflags, rx_freed, receiveVars>>
       \/ /\ state # "Enabled"
          /\ UNCHANGED <<serialVars, state, workerVars>>
    /\ Handled
    /\ UNCHANGED <<serial_id, is_connected>>

\* Mutant: the state is not checked.
DisconnectedUnchecked ==
    /\ msg.type = "ModuleDisconnected"
    /\ state' = "Enabled"
    /\ rx_freed' = TRUE
    /\ hpc' = "free_join"
    /\ UNCHANGED <<msg, phase, serialVars, serial_id, is_connected, wpc,
                   wstate, exit_reason, wflags, receiveVars>>

\* Up to the join in expansion_worker_free, which comes after the release of
\* rx_buf.
expansion_control_handler_module_disconnected ==
    /\ msg.type = "ModuleDisconnected"
    /\ \/ /\ HasWorker
          /\ state' = "Enabled"
          /\ rx_freed' = TRUE
          /\ hpc' = "free_join"
          /\ UNCHANGED <<msg, phase>>
       \/ /\ ~HasWorker
          /\ Handled
          /\ UNCHANGED <<state, rx_freed>>
    /\ UNCHANGED <<serialVars, serial_id, is_connected, wpc, wstate,
                   exit_reason, wflags, receiveVars>>

expansion_control_handler_connection_established ==
    /\ msg.type = "ConnectionEstablished"
    /\ state' = IF HasWorker THEN "ConnectionEstablished" ELSE state
    /\ Handled
    /\ UNCHANGED <<serialVars, serial_id, is_connected, workerVars>>

\* Mutant: a worker is taken for a connection.
ConnectedWhenRunning ==
    /\ msg.type = "IsConnected"
    /\ is_connected' = [is_connected EXCEPT ![msg.from] = HasWorker]
    /\ Handled
    /\ UNCHANGED <<serialVars, state, serial_id, workerVars>>

expansion_control_handler_is_connected ==
    /\ msg.type = "IsConnected"
    /\ is_connected' =
          [is_connected EXCEPT ![msg.from] = (state = "ConnectionEstablished")]
    /\ Handled
    /\ UNCHANGED <<serialVars, state, serial_id, workerVars>>

Handle ==
    /\ hpc = "handle"
    /\ \/ expansion_control_handler_enable
       \/ expansion_control_handler_disable
       \/ expansion_control_handler_set_listen_serial
       \/ expansion_control_handler_module_connected
       \/ expansion_control_handler_module_disconnected
       \/ expansion_control_handler_connection_established
       \/ expansion_control_handler_is_connected
    /\ UNCHANGED <<queue, uart_index, req, offline, app_serial, rpcVars>>

\* furi_thread_join has returned; the rest of expansion_worker_free.
FreeWorker ==
    /\ wpc = "dead"
    /\ wpc' = "none"
    /\ wstate' = "HandShake"
    /\ exit_reason' = "Unknown"
    /\ wflags' = {}
    /\ rx_freed' = FALSE
    /\ frame' = "Heartbeat" /\ part' = "head" /\ got' = FALSE

\* The worker has been stopped: the rest of the handler of Disable, and the
\* worker's release in that of SetListenSerial.
WorkerStopped ==
    /\ hpc = "stop_join"
    /\ FreeWorker
    /\ \/ /\ msg.type = "Disable"
          /\ state' = "Disabled"
          /\ Handled
       \/ /\ msg.type = "SetListenSerial"
          /\ hpc' = "listen"
          /\ UNCHANGED <<state, msg, phase>>
    /\ UNCHANGED <<serialVars, queue, serial_id, uart_index, req,
                   is_connected, offline, app_serial, rpcVars>>

\* The rest of the handler of ModuleDisconnected.
WorkerJoined ==
    /\ hpc = "free_join"
    /\ FreeWorker
    /\ DetectOn(serial_id)
    /\ Handled
    /\ UNCHANGED <<queue, state, serial_id, uart_index, req, is_connected,
                   offline, app_serial, rpcVars>>

\* The rest of the handler of SetListenSerial.
Listen ==
    /\ hpc = "listen"
    /\ state' = "Enabled"
    /\ serial_id' = msg.serial
    /\ DetectOn(msg.serial)
    /\ Handled
    /\ UNCHANGED <<queue, uart_index, req, is_connected, offline, app_serial,
                   workerVars, rpcVars>>

expansion_control ==
    GetMessage \/ Handle \/ WorkerStopped \/ WorkerJoined \/ Listen
-----------------------------------------------------------------------------
(* Worker thread.                                                          *)

\* expansion_worker up to the state machine.  The interface is free
\* (furi_check).  A frame, here the first heartbeat, is sent at "tx".
WorkerRun ==
    /\ wpc = "start"
    /\ furi_hal_serial_control_acquire(serial_id)
    /\ wpc' = "tx"
    /\ wstate' = "HandShake"
    /\ exit_reason' = "Unknown"
    /\ frame' = "Heartbeat"
    /\ UNCHANGED <<wflags, rx_freed, part, got, rpcVars>>

\* The answer has been sent and the next frame is awaited.  The data of a data
\* frame goes to the session first, which may not take all of it.
WorkerSent ==
    /\ wpc = "tx"
    /\ \/ wpc' = "recv"
       \/ frame = "Data" /\ wpc' = "exit"
    /\ part' = "head"
    /\ UNCHANGED <<serialVars, wstate, exit_reason, wflags, rx_freed, frame,
                   got, rpcVars>>

\* expansion_worker_receive_callback has got all bytes it was called for:
\* expansion_protocol_decode goes on to the next part, rejects the frame, or
\* has got it.
ReceiveAll ==
    /\ wpc = "recv"
    /\ got' = FALSE
    /\ \/ /\ part = "head"
          /\ frame' \in ModuleFrames
          /\ part' = IF frame' = "Heartbeat" THEN "sum" ELSE "body"
          /\ wpc' = IF frame' = "Invalid" THEN "exit" ELSE "recv"
       \/ /\ part \in {"body", "rest"}
          /\ \/ part' = "sum" /\ wpc' = "recv"
             \/ frame = "Data" /\ part' = "head" /\ wpc' = "exit"
          /\ UNCHANGED frame
       \/ /\ part = "sum"
          /\ part' = "head"
          /\ wpc' \in {"handle", "exit"}
          /\ UNCHANGED frame
    /\ UNCHANGED <<serialVars, wstate, exit_reason, wflags, rx_freed, rpcVars>>

\* It has got some of them and waits for the others.
ReceiveSome ==
    /\ wpc = "recv" /\ part = "body" /\ frame \in MultiByte
    /\ SplitFrames /\ ~got
    /\ got' = TRUE
    /\ UNCHANGED <<serialVars, wpc, wstate, exit_reason, wflags, rx_freed,
                   frame, part, rpcVars>>

\* It gives up waiting.  With no byte received, decoding fails and the worker
\* ends; otherwise expansion_protocol_decode calls again for the rest.
GiveUp(reason) ==
    /\ wpc = "recv"
    /\ exit_reason' = reason
    /\ got' = FALSE
    /\ IF got THEN part' = "rest" /\ UNCHANGED wpc
       ELSE wpc' = "exit" /\ UNCHANGED part
    /\ UNCHANGED <<serialVars, wstate, rx_freed, frame, rpcVars>>

ReceiveTimeout ==
    /\ "Stop" \notin wflags
    /\ GiveUp("Timeout")
    /\ UNCHANGED wflags

ReceiveStop ==
    /\ "Stop" \in wflags
    /\ GiveUp("User")
    /\ wflags' = wflags \ {"Stop"}

\* Mutant: the flag is cleared and the worker goes on.
ErrorCleared ==
    /\ "Stop" \notin wflags /\ "Error" \in wflags /\ wpc = "recv"
    /\ wflags' = wflags \ {"Error"}
    /\ UNCHANGED <<serialVars, wpc, wstate, exit_reason, rx_freed, receiveVars,
                   rpcVars>>

\* EXPANSION_ALL_FLAGS lacks Error: it is noticed only when Data is raised
\* too, and not cleared.
ReceiveError ==
    /\ "Stop" \notin wflags /\ "Error" \in wflags
    /\ GiveUp("Error")
    /\ UNCHANGED wflags

HandlerBreaks ==
    /\ wpc' = "exit"
    /\ UNCHANGED <<wstate, rpcVars>>

expansion_worker_handle_state_handshake ==
    /\ wstate = "HandShake"
    /\ \/ frame = "BaudRate" /\ wstate' = "Connected"
          /\ wpc' = "put_connected" /\ UNCHANGED rpcVars
       \/ frame = "BadBaudRate" /\ wpc' = "tx" /\ UNCHANGED <<wstate, rpcVars>>
       \/ frame \notin {"BaudRate", "BadBaudRate"} /\ HandlerBreaks

expansion_worker_rpc_session_open ==
    rpc' = TRUE /\ tx_semaphore' = 1 /\ UNCHANGED rpc_tx

\* Mutant: the callback is not waited for.
CloseInsideCallback ==
    rpc' = FALSE /\ tx_semaphore' = 0 /\ UNCHANGED rpc_tx

\* rpc_session_close takes the callback away, for which it waits until the
\* callback has returned (callbacks_mutex).
expansion_worker_rpc_session_close ==
    rpc_tx = "idle" /\ rpc' = FALSE /\ tx_semaphore' = 0 /\ UNCHANGED rpc_tx

expansion_worker_handle_state_connected ==
    /\ wstate = "Connected"
    /\ \/ frame = "StartRpc" /\ wpc' = "tx" /\ wstate' = "RpcActive"
          /\ expansion_worker_rpc_session_open
       \/ frame = "Heartbeat" /\ wpc' = "tx" /\ UNCHANGED <<wstate, rpcVars>>
       \/ frame \notin {"StartRpc", "Heartbeat"} /\ HandlerBreaks

expansion_worker_handle_state_rpc_active ==
    /\ wstate = "RpcActive"
    /\ \/ frame \in {"Data", "Heartbeat"} /\ wpc' = "tx"
          /\ UNCHANGED <<wstate, rpcVars>>
       \/ frame = "StopRpc" /\ wpc' = "tx" /\ wstate' = "Connected"
          /\ expansion_worker_rpc_session_close
       \/ frame = "StatusOk" /\ wpc' = "recv" /\ tx_semaphore' = 1
          /\ UNCHANGED <<wstate, rpc, rpc_tx>>
       \/ frame \notin {"Data", "Heartbeat", "StopRpc", "StatusOk"}
          /\ HandlerBreaks

HandleFrame ==
    /\ wpc = "handle"
    /\ \/ expansion_worker_handle_state_handshake
       \/ expansion_worker_handle_state_connected
       \/ expansion_worker_handle_state_rpc_active
    /\ UNCHANGED <<serialVars, exit_reason, wflags, rx_freed, receiveVars>>

\* The end of expansion_worker, up to the callback.
WorkerExit ==
    /\ wpc = "exit"
    /\ IF wstate = "RpcActive" THEN expansion_worker_rpc_session_close
       ELSE UNCHANGED rpcVars
    /\ furi_hal_serial_control_release(serial_id)
    /\ wpc' = IF exit_reason = "User" THEN "dead" ELSE "put_exit"
    /\ UNCHANGED <<wstate, exit_reason, wflags, rx_freed, receiveVars>>

\* Mutant: both reasons are reported as the end (a missing break).
CallbackFallsThrough ==
    /\ wpc \in {"put_connected", "put_exit"}
    /\ PutMessage(Message("ModuleDisconnected", None, None))
    /\ wpc' = IF wpc = "put_exit" THEN "dead" ELSE "tx"
    /\ UNCHANGED <<serialVars, wstate, exit_reason, wflags, rx_freed,
                   receiveVars, rpcVars>>

\* The worker waits for a free slot in the control thread's queue.
expansion_worker_callback ==
    /\ \/ /\ wpc = "put_connected"
          /\ PutMessage(Message("ConnectionEstablished", None, None))
          /\ wpc' = "tx"
       \/ /\ wpc = "put_exit"
          /\ PutMessage(Message("ModuleDisconnected", None, None))
          /\ wpc' = "dead"
    /\ UNCHANGED <<serialVars, wstate, exit_reason, wflags, rx_freed,
                   receiveVars, rpcVars>>

expansion_worker ==
    /\ \/ expansion_worker_callback
       \/ /\ \/ WorkerRun \/ WorkerSent
             \/ ReceiveAll \/ ReceiveSome
             \/ ReceiveTimeout \/ ReceiveStop \/ ReceiveError
             \/ HandleFrame \/ WorkerExit
          /\ UNCHANGED queue
    /\ UNCHANGED <<controlVars, clientVars>>

\* A receive error: noise, framing, overrun.
expansion_worker_serial_rx_callback ==
    /\ wpc \in Listening
    /\ wflags' = wflags \cup {"Error"}
    /\ UNCHANGED <<serialVars, queue, controlVars, clientVars, wpc, wstate,
                   exit_reason, rx_freed, receiveVars, rpcVars>>

\* The session's thread sends data to the module, one frame at a time, each
\* after the module has confirmed the one before.
expansion_worker_rpc_send_callback ==
    /\ rpc
    /\ \/ /\ rpc_tx = "idle" /\ rpc_tx' = "acquire"
          /\ UNCHANGED <<tx_semaphore, wflags>>
       \/ /\ rpc_tx = "acquire" /\ tx_semaphore = 1
          /\ rpc_tx' = "send" /\ tx_semaphore' = 0
          /\ UNCHANGED wflags
       \/ /\ rpc_tx = "acquire" /\ tx_semaphore = 0
          /\ rpc_tx' = "idle" /\ wflags' = wflags \cup {"Error"}
          /\ UNCHANGED tx_semaphore
       \/ /\ rpc_tx = "send" /\ rpc_tx' \in {"idle", "acquire"}
          /\ UNCHANGED <<tx_semaphore, wflags>>
    /\ UNCHANGED <<serialVars, queue, controlVars, clientVars, wpc, wstate,
                   exit_reason, rx_freed, receiveVars, rpc>>
-----------------------------------------------------------------------------
\* The worker would read memory that has been released; nothing is said of
\* what follows.
Corrupt == rx_freed /\ wpc \in Reading

Next ==
    /\ ~Corrupt
    /\ \/ expansion_control
       \/ expansion_worker
       \/ expansion_worker_serial_rx_callback
       \/ expansion_worker_rpc_send_callback
       \/ expansion_detect_callback
       \/ \E c \in Clients :
             Call(c) \/ PutCall(c) \/ Return(c) \/ AppAcquire(c)
             \/ AppRelease(c)
       \/ ChooseLog

Spec == Init /\ [][Next]_vars

\* Every thread that can run goes on; an RPC callback that returns again and
\* again lets the worker close its session; and the module does not send so
\* fast that the worker never waits for a frame (the protocol is
\* request-response), so that it notices a flag that stays set.
Fairness ==
    /\ WF_vars(~Corrupt /\ expansion_control)
    /\ SF_vars(~Corrupt /\ expansion_worker)
    /\ SF_vars(~Corrupt /\ (ReceiveStop \/ ReceiveError) /\ part = "head"
               /\ UNCHANGED <<queue, controlVars, clientVars>>)
    /\ WF_vars(~Corrupt /\ expansion_worker_rpc_send_callback)
    /\ \A c \in Clients : SF_vars(~Corrupt /\ PutCall(c))

FairSpec == Spec /\ Fairness
-----------------------------------------------------------------------------
(* Properties.                                                             *)

Joining == hpc \in {"stop_join", "free_join"}

\* There is at most one worker and the control thread knows it: a worker
\* exists exactly while the state says so or the control thread waits for its
\* end.  expansion_worker_alloc never overwrites a live worker and neither
\* stop nor free is called without one.
WorkerAccountedFor ==
    /\ wpc # "none" <=>
          \/ HasWorker /\ hpc # "listen"
          \/ hpc = "free_join"
    /\ Joining => wpc # "none"
    /\ wpc \in Listening => serial_id \in in_use

\* Detection is on exactly while the service is enabled and has no worker, and
\* on the interface it listens on: the four furi_checks of
\* furi_hal_serial_control_handler_expansion_set_callback never fail, and a
\* module on the listened interface is always noticed.
DetectionFollowsState ==
    /\ expansion_serial =
          IF state = "Enabled" /\ hpc \notin {"free_join", "listen"}
          THEN serial_id ELSE None
    /\ irq \subseteq {expansion_serial}
    /\ expansion_serial # None /\ expansion_serial \notin in_use => irq # {}

\* Every call is answered once: while a client waits, exactly one message
\* carries its lock, in the queue or with the control thread, and no message
\* carries the lock of a client that does not wait (it would unlock a lock
\* that has been released).
CallsAnsweredOnce ==
    \A c \in Clients :
        LET carried == {i \in 1 .. Len(queue) : queue[i].from = c}
        IN  /\ phase[c] = "wait" =>
                  \/ msg # None /\ msg.from = c /\ carried = {}
                  \/ /\ msg = None \/ msg.from # c
                     /\ \E i \in carried : carried = {i}
            /\ phase[c] # "wait" =>
                  carried = {} /\ (msg = None \/ msg.from # c)

\* The RPC session lives inside the worker: it is open exactly while the
\* worker is in RpcActive and has not ended, and a data frame is sent only in
\* an open session, also when the session's thread is in the callback while
\* the worker ends.
SessionInsideWorker ==
    /\ rpc <=> wstate = "RpcActive" /\ wpc \in Listening
    /\ rpc_tx # "idle" => rpc

\* The log goes to the interface chosen for it whenever nobody else uses it.
LogFollowsConfig ==
    log_serial = IF log_config_serial_id \in in_use THEN None
                 ELSE log_config_serial_id

\* "Applications requiring serial port access MUST call this function BEFORE
\* calling furi_hal_serial_control_acquire()" (expansion.h): after
\* expansion_disable has returned to an application that is alone, neither
\* worker nor detection touches an interface.
DisabledMeansQuiet ==
    \A c \in offline :
        Clients = {c} =>
            /\ wpc = "none" /\ irq = {} /\ state = "Disabled"
            /\ in_use \subseteq {app_serial[c]}

\* The worker's furi_check(instance->serial_handle): the interface is free
\* when the worker acquires it.
WorkerGetsSerial == wpc = "start" => serial_id \notin in_use

\* rx_buf is released only when the worker has read from it for the last time.
RxBufOutlivesReader == ~Corrupt

\* "true if the module is connected and initialized, false otherwise"
\* (expansion.h, expansion_is_connected).
ConnectedMeansReady ==
    [][\A c \in Clients :
          is_connected'[c] /\ ~is_connected[c] => wstate # "HandShake"]_vars

\* "Not locking the API here to avoid a deadlock" (expansion.c): the control
\* thread does not wait for a worker that waits for room in its queue.
ControlDoesNotBlockWorker ==
    ~ /\ Joining
      /\ wpc \in {"put_connected", "put_exit"}
      /\ Len(queue) = QueueSize

\* "Exiting due to RPC error" (expansion_worker.c): after a receive error or a
\* data frame the module did not confirm, the worker ends, although the wait
\* does not wait for the Error flag.
WorkerEndsAfterError ==
    "Error" \in wflags /\ wpc \in Listening ~> wpc \notin Listening

\* Every call returns: expansion_disable "will cease all communications with
\* the expansion module (if any), release the serial handle" (expansion.h).
CallReturns ==
    \A c \in Clients : phase[c] \in {"put", "wait"} ~> phase[c] = "done"
=============================================================================
