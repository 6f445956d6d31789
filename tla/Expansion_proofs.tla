-------------------------- MODULE Expansion_proofs --------------------------
(***************************************************************************)
(* Proofs about Expansion, for any clients, interfaces, frames and bounds. *)
(***************************************************************************)
EXTENDS Expansion, SequenceLemmas

(* The serial control service.                                             *)

LEMMA AcquireType ==
    ASSUME SerialTypeOK, NEW s \in Serials, furi_hal_serial_control_acquire(s)
    PROVE  SerialTypeOK'
  BY DEF SerialTypeOK, furi_hal_serial_control_acquire,
         furi_hal_serial_control_log_set_handle

LEMMA ReleaseType ==
    ASSUME SerialTypeOK, NEW s \in Serials, furi_hal_serial_control_release(s)
    PROVE  SerialTypeOK'
  BY DEF SerialTypeOK, furi_hal_serial_control_release,
         furi_hal_serial_control_log_set_handle

LEMMA LoggingType ==
    ASSUME SerialTypeOK, NEW id \in Serials \cup {None},
           furi_hal_serial_control_set_logging_config(id)
    PROVE  SerialTypeOK'
  BY DEF SerialTypeOK, furi_hal_serial_control_set_logging_config,
         furi_hal_serial_control_log_set_handle

LEMMA DetectOnType ==
    ASSUME SerialTypeOK, NEW s \in Serials, DetectOn(s)
    PROVE  SerialTypeOK'
  BY DEF SerialTypeOK, DetectOn

LEMMA DetectOffType ==
    ASSUME SerialTypeOK, NEW s, DetectOff(s)
    PROVE  SerialTypeOK'
  BY DEF SerialTypeOK, DetectOff

LEMMA SerialKept == SerialTypeOK /\ UNCHANGED serialVars => SerialTypeOK'
  BY DEF SerialTypeOK, serialVars
-----------------------------------------------------------------------------
(* Type correctness and the worker's accounts, which rest on each other.   *)

\* What the control thread remembers between the steps of a handler.
ControlState ==
    /\ state # "Disabled" => serial_id \in Serials
    /\ hpc # "get" => msg \in Messages
    /\ hpc = "listen" => msg.type = "SetListenSerial"
    /\ hpc = "free_join" => state = "Enabled"

\* The first two conjuncts of WorkerAccountedFor.
WorkerKnown ==
    /\ wpc # "none" <=>
          \/ HasWorker /\ hpc # "listen"
          \/ hpc = "free_join"
    /\ Joining => wpc # "none"

Accounts == TypeOK /\ ControlState /\ WorkerKnown

LEMMA InitAccounts == Init => Accounts
<1> SUFFICES ASSUME Init PROVE Accounts
  OBVIOUS
<1>1. SerialTypeOK
  BY DEF Init, SerialInit, SerialTypeOK
<1>2. QueueTypeOK /\ ControlTypeOK /\ ClientTypeOK
  BY ExpansionAssumption
  DEF Init, QueueTypeOK, ControlTypeOK, ClientTypeOK, States
<1>3. WorkerTypeOK
  BY DEF Init, NoWorker, WorkerTypeOK, Places, Reading, Frames
<1>4. ControlState /\ WorkerKnown
  BY DEF Init, NoWorker, ControlState, WorkerKnown, HasWorker, Joining
<1>5. QED
  BY <1>1, <1>2, <1>3, <1>4 DEF Accounts, TypeOK

\* A message put into the queue.
LEMMA PutType ==
    ASSUME QueueTypeOK, NEW m \in Messages, PutMessage(m)
    PROVE  QueueTypeOK'
<1>1. Append(queue, m) \in Seq(Messages) /\ Len(Append(queue, m)) = Len(queue) + 1
  BY AppendProperties DEF QueueTypeOK
<1>2. Len(queue) \in Nat
  BY LenProperties DEF QueueTypeOK
<1>3. QED
  BY <1>1, <1>2, ExpansionAssumption DEF QueueTypeOK, PutMessage

LEMMA MessageType ==
    ASSUME NEW type \in Types, NEW from \in Clients \cup {None},
           NEW serial \in Serials \cup {None},
           type = "SetListenSerial" => serial \in Serials
    PROVE  Message(type, from, serial) \in Messages
  BY DEF Message, Messages

\* The handler returns.
LEMMA HandledType ==
    ASSUME ClientTypeOK, Handled, UNCHANGED <<req, offline, app_serial>>,
           is_connected' \in [Clients -> BOOLEAN]
    PROVE  ClientTypeOK' /\ hpc' = "get" /\ msg' = None
  BY DEF ClientTypeOK, Handled

\* While there is a worker its interface is known.
LEMMA WorkerSerial ==
    ASSUME Accounts, wpc # "none"
    PROVE  serial_id \in Serials
  BY DEF Accounts, ControlState, WorkerKnown, HasWorker

\* A step of the worker's thread: only the worker's own state, the interfaces
\* and the queue are left to look at.
LEMMA WorkerStep ==
    ASSUME Accounts, SerialTypeOK', QueueTypeOK', WorkerTypeOK',
           wpc # "none", wpc' # "none",
           UNCHANGED <<controlVars, clientVars>>
    PROVE  Accounts'
<1> USE DEF controlVars, clientVars
<1>1. ControlTypeOK' /\ ClientTypeOK'
  BY DEF Accounts, TypeOK, ControlTypeOK, ClientTypeOK
<1>2. ControlState' /\ WorkerKnown'
  BY DEF Accounts, ControlState, WorkerKnown, HasWorker, Joining
<1>3. QED
  BY <1>1, <1>2 DEF Accounts, TypeOK

LEMMA QueueKept == QueueTypeOK /\ UNCHANGED queue => QueueTypeOK'
  BY DEF QueueTypeOK

\* The frames handlers and what they do to the worker.
LEMMA HandleFrameType ==
    ASSUME WorkerTypeOK, HandleFrame
    PROVE  WorkerTypeOK' /\ wpc' # "none"
<1> USE DEF HandleFrame, HandlerBreaks, WorkerTypeOK, Places, Reading,
            receiveVars, rpcVars
<1>1. CASE expansion_worker_handle_state_handshake
  BY <1>1 DEF expansion_worker_handle_state_handshake
<1>2. CASE expansion_worker_handle_state_connected
  BY <1>2 DEF expansion_worker_handle_state_connected,
              expansion_worker_rpc_session_open
<1>3. CASE expansion_worker_handle_state_rpc_active
  BY <1>3 DEF expansion_worker_handle_state_rpc_active,
              expansion_worker_rpc_session_close
<1>4. QED
  BY <1>1, <1>2, <1>3

LEMMA GiveUpType ==
    ASSUME WorkerTypeOK, NEW reason \in {"User", "Error", "Timeout"},
           GiveUp(reason), wflags' \subseteq wflags
    PROVE  WorkerTypeOK' /\ wpc' # "none"
  BY DEF GiveUp, WorkerTypeOK, Places, Reading, rpcVars

\* The steps of the worker's thread that leave the queue and the interfaces
\* alone.
LEMMA ReceiveType ==
    ASSUME WorkerTypeOK,
           \/ WorkerSent \/ ReceiveAll \/ ReceiveSome
           \/ ReceiveTimeout \/ ReceiveStop \/ ReceiveError \/ HandleFrame
    PROVE  WorkerTypeOK' /\ wpc' # "none" /\ wpc # "none" /\ UNCHANGED serialVars
<1> USE DEF WorkerTypeOK, Places, Reading, rpcVars
<1>1. CASE WorkerSent
  BY <1>1 DEF WorkerSent
<1>2. CASE ReceiveAll
  BY <1>2, ExpansionAssumption DEF ReceiveAll
<1>3. CASE ReceiveSome
  BY <1>3 DEF ReceiveSome
<1>4. CASE ReceiveTimeout
  BY <1>4, GiveUpType DEF ReceiveTimeout, GiveUp
<1>5. CASE ReceiveStop
  BY <1>5, GiveUpType DEF ReceiveStop, GiveUp
<1>6. CASE ReceiveError
  BY <1>6, GiveUpType DEF ReceiveError, GiveUp
<1>7. CASE HandleFrame
  BY <1>7, HandleFrameType DEF HandleFrame
<1>8. QED
  BY <1>1, <1>2, <1>3, <1>4, <1>5, <1>6, <1>7

LEMMA WorkerRunType ==
    ASSUME Accounts, WorkerRun
    PROVE  SerialTypeOK' /\ WorkerTypeOK' /\ wpc' # "none" /\ wpc # "none"
<1>1. wpc # "none" /\ wpc' # "none" /\ WorkerTypeOK'
  BY DEF WorkerRun, Accounts, TypeOK, WorkerTypeOK, Places, Reading, Frames,
         rpcVars
<1>2. SerialTypeOK'
  BY <1>1, WorkerSerial, AcquireType DEF WorkerRun, Accounts, TypeOK
<1>3. QED
  BY <1>1, <1>2

LEMMA WorkerExitType ==
    ASSUME Accounts, WorkerExit
    PROVE  SerialTypeOK' /\ WorkerTypeOK' /\ wpc' # "none" /\ wpc # "none"
<1>1. wpc # "none" /\ wpc' # "none" /\ WorkerTypeOK'
  BY DEF WorkerExit, Accounts, TypeOK, WorkerTypeOK, Places, Reading,
         rpcVars, receiveVars, expansion_worker_rpc_session_close
<1>2. SerialTypeOK'
  BY <1>1, WorkerSerial, ReleaseType DEF WorkerExit, Accounts, TypeOK
<1>3. QED
  BY <1>1, <1>2

LEMMA WorkerCallbackType ==
    ASSUME Accounts, expansion_worker_callback
    PROVE  /\ QueueTypeOK' /\ WorkerTypeOK' /\ wpc' # "none" /\ wpc # "none"
           /\ UNCHANGED serialVars
<1>1. /\ WorkerTypeOK' /\ wpc # "none" /\ wpc' # "none"
      /\ UNCHANGED serialVars
  BY DEF expansion_worker_callback, Accounts, TypeOK, WorkerTypeOK, Places,
         Reading, rpcVars, receiveVars
<1>2. /\ Message("ConnectionEstablished", None, None) \in Messages
      /\ Message("ModuleDisconnected", None, None) \in Messages
  BY MessageType DEF Types
<1>3. QueueTypeOK'
  BY <1>2, PutType DEF expansion_worker_callback, Accounts, TypeOK
<1>4. QED
  BY <1>1, <1>3

LEMMA WorkerAccounts ==
    ASSUME Accounts, expansion_worker
    PROVE  Accounts'
<1>1. SerialTypeOK /\ QueueTypeOK /\ WorkerTypeOK
  BY DEF Accounts, TypeOK
<1>2. UNCHANGED <<controlVars, clientVars>>
  BY DEF expansion_worker
<1>3. CASE expansion_worker_callback
  BY <1>1, <1>2, <1>3, WorkerCallbackType, SerialKept, WorkerStep
<1>4. CASE WorkerRun /\ UNCHANGED queue
  BY <1>1, <1>2, <1>4, WorkerRunType, QueueKept, WorkerStep
<1>5. CASE WorkerExit /\ UNCHANGED queue
  BY <1>1, <1>2, <1>5, WorkerExitType, QueueKept, WorkerStep
<1>6. CASE /\ \/ WorkerSent \/ ReceiveAll \/ ReceiveSome
              \/ ReceiveTimeout \/ ReceiveStop \/ ReceiveError \/ HandleFrame
           /\ UNCHANGED queue
  BY <1>1, <1>2, <1>6, ReceiveType, QueueKept, SerialKept, WorkerStep
<1>7. QED
  BY <1>3, <1>4, <1>5, <1>6 DEF expansion_worker

\* The interrupt of the interface and the session's thread.
LEMMA InterruptAccounts ==
    ASSUME Accounts,
           expansion_worker_serial_rx_callback
           \/ expansion_worker_rpc_send_callback
    PROVE  Accounts'
<1>1. SerialTypeOK' /\ QueueTypeOK'
  BY SerialKept, QueueKept
  DEF Accounts, TypeOK, expansion_worker_serial_rx_callback,
      expansion_worker_rpc_send_callback
<1>2. WorkerTypeOK' /\ wpc' = wpc
  <2> USE DEF Accounts, TypeOK, WorkerTypeOK, receiveVars, rpcVars
  <2>1. CASE expansion_worker_serial_rx_callback
    BY <2>1 DEF expansion_worker_serial_rx_callback
  <2>2. CASE expansion_worker_rpc_send_callback
    BY <2>2 DEF expansion_worker_rpc_send_callback
  <2>3. QED
    BY <2>1, <2>2
<1>3. UNCHANGED <<controlVars, clientVars>>
  BY DEF expansion_worker_serial_rx_callback,
         expansion_worker_rpc_send_callback
<1>4. ControlTypeOK' /\ ClientTypeOK'
  BY <1>3 DEF Accounts, TypeOK, ControlTypeOK, ClientTypeOK, controlVars,
              clientVars
<1>5. ControlState' /\ WorkerKnown'
  BY <1>2, <1>3 DEF Accounts, ControlState, WorkerKnown, HasWorker, Joining,
                    controlVars
<1>6. QED
  BY <1>1, <1>2, <1>4, <1>5 DEF Accounts, TypeOK

\* A handler that ends at once: no worker comes or goes.
LEMMA HandlerReturns ==
    ASSUME Accounts, SerialTypeOK', WorkerTypeOK', hpc = "handle", Handled,
           state' \in States, serial_id' \in Serials \cup {None},
           state' # "Disabled" => serial_id' \in Serials,
           wpc' # "none" <=> state' \in {"Running", "ConnectionEstablished"},
           is_connected' \in [Clients -> BOOLEAN],
           UNCHANGED <<queue, uart_index, req, offline, app_serial>>
    PROVE  Accounts'
<1>1. ClientTypeOK' /\ hpc' = "get" /\ msg' = None
  BY HandledType DEF Accounts, TypeOK
<1>2. QueueTypeOK' /\ ControlTypeOK'
  BY <1>1, QueueKept DEF Accounts, TypeOK, ControlTypeOK
<1>3. ControlState' /\ WorkerKnown'
  BY <1>1 DEF ControlState, WorkerKnown, HasWorker, Joining
<1>4. QED
  BY <1>1, <1>2, <1>3 DEF Accounts, TypeOK

\* expansion_worker_stop
LEMMA StopAccounts ==
    ASSUME Accounts, hpc = "handle", HasWorker, StopWorker,
           UNCHANGED <<queue, uart_index, req, offline, app_serial, rpcVars>>
    PROVE  Accounts'
<1>1. SerialTypeOK' /\ QueueTypeOK'
  BY SerialKept, QueueKept DEF Accounts, TypeOK, StopWorker
<1>2. ControlTypeOK' /\ ClientTypeOK'
  BY DEF Accounts, TypeOK, ControlTypeOK, ClientTypeOK, StopWorker
<1>3. WorkerTypeOK'
  BY DEF Accounts, TypeOK, WorkerTypeOK, StopWorker, rpcVars, receiveVars
<1>4. ControlState' /\ WorkerKnown'
  BY DEF Accounts, ControlState, WorkerKnown, HasWorker, Joining, StopWorker
<1>5. QED
  BY <1>1, <1>2, <1>3, <1>4 DEF Accounts, TypeOK

LEMMA WorkerKept ==
    WorkerTypeOK /\ UNCHANGED <<workerVars, rpcVars>> => WorkerTypeOK'
  BY DEF WorkerTypeOK, workerVars, receiveVars, rpcVars

LEMMA HandleAccounts ==
    ASSUME Accounts, Handle
    PROVE  Accounts'
<1>1. /\ hpc = "handle" /\ msg \in Messages
      /\ UNCHANGED <<queue, uart_index, req, offline, app_serial, rpcVars>>
      /\ SerialTypeOK /\ WorkerTypeOK
      /\ state \in States /\ serial_id \in Serials \cup {None}
      /\ uart_index \in Serials \cup {None}
      /\ state # "Disabled" => serial_id \in Serials
      /\ is_connected \in [Clients -> BOOLEAN]
      /\ wpc # "none" <=> state \in {"Running", "ConnectionEstablished"}
  BY DEF Handle, Accounts, TypeOK, ControlTypeOK, ControlState, WorkerKnown,
         HasWorker, ClientTypeOK
<1>2. CASE expansion_control_handler_enable
  <2>1. WorkerTypeOK' /\ wpc' = wpc
    BY <1>1, <1>2, WorkerKept
    DEF expansion_control_handler_enable, workerVars
  <2>2. SerialTypeOK'
    BY <1>1, <1>2, SerialKept, DetectOnType
    DEF expansion_control_handler_enable
  <2>3. QED
    BY <1>1, <1>2, <2>1, <2>2, HandlerReturns
    DEF expansion_control_handler_enable, States
<1>3. CASE expansion_control_handler_disable
  <2>1. CASE HasWorker /\ StopWorker
    BY <1>1, <2>1, StopAccounts
  <2>2. CASE ~HasWorker
    <3>1. /\ WorkerTypeOK' /\ wpc' = wpc /\ Handled
          /\ UNCHANGED <<serial_id, is_connected>>
      BY <1>1, <1>3, <2>2, WorkerKept
      DEF expansion_control_handler_disable, workerVars
    <3>2. SerialTypeOK' /\ state' = "Disabled"
      BY <1>1, <1>3, <2>2, SerialKept, DetectOffType
      DEF expansion_control_handler_disable
    <3>3. QED
      BY <1>1, <2>2, <3>1, <3>2, HandlerReturns DEF States, HasWorker
  <2>3. QED
    BY <1>3, <2>1, <2>2 DEF expansion_control_handler_disable, HasWorker
<1>4. CASE expansion_control_handler_set_listen_serial
  <2>1. CASE HasWorker /\ StopWorker
    BY <1>1, <2>1, StopAccounts
  <2>2. CASE ~HasWorker
    <3> USE DEF expansion_control_handler_set_listen_serial
    <3>1. /\ WorkerTypeOK' /\ wpc' = wpc /\ hpc' = "listen"
          /\ UNCHANGED <<state, serial_id, msg, phase, is_connected>>
      BY <1>1, <1>4, <2>2, WorkerKept DEF workerVars
    <3>2. SerialTypeOK'
      BY <1>1, <1>4, <2>2, SerialKept, DetectOffType
    <3>3. QueueTypeOK' /\ ControlTypeOK' /\ ClientTypeOK'
      BY <1>1, <3>1, QueueKept
      DEF Accounts, TypeOK, ControlTypeOK, ClientTypeOK
    <3>4. ControlState' /\ WorkerKnown'
      BY <1>1, <1>4, <2>2, <3>1
      DEF ControlState, WorkerKnown, HasWorker, Joining
    <3>5. QED
      BY <3>1, <3>2, <3>3, <3>4 DEF Accounts, TypeOK
  <2>3. QED
    BY <1>4, <2>1, <2>2
    DEF expansion_control_handler_set_listen_serial, HasWorker
<1>5. CASE expansion_control_handler_module_connected
  <2> USE DEF expansion_control_handler_module_connected
  <2>1. WorkerTypeOK'
    <3>1. CASE wpc' = "start"
      <4>1. UNCHANGED <<wstate, exit_reason, wflags, rx_freed, receiveVars,
                        rpcVars>>
        BY <1>1, <1>5 DEF workerVars
      <4>2. QED
        BY <1>1, <3>1, <4>1
        DEF WorkerTypeOK, Places, Reading, receiveVars, rpcVars
    <3>2. CASE UNCHANGED workerVars
      BY <1>1, <3>2, WorkerKept
    <3>3. QED
      BY <1>5, <3>1, <3>2
  <2>2. SerialTypeOK'
    BY <1>1, <1>5, SerialKept, DetectOffType
  <2>3. /\ state' \in States
        /\ wpc' # "none" <=> state' \in {"Running", "ConnectionEstablished"}
        /\ state' # "Disabled" => serial_id \in Serials
    BY <1>1, <1>5 DEF States, workerVars
  <2>4. QED
    BY <1>1, <1>5, <2>1, <2>2, <2>3, HandlerReturns
<1>6. CASE expansion_control_handler_module_disconnected
  <2> USE DEF expansion_control_handler_module_disconnected
  <2>1. WorkerTypeOK' /\ SerialTypeOK' /\ wpc' = wpc
    <3>1. UNCHANGED <<serialVars, wpc, wstate, exit_reason, wflags,
                      receiveVars, rpcVars>> /\ rx_freed' \in BOOLEAN
      BY <1>1, <1>6 DEF WorkerTypeOK, workerVars
    <3>2. WorkerTypeOK'
      BY <1>1, <3>1 DEF WorkerTypeOK, receiveVars, rpcVars
    <3>3. QED
      BY <1>1, <3>1, <3>2, SerialKept
  <2>2. CASE HasWorker
    <3>1. /\ state' = "Enabled" /\ hpc' = "free_join"
          /\ UNCHANGED <<msg, phase, serial_id, is_connected>>
      BY <1>6, <2>2
    <3>2. QueueTypeOK' /\ ControlTypeOK' /\ ClientTypeOK'
      BY <1>1, <3>1, QueueKept
      DEF Accounts, TypeOK, ControlTypeOK, ClientTypeOK, States
    <3>3. ControlState' /\ WorkerKnown'
      BY <1>1, <2>1, <2>2, <3>1
      DEF ControlState, WorkerKnown, HasWorker, Joining
    <3>4. QED
      BY <2>1, <3>2, <3>3 DEF Accounts, TypeOK
  <2>3. CASE ~HasWorker
    BY <1>1, <1>6, <2>1, <2>3, HandlerReturns
  <2>4. QED
    BY <2>2, <2>3
<1>7. CASE expansion_control_handler_connection_established
  <2> USE DEF expansion_control_handler_connection_established
  <2>1. WorkerTypeOK' /\ SerialTypeOK' /\ wpc' = wpc
    BY <1>1, <1>7, SerialKept, WorkerKept DEF workerVars
  <2>2. QED
    BY <1>1, <1>7, <2>1, HandlerReturns DEF States, HasWorker
<1>8. CASE expansion_control_handler_is_connected
  <2> USE DEF expansion_control_handler_is_connected
  <2>1. WorkerTypeOK' /\ SerialTypeOK' /\ wpc' = wpc
    BY <1>1, <1>8, SerialKept, WorkerKept DEF workerVars
  <2>2. is_connected' \in [Clients -> BOOLEAN]
    BY <1>1, <1>8
  <2>3. QED
    BY <1>1, <1>8, <2>1, <2>2, HandlerReturns
<1>9. QED
  BY <1>2, <1>3, <1>4, <1>5, <1>6, <1>7, <1>8 DEF Handle

LEMMA GetAccounts ==
    ASSUME Accounts, GetMessage
    PROVE  Accounts'
<1> USE DEF GetMessage
<1>1. QueueTypeOK' /\ msg' \in Messages
  <2>1. /\ queue \in Seq(Messages) /\ queue # <<>>
        /\ Len(queue) <= QueueSize /\ Len(queue) \in Nat
    BY LenProperties DEF Accounts, TypeOK, QueueTypeOK
  <2>2. /\ Head(queue) \in Messages /\ Tail(queue) \in Seq(Messages)
        /\ Len(Tail(queue)) = Len(queue) - 1
    BY <2>1, HeadTailProperties
  <2>3. QED
    BY <2>1, <2>2, ExpansionAssumption DEF QueueTypeOK
<1>2. SerialTypeOK' /\ WorkerTypeOK'
  BY SerialKept, WorkerKept DEF Accounts, TypeOK
<1>3. ControlTypeOK' /\ ClientTypeOK'
  BY <1>1 DEF Accounts, TypeOK, ControlTypeOK, ClientTypeOK, clientVars
<1>4. ControlState' /\ WorkerKnown'
  BY <1>1 DEF Accounts, ControlState, WorkerKnown, HasWorker, Joining,
              workerVars
<1>5. QED
  BY <1>1, <1>2, <1>3, <1>4 DEF Accounts, TypeOK

LEMMA FreeWorkerType ==
    ASSUME WorkerTypeOK, FreeWorker, UNCHANGED rpcVars
    PROVE  WorkerTypeOK' /\ wpc' = "none"
  BY DEF WorkerTypeOK, FreeWorker, rpcVars, Places, Reading, Frames

LEMMA StoppedAccounts ==
    ASSUME Accounts, WorkerStopped
    PROVE  Accounts'
<1> USE DEF WorkerStopped
<1>1. SerialTypeOK' /\ QueueTypeOK' /\ WorkerTypeOK' /\ wpc' = "none"
  BY SerialKept, QueueKept, FreeWorkerType DEF Accounts, TypeOK
<1>2. HasWorker /\ msg \in Messages /\ serial_id \in Serials
  BY DEF Accounts, WorkerKnown, Joining, ControlState, HasWorker
<1>3. CASE msg.type = "Disable" /\ state' = "Disabled" /\ Handled
  <2>1. ClientTypeOK' /\ hpc' = "get" /\ msg' = None
    BY <1>3, HandledType DEF Accounts, TypeOK, ClientTypeOK
  <2>2. ControlTypeOK'
    BY <1>3, <2>1 DEF Accounts, TypeOK, ControlTypeOK, States
  <2>3. ControlState' /\ WorkerKnown'
    BY <1>1, <1>3, <2>1 DEF ControlState, WorkerKnown, HasWorker, Joining
  <2>4. QED
    BY <1>1, <2>1, <2>2, <2>3 DEF Accounts, TypeOK
<1>4. CASE /\ msg.type = "SetListenSerial" /\ hpc' = "listen"
           /\ UNCHANGED <<state, msg, phase>>
  <2>1. ControlTypeOK' /\ ClientTypeOK'
    BY <1>4 DEF Accounts, TypeOK, ControlTypeOK, ClientTypeOK
  <2>2. ControlState' /\ WorkerKnown'
    BY <1>1, <1>2, <1>4 DEF ControlState, WorkerKnown, HasWorker, Joining
  <2>3. QED
    BY <1>1, <2>1, <2>2 DEF Accounts, TypeOK
<1>5. QED
  BY <1>3, <1>4

LEMMA JoinedAccounts ==
    ASSUME Accounts, WorkerJoined
    PROVE  Accounts'
<1> USE DEF WorkerJoined
<1>1. state = "Enabled" /\ serial_id \in Serials
  BY DEF Accounts, ControlState
<1>2. QueueTypeOK' /\ WorkerTypeOK' /\ wpc' = "none"
  BY QueueKept, FreeWorkerType DEF Accounts, TypeOK
<1>3. SerialTypeOK'
  BY <1>1, DetectOnType DEF Accounts, TypeOK
<1>4. ClientTypeOK' /\ hpc' = "get" /\ msg' = None
  BY HandledType DEF Accounts, TypeOK, ClientTypeOK
<1>5. ControlTypeOK'
  BY <1>4 DEF Accounts, TypeOK, ControlTypeOK
<1>6. ControlState' /\ WorkerKnown'
  BY <1>1, <1>2, <1>4 DEF ControlState, WorkerKnown, HasWorker, Joining
<1>7. QED
  BY <1>2, <1>3, <1>4, <1>5, <1>6 DEF Accounts, TypeOK

LEMMA ListenAccounts ==
    ASSUME Accounts, Listen
    PROVE  Accounts'
<1> USE DEF Listen
<1>1. msg.serial \in Serials
  BY DEF Accounts, ControlState, Messages
<1>2. QueueTypeOK' /\ WorkerTypeOK' /\ wpc' = wpc
  BY QueueKept, WorkerKept DEF Accounts, TypeOK, workerVars
<1>3. SerialTypeOK'
  BY <1>1, DetectOnType DEF Accounts, TypeOK
<1>4. ClientTypeOK' /\ hpc' = "get" /\ msg' = None
  BY HandledType DEF Accounts, TypeOK, ClientTypeOK
<1>5. ControlTypeOK'
  BY <1>1, <1>4 DEF Accounts, TypeOK, ControlTypeOK, States
<1>6. ControlState' /\ WorkerKnown'
  BY <1>1, <1>2, <1>4
  DEF Accounts, ControlState, WorkerKnown, HasWorker, Joining
<1>7. QED
  BY <1>2, <1>3, <1>4, <1>5, <1>6 DEF Accounts, TypeOK

\* A step that leaves control thread and worker alone.
LEMMA ClientStep ==
    ASSUME Accounts, SerialTypeOK', QueueTypeOK', ClientTypeOK',
           uart_index' \in Serials \cup {None},
           UNCHANGED <<state, serial_id, hpc, msg, workerVars, rpcVars>>
    PROVE  Accounts'
<1>1. WorkerTypeOK' /\ ControlTypeOK'
  BY WorkerKept DEF Accounts, TypeOK, ControlTypeOK
<1>2. ControlState' /\ WorkerKnown'
  BY DEF Accounts, ControlState, WorkerKnown, HasWorker, Joining, workerVars
<1>3. QED
  BY <1>1, <1>2 DEF Accounts, TypeOK

LEMMA CallAccounts ==
    ASSUME Accounts, NEW c \in Clients, Call(c)
    PROVE  Accounts'
<1>1. SerialTypeOK' /\ QueueTypeOK'
  BY SerialKept, QueueKept DEF Accounts, TypeOK, Call
<1>2. ASSUME NEW m \in Messages, Request(c, m),
             UNCHANGED <<is_connected, app_serial>>,
             offline' \subseteq Clients
      PROVE  ClientTypeOK'
  BY <1>2, MessageAssumption DEF Request, Accounts, TypeOK, ClientTypeOK
<1>3. /\ UNCHANGED <<state, serial_id, hpc, msg, workerVars, rpcVars,
                     is_connected, app_serial>>
      /\ offline \subseteq Clients /\ uart_index \in Serials \cup {None}
  BY DEF Call, Accounts, TypeOK, ClientTypeOK, ControlTypeOK
<1>4. CASE expansion_enable(c)
  <2>1. Message("Enable", c, None) \in Messages
    BY MessageType DEF Types, CallTypes
  <2>2. QED
    BY <1>1, <1>2, <1>3, <1>4, <2>1, ClientStep DEF expansion_enable
<1>5. CASE expansion_disable(c)
  <2>1. Message("Disable", c, None) \in Messages
    BY MessageType DEF Types, CallTypes
  <2>2. QED
    BY <1>1, <1>2, <1>3, <1>5, <2>1, ClientStep DEF expansion_disable
<1>6. CASE expansion_is_connected(c)
  <2>1. Message("IsConnected", c, None) \in Messages
    BY MessageType DEF Types, CallTypes
  <2>2. QED
    BY <1>1, <1>2, <1>3, <1>6, <2>1, ClientStep DEF expansion_is_connected
<1>7. ASSUME NEW s \in Serials, expansion_set_listen_serial(c, s)
      PROVE  Accounts'
  <2>1. Message("SetListenSerial", c, s) \in Messages
    BY MessageType DEF Types, CallTypes
  <2>2. QED
    BY <1>1, <1>2, <1>3, <1>7, <2>1, ClientStep
    DEF expansion_set_listen_serial
<1>8. QED
  BY <1>4, <1>5, <1>6, <1>7 DEF Call

LEMMA PutCallAccounts ==
    ASSUME Accounts, NEW c \in Clients, PutCall(c)
    PROVE  Accounts'
<1> USE DEF PutCall
<1>1. req[c] \in Messages
  BY DEF Accounts, TypeOK, ClientTypeOK
<1>2. SerialTypeOK' /\ QueueTypeOK'
  BY <1>1, SerialKept, PutType DEF Accounts, TypeOK
<1>3. ClientTypeOK'
  BY DEF Accounts, TypeOK, ClientTypeOK
<1>4. uart_index' \in Serials \cup {None}
  BY DEF Accounts, TypeOK, ControlTypeOK, controlVars
<1>5. QED
  BY <1>2, <1>3, <1>4, ClientStep DEF controlVars

LEMMA ReturnAccounts ==
    ASSUME Accounts, NEW c \in Clients, Return(c)
    PROVE  Accounts'
<1> USE DEF Return
<1>1. SerialTypeOK' /\ QueueTypeOK'
  BY SerialKept, QueueKept DEF Accounts, TypeOK
<1>2. ClientTypeOK'
  <2> USE DEF Accounts, TypeOK, ClientTypeOK
  <2>1. /\ phase' \in [Clients -> {"idle", "put", "wait", "done"}]
        /\ req' \in [Clients -> Messages \cup {None}]
        /\ \A d \in Clients : phase'[d] = "put" => req'[d] # None
    OBVIOUS
  <2>2. is_connected' \in [Clients -> BOOLEAN]
    OBVIOUS
  <2>3. offline' \subseteq Clients /\ app_serial' = app_serial
    OBVIOUS
  <2>4. QED
    BY <2>1, <2>2, <2>3
<1>3. uart_index' \in Serials \cup {None}
  BY DEF Accounts, TypeOK, ControlTypeOK, controlVars
<1>4. QED
  BY <1>1, <1>2, <1>3, ClientStep DEF controlVars

LEMMA AppAccounts ==
    ASSUME Accounts, NEW c \in Clients, AppAcquire(c) \/ AppRelease(c)
    PROVE  Accounts'
<1>1. SerialTypeOK' /\ ClientTypeOK'
  <2> USE DEF Accounts, TypeOK, ClientTypeOK
  <2>1. CASE AppAcquire(c)
    <3>1. PICK s \in Serials : /\ furi_hal_serial_control_acquire(s)
                               /\ app_serial' = [app_serial EXCEPT ![c] = s]
      BY <2>1 DEF AppAcquire
    <3>2. QED
      BY <2>1, <3>1, AcquireType DEF AppAcquire
  <2>2. CASE AppRelease(c)
    <3>1. app_serial[c] \in Serials
      BY <2>2 DEF AppRelease
    <3>2. QED
      BY <2>2, <3>1, ReleaseType DEF AppRelease
  <2>3. QED
    BY <2>1, <2>2
<1>2. /\ QueueTypeOK' /\ uart_index' \in Serials \cup {None}
      /\ UNCHANGED <<state, serial_id, hpc, msg, workerVars, rpcVars>>
  BY QueueKept
  DEF Accounts, TypeOK, ControlTypeOK, controlVars, AppAcquire, AppRelease
<1>3. QED
  BY <1>1, <1>2, ClientStep

\* The steps of the environment: the log moves, a module is detected.
LEMMA OutsideAccounts ==
    ASSUME Accounts, ChooseLog \/ expansion_detect_callback
    PROVE  Accounts'
<1>1. /\ ClientTypeOK' /\ uart_index' \in Serials \cup {None}
      /\ UNCHANGED <<state, serial_id, hpc, msg, workerVars, rpcVars>>
  BY DEF Accounts, TypeOK, ControlTypeOK, ClientTypeOK, controlVars,
         clientVars, ChooseLog, expansion_detect_callback
<1>2. CASE ChooseLog
  <2>1. PICK id \in LogChoices : furi_hal_serial_control_set_logging_config(id)
    BY <1>2 DEF ChooseLog
  <2>2. SerialTypeOK' /\ QueueTypeOK'
    BY <1>2, <2>1, ExpansionAssumption, LoggingType, QueueKept
    DEF Accounts, TypeOK, ChooseLog
  <2>3. QED
    BY <1>1, <2>2, ClientStep
<1>3. CASE expansion_detect_callback
  <2>1. Message("ModuleConnected", None, None) \in Messages
    BY MessageType DEF Types
  <2>2. SerialTypeOK' /\ QueueTypeOK'
    BY <1>3, <2>1, PutType, SerialKept
    DEF Accounts, TypeOK, expansion_detect_callback
  <2>3. QED
    BY <1>1, <2>2, ClientStep
<1>4. QED
  BY <1>2, <1>3

LEMMA StutterAccounts ==
    ASSUME Accounts, UNCHANGED vars
    PROVE  Accounts'
<1>1. SerialTypeOK' /\ QueueTypeOK' /\ ClientTypeOK'
  BY SerialKept, QueueKept
  DEF Accounts, TypeOK, ClientTypeOK, vars, clientVars
<1>2. /\ uart_index' \in Serials \cup {None}
      /\ UNCHANGED <<state, serial_id, hpc, msg, workerVars, rpcVars>>
  BY DEF Accounts, TypeOK, ControlTypeOK, vars, controlVars
<1>3. QED
  BY <1>1, <1>2, ClientStep

LEMMA NextAccounts == Accounts /\ [Next]_vars => Accounts'
<1> SUFFICES ASSUME Accounts, [Next]_vars PROVE Accounts'
  OBVIOUS
<1>1. CASE UNCHANGED vars
  BY <1>1, StutterAccounts
<1>2. CASE expansion_control
  BY <1>2, GetAccounts, HandleAccounts, StoppedAccounts, JoinedAccounts,
     ListenAccounts
  DEF expansion_control
<1>3. CASE expansion_worker
  BY <1>3, WorkerAccounts
<1>4. CASE \/ expansion_worker_serial_rx_callback
           \/ expansion_worker_rpc_send_callback
  BY <1>4, InterruptAccounts
<1>5. CASE ChooseLog \/ expansion_detect_callback
  BY <1>5, OutsideAccounts
<1>6. ASSUME NEW c \in Clients,
             \/ Call(c) \/ PutCall(c) \/ Return(c)
             \/ AppAcquire(c) \/ AppRelease(c)
      PROVE  Accounts'
  BY <1>6, CallAccounts, PutCallAccounts, ReturnAccounts, AppAccounts
<1>7. QED
  BY <1>1, <1>2, <1>3, <1>4, <1>5, <1>6 DEF Next

LEMMA AccountsHold == Spec => []Accounts
  BY InitAccounts, NextAccounts, PTL DEF Spec

\* The state of the expansion service is well-typed, whatever clients, module
\* and interrupts do.
THEOREM TypeCorrect == Spec => []TypeOK
<1>1. Accounts => TypeOK
  BY DEF Accounts
<1>2. QED
  BY <1>1, AccountsHold, PTL
-----------------------------------------------------------------------------
(* Who has an interface.                                                   *)

\* The worker has acquired its interface and not released it.
Acquired == wpc \in Listening

\* Whoever uses an interface is alone: what an application has acquired is in
\* use, no two have the same, and none has the worker's.
Owners ==
    /\ Acquired => serial_id \in in_use
    /\ \A c \in Clients : app_serial[c] # None =>
          /\ app_serial[c] \in in_use
          /\ Acquired => app_serial[c] # serial_id
          /\ \A d \in Clients : app_serial[d] = app_serial[c] => c = d

LEMMA InitOwners == Init => Owners
  BY DEF Init, NoWorker, Owners, Acquired, Listening, Reading

\* A step that takes no interface and no worker into or out of use.
LEMMA OwnersKept ==
    ASSUME Owners, UNCHANGED <<in_use, app_serial>>,
           Acquired' => Acquired /\ serial_id' = serial_id
    PROVE  Owners'
  BY DEF Owners

\* The worker's steps between acquiring and releasing.
LEMMA ReceiveAcquired ==
    ASSUME \/ WorkerSent \/ ReceiveAll \/ ReceiveSome
           \/ ReceiveTimeout \/ ReceiveStop \/ ReceiveError \/ HandleFrame
    PROVE  Acquired
  BY DEF Acquired, Listening, Reading, WorkerSent, ReceiveAll, ReceiveSome,
         ReceiveTimeout, ReceiveStop, ReceiveError, GiveUp, HandleFrame

LEMMA WorkerOwners ==
    ASSUME Accounts, Owners, expansion_worker
    PROVE  Owners'
<1>1. UNCHANGED <<serial_id, app_serial>>
  BY DEF expansion_worker, controlVars, clientVars
<1>2. CASE expansion_worker_callback
  <2>1. in_use' = in_use /\ (Acquired' => Acquired)
    BY <1>2 DEF expansion_worker_callback, serialVars, Acquired, Listening,
                Reading
  <2>2. QED
    BY <1>1, <2>1, OwnersKept
<1>3. CASE WorkerRun
  BY <1>1, <1>3 DEF WorkerRun, furi_hal_serial_control_acquire, Owners
<1>4. CASE WorkerExit
  <2>1. Acquired /\ ~Acquired'
    BY <1>4 DEF WorkerExit, Acquired, Listening, Reading
  <2>2. QED
    BY <1>1, <1>4, <2>1
    DEF WorkerExit, furi_hal_serial_control_release, Owners
<1>5. CASE \/ WorkerSent \/ ReceiveAll \/ ReceiveSome
           \/ ReceiveTimeout \/ ReceiveStop \/ ReceiveError \/ HandleFrame
  <2>1. in_use' = in_use
    BY <1>5, ReceiveType DEF serialVars, Accounts, TypeOK
  <2>2. QED
    BY <1>1, <1>5, <2>1, ReceiveAcquired, OwnersKept
<1>6. QED
  BY <1>2, <1>3, <1>4, <1>5 DEF expansion_worker

\* The control thread changes its interface only without a worker.
LEMMA ControlOwners ==
    ASSUME Accounts, Owners, expansion_control
    PROVE  Owners'
<1>1. in_use' = in_use
  BY DEF expansion_control, GetMessage, Handle, WorkerStopped, WorkerJoined,
         Listen, serialVars, DetectOn, DetectOff, StopWorker,
         expansion_control_handler_enable, expansion_control_handler_disable,
         expansion_control_handler_set_listen_serial,
         expansion_control_handler_module_connected,
         expansion_control_handler_module_disconnected,
         expansion_control_handler_connection_established,
         expansion_control_handler_is_connected
<1>2. app_serial' = app_serial
  BY DEF expansion_control, GetMessage, Handle, WorkerStopped, WorkerJoined,
         Listen, clientVars
<1>3. CASE GetMessage
  BY <1>1, <1>2, <1>3, OwnersKept DEF GetMessage, Acquired, workerVars
<1>4. CASE WorkerStopped \/ WorkerJoined
  BY <1>1, <1>2, <1>4, OwnersKept
  DEF WorkerStopped, WorkerJoined, FreeWorker, Acquired, Listening, Reading
<1>5. CASE Listen
  <2>1. wpc = "none" /\ wpc' = wpc
    BY <1>5 DEF Listen, Accounts, WorkerKnown, Joining, workerVars
  <2>2. QED
    BY <1>1, <1>2, <2>1, OwnersKept DEF Acquired, Listening, Reading
<1>6. CASE Handle
  <2>1. Acquired' => Acquired
    BY <1>6
    DEF Handle, Acquired, Listening, Reading, workerVars, StopWorker,
        expansion_control_handler_enable, expansion_control_handler_disable,
        expansion_control_handler_set_listen_serial,
        expansion_control_handler_module_connected,
        expansion_control_handler_module_disconnected,
        expansion_control_handler_connection_established,
        expansion_control_handler_is_connected
  <2>2. CASE expansion_control_handler_enable /\ state = "Disabled"
    <3>1. wpc = "none" /\ wpc' = wpc
      BY <1>6, <2>2
      DEF Handle, expansion_control_handler_enable, Accounts, WorkerKnown,
          HasWorker, workerVars
    <3>2. QED
      BY <1>1, <1>2, <3>1, OwnersKept DEF Acquired, Listening, Reading
  <2>3. CASE ~(expansion_control_handler_enable /\ state = "Disabled")
    <3>1. serial_id' = serial_id
      BY <1>6, <2>3
      DEF Handle, StopWorker,
          expansion_control_handler_enable, expansion_control_handler_disable,
          expansion_control_handler_set_listen_serial,
          expansion_control_handler_module_connected,
          expansion_control_handler_module_disconnected,
          expansion_control_handler_connection_established,
          expansion_control_handler_is_connected
    <3>2. QED
      BY <1>1, <1>2, <2>1, <3>1, OwnersKept
  <2>4. QED
    BY <2>2, <2>3
<1>7. QED
  BY <1>3, <1>4, <1>5, <1>6 DEF expansion_control

LEMMA AppOwners ==
    ASSUME Accounts, Owners, NEW c \in Clients, AppAcquire(c) \/ AppRelease(c)
    PROVE  Owners'
<1>1. UNCHANGED <<wpc, serial_id>> /\ (Acquired' <=> Acquired)
  BY DEF AppAcquire, AppRelease, workerVars, controlVars, Acquired
<1>2. app_serial \in [Clients -> Serials \cup {None}]
  BY DEF Accounts, TypeOK, ClientTypeOK
<1>3. CASE AppAcquire(c)
  <2>1. PICK s \in Serials : /\ s \notin in_use /\ in_use' = in_use \cup {s}
                             /\ app_serial' = [app_serial EXCEPT ![c] = s]
    BY <1>3 DEF AppAcquire, furi_hal_serial_control_acquire
  <2>2. QED
    BY <1>1, <1>2, <2>1, SerialAssumption DEF Owners
<1>4. CASE AppRelease(c)
  <2>1. /\ app_serial[c] # None /\ in_use' = in_use \ {app_serial[c]}
        /\ app_serial' = [app_serial EXCEPT ![c] = None]
    BY <1>4 DEF AppRelease, furi_hal_serial_control_release
  <2>2. QED
    BY <1>1, <1>2, <2>1 DEF Owners
<1>5. QED
  BY <1>3, <1>4

LEMMA NextOwners == Accounts /\ Owners /\ [Next]_vars => Owners'
<1> SUFFICES ASSUME Accounts, Owners, [Next]_vars PROVE Owners'
  OBVIOUS
<1>1. CASE expansion_control
  BY <1>1, ControlOwners
<1>2. CASE expansion_worker
  BY <1>2, WorkerOwners
<1>3. CASE \/ UNCHANGED vars
           \/ expansion_worker_serial_rx_callback
           \/ expansion_worker_rpc_send_callback
           \/ ChooseLog \/ expansion_detect_callback
  <2>1. UNCHANGED <<in_use, app_serial, wpc, serial_id>>
    BY <1>3
    DEF vars, expansion_worker_serial_rx_callback,
        expansion_worker_rpc_send_callback, ChooseLog,
        expansion_detect_callback, serialVars, clientVars, workerVars,
        controlVars, furi_hal_serial_control_set_logging_config
  <2>2. QED
    BY <2>1, OwnersKept DEF Acquired
<1>4. ASSUME NEW c \in Clients, Call(c) \/ PutCall(c) \/ Return(c)
      PROVE  Owners'
  <2>1. UNCHANGED <<in_use, app_serial, wpc, serial_id>>
    BY <1>4 DEF Call, PutCall, Return, serialVars, workerVars, controlVars
  <2>2. QED
    BY <2>1, OwnersKept DEF Acquired
<1>5. ASSUME NEW c \in Clients, AppAcquire(c) \/ AppRelease(c)
      PROVE  Owners'
  BY <1>5, AppOwners
<1>6. QED
  BY <1>1, <1>2, <1>3, <1>4, <1>5 DEF Next

\* There is at most one worker, the control thread knows it, and the worker
\* has its interface until it releases it: expansion_worker_alloc, _stop and
\* _free are always called on the right object.
THEOREM WorkerIsAccountedFor == Spec => []WorkerAccountedFor
<1>1. Accounts /\ Owners => WorkerAccountedFor
  BY DEF Accounts, Owners, WorkerKnown, Acquired, WorkerAccountedFor
<1>2. QED
  BY <1>1, AccountsHold, InitOwners, NextOwners, PTL DEF Spec
-----------------------------------------------------------------------------
(* Detection and the log.                                                  *)

\* The conjuncts of DetectionFollowsState about the serial control service.
Sensing ==
    /\ irq \subseteq {expansion_serial}
    /\ expansion_serial # None /\ expansion_serial \notin in_use => irq # {}

\* Requests of other users leave the detection's interface alone.
LEMMA OthersSensing ==
    ASSUME SerialTypeOK, Sensing, NEW s,
           \/ furi_hal_serial_control_acquire(s)
           \/ furi_hal_serial_control_release(s)
           \/ furi_hal_serial_control_set_logging_config(s)
    PROVE  Sensing' /\ expansion_serial' = expansion_serial
  BY SerialAssumption
  DEF SerialTypeOK, Sensing, furi_hal_serial_control_acquire,
      furi_hal_serial_control_release,
      furi_hal_serial_control_set_logging_config,
      furi_hal_serial_control_log_set_handle

LEMMA SwitchSensing ==
    ASSUME SerialTypeOK, Sensing, NEW s, DetectOn(s) \/ DetectOff(s)
    PROVE  /\ Sensing'
           /\ DetectOn(s) => expansion_serial' = s
           /\ DetectOff(s) => expansion_serial' = None
  BY SerialAssumption DEF SerialTypeOK, Sensing, DetectOn, DetectOff

LEMMA SensingKept == Sensing /\ UNCHANGED serialVars => Sensing'
  BY DEF Sensing, serialVars

\* The interface on which detection has to be on.
Watched ==
    IF state = "Enabled" /\ hpc \notin {"free_join", "listen"}
    THEN serial_id ELSE None

LEMMA HandleDetection ==
    ASSUME Accounts, Sensing, expansion_serial = Watched, Handle
    PROVE  Sensing' /\ expansion_serial' = Watched'
<1>1. hpc = "handle" /\ SerialTypeOK
  BY DEF Handle, Accounts, TypeOK
<1>2. CASE expansion_control_handler_enable
  <2> USE DEF expansion_control_handler_enable
  <2>1. hpc' = "get"
    BY <1>2 DEF Handled
  <2>2. CASE DetectOn(uart_index) /\ state' = "Enabled" /\ serial_id' = uart_index
    BY <1>1, <2>1, <2>2, SwitchSensing DEF Watched
  <2>3. CASE UNCHANGED <<serialVars, state, serial_id>>
    BY <1>1, <2>1, <2>3, SensingKept DEF Watched, serialVars
  <2>4. QED
    BY <1>2, <2>2, <2>3
<1>3. CASE expansion_control_handler_disable
  <2> USE DEF expansion_control_handler_disable
  <2>1. CASE HasWorker /\ StopWorker
    BY <1>1, <2>1, SensingKept DEF Watched, serialVars, StopWorker, HasWorker
  <2>2. CASE DetectOff(serial_id) /\ state' = "Disabled"
    BY <1>1, <2>2, SwitchSensing DEF Watched
  <2>3. CASE state = "Disabled" /\ UNCHANGED <<serialVars, state>>
    BY <1>1, <2>3, SensingKept DEF Watched, serialVars
  <2>4. QED
    BY <1>3, <2>1, <2>2, <2>3
<1>4. CASE expansion_control_handler_set_listen_serial
  <2> USE DEF expansion_control_handler_set_listen_serial
  <2>1. CASE HasWorker /\ StopWorker
    BY <1>1, <2>1, SensingKept DEF Watched, serialVars, StopWorker, HasWorker
  <2>2. CASE DetectOff(serial_id) /\ hpc' = "listen"
    BY <1>1, <2>2, SwitchSensing DEF Watched
  <2>3. CASE state = "Disabled" /\ UNCHANGED <<serialVars, state>>
    BY <1>1, <2>3, SensingKept DEF Watched, serialVars
  <2>4. QED
    BY <1>4, <2>1, <2>2, <2>3
<1>5. CASE expansion_control_handler_module_connected
  <2> USE DEF expansion_control_handler_module_connected
  <2>1. CASE DetectOff(serial_id) /\ state' = "Running"
    BY <1>1, <2>1, SwitchSensing DEF Watched
  <2>2. CASE state # "Enabled" /\ UNCHANGED <<serialVars, state>>
    BY <1>1, <2>2, SensingKept DEF Watched, serialVars
  <2>3. QED
    BY <1>5, <2>1, <2>2
<1>6. CASE \/ expansion_control_handler_module_disconnected
           \/ expansion_control_handler_connection_established
           \/ expansion_control_handler_is_connected
  <2>1. UNCHANGED serialVars /\ Watched' = Watched
    BY <1>1, <1>6
    DEF Watched, HasWorker, Handled,
        expansion_control_handler_module_disconnected,
        expansion_control_handler_connection_established,
        expansion_control_handler_is_connected
  <2>2. QED
    BY <2>1, SensingKept DEF serialVars
<1>7. QED
  BY <1>2, <1>3, <1>4, <1>5, <1>6 DEF Handle

LEMMA ControlDetection ==
    ASSUME Accounts, Sensing, expansion_serial = Watched, expansion_control
    PROVE  Sensing' /\ expansion_serial' = Watched'
<1>1. CASE GetMessage
  BY <1>1, SensingKept DEF GetMessage, Watched, serialVars
<1>2. CASE Handle
  BY <1>2, HandleDetection
<1>3. CASE WorkerStopped
  <2>1. state # "Enabled"
    BY <1>3 DEF WorkerStopped, Accounts, WorkerKnown, Joining, HasWorker
  <2>2. QED
    BY <1>3, <2>1, SensingKept DEF WorkerStopped, Watched, serialVars
<1>4. CASE WorkerJoined
  <2>1. state = "Enabled"
    BY <1>4 DEF WorkerJoined, Accounts, ControlState
  <2>2. QED
    BY <1>4, <2>1, SwitchSensing
    DEF WorkerJoined, Watched, Handled, Accounts, TypeOK
<1>5. CASE Listen
  BY <1>5, SwitchSensing DEF Listen, Watched, Handled, Accounts, TypeOK
<1>6. QED
  BY <1>1, <1>2, <1>3, <1>4, <1>5 DEF expansion_control

\* What the other threads do leaves the control thread's expectation alone.
LEMMA OtherSteps ==
    ASSUME Accounts, Next, ~expansion_control
    PROVE  /\ UNCHANGED <<state, serial_id, hpc>>
           /\ \/ UNCHANGED serialVars
              \/ \E s \in Serials \cup {None} :
                    \/ furi_hal_serial_control_acquire(s)
                    \/ furi_hal_serial_control_release(s)
                    \/ furi_hal_serial_control_set_logging_config(s)
<1>1. serial_id \in Serials \cup {None}
  BY DEF Accounts, TypeOK, ControlTypeOK
<1>2. CASE expansion_worker
  <2>1. UNCHANGED <<state, serial_id, hpc>>
    BY <1>2 DEF expansion_worker, controlVars
  <2>2. CASE WorkerRun \/ WorkerExit
    BY <1>1, <2>1, <2>2 DEF WorkerRun, WorkerExit
  <2>3. CASE expansion_worker_callback
    BY <2>1, <2>3 DEF expansion_worker_callback
  <2>4. CASE \/ WorkerSent \/ ReceiveAll \/ ReceiveSome
             \/ ReceiveTimeout \/ ReceiveStop \/ ReceiveError \/ HandleFrame
    BY <2>1, <2>4, ReceiveType DEF Accounts, TypeOK
  <2>5. QED
    BY <1>2, <2>2, <2>3, <2>4 DEF expansion_worker
<1>3. CASE \/ expansion_worker_serial_rx_callback
           \/ expansion_worker_rpc_send_callback
           \/ expansion_detect_callback
  BY <1>3 DEF expansion_worker_serial_rx_callback, controlVars,
              expansion_worker_rpc_send_callback, expansion_detect_callback
<1>4. CASE ChooseLog
  BY <1>4, ExpansionAssumption DEF ChooseLog, controlVars
<1>5. ASSUME NEW c \in Clients, Call(c) \/ PutCall(c) \/ Return(c)
      PROVE  UNCHANGED <<state, serial_id, hpc, serialVars>>
  BY <1>5 DEF Call, PutCall, Return, controlVars
<1>6. ASSUME NEW c \in Clients, AppAcquire(c) \/ AppRelease(c)
      PROVE  /\ UNCHANGED <<state, serial_id, hpc>>
             /\ \E s \in Serials \cup {None} :
                   \/ furi_hal_serial_control_acquire(s)
                   \/ furi_hal_serial_control_release(s)
  <2>1. app_serial[c] \in Serials \cup {None}
    BY DEF Accounts, TypeOK, ClientTypeOK
  <2>2. QED
    BY <1>6, <2>1 DEF AppAcquire, AppRelease, controlVars
<1>7. QED
  BY <1>2, <1>3, <1>4, <1>5, <1>6 DEF Next

\* Detection is on exactly while the service is enabled and has no worker, and
\* on the right interface, whatever applications, log and worker do with the
\* interfaces: no furi_check of the serial control service fails.
THEOREM DetectionStaysPaired == Spec => []DetectionFollowsState
<1> DEFINE Paired == Sensing /\ expansion_serial = Watched
<1>1. Init => Paired
  BY DEF Init, SerialInit, Sensing, Watched
<1>2. Accounts /\ Paired /\ [Next]_vars => Paired'
  <2> SUFFICES ASSUME Accounts, Paired, [Next]_vars PROVE Paired'
    OBVIOUS
  <2>1. CASE UNCHANGED vars
    BY <2>1, SensingKept DEF vars, serialVars, controlVars, Watched
  <2>2. CASE expansion_control
    BY <2>2, ControlDetection
  <2>3. CASE Next /\ ~expansion_control
    <3>1. Watched' = Watched
      BY <2>3, OtherSteps DEF Watched
    <3>2. CASE UNCHANGED serialVars
      BY <3>1, <3>2, SensingKept DEF serialVars
    <3>3. ASSUME NEW s \in Serials \cup {None},
                 \/ furi_hal_serial_control_acquire(s)
                 \/ furi_hal_serial_control_release(s)
                 \/ furi_hal_serial_control_set_logging_config(s)
          PROVE  Paired'
      BY <3>1, <3>3, OthersSensing DEF Accounts, TypeOK
    <3>4. QED
      BY <2>3, <3>2, <3>3, OtherSteps
  <2>4. QED
    BY <2>1, <2>2, <2>3
<1>3. Paired => DetectionFollowsState
  BY DEF Sensing, Watched, DetectionFollowsState
<1>4. QED
  BY <1>1, <1>2, <1>3, AccountsHold, PTL DEF Spec

\* The log comes back to its interface as soon as nobody else uses it.
THEOREM LogStaysRouted == Spec => []LogFollowsConfig
<1>1. Init => LogFollowsConfig
  BY DEF Init, SerialInit, LogFollowsConfig
<1>2. Accounts /\ LogFollowsConfig /\ [Next]_vars => LogFollowsConfig'
  <2> SUFFICES ASSUME Accounts, LogFollowsConfig, [Next]_vars
               PROVE  LogFollowsConfig'
    OBVIOUS
  <2>1. CASE UNCHANGED serialVars
    BY <2>1 DEF serialVars, LogFollowsConfig
  <2>2. ASSUME NEW s, DetectOn(s) \/ DetectOff(s)
        PROVE  LogFollowsConfig'
    BY <2>2 DEF DetectOn, DetectOff, LogFollowsConfig
  <2>3. ASSUME NEW s \in Serials \cup {None},
               \/ furi_hal_serial_control_acquire(s)
               \/ furi_hal_serial_control_release(s)
               \/ furi_hal_serial_control_set_logging_config(s)
        PROVE  LogFollowsConfig'
    BY <2>3, SerialAssumption
    DEF Accounts, TypeOK, SerialTypeOK, LogFollowsConfig,
        furi_hal_serial_control_acquire, furi_hal_serial_control_release,
        furi_hal_serial_control_set_logging_config,
        furi_hal_serial_control_log_set_handle
  <2>4. CASE expansion_control
    BY <2>1, <2>2, <2>4
    DEF expansion_control, GetMessage, Handle, WorkerStopped, WorkerJoined,
        Listen, StopWorker, expansion_control_handler_enable,
        expansion_control_handler_disable,
        expansion_control_handler_set_listen_serial,
        expansion_control_handler_module_connected,
        expansion_control_handler_module_disconnected,
        expansion_control_handler_connection_established,
        expansion_control_handler_is_connected
  <2>5. CASE Next /\ ~expansion_control
    BY <2>1, <2>3, <2>5, OtherSteps
  <2>6. CASE UNCHANGED vars
    BY <2>1, <2>6 DEF vars
  <2>7. QED
    BY <2>4, <2>5, <2>6
<1>3. QED
  BY <1>1, <1>2, AccountsHold, PTL DEF Spec
-----------------------------------------------------------------------------
(* The RPC session.                                                        *)

LEMMA SessionKept ==
    ASSUME SessionInsideWorker, UNCHANGED <<rpc, rpc_tx, wstate>>,
           wpc \in Listening <=> wpc' \in Listening
    PROVE  SessionInsideWorker'
  BY DEF SessionInsideWorker

LEMMA WorkerSession ==
    ASSUME SessionInsideWorker, expansion_worker
    PROVE  SessionInsideWorker'
<1> USE DEF Listening, Reading, rpcVars
<1>1. CASE expansion_worker_callback
  BY <1>1, SessionKept DEF expansion_worker_callback
<1>2. CASE WorkerRun
  BY <1>2 DEF WorkerRun, SessionInsideWorker
<1>3. CASE WorkerSent
  BY <1>3, SessionKept DEF WorkerSent
<1>4. CASE ReceiveAll
  BY <1>4, SessionKept DEF ReceiveAll
<1>5. CASE ReceiveSome
  BY <1>5, SessionKept DEF ReceiveSome
<1>6. ASSUME NEW reason, GiveUp(reason)
      PROVE  SessionInsideWorker'
  BY <1>6, SessionKept DEF GiveUp
<1>7. CASE ReceiveTimeout \/ ReceiveStop \/ ReceiveError
  BY <1>6, <1>7 DEF ReceiveTimeout, ReceiveStop, ReceiveError
<1>8. CASE HandleFrame
  <2> USE DEF HandleFrame, HandlerBreaks, SessionInsideWorker
  <2>1. CASE expansion_worker_handle_state_handshake
    BY <1>8, <2>1 DEF expansion_worker_handle_state_handshake
  <2>2. CASE expansion_worker_handle_state_connected
    BY <1>8, <2>2 DEF expansion_worker_handle_state_connected,
                      expansion_worker_rpc_session_open
  <2>3. CASE expansion_worker_handle_state_rpc_active
    BY <1>8, <2>3 DEF expansion_worker_handle_state_rpc_active,
                      expansion_worker_rpc_session_close
  <2>4. QED
    BY <1>8, <2>1, <2>2, <2>3
<1>9. CASE WorkerExit
  BY <1>9 DEF WorkerExit, SessionInsideWorker,
              expansion_worker_rpc_session_close
<1>10. QED
  BY <1>1, <1>2, <1>3, <1>4, <1>5, <1>7, <1>8, <1>9 DEF expansion_worker

LEMMA ControlSession ==
    ASSUME Accounts, SessionInsideWorker, expansion_control
    PROVE  SessionInsideWorker'
<1> USE DEF Listening, Reading, rpcVars
<1>1. CASE GetMessage \/ Listen
  BY <1>1, SessionKept DEF GetMessage, Listen, workerVars
<1>2. CASE WorkerStopped \/ WorkerJoined
  BY <1>2 DEF WorkerStopped, WorkerJoined, FreeWorker, SessionInsideWorker
<1>3. CASE Handle
  <2>1. UNCHANGED <<wstate, rpc, rpc_tx>>
    BY <1>3
    DEF Handle, StopWorker, workerVars,
        expansion_control_handler_enable, expansion_control_handler_disable,
        expansion_control_handler_set_listen_serial,
        expansion_control_handler_module_connected,
        expansion_control_handler_module_disconnected,
        expansion_control_handler_connection_established,
        expansion_control_handler_is_connected
  <2>2. CASE expansion_control_handler_module_connected /\ state = "Enabled"
    <3>1. wpc = "none" /\ wpc' = "start"
      BY <1>3, <2>2
      DEF Handle, expansion_control_handler_module_connected, Accounts,
          WorkerKnown, HasWorker
    <3>2. QED
      BY <2>1, <3>1, SessionKept
  <2>3. CASE ~(expansion_control_handler_module_connected /\ state = "Enabled")
    <3>1. wpc' = wpc
      BY <1>3, <2>3
      DEF Handle, StopWorker, workerVars,
          expansion_control_handler_enable, expansion_control_handler_disable,
          expansion_control_handler_set_listen_serial,
          expansion_control_handler_module_connected,
          expansion_control_handler_module_disconnected,
          expansion_control_handler_connection_established,
          expansion_control_handler_is_connected
    <3>2. QED
      BY <2>1, <3>1, SessionKept
  <2>4. QED
    BY <2>2, <2>3
<1>4. QED
  BY <1>1, <1>2, <1>3 DEF expansion_control

\* No RPC session survives its worker and no data frame is sent without a
\* session, however the session's thread, the module and a stop interleave.
THEOREM SessionStaysInside == Spec => []SessionInsideWorker
<1>1. Init => SessionInsideWorker
  BY DEF Init, NoWorker, SessionInsideWorker, Listening, Reading
<1>2. Accounts /\ SessionInsideWorker /\ [Next]_vars => SessionInsideWorker'
  <2> SUFFICES ASSUME Accounts, SessionInsideWorker, [Next]_vars
               PROVE  SessionInsideWorker'
    OBVIOUS
  <2>1. CASE expansion_control
    BY <2>1, ControlSession
  <2>2. CASE expansion_worker
    BY <2>2, WorkerSession
  <2>3. CASE expansion_worker_rpc_send_callback
    BY <2>3 DEF expansion_worker_rpc_send_callback, SessionInsideWorker
  <2>4. CASE \/ UNCHANGED vars
             \/ expansion_worker_serial_rx_callback
             \/ expansion_detect_callback \/ ChooseLog
    BY <2>4, SessionKept
    DEF vars, workerVars, rpcVars, expansion_worker_serial_rx_callback,
        expansion_detect_callback, ChooseLog
  <2>5. ASSUME NEW c \in Clients,
               \/ Call(c) \/ PutCall(c) \/ Return(c)
               \/ AppAcquire(c) \/ AppRelease(c)
        PROVE  SessionInsideWorker'
    BY <2>5, SessionKept
    DEF Call, PutCall, Return, AppAcquire, AppRelease, workerVars, rpcVars
  <2>6. QED
    BY <2>1, <2>2, <2>3, <2>4, <2>5 DEF Next
<1>3. QED
  BY <1>1, <1>2, AccountsHold, PTL DEF Spec
-----------------------------------------------------------------------------
(* Every call is answered once.                                            *)

\* The places in a queue of the messages that carry a client's lock.
Carried(q, c) == {i \in 1 .. Len(q) : q[i].from = c}

LEMMA CarriedAppend ==
    ASSUME NEW q \in Seq(Messages), NEW m \in Messages, NEW c
    PROVE  Carried(Append(q, m), c) =
               Carried(q, c) \cup {i \in {Len(q) + 1} : m.from = c}
<1>1. /\ Len(q) \in Nat /\ Len(Append(q, m)) = Len(q) + 1
      /\ \A i \in 1 .. Len(q) : Append(q, m)[i] = q[i]
      /\ Append(q, m)[Len(q) + 1] = m
  BY AppendProperties, LenProperties
<1>2. QED
  BY <1>1 DEF Carried

LEMMA CarriedTail ==
    ASSUME NEW q \in Seq(Messages), q # <<>>, NEW c
    PROVE  /\ Carried(Tail(q), c) = {i \in 1 .. Len(q) - 1 :
                                        i + 1 \in Carried(q, c)}
           /\ 1 \in Carried(q, c) <=> Head(q).from = c
<1>1. /\ Len(q) \in Nat \ {0} /\ Len(Tail(q)) = Len(q) - 1
      /\ \A i \in 1 .. Len(q) - 1 : Tail(q)[i] = q[i + 1]
      /\ Head(q) = q[1]
  BY HeadTailProperties, LenProperties, EmptySeq
<1>2. QED
  BY <1>1 DEF Carried

\* One client's part of the invariant.
Answered(c) ==
    /\ phase[c] = "put" => req[c].from = c
    /\ phase[c] = "wait" =>
          \/ msg # None /\ msg.from = c /\ Carried(queue, c) = {}
          \/ /\ msg = None \/ msg.from # c
             /\ \E i \in Carried(queue, c) : Carried(queue, c) = {i}
    /\ phase[c] # "wait" =>
          Carried(queue, c) = {} /\ (msg = None \/ msg.from # c)

Answers == (hpc = "get" => msg = None) /\ \A c \in Clients : Answered(c)

\* A message without a lock is put into the queue.
LEMMA PutAnswered ==
    ASSUME Accounts, NEW c \in Clients, Answered(c),
           NEW m \in Messages, m.from # c, PutMessage(m),
           UNCHANGED <<msg, phase, req>>
    PROVE  Answered(c)'
<1>1. queue \in Seq(Messages) /\ queue' = Append(queue, m)
  BY DEF PutMessage, Accounts, TypeOK, QueueTypeOK
<1>2. Carried(queue', c) =
          Carried(queue, c) \cup {i \in {Len(queue) + 1} : m.from = c}
  BY <1>1, CarriedAppend
<1>3. Carried(queue', c) = Carried(queue, c)
  BY <1>2
<1>4. QED
  BY <1>3 DEF Answered

LEMMA HandledAnswered ==
    ASSUME Accounts, Answers, hpc # "get", Handled, UNCHANGED <<queue, req>>
    PROVE  Answers'
<1>1. msg \in Messages /\ msg # None /\ hpc' = "get" /\ msg' = None
  BY MessageAssumption DEF Accounts, ControlState, Handled
<1>2. ASSUME NEW c \in Clients
      PROVE  Answered(c)'
  <2>1. Answered(c)
    BY DEF Answers
  <2>2. CASE msg.from = c
    <3>1. phase[c] = "wait" /\ Carried(queue, c) = {} /\ phase'[c] = "done"
      BY <1>1, <2>1, <2>2
      DEF Answered, Handled, Accounts, TypeOK, ClientTypeOK
    <3>2. QED
      BY <1>1, <3>1 DEF Answered
  <2>3. CASE msg.from # c
    <3>1. phase'[c] = phase[c]
      BY <2>3 DEF Handled, Accounts, TypeOK, ClientTypeOK
    <3>2. QED
      BY <1>1, <2>1, <2>3, <3>1 DEF Answered
  <2>4. QED
    BY <2>2, <2>3
<1>3. QED
  BY <1>1, <1>2 DEF Answers

LEMMA GetAnswered ==
    ASSUME Accounts, Answers, GetMessage
    PROVE  Answers'
<1>1. /\ queue \in Seq(Messages) /\ queue # <<>> /\ Len(queue) \in Nat
      /\ msg = None /\ hpc' # "get"
      /\ msg' = Head(queue) /\ queue' = Tail(queue)
      /\ UNCHANGED <<phase, req>>
  BY LenProperties
  DEF Accounts, TypeOK, QueueTypeOK, GetMessage, Answers, clientVars
<1>2. msg' \in Messages /\ msg' # None
  BY <1>1, HeadTailProperties, MessageAssumption
<1>3. ASSUME NEW c \in Clients
      PROVE  Answered(c)'
  <2>1. Answered(c)
    BY DEF Answers
  <2>2. /\ Carried(queue', c) = {i \in 1 .. Len(queue) - 1 :
                                     i + 1 \in Carried(queue, c)}
        /\ 1 \in Carried(queue, c) <=> msg'.from = c
        /\ Carried(queue, c) \subseteq 1 .. Len(queue)
    BY <1>1, CarriedTail DEF Carried
  <2>3. CASE phase[c] # "wait"
    BY <1>1, <2>1, <2>2, <2>3 DEF Answered
  <2>4. CASE phase[c] = "wait"
    <3>1. PICK i \in 1 .. Len(queue) : Carried(queue, c) = {i}
      BY <1>1, <2>1, <2>2, <2>4 DEF Answered
    <3>2. CASE i = 1
      <4>1. Carried(queue', c) = {}
        BY <1>1, <2>2, <3>1, <3>2
      <4>2. QED
        BY <1>1, <1>2, <2>2, <2>4, <3>1, <3>2, <4>1 DEF Answered
    <3>3. CASE i # 1
      <4>1. Carried(queue', c) = {i - 1}
        BY <1>1, <2>2, <3>1, <3>3
      <4>2. QED
        BY <1>1, <2>2, <2>4, <3>1, <3>3, <4>1 DEF Answered
    <3>4. QED
      BY <3>2, <3>3
  <2>5. QED
    BY <2>3, <2>4
<1>4. QED
  BY <1>1, <1>3 DEF Answers

\* Steps that leave the calls alone.
LEMMA AnswersKept ==
    ASSUME Answers, UNCHANGED <<queue, msg, phase, req>>, hpc' = "get" => hpc = "get"
    PROVE  Answers'
  BY DEF Answers, Answered

\* Steps that put a message without a lock.
LEMMA PutAnswers ==
    ASSUME Accounts, Answers, NEW m \in Messages, m.from = None,
           PutMessage(m), UNCHANGED <<msg, phase, req, hpc>>
    PROVE  Answers'
<1>1. \A c \in Clients : m.from # c
  BY ExpansionAssumption
<1>2. QED
  BY <1>1, PutAnswered DEF Answers

LEMMA ControlAnswers ==
    ASSUME Accounts, Answers, expansion_control
    PROVE  Answers'
<1>1. CASE GetMessage
  BY <1>1, GetAnswered
<1>2. CASE WorkerStopped \/ WorkerJoined \/ Listen
  <2>1. UNCHANGED <<queue, req>> /\ hpc # "get"
    BY <1>2 DEF WorkerStopped, WorkerJoined, Listen
  <2>2. Handled \/ (hpc' = "listen" /\ UNCHANGED <<msg, phase>>)
    BY <1>2 DEF WorkerStopped, WorkerJoined, Listen
  <2>3. QED
    BY <2>1, <2>2, HandledAnswered, AnswersKept
<1>3. CASE Handle
  <2>1. UNCHANGED <<queue, req>> /\ hpc # "get"
    BY <1>3 DEF Handle
  <2>2. Handled \/ (hpc' # "get" /\ UNCHANGED <<msg, phase>>)
    BY <1>3
    DEF Handle, StopWorker,
        expansion_control_handler_enable, expansion_control_handler_disable,
        expansion_control_handler_set_listen_serial,
        expansion_control_handler_module_connected,
        expansion_control_handler_module_disconnected,
        expansion_control_handler_connection_established,
        expansion_control_handler_is_connected
  <2>3. QED
    BY <2>1, <2>2, HandledAnswered, AnswersKept
<1>4. QED
  BY <1>1, <1>2, <1>3 DEF expansion_control

LEMMA WorkerAnswers ==
    ASSUME Accounts, Answers, expansion_worker
    PROVE  Answers'
<1>1. UNCHANGED <<msg, phase, req, hpc>>
  BY DEF expansion_worker, controlVars, clientVars
<1>2. CASE UNCHANGED queue
  BY <1>1, <1>2, AnswersKept
<1>3. CASE expansion_worker_callback
  <2>1. \A t \in {"ConnectionEstablished", "ModuleDisconnected"} :
           Message(t, None, None) \in Messages
           /\ Message(t, None, None).from = None
    BY DEF Message, Messages, Types
  <2>2. PICK t \in {"ConnectionEstablished", "ModuleDisconnected"} :
            PutMessage(Message(t, None, None))
    BY <1>3 DEF expansion_worker_callback
  <2>3. QED
    BY <1>1, <2>1, <2>2, PutAnswers
<1>4. QED
  BY <1>2, <1>3 DEF expansion_worker

LEMMA CallAnswers ==
    ASSUME Accounts, Answers, NEW c \in Clients, Call(c)
    PROVE  Answers'
<1>1. UNCHANGED <<queue, msg, hpc>>
  BY DEF Call
<1>2. PICK m : Request(c, m) /\ m.from = c
  <2>1. \A t, s : Message(t, c, s).from = c
    BY DEF Message
  <2>2. QED
    BY <2>1, Zenon
    DEF Call, expansion_enable, expansion_disable, expansion_is_connected,
        expansion_set_listen_serial
<1>3. ASSUME NEW d \in Clients
      PROVE  Answered(d)'
  <2>1. Answered(d)
    BY DEF Answers
  <2>2. CASE d = c
    <3>1. /\ phase[c] = "idle" /\ phase'[c] = "put" /\ req'[c] = m
      BY <1>2 DEF Request, Accounts, TypeOK, ClientTypeOK
    <3>2. QED
      BY <1>1, <1>2, <2>1, <2>2, <3>1 DEF Answered
  <2>3. CASE d # c
    <3>1. phase'[d] = phase[d] /\ req'[d] = req[d]
      BY <1>2, <2>3 DEF Request, Accounts, TypeOK, ClientTypeOK
    <3>2. QED
      BY <1>1, <2>1, <3>1 DEF Answered
  <2>4. QED
    BY <2>2, <2>3
<1>4. QED
  BY <1>1, <1>3 DEF Answers

LEMMA PutCallAnswers ==
    ASSUME Accounts, Answers, NEW c \in Clients, PutCall(c)
    PROVE  Answers'
<1>1. /\ queue \in Seq(Messages) /\ queue' = Append(queue, req[c])
      /\ UNCHANGED <<msg, req, hpc>> /\ PutMessage(req[c])
  BY DEF PutCall, PutMessage, controlVars, Accounts, TypeOK, QueueTypeOK
<1>2. req[c] \in Messages /\ phase[c] = "put" /\ phase'[c] = "wait"
  BY DEF PutCall, Accounts, TypeOK, ClientTypeOK
<1>3. req[c].from = c
  BY <1>2 DEF Answers, Answered
<1>4. ASSUME NEW d \in Clients
      PROVE  Answered(d)'
  <2>1. Answered(d)
    BY DEF Answers
  <2>2. Carried(queue', d) = Carried(queue, d)
            \cup {i \in {Len(queue) + 1} : req[c].from = d}
    BY <1>1, <1>2, CarriedAppend
  <2>3. CASE d = c
    <3>1. Carried(queue', c) = {Len(queue) + 1}
      BY <1>2, <1>3, <2>1, <2>2, <2>3 DEF Answered
    <3>2. QED
      BY <1>1, <1>2, <2>1, <2>3, <3>1 DEF Answered
  <2>4. CASE d # c
    <3>1. Carried(queue', d) = Carried(queue, d)
      BY <1>3, <2>2, <2>4
    <3>2. phase'[d] = phase[d]
      BY <2>4 DEF PutCall, Accounts, TypeOK, ClientTypeOK
    <3>3. QED
      BY <1>1, <2>1, <3>1, <3>2 DEF Answered
  <2>5. QED
    BY <2>3, <2>4
<1>5. QED
  BY <1>1, <1>4 DEF Answers

LEMMA ReturnAnswers ==
    ASSUME Accounts, Answers, NEW c \in Clients, Return(c)
    PROVE  Answers'
<1>1. UNCHANGED <<queue, msg, hpc>>
  BY DEF Return, controlVars
<1>2. ASSUME NEW d \in Clients
      PROVE  Answered(d)'
  <2>1. Answered(d)
    BY DEF Answers
  <2>2. CASE d = c
    <3>1. phase[c] = "done" /\ phase'[c] = "idle"
      BY DEF Return, Accounts, TypeOK, ClientTypeOK
    <3>2. QED
      BY <1>1, <2>1, <2>2, <3>1 DEF Answered
  <2>3. CASE d # c
    <3>1. phase'[d] = phase[d] /\ req'[d] = req[d]
      BY <2>3 DEF Return, Accounts, TypeOK, ClientTypeOK
    <3>2. QED
      BY <1>1, <2>1, <3>1 DEF Answered
  <2>4. QED
    BY <2>2, <2>3
<1>3. QED
  BY <1>1, <1>2 DEF Answers

LEMMA NextAnswers == Accounts /\ Answers /\ [Next]_vars => Answers'
<1> SUFFICES ASSUME Accounts, Answers, [Next]_vars PROVE Answers'
  OBVIOUS
<1>1. CASE expansion_control
  BY <1>1, ControlAnswers
<1>2. CASE expansion_worker
  BY <1>2, WorkerAnswers
<1>3. CASE expansion_detect_callback
  <2>1. /\ Message("ModuleConnected", None, None) \in Messages
        /\ Message("ModuleConnected", None, None).from = None
    BY DEF Message, Messages, Types
  <2>2. QED
    BY <1>3, <2>1, PutAnswers
    DEF expansion_detect_callback, controlVars, clientVars
<1>4. CASE \/ UNCHANGED vars
           \/ expansion_worker_serial_rx_callback
           \/ expansion_worker_rpc_send_callback \/ ChooseLog
  BY <1>4, AnswersKept
  DEF vars, controlVars, clientVars, expansion_worker_serial_rx_callback,
      expansion_worker_rpc_send_callback, ChooseLog
<1>5. ASSUME NEW c \in Clients, AppAcquire(c) \/ AppRelease(c)
      PROVE  Answers'
  BY <1>5, AnswersKept DEF AppAcquire, AppRelease, controlVars
<1>6. ASSUME NEW c \in Clients, Call(c) \/ PutCall(c) \/ Return(c)
      PROVE  Answers'
  BY <1>6, CallAnswers, PutCallAnswers, ReturnAnswers
<1>7. QED
  BY <1>1, <1>2, <1>3, <1>4, <1>5, <1>6 DEF Next

\* Every call of the API is answered exactly once, for any number of clients
\* and whatever the worker and the interrupt put into the queue between.
THEOREM CallsAreAnsweredOnce == Spec => []CallsAnsweredOnce
<1>1. Init => Answers
  <2> SUFFICES ASSUME Init PROVE Answers
    OBVIOUS
  <2>1. queue = <<>> /\ msg = None /\ \A c \in Clients : phase[c] = "idle"
    BY DEF Init
  <2>2. Len(queue) = 0
    BY <2>1
  <2>3. \A c \in Clients : Carried(queue, c) = {}
    BY <2>2 DEF Carried
  <2>4. QED
    BY <2>1, <2>3 DEF Answers, Answered
<1>2. Answers => CallsAnsweredOnce
  BY DEF Answers, Answered, Carried, CallsAnsweredOnce
<1>3. QED
  BY <1>1, <1>2, NextAnswers, AccountsHold, PTL DEF Spec
=============================================================================
