--------------------------- MODULE SerialControl ----------------------------
(***************************************************************************)
(* The serial control service (furi_hal_serial_control.c): which serial    *)
(* interfaces are acquired, which one carries the log and on which one     *)
(* expansion modules are detected.                                         *)
(*                                                                         *)
(* Its thread has the highest priority, takes one request at a time and    *)
(* never waits for anything but requests, and every caller waits for the   *)
(* answer: a request is one step.  An interrupt request (ExpansionIrq)     *)
(* queued before a change of the callback is served before it, one queued  *)
(* during the change finds no callback.  expansion_cb is set and cleared   *)
(* together with expansion_serial and has no variable of its own.          *)
(***************************************************************************)
EXTENDS Integers

CONSTANTS
    Serials,    \* FuriHalSerialId
    None        \* NULL, and FuriHalSerialIdMax where an identifier is meant

ASSUME SerialAssumption == None \notin Serials

VARIABLES
    in_use,                 \* acquired interfaces
    log_config_serial_id,   \* interface chosen for the log
    log_serial,             \* interface the log is written to
    expansion_serial,       \* interface on which modules are detected
    irq                     \* interfaces whose Rx pin is a detection input

serialVars ==
    <<in_use, log_config_serial_id, log_serial, expansion_serial, irq>>

SerialTypeOK ==
    /\ in_use \subseteq Serials
    /\ log_config_serial_id \in Serials \cup {None}
    /\ log_serial \in Serials \cup {None}
    /\ expansion_serial \in Serials \cup {None}
    /\ irq \subseteq Serials

\* furi_hal_serial_control_init
SerialInit ==
    /\ in_use = {}
    /\ log_config_serial_id = None
    /\ log_serial = None
    /\ expansion_serial = None
    /\ irq = {}

\* Detection is switched off while the log moves and on again afterwards.
furi_hal_serial_control_log_set_handle(handle) ==
    /\ log_serial' = handle
    /\ irq' = irq \cup ({expansion_serial} \ {None})

\* The handle is returned; for an interface in use NULL is, and nothing
\* changes.
furi_hal_serial_control_acquire(s) ==
    /\ s \notin in_use
    /\ in_use' = in_use \cup {s}
    /\ \/ /\ log_config_serial_id = s
          /\ furi_hal_serial_control_log_set_handle(None)
       \/ /\ log_config_serial_id # s
          /\ irq' = IF expansion_serial = s THEN irq \ {s} ELSE irq
          /\ UNCHANGED log_serial
    /\ UNCHANGED <<log_config_serial_id, expansion_serial>>

\* Mutant: the log is not given back.
ReleaseForgetsLog(s) ==
    /\ in_use' = in_use \ {s}
    /\ irq' = IF expansion_serial = s THEN irq \cup {s} ELSE irq
    /\ UNCHANGED <<log_serial, log_config_serial_id, expansion_serial>>

furi_hal_serial_control_release(s) ==
    /\ in_use' = in_use \ {s}
    /\ \/ /\ log_config_serial_id = s
          /\ furi_hal_serial_control_log_set_handle(s)
       \/ /\ log_config_serial_id # s
          /\ irq' = IF expansion_serial = s THEN irq \cup {s} ELSE irq
          /\ UNCHANGED log_serial
    /\ UNCHANGED <<log_config_serial_id, expansion_serial>>

furi_hal_serial_control_set_logging_config(id) ==
    /\ log_config_serial_id' = id
    /\ furi_hal_serial_control_log_set_handle(
           IF id \in Serials \ in_use THEN id ELSE None)
    /\ UNCHANGED <<in_use, expansion_serial>>

\* furi_hal_serial_control_set_expansion_callback with a callback; the service
\* checks that none is set.
DetectOn(s) ==
    /\ expansion_serial = None
    /\ expansion_serial' = s
    /\ irq' = irq \cup {s}
    /\ UNCHANGED <<in_use, log_config_serial_id, log_serial>>

\* furi_hal_serial_control_set_expansion_callback with NULL; the service
\* checks that detection is on for this interface.
DetectOff(s) ==
    /\ expansion_serial = s
    /\ expansion_serial' = None
    /\ irq' = irq \ {s}
    /\ UNCHANGED <<in_use, log_config_serial_id, log_serial>>
=============================================================================
