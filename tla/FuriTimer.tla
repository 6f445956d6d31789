------------------------------ MODULE FuriTimer -----------------------------
(***************************************************************************)
(* Kernel timers (furi/core/timer.c): periodic timers run by the FreeRTOS  *)
(* timer task.  Calls put a command into the queue of the task; the task   *)
(* runs one expired timer, then executes all commands that have come.      *)
(*                                                                         *)
(* Time is left out: a timer that runs may expire whenever the task looks. *)
(***************************************************************************)
EXTENDS Naturals, Sequences

CONSTANTS
    FuriTimers,         \* the timers
    TimerQueueLength    \* configTIMER_QUEUE_LENGTH

ASSUME FuriTimerAssumption == TimerQueueLength \in Nat \ {0}

VARIABLES
    running,    \* timers for which xTimerIsTimerActive returns true
    commands,   \* queue of the timer task
    daemon      \* the task is about to look for an expired timer ("top"), in
                \* a timer's callback ("callback"), or executes "commands"

furiTimerVars == <<running, commands, daemon>>

Commands == {"Start", "Stop"} \X FuriTimers

FuriTimerTypeOK ==
    /\ running \subseteq FuriTimers
    /\ commands \in Seq(Commands) /\ Len(commands) <= TimerQueueLength
    /\ daemon \in {"top", "callback", "commands"}

\* furi_timer_alloc leaves a timer that does not run.
FuriTimerInit == running = {} /\ commands = <<>> /\ daemon = "top"

\* Mutant: the timer is stopped at once, behind the task's back.
StopNow(t) ==
    /\ running' = running \ {t}
    /\ UNCHANGED <<commands, daemon>>

\* The caller waits for room in the queue.
SendCommand(command) ==
    /\ Len(commands) < TimerQueueLength
    /\ commands' = Append(commands, command)
    /\ UNCHANGED <<running, daemon>>

furi_timer_start(t) == SendCommand(<<"Start", t>>)

furi_timer_stop(t) == SendCommand(<<"Stop", t>>)

furi_timer_is_running(t) == t \in running

\* The timer task runs the callback of an expired timer, which is reloaded.
TimerExpires(t) ==
    /\ daemon = "top" /\ t \in running
    /\ daemon' = "callback"
    /\ UNCHANGED <<running, commands>>

TimerCallbackReturns ==
    /\ daemon = "callback"
    /\ daemon' = "commands"
    /\ UNCHANGED <<running, commands>>

\* No timer has expired: the task waits for a command.
CommandArrives ==
    /\ daemon = "top" /\ commands # <<>>
    /\ daemon' = "commands"
    /\ UNCHANGED <<running, commands>>

ExecuteCommand ==
    /\ daemon = "commands"
    /\ \/ /\ commands = <<>>
          /\ daemon' = "top"
          /\ UNCHANGED <<running, commands>>
       \/ /\ commands # <<>>
          /\ running' = IF Head(commands)[1] = "Start"
                        THEN running \cup {Head(commands)[2]}
                        ELSE running \ {Head(commands)[2]}
          /\ commands' = Tail(commands)
          /\ UNCHANGED daemon
=============================================================================
