------------------------------- MODULE Storage ------------------------------
(***************************************************************************)
(* The storage service (services/storage): clients put a message into its  *)
(* queue and wait for the answer; its thread executes one message at a     *)
(* time and, when there is none for a second, looks at the SD card.        *)
(*                                                                         *)
(* An open of a file that is open already waits for a FileClose event and  *)
(* is tried again (storage_external_api.c).  Each client has one File of   *)
(* its own, on the SD card, opens valid paths, and closes it after every   *)
(* open.  What FatFs does is left to a flag: the file is usable.  Messages *)
(* that leave the state of the service alone (read, stat, ...) are left    *)
(* out.                                                                    *)
(***************************************************************************)
EXTENDS PubSub, FiniteSets

CONSTANTS
    Clients,
    Paths,
    Nodes,          \* addresses a list node can have
    StorageSrv,     \* the publisher
    None,
    \* Bounds
    MaxOpens,       \* opens
    MaxSteps        \* commands about the card, closes of unopened files,
                    \* insertions and removals of the card

ASSUME StorageAssumption ==
    /\ Publishers = {StorageSrv} /\ Nobody # StorageSrv
    /\ Subscribers = Clients
    /\ IsFiniteSet(Clients) /\ Cardinality(Clients) <= 8  \* slots of the queue
    /\ IsFiniteSet(Nodes) /\ Cardinality(Nodes) >= Cardinality(Clients)
    /\ None \notin Clients \cup Paths \cup Nodes
    /\ {MaxOpens, MaxSteps} \subseteq Nat

VARIABLES
    \* The storage thread
    message_queue,  \* clients whose message is in the queue
    serving,        \* client whose message is executed
    event,          \* type of the event it publishes
    files,          \* storage->files
    \* The card
    present,        \* furi_hal_sd_is_present
    sd_was_present,
    status,
    sd_gui_enabled,
    \* Clients
    cpc,            \* where the client is
    command,        \* its message
    path,           \* the path it opens
    file_id,        \* of its File; the address of a list node
    error_id,       \* what the call under way returns, else "OK"
    event_flag,     \* StorageEventFlagFileClose; None when not allocated
    \* Bounds
    opens, steps

threadVars == <<message_queue, serving, event>>
cardVars == <<present, sd_was_present, status, sd_gui_enabled>>
fileVars == <<files, file_id, error_id>>
clientVars == <<cpc, command, path, event_flag>>
boundVars == <<opens, steps>>
vars == <<threadVars, cardVars, fileVars, clientVars, pubsubVars, boundVars>>

Commands == {"FileOpen", "FileClose", "SDFormat", "SDUnmount", "SDMount"}
CardEvents == {"CardMount", "CardUnmount", "CardMountError"}

ASSUME NoneAssumption ==
    None \notin BOOLEAN /\ None \notin Commands /\ None \notin CardEvents

ThreadTypeOK ==
    /\ message_queue \in Seq(Clients)
    /\ serving \in Clients \cup {None}
    /\ event \in CardEvents \cup {"FileClose", None}

CardTypeOK ==
    /\ present \in BOOLEAN /\ sd_was_present \in BOOLEAN
    /\ sd_gui_enabled \in BOOLEAN
    /\ status \in {"NotReady", "OK", "Error"}

FileTypeOK ==
    /\ files \subseteq [file : Clients, path : Paths, id : Nodes, usable : BOOLEAN]
    /\ file_id \in [Clients -> Nodes \cup {None}]
    /\ error_id \in [Clients -> {"OK", "ALREADY_OPEN", "INVALID_PARAMETER",
                                 "NOT_READY", "DENIED", "INTERNAL"}]

ClientTypeOK ==
    /\ cpc \in [Clients -> {"idle", "subscribed", "answer", "answered", "opened"}]
    /\ command \in [Clients -> Commands \cup {None}]
    /\ path \in [Clients -> Paths \cup {None}]
    /\ event_flag \in [Clients -> BOOLEAN \cup {None}]

TypeOK ==
    PubSubTypeOK /\ ThreadTypeOK /\ CardTypeOK /\ FileTypeOK /\ ClientTypeOK

\* storage_app_alloc; storage_ext_init has looked for the card once.
Init ==
    /\ PubSubInit(<<>>)
    /\ message_queue = <<>> /\ serving = None /\ event = None
    /\ files = {}
    /\ present \in BOOLEAN
    /\ sd_was_present = ~present
    /\ status \in IF present THEN {"OK", "Error"} ELSE {"NotReady"}
    /\ sd_gui_enabled = FALSE
    /\ cpc = [c \in Clients |-> "idle"]
    /\ command = [c \in Clients |-> None]
    /\ path = [c \in Clients |-> None]
    /\ file_id = [c \in Clients |-> None]
    /\ error_id = [c \in Clients |-> "OK"]
    /\ event_flag = [c \in Clients |-> None]
    /\ opens = 0 /\ steps = 0
-----------------------------------------------------------------------------
(* Clients.                                                                *)

\* storage_file_open: the event flag is allocated and subscribed, ...
storage_file_open(c, p) ==
    /\ cpc[c] = "idle" /\ opens < MaxOpens
    /\ furi_pubsub_subscribe(c)
    /\ event_flag' = [event_flag EXCEPT ![c] = FALSE]
    /\ path' = [path EXCEPT ![c] = p]
    /\ command' = [command EXCEPT ![c] = "FileOpen"]
    /\ cpc' = [cpc EXCEPT ![c] = "subscribed"]
    /\ opens' = opens + 1
    /\ UNCHANGED <<threadVars, cardVars, fileVars, steps>>

\* The call's message is put into the queue; the caller waits for the answer.
Send(c) ==
    /\ message_queue' = Append(message_queue, c)
    /\ cpc' = [cpc EXCEPT ![c] = "answer"]
    /\ UNCHANGED <<serving, event, cardVars, fileVars, pubsubVars>>

\* ... then the file is asked for.
FirstTry(c) ==
    /\ cpc[c] = "subscribed"
    /\ Send(c)
    /\ UNCHANGED <<command, path, event_flag, boundVars>>

Opened(c, already) ==
    /\ cpc[c] = "answered" /\ command[c] = "FileOpen"
    /\ (error_id[c] = "ALREADY_OPEN") = already

\* The open waits until another file is closed.
Waiting(c) == Opened(c, TRUE)

\* furi_event_flag_wait returns and clears the flag.
RetryOpen(c) ==
    /\ Waiting(c) /\ event_flag[c] = TRUE
    /\ event_flag' = [event_flag EXCEPT ![c] = FALSE]
    /\ Send(c)
    /\ UNCHANGED <<command, path, boundVars>>

\* Mutant: the flag is freed before the subscription ends.
FlagFreedFirst(c) ==
    /\ Opened(c, FALSE)
    /\ \/ /\ event_flag[c] # None
          /\ event_flag' = [event_flag EXCEPT ![c] = None]
          /\ UNCHANGED <<pubsubVars, cpc, error_id>>
       \/ /\ event_flag[c] = None
          /\ furi_pubsub_unsubscribe(c)
          /\ cpc' = [cpc EXCEPT ![c] = "opened"]
          /\ error_id' = [error_id EXCEPT ![c] = "OK"]
          /\ UNCHANGED event_flag
    /\ UNCHANGED <<threadVars, cardVars, files, file_id, command, path,
                   boundVars>>

\* ... and the flag is freed.
OpenReturns(c) ==
    /\ Opened(c, FALSE)
    /\ furi_pubsub_unsubscribe(c)
    /\ event_flag' = [event_flag EXCEPT ![c] = None]
    /\ cpc' = [cpc EXCEPT ![c] = "opened"]
    /\ error_id' = [error_id EXCEPT ![c] = "OK"]
    /\ UNCHANGED <<threadVars, cardVars, files, file_id, command, path,
                   boundVars>>

storage_file_close(c) ==
    /\ cpc[c] = "opened"
    /\ command' = [command EXCEPT ![c] = "FileClose"]
    /\ Send(c)
    /\ UNCHANGED <<path, event_flag, boundVars>>

\* The close of a File that was never opened
CloseUnopened(c) ==
    /\ cpc[c] = "idle" /\ file_id[c] = None /\ steps < MaxSteps
    /\ command' = [command EXCEPT ![c] = "FileClose"]
    /\ Send(c)
    /\ steps' = steps + 1
    /\ UNCHANGED <<path, event_flag, opens>>

\* storage_sd_unmount, storage_sd_mount, storage_sd_format
CardCommand(c) ==
    /\ cpc[c] = "idle" /\ steps < MaxSteps
    /\ \E k \in {"SDUnmount", "SDMount", "SDFormat"} :
          command' = [command EXCEPT ![c] = k]
    /\ Send(c)
    /\ steps' = steps + 1
    /\ UNCHANGED <<path, event_flag, opens>>

\* A call other than an open returns.
CallReturns(c) ==
    /\ cpc[c] = "answered" /\ command[c] # "FileOpen"
    /\ cpc' = [cpc EXCEPT ![c] = "idle"]
    /\ command' = [command EXCEPT ![c] = None]
    /\ path' = [path EXCEPT ![c] = None]
    /\ error_id' = [error_id EXCEPT ![c] = "OK"]
    /\ UNCHANGED <<threadVars, cardVars, files, file_id, event_flag, pubsubVars,
                   boundVars>>

Client(c) ==
    FirstTry(c) \/ RetryOpen(c) \/ storage_file_close(c)
    \/ CallReturns(c)
-----------------------------------------------------------------------------
(* The storage thread: messages.                                           *)

Idle == serving = None /\ event = None

\* storage_process_message takes the message of c and answers it at once.
Answer(c, error) ==
    /\ message_queue' = Tail(message_queue)
    /\ error_id' = [error_id EXCEPT ![c] = error]
    /\ cpc' = [cpc EXCEPT ![c] = "answered"]
    /\ UNCHANGED <<serving, event, pubsubVars>>

storage_path_already_open(p) == \E e \in files : e.path = p

\* storage_get_file: the list entries whose File has the id of c's File.
storage_get_file(c) == {e \in files : file_id[e.file] = file_id[c]}

Unusable == {[e EXCEPT !.usable = FALSE] : e \in files}

\* Mutant: the id is stored when the file system has opened the file.
OpenStoresIdLate(c) ==
    \/ /\ storage_path_already_open(path[c])
       /\ Answer(c, "ALREADY_OPEN")
       /\ UNCHANGED <<files, file_id>>
    \/ /\ ~storage_path_already_open(path[c])
       /\ \E n \in Nodes \ {e.id : e \in files}, ok \in BOOLEAN :
             /\ ok => status # "NotReady"
             /\ files' = files \cup
                   {[file |-> c, path |-> path[c], id |-> n, usable |-> ok]}
             /\ file_id' = IF ok THEN [file_id EXCEPT ![c] = n] ELSE file_id
             /\ Answer(c, IF ok THEN "OK" ELSE "INTERNAL")

\* The file is put into the list before the file system opens it, and stays
\* there when that fails.
\* The status is not asked: the file system itself may mount a card whose
\* mounting has failed, so only an absent card is certain to refuse.
storage_process_file_open(c) ==
    \/ /\ storage_path_already_open(path[c])
       /\ Answer(c, "ALREADY_OPEN")
       /\ UNCHANGED <<files, file_id>>
    \/ /\ ~storage_path_already_open(path[c])
       /\ \E n \in Nodes \ {e.id : e \in files}, ok \in BOOLEAN :
             /\ ok => status # "NotReady"
             /\ files' = files \cup
                   {[file |-> c, path |-> path[c], id |-> n, usable |-> ok]}
             /\ file_id' = [file_id EXCEPT ![c] = n]
             /\ Answer(c, IF ok THEN "OK" ELSE "INTERNAL")

\* Mutant: no event when the file system could not close the file.
CloseFailsSilently(c) ==
    \/ /\ ~ \E e \in storage_get_file(c) : e.usable
       /\ files' = files \ storage_get_file(c)
       /\ Answer(c, "INVALID_PARAMETER")
       /\ UNCHANGED file_id
    \/ /\ \E e \in storage_get_file(c) : e.usable /\ files' = files \ {e}
       /\ error_id' = [error_id EXCEPT ![c] = "OK"]
       /\ serving' = c /\ event' = "FileClose"
       /\ furi_pubsub_publish(StorageSrv)
       /\ message_queue' = Tail(message_queue)
       /\ UNCHANGED <<cpc, file_id>>

\* The file leaves the list whatever the file system says; the event is
\* published before the answer.
storage_process_file_close(c) ==
    \/ /\ storage_get_file(c) = {}
       /\ Answer(c, "INVALID_PARAMETER")
       /\ UNCHANGED <<files, file_id>>
    \/ /\ \E e \in storage_get_file(c) :
             /\ files' = files \ {e}
             /\ error_id' = [error_id EXCEPT ![c] =
                                IF e.usable THEN "OK" ELSE "INVALID_PARAMETER"]
       /\ serving' = c /\ event' = "FileClose"
       /\ furi_pubsub_publish(StorageSrv)
       /\ message_queue' = Tail(message_queue)
       /\ UNCHANGED <<cpc, file_id>>

FileMessage ==
    /\ Idle /\ message_queue # <<>>
    /\ LET c == Head(message_queue)
       IN  \/ command[c] = "FileOpen" /\ storage_process_file_open(c)
           \/ command[c] = "FileClose" /\ storage_process_file_close(c)
    /\ UNCHANGED <<cardVars, command, path, event_flag, boundVars>>

\* With a card, an attempt to mount it that fails or not; without one, none.
sd_mount_card ==
    /\ present
    /\ status' \in {"OK", "Error"}
    /\ files' = Unusable

sd_unmount_card == status' = "NotReady" /\ files' = Unusable

storage_process_sd_format(c) ==
    \/ /\ status = "NotReady"
       /\ Answer(c, "NOT_READY")
       /\ UNCHANGED <<status, files>>
    \/ /\ status # "NotReady"
       /\ status' \in {"OK", "Error"}
       /\ files' = Unusable
       /\ Answer(c, IF status' = "OK" THEN "OK" ELSE "INTERNAL")

\* Mutant: open files do not keep the card mounted.
UnmountUnchecked(c) ==
    \/ /\ status = "NotReady"
       /\ Answer(c, "NOT_READY")
       /\ UNCHANGED <<status, files>>
    \/ /\ status # "NotReady"
       /\ sd_unmount_card
       /\ Answer(c, "OK")

storage_process_sd_unmount(c) ==
    \/ /\ status = "NotReady"
       /\ Answer(c, "NOT_READY")
       /\ UNCHANGED <<status, files>>
    \/ /\ status # "NotReady" /\ files # {}
       /\ Answer(c, "DENIED")
       /\ UNCHANGED <<status, files>>
    \/ /\ status # "NotReady" /\ files = {}
       /\ sd_unmount_card
       /\ Answer(c, "OK")

storage_process_sd_mount(c) ==
    \/ /\ status # "NotReady"
       /\ Answer(c, "NOT_READY")
       /\ UNCHANGED <<status, files>>
    \/ /\ status = "NotReady" /\ ~present
       /\ Answer(c, "INTERNAL")
       /\ UNCHANGED <<status, files>>
    \/ /\ status = "NotReady"
       /\ sd_mount_card
       /\ Answer(c, IF status' = "OK" THEN "OK" ELSE "INTERNAL")

CardMessage ==
    /\ Idle /\ message_queue # <<>>
    /\ LET c == Head(message_queue)
       IN  \/ command[c] = "SDFormat" /\ storage_process_sd_format(c)
           \/ command[c] = "SDUnmount" /\ storage_process_sd_unmount(c)
           \/ command[c] = "SDMount" /\ storage_process_sd_mount(c)
    /\ UNCHANGED <<present, sd_was_present, sd_gui_enabled, file_id, command,
                   path, event_flag, boundVars>>
-----------------------------------------------------------------------------
(* The storage thread: the card.                                           *)

\* Mutant: a removed card is forgotten, not unmounted.
TickForgets ==
    \/ /\ sd_was_present
       /\ sd_was_present' = FALSE
       /\ sd_mount_card
       /\ UNCHANGED <<present, steps>>
    \/ /\ sd_was_present = present
       /\ sd_was_present' = TRUE
       /\ UNCHANGED <<present, status, files, steps>>
    \/ /\ ~sd_was_present /\ present
       /\ UNCHANGED <<present, sd_was_present, status, files, steps>>

\* storage_ext_tick: a card has come, perhaps to go while it is mounted, or
\* has gone.
storage_ext_tick ==
    \/ /\ sd_was_present
       /\ sd_was_present' = FALSE
       /\ sd_mount_card
       /\ UNCHANGED <<present, steps>>
    \/ /\ sd_was_present /\ present /\ steps < MaxSteps
       /\ present' = FALSE /\ steps' = steps + 1
       /\ sd_unmount_card
       /\ UNCHANGED sd_was_present
    \/ /\ ~sd_was_present /\ ~present
       /\ sd_was_present' = TRUE
       /\ sd_unmount_card
       /\ UNCHANGED <<present, steps>>
    \/ /\ sd_was_present # present
       /\ UNCHANGED <<present, sd_was_present, status, files, steps>>

\* No message came for a second; subscribers learn whether there is a card.
storage_tick ==
    /\ Idle /\ message_queue = <<>>
    /\ storage_ext_tick
    /\ \/ /\ (status' # "NotReady") # sd_gui_enabled
          /\ sd_gui_enabled' = ~sd_gui_enabled
          /\ event' = CASE status' = "NotReady" -> "CardUnmount"
                        [] status' = "OK" -> "CardMount"
                        [] OTHER -> "CardMountError"
          /\ furi_pubsub_publish(StorageSrv)
       \/ /\ (status' # "NotReady") = sd_gui_enabled
          /\ UNCHANGED <<sd_gui_enabled, event, pubsubVars>>
    /\ UNCHANGED <<message_queue, serving, file_id, error_id, clientVars,
                   opens>>

CardChanges ==
    /\ steps < MaxSteps
    /\ present' = ~present
    /\ steps' = steps + 1
    /\ UNCHANGED <<threadVars, sd_was_present, status, sd_gui_enabled,
                   fileVars, clientVars, pubsubVars, opens>>
-----------------------------------------------------------------------------
(* The storage thread: events.                                             *)

\* storage_file_close_callback of every open that is under way
PublishEvent ==
    /\ \/ PublishAcquired(StorageSrv) /\ UNCHANGED event_flag
       \/ \E c \in Clients :
             /\ Calling(StorageSrv, c)
             /\ event_flag' = IF event = "FileClose"
                              THEN [event_flag EXCEPT ![c] = TRUE]
                              ELSE event_flag
             /\ CallbackReturns
    /\ UNCHANGED <<threadVars, cardVars, fileVars, cpc, command, path,
                   boundVars>>

\* The message that caused the event is answered.
EventPublished ==
    /\ PublishReturns(StorageSrv)
    /\ serving' = None /\ event' = None
    /\ cpc' = IF serving = None THEN cpc
              ELSE [cpc EXCEPT ![serving] = "answered"]
    /\ UNCHANGED <<message_queue, cardVars, fileVars, command, path,
                   event_flag, boundVars>>

StorageThread ==
    FileMessage \/ CardMessage \/ storage_tick \/ PublishEvent \/ EventPublished
-----------------------------------------------------------------------------
Next ==
    \/ \E c \in Clients :
          \/ \E p \in Paths : storage_file_open(c, p)
          \/ Client(c) \/ OpenReturns(c) \/ CloseUnopened(c) \/ CardCommand(c)
    \/ StorageThread \/ CardChanges

Spec == Init /\ [][Next]_vars

\* All threads go on; a client that waits for the mutex of the events gets it.
Fairness ==
    /\ WF_vars(StorageThread)
    /\ \A c \in Clients : WF_vars(Client(c)) /\ SF_vars(OpenReturns(c))

FairSpec == Spec /\ Fairness
-----------------------------------------------------------------------------
(* Properties.                                                             *)

\* Between open and close, a client's file is in the list once, under its own
\* path, and its id leads to it and to no other: also after the open failed,
\* and although the addresses that are the ids are used again while Files
\* keep the ids of closed files.  No path is in the list twice.
FilesConsistent ==
    /\ \A c \in Clients :
          /\ \/ cpc[c] = "opened" \/ Opened(c, FALSE)
             \/ /\ command[c] = "FileClose" /\ file_id[c] # None
                /\ c \in ToSet(message_queue)
          => \E e \in files : /\ storage_get_file(c) = {e}
                              /\ e.file = c /\ e.path = path[c]
    /\ \A e, f \in files : e.path = f.path \/ e.id = f.id => e = f

\* An open that waits is not forgotten: the file it waits for is still open, or
\* the event is being published and has not come to it yet, or has set its flag.
\* The subscription is made before the first try, and the event is published
\* after the file has left the list.
CloseNotMissed ==
    \A c \in Clients :
        /\ Waiting(c)
        /\ event_flag[c] # TRUE
        => \/ storage_path_already_open(path[c])
           \/ /\ event = "FileClose"
              /\ \/ publishing[StorageSrv] = "acquire" /\ c \in ToSet(items)
                 \/ c \in ToSet(SubSeq(items, called + 1, Len(items)))

\* The storage thread never sets an event flag that is freed: unsubscribing
\* waits until the event is published.
FlagAllocated ==
    \A c \in Clients : Calling(StorageSrv, c) => event_flag[c] # None

\* storage_sd_mount has mounted a card before the tick has seen it.  The tick
\* then mounts it again, or does not notice its removal.
MountUnseen == sd_was_present /\ status # "NotReady"

\* An open file stays usable until it is closed, unless the card is taken out or
\* formatted: unmounting is denied, and the tick mounts no mounted card, but
\* for MountUnseen.
FilesKept ==
    [][\A e \in files :
          e.usable /\ [e EXCEPT !.usable = FALSE] \in files' =>
             \/ ~present' \/ MountUnseen
             \/ /\ message_queue # <<>>
                /\ command[Head(message_queue)] = "SDFormat"]_vars

\* storage_file_open of a file that is open returns once the others close it.
OpenEnds == \A c \in Clients : Waiting(c) ~> cpc[c] = "opened"

\* storage_sd_mount comes before the tick has seen the card: the tick will not
\* see it go.
MountBeforeTick ==
    /\ message_queue # <<>> /\ command[Head(message_queue)] = "SDMount"
    /\ sd_was_present

\* Once the card is out for good, the storage is not ready and the subscribers
\* know, but for MountBeforeTick.
RemovalNoticed ==
    <>[]~present => \/ <>[](status = "NotReady" /\ ~sd_gui_enabled)
                    \/ <>MountBeforeTick
=============================================================================
