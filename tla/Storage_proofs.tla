--------------------------- MODULE Storage_proofs ---------------------------
(***************************************************************************)
(* Proofs about Storage, for any clients, paths and list nodes and any     *)
(* bounds.                                                                 *)
(***************************************************************************)
EXTENDS Storage, SequenceLemmas

\* c is in storage_file_open.
Underway(c) == command[c] = "FileOpen" /\ cpc[c] # "opened"

\* What the place of a client says about its call.
CallState(c) ==
    /\ cpc[c] = "idle" <=> command[c] = None
    /\ cpc[c] \in {"subscribed", "opened"} => command[c] = "FileOpen"
    /\ command[c] = "FileOpen" => path[c] \in Paths
    /\ event_flag[c] # None <=> Underway(c)

\* A client waits for at most one answer, and only from the storage thread.
Dialogue ==
    /\ \A c \in Clients : CallState(c)
    /\ IsInjective(message_queue)
    /\ \A c \in ToSet(message_queue) : cpc[c] = "answer" /\ c # serving
    /\ serving # None =>
          cpc[serving] = "answer" /\ command[serving] = "FileClose"

\* The storage thread publishes an event exactly while it has one, and the
\* subscribers are the clients with an event flag, each once.
Publication ==
    /\ mutex = Nobody <=> publishing[StorageSrv] # "call"
    /\ mutex = Nobody => called = 0
    /\ event = None <=> publishing[StorageSrv] = "no"
    /\ IsInjective(items)
    /\ \A c \in Clients : c \in ToSet(items) <=> event_flag[c] # None

Inv == TypeOK /\ Dialogue /\ Publication

\* None is none of the values it stands for.
LEMMA NoneFacts ==
    /\ None \notin Clients /\ None \notin Paths /\ None \notin Nodes
    /\ None # TRUE /\ None # FALSE
    /\ None # "FileOpen" /\ None # "FileClose" /\ None # "SDFormat"
    /\ None # "SDUnmount" /\ None # "SDMount" /\ None # "CardMount"
    /\ None # "CardUnmount" /\ None # "CardMountError"
    /\ Publishers = {StorageSrv} /\ Nobody # StorageSrv
    /\ Subscribers = Clients
<1>1. None # TRUE /\ None # FALSE
  BY NoneAssumption
<1>2. /\ None # "FileOpen" /\ None # "FileClose" /\ None # "SDFormat"
      /\ None # "SDUnmount" /\ None # "SDMount" /\ None # "CardMount"
      /\ None # "CardUnmount" /\ None # "CardMountError"
  BY NoneAssumption DEF Commands, CardEvents
<1>3. QED
  BY <1>1, <1>2, StorageAssumption

\* The members of a queue of clients.
LEMMA QueueMembers ==
    ASSUME NEW s \in Seq(Clients)
    PROVE  ToSet(s) \subseteq Clients
  BY DEF ToSet

\* Publication and the type of its variables are about these variables only.
LEMMA PublicationKept ==
    ASSUME PubSubTypeOK /\ Publication, UNCHANGED <<pubsubVars, event>>,
           \A c \in Clients : event_flag'[c] # None <=> event_flag[c] # None
    PROVE  PubSubTypeOK' /\ Publication'
  BY DEF PubSubTypeOK, Publication, pubsubVars

LEMMA StorageInit == Init => Inv
<1> SUFFICES ASSUME Init PROVE Inv
  OBVIOUS
<1> USE NoneFacts
<1>1. /\ <<>> \in Seq(Clients) /\ ToSet(<<>>) = {} /\ Len(<<>>) = 0
      /\ IsInjective(<<>>)
  BY DEF ToSet, IsInjective
<1>2. TypeOK
  <2>1. PubSubTypeOK /\ ThreadTypeOK
    BY <1>1 DEF Init, PubSubInit, PubSubTypeOK, ThreadTypeOK
  <2>2. CardTypeOK
    BY DEF Init, CardTypeOK
  <2>3. FileTypeOK /\ ClientTypeOK
    BY DEF Init, FileTypeOK, ClientTypeOK
  <2>4. QED
    BY <2>1, <2>2, <2>3 DEF TypeOK
<1>3. Dialogue
  BY <1>1 DEF Init, Dialogue, CallState, Underway
<1>4. Publication
  BY <1>1 DEF Init, PubSubInit, Publication
<1>5. QED
  BY <1>2, <1>3, <1>4 DEF Inv

\* A client that has no message in the queue puts one there.
LEMMA SendKeeps ==
    ASSUME Inv, NEW c \in Clients, Send(c), cpc[c] # "answer",
           ClientTypeOK', CallState(c)', CardTypeOK', FileTypeOK',
           event_flag'[c] # None <=> event_flag[c] # None,
           \A d \in Clients \ {c} : /\ command'[d] = command[d]
                                    /\ path'[d] = path[d]
                                    /\ event_flag'[d] = event_flag[d]
    PROVE  Inv'
<1> USE NoneFacts
<1>1. message_queue \in Seq(Clients) /\ ToSet(message_queue) \subseteq Clients
  BY QueueMembers DEF Inv, TypeOK, ThreadTypeOK
<1>2. c \notin ToSet(message_queue) /\ c # serving
  BY DEF Inv, Dialogue
<1>3. /\ message_queue' \in Seq(Clients) /\ IsInjective(message_queue')
      /\ ToSet(message_queue') = ToSet(message_queue) \cup {c}
  BY <1>1, <1>2, AppendList DEF Send, Inv, Dialogue
<1>4. /\ cpc' = [cpc EXCEPT ![c] = "answer"]
      /\ UNCHANGED <<serving, event, pubsubVars>>
  BY DEF Send
<1>5. cpc'[c] = "answer" /\ \A d \in Clients \ {c} : cpc'[d] = cpc[d]
  BY <1>4 DEF Inv, TypeOK, ClientTypeOK
<1>6. PubSubTypeOK' /\ Publication'
  BY <1>4, PublicationKept DEF Inv, TypeOK
<1>7. ThreadTypeOK'
  BY <1>3, <1>4 DEF Inv, TypeOK, ThreadTypeOK
<1>8. Dialogue'
  <2>1. ASSUME NEW d \in Clients \ {c} PROVE CallState(d)'
    BY <1>5 DEF Inv, Dialogue, CallState, Underway
  <2>2. \A d \in ToSet(message_queue') : cpc'[d] = "answer" /\ d # serving'
    BY <1>1, <1>2, <1>3, <1>4, <1>5 DEF Inv, Dialogue
  <2>3. serving' # None =>
            cpc'[serving'] = "answer" /\ command'[serving'] = "FileClose"
    BY <1>2, <1>4, <1>5 DEF Inv, Dialogue, TypeOK, ThreadTypeOK
  <2>4. QED
    BY <1>3, <2>1, <2>2, <2>3 DEF Dialogue
<1>9. QED
  BY <1>6, <1>7, <1>8 DEF Inv, TypeOK

\* The storage thread answers the first message in its queue.
LEMMA AnswerKeeps ==
    ASSUME Inv, Idle, message_queue # <<>>,
           NEW error, Answer(Head(message_queue), error),
           UNCHANGED <<command, path, event_flag>>, CardTypeOK', FileTypeOK'
    PROVE  Inv'
<1> USE NoneFacts
<1> DEFINE c == Head(message_queue)
<1>1. message_queue \in Seq(Clients) /\ ToSet(message_queue) \subseteq Clients
  BY QueueMembers DEF Inv, TypeOK, ThreadTypeOK
<1>2. /\ c \in Clients /\ message_queue' \in Seq(Clients)
      /\ IsInjective(message_queue') /\ c \notin ToSet(message_queue')
      /\ ToSet(message_queue) = ToSet(message_queue') \cup {c}
  BY <1>1, PopList DEF Answer, Inv, Dialogue
<1>3. /\ cpc' = [cpc EXCEPT ![c] = "answered"]
      /\ UNCHANGED <<serving, event, pubsubVars>> /\ serving = None
  BY DEF Answer, Idle
<1>4. /\ cpc'[c] = "answered" /\ cpc[c] = "answer"
      /\ \A d \in Clients \ {c} : cpc'[d] = cpc[d]
  BY <1>2, <1>3 DEF Inv, TypeOK, ClientTypeOK, Dialogue
<1>5. PubSubTypeOK' /\ Publication'
  BY <1>3, PublicationKept DEF Inv, TypeOK
<1>6. ThreadTypeOK' /\ ClientTypeOK'
  BY <1>2, <1>3 DEF Inv, TypeOK, ThreadTypeOK, ClientTypeOK
<1>7. Dialogue'
  <2>1. ASSUME NEW d \in Clients PROVE CallState(d)'
    BY <1>4 DEF Inv, Dialogue, CallState, Underway
  <2>2. \A d \in ToSet(message_queue') : cpc'[d] = "answer" /\ d # serving'
    BY <1>1, <1>2, <1>3, <1>4 DEF Inv, Dialogue
  <2>3. QED
    BY <1>2, <1>3, <2>1, <2>2 DEF Dialogue
<1>8. QED
  BY <1>5, <1>6, <1>7 DEF Inv, TypeOK

\* A client whose place changes is neither in the queue nor served.
LEMMA DialogueKept ==
    ASSUME Inv, NEW c \in Clients, cpc[c] # "answer", CallState(c)',
           UNCHANGED <<message_queue, serving>>,
           \A d \in Clients \ {c} : /\ cpc'[d] = cpc[d]
                                    /\ command'[d] = command[d]
                                    /\ path'[d] = path[d]
                                    /\ event_flag'[d] = event_flag[d]
    PROVE  Dialogue'
<1> USE NoneFacts
<1>1. ToSet(message_queue) \subseteq Clients
  BY QueueMembers DEF Inv, TypeOK, ThreadTypeOK
<1>2. ASSUME NEW d \in Clients \ {c} PROVE CallState(d)'
  BY DEF Inv, Dialogue, CallState, Underway
<1>3. \A d \in ToSet(message_queue') : cpc'[d] = "answer" /\ d # serving'
  BY <1>1 DEF Inv, Dialogue
<1>4. serving' # None =>
          cpc'[serving'] = "answer" /\ command'[serving'] = "FileClose"
  BY DEF Inv, Dialogue, TypeOK, ThreadTypeOK
<1>5. IsInjective(message_queue')
  BY DEF Inv, Dialogue
<1>6. QED
  BY <1>2, <1>3, <1>4, <1>5 DEF Dialogue

LEMMA OpenKeeps ==
    ASSUME Inv, NEW c \in Clients, NEW p \in Paths, storage_file_open(c, p)
    PROVE  Inv'
<1> USE NoneFacts
<1> USE DEF storage_file_open
<1>1. /\ cpc[c] = "idle" /\ cpc'[c] = "subscribed"
      /\ command'[c] = "FileOpen" /\ path'[c] = p /\ event_flag'[c] = FALSE
      /\ \A d \in Clients \ {c} : /\ cpc'[d] = cpc[d]
                                   /\ command'[d] = command[d]
                                   /\ path'[d] = path[d]
                                   /\ event_flag'[d] = event_flag[d]
  BY DEF Inv, TypeOK, ClientTypeOK
<1>2. ClientTypeOK'
  BY DEF Inv, TypeOK, ClientTypeOK, Commands
<1>3. /\ items \in Seq(Clients) /\ event_flag[c] = None
      /\ c \notin ToSet(items) /\ IsInjective(items)
  BY <1>1 DEF Inv, TypeOK, PubSubTypeOK, Dialogue, CallState, Underway,
              Publication
<1>4. /\ items' \in Seq(Clients) /\ IsInjective(items')
      /\ ToSet(items') = ToSet(items) \cup {c}
      /\ mutex = Nobody /\ UNCHANGED <<mutex, called, publishing, event>>
  BY <1>3, AppendList DEF furi_pubsub_subscribe, threadVars
<1>5. PubSubTypeOK' /\ Publication'
  <2>1. called = 0 /\ Len(items') \in Nat
    BY <1>4 DEF Inv, Publication
  <2>2. PubSubTypeOK'
    BY <1>4, <2>1 DEF Inv, TypeOK, PubSubTypeOK
  <2>3. Publication'
    BY <1>1, <1>3, <1>4 DEF Inv, Publication
  <2>4. QED
    BY <2>2, <2>3
<1>6. CallState(c)'
  BY <1>1 DEF CallState, Underway
<1>7. Dialogue'
  BY <1>1, <1>6, DialogueKept DEF threadVars
<1>8. ThreadTypeOK' /\ CardTypeOK' /\ FileTypeOK'
  BY DEF Inv, TypeOK, ThreadTypeOK, CardTypeOK, FileTypeOK, threadVars,
         cardVars, fileVars
<1>9. QED
  BY <1>2, <1>5, <1>7, <1>8 DEF Inv, TypeOK

LEMMA OpenReturnsKeeps ==
    ASSUME Inv, NEW c \in Clients, OpenReturns(c)
    PROVE  Inv'
<1> USE NoneFacts
<1> USE DEF OpenReturns
<1>1. /\ cpc[c] = "answered" /\ command[c] = "FileOpen" /\ cpc'[c] = "opened"
      /\ command' = command /\ path' = path /\ event_flag'[c] = None
      /\ \A d \in Clients \ {c} : /\ cpc'[d] = cpc[d]
                                   /\ event_flag'[d] = event_flag[d]
  BY DEF Opened, Inv, TypeOK, ClientTypeOK
<1>2. ClientTypeOK' /\ FileTypeOK'
  BY DEF Inv, TypeOK, ClientTypeOK, FileTypeOK
<1>3. items \in Seq(Clients) /\ IsInjective(items)
  BY DEF Inv, TypeOK, PubSubTypeOK, Publication
<1>4. /\ items' \in Seq(Clients) /\ IsInjective(items')
      /\ c \notin ToSet(items')
      /\ ToSet(items) \ {c} \subseteq ToSet(items')
      /\ ToSet(items') \subseteq ToSet(items)
      /\ mutex = Nobody /\ UNCHANGED <<mutex, called, publishing, event>>
  BY <1>3, UnlinkList DEF furi_pubsub_unsubscribe, threadVars
<1>5. PubSubTypeOK' /\ Publication'
  <2>1. called = 0 /\ Len(items') \in Nat
    BY <1>4 DEF Inv, Publication
  <2>2. PubSubTypeOK'
    BY <1>4, <2>1 DEF Inv, TypeOK, PubSubTypeOK
  <2>3. Publication'
    BY <1>1, <1>3, <1>4 DEF Inv, Publication
  <2>4. QED
    BY <2>2, <2>3
<1>6. CallState(c)'
  BY <1>1 DEF Inv, Dialogue, CallState, Underway
<1>7. Dialogue'
  BY <1>1, <1>6, DialogueKept DEF threadVars
<1>8. ThreadTypeOK' /\ CardTypeOK'
  BY DEF Inv, TypeOK, ThreadTypeOK, CardTypeOK, threadVars, cardVars
<1>9. QED
  BY <1>2, <1>5, <1>7, <1>8 DEF Inv, TypeOK

\* The other steps of a client.
LEMMA ClientKeeps ==
    ASSUME Inv, NEW c \in Clients,
           Client(c) \/ CloseUnopened(c) \/ CardCommand(c)
    PROVE  Inv'
<1> USE NoneFacts
<1>1. CardTypeOK /\ FileTypeOK /\ ClientTypeOK /\ CallState(c)
  BY DEF Inv, TypeOK, Dialogue
<1>2. ASSUME Send(c) PROVE CardTypeOK' /\ FileTypeOK' /\ cpc'[c] = "answer"
  BY <1>1, <1>2 DEF Send, CardTypeOK, FileTypeOK, ClientTypeOK, cardVars,
                    fileVars
<1>3. CASE FirstTry(c)
  <2>1. /\ Send(c) /\ cpc[c] = "subscribed"
        /\ UNCHANGED <<command, path, event_flag>>
    BY <1>3 DEF FirstTry
  <2>2. ClientTypeOK' /\ CallState(c)'
    BY <1>1, <1>2, <2>1 DEF Send, ClientTypeOK, CallState, Underway
  <2>3. QED
    BY <1>2, <2>1, <2>2, SendKeeps
<1>4. CASE RetryOpen(c)
  <2>1. /\ Send(c) /\ cpc[c] = "answered" /\ command[c] = "FileOpen"
        /\ UNCHANGED <<command, path>> /\ event_flag[c] = TRUE
        /\ event_flag' = [event_flag EXCEPT ![c] = FALSE]
    BY <1>4 DEF RetryOpen, Waiting, Opened
  <2>2. /\ event_flag'[c] = FALSE
        /\ \A d \in Clients \ {c} : event_flag'[d] = event_flag[d]
    BY <1>1, <2>1 DEF ClientTypeOK
  <2>3. ClientTypeOK' /\ CallState(c)'
    BY <1>1, <1>2, <2>1, <2>2 DEF Send, ClientTypeOK, CallState, Underway
  <2>4. QED
    BY <1>2, <2>1, <2>2, <2>3, SendKeeps
<1>5. CASE storage_file_close(c) \/ CloseUnopened(c) \/ CardCommand(c)
  <2>1. /\ Send(c) /\ cpc[c] \in {"opened", "idle"}
        /\ UNCHANGED <<path, event_flag>>
        /\ \E k \in Commands \ {"FileOpen"} :
              command' = [command EXCEPT ![c] = k]
    BY <1>5 DEF storage_file_close, CloseUnopened, CardCommand, Commands
  <2>2. /\ command'[c] \in Commands \ {"FileOpen"}
        /\ \A d \in Clients \ {c} : command'[d] = command[d]
    BY <1>1, <2>1 DEF ClientTypeOK
  <2>3. ClientTypeOK'
    BY <1>1, <2>1 DEF Send, ClientTypeOK
  <2>4. event_flag[c] = None /\ command'[c] # None
    BY <1>1, <2>1, <2>2, NoneAssumption DEF CallState, Underway
  <2>5. CallState(c)'
    BY <1>2, <2>1, <2>2, <2>4 DEF CallState, Underway
  <2>6. QED
    BY <1>2, <2>1, <2>2, <2>3, <2>5, SendKeeps
<1>6. CASE CallReturns(c)
  <2> USE DEF CallReturns
  <2>1. /\ cpc[c] = "answered" /\ command[c] # "FileOpen"
        /\ cpc'[c] = "idle" /\ command'[c] = None /\ path'[c] = None
        /\ event_flag' = event_flag /\ UNCHANGED <<message_queue, serving, event>>
        /\ \A d \in Clients \ {c} : /\ cpc'[d] = cpc[d]
                                     /\ command'[d] = command[d]
                                     /\ path'[d] = path[d]
    BY <1>1, <1>6 DEF ClientTypeOK, threadVars
  <2>2. ClientTypeOK' /\ FileTypeOK' /\ CardTypeOK' /\ ThreadTypeOK'
    BY <1>1, <1>6 DEF ClientTypeOK, FileTypeOK, CardTypeOK, ThreadTypeOK, Inv,
                      TypeOK, threadVars, cardVars
  <2>3. CallState(c)'
    BY <1>1, <2>1 DEF CallState, Underway
  <2>4. Dialogue'
    BY <2>1, <2>3, DialogueKept
  <2>5. PubSubTypeOK' /\ Publication'
    BY <1>6, <2>1, PublicationKept DEF Inv, TypeOK
  <2>6. QED
    BY <2>2, <2>4, <2>5 DEF Inv, TypeOK
<1>7. QED
  BY <1>3, <1>4, <1>5, <1>6 DEF Client

\* An event begins to be published.
LEMMA PublishKeeps ==
    ASSUME PubSubTypeOK, Publication, event = None,
           furi_pubsub_publish(StorageSrv), event' # None,
           event_flag' = event_flag
    PROVE  PubSubTypeOK' /\ Publication'
<1> USE NoneFacts
<1>1. /\ publishing[StorageSrv] = "no" /\ publishing'[StorageSrv] = "acquire"
      /\ mutex = Nobody /\ UNCHANGED <<mutex, items, called>>
  BY DEF furi_pubsub_publish, PubSubTypeOK, Publication
<1>2. PubSubTypeOK'
  BY <1>1 DEF furi_pubsub_publish, PubSubTypeOK
<1>3. Publication'
  BY <1>1 DEF Publication
<1>4. QED
  BY <1>2, <1>3

LEMMA FileMessageKeeps ==
    ASSUME Inv, FileMessage
    PROVE  Inv'
<1> USE NoneFacts
<1> DEFINE c == Head(message_queue)
<1>1. /\ Idle /\ message_queue # <<>>
      /\ \/ command[c] = "FileOpen" /\ storage_process_file_open(c)
         \/ command[c] = "FileClose" /\ storage_process_file_close(c)
      /\ UNCHANGED <<cardVars, command, path, event_flag, boundVars>>
  BY DEF FileMessage
<1>2. /\ message_queue \in Seq(Clients) /\ IsInjective(message_queue)
      /\ ToSet(message_queue) \subseteq Clients
  BY QueueMembers DEF Inv, TypeOK, ThreadTypeOK, Dialogue
<1>3. /\ c \in Clients /\ Tail(message_queue) \in Seq(Clients)
      /\ IsInjective(Tail(message_queue)) /\ c \notin ToSet(Tail(message_queue))
      /\ ToSet(message_queue) = ToSet(Tail(message_queue)) \cup {c}
  BY <1>1, <1>2, PopList
<1>4. CardTypeOK'
  BY <1>1 DEF Inv, TypeOK, CardTypeOK, cardVars
<1>5. FileTypeOK /\ CallState(c)
  BY <1>3 DEF Inv, TypeOK, Dialogue
<1>6. CASE command[c] = "FileOpen" /\ storage_process_file_open(c)
  <2>1. \E error \in {"OK", "ALREADY_OPEN", "INTERNAL"} :
            FileTypeOK' /\ Answer(c, error)
    <3>1. CASE /\ Answer(c, "ALREADY_OPEN")
               /\ UNCHANGED <<files, file_id>>
      BY <1>3, <1>5, <3>1 DEF Answer, FileTypeOK
    <3>2. ASSUME NEW n \in Nodes, NEW ok \in BOOLEAN,
                 files' = files \cup
                     {[file |-> c, path |-> path[c], id |-> n, usable |-> ok]},
                 file_id' = [file_id EXCEPT ![c] = n],
                 Answer(c, IF ok THEN "OK" ELSE "INTERNAL")
          PROVE  \E error \in {"OK", "ALREADY_OPEN", "INTERNAL"} :
                     FileTypeOK' /\ Answer(c, error)
      <4>1. path[c] \in Paths
        BY <1>5, <1>6 DEF CallState
      <4>2. FileTypeOK'
        BY <1>3, <1>5, <3>2, <4>1 DEF Answer, FileTypeOK
      <4>3. QED
        BY <3>2, <4>2
    <3>3. QED
      BY <1>6, <3>1, <3>2 DEF storage_process_file_open
  <2>2. QED
    BY <1>1, <1>4, <2>1, AnswerKeeps
<1>7. CASE command[c] = "FileClose" /\ storage_process_file_close(c)
  <2>1. CASE Answer(c, "INVALID_PARAMETER") /\ UNCHANGED <<files, file_id>>
    <3>1. FileTypeOK'
      BY <1>3, <1>5, <2>1 DEF Answer, FileTypeOK
    <3>2. QED
      BY <1>1, <1>4, <2>1, <3>1, AnswerKeeps
  <2>2. CASE /\ \E e \in storage_get_file(c) :
                   /\ files' = files \ {e}
                   /\ error_id' = [error_id EXCEPT ![c] =
                          IF e.usable THEN "OK" ELSE "INVALID_PARAMETER"]
             /\ serving' = c /\ event' = "FileClose"
             /\ furi_pubsub_publish(StorageSrv)
             /\ message_queue' = Tail(message_queue)
             /\ UNCHANGED <<cpc, file_id>>
    <3>1. FileTypeOK'
      BY <1>3, <1>5, <2>2 DEF FileTypeOK
    <3>2. PubSubTypeOK' /\ Publication'
      BY <1>1, <2>2, PublishKeeps DEF Inv, TypeOK, Idle
    <3>3. ThreadTypeOK' /\ ClientTypeOK'
      BY <1>1, <1>3, <2>2 DEF Inv, TypeOK, ThreadTypeOK, ClientTypeOK
    <3>4. Dialogue'
      <4>1. \A d \in Clients : CallState(d)'
        BY <1>1, <2>2 DEF Inv, Dialogue, CallState, Underway
      <4>2. \A d \in ToSet(message_queue') : cpc'[d] = "answer" /\ d # serving'
        BY <1>3, <2>2 DEF Inv, Dialogue
      <4>3. serving' # None =>
                cpc'[serving'] = "answer" /\ command'[serving'] = "FileClose"
        BY <1>1, <1>3, <1>7, <2>2 DEF Inv, Dialogue
      <4>4. QED
        BY <1>3, <2>2, <4>1, <4>2, <4>3 DEF Dialogue
    <3>5. QED
      BY <1>4, <3>1, <3>2, <3>3, <3>4 DEF Inv, TypeOK
  <2>3. QED
    BY <1>7, <2>1, <2>2 DEF storage_process_file_close
<1>8. QED
  BY <1>1, <1>6, <1>7

LEMMA CardMessageKeeps ==
    ASSUME Inv, CardMessage
    PROVE  Inv'
<1> USE NoneFacts
<1> DEFINE c == Head(message_queue)
           Errors == {"OK", "NOT_READY", "DENIED", "INTERNAL"}
<1>1. /\ Idle /\ message_queue # <<>>
      /\ UNCHANGED <<present, sd_was_present, sd_gui_enabled, file_id, command,
                     path, event_flag, boundVars>>
  BY DEF CardMessage
<1>2. c \in Clients
  BY <1>1, PopList DEF Inv, TypeOK, ThreadTypeOK
<1>3. Unusable \subseteq [file : Clients, path : Paths, id : Nodes,
                          usable : BOOLEAN]
  BY DEF Unusable, Inv, TypeOK, FileTypeOK
<1>4. /\ status' \in {"NotReady", "OK", "Error"}
      /\ files' = files \/ files' = Unusable
      /\ \E error \in Errors : Answer(c, error)
  <2>1. CASE storage_process_sd_format(c)
    BY <2>1 DEF storage_process_sd_format, Inv, TypeOK, CardTypeOK
  <2>2. CASE storage_process_sd_unmount(c)
    BY <2>2 DEF storage_process_sd_unmount, sd_unmount_card, Inv, TypeOK,
                CardTypeOK
  <2>3. CASE storage_process_sd_mount(c)
    BY <2>3 DEF storage_process_sd_mount, sd_mount_card, Inv, TypeOK,
                CardTypeOK
  <2>4. QED
    BY <2>1, <2>2, <2>3 DEF CardMessage
<1>5. PICK error \in Errors : Answer(c, error)
  BY <1>4
<1>6. CardTypeOK'
  BY <1>1, <1>4 DEF Inv, TypeOK, CardTypeOK
<1>7. FileTypeOK'
  BY <1>1, <1>2, <1>3, <1>4, <1>5 DEF Answer, Inv, TypeOK, FileTypeOK
<1>8. QED
  BY <1>1, <1>5, <1>6, <1>7, AnswerKeeps

\* Dialogue is about these variables only.
LEMMA DialogueUnchanged ==
    ASSUME Inv, UNCHANGED <<message_queue, serving, cpc, command, path>>,
           \A c \in Clients : event_flag'[c] # None <=> event_flag[c] # None
    PROVE  Dialogue'
<1>1. \A c \in Clients : CallState(c)'
  BY DEF Inv, Dialogue, CallState, Underway
<1>2. QED
  BY <1>1 DEF Inv, Dialogue

LEMMA TickKeeps ==
    ASSUME Inv, storage_tick
    PROVE  Inv'
<1> USE NoneFacts
<1> USE DEF storage_tick
<1>1. /\ Idle /\ event = None
      /\ UNCHANGED <<message_queue, serving, file_id, error_id, cpc, command,
                     path, event_flag>>
  BY DEF Idle, clientVars
<1>2. Unusable \subseteq [file : Clients, path : Paths, id : Nodes,
                          usable : BOOLEAN]
  BY DEF Unusable, Inv, TypeOK, FileTypeOK
<1>3. /\ present' \in BOOLEAN /\ sd_was_present' \in BOOLEAN
      /\ status' \in {"NotReady", "OK", "Error"}
      /\ files' = files \/ files' = Unusable
  BY DEF storage_ext_tick, sd_mount_card, sd_unmount_card, Inv, TypeOK,
         CardTypeOK
<1>4. CardTypeOK' /\ FileTypeOK'
  BY <1>1, <1>2, <1>3 DEF Inv, TypeOK, CardTypeOK, FileTypeOK
<1>5. event' \in CardEvents \cup {None} /\ PubSubTypeOK' /\ Publication'
  <2>1. CASE UNCHANGED <<sd_gui_enabled, event, pubsubVars>>
    BY <1>1, <2>1, PublicationKept DEF Inv, TypeOK
  <2>2. CASE /\ event' \in CardEvents
             /\ furi_pubsub_publish(StorageSrv)
    BY <1>1, <2>2, PublishKeeps, NoneAssumption DEF Inv, TypeOK
  <2>3. QED
    BY <2>1, <2>2 DEF CardEvents
<1>6. ThreadTypeOK' /\ ClientTypeOK'
  BY <1>1, <1>5 DEF Inv, TypeOK, ThreadTypeOK, ClientTypeOK
<1>7. Dialogue'
  BY <1>1, DialogueUnchanged
<1>8. QED
  BY <1>4, <1>5, <1>6, <1>7 DEF Inv, TypeOK

LEMMA PublishEventKeeps ==
    ASSUME Inv, PublishEvent
    PROVE  Inv'
<1> USE NoneFacts
<1>1. UNCHANGED <<message_queue, serving, event, cardVars, fileVars, cpc,
                  command, path>>
  BY DEF PublishEvent, threadVars
<1>2. ThreadTypeOK' /\ CardTypeOK' /\ FileTypeOK'
  BY <1>1 DEF Inv, TypeOK, ThreadTypeOK, CardTypeOK, FileTypeOK, cardVars,
              fileVars
<1>3. CASE PublishAcquired(StorageSrv) /\ UNCHANGED event_flag
  <2>1. PubSubTypeOK'
    BY <1>3 DEF PublishAcquired, Inv, TypeOK, PubSubTypeOK
  <2>2. Publication'
    BY <1>1, <1>3 DEF PublishAcquired, Inv, TypeOK, PubSubTypeOK, Publication
  <2>3. ClientTypeOK' /\ Dialogue'
    BY <1>1, <1>3, DialogueUnchanged DEF Inv, TypeOK, ClientTypeOK
  <2>4. QED
    BY <1>2, <2>1, <2>2, <2>3 DEF Inv, TypeOK
<1>4. ASSUME NEW c \in Clients, Calling(StorageSrv, c), CallbackReturns,
             event_flag' = IF event = "FileClose"
                           THEN [event_flag EXCEPT ![c] = TRUE]
                           ELSE event_flag
      PROVE  Inv'
  <2>1. event_flag[c] # None
    BY <1>4 DEF Calling, ToSet, Inv, TypeOK, PubSubTypeOK, Publication
  <2>2. \A d \in Clients : event_flag'[d] # None <=> event_flag[d] # None
    BY <1>4, <2>1 DEF Inv, TypeOK, ClientTypeOK
  <2>3. ClientTypeOK'
    BY <1>1, <1>4 DEF Inv, TypeOK, ClientTypeOK
  <2>4. PubSubTypeOK'
    BY <1>4 DEF Calling, CallbackReturns, Inv, TypeOK, PubSubTypeOK
  <2>5. Publication'
    BY <1>1, <1>4, <2>2 DEF Calling, CallbackReturns, Inv, Publication
  <2>6. QED
    BY <1>1, <1>2, <2>2, <2>3, <2>4, <2>5, DialogueUnchanged DEF Inv, TypeOK
<1>5. QED
  BY <1>3, <1>4 DEF PublishEvent

LEMMA EventPublishedKeeps ==
    ASSUME Inv, EventPublished
    PROVE  Inv'
<1> USE NoneFacts
<1> USE DEF EventPublished
<1>1. /\ UNCHANGED <<message_queue, cardVars, fileVars, command, path,
                     event_flag>>
      /\ serving' = None /\ event' = None
  OBVIOUS
<1>2. CardTypeOK' /\ FileTypeOK' /\ ThreadTypeOK' /\ ClientTypeOK'
  BY <1>1 DEF Inv, TypeOK, CardTypeOK, FileTypeOK, ThreadTypeOK, ClientTypeOK,
              cardVars, fileVars
<1>3. PubSubTypeOK' /\ Publication'
  BY <1>1 DEF PublishReturns, Inv, TypeOK, PubSubTypeOK, Publication
<1>4. Dialogue'
  <2>1. CASE serving = None
    BY <1>1, <2>1, DialogueUnchanged
  <2>2. CASE serving # None
    <3>1. /\ serving \in Clients /\ cpc[serving] = "answer"
          /\ command[serving] = "FileClose"
      BY <2>2 DEF Inv, TypeOK, ThreadTypeOK, Dialogue
    <3>2. /\ cpc'[serving] = "answered"
          /\ \A d \in Clients \ {serving} : cpc'[d] = cpc[d]
      BY <2>2, <3>1 DEF Inv, TypeOK, ClientTypeOK
    <3>3. \A d \in Clients : CallState(d)'
      BY <1>1, <3>1, <3>2 DEF Inv, Dialogue, CallState, Underway
    <3>4. \A d \in ToSet(message_queue') : cpc'[d] = "answer" /\ d # serving'
      BY <1>1, <3>1, <3>2, QueueMembers DEF Inv, Dialogue, TypeOK, ThreadTypeOK
    <3>5. QED
      BY <1>1, <3>3, <3>4 DEF Inv, Dialogue
  <2>3. QED
    BY <2>1, <2>2
<1>5. QED
  BY <1>2, <1>3, <1>4 DEF Inv, TypeOK

LEMMA NextKeeps == Inv /\ [Next]_vars => Inv'
<1> SUFFICES ASSUME Inv, [Next]_vars PROVE Inv'
  OBVIOUS
<1>1. ASSUME NEW c \in Clients,
             \/ \E p \in Paths : storage_file_open(c, p)
             \/ Client(c) \/ OpenReturns(c) \/ CloseUnopened(c)
             \/ CardCommand(c)
      PROVE  Inv'
  BY <1>1, OpenKeeps, OpenReturnsKeeps, ClientKeeps
<1>2. CASE StorageThread
  BY <1>2, FileMessageKeeps, CardMessageKeeps, TickKeeps, PublishEventKeeps,
     EventPublishedKeeps DEF StorageThread
<1>3. CASE CardChanges
  <2>1. /\ UNCHANGED <<message_queue, serving, event, cpc, command, path,
                       event_flag, files, file_id, error_id, pubsubVars>>
        /\ UNCHANGED <<sd_was_present, status, sd_gui_enabled>>
        /\ present' = ~present
    BY <1>3 DEF CardChanges, threadVars, clientVars, fileVars
  <2>2. ThreadTypeOK' /\ CardTypeOK' /\ FileTypeOK' /\ ClientTypeOK'
    BY <2>1 DEF Inv, TypeOK, ThreadTypeOK, CardTypeOK, FileTypeOK, ClientTypeOK
  <2>3. PubSubTypeOK' /\ Publication' /\ Dialogue'
    BY <2>1, PublicationKept, DialogueUnchanged DEF Inv, TypeOK
  <2>4. QED
    BY <2>2, <2>3 DEF Inv, TypeOK
<1>4. CASE UNCHANGED vars
  <2>1. /\ UNCHANGED <<message_queue, serving, event, cpc, command, path,
                       event_flag, files, file_id, error_id, pubsubVars>>
        /\ UNCHANGED <<sd_was_present, status, sd_gui_enabled, present>>
    BY <1>4 DEF vars, threadVars, clientVars, fileVars, cardVars
  <2>2. ThreadTypeOK' /\ CardTypeOK' /\ FileTypeOK' /\ ClientTypeOK'
    BY <2>1 DEF Inv, TypeOK, ThreadTypeOK, CardTypeOK, FileTypeOK, ClientTypeOK
  <2>3. PubSubTypeOK' /\ Publication' /\ Dialogue'
    BY <2>1, PublicationKept, DialogueUnchanged DEF Inv, TypeOK
  <2>4. QED
    BY <2>2, <2>3 DEF Inv, TypeOK
<1>5. QED
  BY <1>1, <1>2, <1>3, <1>4 DEF Next

\* Every variable of the service and its clients keeps its type.
THEOREM TypeCorrect == Spec => []TypeOK
<1>1. Inv => TypeOK
  BY DEF Inv
<1>2. QED
  BY StorageInit, NextKeeps, <1>1, PTL DEF Spec

\* No event flag is set after it is freed: a client that is called by the
\* publication is subscribed, and subscribed clients have their flag.
THEOREM FlagStaysAllocated == Spec => []FlagAllocated
<1>1. Inv => FlagAllocated
  BY DEF Inv, TypeOK, PubSubTypeOK, Publication, Calling, ToSet, FlagAllocated
<1>2. QED
  BY StorageInit, NextKeeps, <1>1, PTL DEF Spec
-----------------------------------------------------------------------------
(* The list of open files and the opens that wait.                         *)

\* c has an entry in the list.
Has(c) ==
    \/ cpc[c] = "opened" \/ Opened(c, FALSE)
    \/ /\ command[c] = "FileClose" /\ file_id[c] # None
       /\ c \in ToSet(message_queue)

\* The list has one entry of each client that has a file, and no other; no
\* path and no address is in it twice.
Listed ==
    /\ \A e \in files : /\ Has(e.file)
                        /\ e.id = file_id[e.file] /\ e.path = path[e.file]
    /\ \A c \in Clients : Has(c) => \E e \in files : e.file = c
    /\ \A e, f \in files : e.path = f.path \/ e.id = f.id => e = f

\* The publication of a FileClose event has not come to c yet.
Pending(c) ==
    /\ event = "FileClose"
    /\ \E i \in called + 1 .. Len(items) : items[i] = c

\* CloseNotMissed for c; before the publisher has the mutex, called is 0.
NotForgotten(c) ==
    Waiting(c) /\ event_flag[c] # TRUE =>
        storage_path_already_open(path[c]) \/ Pending(c)

FilesInv == Inv /\ Listed /\ \A c \in Clients : NotForgotten(c)

LEMMA FilesInit == Init => FilesInv
<1> SUFFICES ASSUME Init PROVE FilesInv
  OBVIOUS
<1>1. ToSet(<<>>) = {}
  BY DEF ToSet
<1>2. \A c \in Clients : ~ Has(c) /\ ~ Waiting(c)
  BY <1>1, NoneFacts DEF Init, Has, Opened, Waiting
<1>3. QED
  BY <1>2, StorageInit DEF Init, FilesInv, Listed, NotForgotten

\* The entries keep their files, paths and ids when the card goes.
LEMMA UnusableKeeps ==
    ASSUME FileTypeOK, files' = files \/ files' = Unusable
    PROVE  /\ \A e \in files' : \E f \in files :
                 e.file = f.file /\ e.path = f.path /\ e.id = f.id
           /\ \A e \in files : \E f \in files' :
                 e.file = f.file /\ e.path = f.path /\ e.id = f.id
           /\ \A e, f \in files' : \/ e = f
                 \/ \E g, h \in files : /\ g # h
                       /\ e.file = g.file /\ e.path = g.path /\ e.id = g.id
                       /\ f.file = h.file /\ f.path = h.path /\ f.id = h.id
<1>1. CASE files' = files
  BY <1>1
<1>2. CASE files' = Unusable
  <2>1. \A e \in files : LET u == [e EXCEPT !.usable = FALSE]
                         IN  /\ u \in files'
                             /\ u.file = e.file /\ u.path = e.path /\ u.id = e.id
    BY <1>2 DEF Unusable, FileTypeOK
  <2>2. \A u \in files' : \E e \in files : u = [e EXCEPT !.usable = FALSE]
    BY <1>2 DEF Unusable
  <2>3. ASSUME NEW e \in files', NEW f \in files', e # f
        PROVE  \E g, h \in files : /\ g # h
                  /\ e.file = g.file /\ e.path = g.path /\ e.id = g.id
                  /\ f.file = h.file /\ f.path = h.path /\ f.id = h.id
    <3>1. PICK g \in files : e = [g EXCEPT !.usable = FALSE]
      BY <2>2
    <3>2. PICK h \in files : f = [h EXCEPT !.usable = FALSE]
      BY <2>2
    <3>3. g # h
      BY <2>3, <3>1, <3>2
    <3>4. /\ e.file = g.file /\ e.path = g.path /\ e.id = g.id
          /\ f.file = h.file /\ f.path = h.path /\ f.id = h.id
      BY <2>1, <3>1, <3>2
    <3>5. QED
      BY <3>3, <3>4
  <2>4. \A e \in files' : \E f \in files :
            e.file = f.file /\ e.path = f.path /\ e.id = f.id
    BY <2>1, <2>2
  <2>5. \A e \in files : \E f \in files' :
            e.file = f.file /\ e.path = f.path /\ e.id = f.id
    BY <2>1
  <2>6. QED
    BY <2>3, <2>4, <2>5
<1>3. QED
  BY <1>1, <1>2

\* Steps that open or close no file.
LEMMA ListedKept ==
    ASSUME Inv, Listed, files' = files \/ files' = Unusable,
           \A c \in Clients : Has(c) => Has(c)' /\ path'[c] = path[c],
           \A c \in Clients : Has(c)' => Has(c),
           file_id' = file_id
    PROVE  Listed'
<1>1. FileTypeOK /\ \A e \in files : e.file \in Clients
  BY DEF Inv, TypeOK, FileTypeOK
<1>2. \A e \in files' : /\ Has(e.file)'
                        /\ e.id = file_id'[e.file] /\ e.path = path'[e.file]
  BY <1>1, UnusableKeeps DEF Listed
<1>3. \A c \in Clients : Has(c)' => \E e \in files' : e.file = c
  BY <1>1, UnusableKeeps DEF Listed
<1>4. \A e, f \in files' : e.path = f.path \/ e.id = f.id => e = f
  BY <1>1, UnusableKeeps DEF Listed
<1>5. QED
  BY <1>2, <1>3, <1>4 DEF Listed

\* An open that waits goes on waiting.
LEMMA WaitingKept ==
    ASSUME Inv, NEW c \in Clients, NotForgotten(c),
           \A e \in files : e.path = path[c] =>
               \E f \in files' : f.path = path[c],
           Waiting(c)' => Waiting(c) /\ path'[c] = path[c],
           Waiting(c) /\ event_flag'[c] # TRUE => event_flag[c] # TRUE,
           Pending(c) /\ event_flag'[c] # TRUE => Pending(c)'
    PROVE  NotForgotten(c)'
  BY DEF NotForgotten, storage_path_already_open

\* The steps of a client: only its own place changes.
LEMMA ClientFiles ==
    ASSUME FilesInv, Inv', NEW c \in Clients,
           files' = files, file_id' = file_id, event' = event,
           \A d \in Clients \ {c} :
               /\ cpc'[d] = cpc[d] /\ command'[d] = command[d]
               /\ path'[d] = path[d] /\ error_id'[d] = error_id[d]
               /\ event_flag'[d] = event_flag[d]
               /\ d \in ToSet(message_queue') <=> d \in ToSet(message_queue)
               /\ Pending(d) => Pending(d)',
           ~ Waiting(c)',
           Has(c) => Has(c)' /\ path'[c] = path[c],
           Has(c)' => Has(c)
    PROVE  FilesInv'
<1>1. \A d \in Clients \ {c} : /\ Has(d)' <=> Has(d)
                               /\ Waiting(d)' <=> Waiting(d)
  BY DEF Has, Waiting, Opened
<1>2. Listed'
  <2>1. \A d \in Clients : Has(d) => Has(d)' /\ path'[d] = path[d]
    BY <1>1
  <2>2. \A d \in Clients : Has(d)' => Has(d)
    BY <1>1
  <2>3. QED
    BY <2>1, <2>2, ListedKept DEF FilesInv
<1>3. ASSUME NEW d \in Clients PROVE NotForgotten(d)'
  <2>1. CASE d = c
    BY <2>1 DEF NotForgotten
  <2>2. CASE d # c
    BY <1>1, <2>2, WaitingKept DEF FilesInv
  <2>3. QED
    BY <2>1, <2>2
<1>4. QED
  BY <1>2, <1>3 DEF FilesInv

LEMMA OpenKeepsFiles ==
    ASSUME FilesInv, Inv', NEW c \in Clients, NEW p \in Paths,
           storage_file_open(c, p)
    PROVE  FilesInv'
<1> USE NoneFacts
<1> USE DEF storage_file_open
<1>1. /\ cpc[c] = "idle" /\ cpc'[c] = "subscribed" /\ command[c] = None
      /\ command'[c] = "FileOpen"
      /\ \A d \in Clients \ {c} : /\ cpc'[d] = cpc[d]
                                  /\ command'[d] = command[d]
                                  /\ path'[d] = path[d]
                                  /\ event_flag'[d] = event_flag[d]
  BY DEF FilesInv, Inv, TypeOK, ClientTypeOK, Dialogue, CallState
<1>2. UNCHANGED <<files, file_id, error_id, event, message_queue>>
  BY DEF threadVars, fileVars
<1>3. ASSUME NEW d \in Clients, Pending(d) PROVE Pending(d)'
  <2>1. items \in Seq(Clients) /\ called \in Nat
    BY DEF FilesInv, Inv, TypeOK, PubSubTypeOK
  <2>2. items' = Append(items, c) /\ called' = called
    BY DEF furi_pubsub_subscribe
  <2>3. QED
    BY <1>2, <1>3, <2>1, <2>2 DEF Pending
<1>4. ~ Has(c) /\ ~ Has(c)' /\ ~ Waiting(c)'
  BY <1>1 DEF Has, Waiting, Opened
<1>5. QED
  BY <1>1, <1>2, <1>3, <1>4, ClientFiles

LEMMA OpenReturnsKeepsFiles ==
    ASSUME FilesInv, Inv', NEW c \in Clients, OpenReturns(c)
    PROVE  FilesInv'
<1> USE NoneFacts
<1> USE DEF OpenReturns
<1>1. /\ cpc[c] = "answered" /\ command[c] = "FileOpen" /\ cpc'[c] = "opened"
      /\ Has(c)
      /\ \A d \in Clients \ {c} : /\ cpc'[d] = cpc[d]
                                  /\ error_id'[d] = error_id[d]
                                  /\ event_flag'[d] = event_flag[d]
  BY DEF FilesInv, Inv, TypeOK, ClientTypeOK, FileTypeOK, Opened, Has
<1>2. UNCHANGED <<files, file_id, command, path, event, message_queue>>
  BY DEF threadVars
<1>3. ASSUME NEW d \in Clients \ {c}, Pending(d) PROVE Pending(d)'
  <2>1. items \in Seq(Clients) /\ IsInjective(items)
    BY DEF FilesInv, Inv, TypeOK, PubSubTypeOK, Publication
  <2>2. /\ items' \in Seq(Clients)
        /\ ToSet(items) \ {c} \subseteq ToSet(items')
        /\ mutex = Nobody /\ called' = called
    BY <2>1, UnlinkList DEF furi_pubsub_unsubscribe
  <2>3. called = 0
    BY <2>2 DEF FilesInv, Inv, Publication
  <2>4. d \in ToSet(items)
    BY <1>3, <2>1, <2>3 DEF Pending, ToSet
  <2>5. d \in ToSet(items')
    BY <2>2, <2>4
  <2>6. PICK i \in 1 .. Len(items') : items'[i] = d
    BY <2>2, <2>5 DEF ToSet
  <2>7. QED
    BY <1>2, <1>3, <2>2, <2>3, <2>6 DEF Pending
<1>4. Has(c)' /\ ~ Waiting(c)'
  BY <1>1 DEF Has, Waiting, Opened
<1>5. QED
  BY <1>1, <1>2, <1>3, <1>4, ClientFiles

\* A message is sent by c, which has a file only if it closes it.
LEMMA SendKeepsFiles ==
    ASSUME FilesInv, Inv', NEW c \in Clients, Send(c),
           \A d \in Clients \ {c} : /\ command'[d] = command[d]
                                    /\ path'[d] = path[d]
                                    /\ event_flag'[d] = event_flag[d],
           path' = path,
           Has(c) <=> cpc[c] = "opened",
           cpc[c] = "opened" => command'[c] = "FileClose",
           cpc[c] # "opened" /\ command'[c] = "FileClose" => file_id[c] = None
    PROVE  FilesInv'
<1> USE NoneFacts
<1>1. /\ cpc'[c] = "answer" /\ \A d \in Clients \ {c} : cpc'[d] = cpc[d]
      /\ UNCHANGED <<files, file_id, error_id, event, items, called>>
  BY DEF Send, FilesInv, Inv, TypeOK, ClientTypeOK, fileVars, pubsubVars
<1>2. ToSet(message_queue') = ToSet(message_queue) \cup {c}
  BY AppendList DEF Send, FilesInv, Inv, TypeOK, ThreadTypeOK
<1>3. Has(c) => file_id[c] # None
  BY DEF FilesInv, Listed, Inv, TypeOK, FileTypeOK
<1>4. Has(c)' <=> Has(c)
  BY <1>1, <1>2, <1>3 DEF Has, Opened
<1>5. ~ Waiting(c)' /\ \A d \in Clients : Pending(d) => Pending(d)'
  BY <1>1 DEF Waiting, Opened, Pending
<1>6. QED
  BY <1>1, <1>2, <1>4, <1>5, ClientFiles

LEMMA ClientKeepsFiles ==
    ASSUME FilesInv, Inv', NEW c \in Clients,
           Client(c) \/ CloseUnopened(c) \/ CardCommand(c)
    PROVE  FilesInv'
<1> USE NoneFacts
<1>1. /\ ClientTypeOK /\ CallState(c) /\ FileTypeOK
      /\ c \in ToSet(message_queue) => cpc[c] = "answer"
  BY DEF FilesInv, Inv, TypeOK, Dialogue
<1>2. CASE FirstTry(c)
  <2>1. /\ Send(c) /\ cpc[c] = "subscribed" /\ command[c] = "FileOpen"
        /\ UNCHANGED <<command, path, event_flag>>
    BY <1>1, <1>2 DEF FirstTry, CallState
  <2>2. ~ Has(c)
    BY <1>1, <2>1 DEF Has, Opened
  <2>3. QED
    BY <2>1, <2>2, SendKeepsFiles
<1>3. CASE RetryOpen(c)
  <2>1. /\ Send(c) /\ cpc[c] = "answered" /\ command[c] = "FileOpen"
        /\ error_id[c] = "ALREADY_OPEN" /\ UNCHANGED <<command, path>>
        /\ \A d \in Clients \ {c} : event_flag'[d] = event_flag[d]
    BY <1>1, <1>3 DEF RetryOpen, Waiting, Opened, ClientTypeOK
  <2>2. ~ Has(c)
    BY <1>1, <2>1 DEF Has, Opened
  <2>3. QED
    BY <2>1, <2>2, SendKeepsFiles
<1>4. CASE storage_file_close(c)
  <2>1. /\ Send(c) /\ cpc[c] = "opened" /\ UNCHANGED <<path, event_flag>>
        /\ command'[c] = "FileClose"
        /\ \A d \in Clients \ {c} : command'[d] = command[d]
    BY <1>1, <1>4 DEF storage_file_close, ClientTypeOK
  <2>2. Has(c)
    BY <2>1 DEF Has
  <2>3. QED
    BY <2>1, <2>2, SendKeepsFiles
<1>5. CASE CloseUnopened(c) \/ CardCommand(c)
  <2>1. /\ Send(c) /\ cpc[c] = "idle" /\ UNCHANGED <<path, event_flag>>
        /\ command'[c] = "FileClose" => file_id[c] = None
        /\ \A d \in Clients \ {c} : command'[d] = command[d]
    BY <1>1, <1>5 DEF CloseUnopened, CardCommand, ClientTypeOK
  <2>2. ~ Has(c)
    BY <1>1, <2>1 DEF Has, Opened, CallState
  <2>3. QED
    BY <2>1, <2>2, SendKeepsFiles
<1>6. CASE CallReturns(c)
  <2> USE DEF CallReturns
  <2>1. /\ cpc[c] = "answered" /\ command[c] # "FileOpen"
        /\ cpc'[c] = "idle" /\ command'[c] = None
        /\ \A d \in Clients \ {c} : /\ cpc'[d] = cpc[d]
                                    /\ command'[d] = command[d]
                                    /\ path'[d] = path[d]
                                    /\ error_id'[d] = error_id[d]
        /\ UNCHANGED <<files, file_id, event_flag, event, message_queue, items,
                       called>>
    BY <1>1, <1>6 DEF ClientTypeOK, FileTypeOK, threadVars, pubsubVars
  <2>2. ~ Has(c) /\ ~ Has(c)' /\ ~ Waiting(c)'
    BY <1>1, <2>1 DEF Has, Waiting, Opened
  <2>3. \A d \in Clients : Pending(d) => Pending(d)'
    BY <2>1 DEF Pending
  <2>4. QED
    BY <2>1, <2>2, <2>3, ClientFiles
<1>7. QED
  BY <1>2, <1>3, <1>4, <1>5, <1>6 DEF Client

\* The queue after its first message, of c, is taken.
LEMMA FirstMessage ==
    ASSUME Inv, message_queue # <<>>, NEW c, c = Head(message_queue)
    PROVE  /\ c \in Clients /\ c \in ToSet(message_queue)
           /\ cpc[c] = "answer" /\ c \notin ToSet(Tail(message_queue))
           /\ \A d \in Clients \ {c} : d \in ToSet(Tail(message_queue))
                                           <=> d \in ToSet(message_queue)
  BY PopList DEF Inv, TypeOK, ThreadTypeOK, Dialogue

\* Answers that open or close no file.
LEMMA AnswerFiles ==
    ASSUME FilesInv, Inv', message_queue # <<>>,
           NEW c, c = Head(message_queue), NEW error, Answer(c, error),
           UNCHANGED <<command, path, event_flag, file_id>>,
           files' = files \/ files' = Unusable, ~ Has(c),
           command[c] = "FileOpen" => /\ error = "ALREADY_OPEN"
                                      /\ storage_path_already_open(path[c])
    PROVE  FilesInv'
<1>1. /\ c \in Clients /\ c \notin ToSet(message_queue')
      /\ \A d \in Clients \ {c} :
            d \in ToSet(message_queue') <=> d \in ToSet(message_queue)
  BY FirstMessage DEF Answer, FilesInv
<1>2. /\ cpc'[c] = "answered" /\ error_id'[c] = error
      /\ \A d \in Clients \ {c} : cpc'[d] = cpc[d] /\ error_id'[d] = error_id[d]
      /\ UNCHANGED <<event, items, called>>
  BY <1>1 DEF Answer, FilesInv, Inv, TypeOK, ClientTypeOK, FileTypeOK,
              pubsubVars
<1>3. \A d \in Clients \ {c} : /\ Has(d)' <=> Has(d)
                               /\ Waiting(d)' <=> Waiting(d)
  BY <1>1, <1>2 DEF Has, Waiting, Opened
<1>4. ~ Has(c)'
  BY <1>1, <1>2 DEF Has, Opened
<1>5. Listed'
  <2>1. \A d \in Clients : Has(d) => Has(d)' /\ path'[d] = path[d]
    BY <1>3
  <2>2. \A d \in Clients : Has(d)' => Has(d)
    BY <1>3, <1>4
  <2>3. QED
    BY <2>1, <2>2, ListedKept DEF FilesInv
<1>6. ASSUME NEW e \in files PROVE \E f \in files' : f.path = e.path
  BY UnusableKeeps DEF FilesInv, Inv, TypeOK
<1>7. ASSUME NEW d \in Clients PROVE NotForgotten(d)'
  <2>1. CASE d = c
    BY <1>2, <1>6, <2>1 DEF NotForgotten, Waiting, Opened,
                            storage_path_already_open
  <2>2. CASE d # c
    <3>1. Pending(d) => Pending(d)'
      BY <1>2 DEF Pending
    <3>2. QED
      BY <1>3, <1>6, <2>2, <3>1, WaitingKept DEF FilesInv
  <2>3. QED
    BY <2>1, <2>2
<1>8. QED
  BY <1>5, <1>7 DEF FilesInv

\* A file is put into the list.
LEMMA OpenProcessedFiles ==
    ASSUME FilesInv, Inv', message_queue # <<>>,
           NEW c, c = Head(message_queue), command[c] = "FileOpen",
           UNCHANGED <<command, path, event_flag>>,
           storage_process_file_open(c)
    PROVE  FilesInv'
<1> USE NoneFacts
<1>1. /\ c \in Clients /\ cpc[c] = "answer" /\ ~ Has(c)
      /\ c \notin ToSet(Tail(message_queue))
      /\ \A d \in Clients \ {c} : d \in ToSet(Tail(message_queue))
                                      <=> d \in ToSet(message_queue)
  BY FirstMessage DEF FilesInv, Has, Opened
<1>2. CASE /\ storage_path_already_open(path[c])
           /\ Answer(c, "ALREADY_OPEN")
           /\ UNCHANGED <<files, file_id>>
  BY <1>1, <1>2, AnswerFiles
<1>3. ASSUME ~ storage_path_already_open(path[c]),
             NEW n \in Nodes \ {e.id : e \in files}, NEW ok \in BOOLEAN,
             files' = files \cup
                {[file |-> c, path |-> path[c], id |-> n, usable |-> ok]},
             file_id' = [file_id EXCEPT ![c] = n],
             Answer(c, IF ok THEN "OK" ELSE "INTERNAL")
      PROVE  FilesInv'
  <2>1. /\ cpc'[c] = "answered" /\ error_id'[c] # "ALREADY_OPEN"
        /\ file_id'[c] = n
        /\ \A d \in Clients \ {c} : /\ cpc'[d] = cpc[d]
                                    /\ error_id'[d] = error_id[d]
                                    /\ file_id'[d] = file_id[d]
        /\ message_queue' = Tail(message_queue)
        /\ UNCHANGED <<event, items, called>>
    BY <1>1, <1>3 DEF Answer, FilesInv, Inv, TypeOK, ClientTypeOK, FileTypeOK,
                      pubsubVars
  <2>2. \A d \in Clients \ {c} : /\ Has(d)' <=> Has(d)
                                 /\ Waiting(d)' <=> Waiting(d)
    BY <1>1, <2>1 DEF Has, Waiting, Opened
  <2>3. Has(c)' /\ ~ Waiting(c)'
    BY <2>1 DEF Has, Waiting, Opened
  <2>4. \A e \in files : e.file \in Clients /\ e.file # c
    BY <1>1 DEF FilesInv, Listed, Inv, TypeOK, FileTypeOK
  <2> DEFINE new == [file |-> c, path |-> path[c], id |-> n, usable |-> ok]
  <2>5. \A e \in files : e.path # new.path /\ e.id # new.id
    BY <1>3 DEF storage_path_already_open
  <2>6. Listed'
    <3>1. \A e \in files' : /\ Has(e.file)'
                            /\ e.id = file_id'[e.file] /\ e.path = path'[e.file]
      BY <1>3, <2>1, <2>2, <2>3, <2>4 DEF FilesInv, Listed
    <3>2. ASSUME NEW d \in Clients, Has(d)' PROVE \E e \in files' : e.file = d
      <4>1. new \in files' /\ new.file = c
        BY <1>3
      <4>2. d # c => \E e \in files : e.file = d
        BY <2>2, <3>2 DEF FilesInv, Listed
      <4>3. files \subseteq files'
        BY <1>3
      <4>4. QED
        BY <4>1, <4>2, <4>3
    <3>3. \A e, f \in files' : e.path = f.path \/ e.id = f.id => e = f
      BY <1>3, <2>5 DEF FilesInv, Listed
    <3>4. QED
      BY <3>1, <3>2, <3>3 DEF Listed
  <2>7. ASSUME NEW d \in Clients PROVE NotForgotten(d)'
    <3>1. CASE d = c
      BY <2>3, <3>1 DEF NotForgotten
    <3>2. CASE d # c
      <4>1. Pending(d) => Pending(d)'
        BY <2>1 DEF Pending
      <4>2. QED
        BY <1>3, <2>2, <3>2, <4>1, WaitingKept DEF FilesInv
    <3>3. QED
      BY <3>1, <3>2
  <2>8. QED
    BY <2>6, <2>7 DEF FilesInv
<1>4. QED
  BY <1>2, <1>3 DEF storage_process_file_open

\* A file is taken out of the list, and every open that waits will be called.
LEMMA CloseProcessedFiles ==
    ASSUME FilesInv, Inv', Idle, message_queue # <<>>,
           NEW c, c = Head(message_queue), command[c] = "FileClose",
           UNCHANGED <<command, path, event_flag>>,
           storage_process_file_close(c)
    PROVE  FilesInv'
<1> USE NoneFacts
<1>1. /\ c \in Clients /\ cpc[c] = "answer"
      /\ c \in ToSet(message_queue) /\ c \notin ToSet(Tail(message_queue))
      /\ \A d \in Clients \ {c} : d \in ToSet(Tail(message_queue))
                                      <=> d \in ToSet(message_queue)
  BY FirstMessage DEF FilesInv
<1>2. \A e \in files : e.file \in Clients /\ file_id[e.file] # None
  BY DEF FilesInv, Listed, Inv, TypeOK, FileTypeOK
<1>3. CASE /\ storage_get_file(c) = {}
           /\ Answer(c, "INVALID_PARAMETER")
           /\ UNCHANGED <<files, file_id>>
  <2>1. ~ Has(c)
    BY <1>1, <1>3 DEF storage_get_file, FilesInv, Listed
  <2>2. QED
    BY <1>3, <2>1, AnswerFiles
<1>4. ASSUME NEW e \in storage_get_file(c), files' = files \ {e},
             error_id' = [error_id EXCEPT ![c] =
                             IF e.usable THEN "OK" ELSE "INVALID_PARAMETER"],
             event' = "FileClose", furi_pubsub_publish(StorageSrv),
             message_queue' = Tail(message_queue), UNCHANGED <<cpc, file_id>>
      PROVE  FilesInv'
  <2>1. /\ e \in files /\ file_id[e.file] = file_id[c] /\ file_id[c] # None
    BY <1>2, <1>4 DEF storage_get_file
  <2>2. Has(c) /\ ~ Has(c)'
    BY <1>1, <1>4, <2>1 DEF Has, Opened
  <2>3. e.file = c /\ \A f \in files : f.file = c => f = e
    <3>1. e.id = file_id[c]
      BY <2>1 DEF FilesInv, Listed
    <3>2. \A f \in files : f.file = c => f = e
      BY <2>1, <3>1 DEF FilesInv, Listed
    <3>3. \E f \in files : f.file = c
      BY <1>1, <2>2 DEF FilesInv, Listed
    <3>4. QED
      BY <3>2, <3>3
  <2>4. \A d \in Clients \ {c} : /\ Has(d)' <=> Has(d)
                                 /\ Waiting(d)' <=> Waiting(d)
    BY <1>1, <1>4 DEF Has, Waiting, Opened, FilesInv, Inv, TypeOK, FileTypeOK
  <2>5. Listed'
    BY <1>2, <1>4, <2>2, <2>3, <2>4 DEF FilesInv, Listed
  <2>6. ASSUME NEW d \in Clients PROVE NotForgotten(d)'
    <3>1. CASE ~ Waiting(d)'
      BY <3>1 DEF NotForgotten
    <3>2. CASE Waiting(d)'
      <4>1. d # c /\ Waiting(d)
        BY <1>1, <1>4, <2>4, <3>2 DEF Waiting, Opened
      <4>2. event_flag[d] # None
        BY <4>1 DEF Waiting, Opened, FilesInv, Inv, Dialogue, CallState,
                    Underway
      <4>3. /\ d \in ToSet(items) /\ items \in Seq(Clients) /\ called = 0
            /\ items' = items /\ called' = called
        BY <1>4, <4>2 DEF FilesInv, Inv, TypeOK, PubSubTypeOK, Publication,
                          Idle, furi_pubsub_publish
      <4>4. Pending(d)'
        BY <1>4, <4>3 DEF Pending, ToSet
      <4>5. QED
        BY <4>4 DEF NotForgotten
    <3>3. QED
      BY <3>1, <3>2
  <2>7. QED
    BY <2>5, <2>6 DEF FilesInv
<1>5. QED
  BY <1>3, <1>4 DEF storage_process_file_close

LEMMA MessageKeepsFiles ==
    ASSUME FilesInv, Inv', FileMessage \/ CardMessage
    PROVE  FilesInv'
<1> DEFINE c == Head(message_queue)
<1>1. CASE FileMessage
  BY <1>1, OpenProcessedFiles, CloseProcessedFiles DEF FileMessage
<1>2. CASE CardMessage
  <2>1. /\ message_queue # <<>>
        /\ UNCHANGED <<command, path, event_flag, file_id>>
        /\ command[c] \in {"SDFormat", "SDUnmount", "SDMount"}
    BY <1>2 DEF CardMessage
  <2>2. cpc[c] = "answer" /\ ~ Has(c)
    BY <2>1, FirstMessage DEF FilesInv, Has, Opened
  <2>3. /\ files' = files \/ files' = Unusable
        /\ \E error \in {"OK", "NOT_READY", "DENIED", "INTERNAL"} :
              Answer(c, error)
    BY <1>2 DEF CardMessage, storage_process_sd_format,
                storage_process_sd_unmount, storage_process_sd_mount,
                sd_mount_card, sd_unmount_card
  <2>4. QED
    BY <2>1, <2>2, <2>3, AnswerFiles
<1>3. QED
  BY <1>1, <1>2

\* Neither the card nor an event changes who has a file or waits.
LEMMA TickKeepsFiles ==
    ASSUME FilesInv, Inv', storage_tick \/ CardChanges \/ UNCHANGED vars
    PROVE  FilesInv'
<1>1. /\ UNCHANGED <<message_queue, cpc, command, path, event_flag, error_id,
                     file_id, items, called>>
      /\ files' = files \/ files' = Unusable
      /\ event' = event \/ event = None
  BY DEF storage_tick, CardChanges, storage_ext_tick, sd_mount_card,
         sd_unmount_card, furi_pubsub_publish, Idle, vars, threadVars, fileVars,
         clientVars, pubsubVars
<1>2. \A c \in Clients : /\ Has(c)' <=> Has(c)
                         /\ Waiting(c)' <=> Waiting(c)
                         /\ Pending(c) => Pending(c)'
  BY <1>1, NoneFacts DEF Has, Waiting, Opened, Pending
<1>3. Listed'
  BY <1>1, <1>2, ListedKept DEF FilesInv
<1>4. ASSUME NEW e \in files PROVE \E f \in files' : f.path = e.path
  BY <1>1, UnusableKeeps DEF FilesInv, Inv, TypeOK
<1>5. \A c \in Clients : NotForgotten(c)'
  BY <1>1, <1>2, <1>4, WaitingKept DEF FilesInv
<1>6. QED
  BY <1>3, <1>5 DEF FilesInv

LEMMA EventKeepsFiles ==
    ASSUME FilesInv, Inv', PublishEvent \/ EventPublished
    PROVE  FilesInv'
<1> USE NoneFacts
<1>1. /\ UNCHANGED <<message_queue, command, path, files, file_id, error_id,
                     items>>
      /\ items \in Seq(Clients) /\ IsInjective(items) /\ called \in Nat
  BY DEF PublishEvent, EventPublished, threadVars, fileVars, PublishAcquired,
         CallbackReturns, PublishReturns, FilesInv, Inv, TypeOK, PubSubTypeOK,
         Publication
<1>2. \A c \in Clients : /\ Has(c)' <=> Has(c)
                         /\ Waiting(c)' <=> Waiting(c)
  <2>1. CASE PublishEvent
    BY <1>1, <2>1 DEF PublishEvent, Has, Waiting, Opened
  <2>2. CASE EventPublished /\ serving = None
    BY <1>1, <2>2 DEF EventPublished, Has, Waiting, Opened
  <2>3. CASE EventPublished /\ serving # None
    <3>1. /\ serving \in Clients /\ command[serving] = "FileClose"
          /\ cpc[serving] = "answer" /\ serving \notin ToSet(message_queue)
      BY <2>3 DEF FilesInv, Inv, TypeOK, ThreadTypeOK, Dialogue
    <3>2. /\ cpc'[serving] = "answered"
          /\ \A d \in Clients \ {serving} : cpc'[d] = cpc[d]
      BY <2>3, <3>1 DEF EventPublished, FilesInv, Inv, TypeOK, ClientTypeOK
    <3>3. QED
      BY <1>1, <3>1, <3>2 DEF Has, Waiting, Opened
  <2>4. QED
    BY <2>1, <2>2, <2>3
<1>3. Listed'
  BY <1>1, <1>2, ListedKept DEF FilesInv
<1>4. ASSUME NEW c \in Clients
      PROVE  /\ event_flag'[c] # TRUE => event_flag[c] # TRUE
             /\ Pending(c) /\ event_flag'[c] # TRUE => Pending(c)'
  <2>1. CASE PublishAcquired(StorageSrv) /\ UNCHANGED <<event, event_flag>>
    <3>1. called = 0 /\ called' = 0
      BY <2>1 DEF PublishAcquired, FilesInv, Inv, Publication
    <3>2. QED
      BY <1>1, <2>1, <3>1 DEF Pending
  <2>2. ASSUME NEW d \in Clients, Calling(StorageSrv, d), CallbackReturns,
               event' = event,
               event_flag' = IF event = "FileClose"
                             THEN [event_flag EXCEPT ![d] = TRUE]
                             ELSE event_flag
        PROVE  /\ event_flag'[c] # TRUE => event_flag[c] # TRUE
               /\ Pending(c) /\ event_flag'[c] # TRUE => Pending(c)'
    <3>1. event_flag'[c] # TRUE => event_flag[c] # TRUE
      BY <2>2 DEF FilesInv, Inv, TypeOK, ClientTypeOK
    <3>2. ASSUME Pending(c), event_flag'[c] # TRUE PROVE Pending(c)'
      <4>1. c # d
        BY <2>2, <3>2 DEF Pending, FilesInv, Inv, TypeOK, ClientTypeOK
      <4>2. called' = called + 1 /\ d = items[called + 1]
        BY <2>2 DEF Calling, CallbackReturns
      <4>3. PICK i \in called + 1 .. Len(items) : items[i] = c
        BY <3>2 DEF Pending
      <4>4. i \in called' + 1 .. Len(items)
        BY <1>1, <4>1, <4>2, <4>3
      <4>5. QED
        BY <1>1, <2>2, <3>2, <4>3, <4>4 DEF Pending
    <3>3. QED
      BY <3>1, <3>2
  <2>3. CASE PublishReturns(StorageSrv) /\ UNCHANGED event_flag
    <3>1. ~ Pending(c)
      BY <1>1, <2>3 DEF PublishReturns, Pending
    <3>2. QED
      BY <2>3, <3>1
  <2>4. QED
    BY <2>1, <2>2, <2>3 DEF PublishEvent, EventPublished, threadVars
<1>5. \A c \in Clients : NotForgotten(c)'
  BY <1>1, <1>2, <1>4, WaitingKept DEF FilesInv
<1>6. QED
  BY <1>3, <1>5 DEF FilesInv

LEMMA NextKeepsFiles == FilesInv /\ [Next]_vars => FilesInv'
<1> SUFFICES ASSUME FilesInv, [Next]_vars PROVE FilesInv'
  OBVIOUS
<1>1. Inv'
  BY NextKeeps DEF FilesInv
<1>2. ASSUME NEW c \in Clients,
             \/ \E p \in Paths : storage_file_open(c, p)
             \/ Client(c) \/ OpenReturns(c) \/ CloseUnopened(c)
             \/ CardCommand(c)
      PROVE  FilesInv'
  BY <1>1, <1>2, OpenKeepsFiles, OpenReturnsKeepsFiles, ClientKeepsFiles
<1>3. CASE StorageThread
  BY <1>1, <1>3, MessageKeepsFiles, TickKeepsFiles, EventKeepsFiles
     DEF StorageThread
<1>4. CASE CardChanges \/ UNCHANGED vars
  BY <1>1, <1>4, TickKeepsFiles
<1>5. QED
  BY <1>2, <1>3, <1>4 DEF Next

\* The open files are the list's: every file a client has is in it once, under
\* its path, and its id leads to it and to no other.
THEOREM ListConsistent == Spec => []FilesConsistent
<1>1. FilesInv => FilesConsistent
  <2> SUFFICES ASSUME FilesInv PROVE FilesConsistent
    OBVIOUS
  <2>1. ASSUME NEW c \in Clients, Has(c)
        PROVE  \E e \in files : /\ storage_get_file(c) = {e}
                                /\ e.file = c /\ e.path = path[c]
    <3>1. PICK e \in files : e.file = c
      BY <2>1 DEF FilesInv, Listed
    <3>2. e.id = file_id[c] /\ e.path = path[c]
      BY <3>1 DEF FilesInv, Listed
    <3>3. \A f \in files : file_id[f.file] = file_id[c] => f = e
      BY <3>2 DEF FilesInv, Listed
    <3>4. storage_get_file(c) = {e}
      BY <3>1, <3>3 DEF storage_get_file
    <3>5. QED
      BY <3>1, <3>2, <3>4
  <2>2. \A e, f \in files : e.path = f.path \/ e.id = f.id => e = f
    BY DEF FilesInv, Listed
  <2>3. QED
    BY <2>1, <2>2 DEF FilesConsistent, Has
<1>2. QED
  BY FilesInit, NextKeepsFiles, <1>1, PTL DEF Spec

\* No close is missed by an open that waits for it.
THEOREM NoCloseMissed == Spec => []CloseNotMissed
<1>1. FilesInv => CloseNotMissed
  <2> SUFFICES ASSUME FilesInv, NEW c \in Clients, Waiting(c),
                      event_flag[c] # TRUE,
                      ~ storage_path_already_open(path[c])
               PROVE  /\ event = "FileClose"
                      /\ \/ publishing[StorageSrv] = "acquire"
                            /\ c \in ToSet(items)
                         \/ c \in ToSet(SubSeq(items, called + 1, Len(items)))
    BY DEF CloseNotMissed
  <2>1. items \in Seq(Clients) /\ called \in Nat
    BY NoneFacts DEF FilesInv, Inv, TypeOK, PubSubTypeOK
  <2>2. event = "FileClose"
    BY DEF FilesInv, NotForgotten, Pending
  <2>3. PICK i \in called + 1 .. Len(items) : items[i] = c
    BY DEF FilesInv, NotForgotten, Pending
  <2> DEFINE rest == SubSeq(items, called + 1, Len(items))
  <2>4. /\ Len(rest) = Len(items) - called
        /\ \A j \in 1 .. Len(rest) : rest[j] = items[called + j]
    BY <2>1, <2>3
  <2>5. i - called \in 1 .. Len(rest) /\ rest[i - called] = c
    BY <2>1, <2>3, <2>4
  <2>6. rest \in Seq(Clients)
    BY <2>1, <2>3
  <2>7. c \in ToSet(rest)
    BY <2>5, <2>6 DEF ToSet
  <2>8. QED
    BY <2>2, <2>7
<1>2. QED
  BY FilesInit, NextKeepsFiles, <1>1, PTL DEF Spec
-----------------------------------------------------------------------------
(* The card under the open files.                                          *)

\* No file is usable while the status is NotReady.
UsableOnCard == \A e \in files : e.usable => status # "NotReady"

CardInv == FilesInv /\ UsableOnCard

LEMMA CardInit == Init => CardInv
  BY FilesInit DEF Init, CardInv, UsableOnCard

\* What a step does to the files and the state of the card.
LEMMA CardSteps ==
    ASSUME FilesInv, [Next]_vars
    PROVE  \/ files' \subseteq files /\ status' = status
           \/ /\ status' = status
              /\ \E e : /\ files' = files \cup {e}
                        /\ e.usable => status # "NotReady"
                        /\ \A f \in files : f.path # e.path
           \/ files' = Unusable
<1>1. CASE FileMessage
  <2> DEFINE c == Head(message_queue)
  <2>1. status' = status
    BY <1>1 DEF FileMessage, cardVars
  <2>2. CASE storage_process_file_open(c)
    <3>1. CASE files' = files
      BY <2>1, <3>1
    <3>2. ASSUME NEW n \in Nodes, NEW ok \in BOOLEAN, ok => status # "NotReady",
                 files' = files \cup
                    {[file |-> c, path |-> path[c], id |-> n, usable |-> ok]},
                 ~ storage_path_already_open(path[c])
          PROVE  \E e : /\ files' = files \cup {e}
                        /\ e.usable => status # "NotReady"
                        /\ \A f \in files : f.path # e.path
      <4> DEFINE e == [file |-> c, path |-> path[c], id |-> n, usable |-> ok]
      <4>1. /\ e.usable => status # "NotReady"
            /\ \A f \in files : f.path # e.path
        BY <3>2 DEF storage_path_already_open
      <4>2. QED
        BY <3>2, <4>1
    <3>3. QED
      BY <2>1, <2>2, <3>1, <3>2 DEF storage_process_file_open
  <2>3. CASE storage_process_file_close(c)
    BY <2>1, <2>3 DEF storage_process_file_close
  <2>4. QED
    BY <1>1, <2>2, <2>3 DEF FileMessage
<1>2. CASE CardMessage
  BY <1>2 DEF CardMessage, storage_process_sd_format,
              storage_process_sd_unmount, storage_process_sd_mount,
              sd_mount_card, sd_unmount_card
<1>3. CASE storage_tick
  BY <1>3 DEF storage_tick, storage_ext_tick, sd_mount_card, sd_unmount_card
<1>4. CASE \/ PublishEvent \/ EventPublished \/ CardChanges \/ UNCHANGED vars
           \/ \E c \in Clients :
                 \/ \E p \in Paths : storage_file_open(c, p)
                 \/ Client(c) \/ OpenReturns(c) \/ CloseUnopened(c)
                 \/ CardCommand(c)
  <2>1. UNCHANGED <<files, status>>
    BY <1>4 DEF PublishEvent, EventPublished, CardChanges, vars,
                storage_file_open, Client, FirstTry, RetryOpen,
                storage_file_close, CallReturns, OpenReturns, CloseUnopened,
                CardCommand, Send, cardVars, fileVars
  <2>2. QED
    BY <2>1
<1>5. QED
  BY <1>1, <1>2, <1>3, <1>4 DEF Next, StorageThread

LEMMA NextKeepsCard == CardInv /\ [Next]_vars => CardInv'
<1> SUFFICES ASSUME CardInv, [Next]_vars PROVE CardInv'
  OBVIOUS
<1>1. FilesInv'
  BY NextKeepsFiles DEF CardInv
<1>2. FileTypeOK
  BY DEF CardInv, FilesInv, Inv, TypeOK
<1>3. \A u \in Unusable : ~ u.usable
  BY <1>2 DEF Unusable, FileTypeOK
<1>4. UsableOnCard'
  BY <1>3, CardSteps DEF CardInv, UsableOnCard
<1>5. QED
  BY <1>1, <1>4 DEF CardInv

\* A file that is open stays usable, whatever the other clients do, unless the
\* card is removed or formatted or was mounted before the tick saw it.
THEOREM OpenFilesKept == Spec => FilesKept
<1> DEFINE Excused == \/ ~present' \/ MountUnseen
                      \/ /\ message_queue # <<>>
                         /\ command[Head(message_queue)] = "SDFormat"
<1>1. ASSUME CardInv, [Next]_vars, NEW e \in files, e.usable,
             [e EXCEPT !.usable = FALSE] \in files'
      PROVE  Excused
  <2> DEFINE u == [e EXCEPT !.usable = FALSE]
  <2>1. /\ status # "NotReady" /\ u # e /\ u.path = e.path /\ ~ u.usable
    BY <1>1 DEF CardInv, UsableOnCard, FilesInv, Inv, TypeOK, FileTypeOK
  <2>2. u \notin files
    BY <1>1, <2>1 DEF CardInv, FilesInv, Listed
  <2>3. ~ files' \subseteq files
    BY <1>1, <2>2
  <2>4. ~ \E f : /\ files' = files \cup {f}
                 /\ \A g \in files : g.path # f.path
    BY <1>1, <2>1, <2>2
  <2>5. files' = Unusable
    BY <1>1, <2>3, <2>4, CardSteps DEF CardInv
  <2>6. CASE CardMessage
    <3>1. CASE storage_process_sd_unmount(Head(message_queue))
      BY <2>1, <2>3, <2>5, <3>1 DEF storage_process_sd_unmount, Unusable
    <3>2. CASE storage_process_sd_mount(Head(message_queue))
      BY <2>1, <2>3, <3>2 DEF storage_process_sd_mount
    <3>3. QED
      BY <2>6, <3>1, <3>2 DEF CardMessage
  <2>7. CASE storage_tick
    BY <2>1, <2>3, <2>7 DEF storage_tick, storage_ext_tick, MountUnseen
  <2>8. CASE FileMessage
    <3> DEFINE c == Head(message_queue)
    <3>1. CASE storage_process_file_open(c)
      <4>1. CASE files' = files
        BY <2>3, <4>1
      <4>2. ASSUME NEW n \in Nodes, NEW ok \in BOOLEAN,
                   files' = files \cup
                      {[file |-> c, path |-> path[c], id |-> n, usable |-> ok]},
                   ~ storage_path_already_open(path[c])
            PROVE  FALSE
        <5> DEFINE f == [file |-> c, path |-> path[c], id |-> n, usable |-> ok]
        <5>1. \A g \in files : g.path # f.path
          BY <4>2 DEF storage_path_already_open
        <5>2. QED
          BY <2>4, <4>2, <5>1
      <4>3. QED
        BY <3>1, <4>1, <4>2 DEF storage_process_file_open
    <3>2. CASE storage_process_file_close(c)
      BY <2>3, <3>2 DEF storage_process_file_close
    <3>3. QED
      BY <2>8, <3>1, <3>2 DEF FileMessage
  <2>9. CASE \/ PublishEvent \/ EventPublished \/ CardChanges
             \/ UNCHANGED vars
             \/ \E c \in Clients :
                   \/ \E p \in Paths : storage_file_open(c, p)
                   \/ Client(c) \/ OpenReturns(c) \/ CloseUnopened(c)
                   \/ CardCommand(c)
    <3>1. UNCHANGED files
      BY <2>9 DEF PublishEvent, EventPublished, CardChanges, vars,
                  storage_file_open, Client, FirstTry, RetryOpen,
                  storage_file_close, CallReturns, OpenReturns, CloseUnopened,
                  CardCommand, Send, fileVars
    <3>2. QED
      BY <2>3, <3>1
  <2>10. QED
    BY <1>1, <2>6, <2>7, <2>8, <2>9 DEF Next, StorageThread
<1>2. CardInv /\ [Next]_vars =>
          [\A e \in files :
              e.usable /\ [e EXCEPT !.usable = FALSE] \in files' => Excused]_vars
  BY <1>1
<1>3. QED
  BY CardInit, NextKeepsCard, <1>2, PTL DEF Spec, FilesKept
=============================================================================
