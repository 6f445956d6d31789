------------------------------- MODULE PubSub -------------------------------
(***************************************************************************)
(* Publish-subscribe (furi/core/pubsub.c).  A publisher calls the          *)
(* subscribers one after the other with the mutex held; a callback may     *)
(* wait.  Subscribing and unsubscribing wait for the mutex.                *)
(***************************************************************************)
EXTENDS Integers, Sequences, SequencesExt

CONSTANTS
    Publishers,     \* threads that publish
    Subscribers,    \* callbacks with their contexts
    Nobody          \* the mutex is free

VARIABLES
    mutex,          \* the publisher that has the mutex
    items,          \* subscriptions, in order
    called,         \* subscribers the publisher has called
    publishing      \* where each publisher's call of furi_pubsub_publish is

pubsubVars == <<mutex, items, called, publishing>>

PubSubTypeOK ==
    /\ mutex \in Publishers \cup {Nobody}
    /\ items \in Seq(Subscribers)
    /\ called \in 0 .. Len(items)
    /\ publishing \in [Publishers -> {"no", "acquire", "call"}]

\* furi_pubsub_alloc, with the given subscriptions
PubSubInit(subscriptions) ==
    /\ mutex = Nobody
    /\ items = subscriptions
    /\ called = 0
    /\ publishing = [p \in Publishers |-> "no"]

furi_pubsub_subscribe(s) ==
    /\ mutex = Nobody
    /\ items' = Append(items, s)
    /\ UNCHANGED <<mutex, called, publishing>>

\* Mutant: the list is changed without the mutex.
UnsubscribeUnlocked(s) ==
    /\ items' = RemoveFirst(items, s)
    /\ UNCHANGED <<mutex, called, publishing>>

\* The subscription must be in the list (furi_check).
furi_pubsub_unsubscribe(s) ==
    /\ mutex = Nobody
    /\ s \in ToSet(items)
    /\ items' = RemoveFirst(items, s)
    /\ UNCHANGED <<mutex, called, publishing>>

\* furi_pubsub_publish is called and waits for the mutex, ...
furi_pubsub_publish(p) ==
    /\ publishing[p] = "no"
    /\ publishing' = [publishing EXCEPT ![p] = "acquire"]
    /\ UNCHANGED <<mutex, items, called>>

\* ... gets it, ...
PublishAcquired(p) ==
    /\ publishing[p] = "acquire" /\ mutex = Nobody
    /\ mutex' = p
    /\ called' = 0
    /\ publishing' = [publishing EXCEPT ![p] = "call"]
    /\ UNCHANGED items

\* ... calls the next subscriber, s, ...
Calling(p, s) ==
    /\ publishing[p] = "call" /\ called < Len(items)
    /\ s = items[called + 1]

CallbackReturns ==
    /\ called' = called + 1
    /\ UNCHANGED <<mutex, items, publishing>>

\* ... and after the last one releases the mutex.
PublishReturns(p) ==
    /\ publishing[p] = "call" /\ called = Len(items)
    /\ mutex' = Nobody
    /\ called' = 0
    /\ publishing' = [publishing EXCEPT ![p] = "no"]
    /\ UNCHANGED items
=============================================================================
