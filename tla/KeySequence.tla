----------------------------- MODULE KeySequence ----------------------------
(***************************************************************************)
(* The order of the events of each key in which the GUI needs them: a      *)
(* press is followed either by Short and Release, or by Long, any number   *)
(* of Repeats, and Release.  What comes for a key after its Release and    *)
(* before its next Press is discarded as non-complementary (gui.c:377,     *)
(* view_dispatcher.c:255), a Short too.                                    *)
(*                                                                         *)
(* input.h does not describe this order: it has Short "emitted after       *)
(* InputTypeRelease" (input.h:24), with which no Short would reach a view. *)
(***************************************************************************)
CONSTANTS Keys

VARIABLE last   \* type of the last event published for each key

InputType == {"Press", "Release", "Short", "Long", "Repeat"}

\* The events that may come next.  By input.h:24 Short would follow Release.
Following(type) ==
    CASE type = "Release" -> {"Press"}
      [] type = "Press" -> {"Short", "Long"}
      [] type = "Short" -> {"Release"}
      [] type \in {"Long", "Repeat"} -> {"Repeat", "Release"}

\* A key that is down when the service starts has no Press of its own.
Init == last \in [Keys -> {"Release", "Press"}]

Publish(key, type) ==
    /\ type \in Following(last[key])
    /\ last' = [last EXCEPT ![key] = type]

Next == \E key \in Keys, type \in InputType : Publish(key, type)

Spec == Init /\ [][Next]_last
=============================================================================
