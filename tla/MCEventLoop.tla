---------------------------- MODULE MCEventLoop -----------------------------
(* Instances of EventLoop for TLC.                                         *)
EXTENDS EventLoop, TLC

\* Threads are interchangeable, and so are queues and timers.
Symmetry ==
    Permutations(Threads) \cup Permutations(Queues) \cup Permutations(Timers)
=============================================================================
