----------------------- MODULE EventLoopClock_proofs ------------------------
(***************************************************************************)
(* Proofs about the clock of the timers of EventLoop: the list of running  *)
(* timers stays sorted although it is only ever sorted by the remaining    *)
(* time at the moment of an insertion, and a timer fires when it is due    *)
(* and in its turn, across every wrap of the tick counter.                 *)
(***************************************************************************)
EXTENDS EventLoop_proofs

\* How far past its deadline each timer is, and the timers that are due all
\* the time: the periodic ones of interval 0.
Lateness == [t \in Timers |-> Overdue(t)]
AlwaysDue == {t \in periodic : interval[t] = 0}

\* The elapsed time the code computes from the wrapped tick counter is the
\* real one.
Clocked ==
    \A t \in active :
        /\ age[t] \in 0 .. interval[t] + MaxLate
        /\ interval[t] > 0 => furi_event_loop_timer_get_elapsed_time(t) = age[t]

\* No timer is behind one that is due later.  Expired timers have the same
\* remaining time 0, so the order of their deadlines is more than what the
\* insertion compares.
SortedBy(list, late, always) ==
    \A i, j \in 1 .. Len(list) : i < j =>
        IF list[j] \in always
        THEN late[list[i]] >= 0
        ELSE late[list[j]] <= late[list[i]]

Sorted == SortedBy(timer_list, Lateness, AlwaysDue)
-----------------------------------------------------------------------------
(* The tick counter.                                                       *)

\* A number in the range of the counter is what a difference of two readings
\* is modulo TickMod, if they differ by it or by it less one turn.
LEMMA ModIs ==
    ASSUME NEW x \in Int, NEW y \in 0 .. TickMod - 1,
           x = y \/ x = y - TickMod
    PROVE  x % TickMod = y
<1>1. TickMod \in Nat \ {0}
  BY IntervalFacts
<1>2. CASE x = y
  BY <1>1, <1>2
<1>3. CASE x = y - TickMod
  BY <1>1, <1>3
<1>4. QED
  BY <1>2, <1>3

\* What elapsed times say about the readings they are computed from.
LEMMA ModOf ==
    ASSUME NEW a \in 0 .. TickMod - 1, NEW b \in 0 .. TickMod - 1
    PROVE  \/ (a - b) % TickMod = a - b
           \/ (a - b) % TickMod = a - b + TickMod
<1>1. TickMod \in Nat \ {0}
  BY IntervalFacts
<1>2. CASE a >= b
  BY <1>1, <1>2
<1>3. CASE a < b
  BY <1>1, <1>3
<1>4. QED
  BY <1>1, <1>2, <1>3

\* A sum of two numbers below TickMod wraps at most once.
LEMMA ModSum ==
    ASSUME NEW a \in 0 .. TickMod - 1, NEW b \in 0 .. TickMod - 1
    PROVE  /\ (a + b) % TickMod \in 0 .. TickMod - 1
           /\ \/ (a + b) % TickMod = a + b
              \/ (a + b) % TickMod = a + b - TickMod
<1>1. TickMod \in Nat \ {0}
  BY IntervalFacts
<1>2. CASE a + b < TickMod
  BY <1>1, <1>2
<1>3. CASE a + b >= TickMod
  BY <1>1, <1>3
<1>4. QED
  BY <1>1, <1>2, <1>3

\* The part of an elapsed time that a periodic timer skips when it is served
\* late leaves less than an interval.
LEMMA WholeIntervals ==
    ASSUME NEW m \in Nat \ {0}, NEW a \in Nat
    PROVE  /\ m * (a \div m) \in Nat
           /\ m * (a \div m) <= a
           /\ a - m * (a \div m) < m
  OBVIOUS

\* The bounds of a timer that is not later than MaxLate.
LEMMA AgeBelowTurn ==
    ASSUME NEW i \in TimerIntervals, NEW a \in 0 .. i + MaxLate
    PROVE  i \in Nat /\ a \in Nat /\ a + 1 < TickMod /\ a \in 0 .. TickMod - 1
<1>1. i \in Nat /\ i + MaxLate + 1 < TickMod /\ MaxLate \in Nat
           /\ TickMod \in Nat
  BY TimerAssumption DEF TimerIntervals
<1>2. QED
  BY <1>1

\* The remaining time of a timer that is clocked is its lateness below zero.
Left(late) == IF late < 0 THEN 0 - late ELSE 0

LEMMA RemainingTime ==
    ASSUME NEW start, NEW i \in Nat, NEW a \in Nat,
           i > 0 => (tick_count - start) % TickMod = a,
           (tick_count - start) % TickMod \in Nat
    PROVE  furi_event_loop_timer_get_remaining_time_private(start, i) =
               Left(a - i)
<1> DEFINE e == (tick_count - start) % TickMod
<1>1. furi_event_loop_timer_get_remaining_time_private(start, i) =
          IF e < i THEN i - e ELSE 0
  BY DEF furi_event_loop_timer_get_remaining_time_private
<1> HIDE DEF e
<1>2. e \in Nat /\ (i > 0 => e = a)
  BY DEF e
<1>3. QED
  BY <1>1, <1>2 DEF Left
-----------------------------------------------------------------------------
(* Sorted lists.                                                           *)

\* Whether a list is sorted depends on the timers in it only.
LEMMA SortedFor ==
    ASSUME NEW list \in Seq(Timers), NEW late, NEW late2, NEW always,
           NEW always2, SortedBy(list, late, always),
           \A u \in ToSet(list) :
               /\ late2[u] = late[u]
               /\ u \in always2 <=> u \in always
    PROVE  SortedBy(list, late2, always2)
<1>1. \A i \in 1 .. Len(list) : list[i] \in ToSet(list)
  BY LenProperties DEF ToSet
<1>2. QED
  BY <1>1 DEF SortedBy

\* A sorted list without one of its timers is sorted.
LEMMA TailSorted ==
    ASSUME NEW list \in Seq(Timers), list # <<>>, NEW late, NEW always,
           SortedBy(list, late, always)
    PROVE  SortedBy(Tail(list), late, always)
<1>1. /\ Len(list) \in Nat \ {0}
      /\ Len(Tail(list)) = Len(list) - 1
      /\ \A i \in 1 .. Len(Tail(list)) : Tail(list)[i] = list[i + 1]
  BY HeadTailProperties, EmptySeq, LenProperties
<1>2. QED
  BY <1>1 DEF SortedBy

LEMMA RemoveSorted ==
    ASSUME NEW list \in Seq(Timers), NEW t, NEW late, NEW always,
           SortedBy(list, late, always)
    PROVE  SortedBy(RemoveFirst(list, t), late, always)
<1>1. Len(list) \in Nat
  BY LenProperties
<1>2. CASE ~\E i \in 1 .. Len(list) : list[i] = t
  BY <1>2 DEF RemoveFirst
<1>3. CASE \E i \in 1 .. Len(list) : list[i] = t
  <2> DEFINE I == {i \in 1 .. Len(list) : list[i] = t}
             k == Min(I)
  <2>1. k \in 1 .. Len(list)
    <3>1. I \in SUBSET Nat /\ I # {}
      BY <1>1, <1>3
    <3> HIDE DEF I
    <3>2. Min(I) \in I
      BY <3>1, MinOfNat
    <3>3. QED
      BY <3>2 DEF I
  <2>2. RemoveFirst(list, t) = RemoveAt(list, k)
    BY <1>3 DEF RemoveFirst, SelectInSeq
  <2> HIDE DEF k
  <2> DEFINE r == RemoveAt(list, k)
  <2>3. /\ Len(r) = Len(list) - 1
        /\ \A i \in 1 .. Len(list) - 1 :
              r[i] = IF i < k THEN list[i] ELSE list[i + 1]
    BY <2>1, RemoveAtList
  <2> HIDE DEF r
  <2> SUFFICES ASSUME NEW i \in 1 .. Len(r), NEW j \in 1 .. Len(r), i < j
               PROVE  IF r[j] \in always
                      THEN late[r[i]] >= 0 ELSE late[r[j]] <= late[r[i]]
    BY <2>2 DEF SortedBy, r
  <2>4. PICK x, y \in 1 .. Len(list) : x < y /\ r[i] = list[x] /\ r[j] = list[y]
    <3> DEFINE x == IF i < k THEN i ELSE i + 1
               y == IF j < k THEN j ELSE j + 1
    <3>1. x \in 1 .. Len(list) /\ y \in 1 .. Len(list) /\ x < y
      BY <1>1, <2>1, <2>3
    <3>2. r[i] = list[x] /\ r[j] = list[y]
      BY <1>1, <2>3
    <3> HIDE DEF x, y
    <3>3. QED
      BY <3>1, <3>2
  <2>5. QED
    BY <2>4 DEF SortedBy
<1>4. QED
  BY <1>2, <1>3

\* The list with a timer inserted.
LEMMA InsertedAt ==
    ASSUME NEW list \in Seq(Timers), NEW k \in 1 .. Len(list) + 1,
           NEW t \in Timers
    PROVE  /\ Len(InsertAt(list, k, t)) = Len(list) + 1
           /\ \A i \in 1 .. Len(list) + 1 :
                 InsertAt(list, k, t)[i] =
                     IF i < k THEN list[i]
                     ELSE IF i = k THEN t ELSE list[i - 1]
  BY InsertList

\* furi_event_loop_schedule_timer keeps the list sorted, if the timer it
\* inserts is not late: comparing remaining times is then enough.
LEMMA ScheduleSorted ==
    ASSUME NEW list \in Seq(Timers), NEW t \in Timers, NEW start, NEW itv,
           NEW late \in [Timers -> Int], NEW always,
           SortedBy(list, late, always),
           t \in always \/ late[t] <= 0,
           \A u \in ToSet(list) \cup {t} :
               /\ u \in always => late[u] >= 0
               /\ furi_event_loop_timer_get_remaining_time_private(
                      start[u], itv[u]) = Left(late[u])
    PROVE  SortedBy(furi_event_loop_schedule_timer(list, t, start, itv),
                    late, always)
<1> DEFINE rem(u) == furi_event_loop_timer_get_remaining_time_private(
                         start[u], itv[u])
           I == {i \in 1 .. Len(list) : rem(t) >= rem(list[i])}
           k == IF I # {} THEN Max(I) ELSE 0
           new == InsertAt(list, k + 1, t)
<1>1. Len(list) \in Nat /\ \A i \in 1 .. Len(list) : /\ list[i] \in Timers
                                                     /\ list[i] \in ToSet(list)
  BY LenProperties, ElementOfSeq DEF ToSet
<1>2. /\ k \in 0 .. Len(list)
      /\ k > 0 => rem(t) >= rem(list[k])
      /\ \A i \in 1 .. Len(list) : i > k => ~(rem(t) >= rem(list[i]))
  <2>1. I \in SUBSET (0 .. Len(list)) /\ I \in SUBSET (1 .. Len(list))
    BY <1>1
  <2>2. \A i \in 1 .. Len(list) : i \in I <=> rem(t) >= rem(list[i])
    OBVIOUS
  <2> HIDE DEF I, rem
  <2>3. CASE I = {}
    BY <1>1, <2>2, <2>3
  <2>4. CASE I # {}
    <3>1. Max(I) \in I /\ \A y \in I : y <= Max(I)
      BY <1>1, <2>1, <2>4, MaxOfNat
    <3>2. k = Max(I)
      BY <2>4
    <3>3. Max(I) \in 1 .. Len(list)
      BY <2>1, <3>1
    <3> HIDE DEF k
    <3>4. k \in 1 .. Len(list) /\ k \in I /\ \A y \in I : y <= k
      BY <3>1, <3>2, <3>3
    <3>5. QED
      BY <1>1, <2>2, <3>4
  <2>5. QED
    BY <2>3, <2>4
<1>3. furi_event_loop_schedule_timer(list, t, start, itv) = new
  BY DEF furi_event_loop_schedule_timer, SelectLastInSeq
<1>4. /\ rem(t) = Left(late[t])
      /\ \A i \in 1 .. Len(list) : rem(list[i]) = Left(late[list[i]])
  BY <1>1
<1> HIDE DEF k, rem
<1>5. k + 1 \in 1 .. Len(list) + 1
  BY <1>1, <1>2
<1>6. /\ Len(new) = Len(list) + 1
      /\ \A i \in 1 .. Len(list) + 1 :
            new[i] = IF i < k + 1 THEN list[i]
                     ELSE IF i = k + 1 THEN t ELSE list[i - 1]
  BY <1>5, InsertedAt
<1> HIDE DEF new
<1> DEFINE ok(u, v) == IF v \in always THEN late[u] >= 0 ELSE late[v] <= late[u]
\* In front of t nobody has more time left than t.
<1>7. ASSUME NEW i \in 1 .. Len(list), i <= k
      PROVE  ok(list[i], t)
  <2>1. k \in 1 .. Len(list) /\ Left(late[list[k]]) <= Left(late[t])
    BY <1>2, <1>4, <1>7
  <2>2. i = k \/ ok(list[i], list[k])
    BY <1>7, <2>1 DEF SortedBy
  <2>3. /\ late[t] \in Int /\ late[list[i]] \in Int /\ late[list[k]] \in Int
        /\ list[k] \in always => late[list[k]] >= 0
        /\ t \in always => late[t] >= 0
    BY <1>1, <2>1
  <2>4. QED
    BY <2>1, <2>2, <2>3 DEF Left
\* Behind t everybody has more.
<1>8. ASSUME NEW j \in 1 .. Len(list), j > k
      PROVE  ok(t, list[j])
  <2>1. ~(Left(late[t]) >= Left(late[list[j]]))
    BY <1>2, <1>4, <1>8
  <2>2. /\ late[t] \in Int /\ late[list[j]] \in Int
        /\ list[j] \in always => late[list[j]] >= 0
    BY <1>1
  <2>3. QED
    BY <2>1, <2>2 DEF Left
<1>9. ASSUME NEW i \in 1 .. Len(list), NEW j \in 1 .. Len(list), i < j
      PROVE  ok(list[i], list[j])
  BY <1>9 DEF SortedBy
<1> HIDE DEF ok
<1>10. ASSUME NEW i \in 1 .. Len(new), NEW j \in 1 .. Len(new), i < j
       PROVE  ok(new[i], new[j])
  <2>1. CASE j < k + 1
    <3>1. /\ new[i] = list[i] /\ new[j] = list[j]
          /\ i \in 1 .. Len(list) /\ j \in 1 .. Len(list)
      BY <1>1, <1>2, <1>6, <1>10, <2>1
    <3>2. QED
      BY <3>1, <1>9, <1>10
  <2>2. CASE j = k + 1
    <3>1. /\ new[i] = list[i] /\ new[j] = t
          /\ i \in 1 .. Len(list) /\ i <= k
      BY <1>1, <1>2, <1>6, <1>10, <2>2
    <3>2. QED
      BY <3>1, <1>7
  <2>3. CASE j > k + 1 /\ i = k + 1
    BY <1>1, <1>2, <1>6, <1>8, <1>10, <2>3
  <2>4. CASE j > k + 1 /\ i < k + 1
    <3>1. /\ new[i] = list[i] /\ new[j] = list[j - 1]
          /\ i \in 1 .. Len(list) /\ j - 1 \in 1 .. Len(list) /\ i < j - 1
      BY <1>1, <1>2, <1>6, <1>10, <2>4
    <3>2. QED
      BY <3>1, <1>9
  <2>5. CASE j > k + 1 /\ i > k + 1
    <3>1. /\ new[i] = list[i - 1] /\ new[j] = list[j - 1]
          /\ i - 1 \in 1 .. Len(list) /\ j - 1 \in 1 .. Len(list)
          /\ i - 1 < j - 1
      BY <1>1, <1>2, <1>6, <1>10, <2>5
    <3>2. QED
      BY <3>1, <1>9
  <2>6. QED
    BY <1>2, <1>6, <1>1, <2>1, <2>2, <2>3, <2>4, <2>5
<1>11. QED
  BY <1>3, <1>10 DEF SortedBy, ok
-----------------------------------------------------------------------------
(* Steps of the timers.                                                    *)

\* What the type invariant says of the clock of a timer.
LEMMA ClockFacts ==
    ASSUME TimerTypeOK, NEW t \in Timers
    PROVE  /\ interval[t] \in TimerIntervals /\ interval[t] \in Nat
           /\ tick_count \in 0 .. TickMod - 1
           /\ start_time[t] \in 0 .. TickMod - 1
           /\ age[t] \in Int
           /\ furi_event_loop_timer_get_elapsed_time(t) \in 0 .. TickMod - 1
  BY SkippedType DEF TimerTypeOK

LEMMA ListedAreTimers ==
    ASSUME NEW list \in Seq(Timers)
    PROVE  ToSet(list) \subseteq Timers
  BY ElementOfSeq, LenProperties DEF ToSet

LEMMA NextLateness ==
    ASSUME TimerTypeOK'
    PROVE  Lateness' \in [Timers -> Int]
<1>1. ASSUME NEW t \in Timers
      PROVE  age'[t] \in Int /\ interval'[t] \in Int
  <2>1. age'[t] \in Int /\ interval'[t] \in TimerIntervals
    BY DEF TimerTypeOK
  <2>2. interval'[t] \in Nat
    BY <2>1, IntervalFacts
  <2>3. QED
    BY <2>1, <2>2
<1>2. QED
  BY <1>1 DEF Lateness, Overdue

\* The remaining time that an insertion sees of a clocked timer.
LEMMA NextRemaining ==
    ASSUME TimerTypeOK', Clocked', tick_count' = tick_count,
           NEW t \in active'
    PROVE  furi_event_loop_timer_get_remaining_time_private(
               start_time'[t], interval'[t]) = Left(Lateness'[t])
<1>1. t \in Timers
  BY DEF TimerTypeOK
<1>2. interval'[t] \in Nat
  BY <1>1, IntervalFacts DEF TimerTypeOK
<1>3. age'[t] \in 0 .. interval'[t] + MaxLate
  BY DEF Clocked
<1>4. age'[t] \in Nat
  BY <1>2, <1>3, TimerAssumption
<1>5. tick_count - start_time'[t] \in Int
  BY <1>1, IntervalFacts DEF TimerTypeOK
<1>6. (tick_count - start_time'[t]) % TickMod \in Nat
  BY <1>5, ModRange, IntervalFacts
<1>7. interval'[t] > 0 => (tick_count - start_time'[t]) % TickMod = age'[t]
  BY DEF Clocked, furi_event_loop_timer_get_elapsed_time
<1>8. furi_event_loop_timer_get_remaining_time_private(
          start_time'[t], interval'[t]) = Left(age'[t] - interval'[t])
  BY <1>2, <1>4, <1>6, <1>7, RemainingTime
<1>9. QED
  BY <1>1, <1>8 DEF Lateness, Overdue

\* A timer that is due all the time is never early.
LEMMA AlwaysDueNotEarly ==
    ASSUME TimerTypeOK', Clocked', NEW t \in active', t \in AlwaysDue'
    PROVE  Lateness'[t] >= 0
<1>1. /\ t \in Timers /\ interval'[t] = 0
      /\ age'[t] \in 0 .. interval'[t] + MaxLate
  BY DEF TimerTypeOK, AlwaysDue, Clocked
<1>2. QED
  BY <1>1, TimerAssumption DEF Lateness, Overdue

\* furi_event_loop_start_timer_request: the clock starts at zero.
LEMMA StartClocked ==
    ASSUME TimerTypeOK, Clocked, NEW t \in Timers, ExecuteStart(t),
           tick_count' = tick_count
    PROVE  Clocked'
<1> SUFFICES ASSUME NEW u \in active'
             PROVE  /\ age'[u] \in 0 .. interval'[u] + MaxLate
                    /\ interval'[u] > 0 =>
                          (tick_count' - start_time'[u]) % TickMod = age'[u]
  BY DEF Clocked, furi_event_loop_timer_get_elapsed_time
<1>1. CASE u = t
  <2>1. /\ age'[u] = 0 /\ start_time'[u] = tick_count
        /\ interval'[u] = next_interval[u]
    BY <1>1 DEF ExecuteStart, TimerTypeOK
  <2>2. next_interval[u] \in Nat /\ MaxLate \in Nat
    BY <1>1, IntervalFacts, TimerAssumption DEF TimerTypeOK
  <2>3. (tick_count - tick_count) % TickMod = 0
    <3>1. tick_count - tick_count = 0 /\ 0 \in 0 .. TickMod - 1
      BY IntervalFacts DEF TimerTypeOK
    <3>2. QED
      BY <3>1, ModIs
  <2>4. QED
    BY <2>1, <2>2, <2>3
<1>2. CASE u # t
  <2>1. /\ u \in active /\ age'[u] = age[u] /\ start_time'[u] = start_time[u]
        /\ interval'[u] = interval[u]
    BY <1>2 DEF ExecuteStart, TimerTypeOK
  <2>2. QED
    BY <2>1 DEF Clocked, furi_event_loop_timer_get_elapsed_time
<1>3. QED
  BY <1>1, <1>2

\* A step that leaves the timers that go on running alone.
LEMMA OthersClocked ==
    ASSUME Clocked, tick_count' = tick_count, active' \subseteq active,
           \A u \in active' : /\ age'[u] = age[u]
                              /\ interval'[u] = interval[u]
                              /\ start_time'[u] = start_time[u]
    PROVE  Clocked'
  BY DEF Clocked, furi_event_loop_timer_get_elapsed_time

LEMMA OthersSorted ==
    ASSUME TypeOK, TypeOK', NEW list \in Seq(Timers),
           SortedBy(list, Lateness, AlwaysDue),
           \A u \in ToSet(list) : /\ age'[u] = age[u]
                                  /\ interval'[u] = interval[u]
                                  /\ u \in periodic' <=> u \in periodic
    PROVE  SortedBy(list, Lateness', AlwaysDue')
<1>1. ToSet(list) \subseteq Timers
  BY ListedAreTimers
<1>2. \A u \in ToSet(list) :
          Lateness'[u] = Lateness[u] /\ (u \in AlwaysDue' <=> u \in AlwaysDue)
  BY <1>1 DEF Lateness, Overdue, AlwaysDue
<1>3. QED
  BY <1>2, SortedFor

LEMMA RequestClock ==
    ASSUME TypeOK, TypeOK', TimersLinked, TimersLinked', Clocked, Sorted,
           NEW t \in Timers, ExecuteRequest(t)
    PROVE  Clocked' /\ Sorted'
<1>1. TimerTypeOK /\ TimerTypeOK' /\ tick_count' = tick_count
  BY DEF TypeOK, ExecuteRequest
<1> DEFINE rest == Unlinked(t)
<1>2. /\ rest \in Seq(Timers) /\ ToSet(rest) = ToSet(timer_list) \ {t}
      /\ SortedBy(rest, Lateness, AlwaysDue)
  <2>1. SortedBy(RemoveFirst(timer_list, t), Lateness, AlwaysDue)
    BY <1>1, RemoveSorted DEF Sorted, TimerTypeOK
  <2>2. QED
    BY <1>1, <2>1, UnlinkedTimer DEF Sorted, Unlinked
<1>3. \A u \in Timers \ {t} : /\ age'[u] = age[u] /\ interval'[u] = interval[u]
                              /\ start_time'[u] = start_time[u]
                              /\ u \in periodic' <=> u \in periodic
                              /\ u \in active' <=> u \in active
  BY <1>1 DEF ExecuteRequest, ExecuteStart, ExecuteStop, ExecuteFree,
     TimerTypeOK
<1>4. ToSet(rest) \subseteq Timers \ {t} /\ ToSet(rest) \subseteq active
  BY <1>1, <1>2, ListedAreTimers DEF TimersLinked, TimerTypeOK
<1>5. SortedBy(rest, Lateness', AlwaysDue')
  <2> HIDE DEF rest
  <2>1. QED
    BY <1>2, <1>3, <1>4, OthersSorted
<1>6. CASE ExecuteStart(t)
  <2>1. Clocked'
    BY <1>1, <1>6, StartClocked
  <2>2. timer_list' = furi_event_loop_schedule_timer(
                          rest, t, start_time', interval')
    BY <1>6 DEF ExecuteStart
  <2> HIDE DEF rest
  <2>3. \A u \in ToSet(rest) \cup {t} :
           /\ u \in active'
           /\ u \in AlwaysDue' => Lateness'[u] >= 0
    <3>1. \A u \in ToSet(rest) \cup {t} : u \in active'
      BY <1>3, <1>4, <1>6 DEF ExecuteStart
    <3>2. \A u \in active' : u \in AlwaysDue' => Lateness'[u] >= 0
      BY <1>1, <2>1, AlwaysDueNotEarly
    <3>3. QED
      BY <3>1, <3>2
  <2>4. \A u \in ToSet(rest) \cup {t} :
           furi_event_loop_timer_get_remaining_time_private(
               start_time'[u], interval'[u]) = Left(Lateness'[u])
    BY <1>1, <2>1, <2>3, NextRemaining
  <2>5. Lateness'[t] <= 0
    <3>1. age'[t] = 0 /\ interval'[t] \in Nat
      BY <1>1, <1>6, IntervalFacts DEF ExecuteStart, TimerTypeOK
    <3>2. QED
      BY <3>1 DEF Lateness, Overdue
  <2>6. Lateness' \in [Timers -> Int]
    BY <1>1, NextLateness
  <2>7. SortedBy(timer_list', Lateness', AlwaysDue')
    BY <1>2, <1>5, <2>2, <2>3, <2>4, <2>5, <2>6, ScheduleSorted
  <2>8. QED
    BY <2>1, <2>7 DEF Sorted
<1>7. CASE ExecuteStop(t) \/ ExecuteFree(t)
  <2>1. timer_list' = rest /\ active' = active \ {t}
    BY <1>7 DEF ExecuteStop, ExecuteFree
  <2>2. Clocked'
    BY <1>1, <1>3, <2>1, OthersClocked DEF TimerTypeOK
  <2>3. QED
    BY <1>5, <2>1, <2>2 DEF Sorted
<1>8. QED
  BY <1>6, <1>7 DEF ExecuteRequest

\* furi_event_loop_process_expired_timers: a periodic timer is set back by the
\* whole intervals that have passed.
LEMMA SkipClocked ==
    ASSUME TimerTypeOK, Clocked, NEW t \in active, interval[t] > 0
    PROVE  LET x == (start_time[t] + Skipped(t)) % TickMod
               y == age[t] - Skipped(t)
           IN  /\ y \in 0 .. interval[t] - 1
               /\ (tick_count - x) % TickMod = y
<1> DEFINE sk == Skipped(t)
           x == (start_time[t] + sk) % TickMod
           y == age[t] - sk
<1>1. t \in Timers
  BY DEF TimerTypeOK
<1>2. /\ interval[t] \in TimerIntervals /\ interval[t] \in Nat \ {0}
      /\ tick_count \in 0 .. TickMod - 1
      /\ start_time[t] \in 0 .. TickMod - 1
  BY <1>1, ClockFacts
<1>3. /\ age[t] \in 0 .. interval[t] + MaxLate
      /\ (tick_count - start_time[t]) % TickMod = age[t]
  BY DEF Clocked, furi_event_loop_timer_get_elapsed_time
<1>4. age[t] \in Nat /\ age[t] \in 0 .. TickMod - 1
  BY <1>2, <1>3, AgeBelowTurn
<1>5. sk \in Nat /\ sk <= age[t] /\ age[t] - sk < interval[t]
  <2>1. sk = interval[t] * (age[t] \div interval[t])
    BY <1>2, <1>3 DEF Skipped, furi_event_loop_timer_get_elapsed_time
  <2>2. QED
    BY <1>2, <1>4, <2>1, WholeIntervals
<1> HIDE DEF sk
<1>6. y \in 0 .. interval[t] - 1 /\ y \in 0 .. TickMod - 1
  BY <1>2, <1>4, <1>5, IntervalFacts
<1>7. /\ x \in 0 .. TickMod - 1
      /\ x = start_time[t] + sk \/ x = start_time[t] + sk - TickMod
  <2>1. sk \in 0 .. TickMod - 1
    BY <1>4, <1>5, IntervalFacts
  <2>2. QED
    BY <1>2, <2>1, ModSum
<1>8. \/ age[t] = tick_count - start_time[t]
      \/ age[t] = tick_count - start_time[t] + TickMod
  BY <1>2, <1>3, ModOf
<1> HIDE DEF x
<1>9. /\ tick_count - x \in Int
      /\ tick_count - x = y \/ tick_count - x = y - TickMod
  BY <1>2, <1>4, <1>5, <1>6, <1>7, <1>8, IntervalFacts
<1> HIDE DEF y
<1>10. (tick_count - x) % TickMod = y
  BY <1>6, <1>9, ModIs
<1>11. QED
  BY <1>6, <1>10 DEF x, y, sk

LEMMA FireClocked ==
    ASSUME TimerTypeOK, Clocked, NEW t \in active,
           furi_event_loop_process_expired_timers(t), t \in periodic
    PROVE  /\ Clocked'
           /\ interval[t] = 0 \/ age'[t] <= interval[t]
<1>1. /\ t \in Timers /\ UNCHANGED <<tick_count, active, interval>>
      /\ start_time' =
            [start_time EXCEPT ![t] = (@ + Skipped(t)) % TickMod]
      /\ age' = [age EXCEPT ![t] = @ - Skipped(t)]
  BY DEF furi_event_loop_process_expired_timers, TimerTypeOK
<1>2. /\ interval[t] \in Nat /\ age[t] \in Int
      /\ start_time[t] \in 0 .. TickMod - 1
      /\ tick_count \in 0 .. TickMod - 1
      /\ age[t] \in 0 .. interval[t] + MaxLate
  BY <1>1, ClockFacts DEF Clocked
<1>3. age'[t] = age[t] - Skipped(t)
      /\ start_time'[t] = (start_time[t] + Skipped(t)) % TickMod
  BY <1>1 DEF TimerTypeOK
<1>4. /\ age'[t] \in 0 .. interval[t] + MaxLate
      /\ interval[t] > 0 =>
            /\ (tick_count - start_time'[t]) % TickMod = age'[t]
            /\ age'[t] <= interval[t]
  <2>1. CASE interval[t] = 0
    BY <1>2, <1>3, <2>1 DEF Skipped
  <2>2. CASE interval[t] > 0
    <3>1. /\ age'[t] \in 0 .. interval[t] - 1
          /\ (tick_count - start_time'[t]) % TickMod = age'[t]
      BY <1>3, <2>2, SkipClocked
    <3>2. QED
      BY <1>2, <3>1, TimerAssumption
  <2>3. QED
    BY <1>2, <2>1, <2>2
<1>5. \A u \in active' \ {t} : /\ u \in active
                               /\ age'[u] = age[u]
                               /\ start_time'[u] = start_time[u]
  BY <1>1 DEF TimerTypeOK
<1>6. ASSUME NEW u \in active'
      PROVE  /\ age'[u] \in 0 .. interval'[u] + MaxLate
             /\ interval'[u] > 0 =>
                   (tick_count' - start_time'[u]) % TickMod = age'[u]
  <2>1. CASE u = t
    BY <1>1, <1>4, <2>1
  <2>2. CASE u # t
    BY <1>1, <1>5, <2>2
       DEF Clocked, furi_event_loop_timer_get_elapsed_time
  <2>3. QED
    BY <2>1, <2>2
<1>7. Clocked'
  BY <1>6 DEF Clocked, furi_event_loop_timer_get_elapsed_time
<1>8. QED
  BY <1>2, <1>4, <1>7

LEMMA FireClock ==
    ASSUME TypeOK, TypeOK', TimersLinked, TimersLinked', Clocked, Sorted,
           NEW t \in Timers, furi_event_loop_process_expired_timers(t)
    PROVE  Clocked' /\ Sorted'
<1>1. TimerTypeOK /\ TimerTypeOK'
  BY DEF TypeOK
<1>2. /\ UNCHANGED <<tick_count, periodic, interval>>
      /\ timer_list # <<>> /\ t = Head(timer_list)
      /\ timer_list \in Seq(Timers) /\ IsInjective(timer_list)
  BY <1>1 DEF furi_event_loop_process_expired_timers, FrontExpired,
     TimerTypeOK, TimersLinked
<1> DEFINE rest == Tail(timer_list)
<1>3. /\ rest \in Seq(Timers) /\ t \notin ToSet(rest)
      /\ ToSet(timer_list) = ToSet(rest) \cup {t}
      /\ SortedBy(rest, Lateness, AlwaysDue)
  <2>1. /\ rest \in Seq(Timers) /\ t \notin ToSet(rest)
        /\ ToSet(timer_list) = ToSet(rest) \cup {t}
    BY <1>2, PopList
  <2>2. SortedBy(rest, Lateness, AlwaysDue)
    BY <1>2, TailSorted DEF Sorted
  <2>3. QED
    BY <2>1, <2>2
<1> HIDE DEF rest
<1>4. \A u \in Timers \ {t} : /\ age'[u] = age[u]
                              /\ start_time'[u] = start_time[u]
                              /\ u \in active' <=> u \in active
  BY <1>1 DEF furi_event_loop_process_expired_timers, TimerTypeOK
<1>5. ToSet(rest) \subseteq Timers /\ ToSet(rest) \subseteq active /\ t \in active
  BY <1>2, <1>3, ListedAreTimers DEF TimersLinked
<1>6. SortedBy(rest, Lateness', AlwaysDue')
  BY <1>2, <1>3, <1>4, <1>5, OthersSorted
<1>7. CASE t \in periodic
  <2>1. Clocked' /\ (interval[t] = 0 \/ age'[t] <= interval[t])
    BY <1>1, <1>5, <1>7, FireClocked
  <2>2. /\ timer_list' = furi_event_loop_schedule_timer(
                             rest, t, start_time', interval')
        /\ active' = active
    BY <1>2, <1>7 DEF furi_event_loop_process_expired_timers, rest
  <2>3. \A u \in ToSet(rest) \cup {t} :
           /\ u \in AlwaysDue' => Lateness'[u] >= 0
           /\ furi_event_loop_timer_get_remaining_time_private(
                  start_time'[u], interval'[u]) = Left(Lateness'[u])
    BY <1>1, <1>2, <1>5, <2>1, <2>2, AlwaysDueNotEarly, NextRemaining
  <2>4. t \in AlwaysDue' \/ Lateness'[t] <= 0
    <3>1. age'[t] \in Int /\ interval[t] \in Nat
      BY <1>1, ClockFacts DEF TimerTypeOK
    <3>2. QED
      BY <1>2, <1>7, <2>1, <3>1 DEF AlwaysDue, Lateness, Overdue
  <2>5. Lateness' \in [Timers -> Int]
    BY <1>1, NextLateness
  <2>6. SortedBy(timer_list', Lateness', AlwaysDue')
    BY <1>3, <1>6, <2>2, <2>3, <2>4, <2>5, ScheduleSorted
  <2>7. QED
    BY <2>1, <2>6 DEF Sorted
<1>8. CASE t \notin periodic
  <2>1. timer_list' = rest /\ active' = active \ {t}
    BY <1>8 DEF furi_event_loop_process_expired_timers, rest
  <2>2. Clocked'
    BY <1>1, <1>2, <1>4, <2>1, OthersClocked DEF TimerTypeOK
  <2>3. QED
    BY <1>6, <2>1, <2>2 DEF Sorted
<1>9. QED
  BY <1>7, <1>8
-----------------------------------------------------------------------------
(* The tick interrupt.                                                     *)

LEMMA TickClocked ==
    ASSUME TimerTypeOK, Clocked, TickTimers
    PROVE  Clocked'
<1> SUFFICES ASSUME NEW t \in active
             PROVE  /\ age'[t] \in 0 .. interval[t] + MaxLate
                    /\ interval[t] > 0 =>
                          (tick_count' - start_time[t]) % TickMod = age'[t]
  BY DEF TickTimers, Clocked, furi_event_loop_timer_get_elapsed_time
<1>1. /\ t \in Timers
      /\ interval[t] > 0 => Aging(t)
      /\ tick_count' = (tick_count + 1) % TickMod
      /\ age' = [u \in Timers |-> IF Aging(u) THEN age[u] + 1 ELSE age[u]]
  BY DEF TimerTypeOK, TickTimers
<1>2. /\ interval[t] \in TimerIntervals /\ interval[t] \in Nat
      /\ tick_count \in 0 .. TickMod - 1
      /\ start_time[t] \in 0 .. TickMod - 1
      /\ age[t] \in 0 .. interval[t] + MaxLate
      /\ interval[t] > 0 => (tick_count - start_time[t]) % TickMod = age[t]
  BY <1>1, ClockFacts DEF Clocked, furi_event_loop_timer_get_elapsed_time
<1>3. MaxLate \in Nat
  BY TimerAssumption
<1>4. age'[t] \in 0 .. interval[t] + MaxLate
  BY <1>1, <1>2, <1>3 DEF Aging
<1>5. ASSUME interval[t] > 0
      PROVE  (tick_count' - start_time[t]) % TickMod = age'[t]
  <2>1. age'[t] = age[t] + 1 /\ age[t] < interval[t] + MaxLate
    BY <1>1, <1>5 DEF Aging
  <2>2. age'[t] \in 0 .. TickMod - 1
    BY <1>2, <1>4, AgeBelowTurn
  <2>3. \/ age[t] = tick_count - start_time[t]
        \/ age[t] = tick_count - start_time[t] + TickMod
    BY <1>2, <1>5, ModOf
  <2>4. /\ tick_count' \in 0 .. TickMod - 1
        /\ \/ tick_count' = tick_count + 1
           \/ tick_count' = tick_count + 1 - TickMod
    <3>1. 1 \in 0 .. TickMod - 1
      BY TimerAssumption
    <3>2. QED
      BY <1>1, <1>2, <3>1, ModSum
  <2>5. /\ tick_count' - start_time[t] \in Int
        /\ \/ tick_count' - start_time[t] = age'[t]
           \/ tick_count' - start_time[t] = age'[t] - TickMod
    BY <1>2, <2>1, <2>2, <2>3, <2>4, IntervalFacts
  <2>6. QED
    BY <2>2, <2>5, ModIs
<1>6. QED
  BY <1>4, <1>5

\* All timers get later together; one of interval 0, which stops counting at
\* MaxLate, has by then been overtaken by nobody.
LEMMA TickSorted ==
    ASSUME TimerTypeOK, TimersLinked, Clocked, Sorted, TickTimers
    PROVE  Sorted'
<1>1. /\ UNCHANGED <<timer_list, periodic, active, interval>>
      /\ \A u \in active : interval[u] > 0 => Aging(u)
      /\ age' = [u \in Timers |-> IF Aging(u) THEN age[u] + 1 ELSE age[u]]
  BY DEF TickTimers
<1>2. MaxLate \in Nat
  BY TimerAssumption
<1>3. \A i \in 1 .. Len(timer_list) : timer_list[i] \in active
  <2>1. \A i \in 1 .. Len(timer_list) : timer_list[i] \in ToSet(timer_list)
    BY LenProperties DEF ToSet, TimerTypeOK
  <2>2. QED
    BY <2>1, ListedAreTimers DEF TimerTypeOK, TimersLinked
<1>4. AlwaysDue' = AlwaysDue
  BY <1>1 DEF AlwaysDue
<1>5. ASSUME NEW u \in active
      PROVE  /\ u \in Timers /\ interval[u] \in Nat /\ age[u] \in Int
             /\ age[u] >= 0 /\ age[u] <= interval[u] + MaxLate
             /\ Lateness[u] = age[u] - interval[u]
             /\ Lateness'[u] = age'[u] - interval[u]
             /\ age'[u] = IF age[u] < interval[u] + MaxLate
                          THEN age[u] + 1 ELSE age[u]
             /\ interval[u] > 0 => age[u] < interval[u] + MaxLate
  <2>1. u \in Timers
    BY DEF TimerTypeOK
  <2>2. interval[u] \in Nat /\ age[u] \in 0 .. interval[u] + MaxLate
    BY <2>1, ClockFacts DEF Clocked
  <2>3. age[u] \in Int /\ age[u] >= 0 /\ age[u] <= interval[u] + MaxLate
    BY <1>2, <2>2
  <2>4. /\ Lateness[u] = age[u] - interval[u]
        /\ Lateness'[u] = age'[u] - interval[u]
    BY <1>1, <2>1 DEF Lateness, Overdue
  <2>5. /\ age'[u] = IF age[u] < interval[u] + MaxLate
                     THEN age[u] + 1 ELSE age[u]
        /\ interval[u] > 0 => age[u] < interval[u] + MaxLate
    BY <1>1, <2>1 DEF Aging
  <2>6. QED
    BY <2>1, <2>2, <2>3, <2>4, <2>5
<1>6. ASSUME NEW u \in active, NEW v \in active,
             IF v \in AlwaysDue
             THEN Lateness[u] >= 0 ELSE Lateness[v] <= Lateness[u]
      PROVE  IF v \in AlwaysDue
             THEN Lateness'[u] >= 0 ELSE Lateness'[v] <= Lateness'[u]
  <2>1. CASE v \in AlwaysDue
    BY <1>2, <1>5, <1>6, <2>1
  <2>2. CASE v \notin AlwaysDue
    BY <1>2, <1>5, <1>6, <2>2
  <2>3. QED
    BY <2>1, <2>2
<1>7. QED
  BY <1>1, <1>3, <1>4, <1>6 DEF Sorted, SortedBy
-----------------------------------------------------------------------------
clockVars ==
    <<tick_count, timer_list, periodic, active, interval, start_time, age>>

LEMMA ClockKept ==
    ASSUME Clocked, Sorted, UNCHANGED clockVars
    PROVE  Clocked' /\ Sorted'
<1>1. Lateness' = Lateness /\ AlwaysDue' = AlwaysDue
  BY DEF clockVars, Lateness, Overdue, AlwaysDue
<1>2. QED
  BY <1>1 DEF clockVars, Clocked, furi_event_loop_timer_get_elapsed_time, Sorted

\* A timer that is allocated is not running yet.
LEMMA TimerCallClock ==
    ASSUME TypeOK, TypeOK', TimersLinked, Clocked, Sorted, NEW t \in Timers,
           TimerCall(t)
    PROVE  Clocked' /\ Sorted'
<1>1. ASSUME NEW p \in BOOLEAN, furi_event_loop_timer_alloc(t, p)
      PROVE  Clocked' /\ Sorted'
  <2>1. /\ UNCHANGED <<tick_count, timer_list, active, interval, start_time,
                       age>>
        /\ t \notin ToSet(timer_list)
        /\ \A u \in Timers \ {t} : u \in periodic' <=> u \in periodic
    BY <1>1 DEF furi_event_loop_timer_alloc, TimersLinked
  <2>2. timer_list \in Seq(Timers) /\ ToSet(timer_list) \subseteq Timers
    BY ListedAreTimers DEF TypeOK, TimerTypeOK
  <2>3. Clocked'
    BY <2>1 DEF Clocked, furi_event_loop_timer_get_elapsed_time
  <2>4. SortedBy(timer_list, Lateness', AlwaysDue')
    BY <2>1, <2>2, OthersSorted DEF Sorted
  <2>5. QED
    BY <2>1, <2>3, <2>4 DEF Sorted
<1>2. CASE UNCHANGED clockVars
  BY <1>2, ClockKept
<1>3. ASSUME NEW i \in Intervals, furi_event_loop_timer_start(t, i)
      PROVE  UNCHANGED clockVars
  BY <1>3 DEF furi_event_loop_timer_start,
     furi_event_loop_timer_enqueue_request, clockVars
<1>4. ASSUME \/ furi_event_loop_timer_restart(t)
             \/ furi_event_loop_timer_stop(t)
             \/ furi_event_loop_timer_free(t)
      PROVE  UNCHANGED clockVars
  BY <1>4 DEF furi_event_loop_timer_restart, furi_event_loop_timer_stop,
     furi_event_loop_timer_free, furi_event_loop_timer_enqueue_request,
     clockVars
<1>5. QED
  BY <1>1, <1>2, <1>3, <1>4 DEF TimerCall

LEMMA NextClock ==
    /\ TypeOK /\ TypeOK' /\ TimersLinked /\ TimersLinked'
    /\ Clocked /\ Sorted /\ [Next]_vars
    => Clocked' /\ Sorted'
<1> SUFFICES ASSUME TypeOK, TypeOK', TimersLinked, TimersLinked', Clocked,
                    Sorted, [Next]_vars
             PROVE  Clocked' /\ Sorted'
  OBVIOUS
<1>1. CASE UNCHANGED clockVars
  BY <1>1, ClockKept
<1>2. ASSUME NEW t \in Timers, TimerCall(t)
      PROVE  Clocked' /\ Sorted'
  BY <1>2, TimerCallClock
<1>3. CASE furi_event_loop_process_timer_queue
  BY <1>3, RequestClock DEF furi_event_loop_process_timer_queue
<1>4. ASSUME NEW t \in Timers, FireTimer(t)
      PROVE  Clocked' /\ Sorted'
  BY <1>4, FireClock DEF FireTimer
<1>5. CASE RunLoop
  BY <1>1, <1>3, <1>4, <1>5
     DEF RunLoop, EnterWait, Wake, PopWaiting,
         furi_event_loop_poll_process_event, ItemCallbackReturns,
         TimerQueueProcessed, furi_event_loop_process_pending_callbacks,
         PendingCallbackReturns, furi_event_loop_process_tick,
         TimedCallbackReturns, LoopReleased, timerVars, timerFields, clockVars
<1>6. CASE UserApi
  BY <1>1, <1>2, <1>6
     DEF UserApi, furi_event_loop_message_queue_subscribe,
         furi_event_loop_message_queue_unsubscribe, furi_event_loop_stop,
         furi_event_loop_pend_callback, furi_event_loop_tick_set,
         furi_event_loop_run, furi_event_loop_free, timerVars, timerFields,
         clockVars
<1>7. ASSUME NEW c \in Callers, QueueApi(c) \/ furi_event_loop_link_notify(c)
      PROVE  Clocked' /\ Sorted'
  BY <1>1, <1>7
     DEF QueueApi, furi_message_queue_put, furi_message_queue_get,
         furi_message_queue_reset, QueueAccess, furi_event_loop_signal_callback,
         furi_event_loop_link_notify, timerVars, timerFields, clockVars
<1>8. CASE Tick
  BY <1>8, TickClocked, TickSorted DEF Tick, TypeOK
<1>9. CASE UNCHANGED vars
  BY <1>1, <1>9 DEF vars, timerVars, timerFields, clockVars
<1>10. QED
  BY <1>5, <1>6, <1>7, <1>8, <1>9 DEF Next

\* The list of running timers is sorted by deadline at all times, and the
\* elapsed time read from the wrapped counter is the real one.
THEOREM TimersStaySorted == Spec => [](Clocked /\ Sorted)
<1>1. Init => Clocked /\ Sorted
  <2>1. ASSUME Init
        PROVE  Clocked /\ Sorted
    <3>1. active = {} /\ timer_list = <<>>
      BY <2>1 DEF Init, TimerInit
    <3>2. Clocked
      BY <3>1 DEF Clocked
    <3>3. Len(<<>>) = 0
      OBVIOUS
    <3>4. Sorted
      BY <3>1, <3>3 DEF Sorted, SortedBy
    <3>5. QED
      BY <3>2, <3>4
  <2>2. QED
    BY <2>1
<1>2. QED
  BY <1>1, TypeCorrect, TimersStayLinked, NextClock, PTL DEF Spec

LEMMA FireIsDue ==
    ASSUME TypeOK, TimersLinked, Clocked, Sorted, NEW t \in Timers,
           FireTimer(t)
    PROVE  /\ age[t] >= interval[t]
           /\ \A u \in active :
                interval[u] > 0 \/ u \notin periodic =>
                    Overdue(u) <= Overdue(t)
<1>1. TimerTypeOK
  BY DEF TypeOK
<1>2. /\ timer_list # <<>> /\ t = Head(timer_list)
      /\ furi_event_loop_timer_get_elapsed_time(t) >= interval[t]
  BY DEF FireTimer, furi_event_loop_process_expired_timers, FrontExpired,
     furi_event_loop_timer_is_expired
<1>3. /\ timer_list \in Seq(Timers) /\ Len(timer_list) \in Nat \ {0}
      /\ t = timer_list[1] /\ DOMAIN timer_list = 1 .. Len(timer_list)
  BY <1>1, <1>2, EmptySeq, LenProperties, HeadTailProperties DEF TimerTypeOK
<1>4. t \in active
  BY <1>3 DEF TimersLinked, ToSet
<1>5. age[t] >= interval[t]
  <2>1. /\ interval[t] \in Nat /\ age[t] \in 0 .. interval[t] + MaxLate
        /\ interval[t] > 0 =>
              furi_event_loop_timer_get_elapsed_time(t) = age[t]
    BY <1>1, <1>4, ClockFacts DEF Clocked
  <2>2. age[t] >= 0
    BY <2>1, TimerAssumption
  <2>3. QED
    BY <1>2, <2>1, <2>2
<1>6. ASSUME NEW u \in active, interval[u] > 0 \/ u \notin periodic
      PROVE  Overdue(u) <= Overdue(t)
  <2>1. u \in Timers /\ u \in ToSet(timer_list)
    BY <1>1 DEF TimerTypeOK, TimersLinked
  <2>2. PICK j \in 1 .. Len(timer_list) : timer_list[j] = u
    BY <1>3, <2>1 DEF ToSet
  <2>3. interval[u] \in Nat /\ Overdue(t) \in Int /\ Overdue(u) \in Int
    BY <1>1, <2>1, ClockFacts DEF Overdue
  <2>4. u \notin AlwaysDue
    BY <1>6, <2>3 DEF AlwaysDue
  <2>5. CASE j = 1
    BY <1>3, <2>2, <2>3, <2>5
  <2>6. CASE j > 1
    <3>1. Lateness[u] <= Lateness[t]
      BY <1>3, <2>2, <2>4, <2>6 DEF Sorted, SortedBy
    <3>2. QED
      BY <2>1, <3>1 DEF Lateness
  <2>7. QED
    BY <2>2, <2>5, <2>6
<1>7. QED
  BY <1>5, <1>6

\* A timer callback runs only when the interval has really passed since the
\* timer was started, however often the tick counter has wrapped around, and
\* never before that of a running timer that was due earlier.
THEOREM TimersFireWhenDue == Spec => FiresWhenDue
<1>1. TypeOK /\ TimersLinked /\ (Clocked /\ Sorted) /\ [Next]_vars =>
          [\A t \in Timers : FireTimer(t) =>
               /\ age[t] >= interval[t]
               /\ \A u \in active :
                    interval[u] > 0 \/ u \notin periodic =>
                        Overdue(u) <= Overdue(t)]_vars
  BY FireIsDue
<1>2. QED
  BY <1>1, TypeCorrect, TimersStayLinked, TimersStaySorted, PTL
     DEF Spec, FiresWhenDue
=============================================================================
