--------------------------- MODULE SequenceLemmas ---------------------------
(***************************************************************************)
(* What the operators on linked lists and queues of the models return and  *)
(* preserve, for sequences of any length.                                  *)
(***************************************************************************)
EXTENDS Integers, SequencesExt, SequenceTheorems, WellFoundedInduction, TLAPS

\* Every non-empty set of naturals has a least element.
LEMMA MinOfNat ==
    ASSUME NEW T \in SUBSET Nat, T # {}
    PROVE  Min(T) \in T /\ \A y \in T : Min(T) <= y
<1> DEFINE Less == {ss \in Nat \X Nat : ss[1] < ss[2]}
<1>1. IsWellFoundedOn(Less, Nat)
  BY NatLessThanWellFounded DEF OpToRel
<1>2. PICK x \in T : \A y \in T : ~(<<y, x>> \in Less)
  <2> HIDE DEF Less
  <2> QED BY <1>1, WFMin
<1>3. \A y \in T : x <= y
  <2> TAKE y \in T
  <2>1. <<y, x>> \notin Less
    BY <1>2
  <2> QED BY <2>1
<1>4. QED
  BY <1>3 DEF Min

\* Every non-empty set of naturals with a bound has a greatest element.
LEMMA MaxOfNat ==
    ASSUME NEW n \in Nat, NEW T \in SUBSET (0 .. n), T # {}
    PROVE  Max(T) \in T /\ \A y \in T : y <= Max(T)
<1> DEFINE U == {n - y : y \in T}
<1>1. \A u \in U : u \in Nat
  OBVIOUS
<1>2. U # {}
  OBVIOUS
<1>3. PICK x \in T : \A y \in T : n - x <= n - y
  <2>1. Min(U) \in U /\ \A u \in U : Min(U) <= u
    <3> HIDE DEF U
    <3> QED BY <1>1, <1>2, MinOfNat
  <2>2. PICK x \in T : Min(U) = n - x
    BY <2>1
  <2>3. \A y \in T : n - y \in U
    OBVIOUS
  <2> HIDE DEF U
  <2>4. QED
    BY <2>1, <2>2, <2>3
<1>4. \A y \in T : x >= y
  BY <1>3
<1>5. QED
  BY <1>4 DEF Max
-----------------------------------------------------------------------------
\* Appending to a list adds one element, and repeats none that is new.
LEMMA AppendList ==
    ASSUME NEW S, NEW s \in Seq(S), NEW e \in S
    PROVE  /\ Append(s, e) \in Seq(S)
           /\ ToSet(Append(s, e)) = ToSet(s) \cup {e}
           /\ IsInjective(s) /\ e \notin ToSet(s) => IsInjective(Append(s, e))
<1>1. /\ Append(s, e) \in Seq(S)
      /\ Len(Append(s, e)) = Len(s) + 1
      /\ \A i \in 1 .. Len(s) : Append(s, e)[i] = s[i]
      /\ Append(s, e)[Len(s) + 1] = e
  BY AppendProperties
<1>2. DOMAIN Append(s, e) = 1 .. Len(s) + 1 /\ DOMAIN s = 1 .. Len(s)
  BY <1>1, LenProperties
<1>3. ToSet(Append(s, e)) = ToSet(s) \cup {e}
  BY <1>1, <1>2 DEF ToSet
<1>4. IsInjective(s) /\ e \notin ToSet(s) => IsInjective(Append(s, e))
  BY <1>1, <1>2 DEF ToSet, IsInjective
<1>5. QED
  BY <1>1, <1>3, <1>4

\* Taking the front off a list.
LEMMA PopList ==
    ASSUME NEW S, NEW s \in Seq(S), s # <<>>
    PROVE  /\ Head(s) \in S
           /\ Tail(s) \in Seq(S)
           /\ ToSet(s) = ToSet(Tail(s)) \cup {Head(s)}
           /\ IsInjective(s) =>
                IsInjective(Tail(s)) /\ Head(s) \notin ToSet(Tail(s))
<1>1. /\ Head(s) \in S
      /\ Tail(s) \in Seq(S)
      /\ Len(Tail(s)) = Len(s) - 1
      /\ \A i \in 1 .. Len(Tail(s)) : Tail(s)[i] = s[i + 1]
  BY HeadTailProperties
<1>2. Len(s) \in Nat \ {0} /\ Head(s) = s[1]
  BY EmptySeq, LenProperties
<1>3. DOMAIN Tail(s) = 1 .. Len(s) - 1 /\ DOMAIN s = 1 .. Len(s)
  BY <1>1, LenProperties
<1>4. ToSet(s) = ToSet(Tail(s)) \cup {Head(s)}
  <2>1. ASSUME NEW i \in 1 .. Len(s)
        PROVE  s[i] \in ToSet(Tail(s)) \cup {Head(s)}
    <3>1. CASE i = 1
      BY <3>1, <1>2
    <3>2. CASE i # 1
      <4>1. i - 1 \in 1 .. Len(s) - 1 /\ Tail(s)[i - 1] = s[i]
        BY <3>2, <1>1, <1>2
      <4>2. QED
        BY <4>1, <1>3 DEF ToSet
    <3>3. QED
      BY <3>1, <3>2
  <2>2. QED
    BY <2>1, <1>1, <1>2, <1>3 DEF ToSet
<1>5. IsInjective(s) => IsInjective(Tail(s)) /\ Head(s) \notin ToSet(Tail(s))
  BY <1>1, <1>2, <1>3 DEF ToSet, IsInjective
<1>6. QED
  BY <1>1, <1>4, <1>5

\* Replacing an element leaves the others in the list.
LEMMA ReplaceInList ==
    ASSUME NEW S, NEW s \in Seq(S), NEW old, NEW new \in S
    PROVE  /\ ReplaceAll(s, old, new) \in Seq(S)
           /\ ToSet(s) \ {old} \subseteq ToSet(ReplaceAll(s, old, new))
           /\ ToSet(ReplaceAll(s, old, new)) \subseteq
                  (ToSet(s) \ {old}) \cup {new}
<1> DEFINE r == ReplaceAll(s, old, new)
<1>1. Len(s) \in Nat /\ DOMAIN s = 1 .. Len(s)
  BY LenProperties
<1>2. \A i \in 1 .. Len(s) : s[i] \in S
  BY ElementOfSeq
<1>3. r \in [1 .. Len(s) -> S]
  BY <1>2 DEF ReplaceAll
<1>4. r \in Seq(S)
  BY <1>1, <1>3, SeqDef
<1>5. DOMAIN r = 1 .. Len(s)
      /\ \A i \in 1 .. Len(s) : r[i] = IF s[i] = old THEN new ELSE s[i]
  BY DEF ReplaceAll
<1> HIDE DEF r
<1>6. ToSet(s) \ {old} \subseteq ToSet(r)
      /\ ToSet(r) \subseteq (ToSet(s) \ {old}) \cup {new}
  BY <1>1, <1>5 DEF ToSet
<1>7. QED
  BY <1>4, <1>6 DEF r

\* Unlinking the element at position k.
LEMMA RemoveAtList ==
    ASSUME NEW S, NEW s \in Seq(S), NEW k \in 1 .. Len(s)
    PROVE  /\ RemoveAt(s, k) \in Seq(S)
           /\ Len(RemoveAt(s, k)) = Len(s) - 1
           /\ \A i \in 1 .. Len(s) - 1 :
                 RemoveAt(s, k)[i] = IF i < k THEN s[i] ELSE s[i + 1]
<1> DEFINE a == SubSeq(s, 1, k - 1)
           b == SubSeq(s, k + 1, Len(s))
<1>1. Len(s) \in Nat /\ \A i \in 1 .. Len(s) : s[i] \in S
  BY LenProperties, ElementOfSeq
<1>2. /\ a \in Seq(S) /\ Len(a) = k - 1
      /\ \A i \in 1 .. k - 1 : a[i] = s[i]
  BY <1>1, SubSeqProperties
<1>3. /\ b \in Seq(S) /\ Len(b) = Len(s) - k
      /\ \A i \in 1 .. Len(s) - k : b[i] = s[k + i]
  <2>1. k + 1 \in Int /\ \A i \in k + 1 .. Len(s) : s[i] \in S
    BY <1>1
  <2>2. /\ b \in Seq(S)
        /\ Len(b) = IF k + 1 <= Len(s) THEN Len(s) - (k + 1) + 1 ELSE 0
        /\ \A i \in 1 .. Len(s) - (k + 1) + 1 : b[i] = s[(k + 1) + i - 1]
    BY <1>1, <2>1, SubSeqProperties
  <2> HIDE DEF b
  <2>3. QED
    BY <1>1, <2>2
<1> HIDE DEF a, b
<1>4. /\ a \o b \in Seq(S) /\ Len(a \o b) = Len(a) + Len(b)
      /\ \A i \in 1 .. Len(a) + Len(b) :
            (a \o b)[i] = IF i <= Len(a) THEN a[i] ELSE b[i - Len(a)]
  BY <1>2, <1>3, ConcatProperties
<1>5. \A i \in 1 .. Len(s) - 1 :
          (a \o b)[i] = IF i < k THEN s[i] ELSE s[i + 1]
  <2> TAKE i \in 1 .. Len(s) - 1
  <2>1. i \in 1 .. Len(a) + Len(b)
    BY <1>1, <1>2, <1>3
  <2>2. CASE i < k
    BY <2>1, <2>2, <1>2, <1>4
  <2>3. CASE i >= k
    <3>1. (a \o b)[i] = b[i - (k - 1)]
      BY <2>1, <2>3, <1>2, <1>4
    <3>2. i - (k - 1) \in 1 .. Len(s) - k /\ k + (i - (k - 1)) = i + 1
      BY <2>3, <1>1
    <3>3. QED
      BY <3>1, <3>2, <2>3, <1>3
  <2>4. i < k \/ i >= k
    BY <1>1
  <2>5. QED
    BY <2>2, <2>3, <2>4, Zenon
<1>6. RemoveAt(s, k) = a \o b
  BY DEF RemoveAt, a, b
<1>7. QED
  BY <1>1, <1>2, <1>3, <1>4, <1>5, <1>6

\* Unlinking an element.
LEMMA UnlinkList ==
    ASSUME NEW S, NEW s \in Seq(S), NEW e
    PROVE  /\ RemoveFirst(s, e) \in Seq(S)
           /\ ToSet(s) \ {e} \subseteq ToSet(RemoveFirst(s, e))
           /\ ToSet(RemoveFirst(s, e)) \subseteq ToSet(s)
           /\ IsInjective(s) => /\ IsInjective(RemoveFirst(s, e))
                                /\ e \notin ToSet(RemoveFirst(s, e))
<1>1. Len(s) \in Nat /\ DOMAIN s = 1 .. Len(s)
  BY LenProperties
<1>2. CASE ~\E i \in 1 .. Len(s) : s[i] = e
  BY <1>1, <1>2 DEF RemoveFirst, ToSet
<1>3. CASE \E i \in 1 .. Len(s) : s[i] = e
  <2> DEFINE I == {i \in 1 .. Len(s) : s[i] = e}
             k == Min(I)
             r == RemoveAt(s, k)
  <2>1. I \in SUBSET Nat /\ I # {}
    BY <1>3
  <2>2. k \in I
    <3> HIDE DEF I
    <3> QED BY <2>1, MinOfNat
  <2>3. RemoveFirst(s, e) = r
    BY <1>3, <2>1 DEF RemoveFirst, SelectInSeq
  <2>4. k \in 1 .. Len(s) /\ s[k] = e
    BY <2>2
  <2> HIDE DEF I, k
  <2>5. /\ r \in Seq(S) /\ Len(r) = Len(s) - 1
        /\ \A i \in 1 .. Len(s) - 1 : r[i] = IF i < k THEN s[i] ELSE s[i + 1]
    BY <2>4, RemoveAtList
  <2> HIDE DEF r
  <2>6. DOMAIN r = 1 .. Len(s) - 1
    BY <2>5, LenProperties
  <2>7. ToSet(s) \ {e} \subseteq ToSet(r)
    <3> SUFFICES ASSUME NEW i \in 1 .. Len(s), s[i] # e
                 PROVE  \E j \in 1 .. Len(s) - 1 : r[j] = s[i]
      BY <1>1, <2>6 DEF ToSet
    <3>1. CASE i < k
      <4>1. i \in 1 .. Len(s) - 1 /\ r[i] = s[i]
        BY <3>1, <1>1, <2>4, <2>5
      <4>2. QED
        BY <4>1
    <3>2. CASE i > k
      <4>1. i - 1 \in 1 .. Len(s) - 1 /\ r[i - 1] = s[i]
        BY <3>2, <1>1, <2>4, <2>5
      <4>2. QED
        BY <4>1
    <3>3. QED
      BY <3>1, <3>2, <2>4, <1>1
  <2>8. ToSet(r) \subseteq ToSet(s)
    BY <1>1, <2>4, <2>5, <2>6 DEF ToSet
  <2>9. ASSUME IsInjective(s)
        PROVE  IsInjective(r) /\ e \notin ToSet(r)
    <3>1. \A i, j \in 1 .. Len(s) : s[i] = s[j] => i = j
      BY <2>9, <1>1 DEF IsInjective
    <3>2. \A i, j \in 1 .. Len(s) - 1 : r[i] = r[j] => i = j
      BY <3>1, <1>1, <2>4, <2>5
    <3>3. \A i \in 1 .. Len(s) - 1 : r[i] # s[k]
      BY <3>1, <1>1, <2>4, <2>5
    <3>4. QED
      BY <3>2, <3>3, <2>4, <2>6 DEF IsInjective, ToSet
  <2>10. QED
    BY <2>3, <2>5, <2>7, <2>8, <2>9
<1>4. QED
  BY <1>2, <1>3

\* Linking an element in front of position k.
LEMMA InsertList ==
    ASSUME NEW S, NEW s \in Seq(S), NEW k \in 1 .. Len(s) + 1, NEW e \in S
    PROVE  /\ InsertAt(s, k, e) \in Seq(S)
           /\ Len(InsertAt(s, k, e)) = Len(s) + 1
           /\ \A i \in 1 .. Len(s) + 1 :
                 InsertAt(s, k, e)[i] = IF i < k THEN s[i]
                                        ELSE IF i = k THEN e ELSE s[i - 1]
           /\ ToSet(InsertAt(s, k, e)) = ToSet(s) \cup {e}
           /\ IsInjective(s) /\ e \notin ToSet(s) =>
                 IsInjective(InsertAt(s, k, e))
<1> DEFINE a == SubSeq(s, 1, k - 1)
           b == SubSeq(s, k, Len(s))
           r == InsertAt(s, k, e)
<1>1. Len(s) \in Nat /\ DOMAIN s = 1 .. Len(s)
      /\ \A i \in 1 .. Len(s) : s[i] \in S
  BY LenProperties, ElementOfSeq
<1>2. /\ a \in Seq(S) /\ Len(a) = k - 1
      /\ \A i \in 1 .. k - 1 : a[i] = s[i]
  BY <1>1, SubSeqProperties
<1>3. /\ b \in Seq(S) /\ Len(b) = Len(s) - k + 1
      /\ \A i \in 1 .. Len(s) - k + 1 : b[i] = s[k + i - 1]
  BY <1>1, SubSeqProperties
<1> HIDE DEF a, b
<1>4. Append(a, e) = a \o <<e>>
  BY <1>2, AppendIsConcat
<1>5. /\ Append(a, e) \in Seq(S) /\ Len(Append(a, e)) = k
      /\ \A i \in 1 .. k : Append(a, e)[i] = IF i < k THEN s[i] ELSE e
  BY <1>2, AppendProperties
<1>6. /\ Append(a, e) \o b \in Seq(S)
      /\ Len(Append(a, e) \o b) = k + Len(b)
      /\ \A i \in 1 .. k + Len(b) :
            (Append(a, e) \o b)[i] =
                IF i <= k THEN Append(a, e)[i] ELSE b[i - k]
  BY <1>3, <1>5, ConcatProperties
<1>7. r = Append(a, e) \o b
  BY <1>4 DEF InsertAt, a, b
<1> HIDE DEF r
<1>8. /\ r \in Seq(S) /\ Len(r) = Len(s) + 1
      /\ \A i \in 1 .. Len(s) + 1 :
            r[i] = IF i < k THEN s[i] ELSE IF i = k THEN e ELSE s[i - 1]
  BY <1>1, <1>3, <1>5, <1>6, <1>7
<1>9. DOMAIN r = 1 .. Len(s) + 1
  BY <1>8, LenProperties
<1>10. ToSet(r) = ToSet(s) \cup {e}
  <2>1. ASSUME NEW i \in 1 .. Len(s)
        PROVE  \E j \in 1 .. Len(s) + 1 : r[j] = s[i]
    <3>1. CASE i < k
      BY <3>1, <1>1, <1>8
    <3>2. CASE i >= k
      <4>1. i + 1 \in 1 .. Len(s) + 1 /\ r[i + 1] = s[i]
        BY <3>2, <1>1, <1>8
      <4>2. QED
        BY <4>1
    <3>3. QED
      BY <3>1, <3>2
  <2>2. r[k] = e /\ k \in 1 .. Len(s) + 1
    BY <1>1, <1>8
  <2>3. \A j \in 1 .. Len(s) + 1 : j # k => \E i \in 1 .. Len(s) : r[j] = s[i]
    BY <1>1, <1>8
  <2>4. ToSet(s) = {s[i] : i \in 1 .. Len(s)}
        /\ ToSet(r) = {r[i] : i \in 1 .. Len(s) + 1}
    BY <1>1, <1>9 DEF ToSet
  <2>5. ToSet(s) \cup {e} \subseteq ToSet(r)
    BY <2>1, <2>2, <2>4
  <2>6. ToSet(r) \subseteq ToSet(s) \cup {e}
    BY <2>2, <2>3, <2>4
  <2>7. QED
    BY <2>5, <2>6
<1>11. ASSUME IsInjective(s), e \notin ToSet(s)
       PROVE  IsInjective(r)
  <2>1. \A i, j \in 1 .. Len(s) : s[i] = s[j] => i = j
    BY <1>11, <1>1 DEF IsInjective
  <2>2. \A i \in 1 .. Len(s) : s[i] # e
    BY <1>11, <1>1 DEF ToSet
  <2>3. \A i, j \in 1 .. Len(s) + 1 : r[i] = r[j] => i = j
    BY <2>1, <2>2, <1>1, <1>8
  <2>4. QED
    BY <2>3, <1>9 DEF IsInjective
<1>12. QED
  BY <1>8, <1>10, <1>11 DEF r
=============================================================================
