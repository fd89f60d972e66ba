------------------------ MODULE RetransmitTimerProofs ------------------------
(***************************************************************************)
(* Proofs about RetransmitTimer for every choice of the timeout constants, *)
(* the retransmission limit and the length of a pass.                      *)
(***************************************************************************)
EXTENDS RetransmitTimer, FiniteSetTheorems, TLAPS

\* The last pass found the entry not yet due, or restarted its timeout.
PassedInTime ==
  state = "queued" => lastPass <= start + total /\ now <= lastPass + Pass

IInv == TypeOK /\ PassedInTime /\ SpanFollowsTimeout

LEMMA OnePassMore ==
  ASSUME NEW x \in Int
  PROVE  (x - 1) * Pass + Pass = ((x + 1) - 1) * Pass
  BY PassAssumption

LEMMA IInvInit == Init => IInv
  <1>. SUFFICES ASSUME Init PROVE IInv
    OBVIOUS
  <1>1. ack \in Nat \ {0} /\ (1 - 1) * Pass = 0
    BY AckAssumption, PassAssumption DEF Init
  <1>2. TypeOK
    BY <1>1, MaxRetransmitAssumption DEF Init, TypeOK
  <1>3. PassedInTime
    BY <1>1, PassAssumption DEF Init, PassedInTime
  <1>4. SpanFollowsTimeout
    BY <1>1 DEF Init, SpanFollowsTimeout
  <1>. QED  BY <1>2, <1>3, <1>4 DEF IInv

LEMMA IInvNext == IInv /\ [Next]_vars => IInv'
  <1>. SUFFICES ASSUME IInv, [Next]_vars PROVE IInv'
    OBVIOUS
  <1>. USE DEF entry
  <1>1. /\ now \in Nat /\ start \in Nat /\ lastPass \in Nat /\ start <= now /\ lastPass <= now
        /\ total \in Nat \ {0} /\ ack \in Nat \ {0} /\ ack \in AckMin..AckMax
        /\ xmitcounter \in 1..MAX_RETRANSMIT /\ xmitcounter \in Int
        /\ Pass \in Nat \ {0} /\ MAX_RETRANSMIT \in Nat
    BY AckAssumption, PassAssumption, MaxRetransmitAssumption DEF IInv, TypeOK
  <1>2. CASE Tick
    <2>1. TypeOK'
      <3>1. copies \in Seq(0..(now + 1))
        BY <1>1 DEF IInv, TypeOK
      <3>. QED  BY <1>1, <1>2, <3>1 DEF IInv, TypeOK, Tick
    <2>2. PassedInTime' /\ SpanFollowsTimeout'
      BY <1>1, <1>2 DEF IInv, Tick, PassedInTime, SpanFollowsTimeout
    <2>. QED  BY <2>1, <2>2 DEF IInv
  <1>3. CASE NotDue
    <2>1. TypeOK'
      BY <1>1, <1>3 DEF IInv, TypeOK, NotDue
    <2>2. now < start + total
      BY <1>1, <1>3 DEF NotDue, TimeoutGet
    <2>3. PassedInTime' /\ SpanFollowsTimeout'
      BY <1>1, <1>3, <2>2 DEF IInv, NotDue, PassedInTime, SpanFollowsTimeout
    <2>. QED  BY <2>1, <2>3 DEF IInv
  <1>4. CASE Retransmit
    <2>1. /\ now \in (start + total)..(start + total + Pass)
          /\ start \in (total - ack)..(total - ack + (xmitcounter - 1) * Pass)
      BY <1>1, <1>4 DEF IInv, Retransmit, TimeoutGet, PassedInTime, SpanFollowsTimeout
    <2>2. /\ total' = 2 * total /\ start' = now /\ lastPass' = now /\ now' = now /\ ack' = ack
          /\ xmitcounter' = xmitcounter + 1 /\ state' = "queued"
          /\ copies' = Append(copies, now) /\ xmitcounter < MAX_RETRANSMIT
      BY <1>4 DEF Retransmit, Restart
    <2>3. TypeOK'
      <3>1. copies \in Seq(0..now) /\ Len(copies) = xmitcounter
        BY DEF IInv, TypeOK
      <3>2. copies' \in Seq(0..now) /\ Len(copies') = xmitcounter + 1
        BY <1>1, <2>2, <3>1
      <3>. QED  BY <1>1, <1>4, <2>2, <3>2 DEF TypeOK
    <2>4. PassedInTime'
      BY <1>1, <2>2 DEF PassedInTime
    <2>5. SpanFollowsTimeout'
      <3>. DEFINE late == (xmitcounter - 1) * Pass
      <3>1. late \in Int
        BY <1>1
      <3>2. late + Pass = (xmitcounter' - 1) * Pass
        BY <1>1, <2>2, OnePassMore
      <3>. HIDE DEF late
      <3>3. now \in (2 * total - ack)..(2 * total - ack + (late + Pass))
        BY <1>1, <2>1, <3>1 DEF late
      <3>. QED  BY <2>2, <3>2, <3>3 DEF SpanFollowsTimeout
    <2>. QED  BY <2>3, <2>4, <2>5 DEF IInv
  <1>5. CASE GiveUp \/ Acknowledged
    <2>1. TypeOK'
      BY <1>1, <1>5 DEF IInv, TypeOK, GiveUp, Acknowledged, Restart
    <2>2. PassedInTime' /\ SpanFollowsTimeout'
      BY <1>5 DEF GiveUp, Acknowledged, PassedInTime, SpanFollowsTimeout
    <2>. QED  BY <2>1, <2>2 DEF IInv
  <1>6. CASE UNCHANGED vars
    BY <1>6 DEF vars, IInv, TypeOK, PassedInTime, SpanFollowsTimeout
  <1>. QED  BY <1>2, <1>3, <1>4, <1>5, <1>6 DEF Next, CheckPass

\* The ranges of the entry's clock, for any constants.
THEOREM TypeCorrect == Spec => []TypeOK
  <1>1. IInv => TypeOK
    BY DEF IInv
  <1>. QED  BY <1>1, IInvInit, IInvNext, PTL DEF Spec

\* The time between the first copy and the last is what the doublings add up to, and
\* at most one pass more for each copy.
THEOREM SpanFollowsTimeoutHolds == Spec => []SpanFollowsTimeout
  <1>1. IInv => SpanFollowsTimeout
    BY DEF IInv
  <1>. QED  BY <1>1, IInvInit, IInvNext, PTL DEF Spec

\* A timeout that has run out is acted upon within a pass of the loop.
THEOREM NeverOverdueHolds == Spec => []NeverOverdue
  <1>1. IInv => NeverOverdue
    BY PassAssumption DEF IInv, TypeOK, PassedInTime, NeverOverdue
  <1>. QED  BY <1>1, IInvInit, IInvNext, PTL DEF Spec

-----------------------------------------------------------------------------
(* The powers of two.                                                      *)

\* Two to the next power is twice as much: the subsets of 1..n+1 are those of 1..n, with
\* and without n + 1.
LEMMA PowerDoubles ==
  ASSUME NEW n \in Nat
  PROVE  2^(n + 1) = 2 * 2^n /\ 2^n \in Nat
  <1>. DEFINE S == 1..n
              With(A) == A \cup {n + 1}
              T == {With(A) : A \in SUBSET S}
  <1>1. /\ IsFiniteSet(S) /\ Cardinality(S) = n
        /\ IsFiniteSet(1..(n + 1)) /\ Cardinality(1..(n + 1)) = n + 1
    BY FS_Interval
  <1>2. /\ IsFiniteSet(SUBSET S) /\ Cardinality(SUBSET S) = 2^n
        /\ Cardinality(SUBSET (1..(n + 1))) = 2^(n + 1)
    BY <1>1, FS_SUBSET
  <1>3. n + 1 \notin S
    OBVIOUS
  <1>4. IsFiniteSet(T) /\ Cardinality(T) = Cardinality(SUBSET S)
    <2>1. [A \in SUBSET S |-> With(A)] \in Bijection(SUBSET S, T)
      <3>1. ASSUME NEW A \in SUBSET S, NEW B \in SUBSET S, With(A) = With(B) PROVE A = B
        <4>1. A = With(A) \ {n + 1} /\ B = With(B) \ {n + 1}
          BY <1>3
        <4>. QED  BY <3>1, <4>1
      <3>. DEFINE f == [A \in SUBSET S |-> With(A)]
      <3>2. f \in [SUBSET S -> T] /\ \A A \in SUBSET S : f[A] = With(A)
        OBVIOUS
      <3>3. \A B \in T : \E A \in SUBSET S : f[A] = B
        BY <3>2
      <3>4. \A A, B \in SUBSET S : f[A] = f[B] => A = B
        BY <3>1, <3>2
      <3>. HIDE DEF f, T, With
      <3>. QED
        BY <3>2, <3>3, <3>4 DEF Bijection, Injection, Surjection, IsInjective
    <2>2. ExistsBijection(SUBSET S, T)
      BY <2>1 DEF ExistsBijection
    <2>. QED  BY <1>2, <2>2, FS_Bijection
  <1>5. (SUBSET S) \cap T = {}
    BY <1>3
  <1>6. SUBSET (1..(n + 1)) = (SUBSET S) \cup T
    <2>1. ASSUME NEW A \in SUBSET (1..(n + 1)) PROVE A \in ((SUBSET S) \cup T)
      <3>1. A \ {n + 1} \in SUBSET S
        OBVIOUS
      <3>2. CASE n + 1 \in A
        <4>1. A = With(A \ {n + 1})
          BY <3>2
        <4>. QED  BY <3>1, <4>1
      <3>3. CASE n + 1 \notin A
        <4>1. A = A \ {n + 1}
          BY <3>3
        <4>. QED  BY <3>1, <4>1
      <3>. QED  BY <3>2, <3>3
    <2>2. ASSUME NEW A \in ((SUBSET S) \cup T) PROVE A \in SUBSET (1..(n + 1))
      <3>1. S \subseteq 1..(n + 1) /\ n + 1 \in 1..(n + 1)
        OBVIOUS
      <3>. QED  BY <2>2, <3>1
    <2>. QED  BY <2>1, <2>2
  <1>7. Cardinality(((SUBSET S) \cup T)) = Cardinality(SUBSET S) + Cardinality(T) - Cardinality({})
    <2>. DEFINE P == SUBSET S
    <2>1. IsFiniteSet(P) /\ IsFiniteSet(T) /\ P \cap T = {}
      BY <1>2, <1>4, <1>5
    <2>. HIDE DEF P, T
    <2>2. Cardinality(P \cup T) = Cardinality(P) + Cardinality(T) - Cardinality(P \cap T)
      BY <2>1, FS_Union
    <2>. QED  BY <2>1, <2>2 DEF P
  <1>8. Cardinality({}) = 0 /\ Cardinality(SUBSET S) \in Nat
    BY <1>2, FS_EmptySet, FS_CardinalityType
  <1>9. 2^n \in Nat
    BY <1>2, <1>8
  <1>. HIDE DEF S, T
  <1>10. 2^(n + 1) = 2^n + 2^n
    <2>1. 2^(n + 1) = 2^n + 2^n - 0
      BY <1>2, <1>4, <1>6, <1>7, <1>8
    <2>. QED  BY <1>9, <2>1
  <1>. QED  BY <1>9, <1>10

LEMMA ProductsGrow ==
  ASSUME NEW a \in Int, NEW b \in Int, a <= b, NEW c \in Nat
  PROVE  a * c <= b * c
  OBVIOUS

\* While the entry waits, its timeout is what the doublings make of the first one, and
\* runs from the last copy.
Doubled ==
  state = "queued" => total = ack * 2^(xmitcounter - 1) /\ start = copies[xmitcounter]

PowInv == IInv /\ Doubled /\ BackoffRespected /\ GivesUpInTime

LEMMA PowInvInit == Init => PowInv
  <1>. SUFFICES ASSUME Init PROVE PowInv
    OBVIOUS
  <1>1. IInv
    BY IInvInit
  <1>2. Doubled
    <2>1. 2^(1 - 1) = 1
      OBVIOUS
    <2>2. ack \in Nat
      BY AckAssumption DEF Init
    <2>3. total = ack /\ start = 0 /\ xmitcounter = 1 /\ copies = <<0>>
      BY DEF Init
    <2>. QED  BY <2>1, <2>2, <2>3 DEF Doubled
  <1>3. BackoffRespected /\ GivesUpInTime
    BY DEF Init, BackoffRespected, GivesUpInTime
  <1>. QED  BY <1>1, <1>2, <1>3 DEF PowInv

LEMMA PowInvNext == PowInv /\ [Next]_vars => PowInv'
  <1>. SUFFICES ASSUME PowInv, [Next]_vars PROVE PowInv'
    OBVIOUS
  <1>. USE DEF entry
  <1>0. IInv /\ IInv'
    BY IInvNext DEF PowInv
  <1>1. /\ now \in Int /\ start \in Int /\ total \in Int /\ Pass \in Nat
        /\ ack \in Nat /\ AckMin <= ack /\ ack <= AckMax /\ AckMin \in Nat /\ AckMax \in Nat
        /\ xmitcounter \in Nat /\ 1 <= xmitcounter /\ xmitcounter <= MAX_RETRANSMIT
        /\ MAX_RETRANSMIT \in Nat /\ copies \in Seq(0..now) /\ Len(copies) = xmitcounter
    BY <1>0, AckAssumption, PassAssumption, MaxRetransmitAssumption DEF IInv, TypeOK
  <1>2. CASE Tick \/ NotDue \/ Acknowledged \/ UNCHANGED vars
    <2>1. Doubled' /\ BackoffRespected'
      BY <1>2 DEF PowInv, Doubled, BackoffRespected, Tick, NotDue, Acknowledged, vars
    <2>2. GivesUpInTime'
      BY <1>2 DEF PowInv, GivesUpInTime, Tick, NotDue, Acknowledged, vars
    <2>. QED  BY <1>0, <2>1, <2>2 DEF PowInv
  <1>3. ASSUME state = "queued", TimeoutGet = 0
        PROVE  /\ now \in (start + total)..(start + total + Pass)
               /\ 2^xmitcounter \in Nat /\ 2^(xmitcounter - 1) \in Nat
               /\ ack * 2^xmitcounter = 2 * total
    <2>1. now \in (start + total)..(start + total + Pass)
      <3>1. lastPass \in Int /\ lastPass <= start + total /\ now <= lastPass + Pass
        BY <1>0, <1>3 DEF IInv, TypeOK, PassedInTime
      <3>2. ~(total - now + start > 0)
        BY <1>1, <1>3 DEF TimeoutGet
      <3>. QED  BY <1>1, <3>1, <3>2
    <2>. DEFINE n == xmitcounter - 1
                p == 2^n
    <2>2. n \in Nat /\ n + 1 = xmitcounter
      BY <1>1
    <2>3. 2^xmitcounter = 2 * p /\ p \in Nat
      BY <2>2, PowerDoubles
    <2>4. total = ack * p
      BY <1>3 DEF PowInv, Doubled
    <2>. HIDE DEF p
    <2>5. ack * (2 * p) = 2 * (ack * p)
      BY <1>1, <2>3
    <2>. QED  BY <2>1, <2>3, <2>4, <2>5 DEF p
  <1>4. CASE Retransmit
    <2>1. /\ state = "queued" /\ TimeoutGet = 0 /\ total' = 2 * total /\ start' = now
          /\ xmitcounter' = xmitcounter + 1 /\ copies' = Append(copies, now)
          /\ ack' = ack /\ state' = state /\ now' = now
      BY <1>4 DEF Retransmit, Restart
    <2>2. /\ now \in (start + total)..(start + total + Pass)
          /\ ack * 2^xmitcounter = 2 * total
      BY <1>3, <2>1
    <2>3. /\ Len(copies') = xmitcounter + 1 /\ copies'[xmitcounter + 1] = now
          /\ \A k \in 1..xmitcounter : copies'[k] = copies[k]
      BY <1>1, <2>1
    <2>4. Doubled'
      <3>1. xmitcounter' - 1 = xmitcounter
        BY <1>1, <2>1
      <3>. QED  BY <2>1, <2>2, <2>3, <3>1 DEF Doubled
    <2>5. BackoffRespected'
      <3>1. SUFFICES ASSUME NEW k \in 2..Len(copies')
                     PROVE  copies'[k] - copies'[k - 1] \in
                              (ack * 2^(k - 2))..(ack * 2^(k - 2) + Pass)
        BY <2>1 DEF BackoffRespected
      <3>2. CASE k <= xmitcounter
        <4>1. k \in 2..Len(copies) /\ k \in 1..xmitcounter /\ k - 1 \in 1..xmitcounter
          BY <1>1, <2>3, <3>1, <3>2
        <4>2. copies'[k] = copies[k] /\ copies'[k - 1] = copies[k - 1]
          BY <2>3, <4>1
        <4>. QED  BY <4>1, <4>2 DEF PowInv, BackoffRespected
      <3>3. CASE k = xmitcounter + 1
        <4>1. k - 1 = xmitcounter /\ k - 2 = xmitcounter - 1 /\ xmitcounter \in 1..xmitcounter
          BY <1>1, <3>3
        <4>2. copies'[k] = now /\ copies'[k - 1] = start /\ total = ack * 2^(k - 2)
          BY <2>1, <2>3, <3>3, <4>1 DEF PowInv, Doubled
        <4>. QED  BY <1>1, <2>2, <4>2
      <3>. QED  BY <1>1, <2>3, <3>1, <3>2, <3>3
    <2>6. GivesUpInTime'
      BY <2>1 DEF GivesUpInTime
    <2>. QED  BY <1>0, <2>4, <2>5, <2>6 DEF PowInv
  <1>5. CASE GiveUp
    <2>1. /\ state = "queued" /\ TimeoutGet = 0 /\ xmitcounter = MAX_RETRANSMIT
          /\ copies' = copies /\ ack' = ack /\ now' = now /\ state' = "timeout"
      BY <1>1, <1>5 DEF GiveUp, Restart
    <2>. DEFINE p == 2^MAX_RETRANSMIT
                late == (MAX_RETRANSMIT - 1) * Pass
    <2>2. /\ now \in (start + total)..(start + total + Pass)
          /\ p \in Nat /\ ack * p = 2 * total
      BY <1>3, <2>1
    <2>3. start \in (total - ack)..(total - ack + late)
      BY <1>0, <2>1 DEF IInv, SpanFollowsTimeout
    <2>4. late \in Int /\ late + Pass = MAX_RETRANSMIT * Pass
      BY <1>1, PassAssumption
    <2>5. p >= 1
      <3>1. ack > 0 /\ total > 0
        BY <1>0, AckAssumption DEF IInv, TypeOK
      <3>2. p # 0
        BY <1>1, <2>2, <3>1
      <3>. HIDE DEF p
      <3>. QED  BY <2>2, <3>2
    <2>. HIDE DEF p, late
    <2>6. now \in (2 * total - ack)..(2 * total - ack + MAX_RETRANSMIT * Pass)
      BY <1>1, <2>2, <2>3, <2>4
    <2>7. ack * (p - 1) = 2 * total - ack
      BY <1>1, <2>2
    <2>8. AckMin * (p - 1) <= ack * (p - 1) /\ ack * (p - 1) <= AckMax * (p - 1)
      <3>1. p - 1 \in Nat
        BY <2>2, <2>5
      <3>. QED  BY <1>1, <3>1, ProductsGrow
    <2>9. now \in (AckMin * (p - 1))..(AckMax * (p - 1) + MAX_RETRANSMIT * Pass)
      <3>. DEFINE lo == AckMin * (p - 1)
                  mid == ack * (p - 1)
                  hi == AckMax * (p - 1)
                  span == MAX_RETRANSMIT * Pass
      <3>1. lo \in Int /\ mid \in Int /\ hi \in Int /\ span \in Int
        BY <1>1, <2>2
      <3>2. now \in mid..(mid + span)
        BY <2>6, <2>7
      <3>3. lo <= mid /\ mid <= hi
        BY <2>8
      <3>. HIDE DEF lo, mid, hi, span
      <3>4. now \in lo..(hi + span)
        BY <1>1, <3>1, <3>2, <3>3
      <3>. QED  BY <3>4 DEF lo, hi, span
    <2>10. GivesUpInTime'
      BY <2>1, <2>9 DEF GivesUpInTime, p
    <2>11. Doubled' /\ BackoffRespected'
      BY <2>1 DEF PowInv, Doubled, BackoffRespected
    <2>. QED  BY <1>0, <2>10, <2>11 DEF PowInv
  <1>. QED  BY <1>2, <1>4, <1>5 DEF Next, CheckPass

\* The exponential back-off, for every first timeout and any number of retransmissions:
\* each wait is twice the one before, plus at most the time of one pass.
THEOREM BackoffRespectedHolds == Spec => []BackoffRespected
  <1>1. PowInv => BackoffRespected
    BY DEF PowInv
  <1>. QED  BY <1>1, PowInvInit, PowInvNext, PTL DEF Spec

\* MN_TIMEOUT comes within the transmission span, for every limit.
THEOREM GivesUpInTimeHolds == Spec => []GivesUpInTime
  <1>1. PowInv => GivesUpInTime
    BY DEF PowInv
  <1>. QED  BY <1>1, PowInvInit, PowInvNext, PTL DEF Spec
=============================================================================
