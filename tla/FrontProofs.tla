---------------------------- MODULE FrontProofs ----------------------------
(***************************************************************************)
(* Theorems about the rate limiter and the model catalogue, for every set  *)
(* of keys and of handlers, every limit, window and feed.                  *)
(***************************************************************************)
EXTENDS Front, FiniteSetTheorems, SequenceTheorems, WellFoundedInduction, TLAPS

-----------------------------------------------------------------------------
(* The deque.                                                              *)

LEMMA LeastNatural ==
  ASSUME NEW T \in SUBSET Nat, T # {}
  PROVE  \E n \in T : \A m \in T : n <= m
<1>1. PICK n \in T : \A m \in T : ~ (<<m, n>> \in OpToRel(<, Nat))
  BY WFMin, NatLessThanWellFounded
<1>2. \A m \in T : ~ (m < n)
  BY <1>1 DEF OpToRel
<1>3. QED
  BY <1>2

\* Popping stops at the first entry that has not expired.
LEMMA PoppedIsExpired ==
  ASSUME NEW bucket \in Seq(Nat), NEW now \in Nat
  PROVE  /\ Popped(bucket, now) \in 0..Len(bucket)
         /\ \A i \in 1..Popped(bucket, now) : bucket[i] <= now - Window
         /\ Popped(bucket, now) < Len(bucket)
              => bucket[Popped(bucket, now) + 1] > now - Window
<1> DEFINE Stops == {n \in 0..Len(bucket) : n < Len(bucket) => bucket[n + 1] > now - Window}
<1>1. Len(bucket) \in Stops /\ Stops \in SUBSET Nat
  OBVIOUS
<1>2. PICK n \in Stops : \A m \in Stops : n <= m
  BY <1>1, LeastNatural
<1>3. \A i \in 1..n : bucket[i] <= now - Window
  <2> SUFFICES ASSUME NEW i \in 1..n PROVE bucket[i] <= now - Window
    OBVIOUS
  <2>1. i - 1 \in 0..Len(bucket) /\ i - 1 \notin Stops
    <3>1. n \in 0..Len(bucket) /\ Len(bucket) \in Nat /\ i \in 1..n
      BY <1>2
    <3>2. i - 1 \in 0..Len(bucket) /\ ~(n <= i - 1)
      BY <3>1
    <3>3. QED
      BY <1>2, <3>2
  <2>2. bucket[i] \in Nat /\ now - Window \in Int
    BY <1>2, LimiterAssumption
  <2>3. QED
    BY <2>1, <2>2
<1>4. QED
  BY <1>2, <1>3 DEF Popped

\* What is left is the right end of the deque.
LEMMA LiveIsRightEnd ==
  ASSUME NEW bucket \in Seq(Nat), NEW now \in Nat, NEW n \in 0..Len(bucket)
  PROVE  LET rest == SubSeq(bucket, n + 1, Len(bucket))
         IN  /\ rest \in Seq(Nat)
             /\ Len(rest) = Len(bucket) - n
             /\ \A i \in 1..Len(rest) : rest[i] = bucket[i + n]
<1>1. \A i \in n + 1 .. Len(bucket) : bucket[i] \in Nat
  OBVIOUS
<1>2. n + 1 \in Int /\ Len(bucket) \in Int
  OBVIOUS
<1>3. QED
  BY <1>1, <1>2, SubSeqProperties
-----------------------------------------------------------------------------
(* The limiter.                                                            *)

\* The deque is the right end of the admissions, and those to its left have
\* left the window.
IsRightEnd(times, bucket, now) ==
    \E d \in Int :
      /\ Len(times) = d + Len(bucket)
      /\ \A i \in 1..Len(times) :
           IF i > d THEN times[i] = bucket[i - d] ELSE times[i] <= now - Window

LEMMA PruningKeepsRightEnd ==
  ASSUME NEW times \in Seq(Nat), NEW bucket \in Seq(Nat), NEW now \in Nat,
         IsRightEnd(times, bucket, now)
  PROVE  IsRightEnd(times, Live(bucket, now), now)
<1> DEFINE n == Popped(bucket, now)
<1>1. /\ n \in 0..Len(bucket) /\ \A i \in 1..n : bucket[i] <= now - Window
      /\ Len(Live(bucket, now)) = Len(bucket) - n
      /\ \A i \in 1..Len(bucket) - n : Live(bucket, now)[i] = bucket[i + n]
  <2>1. n \in 0..Len(bucket) /\ \A i \in 1..n : bucket[i] <= now - Window
    BY PoppedIsExpired
  <2>2. Live(bucket, now) = SubSeq(bucket, n + 1, Len(bucket))
    BY DEF Live
  <2> HIDE DEF n
  <2>3. LET rest == SubSeq(bucket, n + 1, Len(bucket))
        IN  /\ Len(rest) = Len(bucket) - n
            /\ \A i \in 1..Len(rest) : rest[i] = bucket[i + n]
    BY <2>1, LiveIsRightEnd
  <2>4. QED
    BY <2>1, <2>2, <2>3
<1> HIDE DEF n
<1>2. PICK d \in Int :
        /\ Len(times) = d + Len(bucket)
        /\ \A i \in 1..Len(times) :
             IF i > d THEN times[i] = bucket[i - d] ELSE times[i] <= now - Window
  BY DEF IsRightEnd
<1>3. d + n \in Int /\ Len(times) = (d + n) + Len(Live(bucket, now))
  BY <1>1, <1>2
<1>4. ASSUME NEW i \in 1..Len(times)
      PROVE  IF i > d + n THEN times[i] = Live(bucket, now)[i - (d + n)]
                          ELSE times[i] <= now - Window
  <2>1. CASE i > d + n
    <3>1. i - (d + n) \in 1..Len(bucket) - n /\ i > d /\ i - (d + n) + n = i - d
      BY <1>1, <1>2, <2>1
    <3>2. QED
      BY <1>1, <1>2, <2>1, <3>1
  <2>2. CASE i > d /\ ~(i > d + n)
    <3>1. i - d \in 1..n
      BY <1>1, <1>2, <2>2
    <3>2. QED
      BY <1>1, <1>2, <2>2, <3>1
  <2>3. CASE ~(i > d)
    BY <1>1, <1>2, <2>3
  <2>4. QED
    BY <2>1, <2>2, <2>3
<1>5. QED
  BY <1>3, <1>4 DEF IsRightEnd

LEMMA AdmittingKeepsRightEnd ==
  ASSUME NEW times \in Seq(Nat), NEW bucket \in Seq(Nat), NEW now \in Nat,
         IsRightEnd(times, bucket, now)
  PROVE  IsRightEnd(Append(times, now), Append(bucket, now), now)
<1>1. PICK d \in Int :
        /\ Len(times) = d + Len(bucket)
        /\ \A i \in 1..Len(times) :
             IF i > d THEN times[i] = bucket[i - d] ELSE times[i] <= now - Window
  BY DEF IsRightEnd
<1>2. /\ Len(Append(times, now)) = Len(times) + 1
      /\ Len(Append(bucket, now)) = Len(bucket) + 1
      /\ \A i \in 1..Len(times) : Append(times, now)[i] = times[i]
      /\ \A i \in 1..Len(bucket) : Append(bucket, now)[i] = bucket[i]
      /\ Append(times, now)[Len(times) + 1] = now
      /\ Append(bucket, now)[Len(bucket) + 1] = now
  BY AppendProperties
<1>3. ASSUME NEW i \in 1..Len(times) + 1
      PROVE  IF i > d THEN Append(times, now)[i] = Append(bucket, now)[i - d]
                      ELSE Append(times, now)[i] <= now - Window
  <2>1. CASE i = Len(times) + 1
    <3>1. i > d /\ i - d = Len(bucket) + 1
      BY <1>1, <2>1
    <3>2. QED
      BY <1>2, <2>1, <3>1
  <2>2. CASE i # Len(times) + 1
    <3>1. i \in 1..Len(times) /\ (i > d => i - d \in 1..Len(bucket))
      BY <1>1, <2>2
    <3>2. QED
      BY <1>1, <1>2, <3>1
  <2>3. QED
    BY <2>1, <2>2
<1>4. Len(Append(times, now)) = d + Len(Append(bucket, now))
  BY <1>1, <1>2
<1>5. QED
  BY <1>2, <1>3, <1>4 DEF IsRightEnd

LEMMA TickKeepsRightEnd ==
  ASSUME NEW times \in Seq(Nat), NEW bucket \in Seq(Nat), NEW now \in Nat,
         IsRightEnd(times, bucket, now)
  PROVE  IsRightEnd(Recent(times, now + 1), bucket, now + 1)
<1> DEFINE n == Popped(times, now + 1)
<1>1. /\ n \in 0..Len(times)
      /\ Len(Recent(times, now + 1)) = Len(times) - n
      /\ \A i \in 1..Len(times) - n : Recent(times, now + 1)[i] = times[i + n]
  <2>1. n \in 0..Len(times)
    <3>1. now + 1 \in Nat
      OBVIOUS
    <3>2. QED
      BY <3>1, PoppedIsExpired
  <2>2. Recent(times, now + 1) = SubSeq(times, n + 1, Len(times))
    BY DEF Recent
  <2> HIDE DEF n
  <2>3. LET rest == SubSeq(times, n + 1, Len(times))
        IN  /\ Len(rest) = Len(times) - n
            /\ \A i \in 1..Len(rest) : rest[i] = times[i + n]
    <3>1. now + 1 \in Nat
      OBVIOUS
    <3>2. QED
      BY <2>1, <3>1, LiveIsRightEnd
  <2>4. QED
    BY <2>1, <2>2, <2>3
<1> HIDE DEF n
<1>2. PICK d \in Int :
        /\ Len(times) = d + Len(bucket)
        /\ \A i \in 1..Len(times) :
             IF i > d THEN times[i] = bucket[i - d] ELSE times[i] <= now - Window
  BY DEF IsRightEnd
<1>3. d - n \in Int /\ Len(Recent(times, now + 1)) = (d - n) + Len(bucket)
  BY <1>1, <1>2
<1>4. ASSUME NEW i \in 1..Len(times) - n
      PROVE  IF i > d - n THEN Recent(times, now + 1)[i] = bucket[i - (d - n)]
                          ELSE Recent(times, now + 1)[i] <= (now + 1) - Window
  <2>1. i + n \in 1..Len(times) /\ (i > d - n <=> i + n > d) /\ i + n - d = i - (d - n)
    BY <1>1, <1>2
  <2>2. times[i + n] <= now - Window => times[i + n] <= (now + 1) - Window
    BY <2>1, LimiterAssumption
  <2>3. QED
    BY <1>1, <1>2, <2>1, <2>2
<1>5. \A i \in 1..Len(Recent(times, now + 1)) :
        IF i > d - n THEN Recent(times, now + 1)[i] = bucket[i - (d - n)]
                     ELSE Recent(times, now + 1)[i] <= (now + 1) - Window
  BY <1>1, <1>4
<1>6. QED
  BY <1>3, <1>5 DEF IsRightEnd

\* No more admissions are inside the window than the deque has entries.
LEMMA RightEndCountsWindow ==
  ASSUME NEW times \in Seq(Nat), NEW bucket \in Seq(Nat), NEW now \in Nat,
         IsRightEnd(times, bucket, now)
  PROVE  /\ IsFiniteSet({i \in DOMAIN times : now - times[i] < Window})
         /\ Cardinality({i \in DOMAIN times : now - times[i] < Window}) <= Len(bucket)
<1> DEFINE Inside == {i \in DOMAIN times : now - times[i] < Window}
<1>1. PICK d \in Int :
        /\ Len(times) = d + Len(bucket)
        /\ \A i \in 1..Len(times) :
             IF i > d THEN times[i] = bucket[i - d] ELSE times[i] <= now - Window
  BY DEF IsRightEnd
<1>2. Inside \subseteq d + 1 .. d + Len(bucket)
  <2> SUFFICES ASSUME NEW i \in 1..Len(times), now - times[i] < Window
               PROVE  i \in d + 1 .. d + Len(bucket)
    OBVIOUS
  <2>1. ~(times[i] <= now - Window)
    BY LimiterAssumption
  <2>2. QED
    BY <1>1, <2>1
<1>3. /\ IsFiniteSet(d + 1 .. d + Len(bucket))
      /\ Cardinality(d + 1 .. d + Len(bucket)) = Len(bucket)
  <2>1. d + 1 \in Int /\ d + Len(bucket) \in Int /\ Len(bucket) \in Nat
    BY <1>1
  <2>2. /\ IsFiniteSet(d + 1 .. d + Len(bucket))
        /\ Cardinality(d + 1 .. d + Len(bucket)) =
             IF d + 1 > d + Len(bucket) THEN 0 ELSE (d + Len(bucket)) - (d + 1) + 1
    BY <2>1, FS_Interval
  <2>3. (IF d + 1 > d + Len(bucket) THEN 0 ELSE (d + Len(bucket)) - (d + 1) + 1) = Len(bucket)
    BY <1>1, <2>1
  <2>4. QED
    BY <2>2, <2>3
<1>4. IsFiniteSet(Inside) /\ Cardinality(Inside) <= Cardinality(d + 1 .. d + Len(bucket))
  BY <1>2, <1>3, FS_Subset
<1>5. QED
  BY <1>3, <1>4

\* Retry-After outlasts what check() computed.
LEMMA RetryHeaderRoundsUp ==
  ASSUME NEW n \in Nat
  PROVE  RetryHeader(n) \in Nat /\ RetryHeader(n) > n
  BY SecondAssumption DEF RetryHeader

\* A deque that has just been pruned holds nothing that has expired.
LEMMA LiveIsInWindow ==
  ASSUME NEW bucket \in Seq(Nat), NEW now \in Nat
  PROVE  /\ Live(bucket, now) \in Seq(Nat)
         /\ Len(Live(bucket, now)) <= Len(bucket)
         /\ Len(Live(bucket, now)) > 0 => Live(bucket, now)[1] > now - Window
         /\ Len(Live(bucket, now)) = Len(bucket)
              => \A i \in 1..Len(bucket) : Live(bucket, now)[i] = bucket[i]
<1> DEFINE n == Popped(bucket, now)
<1>1. n \in 0..Len(bucket) /\ (n < Len(bucket) => bucket[n + 1] > now - Window)
  BY PoppedIsExpired
<1>2. Live(bucket, now) = SubSeq(bucket, n + 1, Len(bucket))
  BY DEF Live
<1> HIDE DEF n
<1>3. /\ Live(bucket, now) \in Seq(Nat)
      /\ Len(Live(bucket, now)) = Len(bucket) - n
      /\ \A i \in 1..Len(bucket) - n : Live(bucket, now)[i] = bucket[i + n]
  BY <1>1, <1>2, LiveIsRightEnd
<1>4. Len(bucket) - n > 0 => 1 \in 1..Len(bucket) - n /\ n < Len(bucket)
  BY <1>1
<1>5. Len(Live(bucket, now)) > 0 => Live(bucket, now)[1] > now - Window
  BY <1>1, <1>3, <1>4
<1>6. Len(bucket) - n = Len(bucket) => n = 0
  BY <1>1
<1>7. QED
  BY <1>1, <1>3, <1>5, <1>6

LimiterTypeOK ==
    /\ clock \in Nat
    /\ buckets \in [Keys -> Seq(Nat)]
    /\ admitted \in [Keys -> Seq(Nat)]
    /\ refusal \in [Keys -> [until : Nat, last : Nat]]

\* While the deque is as full as it was at a refusal, its oldest entry is the
\* one the promise was computed from, or an older one.
PromiseCoversOldest(k) ==
    refusal[k] # NoRefusal =>
        /\ refusal[k].last < refusal[k].until
        /\ Rpm[k] > 0 /\ Len(buckets[k]) = Rpm[k] => buckets[k][1] + Window < refusal[k].until

KeyInv(k) ==
    /\ Len(buckets[k]) <= Rpm[k]
    /\ IsRightEnd(admitted[k], buckets[k], clock)
    /\ PromiseCoversOldest(k)

LimiterInv == LimiterTypeOK /\ \A k \in Keys : KeyInv(k)

LEMMA LimiterStarts == FrontInit => LimiterInv
<1> SUFFICES ASSUME FrontInit PROVE LimiterInv
  OBVIOUS
<1> USE DEF FrontInit, LimiterInit
<1>1. LimiterTypeOK
  BY DEF LimiterTypeOK, NoRefusal
<1>2. ASSUME NEW k \in Keys PROVE KeyInv(k)
  <2>1. buckets[k] = <<>> /\ admitted[k] = <<>> /\ refusal[k] = NoRefusal
    OBVIOUS
  <2>2. IsRightEnd(<<>>, <<>>, clock)
    <3>1. 0 \in Int /\ Len(<<>>) = 0 + Len(<<>>) /\ 1..Len(<<>>) = {}
      OBVIOUS
    <3>2. QED
      BY <3>1 DEF IsRightEnd
  <2>3. Len(<<>>) <= Rpm[k]
    BY LimiterAssumption
  <2>4. QED
    BY <2>1, <2>2, <2>3 DEF KeyInv, PromiseCoversOldest
<1>3. QED
  BY <1>1, <1>2 DEF LimiterInv

LEMMA AdmitKeepsLimiter ==
  ASSUME LimiterInv, NEW k \in Keys, Admit(k), clock' = clock
  PROVE  LimiterInv'
<1> DEFINE bucket == Live(buckets[k], clock)
<1>1. buckets[k] \in Seq(Nat) /\ admitted[k] \in Seq(Nat) /\ clock \in Nat /\ Rpm[k] \in Nat
  BY LimiterAssumption DEF LimiterInv, LimiterTypeOK
<1>2. bucket \in Seq(Nat) /\ Len(bucket) < Rpm[k]
  BY <1>1, LiveIsInWindow DEF Admit
<1>3. IsRightEnd(admitted[k], bucket, clock)
  BY <1>1, PruningKeepsRightEnd DEF LimiterInv, KeyInv
<1>4. /\ buckets' = [buckets EXCEPT ![k] = Append(bucket, clock)]
      /\ admitted' = [admitted EXCEPT ![k] = Append(admitted[k], clock)]
      /\ refusal' = [refusal EXCEPT ![k] = NoRefusal]
  BY DEF Admit
<1> HIDE DEF bucket
<1>5. LimiterTypeOK'
  BY <1>1, <1>2, <1>4 DEF LimiterInv, LimiterTypeOK, NoRefusal
<1>6. KeyInv(k)'
  <2>1. /\ buckets'[k] = Append(bucket, clock) /\ admitted'[k] = Append(admitted[k], clock)
        /\ refusal'[k] = NoRefusal
    BY <1>4 DEF LimiterInv, LimiterTypeOK
  <2>2. Len(Append(bucket, clock)) <= Rpm[k]
    BY <1>1, <1>2
  <2>3. IsRightEnd(Append(admitted[k], clock), Append(bucket, clock), clock)
    BY <1>1, <1>2, <1>3, AdmittingKeepsRightEnd
  <2>4. QED
    BY <2>1, <2>2, <2>3 DEF KeyInv, PromiseCoversOldest
<1>7. ASSUME NEW o \in Keys, o # k PROVE KeyInv(o)'
  <2>1. buckets'[o] = buckets[o] /\ admitted'[o] = admitted[o] /\ refusal'[o] = refusal[o]
    BY <1>4, <1>7 DEF LimiterInv, LimiterTypeOK
  <2>2. QED
    BY <2>1 DEF LimiterInv, KeyInv, PromiseCoversOldest
<1>8. QED
  BY <1>5, <1>6, <1>7 DEF LimiterInv

LEMMA RefuseKeepsLimiter ==
  ASSUME LimiterInv, NEW k \in Keys, Rpm[k] > 0, Refuse(k), clock' = clock
  PROVE  LimiterInv'
<1> DEFINE bucket == Live(buckets[k], clock)
           first == [until |-> clock + RetryHeader(RetryAfter(bucket, clock)), last |-> clock]
<1>1. buckets[k] \in Seq(Nat) /\ admitted[k] \in Seq(Nat) /\ clock \in Nat /\ Rpm[k] \in Nat
  BY LimiterAssumption DEF LimiterInv, LimiterTypeOK
<1>2. /\ bucket \in Seq(Nat) /\ Len(bucket) <= Len(buckets[k])
      /\ Len(bucket) > 0 => bucket[1] > clock - Window
      /\ Len(bucket) = Len(buckets[k])
           => \A i \in 1..Len(buckets[k]) : bucket[i] = buckets[k][i]
  BY <1>1, LiveIsInWindow
<1>3. IsRightEnd(admitted[k], bucket, clock)
  BY <1>1, PruningKeepsRightEnd DEF LimiterInv, KeyInv
<1>4. /\ Len(bucket) >= Rpm[k]
      /\ buckets' = [buckets EXCEPT ![k] = bucket]
      /\ refusal' = [refusal EXCEPT ![k] =
             IF refusal[k] = NoRefusal THEN first ELSE [refusal[k] EXCEPT !.last = clock]]
      /\ admitted' = admitted
  BY DEF Refuse
<1>5. /\ Len(bucket) = Rpm[k] /\ Len(bucket) = Len(buckets[k])
      /\ bucket[1] > clock - Window /\ bucket[1] = buckets[k][1] /\ bucket[1] \in Nat
  <2>1. Len(buckets[k]) <= Rpm[k]
    BY DEF LimiterInv, KeyInv
  <2>2. Len(bucket) = Rpm[k] /\ Len(bucket) = Len(buckets[k])
    BY <1>1, <1>2, <1>4, <2>1
  <2>3. 1 \in 1..Len(buckets[k]) /\ 1 \in 1..Len(bucket) /\ Len(bucket) > 0
    BY <1>1, <2>2
  <2>4. QED
    BY <1>2, <2>2, <2>3
<1>6. /\ first \in [until : Nat, last : Nat]
      /\ first.last < first.until /\ bucket[1] + Window < first.until
  <2>1. RetryAfter(bucket, clock) = Window - (clock - bucket[1])
    BY <1>2, <1>5 DEF RetryAfter
  <2>2. RetryAfter(bucket, clock) \in Nat
    BY <1>1, <1>5, <2>1, LimiterAssumption
  <2>3. /\ RetryHeader(RetryAfter(bucket, clock)) \in Nat
        /\ RetryHeader(RetryAfter(bucket, clock)) > RetryAfter(bucket, clock)
    BY <2>2, RetryHeaderRoundsUp
  <2>4. first.until = clock + RetryHeader(RetryAfter(bucket, clock)) /\ first.last = clock
    OBVIOUS
  <2>5. first.until \in Nat
    BY <1>1, <2>3, <2>4
  <2>6. bucket[1] + Window < first.until /\ first.last < first.until
    BY <1>1, <1>5, <2>1, <2>2, <2>3, <2>4, LimiterAssumption
  <2>7. first \in [until : Nat, last : Nat]
    BY <1>1, <2>4, <2>5
  <2>8. QED
    BY <2>6, <2>7
<1>7. refusal[k] \in [until : Nat, last : Nat]
  BY DEF LimiterInv, LimiterTypeOK
<1> HIDE DEF bucket, first
<1>8. LimiterTypeOK'
  BY <1>1, <1>2, <1>4, <1>6, <1>7 DEF LimiterInv, LimiterTypeOK
<1>9. KeyInv(k)'
  <2>1. /\ buckets'[k] = bucket /\ admitted'[k] = admitted[k]
        /\ refusal'[k] = IF refusal[k] = NoRefusal THEN first
                         ELSE [refusal[k] EXCEPT !.last = clock]
    BY <1>4 DEF LimiterInv, LimiterTypeOK
  <2>2. /\ refusal'[k].last < refusal'[k].until
        /\ bucket[1] + Window < refusal'[k].until
    <3>1. CASE refusal[k] = NoRefusal
      BY <1>6, <2>1, <3>1
    <3>2. CASE refusal[k] # NoRefusal
      <4>1. refusal'[k].last = clock /\ refusal'[k].until = refusal[k].until
        BY <1>7, <2>1, <3>2
      <4>2. bucket[1] + Window < refusal[k].until
        BY <1>5, <3>2 DEF LimiterInv, KeyInv, PromiseCoversOldest
      <4>3. QED
        BY <1>1, <1>5, <1>7, <4>1, <4>2, LimiterAssumption
    <3>3. QED
      BY <3>1, <3>2
  <2>3. Len(bucket) <= Rpm[k]
    BY <1>1, <1>5
  <2>4. QED
    BY <1>3, <2>1, <2>2, <2>3 DEF KeyInv, PromiseCoversOldest
<1>10. ASSUME NEW o \in Keys, o # k PROVE KeyInv(o)'
  <2>1. buckets'[o] = buckets[o] /\ admitted'[o] = admitted[o] /\ refusal'[o] = refusal[o]
    BY <1>4, <1>10 DEF LimiterInv, LimiterTypeOK
  <2>2. QED
    BY <2>1 DEF LimiterInv, KeyInv, PromiseCoversOldest
<1>11. QED
  BY <1>8, <1>9, <1>10 DEF LimiterInv

LEMMA TickKeepsLimiter ==
  ASSUME LimiterInv, LimiterTick
  PROVE  LimiterInv'
<1>1. /\ clock \in Nat /\ clock' = clock + 1
      /\ buckets' = buckets /\ refusal' = refusal
      /\ admitted' = [k \in Keys |-> Recent(admitted[k], clock')]
  BY DEF LimiterTick, LimiterInv, LimiterTypeOK
<1>2. ASSUME NEW k \in Keys
      PROVE  /\ Recent(admitted[k], clock + 1) \in Seq(Nat)
             /\ IsRightEnd(Recent(admitted[k], clock + 1), buckets[k], clock + 1)
  <2>1. admitted[k] \in Seq(Nat) /\ buckets[k] \in Seq(Nat) /\ clock + 1 \in Nat
    BY <1>1 DEF LimiterInv, LimiterTypeOK
  <2>2. Recent(admitted[k], clock + 1) = Live(admitted[k], clock + 1)
    BY DEF Recent, Live
  <2>3. Live(admitted[k], clock + 1) \in Seq(Nat)
    BY <2>1, LiveIsInWindow
  <2>4. QED
    BY <1>1, <2>1, <2>2, <2>3, TickKeepsRightEnd DEF LimiterInv, KeyInv
<1>3. LimiterTypeOK'
  BY <1>1, <1>2 DEF LimiterInv, LimiterTypeOK
<1>4. ASSUME NEW k \in Keys PROVE KeyInv(k)'
  BY <1>1, <1>2 DEF LimiterInv, KeyInv, PromiseCoversOldest
<1>5. QED
  BY <1>3, <1>4 DEF LimiterInv

LEMMA LimiterStep ==
  ASSUME LimiterInv, [FrontNext]_frontVars
  PROVE  LimiterInv'
<1>1. ASSUME UNCHANGED <<clock, limiterVars>> PROVE LimiterInv'
  BY <1>1 DEF LimiterInv, LimiterTypeOK, KeyInv, PromiseCoversOldest, limiterVars
<1>2. ASSUME NEW k \in Keys, Authorised(k), clock' = clock PROVE LimiterInv'
  BY <1>1, <1>2, AdmitKeepsLimiter DEF Authorised
<1>3. ASSUME NEW k \in Keys, Rejected(k), clock' = clock PROVE LimiterInv'
  BY <1>3, RefuseKeepsLimiter DEF Rejected
<1>4. ASSUME NEW c \in Callers, NEW k \in Keys, ListModels(c, k) PROVE LimiterInv'
  BY <1>2, <1>4 DEF ListModels
<1>5. ASSUME NEW k \in Keys, OtherRequest(k) \/ TooMany(k) PROVE LimiterInv'
  BY <1>2, <1>3, <1>5 DEF OtherRequest, TooMany
<1>6. ASSUME NEW c \in Callers, ModelAvailability(c) \/ SyncModels(c) \/ Fetching(c)
      PROVE  LimiterInv'
  BY <1>1, <1>6 DEF ModelAvailability, SyncModels, Fetching
<1>7. CASE Publishing
  BY <1>1, <1>7 DEF Publishing
<1>8. CASE Tick
  BY <1>8, TickKeepsLimiter DEF Tick
<1>9. CASE UNCHANGED frontVars
  BY <1>1, <1>9 DEF frontVars
<1>10. QED
  BY <1>4, <1>5, <1>6, <1>7, <1>8, <1>9 DEF FrontNext

(* The inductive invariant of the limiter (RateLimiter.check): a bucket     *)
(* never outgrows its budget, it is the end of the admissions no window    *)
(* has dropped, and the last 429 named a time by which its head expires.   *)
THEOREM LimiterInvariant == FrontSpec => []LimiterInv
<1>1. FrontInit => LimiterInv
  BY LimiterStarts
<1>2. LimiterInv /\ [FrontNext]_frontVars => LimiterInv'
  BY LimiterStep
<1>3. QED
  BY <1>1, <1>2, PTL DEF FrontSpec

(* A key is never served more often than its rpm within one window         *)
(* (RateLimiter.check), for every rpm and every window.                    *)
THEOREM BudgetIsKept == FrontSpec => []WithinBudget
<1>1. LimiterInv => WithinBudget
  <2> SUFFICES ASSUME LimiterInv, NEW k \in Keys
               PROVE  Cardinality({i \in DOMAIN admitted[k] : clock - admitted[k][i] < Window})
                        <= Rpm[k]
    BY DEF WithinBudget
  <2> DEFINE inside == {i \in DOMAIN admitted[k] : clock - admitted[k][i] < Window}
  <2>1. admitted[k] \in Seq(Nat) /\ buckets[k] \in Seq(Nat) /\ clock \in Nat /\ Rpm[k] \in Nat
    BY LimiterAssumption DEF LimiterInv, LimiterTypeOK
  <2>2. Cardinality(inside) <= Len(buckets[k]) /\ IsFiniteSet(inside)
    BY <2>1, RightEndCountsWindow DEF LimiterInv, KeyInv
  <2>3. Cardinality(inside) \in Nat /\ Len(buckets[k]) \in Nat /\ Len(buckets[k]) <= Rpm[k]
    BY <2>1, <2>2, FS_CardinalityType DEF LimiterInv, KeyInv
  <2> HIDE DEF inside
  <2>4. Cardinality(inside) <= Rpm[k]
    BY <2>1, <2>2, <2>3
  <2>5. QED
    BY <2>4 DEF inside
<1>2. QED
  BY <1>1, LimiterInvariant, PTL

(* A client that waits as long as Retry-After said is not refused again    *)
(* unless its key was served meanwhile (check(), deps.client_key).         *)
THEOREM PromisesAreKept == FrontSpec => []RetryAfterHolds
<1>1. LimiterInv => RetryAfterHolds
  BY DEF LimiterInv, KeyInv, PromiseCoversOldest, RetryAfterHolds
<1>2. QED
  BY <1>1, LimiterInvariant, PTL

-----------------------------------------------------------------------------
(* The lock of the catalogue.                                              *)

Calls == [at : {"idle", "queued", "fetching"}, force : BOOLEAN, since : Nat, got : Nat]

InQueue(q, c) == \E i \in 1..Len(q) : q[i] = c
NoneTwice(q) == \A i, j \in 1..Len(q) : q[i] = q[j] => i = j

LockInv ==
    /\ queue \in Seq(Callers) /\ NoneTwice(queue)
    /\ call \in [Callers -> Calls]
    /\ \A c \in Callers :
           /\ call[c].at # "idle" <=> InQueue(queue, c)
           /\ call[c].at = "idle" => call[c] = Idle
           /\ call[c].at = "fetching" => Holds(c)
           /\ call[c].got > 0 => call[c].at = "fetching"

LEMMA JoiningTheQueue ==
  ASSUME NEW q \in Seq(Callers), NoneTwice(q), NEW c \in Callers, ~InQueue(q, c)
  PROVE  /\ Append(q, c) \in Seq(Callers) /\ NoneTwice(Append(q, c))
         /\ \A x \in Callers : InQueue(Append(q, c), x) <=> x = c \/ InQueue(q, x)
         /\ q # <<>> => Append(q, c) # <<>> /\ Head(Append(q, c)) = Head(q)
<1>1. /\ Append(q, c) \in Seq(Callers) /\ Len(q) \in Nat
      /\ Len(Append(q, c)) = Len(q) + 1
      /\ \A i \in 1..Len(q) : Append(q, c)[i] = q[i]
      /\ Append(q, c)[Len(q) + 1] = c
  BY AppendProperties
<1>2. \A i \in 1..Len(Append(q, c)) : i \in 1..Len(q) \/ i = Len(q) + 1
  BY <1>1
<1>3. NoneTwice(Append(q, c))
  BY <1>1, <1>2 DEF NoneTwice, InQueue
<1>4. ASSUME NEW x \in Callers PROVE InQueue(Append(q, c), x) <=> x = c \/ InQueue(q, x)
  <2>1. InQueue(Append(q, c), x) => x = c \/ InQueue(q, x)
    BY <1>1, <1>2 DEF InQueue
  <2>2. x = c => InQueue(Append(q, c), x)
    <3>1. Len(q) + 1 \in 1..Len(Append(q, c))
      BY <1>1
    <3>2. QED
      BY <1>1, <3>1 DEF InQueue
  <2>3. InQueue(q, x) => InQueue(Append(q, c), x)
    <3>1. \A i \in 1..Len(q) : i \in 1..Len(Append(q, c))
      BY <1>1
    <3>2. QED
      BY <1>1, <3>1 DEF InQueue
  <2>4. QED
    BY <2>1, <2>2, <2>3
<1>5. q # <<>> => Append(q, c) # <<>> /\ Head(Append(q, c)) = Head(q)
  OBVIOUS
<1>6. QED
  BY <1>1, <1>3, <1>4, <1>5

LEMMA LeavingTheQueue ==
  ASSUME NEW q \in Seq(Callers), NoneTwice(q), q # <<>>
  PROVE  /\ Tail(q) \in Seq(Callers) /\ NoneTwice(Tail(q))
         /\ \A x \in Callers : InQueue(Tail(q), x) <=> x # Head(q) /\ InQueue(q, x)
<1>1. /\ Tail(q) \in Seq(Callers) /\ Len(q) \in Nat \ {0}
      /\ Len(Tail(q)) = Len(q) - 1
      /\ \A i \in 1..Len(q) - 1 : Tail(q)[i] = q[i + 1]
      /\ Head(q) = q[1]
  OBVIOUS
<1>2. \A i \in 1..Len(Tail(q)) : i + 1 \in 1..Len(q) /\ i + 1 # 1 /\ Tail(q)[i] = q[i + 1]
  BY <1>1
<1>3. \A i \in 1..Len(q) : i = 1 \/ (i - 1 \in 1..Len(Tail(q)) /\ Tail(q)[i - 1] = q[i])
  BY <1>1
<1>4. NoneTwice(Tail(q))
  <2> SUFFICES ASSUME NEW i \in 1..Len(Tail(q)), NEW j \in 1..Len(Tail(q)),
                      Tail(q)[i] = Tail(q)[j]
               PROVE  i = j
    BY DEF NoneTwice
  <2>1. i + 1 = j + 1
    BY <1>2 DEF NoneTwice
  <2>2. QED
    BY <2>1
<1>5. 1 \in 1..Len(q)
  BY <1>1
<1>6. ASSUME NEW x \in Callers PROVE InQueue(Tail(q), x) <=> x # Head(q) /\ InQueue(q, x)
  <2>1. InQueue(Tail(q), x) => InQueue(q, x)
    BY <1>2 DEF InQueue
  <2>2. InQueue(Tail(q), x) => x # Head(q)
    BY <1>1, <1>2, <1>5 DEF InQueue, NoneTwice
  <2>3. x # Head(q) /\ InQueue(q, x) => InQueue(Tail(q), x)
    BY <1>1, <1>3 DEF InQueue
  <2>4. QED
    BY <2>1, <2>2, <2>3
<1>7. QED
  BY <1>1, <1>4, <1>6

\* One caller's record changes, the queue does not.
LEMMA ProgressKeepsLock ==
  ASSUME LockInv, NEW c \in Callers, Holds(c), queue' = queue,
         NEW r \in Calls, r.at = "fetching", call[c].at # "idle",
         call' = [call EXCEPT ![c] = r]
  PROVE  LockInv'
<1>1. \A x \in Callers : call'[x] = IF x = c THEN r ELSE call[x]
  BY DEF LockInv
<1>2. call' \in [Callers -> Calls]
  BY DEF LockInv
<1>3. ASSUME NEW x \in Callers
      PROVE  /\ call'[x].at # "idle" <=> InQueue(queue, x)
             /\ call'[x].at = "idle" => call'[x] = Idle
             /\ call'[x].at = "fetching" => Holds(x)
             /\ call'[x].got > 0 => call'[x].at = "fetching"
  BY <1>1 DEF LockInv
<1>4. QED
  BY <1>2, <1>3 DEF LockInv, Holds

LEMMA ReleaseKeepsLock ==
  ASSUME LockInv, NEW c \in Callers, Holds(c), Release, call' = [call EXCEPT ![c] = Idle]
  PROVE  LockInv'
<1>1. \A x \in Callers : call'[x] = IF x = c THEN Idle ELSE call[x]
  BY DEF LockInv
<1>2. call' \in [Callers -> Calls]
  BY DEF LockInv, Idle, Calls
<1>3. /\ queue' = Tail(queue) /\ queue' \in Seq(Callers) /\ NoneTwice(queue')
      /\ \A x \in Callers : InQueue(queue', x) <=> x # c /\ InQueue(queue, x)
  BY LeavingTheQueue DEF LockInv, Holds, Release
<1>4. \A x \in Callers : x # c => call[x].at # "fetching"
  BY DEF LockInv, Holds
<1>5. Idle.at = "idle" /\ Idle.got = 0
  BY DEF Idle
<1>6. ASSUME NEW x \in Callers
      PROVE  /\ call'[x].at # "idle" <=> InQueue(queue', x)
             /\ call'[x].at = "idle" => call'[x] = Idle
             /\ call'[x].at # "fetching"
             /\ call'[x].got > 0 => call'[x].at = "fetching"
  BY <1>1, <1>3, <1>4, <1>5 DEF LockInv
<1>7. QED
  BY <1>2, <1>3, <1>6 DEF LockInv

LEMMA EnqueueKeepsLock ==
  ASSUME LockInv, NEW c \in Callers, NEW force \in BOOLEAN, published \in Nat,
         call[c].at = "idle", Enqueue(c, force)
  PROVE  LockInv'
<1> DEFINE r == [at |-> "queued", force |-> force, since |-> IF force THEN published ELSE 0, got |-> 0]
<1>1. r \in Calls /\ r.at = "queued" /\ r.got = 0
  BY DEF Calls
<1>2. call' = [call EXCEPT ![c] = r]
  BY DEF Enqueue
<1> HIDE DEF r
<1>3. call' \in [Callers -> Calls] /\ \A x \in Callers : call'[x] = IF x = c THEN r ELSE call[x]
  BY <1>1, <1>2 DEF LockInv
<1>4. /\ queue' \in Seq(Callers) /\ NoneTwice(queue')
      /\ \A x \in Callers : InQueue(queue', x) <=> x = c \/ InQueue(queue, x)
      /\ queue # <<>> => queue' # <<>> /\ Head(queue') = Head(queue)
  BY JoiningTheQueue DEF LockInv, Enqueue
<1>5. ASSUME NEW x \in Callers
      PROVE  /\ call'[x].at # "idle" <=> InQueue(queue', x)
             /\ call'[x].at = "idle" => call'[x] = Idle
             /\ call'[x].at = "fetching" => queue' # <<>> /\ Head(queue') = x
             /\ call'[x].got > 0 => call'[x].at = "fetching"
  BY <1>1, <1>3, <1>4 DEF LockInv, Holds
<1>6. QED
  BY <1>3, <1>4, <1>5 DEF LockInv, Holds

-----------------------------------------------------------------------------
(* The catalogue.                                                          *)

Payload == IF shown = 0 THEN Snapshot ELSE Feed[shown]

\* What is shown is a payload that was published and is well formed; what a
\* handler has been answered is no older than the catalogue it will replace.
ContentInv ==
    /\ clock \in 0..MaxClock
    /\ published \in 1..Len(Feed) /\ shown \in 0..published
    /\ nextCheck \in Int /\ lastFetch \in Int /\ nextCheck >= lastFetch + Retry
    /\ shown > 0 => WellFormed(Feed[shown])
    /\ entries = ParsedEntries(Payload) /\ freeIds = ParsedFree(Payload)
    /\ \A c \in Callers :
           /\ call[c].since <= published
           /\ call[c].got > 0 => call[c].got \in call[c].since..published /\ shown <= call[c].got

CatalogueInv == LockInv /\ ContentInv

LEMMA FeedLength == Len(Feed) \in Nat \ {0} /\ DOMAIN Feed = 1..Len(Feed)
  BY CatalogueAssumption

LEMMA CatalogueStarts == FrontInit => CatalogueInv
<1> SUFFICES ASSUME FrontInit PROVE CatalogueInv
  OBVIOUS
<1> USE DEF FrontInit, CatalogueInit
<1>1. LockInv
  <2>1. queue \in Seq(Callers) /\ 1..Len(queue) = {}
    OBVIOUS
  <2>2. Idle \in Calls /\ Idle.at = "idle" /\ Idle.got = 0
    BY DEF Idle, Calls
  <2>3. call \in [Callers -> Calls] /\ \A c \in Callers : call[c] = Idle
    BY <2>2
  <2>4. QED
    BY <2>1, <2>2, <2>3 DEF LockInv, NoneTwice, InQueue
<1>2. ContentInv
  <2>1. /\ clock \in 0..MaxClock /\ published \in 1..Len(Feed) /\ shown \in 0..published
        /\ ~(shown > 0) /\ Payload = Snapshot
    BY FeedLength, MaxClockAssumption DEF Payload
  <2>2. nextCheck \in Int /\ lastFetch \in Int /\ nextCheck >= lastFetch + Retry
    BY CatalogueAssumption
  <2>3. \A c \in Callers : call[c].since <= published /\ ~(call[c].got > 0)
    BY DEF Idle
  <2>4. QED
    BY <2>1, <2>2, <2>3 DEF ContentInv
<1>3. QED
  BY <1>1, <1>2 DEF CatalogueInv

\* The steps of the composition, as far as the catalogue is concerned.
Passing == /\ UNCHANGED catalogueVars
           /\ clock' = clock \/ (clock < MaxClock /\ clock' = clock + 1)

LEMMA CatalogueSteps ==
  ASSUME [FrontNext]_frontVars
  PROVE  \/ Passing
         \/ /\ clock' = clock
            /\ \/ Publish
               \/ \E c \in Callers :
                     \/ \E force \in BOOLEAN : call[c].at = "idle" /\ Enqueue(c, force)
                     \/ LeaveCached(c) \/ BeginFetch(c) \/ FeedAnswers(c)
                     \/ FetchLands(c) \/ FetchFails(c)
<1> DEFINE Goal == \/ Passing
                   \/ /\ clock' = clock
                      /\ \/ Publish
                         \/ \E c \in Callers :
                               \/ \E force \in BOOLEAN : call[c].at = "idle" /\ Enqueue(c, force)
                               \/ LeaveCached(c) \/ BeginFetch(c) \/ FeedAnswers(c)
                               \/ FetchLands(c) \/ FetchFails(c)
<1>1. ASSUME NEW c \in Callers, NEW force \in BOOLEAN, RefreshIfDue(c, force), clock' = clock
      PROVE  Goal
  BY <1>1 DEF RefreshIfDue, AnswerCached, Passing
<1>2. ASSUME NEW c \in Callers, HandlerStep(c), clock' = clock PROVE Goal
  BY <1>2 DEF HandlerStep
<1>3. ASSUME Publish, clock' = clock PROVE Goal
  BY <1>3
<1>4. ASSUME Passing PROVE Goal
  BY <1>4
<1> HIDE DEF Goal
<1>5. ASSUME NEW c \in Callers, NEW k \in Keys, ListModels(c, k) PROVE Goal
  BY <1>1, <1>5 DEF ListModels
<1>6. ASSUME NEW k \in Keys, OtherRequest(k) \/ TooMany(k) PROVE Goal
  BY <1>4, <1>6 DEF OtherRequest, TooMany, Passing
<1>7. ASSUME NEW c \in Callers, ModelAvailability(c) \/ SyncModels(c) PROVE Goal
  BY <1>1, <1>7 DEF ModelAvailability, SyncModels
<1>8. ASSUME NEW c \in Callers, Fetching(c) PROVE Goal
  BY <1>2, <1>8 DEF Fetching
<1>9. Publishing => Goal
  BY <1>3 DEF Publishing
<1>10. Tick => Goal
  BY <1>4 DEF Tick, LimiterTick, Passing
<1>11. UNCHANGED frontVars => Goal
  BY <1>4 DEF frontVars, Passing
<1>12. Goal
  BY <1>5, <1>6, <1>7, <1>8, <1>9, <1>10, <1>11 DEF FrontNext
<1>13. QED
  BY <1>12 DEF Goal

\* The catalogue itself is left alone; calls answered so far stay answered.
LEMMA CallsKeepContent ==
  ASSUME CatalogueInv, clock' = clock, NEW c \in Callers, NEW r \in Calls,
         UNCHANGED <<published, entries, freeIds, shown, nextCheck, lastFetch>>,
         call' = [call EXCEPT ![c] = r],
         r.since <= published,
         r.got > 0 => r.got \in r.since..published /\ shown <= r.got
  PROVE  ContentInv'
<1>1. \A x \in Callers : call'[x] = IF x = c THEN r ELSE call[x]
  BY DEF CatalogueInv, LockInv
<1>2. Payload' = Payload
  BY DEF Payload
<1>3. \A x \in Callers :
        /\ call'[x].since <= published
        /\ call'[x].got > 0 => call'[x].got \in call'[x].since..published /\ shown <= call'[x].got
  BY <1>1 DEF CatalogueInv, ContentInv
<1>4. QED
  BY <1>2, <1>3 DEF CatalogueInv, ContentInv

\* The end of a fetch, whichever: the next one is a retry period away.
LEMMA EndsKeepTimes ==
  ASSUME CatalogueInv, NEW c \in Callers, clock' = clock,
         NEW period \in {Retry, Refresh}, FetchEnds(c, period), Holds(c)
  PROVE  /\ clock' \in 0..MaxClock /\ published' = published
         /\ nextCheck' \in Int /\ lastFetch' \in Int /\ nextCheck' >= lastFetch' + Retry
         /\ LockInv'
         /\ \A x \in Callers : /\ call'[x].since <= published
                               /\ ~(call'[x].got > 0)
<1>1. clock \in Nat /\ clock \in 0..MaxClock /\ Retry \in Nat /\ period \in Nat /\ period >= Retry
  BY CatalogueAssumption, MaxClockAssumption DEF CatalogueInv, ContentInv
<1>2. /\ nextCheck' = clock + period /\ lastFetch' = clock /\ published' = published
      /\ call' = [call EXCEPT ![c] = Idle]
  BY DEF FetchEnds
<1>3. nextCheck' \in Int /\ lastFetch' \in Int /\ nextCheck' >= lastFetch' + Retry
  BY <1>1, <1>2
<1>4. LockInv'
  BY <1>2, ReleaseKeepsLock DEF CatalogueInv, FetchEnds
<1>5. ASSUME NEW x \in Callers PROVE call'[x].since <= published /\ ~(call'[x].got > 0)
  <2>1. call'[x] = IF x = c THEN Idle ELSE call[x]
    BY <1>2 DEF CatalogueInv, LockInv
  <2>2. Idle.since = 0 /\ Idle.got = 0 /\ published \in Nat /\ 0 <= published
    BY FeedLength DEF Idle, CatalogueInv, ContentInv
  <2>3. x # c => ~(call[x].got > 0)
    BY DEF CatalogueInv, LockInv, Holds
  <2>4. QED
    BY <2>1, <2>2, <2>3 DEF CatalogueInv, ContentInv
<1>6. QED
  BY <1>1, <1>2, <1>3, <1>4, <1>5

LEMMA CatalogueStep ==
  ASSUME CatalogueInv, [FrontNext]_frontVars
  PROVE  CatalogueInv'
<1>1. CASE Passing
  <2>1. LockInv'
    BY <1>1 DEF Passing, catalogueVars, CatalogueInv, LockInv, NoneTwice, InQueue, Holds
  <2>2. clock' \in 0..MaxClock
    BY <1>1, MaxClockAssumption DEF Passing, CatalogueInv, ContentInv
  <2>3. Payload' = Payload
    BY <1>1 DEF Passing, catalogueVars, Payload
  <2>4. ContentInv'
    BY <1>1, <2>2, <2>3 DEF Passing, catalogueVars, CatalogueInv, ContentInv
  <2>5. QED
    BY <2>1, <2>4 DEF CatalogueInv
<1>2. CASE clock' = clock /\ Publish
  <2>1. LockInv'
    BY <1>2 DEF Publish, CatalogueInv, LockInv, NoneTwice, InQueue, Holds
  <2>2. Payload' = Payload
    BY <1>2 DEF Publish, Payload
  <2>3. /\ published' = published + 1 /\ published < Len(Feed) /\ call' = call /\ shown' = shown
        /\ published \in Nat /\ shown \in 0..published /\ Len(Feed) \in Nat
    BY <1>2, FeedLength DEF Publish, CatalogueInv, ContentInv
  <2>4. published' \in 1..Len(Feed) /\ shown' \in 0..published'
    BY <2>3
  <2>5. ASSUME NEW c \in Callers
        PROVE  /\ call'[c].since <= published'
               /\ call'[c].got > 0 => call'[c].got \in call'[c].since..published' /\ shown' <= call'[c].got
    <3>1. call[c].since \in Nat /\ call[c].got \in Nat
      BY DEF CatalogueInv, LockInv, Calls
    <3>2. /\ call[c].since <= published
          /\ call[c].got > 0 => call[c].got \in call[c].since..published /\ shown <= call[c].got
      BY DEF CatalogueInv, ContentInv
    <3>3. QED
      BY <2>3, <3>1, <3>2
  <2>6. ContentInv'
    BY <1>2, <2>2, <2>4, <2>5 DEF Publish, CatalogueInv, ContentInv
  <2>7. QED
    BY <2>1, <2>6 DEF CatalogueInv
<1>3. ASSUME NEW c \in Callers, NEW force \in BOOLEAN,
             clock' = clock, call[c].at = "idle", Enqueue(c, force)
      PROVE  CatalogueInv'
  <2>1. published \in Nat
    BY FeedLength DEF CatalogueInv, ContentInv
  <2>2. LockInv'
    BY <1>3, <2>1, EnqueueKeepsLock DEF CatalogueInv
  <2>3. ContentInv'
    <3> DEFINE r == [at |-> "queued", force |-> force, since |-> IF force THEN published ELSE 0, got |-> 0]
    <3>1. r \in Calls /\ r.since <= published /\ ~(r.got > 0)
      BY <2>1 DEF Calls
    <3>2. /\ call' = [call EXCEPT ![c] = r]
          /\ UNCHANGED <<published, entries, freeIds, shown, nextCheck, lastFetch>>
      BY <1>3 DEF Enqueue
    <3> HIDE DEF r
    <3>3. QED
      BY <1>3, <3>1, <3>2, CallsKeepContent
  <2>4. QED
    BY <2>2, <2>3 DEF CatalogueInv
<1>4. ASSUME NEW c \in Callers, clock' = clock, LeaveCached(c) PROVE CatalogueInv'
  <2>1. LockInv'
    BY <1>4, ReleaseKeepsLock DEF CatalogueInv, LeaveCached
  <2>2. Idle \in Calls /\ Idle.since <= published /\ ~(Idle.got > 0)
    BY FeedLength DEF Idle, Calls, CatalogueInv, ContentInv
  <2>3. ContentInv'
    BY <1>4, <2>2, CallsKeepContent DEF LeaveCached
  <2>4. QED
    BY <2>1, <2>3 DEF CatalogueInv
<1>5. ASSUME NEW c \in Callers, clock' = clock, BeginFetch(c) PROVE CatalogueInv'
  <2> DEFINE r == [call[c] EXCEPT !.at = "fetching"]
  <2>1. call[c] \in Calls
    BY DEF CatalogueInv, LockInv
  <2>2. /\ r \in Calls /\ r.at = "fetching" /\ r.since = call[c].since /\ r.got = call[c].got
    BY <2>1 DEF Calls
  <2>3. call' = [call EXCEPT ![c] = r]
    BY <1>5 DEF BeginFetch
  <2> HIDE DEF r
  <2>4. LockInv'
    BY <1>5, <2>2, <2>3, ProgressKeepsLock DEF CatalogueInv, BeginFetch
  <2>5. /\ r.since <= published
        /\ r.got > 0 => r.got \in r.since..published /\ shown <= r.got
    BY <2>2 DEF CatalogueInv, ContentInv
  <2>6. ContentInv'
    BY <1>5, <2>2, <2>3, <2>5, CallsKeepContent DEF BeginFetch
  <2>7. QED
    BY <2>4, <2>6 DEF CatalogueInv
<1>6. ASSUME NEW c \in Callers, clock' = clock, FeedAnswers(c) PROVE CatalogueInv'
  <2> DEFINE r == [call[c] EXCEPT !.got = published]
  <2>1. call[c] \in Calls /\ published \in Nat /\ call[c].at = "fetching" /\ Holds(c)
    BY <1>6, FeedLength DEF CatalogueInv, LockInv, ContentInv, FeedAnswers
  <2>2. /\ r \in Calls /\ r.at = "fetching" /\ r.since = call[c].since /\ r.got = published
    BY <2>1 DEF Calls
  <2>3. call' = [call EXCEPT ![c] = r]
    BY <1>6 DEF FeedAnswers
  <2> HIDE DEF r
  <2>4. LockInv'
    BY <1>6, <2>1, <2>2, <2>3, ProgressKeepsLock DEF CatalogueInv, FeedAnswers
  <2>5. /\ r.since <= published
        /\ r.got > 0 => r.got \in r.since..published /\ shown <= r.got
    <3>1. call[c].since \in Nat /\ call[c].since <= published /\ shown \in 0..published
      BY <2>1 DEF CatalogueInv, ContentInv, Calls
    <3>2. QED
      BY <2>1, <2>2, <3>1
  <2>6. ContentInv'
    BY <1>6, <2>2, <2>3, <2>5, CallsKeepContent DEF FeedAnswers
  <2>7. QED
    BY <2>4, <2>6 DEF CatalogueInv
<1>7. ASSUME NEW c \in Callers, clock' = clock, FetchLands(c) PROVE CatalogueInv'
  <2>1. Holds(c) /\ call[c].got \in Nat /\ call[c].got \in call[c].since..published
        /\ call[c].since \in Nat /\ published \in Nat /\ call[c].got > 0
    BY <1>7, FeedLength DEF FetchLands, CatalogueInv, LockInv, ContentInv, Calls
  <2>2. /\ clock' \in 0..MaxClock /\ published' = published
        /\ nextCheck' \in Int /\ lastFetch' \in Int /\ nextCheck' >= lastFetch' + Retry
        /\ LockInv'
        /\ \A x \in Callers : call'[x].since <= published /\ ~(call'[x].got > 0)
    BY <1>7, <2>1, EndsKeepTimes DEF FetchLands
  <2>3. shown' = call[c].got /\ shown' \in 0..published /\ shown' # 0
    BY <1>7, <2>1 DEF FetchLands
  <2>4. Payload' = Feed[call[c].got]
    BY <2>3 DEF Payload
  <2>5. /\ WellFormed(Feed[shown']) /\ entries' = ParsedEntries(Payload')
        /\ freeIds' = ParsedFree(Payload')
    BY <1>7, <2>3, <2>4 DEF FetchLands
  <2>6. (entries = ParsedEntries(Payload) /\ freeIds = ParsedFree(Payload))'
    BY <2>5 DEF ParsedEntries, ParsedFree, Listed
  <2>7. (shown > 0 => WellFormed(Feed[shown]))'
    BY <2>5 DEF WellFormed
  <2>8. published \in 1..Len(Feed)
    BY DEF CatalogueInv, ContentInv
  <2>9. ContentInv'
    BY <2>2, <2>3, <2>6, <2>7, <2>8 DEF ContentInv
  <2>10. QED
    BY <2>2, <2>9 DEF CatalogueInv
<1>8. ASSUME NEW c \in Callers, clock' = clock, FetchFails(c) PROVE CatalogueInv'
  <2>1. Holds(c)
    BY <1>8 DEF FetchFails, CatalogueInv, LockInv
  <2>2. /\ clock' \in 0..MaxClock /\ published' = published
        /\ nextCheck' \in Int /\ lastFetch' \in Int /\ nextCheck' >= lastFetch' + Retry
        /\ LockInv'
        /\ \A x \in Callers : call'[x].since <= published /\ ~(call'[x].got > 0)
    BY <1>8, <2>1, EndsKeepTimes DEF FetchFails
  <2>3. UNCHANGED <<entries, freeIds, shown>> /\ Payload' = Payload
    BY <1>8 DEF FetchFails, Payload
  <2>4. ContentInv'
    BY <2>2, <2>3 DEF CatalogueInv, ContentInv
  <2>5. QED
    BY <2>2, <2>4 DEF CatalogueInv
<1>9. QED
  BY <1>1, <1>2, <1>3, <1>4, <1>5, <1>6, <1>7, <1>8, CatalogueSteps

(* The inductive invariant of the catalogue (ModelCatalog.refresh_if_due,  *)
(* Registry.use_live_catalogue): the lock's holder is the one that         *)
(* fetches, and what is shown is a payload the feed published by then.     *)
THEOREM CatalogueInvariant == FrontSpec => []CatalogueInv
<1>1. FrontInit => CatalogueInv
  BY CatalogueStarts
<1>2. CatalogueInv /\ [FrontNext]_frontVars => CatalogueInv'
  BY CatalogueStep
<1>3. QED
  BY <1>1, <1>2, PTL DEF FrontSpec

LEMMA TypesFollow == LimiterInv /\ CatalogueInv => FrontTypeOK
<1> SUFFICES ASSUME LimiterInv, CatalogueInv PROVE FrontTypeOK
  OBVIOUS
<1>1. clock \in 0..MaxClock /\ \A k \in Keys : Len(buckets[k]) <= Rpm[k]
  BY DEF LimiterInv, KeyInv, CatalogueInv, ContentInv
<1>2. published \in DOMAIN Feed /\ shown \in 0..Len(Feed)
  BY FeedLength DEF CatalogueInv, ContentInv
<1>3. DOMAIN queue = 1..Len(queue)
  BY DEF CatalogueInv, LockInv
<1>4. ASSUME NEW c \in Callers
      PROVE  /\ call[c].at \in {"idle", "queued", "fetching"}
             /\ call[c].at = "idle" <=> \A i \in DOMAIN queue : queue[i] # c
             /\ call[c].at = "fetching" => Holds(c)
  BY <1>3 DEF CatalogueInv, LockInv, InQueue, Calls
<1>5. \A i, j \in DOMAIN queue : queue[i] = queue[j] => i = j
  BY <1>3 DEF CatalogueInv, LockInv, NoneTwice
<1>6. QED
  BY <1>1, <1>2, <1>4, <1>5 DEF FrontTypeOK

LEMMA OneFeedFollows == CatalogueInv => CatalogueIsOneFeed
<1> SUFFICES ASSUME CatalogueInv PROVE CatalogueIsOneFeed
  OBVIOUS
<1>1. \A g \in DOMAIN Payload : Payload[g] # NotAList
  <2>1. CASE shown = 0
    <3>1. Payload = Snapshot
      BY <2>1 DEF Payload
    <3>2. \A g \in DOMAIN Snapshot : Snapshot[g] \in {<<>>, <<"old-free">>}
      BY DEF Snapshot
    <3>3. QED
      BY <3>1, <3>2, CatalogueAssumption
  <2>2. CASE shown # 0
    <3>1. Payload = Feed[shown] /\ shown > 0
      BY <2>2, FeedLength DEF Payload, CatalogueInv, ContentInv
    <3>2. QED
      BY <3>1 DEF CatalogueInv, ContentInv, WellFormed
  <2>3. QED
    BY <2>1, <2>2
<1>2. DOMAIN entries = UNION {Listed(Payload, g) : g \in DOMAIN Payload}
  BY DEF CatalogueInv, ContentInv, ParsedEntries
<1>3. freeIds = Listed(Payload, "free")
  BY DEF CatalogueInv, ContentInv, ParsedFree
<1>4. /\ \A g \in DOMAIN Payload : BadItem \notin Listed(Payload, g)
      /\ \E g \in DOMAIN Payload : Listed(Payload, g) # {}
  <2>1. CASE shown = 0
    <3>1. Payload = Snapshot
      BY <2>1 DEF Payload
    <3>2. \A g \in DOMAIN Snapshot : Listed(Snapshot, g) = IF g = "free" THEN {"old-free"} ELSE {}
      <4>1. /\ {<<"old-free">>[i] : i \in DOMAIN <<"old-free">>} = {"old-free"}
            /\ {<<>>[i] : i \in DOMAIN <<>>} = {}
        OBVIOUS
      <4>2. ASSUME NEW g \in DOMAIN Snapshot
            PROVE  Snapshot[g] = IF g = "free" THEN <<"old-free">> ELSE <<>>
        BY DEF Snapshot
      <4>3. ASSUME NEW g \in DOMAIN Snapshot
            PROVE  Listed(Snapshot, g) = IF g = "free" THEN {"old-free"} ELSE {}
        <5>1. CASE g = "free"
          <6>1. Snapshot[g] = <<"old-free">>
            BY <4>2, <5>1
          <6>2. QED
            BY <4>1, <5>1, <6>1 DEF Listed
        <5>2. CASE g # "free"
          <6>1. Snapshot[g] = <<>>
            BY <4>2, <5>2
          <6>2. QED
            BY <4>1, <5>2, <6>1 DEF Listed
        <5>3. QED
          BY <5>1, <5>2
      <4>4. QED
        BY <4>3
    <3>3. "free" \in DOMAIN Snapshot
      BY CatalogueAssumption DEF Snapshot
    <3>4. QED
      BY <3>1, <3>2, <3>3, CatalogueAssumption
  <2>2. CASE shown # 0
    <3>1. /\ Payload = Feed[shown] /\ WellFormed(Feed[shown])
      BY <2>2, FeedLength DEF Payload, CatalogueInv, ContentInv
    <3>2. \A g \in DOMAIN Payload : BadItem \notin Listed(Payload, g)
      BY <3>1 DEF WellFormed, Listed
    <3>3. PICK g \in DOMAIN Payload : Payload[g] # <<>>
      BY <3>1 DEF WellFormed
    <3>4. Listed(Payload, g) # {}
      <4>1. Payload[g] \in Seq(Listed(Payload, g))
        BY <2>2, <3>1, FeedLength, CatalogueAssumption DEF WellFormed, CatalogueInv, ContentInv
      <4>2. 1 \in DOMAIN Payload[g]
        BY <3>3, <4>1
      <4>3. QED
        BY <4>2 DEF Listed
    <3>5. QED
      BY <3>2, <3>4
  <2>3. QED
    BY <2>1, <2>2
<1>5. BadItem \notin DOMAIN entries /\ DOMAIN entries # {}
  BY <1>2, <1>4
<1>6. QED
  BY <1>1, <1>2, <1>3, <1>5 DEF CatalogueIsOneFeed, Payload, IsFree

(* The lock of the catalogue has one holder and a queue without repeats,   *)
(* and what the list shows is one payload of the feed, whole, with no      *)
(* missing group, no unusable item and at least one model, each free when  *)
(* listed as free (_parse_catalogue, Registry.use_live_catalogue).         *)
THEOREM FrontIsSafe == FrontSpec => []FrontInv
<1>1. LimiterInv /\ CatalogueInv => FrontInv
  BY TypesFollow, OneFeedFollows DEF FrontInv
<1>2. QED
  BY <1>1, LimiterInvariant, CatalogueInvariant, PTL

(* An answer that was given earlier never replaces a later one: the lock   *)
(* orders the fetches, and the feed only moves forward.                    *)
THEOREM CatalogueMovesForward == FrontSpec => NeverBackwards
<1>1. CatalogueInv /\ [FrontNext]_frontVars => shown' >= shown
  <2> SUFFICES ASSUME CatalogueInv, [FrontNext]_frontVars PROVE shown' >= shown
    OBVIOUS
  <2>1. shown \in Nat
    BY FeedLength DEF CatalogueInv, ContentInv
  <2>2. ASSUME NEW c \in Callers, FetchLands(c) PROVE shown' >= shown
    <3>1. call[c].got \in Nat
      BY DEF CatalogueInv, LockInv, Calls
    <3>2. QED
      BY <2>1, <2>2, <3>1 DEF FetchLands, CatalogueInv, ContentInv
  <2>3. ASSUME shown' = shown PROVE shown' >= shown
    BY <2>1, <2>3
  <2>4. ASSUME NEW c \in Callers,
               \/ \E force \in BOOLEAN : Enqueue(c, force)
               \/ LeaveCached(c) \/ BeginFetch(c) \/ FeedAnswers(c) \/ FetchFails(c)
        PROVE  shown' = shown
    BY <2>4 DEF Enqueue, LeaveCached, BeginFetch, FeedAnswers, FetchFails
  <2>5. Passing \/ Publish => shown' = shown
    BY DEF Passing, Publish, catalogueVars
  <2>6. QED
    BY <2>2, <2>3, <2>4, <2>5, CatalogueSteps
<1>2. CatalogueInv /\ [FrontNext]_frontVars => [shown' >= shown]_frontVars
  BY <1>1
<1>3. QED
  BY <1>2, CatalogueInvariant, PTL DEF FrontSpec, NeverBackwards

\* What a step does to one handler's record.
LEMMA CallChanges ==
  ASSUME CatalogueInv, [FrontNext]_frontVars, NEW c \in Callers, call'[c] # call[c]
  PROVE  \/ call[c].at = "idle" /\ call'[c].at = "queued"
         \/ LeaveCached(c) \/ BeginFetch(c) \/ FeedAnswers(c)
         \/ FetchLands(c) \/ FetchFails(c)
<1>1. \A x \in Callers : \A r : call' = [call EXCEPT ![x] = r] =>
        /\ c # x => call'[c] = call[c]
        /\ c = x => call'[c] = r
  BY DEF CatalogueInv, LockInv
<1>2. ASSUME NEW x \in Callers, LeaveCached(x) PROVE c = x
  BY <1>1, <1>2 DEF LeaveCached
<1>3. ASSUME NEW x \in Callers, BeginFetch(x) PROVE c = x
  BY <1>1, <1>3 DEF BeginFetch
<1>4. ASSUME NEW x \in Callers, FeedAnswers(x) PROVE c = x
  BY <1>1, <1>4 DEF FeedAnswers
<1>5. ASSUME NEW x \in Callers, FetchLands(x) PROVE c = x
  BY <1>1, <1>5 DEF FetchLands, FetchEnds
<1>6. ASSUME NEW x \in Callers, FetchFails(x) PROVE c = x
  BY <1>1, <1>6 DEF FetchFails, FetchEnds
<1>7. ASSUME NEW x \in Callers, NEW force \in BOOLEAN, call[x].at = "idle", Enqueue(x, force)
      PROVE  call[c].at = "idle" /\ call'[c].at = "queued"
  BY <1>1, <1>7 DEF Enqueue
<1>8. ~(Passing \/ Publish)
  BY DEF Passing, Publish, catalogueVars
<1>9. QED
  BY <1>2, <1>3, <1>4, <1>5, <1>6, <1>7, <1>8, CatalogueSteps

(* A request that queued up behind a fetch does not fetch again until the  *)
(* retry period is over: the second check under the lock.                  *)
THEOREM FetchesDoNotHerd == FrontSpec => NoFetchHerd
<1> DEFINE Herdless == \A c \in Callers :
             call[c].at = "queued" /\ call'[c].at = "fetching" /\ ~call[c].force
             => clock - lastFetch >= Retry
<1>1. CatalogueInv /\ [FrontNext]_frontVars => Herdless
  <2> SUFFICES ASSUME CatalogueInv, [FrontNext]_frontVars, NEW c \in Callers,
                      call[c].at = "queued", call'[c].at = "fetching", ~call[c].force
               PROVE  clock - lastFetch >= Retry
    OBVIOUS
  <2>1. call'[c] # call[c]
    OBVIOUS
  <2>2. \A r : call' = [call EXCEPT ![c] = r] => call'[c] = r
    BY DEF CatalogueInv, LockInv
  <2>3. ~LeaveCached(c) /\ ~FetchLands(c) /\ ~FetchFails(c) /\ ~FeedAnswers(c)
    <3>1. LeaveCached(c) => call'[c].at = "idle"
      BY <2>2 DEF LeaveCached, Idle
    <3>2. QED
      BY <3>1 DEF FetchLands, FetchFails, FeedAnswers
  <2>4. BeginFetch(c)
    BY <2>1, <2>3, CallChanges
  <2>5. clock >= nextCheck
    BY <2>4 DEF BeginFetch, StillDue, Due
  <2>6. clock \in Int /\ nextCheck \in Int /\ lastFetch \in Int /\ nextCheck >= lastFetch + Retry
    BY DEF CatalogueInv, ContentInv
  <2>7. Retry \in Int
    BY CatalogueAssumption
  <2>8. QED
    BY <2>5, <2>6, <2>7
<1>2. CatalogueInv /\ [FrontNext]_frontVars => [Herdless]_frontVars
  BY <1>1
<1>3. QED
  BY <1>2, CatalogueInvariant, PTL DEF FrontSpec, NoFetchHerd

(* "Sync models" that reports no error shows nothing older than what was   *)
(* published when the button was pressed (refresh_if_due with force).      *)
THEOREM SyncsAreFresh == FrontSpec => SyncIsFresh
<1> DEFINE Fresh == \A c \in Callers :
             call[c].force /\ call'[c] = Idle /\ ~lastError' => shown' >= call[c].since
<1>1. CatalogueInv /\ [FrontNext]_frontVars => Fresh
  <2> SUFFICES ASSUME CatalogueInv, [FrontNext]_frontVars, NEW c \in Callers,
                      call[c].force, call'[c] = Idle, ~lastError'
               PROVE  shown' >= call[c].since
    OBVIOUS
  <2>1. call'[c] # call[c] /\ Idle.at = "idle"
    BY DEF Idle
  <2>2. \A r : call' = [call EXCEPT ![c] = r] => call'[c] = r
    BY DEF CatalogueInv, LockInv
  <2>3. ~LeaveCached(c)
    BY DEF LeaveCached, StillDue
  <2>4. ~FetchFails(c)
    BY DEF FetchFails
  <2>5. ~BeginFetch(c) /\ ~FeedAnswers(c)
    <3>1. call[c] \in Calls
      BY DEF CatalogueInv, LockInv
    <3>2. [call[c] EXCEPT !.at = "fetching"].at = "fetching"
      BY <3>1 DEF Calls
    <3>3. call[c].at = "fetching" => [call[c] EXCEPT !.got = published].at = "fetching"
      BY <3>1 DEF Calls
    <3>4. QED
      BY <2>1, <2>2, <3>2, <3>3 DEF BeginFetch, FeedAnswers
  <2>6. FetchLands(c)
    BY <2>1, <2>3, <2>4, <2>5, CallChanges
  <2>7. shown' = call[c].got /\ call[c].got \in call[c].since..published
    BY <2>6 DEF FetchLands, CatalogueInv, ContentInv
  <2>8. call[c].since \in Nat /\ published \in Nat
    BY FeedLength DEF CatalogueInv, LockInv, ContentInv, Calls
  <2>9. QED
    BY <2>7, <2>8
<1>2. CatalogueInv /\ [FrontNext]_frontVars => [Fresh]_frontVars
  BY <1>1
<1>3. QED
  BY <1>2, CatalogueInvariant, PTL DEF FrontSpec, SyncIsFresh
=============================================================================
