-------------------------- MODULE TqRecoveryProofs ---------------------------
(***************************************************************************)
(* Proofs about TqRecovery, for any scenarios, timer parameters, window    *)
(* and packet sizes.                                                       *)
(***************************************************************************)
EXTENDS TqRecovery, FiniteSetTheorems, WellFoundedInduction, TLAPS

Rtt == [latest : Nat, smoothed : Nat \cup {None}, var : Nat, min : Nat, max : Nat]
Rec == [pto_count : 0..MaxPtoCount, timer : Int, bytes : Nat, eliciting : Nat, rtt : Rtt]
Packet ==
  [kind : Kinds, time : Nat, acked : BOOLEAN, lost : Nat \cup {None}, frames : SUBSET Nat]
Queue == UNION {[S -> Packet] : S \in {T \in SUBSET Nat : IsFiniteSet(T)}}
Space ==
  [next : Nat, sent : Queue, lost : SUBSET Nat, acked : SUBSET Nat, last : Int, loss_time : Int,
   largest : Int, probes : Nat, bytes : Nat, eliciting : Nat, silent : Nat]
World == [r : Rec, sp : [Spaces -> Space]]

-----------------------------------------------------------------------------
(* Numbers                                                                 *)

(* A nonempty set of naturals has a least element.                         *)
LEMMA MinExists ==
  ASSUME NEW S, S \subseteq Nat, S # {}
  PROVE  Min(S) \in S /\ \A y \in S : Min(S) <= y
<1>1. PICK x \in S : \A y \in S : ~(<<y, x>> \in OpToRel(<, Nat))
  BY NatLessThanWellFounded, WFMin, Zenon
<1>2. \A y \in S : ~(y < x)
  BY <1>1, Zenon DEF OpToRel
<1>3. \A y \in S : x <= y
  BY <1>2
<1> QED
  BY <1>3, Zenon DEF Min

(* A nonempty bounded set of naturals has a largest element.               *)
LEMMA MaxExists ==
  ASSUME NEW S, NEW n \in Nat, S \subseteq 0..n, S # {}
  PROVE  Max(S) \in S /\ \A y \in S : Max(S) >= y
<1> DEFINE T == {k \in Nat : n - k \in S}
<1>1. T \subseteq Nat /\ T # {}
  <2>1. PICK x \in S : TRUE
    BY Zenon
  <2>2. n - x \in T
    BY <2>1
  <2> QED
    BY <2>2, Zenon
<1>2. PICK m \in T : \A k \in T : m <= k
  <2> HIDE DEF T
  <2> QED
    BY <1>1, MinExists, Zenon
<1>3. n - m \in S
  BY <1>2, Zenon
<1>4. \A y \in S : n - m >= y
  <2> TAKE y \in S
  <2>1. n - y \in T
    OBVIOUS
  <2> QED
    BY <1>2, <2>1
<1> QED
  BY <1>3, <1>4, Zenon DEF Max

(* A set of acknowledged numbers that is not empty has a member.           *)
LEMMA SomeNat ==
  ASSUME NEW k \in Int, NEW S \in SUBSET (0..k), S # {}
  PROVE  \E n \in S : n \in Nat
<1>1. PICK n \in S : n \in 0..k
  BY Zenon
<1> QED
  BY <1>1

(* Max of two numbers, as in largest = max(largest, ack.largest).          *)
LEMMA MaxPair ==
  ASSUME NEW a \in Int, NEW b \in Int
  PROVE  /\ Max({a, b}) \in {a, b}
         /\ Max({a, b}) >= a /\ Max({a, b}) >= b
<1>1. \E x \in {a, b} : \A y \in {a, b} : x >= y
  <2>1. CASE a >= b
    BY <2>1
  <2>2. CASE ~(a >= b)
    BY <2>2
  <2> QED
    BY <2>1, <2>2, Zenon
<1> QED
  BY <1>1, Zenon DEF Max

(* Min of two numbers is one of them.                                      *)
LEMMA MinPair ==
  ASSUME NEW a \in Int, NEW b \in Int
  PROVE  Min({a, b}) \in {a, b}
<1>1. \E x \in {a, b} : \A y \in {a, b} : x <= y
  <2>1. CASE a <= b
    BY <2>1
  <2>2. CASE ~(a <= b)
    BY <2>2
  <2> QED
    BY <2>1, <2>2, Zenon
<1> QED
  BY <1>1, Zenon DEF Min

(* Max and Min of two natural numbers are natural.                         *)
LEMMA PairNat ==
  ASSUME NEW a \in Nat, NEW b \in Nat
  PROVE  Max({a, b}) \in Nat /\ Min({a, b}) \in Nat
<1>1. Max({a, b}) \in {a, b} /\ Min({a, b}) \in {a, b}
  BY MaxPair, MinPair
<1> QED
  BY <1>1, Zenon

(* saturating_sub stays natural, and is the difference when nothing        *)
(* saturates.                                                              *)
LEMMA SubNat ==
  ASSUME NEW a \in Nat, NEW b \in Nat
  PROVE  Sub(a, b) \in Nat /\ (b <= a => Sub(a, b) = a - b)
BY DEF Sub

-----------------------------------------------------------------------------
(* Queues                                                                  *)

(* A queue is a function from finitely many packet numbers to packets.     *)
LEMMA QueueType ==
  ASSUME NEW q
  PROVE  q \in Queue <=>
           /\ DOMAIN q \subseteq Nat /\ IsFiniteSet(DOMAIN q)
           /\ q \in [DOMAIN q -> Packet]
BY Zenon DEF Queue

(* What is known of a packet of a queue.                                   *)
LEMMA KindType ==
  ASSUME NEW q \in Queue, NEW n \in DOMAIN q
  PROVE  /\ n \in Nat /\ q[n] \in Packet
         /\ q[n].kind \in Kinds /\ q[n].kind.size \in 1..MaxSize
BY QueueType DEF Packet, Kinds

(* A packet that waits for its fate is in the queue.                       *)
LEMMA PendingIn ==
  ASSUME NEW q
  PROVE  Pending(q) \subseteq DOMAIN q
BY Zenon DEF Pending

(* The units that Bytes counts.                                            *)
Units(sent, S) ==
  {u \in S \X (1..MaxSize) : sent[u[1]].kind.flight /\ u[2] <= sent[u[1]].kind.size}
Elicits(sent, S) == {n \in S : sent[n].kind.flight /\ sent[n].kind.eliciting}

(* The counts of a set of packets are cardinalities of finite sets.        *)
LEMMA CountsFinite ==
  ASSUME NEW q \in Queue, NEW S \in SUBSET DOMAIN q
  PROVE  /\ IsFiniteSet(Units(q, S)) /\ Bytes(q, S) = Cardinality(Units(q, S))
         /\ IsFiniteSet(Elicits(q, S)) /\ Eliciting(q, S) = Cardinality(Elicits(q, S))
         /\ Bytes(q, S) \in Nat /\ Eliciting(q, S) \in Nat
<1>1. IsFiniteSet(S)
  BY QueueType, FS_Subset, Zenon
<1>2. IsFiniteSet(1..MaxSize)
  BY RecoveryAssumption, FS_Interval
<1>3. IsFiniteSet(S \X (1..MaxSize))
  BY <1>1, <1>2, FS_Product, Zenon
<1>4. IsFiniteSet(Units(q, S)) /\ IsFiniteSet(Elicits(q, S))
  BY <1>1, <1>3, FS_Subset, Zenon DEF Units, Elicits
<1>5. Bytes(q, S) = Cardinality(Units(q, S)) /\ Eliciting(q, S) = Cardinality(Elicits(q, S))
  BY Zenon DEF Bytes, Units, Eliciting, Elicits
<1> QED
  BY <1>4, <1>5, FS_CardinalityType, Zenon

(* Cardinality of a subset and of what it leaves.                          *)
LEMMA FiniteSplit ==
  ASSUME NEW A, NEW B \in SUBSET A, IsFiniteSet(A)
  PROVE  Cardinality(B) <= Cardinality(A) /\ Cardinality(A \ B) = Cardinality(A) - Cardinality(B)
<1>1. A \cap B = B
  BY Zenon
<1>2. Cardinality(B) <= Cardinality(A)
  BY FS_Subset, Zenon
<1>3. Cardinality(A \ B) = Cardinality(A) - Cardinality(A \cap B)
  BY FS_Difference, Zenon
<1> QED
  BY <1>1, <1>2, <1>3, Zenon

(* Packets S leave a set P: the counts of S are subtracted.                *)
LEMMA CountsSplit ==
  ASSUME NEW q \in Queue, NEW P \in SUBSET DOMAIN q, NEW S \in SUBSET P
  PROVE  /\ Bytes(q, S) <= Bytes(q, P) /\ Bytes(q, P \ S) = Bytes(q, P) - Bytes(q, S)
         /\ Eliciting(q, S) <= Eliciting(q, P)
         /\ Eliciting(q, P \ S) = Eliciting(q, P) - Eliciting(q, S)
<1>1. /\ Units(q, P \ S) = Units(q, P) \ Units(q, S)
      /\ Units(q, S) \subseteq Units(q, P)
  BY Zenon DEF Units
<1>2. /\ Elicits(q, P \ S) = Elicits(q, P) \ Elicits(q, S)
      /\ Elicits(q, S) \subseteq Elicits(q, P)
  BY Zenon DEF Elicits
<1>3. /\ IsFiniteSet(Units(q, P)) /\ IsFiniteSet(Units(q, S))
      /\ IsFiniteSet(Elicits(q, P)) /\ IsFiniteSet(Elicits(q, S))
  BY CountsFinite, Zenon
<1>4. /\ Cardinality(Units(q, P \ S)) = Cardinality(Units(q, P)) - Cardinality(Units(q, S))
      /\ Cardinality(Units(q, S)) <= Cardinality(Units(q, P))
  BY <1>1, <1>3, FiniteSplit, Zenon
<1>5. /\ Cardinality(Elicits(q, P \ S)) = Cardinality(Elicits(q, P)) - Cardinality(Elicits(q, S))
      /\ Cardinality(Elicits(q, S)) <= Cardinality(Elicits(q, P))
  BY <1>2, <1>3, FiniteSplit, Zenon
<1>6. P \ S \in SUBSET DOMAIN q /\ S \in SUBSET DOMAIN q
  BY Zenon
<1> QED
  BY <1>4, <1>5, <1>6, CountsFinite, Zenon

(* The counts depend on the kinds only.                                    *)
LEMMA CountsSame ==
  ASSUME NEW p, NEW q, NEW S, \A n \in S : p[n].kind = q[n].kind
  PROVE  Bytes(p, S) = Bytes(q, S) /\ Eliciting(p, S) = Eliciting(q, S)
<1>1. \A u \in S \X (1..MaxSize) : p[u[1]].kind = q[u[1]].kind
  BY Zenon
<1>2. Units(p, S) = Units(q, S)
  BY <1>1, Zenon DEF Units
<1>3. Elicits(p, S) = Elicits(q, S)
  BY Zenon DEF Elicits
<1> QED
  BY <1>2, <1>3, Zenon DEF Bytes, Units, Eliciting, Elicits

(* Packets that are not in flight do not count.                            *)
LEMMA CountsFlight ==
  ASSUME NEW q, NEW S, NEW T \in SUBSET S, \A n \in S \ T : ~q[n].kind.flight
  PROVE  Bytes(q, S) = Bytes(q, T) /\ Eliciting(q, S) = Eliciting(q, T)
<1>1. Units(q, S) = Units(q, T)
  BY Zenon DEF Units
<1>2. Elicits(q, S) = Elicits(q, T)
  BY Zenon DEF Elicits
<1> QED
  BY <1>1, <1>2, Zenon DEF Bytes, Units, Eliciting, Elicits

(* No packets, no bytes in flight.                                         *)
LEMMA CountsEmpty ==
  ASSUME NEW q
  PROVE  Bytes(q, {}) = 0 /\ Eliciting(q, {}) = 0
<1>1. Units(q, {}) = {} /\ Elicits(q, {}) = {}
  BY Zenon DEF Units, Elicits
<1> QED
  BY <1>1, FS_EmptySet, Zenon DEF Bytes, Units, Eliciting, Elicits

-----------------------------------------------------------------------------
(* The round trip and the timer                                            *)

(* smoothed_rtt is a natural number.                                       *)
LEMMA SmoothedNat ==
  ASSUME NEW r \in Rtt
  PROVE  SmoothedRtt(r) \in Nat
BY Zenon DEF SmoothedRtt, Rtt, None

(* pto_base is a natural number.                                           *)
LEMMA PtoBaseNat ==
  ASSUME NEW r \in Rtt
  PROVE  PtoBase(r) \in Nat
<1>1. 4 * r.var \in Nat /\ Granularity \in Nat
  BY RecoveryAssumption DEF Rtt
<1>2. Max({4 * r.var, Granularity}) \in Nat
  BY <1>1, PairNat, Zenon
<1> QED
  BY <1>2, SmoothedNat DEF PtoBase

(* Powers of two are natural: they count the subsets of an interval.       *)
LEMMA PowerNat ==
  ASSUME NEW n \in Nat
  PROVE  2^n \in Nat
<1>1. IsFiniteSet(1..n) /\ Cardinality(1..n) = n
  BY FS_Interval
<1>2. IsFiniteSet(SUBSET (1..n)) /\ Cardinality(SUBSET (1..n)) = 2^Cardinality(1..n)
  BY <1>1, FS_SUBSET, Zenon
<1>3. Cardinality(SUBSET (1..n)) \in Nat
  BY <1>2, FS_CardinalityType, Zenon
<1> QED
  BY <1>1, <1>2, <1>3, Zenon

(* The factor calculate_pto scales by is a natural number.                 *)
LEMMA BackoffNat ==
  ASSUME NEW r \in Rec
  PROVE  Backoff(r) \in Nat
<1>1. Sub(r.pto_count, PtoLinearFactor) \in Nat
  BY RecoveryAssumption, SubNat DEF Rec
<1> QED
  BY <1>1, PowerNat, Zenon DEF Backoff

(* calculate_pto and pto_with_ack_delay are natural numbers.               *)
LEMMA PtoNat ==
  ASSUME NEW r \in Rec
  PROVE  CalculatePto(r) \in Nat /\ PtoWithAckDelay(r, CalculatePto(r)) \in Nat
<1>1. MaxPto \in Nat /\ MaxAckDelay \in Nat /\ r.rtt \in Rtt
  BY RecoveryAssumption, Zenon DEF Rec
<1>2. PtoBase(r.rtt) * Backoff(r) \in Nat /\ MaxAckDelay * Backoff(r) \in Nat
  BY <1>1, PtoBaseNat, BackoffNat
<1>3. CalculatePto(r) \in Nat
  BY <1>1, <1>2, PairNat, Zenon DEF CalculatePto
<1>4. CalculatePto(r) + MaxAckDelay * Backoff(r) \in Nat
  BY <1>2, <1>3
<1>5. PtoWithAckDelay(r, CalculatePto(r)) \in Nat
  BY <1>1, <1>4, PairNat, Zenon DEF PtoWithAckDelay
<1> QED
  BY <1>3, <1>5, Zenon

(* The delay of the time threshold is a natural number.                    *)
LEMMA LossDelayNat ==
  ASSUME NEW r \in Rec
  PROVE  LossDelay(r) \in Nat
<1>1. r.rtt \in Rtt /\ r.rtt.latest \in Nat /\ Granularity \in Nat
  BY RecoveryAssumption, Zenon DEF Rec, Rtt
<1>2. PICK m \in Nat : m = Max({r.rtt.latest, SmoothedRtt(r.rtt)})
  BY <1>1, SmoothedNat, PairNat, Zenon
<1>3. (m * 9) \div 8 \in Nat
  OBVIOUS
<1> QED
  BY <1>1, <1>2, <1>3, PairNat, Zenon DEF LossDelay

(* A new RTT estimator has its type.                                       *)
LEMMA RttNewType ==
  ASSUME NEW rtt \in Nat
  PROVE  RttNew(rtt) \in Rtt
BY DEF RttNew, Rtt, None

(* RttEstimator::update keeps the estimator's type.                        *)
LEMMA RttUpdateType ==
  ASSUME NEW r \in Rtt, NEW delay \in Nat, NEW rtt \in Nat
  PROVE  RttUpdate(r, delay, rtt) \in Rtt
<1>1. /\ r.min \in Nat /\ r.max \in Nat /\ r.var \in Nat
      /\ r.smoothed = None \/ r.smoothed \in Nat
  BY Zenon DEF Rtt
<1>2. CASE r.smoothed = None
  BY <1>2 DEF RttUpdate, Rtt
<1>3. CASE r.smoothed \in Nat /\ r.smoothed # None
  <2>1. PICK m \in Nat : m = Min({r.min, rtt})
    BY <1>1, PairNat, Zenon
  <2>2. PICK a \in Nat : a = IF m + delay <= rtt THEN rtt - delay ELSE rtt
    <3>1. CASE m + delay <= rtt
      BY <3>1
    <3>2. CASE ~(m + delay <= rtt)
      BY <3>2, Zenon
    <3> QED
      BY <3>1, <3>2, Zenon
  <2>3. PICK d \in Nat : d = Max({r.smoothed - a, a - r.smoothed})
    <3>1. r.smoothed - a \in Int /\ a - r.smoothed \in Int
      BY <1>3
    <3>2. /\ Max({r.smoothed - a, a - r.smoothed}) \in {r.smoothed - a, a - r.smoothed}
          /\ Max({r.smoothed - a, a - r.smoothed}) >= r.smoothed - a
          /\ Max({r.smoothed - a, a - r.smoothed}) >= a - r.smoothed
      BY <3>1, MaxPair, Zenon
    <3> QED
      BY <1>3, <3>2
  <2>4. Max({r.max, rtt}) \in Nat
    BY <1>1, PairNat, Zenon
  <2>5. (7 * r.smoothed + a) \div 8 \in Nat /\ (3 * r.var + d) \div 4 \in Nat
    BY <1>1, <1>3
  <2>6. RttUpdate(r, delay, rtt) =
          [latest |-> rtt, min |-> m, max |-> Max({r.max, rtt}),
           smoothed |-> (7 * r.smoothed + a) \div 8, var |-> (3 * r.var + d) \div 4]
    BY <1>3, <2>1, <2>2, <2>3, Zenon DEF RttUpdate
  <2> QED
    BY <2>1, <2>4, <2>5, <2>6 DEF Rtt
<1> QED
  BY <1>1, <1>2, <1>3, Zenon

(* The loops over the spaces for the earliest time pick one of the spaces  *)
(* looked at.                                                              *)
LEMMA EarliestIn ==
  ASSUME NEW S \in SUBSET Spaces, S # {}, NEW at \in [Spaces -> Int]
  PROVE  Earliest(S, at) \in S
<1> DEFINE E == {s \in S : \A q \in S : at[s] <= at[q]}
<1>1. E # {}
  BY DEF Spaces
<1>2. E \subseteq S /\ E \subseteq Spaces
  BY Zenon
<1>3. First(E) \in E
  <2> HIDE DEF E
  <2> QED
    BY <1>1, <1>2, Zenon DEF First, Spaces
<1> QED
  BY <1>2, <1>3, Zenon DEF Earliest

(* PtoTimeAndSpace tells a time as soon as a space has ack-eliciting       *)
(* packets in flight and may be probed.                                    *)
LEMMA PtoTimeType ==
  ASSUME NEW w \in World, NEW h, NEW t \in Nat,
         \A s \in Spaces : w.sp[s].eliciting # 0 => w.sp[s].last \in Nat
  PROVE  /\ PtoTimeAndSpace(w.r, w.sp, h, t).time \in Int
         /\ PtoTimeAndSpace(w.r, w.sp, h, t).space \in Spaces
         /\ (\E s \in Spaces : w.sp[s].eliciting # 0 /\ (s = "Data" => Completed(h)))
              => PtoTimeAndSpace(w.r, w.sp, h, t).time # None
<1>1. PICK r \in Rec, sp \in [Spaces -> Space] : r = w.r /\ sp = w.sp
  BY Zenon DEF World
<1>2. PICK pto \in Nat : pto = CalculatePto(r)
  BY PtoNat, Zenon
<1>3. PICK late_pto \in Nat : late_pto = PtoWithAckDelay(r, pto)
  BY <1>2, PtoNat, Zenon
<1> DEFINE busy == {s \in Spaces : sp[s].eliciting # 0 /\ (s = "Data" => Completed(h))}
           at == [s \in Spaces |-> sp[s].last + (IF s = "Data" THEN late_pto ELSE pto)]
           e == Earliest(busy, at)
<1>4. \A s \in Spaces : sp[s].last \in Int
  BY Zenon DEF Space
<1>5. at \in [Spaces -> Int]
  BY <1>4
<1>6. \A s \in busy : at[s] \in Nat
  BY <1>1
<1>7. busy # {} => e \in busy
  <2> HIDE DEF at
  <2> QED
    BY <1>5, EarliestIn, Zenon
<1>8. PtoTimeAndSpace(r, sp, h, t) =
        IF r.eliciting = 0
        THEN [time |-> t + pto, space |-> IF Derived(h) THEN "Handshake" ELSE "Initial"]
        ELSE IF busy = {} THEN [time |-> None, space |-> "Initial"]
        ELSE [time |-> at[e], space |-> e]
  BY <1>2, <1>3, Zenon DEF PtoTimeAndSpace
<1> HIDE DEF at, e
<1>9. PtoTimeAndSpace(r, sp, h, t).time \in Int
  BY <1>6, <1>7, <1>8 DEF None
<1>10. PtoTimeAndSpace(r, sp, h, t).space \in Spaces
  BY <1>7, <1>8 DEF Spaces
<1>11. busy # {} => PtoTimeAndSpace(r, sp, h, t).time # None
  BY <1>6, <1>7, <1>8 DEF None
<1> QED
  BY <1>1, <1>9, <1>10, <1>11, Zenon

(* get_loss_time_and_space returns a time and a space.                     *)
LEMMA LossTimeType ==
  ASSUME NEW sp \in [Spaces -> Space]
  PROVE  LossTimeAndSpace(sp).time \in Int /\ LossTimeAndSpace(sp).space \in Spaces
<1> DEFINE at == [s \in Spaces |-> sp[s].loss_time]
           due == {s \in Spaces : at[s] # None}
           e == Earliest(due, at)
<1>1. at \in [Spaces -> Int]
  BY Zenon DEF Space
<1>2. due # {} => e \in due
  <2> HIDE DEF at
  <2> QED
    BY <1>1, EarliestIn, Zenon
<1>3. LossTimeAndSpace(sp) = IF due = {} THEN [time |-> None, space |-> "Data"]
                             ELSE [time |-> at[e], space |-> e]
  BY Zenon DEF LossTimeAndSpace
<1> HIDE DEF at, e
<1> QED
  BY <1>1, <1>2, <1>3 DEF None, Spaces

(* A space with ack-eliciting packets in flight knows when it sent one.    *)
Dated(w) == \A s \in Spaces : w.sp[s].eliciting # 0 => w.sp[s].last \in Nat

(* set_loss_detection_timer changes the timer alone, and arms it when a    *)
(* space that may be probed has an ack-eliciting packet in flight.         *)
LEMMA SetTimerFrame ==
  ASSUME NEW w \in World, NEW h, NEW t \in Nat, Dated(w)
  PROVE  LET v == SetTimer(w, h, t) IN
         /\ v \in World /\ v.sp = w.sp
         /\ v.r.bytes = w.r.bytes /\ v.r.eliciting = w.r.eliciting
         /\ v.r.rtt = w.r.rtt /\ v.r.pto_count = w.r.pto_count
         /\ /\ w.r.eliciting # 0
            /\ \E s \in Spaces : w.sp[s].eliciting # 0 /\ (s = "Data" => Completed(h))
            => v.r.timer # None
<1>1. w.r \in Rec /\ w.sp \in [Spaces -> Space] /\ w = [r |-> w.r, sp |-> w.sp]
  BY Zenon DEF World
<1>2. PICK loss \in Int : loss = LossTimeAndSpace(w.sp).time
  BY <1>1, LossTimeType, Zenon
<1>3. PICK pto \in Int : pto = PtoTimeAndSpace(w.r, w.sp, h, t).time
  BY PtoTimeType, Zenon DEF Dated
<1>4. PICK timer \in Int : timer = IF loss # None THEN loss
                                 ELSE IF w.r.eliciting = 0 /\ h.verified THEN None ELSE pto
  BY Zenon DEF None
<1>5. SetTimer(w, h, t) = [w EXCEPT !.r.timer = timer]
  BY <1>2, <1>3, <1>4, Zenon DEF SetTimer
<1>6. SetTimer(w, h, t) = [r |-> [w.r EXCEPT !.timer = timer], sp |-> w.sp]
  BY <1>1, <1>5, Zenon
<1>7. [w.r EXCEPT !.timer = timer] \in Rec
  BY <1>1, Zenon DEF Rec
<1>8. /\ SetTimer(w, h, t).r.bytes = w.r.bytes
      /\ SetTimer(w, h, t).r.eliciting = w.r.eliciting
      /\ SetTimer(w, h, t).r.rtt = w.r.rtt /\ SetTimer(w, h, t).r.pto_count = w.r.pto_count
      /\ SetTimer(w, h, t).r.timer = timer
  BY <1>1, <1>6 DEF Rec
<1>9. SetTimer(w, h, t) \in World /\ SetTimer(w, h, t).sp = w.sp
  BY <1>1, <1>6, <1>7 DEF World
<1>10. ASSUME w.r.eliciting # 0,
              \E s \in Spaces : w.sp[s].eliciting # 0 /\ (s = "Data" => Completed(h))
       PROVE  timer # None
  BY <1>3, <1>4, <1>10, PtoTimeType, Zenon DEF Dated
<1> QED
  BY <1>8, <1>9, <1>10, Zenon

-----------------------------------------------------------------------------
(* Packets that change or leave a queue                                    *)

(* detect_acked_packets marks the packets it finds and takes their frames; *)
(* they no longer wait for their fate, and no other packet changes.        *)
LEMMA MarkAckedType ==
  ASSUME NEW q \in Queue, NEW S \in SUBSET DOMAIN q
  PROVE  LET p == MarkAcked(q, S) IN
         /\ p \in Queue /\ DOMAIN p = DOMAIN q
         /\ \A n \in DOMAIN q :
              /\ p[n].kind = q[n].kind /\ p[n].time = q[n].time /\ p[n].lost = q[n].lost
              /\ p[n].acked = (n \in S \/ q[n].acked)
              /\ p[n].frames = IF n \in S THEN {} ELSE q[n].frames
         /\ Pending(p) = Pending(q) \ S
<1>1. \A n \in DOMAIN q : q[n] \in Packet
  BY KindType, Zenon
<1>2. DOMAIN MarkAcked(q, S) = DOMAIN q
  BY Zenon DEF MarkAcked
<1>3. \A n \in DOMAIN q :
        MarkAcked(q, S)[n] = IF n \in S THEN [q[n] EXCEPT !.acked = TRUE, !.frames = {}] ELSE q[n]
  BY Zenon DEF MarkAcked
<1>4. \A n \in DOMAIN q :
        /\ MarkAcked(q, S)[n] \in Packet
        /\ MarkAcked(q, S)[n].kind = q[n].kind /\ MarkAcked(q, S)[n].time = q[n].time
        /\ MarkAcked(q, S)[n].lost = q[n].lost
        /\ MarkAcked(q, S)[n].acked = (n \in S \/ q[n].acked)
        /\ MarkAcked(q, S)[n].frames = IF n \in S THEN {} ELSE q[n].frames
  BY <1>1, <1>3 DEF Packet
<1>5. MarkAcked(q, S) \in [DOMAIN q -> Packet]
  BY <1>4, Zenon DEF MarkAcked
<1>6. MarkAcked(q, S) \in Queue
  BY <1>2, <1>5, QueueType, Zenon
<1>7. Pending(MarkAcked(q, S)) = Pending(q) \ S
  BY <1>2, <1>4, Zenon DEF Pending
<1> QED
  BY <1>2, <1>4, <1>6, <1>7, Zenon

(* detect_lost_packets does the same for the packets it declares lost.     *)
LEMMA MarkLostType ==
  ASSUME NEW q \in Queue, NEW S \in SUBSET DOMAIN q, NEW t \in Nat
  PROVE  LET p == MarkLost(q, S, t) IN
         /\ p \in Queue /\ DOMAIN p = DOMAIN q
         /\ \A n \in DOMAIN q :
              /\ p[n].kind = q[n].kind /\ p[n].time = q[n].time /\ p[n].acked = q[n].acked
              /\ p[n].lost = IF n \in S THEN t ELSE q[n].lost
              /\ p[n].frames = IF n \in S THEN {} ELSE q[n].frames
         /\ Pending(p) = Pending(q) \ S
<1>1. \A n \in DOMAIN q : q[n] \in Packet
  BY KindType, Zenon
<1>2. DOMAIN MarkLost(q, S, t) = DOMAIN q
  BY Zenon DEF MarkLost
<1>3. \A n \in DOMAIN q :
        MarkLost(q, S, t)[n] = IF n \in S THEN [q[n] EXCEPT !.lost = t, !.frames = {}] ELSE q[n]
  BY Zenon DEF MarkLost
<1>4. \A n \in DOMAIN q :
        /\ MarkLost(q, S, t)[n] \in Packet
        /\ MarkLost(q, S, t)[n].kind = q[n].kind /\ MarkLost(q, S, t)[n].time = q[n].time
        /\ MarkLost(q, S, t)[n].acked = q[n].acked
        /\ MarkLost(q, S, t)[n].lost = IF n \in S THEN t ELSE q[n].lost
        /\ MarkLost(q, S, t)[n].frames = IF n \in S THEN {} ELSE q[n].frames
  BY <1>1, <1>3 DEF Packet
<1>5. MarkLost(q, S, t) \in [DOMAIN q -> Packet]
  BY <1>4, Zenon DEF MarkLost
<1>6. MarkLost(q, S, t) \in Queue
  BY <1>2, <1>5, QueueType, Zenon
<1>7. Pending(MarkLost(q, S, t)) = Pending(q) \ S
  BY <1>2, <1>4 DEF Pending, None
<1> QED
  BY <1>2, <1>4, <1>6, <1>7, Zenon

(* ... and leaves the sending times alone.                                 *)
LEMMA MarkLostTime ==
  ASSUME NEW q \in Queue, NEW S, NEW t
  PROVE  /\ DOMAIN MarkLost(q, S, t) = DOMAIN q
         /\ \A n \in DOMAIN q : MarkLost(q, S, t)[n].time = q[n].time
<1>1. \A n \in DOMAIN q : q[n] \in Packet
  BY KindType, Zenon
<1> QED
  BY <1>1, Zenon DEF MarkLost, Packet

(* Draining a queue keeps the packets that stay as they are.               *)
LEMMA KeepType ==
  ASSUME NEW q \in Queue, NEW S \in SUBSET DOMAIN q
  PROVE  LET p == Keep(q, S) IN
         /\ p \in Queue /\ DOMAIN p = S /\ \A n \in S : p[n] = q[n]
         /\ Pending(p) = Pending(q) \cap S
<1>1. DOMAIN Keep(q, S) = S /\ \A n \in S : Keep(q, S)[n] = q[n]
  BY Zenon DEF Keep
<1>2. Keep(q, S) \in [S -> Packet]
  BY KindType, Zenon DEF Keep
<1>3. S \subseteq Nat /\ IsFiniteSet(S)
  BY QueueType, FS_Subset, Zenon
<1>4. Keep(q, S) \in Queue
  BY <1>1, <1>2, <1>3, QueueType, Zenon
<1>5. Pending(Keep(q, S)) = Pending(q) \cap S
  BY <1>1, Zenon DEF Pending
<1> QED
  BY <1>1, <1>4, <1>5, Zenon

(* What LeaveFlight does to the counts of the path and of a space.         *)
LEMMA LeaveRec ==
  ASSUME NEW r \in Rec, NEW q \in Queue, NEW S \in SUBSET DOMAIN q
  PROVE  LET v == LeaveFlight(r, q, S) IN
         /\ v \in Rec /\ v.rtt = r.rtt /\ v.pto_count = r.pto_count /\ v.timer = r.timer
         /\ v.bytes = Sub(r.bytes, Bytes(q, S)) /\ v.eliciting = Sub(r.eliciting, Eliciting(q, S))
<1>1. r.bytes \in Nat /\ r.eliciting \in Nat
  BY Zenon DEF Rec
<1>2. PICK b \in Nat : b = Sub(r.bytes, Bytes(q, S))
  BY <1>1, CountsFinite, SubNat, Zenon
<1>3. PICK e \in Nat : e = Sub(r.eliciting, Eliciting(q, S))
  BY <1>1, CountsFinite, SubNat, Zenon
<1>4. LeaveFlight(r, q, S) = [r EXCEPT !.bytes = b, !.eliciting = e]
  BY <1>2, <1>3, Zenon DEF LeaveFlight
<1> QED
  BY <1>2, <1>3, <1>4, Zenon DEF Rec

(* Packets that leave the counts change nothing else of a space.           *)
LEMMA LeaveSpace ==
  ASSUME NEW x \in Space, NEW q \in Queue, NEW S \in SUBSET DOMAIN q
  PROVE  LET v == LeaveFlight(x, q, S) IN
         \E b, e \in Nat :
           /\ v = [x EXCEPT !.bytes = b, !.eliciting = e]
           /\ b = Sub(x.bytes, Bytes(q, S)) /\ e = Sub(x.eliciting, Eliciting(q, S))
<1>1. x.bytes \in Nat /\ x.eliciting \in Nat
  BY Zenon DEF Space
<1>2. PICK b \in Nat : b = Sub(x.bytes, Bytes(q, S))
  BY <1>1, CountsFinite, SubNat, Zenon
<1>3. PICK e \in Nat : e = Sub(x.eliciting, Eliciting(q, S))
  BY <1>1, CountsFinite, SubNat, Zenon
<1>4. LeaveFlight(x, q, S) = [x EXCEPT !.bytes = b, !.eliciting = e]
  BY <1>2, <1>3, Zenon DEF LeaveFlight
<1> QED
  BY <1>2, <1>3, <1>4, Zenon

(* Frames are named by packet numbers.                                     *)
LEMMA FramesType ==
  ASSUME NEW q \in Queue, NEW S \in SUBSET DOMAIN q
  PROVE  Frames(q, S) \in SUBSET Nat
<1>1. \A n \in S : q[n].frames \in SUBSET Nat
  BY KindType, Zenon DEF Packet
<1> QED
  BY <1>1, Zenon DEF Frames

(* A space without the fields that acknowledgments and losses change.      *)
SameOrigin(x, y) ==
  /\ y.next = x.next /\ y.largest = x.largest /\ y.last = x.last
  /\ y.probes = x.probes /\ y.silent = x.silent

(* All that detect_acked_packets changes.                                  *)
LEMMA DetectAckedFrame ==
  ASSUME NEW w \in World, NEW s \in Spaces, NEW pns
  PROVE  LET v == DetectAcked(w, s, pns)
             x == w.sp[s]
             y == v.sp[s]
             new == NewlyAcked(x, pns)
         IN /\ v \in World /\ \A q \in Spaces \ {s} : v.sp[q] = w.sp[q]
            /\ SameOrigin(x, y) /\ y.lost = x.lost /\ y.loss_time = x.loss_time
            /\ y.sent = MarkAcked(x.sent, new) /\ y.acked = x.acked \cup Frames(x.sent, new)
            /\ y.bytes = Sub(x.bytes, Bytes(x.sent, new))
            /\ y.eliciting = Sub(x.eliciting, Eliciting(x.sent, new))
            /\ v.r.bytes = Sub(w.r.bytes, Bytes(x.sent, new))
            /\ v.r.eliciting = Sub(w.r.eliciting, Eliciting(x.sent, new))
            /\ v.r.rtt = w.r.rtt /\ v.r.pto_count = w.r.pto_count
<1>1. PICK r \in Rec, sp \in [Spaces -> Space] : r = w.r /\ sp = w.sp
  BY Zenon DEF World
<1>2. PICK x \in Space : x = sp[s]
  BY Zenon
<1>3. PICK q \in Queue : q = x.sent
  BY Zenon DEF Space
<1>4. PICK new \in SUBSET DOMAIN q : new = NewlyAcked(x, pns)
  BY <1>3, Zenon DEF NewlyAcked
<1>5. PICK m \in Queue : m = MarkAcked(q, new)
  BY MarkAckedType, Zenon
<1>6. PICK b, e \in Nat :
        /\ LeaveFlight(x, q, new) = [x EXCEPT !.bytes = b, !.eliciting = e]
        /\ b = Sub(x.bytes, Bytes(q, new)) /\ e = Sub(x.eliciting, Eliciting(q, new))
  BY LeaveSpace, Zenon
<1>7. PICK f \in SUBSET Nat : f = x.acked \cup Frames(q, new)
  BY FramesType, Zenon DEF Space
<1>8. PICK y : y = [x EXCEPT !.bytes = b, !.eliciting = e, !.acked = f, !.sent = m]
  BY Zenon
<1>9. /\ y \in Space /\ SameOrigin(x, y) /\ y.lost = x.lost /\ y.loss_time = x.loss_time
      /\ y.sent = m /\ y.acked = f /\ y.bytes = b /\ y.eliciting = e
  BY <1>8, Zenon DEF Space, SameOrigin
<1>10. [LeaveFlight(x, q, new) EXCEPT !.acked = @ \cup Frames(q, new), !.sent = MarkAcked(@, new)] = y
  BY <1>3, <1>5, <1>6, <1>7, <1>8, Zenon DEF Space
<1>11. DetectAcked(w, s, pns) = [r |-> LeaveFlight(r, q, new), sp |-> [sp EXCEPT ![s] = y]]
  BY <1>1, <1>2, <1>3, <1>4, <1>10, Zenon DEF DetectAcked
<1>12. LeaveFlight(r, q, new) \in Rec
  BY LeaveRec, Zenon
<1>13. /\ DetectAcked(w, s, pns) \in World
       /\ DetectAcked(w, s, pns).sp[s] = y
       /\ \A z \in Spaces \ {s} : DetectAcked(w, s, pns).sp[z] = w.sp[z]
       /\ DetectAcked(w, s, pns).r = LeaveFlight(r, q, new)
  BY <1>1, <1>9, <1>11, <1>12 DEF World
<1> QED
  BY <1>1, <1>2, <1>3, <1>4, <1>5, <1>6, <1>7, <1>9, <1>13, LeaveRec

(* The next loss time is a time or None.                                   *)
LEMMA LossTimeInt ==
  ASSUME NEW r \in Rec, NEW x \in Space, NEW S \in SUBSET DOMAIN x.sent
  PROVE  LossTime(r, x, S) \in Int
<1> DEFINE wait == {x.sent[n].time + LossDelay(r) : n \in S}
<1>1. \A n \in S : x.sent[n].time \in Nat
  BY KindType, Zenon DEF Packet, Space
<1>2. wait \subseteq Nat
  BY <1>1, LossDelayNat
<1>3. wait # {} => Min(wait) \in Nat
  <2> HIDE DEF wait
  <2> QED
    BY <1>2, MinExists, Zenon
<1>4. CASE S = {}
  BY <1>4 DEF LossTime, None
<1>5. CASE S # {}
  <2>1. wait # {}
    BY <1>5, Zenon
  <2> QED
    BY <1>3, <1>5, <2>1 DEF LossTime
<1> QED
  BY <1>4, <1>5, Zenon

(* All that detect_lost_packets changes.                                   *)
LEMMA DetectLostFrame ==
  ASSUME NEW w \in World, NEW s \in Spaces, NEW t \in Nat
  PROVE  LET v == DetectLost(w, s, t)
             x == w.sp[s]
             y == v.sp[s]
             gone == Gone(w.r, x, t)
         IN /\ v \in World /\ \A q \in Spaces \ {s} : v.sp[q] = w.sp[q]
            /\ SameOrigin(x, y) /\ y.acked = x.acked
            /\ y.sent = MarkLost(x.sent, gone, t) /\ y.lost = x.lost \cup Frames(x.sent, gone)
            /\ y.bytes = Sub(x.bytes, Bytes(x.sent, gone))
            /\ y.eliciting = Sub(x.eliciting, Eliciting(x.sent, gone))
            /\ v.r.bytes = Sub(w.r.bytes, Bytes(x.sent, gone))
            /\ v.r.eliciting = Sub(w.r.eliciting, Eliciting(x.sent, gone))
            /\ v.r.rtt = w.r.rtt /\ v.r.pto_count = w.r.pto_count
<1>1. PICK r \in Rec, sp \in [Spaces -> Space] : r = w.r /\ sp = w.sp
  BY Zenon DEF World
<1>2. PICK x \in Space : x = sp[s]
  BY Zenon
<1>3. PICK q \in Queue : q = x.sent
  BY Zenon DEF Space
<1>4. PICK gone \in SUBSET DOMAIN q : gone = Gone(r, x, t)
  BY <1>1, <1>2, <1>3, Zenon DEF Gone, Unacked, Pending
<1>5. PICK m \in Queue : m = MarkLost(q, gone, t)
  BY MarkLostType, Zenon
<1>6. PICK b, e \in Nat :
        /\ LeaveFlight(x, q, gone) = [x EXCEPT !.bytes = b, !.eliciting = e]
        /\ b = Sub(x.bytes, Bytes(q, gone)) /\ e = Sub(x.eliciting, Eliciting(q, gone))
  BY LeaveSpace, Zenon
<1>7. PICK f \in SUBSET Nat : f = x.lost \cup Frames(q, gone)
  BY FramesType, Zenon DEF Space
<1>8. PICK l \in Int : l = LossTime(r, x, Unacked(x) \ gone)
  BY <1>3, LossTimeInt, Zenon DEF Unacked, Pending
<1>9. PICK y : y = [x EXCEPT !.bytes = b, !.eliciting = e, !.loss_time = l, !.lost = f, !.sent = m]
  BY Zenon
<1>10. /\ y \in Space /\ SameOrigin(x, y) /\ y.acked = x.acked
       /\ y.sent = m /\ y.lost = f /\ y.bytes = b /\ y.eliciting = e
  BY <1>9, Zenon DEF Space, SameOrigin
<1>11. [LeaveFlight(x, q, gone) EXCEPT !.loss_time = l,
          !.lost = @ \cup Frames(q, gone), !.sent = MarkLost(@, gone, t)] = y
  BY <1>3, <1>5, <1>6, <1>7, <1>9, Zenon DEF Space
<1>12. DetectLost(w, s, t) = [r |-> LeaveFlight(r, q, gone), sp |-> [sp EXCEPT ![s] = y]]
  BY <1>1, <1>2, <1>3, <1>4, <1>8, <1>11, Zenon DEF DetectLost
<1>13. LeaveFlight(r, q, gone) \in Rec
  BY LeaveRec, Zenon
<1>14. /\ DetectLost(w, s, t) \in World
       /\ DetectLost(w, s, t).sp[s] = y
       /\ \A z \in Spaces \ {s} : DetectLost(w, s, t).sp[z] = w.sp[z]
       /\ DetectLost(w, s, t).r = LeaveFlight(r, q, gone)
  BY <1>1, <1>10, <1>12, <1>13 DEF World
<1> QED
  BY <1>1, <1>2, <1>3, <1>4, <1>5, <1>6, <1>7, <1>10, <1>14, LeaveRec

(* The packets that drain_sent_packets leaves in the queue.                *)
Stays(w, s, t) ==
  LET sent == w.sp[s].sent IN
  {n \in DOMAIN sent : \E m \in Pending(sent) \cup
     {k \in DOMAIN sent : sent[k].lost # None /\ sent[k].lost + SmoothedRtt(w.r.rtt) > t} : m <= n}

(* All that drain_sent_packets changes: no packet that waits for its fate  *)
(* is drained.                                                             *)
LEMMA DrainSentFrame ==
  ASSUME NEW w \in World, NEW s \in Spaces, NEW t \in Nat
  PROVE  LET v == DrainSent(w, s, t)
             x == w.sp[s]
             y == v.sp[s]
         IN /\ v \in World /\ \A q \in Spaces \ {s} : v.sp[q] = w.sp[q]
            /\ SameOrigin(x, y) /\ y.acked = x.acked /\ y.lost = x.lost
            /\ y.bytes = x.bytes /\ y.eliciting = x.eliciting
            /\ y.sent = Keep(x.sent, Stays(w, s, t)) /\ v.r = w.r
            /\ Stays(w, s, t) \subseteq DOMAIN x.sent
            /\ Pending(x.sent) \subseteq Stays(w, s, t)
<1>1. PICK r \in Rec, sp \in [Spaces -> Space] : r = w.r /\ sp = w.sp /\ w = [r |-> r, sp |-> sp]
  BY Zenon DEF World
<1>2. PICK x \in Space : x = sp[s]
  BY Zenon
<1>3. PICK q \in Queue : q = x.sent
  BY Zenon DEF Space
<1>4. PICK S \in SUBSET DOMAIN q : S = Stays(w, s, t)
  BY <1>1, <1>2, <1>3, Zenon DEF Stays
<1>5. PICK m \in Queue : m = Keep(q, S)
  BY KeepType, Zenon
<1>6. DrainSent(w, s, t) = [w EXCEPT !.sp[s].sent = m]
  BY <1>1, <1>2, <1>3, <1>4, <1>5, Zenon DEF DrainSent, Stays
<1>7. DrainSent(w, s, t) = [r |-> r, sp |-> [sp EXCEPT ![s] = [x EXCEPT !.sent = m]]]
  BY <1>1, <1>2, <1>6, Zenon
<1>8. PICK y : y = [x EXCEPT !.sent = m]
  BY Zenon
<1>9. /\ y \in Space /\ SameOrigin(x, y) /\ y.acked = x.acked /\ y.lost = x.lost
      /\ y.bytes = x.bytes /\ y.eliciting = x.eliciting /\ y.sent = m
  BY <1>8, Zenon DEF Space, SameOrigin
<1>10. /\ DrainSent(w, s, t) \in World
       /\ DrainSent(w, s, t).sp[s] = y
       /\ \A z \in Spaces \ {s} : DrainSent(w, s, t).sp[z] = w.sp[z]
       /\ DrainSent(w, s, t).r = r
  BY <1>1, <1>7, <1>8, <1>9 DEF World
<1>11. Pending(q) \subseteq S
  <2> SUFFICES ASSUME NEW n \in Pending(q) PROVE n \in S
    BY Zenon
  <2>1. n \in DOMAIN q /\ n \in Nat
    BY QueueType, Zenon DEF Pending
  <2> QED
    BY <1>1, <1>2, <1>3, <1>4, <2>1 DEF Stays
<1> QED
  BY <1>1, <1>2, <1>3, <1>4, <1>5, <1>9, <1>10, <1>11, Zenon

-----------------------------------------------------------------------------
(* The inductive invariant, for a world w, the packets R that reached the  *)
(* peer and the frames T handed over                                       *)

Kept(x, R, T) ==
  /\ DOMAIN x.sent \subseteq 0..(x.next - 1) /\ R \subseteq 0..(x.next - 1)
  /\ x.largest \in R \cup {None}
  /\ \A n \in DOMAIN x.sent :
       /\ n \in R => x.sent[n].acked
       /\ x.sent[n].acked \/ x.sent[n].lost # None => x.sent[n].frames = {}
       /\ x.sent[n].lost # None => \E pn \in R : pn > n /\ pn <= x.largest
  /\ 0..(x.next - 1) = T \cup x.lost \cup x.acked \cup Frames(x.sent, DOMAIN x.sent)

Past(x, t) == \A n \in DOMAIN x.sent : x.sent[n].time <= t

Sound(w, t, R, T) ==
  /\ w \in World /\ Dated(w)
  /\ \A s \in Spaces : Kept(w.sp[s], R[s], T[s]) /\ Past(w.sp[s], t)

ExactSpace(x) ==
  /\ x.bytes = Bytes(x.sent, Pending(x.sent))
  /\ x.eliciting = Eliciting(x.sent, Pending(x.sent))
Exact(w) ==
  /\ \A s \in Spaces : ExactSpace(w.sp[s])
  /\ w.r.bytes = w.sp["Initial"].bytes + w.sp["Handshake"].bytes + w.sp["Data"].bytes
  /\ w.r.eliciting =
       w.sp["Initial"].eliciting + w.sp["Handshake"].eliciting + w.sp["Data"].eliciting

Covered(w, h, a) ==
  \A s \in Spaces :
    w.sp[s].eliciting # 0 /\ w.r.eliciting # 0 /\ (s = "Data" => Completed(h) /\ a)
      => w.r.timer # None

(* Whose frames a set of packets carries.                                  *)
LEMMA FramesMember ==
  ASSUME NEW q, NEW S, NEW f
  PROVE  f \in Frames(q, S) <=> \E n \in S : f \in q[n].frames
BY Zenon DEF Frames

(* detect_acked_packets, with the new largest_acked_packet, keeps frames   *)
(* and losses accounted for.                                               *)
LEMMA AckKept ==
  ASSUME NEW x \in Space, NEW y \in Space, NEW R, NEW T, NEW pns \in SUBSET (0..(x.next - 1)),
         Kept(x, R, T), y.next = x.next, y.largest \in R \cup pns, y.largest >= x.largest,
         y.lost = x.lost, y.sent = MarkAcked(x.sent, NewlyAcked(x, pns)),
         y.acked = x.acked \cup Frames(x.sent, NewlyAcked(x, pns))
  PROVE  Kept(y, R \cup pns, T)
<1>1. PICK q \in Queue : q = x.sent
  BY Zenon DEF Space
<1>2. PICK S \in SUBSET DOMAIN q : S = NewlyAcked(x, pns)
  BY <1>1, Zenon DEF NewlyAcked
<1>3. PICK p : p = y.sent /\ p = MarkAcked(q, S)
  BY <1>1, <1>2, Zenon
<1>4. /\ DOMAIN p = DOMAIN q
      /\ \A n \in DOMAIN q :
           /\ p[n].lost = q[n].lost /\ p[n].acked = (n \in S \/ q[n].acked)
           /\ p[n].frames = IF n \in S THEN {} ELSE q[n].frames
  BY <1>3, MarkAckedType
<1>5. /\ DOMAIN q \subseteq 0..(x.next - 1) /\ R \subseteq 0..(x.next - 1)
      /\ x.largest \in Int /\ y.largest \in Int /\ x.next \in Nat
  BY <1>1, Zenon DEF Kept, Space
<1>6. ASSUME NEW n \in DOMAIN p
      PROVE  /\ n \in R \cup pns => p[n].acked
             /\ p[n].acked \/ p[n].lost # None => p[n].frames = {}
             /\ p[n].lost # None => \E pn \in R \cup pns : pn > n /\ pn <= y.largest
  <2>1. /\ n \in R => q[n].acked
        /\ q[n].acked \/ q[n].lost # None => q[n].frames = {}
        /\ q[n].lost # None => \E pn \in R : pn > n /\ pn <= x.largest
    BY <1>1, <1>4, <1>6, Zenon DEF Kept
  <2>2. n \in pns => n \in S \/ q[n].acked
    BY <1>1, <1>2, <1>4, <1>6, Zenon DEF NewlyAcked
  <2>3. \A pn \in R : pn <= x.largest => pn <= y.largest
    BY <1>5
  <2> QED
    BY <1>4, <1>6, <2>1, <2>2, <2>3, Zenon
<1>7. 0..(y.next - 1) = T \cup y.lost \cup y.acked \cup Frames(p, DOMAIN p)
  <2>1. 0..(x.next - 1) = T \cup x.lost \cup x.acked \cup Frames(q, DOMAIN q)
    BY <1>1, Zenon DEF Kept
  <2>2. Frames(q, DOMAIN q) = Frames(q, S) \cup Frames(p, DOMAIN p)
    BY <1>4, FramesMember
  <2> QED
    BY <1>1, <1>2, <2>1, <2>2, Zenon
<1>8. DOMAIN p \subseteq 0..(y.next - 1) /\ R \cup pns \subseteq 0..(y.next - 1)
  BY <1>4, <1>5, Zenon
<1> QED
  BY <1>3, <1>6, <1>7, <1>8, Zenon DEF Kept

(* detect_lost_packets: a packet up to the largest acknowledged one that   *)
(* is not acknowledged is below it.                                        *)
LEMMA LossKept ==
  ASSUME NEW x \in Space, NEW y \in Space, NEW R, NEW T, NEW r, NEW t \in Nat,
         Kept(x, R, T), y.next = x.next, y.largest = x.largest,
         y.acked = x.acked, y.sent = MarkLost(x.sent, Gone(r, x, t), t),
         y.lost = x.lost \cup Frames(x.sent, Gone(r, x, t))
  PROVE  Kept(y, R, T)
<1>1. PICK q \in Queue : q = x.sent
  BY Zenon DEF Space
<1>2. PICK S \in SUBSET Unacked(x) : S = Gone(r, x, t)
  BY Zenon DEF Gone
<1>3. S \in SUBSET DOMAIN q
  BY <1>1, Zenon DEF Unacked, Pending
<1>4. PICK p : p = y.sent /\ p = MarkLost(q, S, t)
  BY <1>1, <1>2, Zenon
<1>5. /\ DOMAIN p = DOMAIN q
      /\ \A n \in DOMAIN q :
           /\ p[n].acked = q[n].acked /\ p[n].lost = IF n \in S THEN t ELSE q[n].lost
           /\ p[n].frames = IF n \in S THEN {} ELSE q[n].frames
  <2>1. MarkLost(q, S, t) = p
    BY <1>4, Zenon
  <2> QED
    BY <1>3, <2>1, MarkLostType
<1>6. /\ DOMAIN q \subseteq 0..(x.next - 1) /\ R \subseteq 0..(x.next - 1)
      /\ x.largest \in R \cup {None} /\ x.largest \in Int /\ x.next \in Nat
  BY <1>1, Zenon DEF Kept, Space
<1>7. ASSUME NEW n \in DOMAIN p
      PROVE  /\ n \in R => p[n].acked
             /\ p[n].acked \/ p[n].lost # None => p[n].frames = {}
             /\ p[n].lost # None => \E pn \in R : pn > n /\ pn <= y.largest
  <2>1. /\ n \in R => q[n].acked
        /\ q[n].acked \/ q[n].lost # None => q[n].frames = {}
        /\ q[n].lost # None => \E pn \in R : pn > n /\ pn <= x.largest
    BY <1>1, <1>5, <1>7, Zenon DEF Kept
  <2>2. n \in S => n \in Nat /\ n <= x.largest /\ ~q[n].acked
    BY <1>1, <1>2, <1>3, KindType, Zenon DEF Unacked, Pending
  <2>3. n \in S => x.largest \in R /\ n < x.largest
    <3> HAVE n \in S
    <3>1. n \in Nat /\ n <= x.largest /\ n \notin R
      BY <2>1, <2>2, Zenon
    <3>2. x.largest \in R
      BY <1>6, <3>1 DEF None
    <3> QED
      BY <1>6, <3>1, <3>2
  <2>4. n \in S => \E pn \in R : pn > n /\ pn <= x.largest
    BY <1>6, <2>2, <2>3
  <2> QED
    BY <1>5, <1>7, <2>1, <2>4, Zenon
<1>8. 0..(y.next - 1) = T \cup y.lost \cup y.acked \cup Frames(p, DOMAIN p)
  <2>1. 0..(x.next - 1) = T \cup x.lost \cup x.acked \cup Frames(q, DOMAIN q)
    BY <1>1, Zenon DEF Kept
  <2>2. Frames(q, DOMAIN q) = Frames(q, S) \cup Frames(p, DOMAIN p)
    BY <1>3, <1>5, FramesMember
  <2> QED
    BY <1>1, <1>2, <2>1, <2>2, Zenon
<1> QED
  BY <1>4, <1>5, <1>6, <1>7, <1>8 DEF Kept

(* drain_sent_packets drops packets without frames.                        *)
LEMMA DrainKept ==
  ASSUME NEW x \in Space, NEW y \in Space, NEW R, NEW T, NEW S \in SUBSET DOMAIN x.sent,
         Pending(x.sent) \subseteq S, Kept(x, R, T), y.next = x.next, y.largest = x.largest,
         y.acked = x.acked, y.lost = x.lost, y.sent = Keep(x.sent, S)
  PROVE  Kept(y, R, T)
<1>1. x.sent \in Queue
  BY Zenon DEF Space
<1>2. DOMAIN y.sent = S /\ \A n \in S : y.sent[n] = x.sent[n]
  BY <1>1, KeepType, Zenon
<1>3. ASSUME NEW n \in DOMAIN x.sent \ S
      PROVE  x.sent[n].frames = {}
  <2>1. x.sent[n].acked \/ x.sent[n].lost # None
    BY Zenon DEF Pending
  <2> QED
    BY <2>1, Zenon DEF Kept
<1>4. Frames(y.sent, S) = Frames(x.sent, DOMAIN x.sent)
  <2>1. ASSUME NEW f
        PROVE  f \in Frames(y.sent, S) <=> f \in Frames(x.sent, DOMAIN x.sent)
    <3>1. f \in Frames(y.sent, S) <=> \E n \in S : f \in y.sent[n].frames
      BY FramesMember, Zenon
    <3>2. f \in Frames(x.sent, DOMAIN x.sent) <=> \E n \in DOMAIN x.sent : f \in x.sent[n].frames
      BY FramesMember, Zenon
    <3> QED
      BY <1>2, <1>3, <3>1, <3>2, Zenon
  <2> QED
    BY <2>1, Zenon DEF Frames
<1> QED
  BY <1>2, <1>4, Zenon DEF Kept

(* What is left of a difference was there before.                          *)
LEMMA SubZero ==
  ASSUME NEW a \in Nat, NEW b \in Nat, Sub(a, b) # 0
  PROVE  a # 0
BY DEF Sub

(* A change of one space that removes packets from flight keeps the dates. *)
LEMMA DatedStep ==
  ASSUME NEW w \in World, NEW v \in World, NEW s \in Spaces, Dated(w),
         \A q \in Spaces \ {s} : v.sp[q] = w.sp[q],
         v.sp[s].last = w.sp[s].last, v.sp[s].eliciting # 0 => w.sp[s].eliciting # 0
  PROVE  Dated(v)
BY Zenon DEF Dated

(* The parts of a state.                                                   *)
LEMMA SpaceOf ==
  ASSUME NEW w \in World, NEW s \in Spaces
  PROVE  /\ w.sp[s] \in Space /\ w.sp[s].sent \in Queue /\ w.r \in Rec
         /\ w.sp \in [Spaces -> Space]
         /\ Pending(w.sp[s].sent) \in SUBSET DOMAIN w.sp[s].sent
         /\ Unacked(w.sp[s]) \in SUBSET DOMAIN w.sp[s].sent
BY Zenon DEF World, Space, Pending, Unacked

(* Setting the timer keeps the packets.                                    *)
LEMMA SetTimerSound ==
  ASSUME NEW w, NEW h, NEW t \in Nat, NEW R, NEW T, Sound(w, t, R, T)
  PROVE  Sound(SetTimer(w, h, t), t, R, T)
<1>1. SetTimer(w, h, t) \in World /\ SetTimer(w, h, t).sp = w.sp
  BY SetTimerFrame, Zenon DEF Sound
<1> QED
  BY <1>1, Zenon DEF Sound, Dated

(* Declaring packets lost keeps the packets: their frames move to the lost *)
(* list, and a larger number was acknowledged.                             *)
LEMMA DetectLostSound ==
  ASSUME NEW w, NEW s \in Spaces, NEW t \in Nat, NEW R, NEW T, Sound(w, t, R, T)
  PROVE  Sound(DetectLost(w, s, t), t, R, T)
<1>0. w \in World /\ Dated(w) /\ \A z \in Spaces : Kept(w.sp[z], R[z], T[z]) /\ Past(w.sp[z], t)
  BY Zenon DEF Sound
<1>1. PICK v \in World : v = DetectLost(w, s, t)
  BY <1>0, DetectLostFrame, Zenon
<1>2. PICK x \in Space : x = w.sp[s] /\ x.sent \in Queue
  BY <1>0, SpaceOf, Zenon
<1>3. PICK y \in Space : y = v.sp[s]
  BY SpaceOf, Zenon
<1>4. PICK gone \in SUBSET DOMAIN x.sent : gone = Gone(w.r, x, t)
  BY Zenon DEF Gone, Unacked, Pending
<1>5. /\ \A q \in Spaces \ {s} : v.sp[q] = w.sp[q]
      /\ y.next = x.next /\ y.largest = x.largest /\ y.last = x.last /\ y.acked = x.acked
      /\ y.sent = MarkLost(x.sent, gone, t) /\ y.lost = x.lost \cup Frames(x.sent, gone)
      /\ y.eliciting = Sub(x.eliciting, Eliciting(x.sent, gone))
  BY <1>0, <1>1, <1>2, <1>3, <1>4, DetectLostFrame DEF SameOrigin
<1>6. Kept(y, R[s], T[s])
  <2>1. Kept(x, R[s], T[s])
    BY <1>0, <1>2, Zenon
  <2> QED
    BY <1>4, <1>5, <2>1, LossKept
<1>7. Past(y, t)
  <2>1. Past(x, t)
    BY <1>0, <1>2, Zenon
  <2>2. DOMAIN y.sent = DOMAIN x.sent /\ \A n \in DOMAIN x.sent : y.sent[n].time = x.sent[n].time
    <3>1. PICK q \in Queue : q = x.sent
      BY <1>2, Zenon
    <3>2. MarkLost(q, gone, t) = y.sent
      BY <1>5, <3>1, Zenon
    <3> QED
      BY <3>1, <3>2, MarkLostTime
  <2> QED
    BY <2>1, <2>2, Zenon DEF Past
<1>8. Dated(v)
  <2>1. x.eliciting \in Nat /\ Eliciting(x.sent, gone) \in Nat
    BY <1>2, CountsFinite, Zenon DEF Space
  <2>2. y.eliciting # 0 => x.eliciting # 0
    BY <1>5, <2>1, SubZero, Zenon
  <2> QED
    BY <1>0, <1>2, <1>3, <1>5, <2>2, DatedStep, Zenon
<1> QED
  BY <1>0, <1>1, <1>3, <1>5, <1>6, <1>7, <1>8, Zenon DEF Sound

(* Draining keeps the packets: what goes was acknowledged or lost, and     *)
(* carries nothing.                                                        *)
LEMMA DrainSentSound ==
  ASSUME NEW w, NEW s \in Spaces, NEW t \in Nat, NEW R, NEW T, Sound(w, t, R, T)
  PROVE  Sound(DrainSent(w, s, t), t, R, T)
<1>0. w \in World /\ Dated(w) /\ \A z \in Spaces : Kept(w.sp[z], R[z], T[z]) /\ Past(w.sp[z], t)
  BY Zenon DEF Sound
<1>1. PICK v \in World : v = DrainSent(w, s, t)
  BY <1>0, DrainSentFrame, Zenon
<1>2. PICK x \in Space : x = w.sp[s] /\ x.sent \in Queue
  BY <1>0, SpaceOf, Zenon
<1>3. PICK y \in Space : y = v.sp[s]
  BY SpaceOf, Zenon
<1>4. PICK S \in SUBSET DOMAIN x.sent : S = Stays(w, s, t) /\ Pending(x.sent) \subseteq S
  BY <1>0, <1>2, DrainSentFrame
<1>5. /\ \A q \in Spaces \ {s} : v.sp[q] = w.sp[q]
      /\ y.next = x.next /\ y.largest = x.largest /\ y.last = x.last /\ y.acked = x.acked
      /\ y.sent = Keep(x.sent, S) /\ y.lost = x.lost /\ y.eliciting = x.eliciting
  BY <1>0, <1>1, <1>2, <1>3, <1>4, DrainSentFrame DEF SameOrigin
<1>6. Kept(y, R[s], T[s])
  <2>1. Kept(x, R[s], T[s])
    BY <1>0, <1>2, Zenon
  <2> QED
    BY <1>4, <1>5, <2>1, DrainKept, Zenon
<1>7. Past(y, t)
  <2>1. Past(x, t)
    BY <1>0, <1>2, Zenon
  <2>2. DOMAIN y.sent = S /\ \A n \in S : y.sent[n] = x.sent[n]
    BY <1>2, <1>5, KeepType
  <2> QED
    BY <2>1, <2>2, Zenon DEF Past
<1>8. Dated(v)
  BY <1>0, <1>2, <1>3, <1>5, DatedStep, Zenon
<1> QED
  BY <1>0, <1>1, <1>3, <1>5, <1>6, <1>7, <1>8, Zenon DEF Sound

(* The packets S of space s leave flight, those of them that were not      *)
(* pending not being in flight, and the counts follow.                     *)
Leaves(w, v, s, S) ==
  LET q == w.sp[s].sent
      p == v.sp[s].sent
  IN /\ \A z \in Spaces \ {s} : v.sp[z] = w.sp[z]
     /\ S \in SUBSET DOMAIN q /\ \A n \in S \ Pending(q) : ~q[n].kind.flight
     /\ Pending(p) = Pending(q) \ S /\ \A n \in Pending(p) : p[n].kind = q[n].kind
     /\ v.sp[s].bytes = Sub(w.sp[s].bytes, Bytes(q, S))
     /\ v.sp[s].eliciting = Sub(w.sp[s].eliciting, Eliciting(q, S))
     /\ v.r.bytes = Sub(w.r.bytes, Bytes(q, S))
     /\ v.r.eliciting = Sub(w.r.eliciting, Eliciting(q, S))

(* The counts stay exact when the packets S of one space leave them and    *)
(* leave the packets that wait for their fate.                             *)
LEMMA LeaveExact ==
  ASSUME NEW w \in World, NEW v \in World, NEW s \in Spaces, NEW S,
         Exact(w), Leaves(w, v, s, S)
  PROVE  Exact(v)
<1>a. PICK q \in Queue, p \in Queue : q = w.sp[s].sent /\ p = v.sp[s].sent
  BY SpaceOf, Zenon
<1>b. /\ \A z \in Spaces \ {s} : v.sp[z] = w.sp[z]
      /\ S \in SUBSET DOMAIN q /\ \A n \in S \ Pending(q) : ~q[n].kind.flight
      /\ Pending(p) = Pending(q) \ S /\ \A n \in Pending(p) : p[n].kind = q[n].kind
      /\ v.sp[s].bytes = Sub(w.sp[s].bytes, Bytes(q, S))
      /\ v.sp[s].eliciting = Sub(w.sp[s].eliciting, Eliciting(q, S))
      /\ v.r.bytes = Sub(w.r.bytes, Bytes(q, S))
      /\ v.r.eliciting = Sub(w.r.eliciting, Eliciting(q, S))
  BY <1>a, Zenon DEF Leaves
<1>1. PICK P \in SUBSET DOMAIN q : P = Pending(q)
  BY PendingIn, Zenon
<1>2. PICK T \in SUBSET P : T = S \cap P
  BY Zenon
<1>3. Bytes(q, S) = Bytes(q, T) /\ Eliciting(q, S) = Eliciting(q, T)
  <2>1. T \in SUBSET S /\ \A n \in S \ T : ~q[n].kind.flight
    BY <1>1, <1>2, <1>b, Zenon
  <2> QED
    BY <2>1, CountsFlight, Zenon
<1>4. /\ Bytes(q, T) <= Bytes(q, P) /\ Bytes(q, P \ T) = Bytes(q, P) - Bytes(q, T)
      /\ Eliciting(q, T) <= Eliciting(q, P)
      /\ Eliciting(q, P \ T) = Eliciting(q, P) - Eliciting(q, T)
  BY CountsSplit, Zenon
<1>5. Pending(p) = P \ T
  BY <1>1, <1>2, <1>b, Zenon
<1>6. Bytes(p, Pending(p)) = Bytes(q, P \ T) /\ Eliciting(p, Pending(p)) = Eliciting(q, P \ T)
  <2>1. PICK U : U = P \ T /\ U = Pending(p)
    BY <1>5, Zenon
  <2>2. \A n \in U : p[n].kind = q[n].kind
    BY <2>1, <1>b, Zenon
  <2>3. Bytes(p, U) = Bytes(q, U) /\ Eliciting(p, U) = Eliciting(q, U)
    BY <2>2, CountsSame, Zenon
  <2> QED
    BY <2>1, <2>3, Zenon
<1>7. PICK bp, bt, ep, et \in Nat : /\ bp = Bytes(q, P) /\ bt = Bytes(q, T)
                                  /\ ep = Eliciting(q, P) /\ et = Eliciting(q, T)
  <2>1. Bytes(q, P) \in Nat /\ Eliciting(q, P) \in Nat
    BY CountsFinite, Zenon
  <2>2. T \in SUBSET DOMAIN q
    BY Zenon
  <2>3. Bytes(q, T) \in Nat /\ Eliciting(q, T) \in Nat
    BY <2>2, CountsFinite, Zenon
  <2> QED
    BY <2>1, <2>3, Zenon
<1>8. w.sp[s].bytes = bp /\ w.sp[s].eliciting = ep
  BY <1>a, <1>1, <1>7, Zenon DEF Exact, ExactSpace
<1>9. bt <= bp /\ et <= ep
  BY <1>4, <1>7, Zenon
<1>10. v.sp[s].bytes = bp - bt /\ v.sp[s].eliciting = ep - et
  <2>1. Sub(bp, bt) = bp - bt /\ Sub(ep, et) = ep - et
    BY <1>9, SubNat, Zenon
  <2> QED
    BY <1>b, <1>3, <1>7, <1>8, <2>1, Zenon
<1>11. ExactSpace(v.sp[s])
  BY <1>a, <1>4, <1>6, <1>7, <1>10, Zenon DEF ExactSpace
<1>12. \A z \in Spaces : /\ w.sp[z].bytes \in Nat /\ w.sp[z].eliciting \in Nat
  BY SpaceOf, Zenon DEF Space
<1>13. /\ w.r.bytes = w.sp["Initial"].bytes + w.sp["Handshake"].bytes + w.sp["Data"].bytes
       /\ w.r.eliciting =
            w.sp["Initial"].eliciting + w.sp["Handshake"].eliciting + w.sp["Data"].eliciting
  BY Zenon DEF Exact
<1>14. w.r.bytes \in Nat /\ w.r.eliciting \in Nat /\ bp <= w.r.bytes /\ ep <= w.r.eliciting
  BY <1>8, <1>12, <1>13 DEF Spaces
<1>15. v.r.bytes = w.r.bytes - bt /\ v.r.eliciting = w.r.eliciting - et
  <2>1. bt <= w.r.bytes /\ et <= w.r.eliciting
    BY <1>9, <1>14
  <2>2. Sub(w.r.bytes, bt) = w.r.bytes - bt /\ Sub(w.r.eliciting, et) = w.r.eliciting - et
    BY <1>14, <2>1, SubNat, Zenon
  <2> QED
    BY <1>b, <1>3, <1>7, <2>2, Zenon
<1>16. v.r.bytes = v.sp["Initial"].bytes + v.sp["Handshake"].bytes + v.sp["Data"].bytes
  <2>1. /\ v.sp[s].bytes = w.sp[s].bytes - bt /\ v.r.bytes = w.r.bytes - bt
        /\ \A z \in Spaces \ {s} : v.sp[z].bytes = w.sp[z].bytes
    BY <1>b, <1>8, <1>10, <1>15, Zenon
  <2>2. \A z \in Spaces : w.sp[z].bytes \in Nat
    BY <1>12, Zenon
  <2>3. CASE s = "Initial"
    BY <1>13, <2>1, <2>2, <2>3 DEF Spaces
  <2>4. CASE s = "Handshake"
    BY <1>13, <2>1, <2>2, <2>4 DEF Spaces
  <2>5. CASE s = "Data"
    BY <1>13, <2>1, <2>2, <2>5 DEF Spaces
  <2> QED
    BY <2>3, <2>4, <2>5, Zenon DEF Spaces
<1>17. v.r.eliciting =
         v.sp["Initial"].eliciting + v.sp["Handshake"].eliciting + v.sp["Data"].eliciting
  <2>1. /\ v.sp[s].eliciting = w.sp[s].eliciting - et /\ v.r.eliciting = w.r.eliciting - et
        /\ \A z \in Spaces \ {s} : v.sp[z].eliciting = w.sp[z].eliciting
    BY <1>b, <1>8, <1>10, <1>15, Zenon
  <2>2. \A z \in Spaces : w.sp[z].eliciting \in Nat
    BY <1>12, Zenon
  <2>3. CASE s = "Initial"
    BY <1>13, <2>1, <2>2, <2>3 DEF Spaces
  <2>4. CASE s = "Handshake"
    BY <1>13, <2>1, <2>2, <2>4 DEF Spaces
  <2>5. CASE s = "Data"
    BY <1>13, <2>1, <2>2, <2>5 DEF Spaces
  <2> QED
    BY <2>3, <2>4, <2>5, Zenon DEF Spaces
<1>18. \A z \in Spaces : ExactSpace(v.sp[z])
  BY <1>b, <1>11, Zenon DEF Exact
<1> QED
  BY <1>16, <1>17, <1>18, Zenon DEF Exact

(* Declaring packets lost keeps the counts exact: each of them was counted *)
(* once.                                                                   *)
LEMMA DetectLostExact ==
  ASSUME NEW w \in World, NEW s \in Spaces, NEW t \in Nat, Exact(w)
  PROVE  Exact(DetectLost(w, s, t))
<1>1. PICK v \in World : v = DetectLost(w, s, t)
  BY DetectLostFrame, Zenon
<1>2. PICK q \in Queue : q = w.sp[s].sent
  BY SpaceOf, Zenon
<1>3. PICK p \in Queue : p = v.sp[s].sent
  BY SpaceOf, Zenon
<1>4. PICK S \in SUBSET Pending(q) : S = Gone(w.r, w.sp[s], t)
  BY <1>2, Zenon DEF Gone, Unacked
<1>5. S \in SUBSET DOMAIN q
  BY PendingIn, Zenon
<1>6. /\ \A z \in Spaces \ {s} : v.sp[z] = w.sp[z]
      /\ v.sp[s].bytes = Sub(w.sp[s].bytes, Bytes(q, S))
      /\ v.sp[s].eliciting = Sub(w.sp[s].eliciting, Eliciting(q, S))
      /\ v.r.bytes = Sub(w.r.bytes, Bytes(q, S))
      /\ v.r.eliciting = Sub(w.r.eliciting, Eliciting(q, S))
      /\ MarkLost(q, S, t) = p
  BY <1>1, <1>2, <1>3, <1>4, DetectLostFrame
<1>7. MarkLost(q, S, t) = p
  BY <1>6, Zenon
<1>8. Pending(p) = Pending(q) \ S /\ \A n \in DOMAIN q : p[n].kind = q[n].kind
  BY <1>5, <1>7, MarkLostType
<1>9. \A n \in Pending(p) : p[n].kind = q[n].kind
  BY <1>8, PendingIn, Zenon
<1> QED
  <2>1. Leaves(w, v, s, S)
    BY <1>2, <1>3, <1>4, <1>5, <1>6, <1>8, <1>9, Zenon DEF Leaves
  <2> QED
    BY <1>1, <2>1, LeaveExact, Zenon

(* Draining keeps the counts exact: what goes was not counted.             *)
LEMMA DrainSentExact ==
  ASSUME NEW w \in World, NEW s \in Spaces, NEW t \in Nat, Exact(w)
  PROVE  Exact(DrainSent(w, s, t))
<1>1. PICK v \in World : v = DrainSent(w, s, t)
  BY DrainSentFrame, Zenon
<1>2. PICK q \in Queue : q = w.sp[s].sent
  BY SpaceOf, Zenon
<1>3. PICK p \in Queue : p = v.sp[s].sent
  BY SpaceOf, Zenon
<1>4. PICK S \in SUBSET DOMAIN q : S = Stays(w, s, t) /\ Pending(q) \subseteq S
  BY <1>2, DrainSentFrame
<1>5. /\ \A z \in Spaces \ {s} : v.sp[z] = w.sp[z]
      /\ v.sp[s].bytes = w.sp[s].bytes /\ v.sp[s].eliciting = w.sp[s].eliciting
      /\ v.r = w.r /\ Keep(q, S) = p
  BY <1>1, <1>2, <1>3, <1>4, DrainSentFrame
<1>6. Keep(q, S) = p
  BY <1>5, Zenon
<1>7. Pending(p) = Pending(q) /\ \A n \in S : p[n] = q[n]
  <2>1. /\ Pending(Keep(q, S)) = Pending(q) \cap S
        /\ \A n \in S : Keep(q, S)[n] = q[n]
    BY KeepType, Zenon
  <2> QED
    BY <1>4, <1>6, <2>1, Zenon
<1>8. /\ \A a \in Nat : Sub(a, 0) = a
      /\ w.sp[s].bytes \in Nat /\ w.sp[s].eliciting \in Nat
      /\ w.r.bytes \in Nat /\ w.r.eliciting \in Nat
  <2>1. \A a \in Nat : Sub(a, 0) = a
    BY DEF Sub
  <2> QED
    BY <2>1, SpaceOf, Zenon DEF Space, Rec
<1>9. /\ v.sp[s].bytes = Sub(w.sp[s].bytes, Bytes(q, {}))
      /\ v.sp[s].eliciting = Sub(w.sp[s].eliciting, Eliciting(q, {}))
      /\ v.r.bytes = Sub(w.r.bytes, Bytes(q, {}))
      /\ v.r.eliciting = Sub(w.r.eliciting, Eliciting(q, {}))
  BY <1>5, <1>8, CountsEmpty, Zenon
<1>10. Pending(p) = Pending(q) \ {} /\ \A n \in Pending(p) : p[n].kind = q[n].kind
  BY <1>4, <1>7, Zenon
<1> QED
  <2>1. Leaves(w, v, s, {})
    BY <1>2, <1>3, <1>5, <1>9, <1>10, Zenon DEF Leaves
  <2> QED
    BY <1>1, <2>1, LeaveExact, Zenon

-----------------------------------------------------------------------------
(* on_ack_received                                                         *)

(* All that raising largest_acked_pkt changes.                             *)
LEMMA NoteLargestFrame ==
  ASSUME NEW w \in World, NEW s \in Spaces, NEW pns \in SUBSET (0..(w.sp[s].next - 1)), pns # {}
  PROVE  LET v == NoteLargest(w, s, pns)
             x == w.sp[s]
             y == v.sp[s]
         IN /\ v \in World /\ \A q \in Spaces \ {s} : v.sp[q] = w.sp[q]
            /\ v.r = w.r /\ y.sent = x.sent /\ y.acked = x.acked /\ y.lost = x.lost
            /\ y.next = x.next /\ y.last = x.last /\ y.bytes = x.bytes
            /\ y.eliciting = x.eliciting
            /\ y.largest \in pns \cup {x.largest} /\ y.largest >= x.largest
            /\ \A n \in pns : y.largest >= n
<1>1. PICK r \in Rec, sp \in [Spaces -> Space] : r = w.r /\ sp = w.sp /\ w = [r |-> r, sp |-> sp]
  BY Zenon DEF World
<1>2. PICK x \in Space : x = sp[s]
  BY Zenon
<1>3. x.largest \in Int /\ x.next \in Nat
  BY Zenon DEF Space
<1>4. PICK m \in pns : m = Max(pns) /\ \A n \in pns : m >= n
  <2>1. pns \subseteq 0..x.next
    BY <1>1, <1>2, <1>3
  <2> QED
    BY <1>3, <2>1, MaxExists, Zenon
<1>5. m \in Int
  BY <1>1, <1>2, <1>3
<1>6. PICK l \in Int : /\ l = Max({x.largest, m}) /\ l \in {x.largest, m}
                     /\ l >= x.largest /\ l >= m
  <2>1. /\ Max({x.largest, m}) \in {x.largest, m}
        /\ Max({x.largest, m}) >= x.largest /\ Max({x.largest, m}) >= m
    BY <1>3, <1>5, MaxPair, Zenon
  <2> QED
    BY <1>3, <1>5, <2>1, Zenon
<1>7. NoteLargest(w, s, pns) = [r |-> r, sp |-> [sp EXCEPT ![s] = [x EXCEPT !.largest = l]]]
  BY <1>1, <1>2, <1>4, <1>6 DEF NoteLargest
<1>8. PICK y : y = [x EXCEPT !.largest = l]
  BY Zenon
<1>9. /\ y \in Space /\ y.sent = x.sent /\ y.acked = x.acked /\ y.lost = x.lost
      /\ y.next = x.next /\ y.last = x.last /\ y.bytes = x.bytes /\ y.eliciting = x.eliciting
      /\ y.largest = l
  BY <1>8, Zenon DEF Space
<1>10. /\ NoteLargest(w, s, pns) \in World
       /\ NoteLargest(w, s, pns).sp[s] = y
       /\ \A z \in Spaces \ {s} : NoteLargest(w, s, pns).sp[z] = w.sp[z]
       /\ NoteLargest(w, s, pns).r = w.r
  BY <1>1, <1>7, <1>8, <1>9 DEF World
<1>11. \A n \in pns : l >= n
  <2> TAKE n \in pns
  <2>1. n \in Int /\ m >= n
    BY <1>1, <1>2, <1>3, <1>4
  <2> QED
    BY <1>5, <1>6, <2>1
<1> QED
  BY <1>1, <1>2, <1>4, <1>6, <1>9, <1>10, <1>11

(* Changes of the path's record alone                                      *)
LEMMA NoteRttFrame ==
  ASSUME NEW w \in World, NEW delay \in Nat, NEW rtt \in Nat
  PROVE  LET v == NoteRtt(w, delay, rtt) IN
         /\ v \in World /\ v.sp = w.sp
         /\ v.r.bytes = w.r.bytes /\ v.r.eliciting = w.r.eliciting
<1>1. PICK r \in Rec, sp \in [Spaces -> Space] : r = w.r /\ sp = w.sp /\ w = [r |-> r, sp |-> sp]
  BY Zenon DEF World
<1>2. PICK u \in Rtt : u = RttUpdate(r.rtt, delay, rtt)
  BY RttUpdateType, Zenon DEF Rec
<1>3. CASE rtt = 0
  BY <1>3, Zenon DEF NoteRtt
<1>4. CASE rtt # 0
  <2>1. PICK k : k = [r EXCEPT !.rtt = u]
    BY Zenon
  <2>2. NoteRtt(w, delay, rtt) = [r |-> k, sp |-> sp]
    BY <1>1, <1>2, <1>4, <2>1, Zenon DEF NoteRtt
  <2>3. k \in Rec /\ k.bytes = r.bytes /\ k.eliciting = r.eliciting
    BY <2>1, Zenon DEF Rec
  <2> QED
    BY <1>1, <2>2, <2>3 DEF World
<1> QED
  BY <1>3, <1>4, Zenon

(* Resetting pto_count changes nothing else.                               *)
LEMMA ResetPtoFrame ==
  ASSUME NEW w \in World
  PROVE  LET v == ResetPtoCount(w) IN
         /\ v \in World /\ v.sp = w.sp
         /\ v.r.bytes = w.r.bytes /\ v.r.eliciting = w.r.eliciting
<1>1. PICK r \in Rec, sp \in [Spaces -> Space] : r = w.r /\ sp = w.sp /\ w = [r |-> r, sp |-> sp]
  BY Zenon DEF World
<1>2. PICK k : k = [r EXCEPT !.pto_count = 0]
  BY Zenon
<1>3. ResetPtoCount(w) = [r |-> k, sp |-> sp]
  BY <1>1, <1>2 DEF ResetPtoCount
<1>4. k \in Rec /\ k.bytes = r.bytes /\ k.eliciting = r.eliciting
  BY <1>2, RecoveryAssumption DEF Rec
<1> QED
  BY <1>1, <1>3, <1>4 DEF World

(* What depends on the spaces and the two counts of the path alone.        *)
LEMMA SameSpaces ==
  ASSUME NEW w \in World, NEW v \in World, v.sp = w.sp
  PROVE  /\ \A t, R, T : Sound(w, t, R, T) => Sound(v, t, R, T)
         /\ v.r.bytes = w.r.bytes /\ v.r.eliciting = w.r.eliciting /\ Exact(w) => Exact(v)
<1>1. \A t, R, T : Sound(w, t, R, T) => Sound(v, t, R, T)
  BY Zenon DEF Sound, Dated
<1>2. v.r.bytes = w.r.bytes /\ v.r.eliciting = w.r.eliciting /\ Exact(w) => Exact(v)
  BY Zenon DEF Exact
<1> QED
  BY <1>1, <1>2, Zenon

(* After the timer is set every space that counts packets to wait for is   *)
(* covered.                                                                *)
LEMMA SetTimerCovers ==
  ASSUME NEW w \in World, NEW h, NEW t \in Nat, Dated(w), NEW a
  PROVE  (Exact(w) => Exact(SetTimer(w, h, t))) /\ Covered(SetTimer(w, h, t), h, a)
<1>1. PICK v \in World : v = SetTimer(w, h, t) /\ v.sp = w.sp
  BY SetTimerFrame, Zenon
<1>2. v.r.bytes = w.r.bytes /\ v.r.eliciting = w.r.eliciting
  BY <1>1, SetTimerFrame
<1>3. Exact(w) => Exact(v)
  BY <1>1, <1>2, SameSpaces, Zenon
<1>4. ASSUME NEW s \in Spaces, v.sp[s].eliciting # 0, v.r.eliciting # 0,
             s = "Data" => Completed(h) /\ a
      PROVE  v.r.timer # None
  BY <1>1, <1>2, <1>4, SetTimerFrame
<1> QED
  BY <1>1, <1>3, <1>4, Zenon DEF Covered

(* What on_ack_received has done when it has found the packets it acks.    *)
LEMMA AckedSound ==
  ASSUME NEW w, NEW s \in Spaces, NEW t \in Nat, NEW R, NEW T, Sound(w, t, R, T),
         NEW pns \in SUBSET (0..(w.sp[s].next - 1)), pns # {},
         NEW Q, Q[s] = R[s] \cup pns, \A q \in Spaces \ {s} : Q[q] = R[q]
  PROVE  LET top == NoteLargest(w, s, pns) IN
         /\ Sound(DetectAcked(top, s, pns), t, Q, T)
         /\ NewlyAcked(top.sp[s], pns) = {} => Sound(top, t, Q, T)
         /\ RttSample(top.sp[s], pns, t) \in Nat
<1>0. w \in World /\ Dated(w) /\ \A z \in Spaces : Kept(w.sp[z], R[z], T[z]) /\ Past(w.sp[z], t)
  BY Zenon DEF Sound
<1>1. PICK x \in Space : x = w.sp[s] /\ x.sent \in Queue
  BY <1>0, SpaceOf, Zenon
<1>2. Kept(x, R[s], T[s]) /\ Past(x, t)
  BY <1>0, <1>1, Zenon
<1>3. PICK u \in World : u = NoteLargest(w, s, pns)
  BY <1>0, NoteLargestFrame, Zenon
<1>4. PICK y \in Space : y = u.sp[s]
  BY SpaceOf, Zenon
<1>5. /\ \A q \in Spaces \ {s} : u.sp[q] = w.sp[q]
      /\ y.sent = x.sent /\ y.acked = x.acked /\ y.lost = x.lost
      /\ y.next = x.next /\ y.last = x.last /\ y.eliciting = x.eliciting
      /\ y.largest \in pns \cup {x.largest} /\ y.largest >= x.largest
      /\ \A n \in pns : y.largest >= n
  BY <1>0, <1>1, <1>3, <1>4, NoteLargestFrame
<1>6. PICK new \in SUBSET DOMAIN x.sent : new = NewlyAcked(x, pns) /\ new = NewlyAcked(y, pns)
  BY <1>5, Zenon DEF NewlyAcked
<1>7. y.largest \in R[s] \cup pns
  <2>1. x.largest \in R[s] \cup {None}
    BY <1>2, Zenon DEF Kept
  <2>2. PICK n \in pns : n \in Nat
    <3>1. PICK k \in Int : k = x.next - 1
      BY DEF Space
    <3>2. pns \in SUBSET (0..k)
      BY <1>1, <3>1, Zenon
    <3> QED
      BY <3>2, SomeNat, Zenon
  <2>3. y.largest >= n
    BY <1>5, Zenon
  <2>4. y.largest # None
    BY <2>2, <2>3 DEF None
  <2> QED
    BY <1>5, <2>1, <2>4, Zenon
<1>8. pns \in SUBSET (0..(x.next - 1))
  BY <1>1, Zenon
<1>9. PICK v \in World : v = DetectAcked(u, s, pns)
  BY DetectAckedFrame, Zenon
<1>10. PICK z \in Space : z = v.sp[s]
  BY SpaceOf, Zenon
<1>11. /\ \A q \in Spaces \ {s} : v.sp[q] = u.sp[q]
       /\ z.next = y.next /\ z.largest = y.largest /\ z.last = y.last /\ z.lost = y.lost
       /\ z.sent = MarkAcked(x.sent, new) /\ z.acked = y.acked \cup Frames(x.sent, new)
       /\ z.eliciting = Sub(y.eliciting, Eliciting(x.sent, new))
  BY <1>4, <1>5, <1>6, <1>9, <1>10, DetectAckedFrame DEF SameOrigin
<1>12. Kept(z, Q[s], T[s])
  <2>1. /\ z.next = x.next /\ z.largest \in R[s] \cup pns /\ z.largest >= x.largest
        /\ z.lost = x.lost /\ z.sent = MarkAcked(x.sent, NewlyAcked(x, pns))
        /\ z.acked = x.acked \cup Frames(x.sent, NewlyAcked(x, pns))
    BY <1>5, <1>6, <1>7, <1>11, Zenon
  <2>2. Kept(z, R[s] \cup pns, T[s])
    BY <1>2, <1>8, <2>1, AckKept, Zenon
  <2> QED
    BY <2>2, Zenon
<1>13. Past(z, t)
  <2>1. PICK q \in Queue : q = x.sent
    BY <1>1, Zenon
  <2>2. MarkAcked(q, new) = z.sent
    BY <1>11, <2>1, Zenon
  <2>3. DOMAIN z.sent = DOMAIN q /\ \A n \in DOMAIN q : z.sent[n].time = q[n].time
    BY <2>1, <2>2, MarkAckedType
  <2> QED
    BY <1>2, <2>1, <2>3, Zenon DEF Past
<1>14. Dated(v)
  <2>1. x.eliciting \in Nat /\ Eliciting(x.sent, new) \in Nat
    BY <1>1, CountsFinite, Zenon DEF Space
  <2>2. z.eliciting # 0 => x.eliciting # 0
    BY <1>5, <1>11, <2>1, SubZero, Zenon
  <2>3. /\ \A q \in Spaces \ {s} : v.sp[q] = w.sp[q]
        /\ v.sp[s].last = w.sp[s].last
        /\ v.sp[s].eliciting # 0 => w.sp[s].eliciting # 0
    BY <1>1, <1>5, <1>10, <1>11, <2>2, Zenon
  <2> QED
    BY <1>0, <2>3, DatedStep, Zenon
<1>15. Sound(v, t, Q, T)
  BY <1>0, <1>5, <1>10, <1>11, <1>12, <1>13, <1>14, Zenon DEF Sound
<1>16. ASSUME new = {}
       PROVE  Sound(u, t, Q, T)
  <2>1. PICK q \in Queue : q = x.sent
    BY <1>1, Zenon
  <2>2. MarkAcked(q, {}) = q
    <3>1. q \in [DOMAIN q -> Packet]
      BY QueueType, Zenon
    <3>2. q = [n \in DOMAIN q |-> q[n]]
      BY <3>1, Zenon
    <3>3. MarkAcked(q, {}) = [n \in DOMAIN q |-> q[n]]
      BY Zenon DEF MarkAcked
    <3> QED
      BY <3>2, <3>3, Zenon
  <2>3. Frames(q, {}) = {}
    BY Zenon DEF Frames
  <2>4. /\ y.sent = MarkAcked(x.sent, NewlyAcked(x, pns))
        /\ y.acked = x.acked \cup Frames(x.sent, NewlyAcked(x, pns))
    BY <1>5, <1>6, <1>16, <2>1, <2>2, <2>3, Zenon
  <2>5. Kept(y, R[s] \cup pns, T[s])
    BY <1>2, <1>5, <1>7, <1>8, <2>4, AckKept, Zenon
  <2>6. Past(y, t)
    BY <1>2, <1>5, Zenon DEF Past
  <2>7. /\ \A z1 \in Spaces \ {s} : u.sp[z1] = w.sp[z1]
        /\ u.sp[s].last = w.sp[s].last /\ u.sp[s].eliciting = w.sp[s].eliciting
    BY <1>1, <1>4, <1>5, Zenon
  <2>8. Dated(u)
    BY <1>0, <2>7, DatedStep, Zenon
  <2> QED
    BY <1>0, <1>4, <1>5, <2>5, <2>6, <2>8, Zenon DEF Sound
<1>17. RttSample(y, pns, t) \in Nat
  <2>1. CASE y.largest \in new
    <3>1. x.sent[y.largest].time \in Nat /\ x.sent[y.largest].time <= t
      BY <1>1, <1>2, <2>1, KindType, Zenon DEF Past, Packet
    <3>2. t - x.sent[y.largest].time \in Nat
      BY <3>1
    <3> QED
      BY <1>5, <1>6, <3>2, Zenon DEF RttSample
  <2>2. CASE y.largest \notin new
    BY <1>6, <2>2, Zenon DEF RttSample
  <2> QED
    BY <2>1, <2>2, Zenon
<1> QED
  BY <1>3, <1>4, <1>6, <1>9, <1>15, <1>16, <1>17, Zenon

(* on_ack_received keeps the packets, for any acknowledged numbers of      *)
(* packets that were sent.                                                 *)
LEMMA OnAckReceivedSound ==
  ASSUME NEW w, NEW s \in Spaces, NEW t \in Nat, NEW R, NEW T, Sound(w, t, R, T),
         NEW pns \in SUBSET (0..(w.sp[s].next - 1)), pns # {}, NEW delay \in Nat, NEW h,
         NEW Q, Q[s] = R[s] \cup pns, \A q \in Spaces \ {s} : Q[q] = R[q]
  PROVE  Sound(OnAckReceived(w, s, pns, delay, h, t), t, Q, T)
<1>1. PICK u : u = NoteLargest(w, s, pns)
  BY Zenon
<1>2. PICK v : v = DetectAcked(u, s, pns)
  BY Zenon
<1>3. /\ Sound(v, t, Q, T) /\ RttSample(u.sp[s], pns, t) \in Nat
      /\ NewlyAcked(u.sp[s], pns) = {} => Sound(u, t, Q, T)
  BY <1>1, <1>2, AckedSound, Zenon
<1>4. PICK rtt \in Nat : rtt = RttSample(u.sp[s], pns, t)
  BY <1>3, Zenon
<1>5. PICK a : a = NoteRtt(v, delay, rtt)
  BY Zenon
<1>6. PICK b : b = DetectLost(a, s, t)
  BY Zenon
<1>7. PICK c : c = DrainSent(b, s, t)
  BY Zenon
<1>8. PICK d : d = ResetPtoCount(c)
  BY Zenon
<1>9. OnAckReceived(w, s, pns, delay, h, t) =
        IF NewlyAcked(u.sp[s], pns) = {} THEN u ELSE SetTimer(d, h, t)
  BY <1>1, <1>2, <1>4, <1>5, <1>6, <1>7, <1>8, Zenon DEF OnAckReceived
<1>10. Sound(a, t, Q, T)
  <2>1. v \in World
    BY <1>3, Zenon DEF Sound
  <2>2. a \in World /\ a.sp = v.sp
    BY <1>5, <2>1, NoteRttFrame, Zenon
  <2> QED
    BY <1>3, <2>1, <2>2, SameSpaces, Zenon
<1>11. Sound(b, t, Q, T)
  BY <1>6, <1>10, DetectLostSound, Zenon
<1>12. Sound(c, t, Q, T)
  BY <1>7, <1>11, DrainSentSound, Zenon
<1>13. Sound(d, t, Q, T)
  <2>1. c \in World
    BY <1>12, Zenon DEF Sound
  <2>2. d \in World /\ d.sp = c.sp
    BY <1>8, <2>1, ResetPtoFrame, Zenon
  <2> QED
    BY <1>12, <2>1, <2>2, SameSpaces, Zenon
<1>14. Sound(SetTimer(d, h, t), t, Q, T)
  BY <1>13, SetTimerSound, Zenon
<1> QED
  BY <1>3, <1>9, <1>14, Zenon

(* Unless a packet in flight is acknowledged that was declared lost, the   *)
(* counts are exact when the packets acknowledged have left.               *)
LEMMA AckedExact ==
  ASSUME NEW w \in World, NEW s \in Spaces, Exact(w), NEW pns,
         \A n \in NewlyAcked(w.sp[s], pns) :
           w.sp[s].sent[n].lost = None \/ ~w.sp[s].sent[n].kind.flight
  PROVE  Exact(DetectAcked(w, s, pns))
<1>1. PICK v \in World : v = DetectAcked(w, s, pns)
  BY DetectAckedFrame, Zenon
<1>2. PICK q \in Queue : q = w.sp[s].sent
  BY SpaceOf, Zenon
<1>3. PICK p \in Queue : p = v.sp[s].sent
  BY SpaceOf, Zenon
<1>4. PICK S \in SUBSET DOMAIN q : S = NewlyAcked(w.sp[s], pns)
  BY <1>2, Zenon DEF NewlyAcked
<1>5. /\ \A z \in Spaces \ {s} : v.sp[z] = w.sp[z]
      /\ v.sp[s].bytes = Sub(w.sp[s].bytes, Bytes(q, S))
      /\ v.sp[s].eliciting = Sub(w.sp[s].eliciting, Eliciting(q, S))
      /\ v.r.bytes = Sub(w.r.bytes, Bytes(q, S))
      /\ v.r.eliciting = Sub(w.r.eliciting, Eliciting(q, S))
      /\ MarkAcked(q, S) = p
  BY <1>1, <1>2, <1>3, <1>4, DetectAckedFrame
<1>6. MarkAcked(q, S) = p
  BY <1>5, Zenon
<1>7. Pending(p) = Pending(q) \ S /\ \A n \in DOMAIN q : p[n].kind = q[n].kind
  BY <1>6, MarkAckedType
<1>8. \A n \in Pending(p) : p[n].kind = q[n].kind
  BY <1>7, PendingIn, Zenon
<1>9. \A n \in S \ Pending(q) : ~q[n].kind.flight
  <2> TAKE n \in S \ Pending(q)
  <2>1. n \in DOMAIN q /\ ~q[n].acked
    BY <1>2, <1>4, Zenon DEF NewlyAcked
  <2>2. q[n].lost # None
    BY <2>1, Zenon DEF Pending
  <2> QED
    BY <1>2, <1>4, <2>2, Zenon
<1>10. Leaves(w, v, s, S)
  BY <1>2, <1>3, <1>5, <1>7, <1>8, <1>9, Zenon DEF Leaves
<1> QED
  BY <1>1, <1>10, LeaveExact, Zenon

(* No packet that pns acknowledges anew counts as lost already.            *)
NoneLate(x, pns) ==
  \A n \in NewlyAcked(x, pns) : x.sent[n].lost = None \/ ~x.sent[n].kind.flight

(* ... and the counts, when no packet acknowledged late had been declared  *)
(* lost before.                                                            *)
LEMMA OnAckReceivedExact ==
  ASSUME NEW w, NEW s \in Spaces, NEW t \in Nat, NEW R, NEW T, Sound(w, t, R, T),
         NEW pns \in SUBSET (0..(w.sp[s].next - 1)), pns # {}, NEW delay \in Nat, NEW h, NEW e,
         NEW Q, Q[s] = R[s] \cup pns, \A q \in Spaces \ {s} : Q[q] = R[q],
         Covered(w, h, e)
  PROVE  LET v == OnAckReceived(w, s, pns, delay, h, t) IN
         /\ Exact(w) /\ NoneLate(w.sp[s], pns) => Exact(v)
         /\ \A f : (f => e \/ NewlyAcked(w.sp[s], pns) # {}) => Covered(v, h, f)
<1>0. w \in World /\ Dated(w)
  BY Zenon DEF Sound
<1>1. PICK u \in World : u = NoteLargest(w, s, pns)
  BY <1>0, NoteLargestFrame, Zenon
<1>2. /\ \A q \in Spaces \ {s} : u.sp[q] = w.sp[q]
      /\ u.r = w.r /\ u.sp[s].sent = w.sp[s].sent
      /\ u.sp[s].bytes = w.sp[s].bytes /\ u.sp[s].eliciting = w.sp[s].eliciting
  BY <1>0, <1>1, NoteLargestFrame
<1>3. /\ \A z \in Spaces : /\ u.sp[z].sent = w.sp[z].sent /\ u.sp[z].bytes = w.sp[z].bytes
                            /\ u.sp[z].eliciting = w.sp[z].eliciting
      /\ u.r = w.r
  BY <1>2, Zenon
<1>4. (Exact(w) => Exact(u)) /\ Covered(u, h, e)
  BY <1>3 DEF Exact, ExactSpace, Covered, Spaces
<1>5. NewlyAcked(u.sp[s], pns) = NewlyAcked(w.sp[s], pns)
  BY <1>2, Zenon DEF NewlyAcked
<1>6. PICK v \in World : v = DetectAcked(u, s, pns)
  BY DetectAckedFrame, Zenon
<1>7. ASSUME Exact(w), NoneLate(w.sp[s], pns) PROVE Exact(v)
  <2>1. \A n \in NewlyAcked(u.sp[s], pns) :
          u.sp[s].sent[n].lost = None \/ ~u.sp[s].sent[n].kind.flight
    BY <1>2, <1>5, <1>7, Zenon DEF NoneLate
  <2> QED
    BY <1>4, <1>6, <1>7, <2>1, AckedExact, Zenon
<1>8. Sound(v, t, Q, T) /\ RttSample(u.sp[s], pns, t) \in Nat
  BY <1>1, <1>6, AckedSound, Zenon
<1>9. PICK rtt \in Nat : rtt = RttSample(u.sp[s], pns, t)
  BY <1>8, Zenon
<1>10. PICK a \in World : a = NoteRtt(v, delay, rtt)
  BY NoteRttFrame, Zenon
<1>11. Sound(a, t, Q, T) /\ (Exact(v) => Exact(a))
  <2>1. a.sp = v.sp /\ a.r.bytes = v.r.bytes /\ a.r.eliciting = v.r.eliciting
    BY <1>10, NoteRttFrame
  <2> QED
    BY <1>8, <2>1, SameSpaces, Zenon
<1>12. PICK b : b = DetectLost(a, s, t)
  BY Zenon
<1>13. Sound(b, t, Q, T) /\ (Exact(a) => Exact(b)) /\ b \in World
  BY <1>11, <1>12, DetectLostSound, DetectLostExact, Zenon DEF Sound
<1>14. PICK c : c = DrainSent(b, s, t)
  BY Zenon
<1>15. Sound(c, t, Q, T) /\ (Exact(b) => Exact(c)) /\ c \in World
  BY <1>13, <1>14, DrainSentSound, DrainSentExact, Zenon DEF Sound
<1>16. PICK d \in World : d = ResetPtoCount(c)
  BY <1>15, ResetPtoFrame, Zenon
<1>17. Dated(d) /\ (Exact(c) => Exact(d))
  <2>1. d.sp = c.sp /\ d.r.bytes = c.r.bytes /\ d.r.eliciting = c.r.eliciting
    BY <1>15, <1>16, ResetPtoFrame, Zenon
  <2> QED
    <3>1. Sound(d, t, Q, T)
      BY <1>15, <2>1, SameSpaces, Zenon
    <3>2. Exact(c) => Exact(d)
      BY <1>15, <2>1, SameSpaces, Zenon
    <3> QED
      BY <3>1, <3>2, Zenon DEF Sound
<1>18. OnAckReceived(w, s, pns, delay, h, t) =
         IF NewlyAcked(w.sp[s], pns) = {} THEN u ELSE SetTimer(d, h, t)
  BY <1>1, <1>5, <1>6, <1>9, <1>10, <1>12, <1>14, <1>16, Zenon DEF OnAckReceived
<1>19. CASE NewlyAcked(w.sp[s], pns) = {}
  <2>1. \A f : (f => e) => Covered(u, h, f)
    BY <1>4, Zenon DEF Covered
  <2> QED
    BY <1>4, <1>18, <1>19, <2>1, Zenon
<1>20. CASE NewlyAcked(w.sp[s], pns) # {}
  <2>1. (Exact(d) => Exact(SetTimer(d, h, t))) /\ \A f : Covered(SetTimer(d, h, t), h, f)
    BY <1>17, SetTimerCovers, Zenon
  <2> QED
    BY <1>7, <1>11, <1>13, <1>15, <1>17, <1>18, <1>20, <2>1, Zenon
<1> QED
  BY <1>19, <1>20, Zenon

-----------------------------------------------------------------------------
(* on_packet_sent                                                          *)

(* All that taking the lost frames changes.                                *)
LEMMA TakeLostFrame ==
  ASSUME NEW w \in World
  PROVE  LET v == TakeLost(w) IN
         /\ v \in World /\ v.r = w.r
         /\ \A s \in Spaces :
              /\ v.sp[s].lost = {} /\ SameOrigin(w.sp[s], v.sp[s])
              /\ v.sp[s].sent = w.sp[s].sent /\ v.sp[s].acked = w.sp[s].acked
              /\ v.sp[s].bytes = w.sp[s].bytes /\ v.sp[s].eliciting = w.sp[s].eliciting
<1>1. PICK r \in Rec, sp \in [Spaces -> Space] : r = w.r /\ sp = w.sp /\ w = [r |-> r, sp |-> sp]
  BY Zenon DEF World
<1>2. PICK f : f = [s \in Spaces |-> [sp[s] EXCEPT !.lost = {}]]
  BY Zenon
<1>3. TakeLost(w) = [r |-> r, sp |-> f]
  BY <1>1, <1>2, Zenon DEF TakeLost
<1>4. ASSUME NEW s \in Spaces
      PROVE  /\ f[s] \in Space /\ f[s].lost = {} /\ SameOrigin(sp[s], f[s])
             /\ f[s].sent = sp[s].sent /\ f[s].acked = sp[s].acked
             /\ f[s].bytes = sp[s].bytes /\ f[s].eliciting = sp[s].eliciting
  <2>1. PICK x \in Space : x = sp[s]
    BY Zenon
  <2>2. f[s] = [x EXCEPT !.lost = {}]
    BY <1>2, <2>1, Zenon
  <2> QED
    BY <2>1, <2>2, Zenon DEF Space, SameOrigin
<1>5. f \in [Spaces -> Space]
  BY <1>2, <1>4, Zenon
<1>6. TakeLost(w) \in World /\ TakeLost(w).r = r /\ TakeLost(w).sp = f
  BY <1>3, <1>5 DEF World
<1> QED
  BY <1>1, <1>4, <1>6, Zenon

(* The connection takes the lost frames to send them again: they are in    *)
(* its hands, and nothing else changes.                                    *)
LEMMA TakeLostSound ==
  ASSUME NEW w, NEW t, NEW R, NEW T, Sound(w, t, R, T),
         NEW F, \A s \in Spaces : F[s] = T[s] \cup w.sp[s].lost
  PROVE  /\ Sound(TakeLost(w), t, R, F)
         /\ Exact(w) => Exact(TakeLost(w))
         /\ \A h, a : Covered(w, h, a) => Covered(TakeLost(w), h, a)
<1>1. PICK v \in World : v = TakeLost(w) /\ w \in World
  BY TakeLostFrame, Zenon DEF Sound
<1>2. \A s \in Spaces :
        /\ v.sp[s].lost = {} /\ v.sp[s].next = w.sp[s].next
        /\ v.sp[s].largest = w.sp[s].largest /\ v.sp[s].last = w.sp[s].last
        /\ v.sp[s].sent = w.sp[s].sent /\ v.sp[s].acked = w.sp[s].acked
        /\ v.sp[s].bytes = w.sp[s].bytes /\ v.sp[s].eliciting = w.sp[s].eliciting
  BY <1>1, TakeLostFrame DEF SameOrigin
<1>3. v.r = w.r
  BY <1>1, TakeLostFrame, Zenon
<1>4. ASSUME NEW s \in Spaces
      PROVE  Kept(v.sp[s], R[s], F[s]) /\ Past(v.sp[s], t)
  <2>1. Kept(w.sp[s], R[s], T[s]) /\ Past(w.sp[s], t)
    BY Zenon DEF Sound
  <2>2. /\ v.sp[s].lost = {} /\ v.sp[s].next = w.sp[s].next
        /\ v.sp[s].largest = w.sp[s].largest
        /\ v.sp[s].sent = w.sp[s].sent /\ v.sp[s].acked = w.sp[s].acked
    BY <1>2, Zenon
  <2>3. Past(v.sp[s], t)
    BY <2>1, <2>2, Zenon DEF Past
  <2>4. Kept(v.sp[s], R[s], F[s])
    BY <2>1, <2>2, Zenon DEF Kept
  <2> QED
    BY <2>3, <2>4, Zenon
<1>5. Dated(v)
  BY <1>2, Zenon DEF Sound, Dated
<1>6. Sound(v, t, R, F)
  BY <1>4, <1>5, Zenon DEF Sound
<1>7. Exact(w) => Exact(v)
  BY <1>2, <1>3 DEF Exact, ExactSpace, Spaces
<1>8. \A h, a : Covered(w, h, a) => Covered(v, h, a)
  BY <1>2, <1>3, Zenon DEF Covered
<1> QED
  BY <1>1, <1>6, <1>7, <1>8, Zenon

NewPacket(k, kind, t) ==
  [kind |-> kind, time |-> t, acked |-> FALSE, lost |-> None, frames |-> {k}]

(* The queue p is q with the packet a under a new number k.                *)
Extends(p, q, k, a) ==
  /\ p \in Queue /\ DOMAIN p = DOMAIN q \cup {k}
  /\ p[k] = a /\ \A n \in DOMAIN q : p[n] = q[n]
  /\ Pending(p) = Pending(q) \cup {k}

(* The queue after a packet is pushed.                                     *)
LEMMA PushType ==
  ASSUME NEW q \in Queue, NEW k \in Nat, k \notin DOMAIN q, NEW kind \in Kinds, NEW t \in Nat
  PROVE  Extends(Push(q, k, NewPacket(k, kind, t)), q, k, NewPacket(k, kind, t))
<1>1. PICK p : p = Push(q, k, NewPacket(k, kind, t))
  BY Zenon
<1>2. /\ DOMAIN p = DOMAIN q \cup {k} /\ p[k] = NewPacket(k, kind, t)
      /\ \A n \in DOMAIN q : p[n] = q[n]
  BY <1>1, Zenon DEF Push
<1>3. NewPacket(k, kind, t) \in Packet
  BY Zenon DEF NewPacket, Packet, None
<1>4. p \in [DOMAIN p -> Packet]
  <2>1. \A n \in DOMAIN p : p[n] \in Packet
    BY <1>2, <1>3, KindType, Zenon
  <2>2. p = [n \in DOMAIN p |-> p[n]]
    BY <1>1, Zenon DEF Push
  <2> QED
    BY <2>1, <2>2, Zenon
<1>5. DOMAIN p \subseteq Nat /\ IsFiniteSet(DOMAIN p)
  BY <1>2, QueueType, FS_AddElement, Zenon
<1>6. p \in Queue
  BY <1>4, <1>5, QueueType, Zenon
<1>7. ~p[k].acked /\ p[k].lost = None
  BY <1>2 DEF NewPacket
<1>8. Pending(p) = Pending(q) \cup {k}
  BY <1>2, <1>7, Zenon DEF Pending
<1> QED
  BY <1>1, <1>2, <1>6, <1>8, Zenon DEF Extends

(* What one packet adds to the counts.                                     *)
LEMMA OneCounts ==
  ASSUME NEW q \in Queue, NEW k \in DOMAIN q
  PROVE  /\ q[k].kind.flight =>
              /\ Bytes(q, {k}) = q[k].kind.size
              /\ Eliciting(q, {k}) = IF q[k].kind.eliciting THEN 1 ELSE 0
         /\ ~q[k].kind.flight => Bytes(q, {k}) = 0 /\ Eliciting(q, {k}) = 0
<1>1. PICK size \in 1..MaxSize : size = q[k].kind.size
  BY KindType, Zenon
<1>2. {k} \in SUBSET DOMAIN q
  BY Zenon
<1>3. Bytes(q, {k}) = Cardinality(Units(q, {k})) /\ Eliciting(q, {k}) = Cardinality(Elicits(q, {k}))
  BY <1>2, CountsFinite, Zenon
<1>4. IsFiniteSet({k}) /\ Cardinality({k}) = 1 /\ Cardinality({}) = 0
  BY FS_Singleton, FS_EmptySet, Zenon
<1>5. CASE q[k].kind.flight
  <2>1. Units(q, {k}) = {k} \X (1..size)
    <3>1. MaxSize \in Nat
      BY RecoveryAssumption, Zenon
    <3>2. \A i : i \in 1..MaxSize /\ i <= size <=> i \in 1..size
      BY <3>1
    <3> QED
      BY <1>1, <1>5, <3>2, Zenon DEF Units
  <2>2. IsFiniteSet(1..size) /\ Cardinality(1..size) = size
    BY FS_Interval
  <2>3. Cardinality({k} \X (1..size)) = size
    <3>1. Cardinality({k} \X (1..size)) = Cardinality({k}) * Cardinality(1..size)
      BY <1>4, <2>2, FS_Product, Zenon
    <3>2. 1 * size = size
      BY <1>1
    <3> QED
      BY <1>4, <2>2, <3>1, <3>2, Zenon
  <2>4. Elicits(q, {k}) = IF q[k].kind.eliciting THEN {k} ELSE {}
    BY <1>5, Zenon DEF Elicits
  <2>5. Bytes(q, {k}) = q[k].kind.size
    BY <1>1, <1>3, <2>1, <2>3, Zenon
  <2>6. Eliciting(q, {k}) = IF q[k].kind.eliciting THEN 1 ELSE 0
    BY <1>3, <1>4, <2>4, Zenon
  <2> QED
    BY <1>5, <2>5, <2>6, Zenon
<1>6. CASE ~q[k].kind.flight
  <2>1. Units(q, {k}) = {} /\ Elicits(q, {k}) = {}
    BY <1>6, Zenon DEF Units, Elicits
  <2> QED
    BY <1>3, <1>4, <1>6, <2>1, Zenon
<1> QED
  BY <1>5, <1>6, Zenon
One(kind) == IF kind.eliciting THEN 1 ELSE 0

(* A packet of a kind, sent at time t, takes w to v, before the timer.     *)
Sends(w, v, s, kind, t) ==
  LET x == w.sp[s]
      y == v.sp[s]
  IN /\ \A z \in Spaces \ {s} : v.sp[z] = w.sp[z]
     /\ y.next = x.next + 1 /\ y.largest = x.largest /\ y.lost = x.lost /\ y.acked = x.acked
     /\ y.sent = Push(x.sent, x.next, NewPacket(x.next, kind, t))
     /\ y.last = IF kind.flight /\ kind.eliciting THEN t ELSE x.last
     /\ kind.flight => /\ y.bytes = x.bytes + kind.size /\ y.eliciting = x.eliciting + One(kind)
                       /\ v.r.bytes = w.r.bytes + kind.size
                       /\ v.r.eliciting = w.r.eliciting + One(kind)
     /\ ~kind.flight => y.bytes = x.bytes /\ y.eliciting = x.eliciting /\ v.r = w.r

(* All that on_packet_sent changes before it sets the timer.               *)
LEMMA SendFrame ==
  ASSUME NEW w \in World, NEW s \in Spaces, NEW kind \in Kinds, NEW t \in Nat, NEW h,
         w.sp[s].next \notin DOMAIN w.sp[s].sent
  PROVE  \E v \in World :
           /\ Sends(w, v, s, kind, t)
           /\ OnPacketSent(w, s, kind, h, t) = IF kind.flight THEN SetTimer(v, h, t) ELSE v
<1>1. PICK r \in Rec, sp \in [Spaces -> Space] : r = w.r /\ sp = w.sp /\ w = [r |-> r, sp |-> sp]
  BY Zenon DEF World
<1>2. PICK x \in Space : x = sp[s] /\ x.next \in Nat /\ x.sent \in Queue
  BY Zenon DEF Space
<1>3. PICK q \in Queue : q = Push(x.sent, x.next, NewPacket(x.next, kind, t))
  <2>1. Extends(Push(x.sent, x.next, NewPacket(x.next, kind, t)), x.sent, x.next,
                NewPacket(x.next, kind, t))
    BY <1>1, <1>2, PushType, Zenon
  <2> QED
    BY <2>1, Zenon DEF Extends
<1>4. PICK silent \in Nat : silent = IF kind.eliciting THEN 0 ELSE x.silent + 1
  BY DEF Space
<1>a. PICK next \in Nat : next = x.next + 1
  BY <1>2
<1>5. PICK a : a = [x EXCEPT !.sent = q, !.next = next, !.silent = silent]
  BY Zenon
<1>6. /\ a \in Space /\ a.next = next /\ a.largest = x.largest /\ a.lost = x.lost
      /\ a.acked = x.acked /\ a.sent = q /\ a.last = x.last /\ a.bytes = x.bytes
      /\ a.eliciting = x.eliciting /\ a.probes = x.probes
  BY <1>5, Zenon DEF Space
<1>7. One(kind) \in Nat /\ kind.size \in Nat
  BY RecoveryAssumption DEF One, Kinds
<1>8. CASE ~kind.flight
  <2>1. PICK v : v = [r |-> r, sp |-> [sp EXCEPT ![s] = a]]
    BY Zenon
  <2>2. OnPacketSent(w, s, kind, h, t) = v
    BY <1>1, <1>2, <1>3, <1>4, <1>a, <1>5, <1>8, <2>1 DEF OnPacketSent, NewPacket
  <2>3. /\ v \in World /\ v.sp[s] = a /\ v.r = w.r
        /\ \A z \in Spaces \ {s} : v.sp[z] = w.sp[z]
    BY <1>1, <1>6, <2>1, Zenon DEF World
  <2>4. Sends(w, v, s, kind, t)
    BY <1>1, <1>2, <1>3, <1>a, <1>6, <1>8, <2>3, Zenon DEF Sends
  <2> QED
    BY <1>8, <2>2, <2>3, <2>4, Zenon
<1>9. CASE kind.flight
  <2>1. PICK last \in Int : last = IF kind.eliciting THEN t ELSE x.last
    BY DEF Space
  <2>2. PICK probes \in Nat : probes = Sub(x.probes, One(kind))
    BY <1>7, SubNat, Zenon DEF Space
  <2>3. PICK b : b = [a EXCEPT !.last = last, !.probes = probes,
                               !.eliciting = x.eliciting + One(kind), !.bytes = x.bytes + kind.size]
    BY Zenon
  <2>4. x.eliciting + One(kind) \in Nat /\ x.bytes + kind.size \in Nat
    BY <1>7 DEF Space
  <2>5. /\ b \in Space /\ b.next = next /\ b.largest = x.largest /\ b.lost = x.lost
        /\ b.acked = x.acked /\ b.sent = q /\ b.last = last /\ b.bytes = x.bytes + kind.size
        /\ b.eliciting = x.eliciting + One(kind)
    BY <1>6, <2>3, <2>4, Zenon DEF Space
  <2>6. PICK k : k = [r EXCEPT !.eliciting = r.eliciting + One(kind), !.bytes = r.bytes + kind.size]
    BY Zenon
  <2>7. /\ k \in Rec /\ k.bytes = r.bytes + kind.size /\ k.eliciting = r.eliciting + One(kind)
    <3>1. r.eliciting + One(kind) \in Nat /\ r.bytes + kind.size \in Nat
      BY <1>7 DEF Rec
    <3> QED
      BY <2>6, <3>1, Zenon DEF Rec
  <2>8. PICK v : v = [r |-> k, sp |-> [sp EXCEPT ![s] = b]]
    BY Zenon
  <2>9. OnPacketSent(w, s, kind, h, t) = SetTimer(v, h, t)
    <3>1. b = [[x EXCEPT !.sent = q, !.next = @ + 1,
                         !.silent = IF kind.eliciting THEN 0 ELSE @ + 1]
               EXCEPT !.last = IF kind.eliciting THEN t ELSE @,
                      !.probes = Sub(@, One(kind)),
                      !.eliciting = @ + One(kind), !.bytes = @ + kind.size]
      BY <1>4, <1>a, <1>5, <1>6, <2>1, <2>2, <2>3
    <3> QED
      BY <1>1, <1>2, <1>3, <1>9, <2>6, <2>8, <3>1 DEF OnPacketSent, NewPacket, One
  <2>10. /\ v \in World /\ v.sp[s] = b /\ v.r = k
         /\ \A z \in Spaces \ {s} : v.sp[z] = w.sp[z]
    BY <1>1, <2>5, <2>7, <2>8, Zenon DEF World
  <2>11. Sends(w, v, s, kind, t)
    BY <1>1, <1>2, <1>3, <1>a, <1>9, <2>1, <2>5, <2>7, <2>10 DEF Sends
  <2> QED
    BY <1>9, <2>9, <2>10, <2>11, Zenon
<1> QED
  BY <1>8, <1>9, Zenon

(* A packet that is sent keeps the packets of its space.                   *)
LEMMA SendKept ==
  ASSUME NEW x \in Space, NEW y \in Space, NEW R, NEW T, NEW kind \in Kinds, NEW t \in Nat,
         Kept(x, R, T), y.next = x.next + 1, y.largest = x.largest, y.lost = x.lost,
         y.acked = x.acked, y.sent = Push(x.sent, x.next, NewPacket(x.next, kind, t))
  PROVE  Kept(y, R, T)
<1>1. PICK k \in Nat, q \in Queue : k = x.next /\ q = x.sent
  BY Zenon DEF Space
<1>2. /\ DOMAIN q \subseteq 0..(k - 1) /\ R \subseteq 0..(k - 1)
      /\ x.largest \in R \cup {None}
      /\ \A n \in DOMAIN q :
           /\ n \in R => q[n].acked
           /\ q[n].acked \/ q[n].lost # None => q[n].frames = {}
           /\ q[n].lost # None => \E pn \in R : pn > n /\ pn <= x.largest
      /\ 0..(k - 1) = T \cup x.lost \cup x.acked \cup Frames(q, DOMAIN q)
  BY <1>1, Zenon DEF Kept
<1>3. k \notin DOMAIN q /\ k \notin R
  BY <1>2
<1>4. PICK p : p = Push(q, k, NewPacket(k, kind, t)) /\ p = y.sent
  BY <1>1, Zenon
<1>5. /\ DOMAIN p = DOMAIN q \cup {k} /\ p[k] = NewPacket(k, kind, t)
      /\ \A n \in DOMAIN q : p[n] = q[n]
  <2>1. Extends(p, q, k, NewPacket(k, kind, t))
    BY <1>3, <1>4, PushType, Zenon
  <2> QED
    BY <2>1, Zenon DEF Extends
<1>6. ~p[k].acked /\ p[k].lost = None /\ p[k].frames = {k}
  BY <1>5 DEF NewPacket
<1>7. Frames(p, DOMAIN p) = Frames(q, DOMAIN q) \cup {k}
  <2>1. \A f : f \in Frames(p, DOMAIN p) <=> f \in Frames(q, DOMAIN q) \cup {k}
    <3> TAKE f
    <3>1. f \in Frames(p, DOMAIN p) <=> \E n \in DOMAIN p : f \in p[n].frames
      BY FramesMember, Zenon
    <3>2. f \in Frames(q, DOMAIN q) <=> \E n \in DOMAIN q : f \in q[n].frames
      BY FramesMember, Zenon
    <3> QED
      BY <1>5, <1>6, <3>1, <3>2, Zenon
  <2> QED
    BY <2>1, Zenon
<1>8. 0..k = (0..(k - 1)) \cup {k}
  OBVIOUS
<1>9. y.next - 1 = k
  BY <1>1
<1>10. 0..k = T \cup y.lost \cup y.acked \cup Frames(p, DOMAIN p)
  BY <1>2, <1>7, <1>8, Zenon
<1>11. DOMAIN p \subseteq 0..k /\ R \subseteq 0..k
  BY <1>2, <1>5, <1>8, Zenon
<1>12. \A n \in DOMAIN p :
           /\ n \in R => p[n].acked
           /\ p[n].acked \/ p[n].lost # None => p[n].frames = {}
           /\ p[n].lost # None => \E pn \in R : pn > n /\ pn <= y.largest
  BY <1>2, <1>3, <1>5, <1>6
<1> QED
  BY <1>2, <1>4, <1>9, <1>10, <1>11, <1>12, Zenon DEF Kept

(* The next packet number is not in use.                                   *)
LEMMA FreshNumber ==
  ASSUME NEW w \in World, NEW s \in Spaces, NEW R, NEW T, Kept(w.sp[s], R, T)
  PROVE  w.sp[s].next \in Nat /\ w.sp[s].next \notin DOMAIN w.sp[s].sent
<1>1. w.sp[s].next \in Nat
  BY SpaceOf, Zenon DEF Space
<1> QED
  BY <1>1 DEF Kept

(* ... and those of every space.                                           *)
LEMMA SendsSound ==
  ASSUME NEW w, NEW v \in World, NEW s \in Spaces, NEW kind \in Kinds, NEW t \in Nat,
         NEW R, NEW T, Sound(w, t, R, T), Sends(w, v, s, kind, t)
  PROVE  Sound(v, t, R, T)
<1>0. w \in World /\ Dated(w) /\ \A z \in Spaces : Kept(w.sp[z], R[z], T[z]) /\ Past(w.sp[z], t)
  BY Zenon DEF Sound
<1>1. PICK x \in Space : x = w.sp[s] /\ x.sent \in Queue
  BY <1>0, SpaceOf, Zenon
<1>2. PICK y \in Space : y = v.sp[s]
  BY SpaceOf, Zenon
<1>3. /\ \A z \in Spaces \ {s} : v.sp[z] = w.sp[z]
      /\ y.next = x.next + 1 /\ y.largest = x.largest /\ y.lost = x.lost /\ y.acked = x.acked
      /\ y.sent = Push(x.sent, x.next, NewPacket(x.next, kind, t))
      /\ y.last = IF kind.flight /\ kind.eliciting THEN t ELSE x.last
      /\ kind.flight => y.eliciting = x.eliciting + One(kind)
      /\ ~kind.flight => y.eliciting = x.eliciting
  BY <1>1, <1>2, Zenon DEF Sends
<1>4. Kept(x, R[s], T[s]) /\ Past(x, t)
  BY <1>0, <1>1, Zenon
<1>5. Kept(y, R[s], T[s])
  BY <1>3, <1>4, SendKept
<1>6. Past(y, t)
  <2>1. x.next \in Nat /\ x.next \notin DOMAIN x.sent
    BY <1>0, <1>1, FreshNumber, Zenon
  <2>2. PICK k \in Nat, q \in Queue : k = x.next /\ q = x.sent
    BY <1>1, <2>1, Zenon
  <2>3. PICK p : p = Push(q, k, NewPacket(k, kind, t)) /\ p = y.sent
    BY <1>3, <2>2, Zenon
  <2>4. /\ DOMAIN p = DOMAIN q \cup {k} /\ p[k] = NewPacket(k, kind, t)
        /\ \A n \in DOMAIN q : p[n] = q[n]
    <3>1. Extends(p, q, k, NewPacket(k, kind, t))
      BY <2>1, <2>2, <2>3, PushType, Zenon
    <3> QED
      BY <3>1, Zenon DEF Extends
  <2>5. p[k].time = t
    BY <2>4 DEF NewPacket
  <2> QED
    BY <1>4, <2>2, <2>3, <2>4, <2>5 DEF Past
<1>7. y.eliciting # 0 => y.last \in Nat
  <2>1. x.eliciting # 0 => x.last \in Nat
    BY <1>0, <1>1, Zenon DEF Dated
  <2>2. x.eliciting \in Nat
    BY Zenon DEF Space
  <2> QED
    BY <1>3, <2>1, <2>2 DEF One
<1>8. Dated(v)
  BY <1>0, <1>2, <1>3, <1>7, Zenon DEF Dated
<1> QED
  BY <1>0, <1>2, <1>3, <1>5, <1>6, <1>8, Zenon DEF Sound

(* What a sent packet adds to the counts of its queue.                     *)
LEMMA SendCounts ==
  ASSUME NEW q \in Queue, NEW k \in Nat, k \notin DOMAIN q, NEW kind \in Kinds, NEW t \in Nat,
         NEW p, p = Push(q, k, NewPacket(k, kind, t))
  PROVE  /\ Bytes(q, Pending(q)) \in Nat /\ Eliciting(q, Pending(q)) \in Nat
         /\ kind.flight =>
              /\ Bytes(p, Pending(p)) = Bytes(q, Pending(q)) + kind.size
              /\ Eliciting(p, Pending(p)) = Eliciting(q, Pending(q)) + One(kind)
         /\ ~kind.flight =>
              /\ Bytes(p, Pending(p)) = Bytes(q, Pending(q))
              /\ Eliciting(p, Pending(p)) = Eliciting(q, Pending(q))
<1>1. /\ p \in Queue /\ DOMAIN p = DOMAIN q \cup {k}
      /\ p[k] = NewPacket(k, kind, t) /\ \A n \in DOMAIN q : p[n] = q[n]
      /\ Pending(p) = Pending(q) \cup {k}
  <2>1. Extends(p, q, k, NewPacket(k, kind, t))
    BY PushType, Zenon
  <2> QED
    BY <2>1, Zenon DEF Extends
<1>2. PICK P \in SUBSET DOMAIN q : P = Pending(q)
  BY PendingIn, Zenon
<1>3. PICK U \in SUBSET DOMAIN p : U = Pending(p) /\ {k} \in SUBSET U /\ U \ {k} = P
  BY <1>1, <1>2
<1>4. /\ Bytes(p, P) = Bytes(p, U) - Bytes(p, {k})
      /\ Eliciting(p, P) = Eliciting(p, U) - Eliciting(p, {k})
  BY <1>1, <1>3, CountsSplit
<1>5. Bytes(p, P) = Bytes(q, P) /\ Eliciting(p, P) = Eliciting(q, P)
  <2>1. \A n \in P : p[n].kind = q[n].kind
    BY <1>1, <1>2, Zenon
  <2> QED
    BY <2>1, CountsSame
<1>6. Bytes(q, P) \in Nat /\ Eliciting(q, P) \in Nat
  BY CountsFinite, Zenon
<1>7. Bytes(p, U) \in Nat /\ Eliciting(p, U) \in Nat
  BY <1>1, CountsFinite, Zenon
<1>8. k \in DOMAIN p /\ p[k].kind = kind
  BY <1>1 DEF NewPacket
<1>9. /\ kind.flight => Bytes(p, {k}) = kind.size /\ Eliciting(p, {k}) = One(kind)
      /\ ~kind.flight => Bytes(p, {k}) = 0 /\ Eliciting(p, {k}) = 0
  BY <1>1, <1>8, OneCounts DEF One
<1>10. kind.size \in Nat /\ One(kind) \in Nat
  BY RecoveryAssumption DEF One, Kinds
<1> QED
  BY <1>2, <1>3, <1>4, <1>5, <1>6, <1>7, <1>9, <1>10

(* A space that grows by d makes the sum over the spaces grow by d.        *)
LEMMA SumGrows ==
  ASSUME NEW f, NEW g, NEW s \in Spaces, NEW d \in Nat, \A z \in Spaces : f[z] \in Nat,
         g[s] = f[s] + d, \A z \in Spaces \ {s} : g[z] = f[z]
  PROVE  OverSpaces(g) = OverSpaces(f) + d
<1>1. CASE s = "Initial"
  BY <1>1 DEF Spaces, OverSpaces
<1>2. CASE s = "Handshake"
  BY <1>2 DEF Spaces, OverSpaces
<1>3. CASE s = "Data"
  BY <1>3 DEF Spaces, OverSpaces
<1> QED
  BY <1>1, <1>2, <1>3, Zenon DEF Spaces

(* A packet that is sent keeps the counts exact.                           *)
LEMMA SendsExact ==
  ASSUME NEW w \in World, NEW v \in World, NEW s \in Spaces, NEW kind \in Kinds, NEW t \in Nat,
         NEW R, NEW T, Kept(w.sp[s], R, T), Sends(w, v, s, kind, t), Exact(w)
  PROVE  Exact(v)
<1>1. PICK x \in Space : x = w.sp[s] /\ x.sent \in Queue
  BY SpaceOf, Zenon
<1>2. PICK y \in Space : y = v.sp[s]
  BY SpaceOf, Zenon
<1>3. /\ \A z \in Spaces \ {s} : v.sp[z] = w.sp[z]
      /\ y.sent = Push(x.sent, x.next, NewPacket(x.next, kind, t))
      /\ kind.flight => /\ y.bytes = x.bytes + kind.size /\ y.eliciting = x.eliciting + One(kind)
                        /\ v.r.bytes = w.r.bytes + kind.size
                        /\ v.r.eliciting = w.r.eliciting + One(kind)
      /\ ~kind.flight => y.bytes = x.bytes /\ y.eliciting = x.eliciting /\ v.r = w.r
  BY <1>1, <1>2, Zenon DEF Sends
<1>4. x.next \in Nat /\ x.next \notin DOMAIN x.sent
  BY <1>1, FreshNumber, Zenon
<1>5. PICK db \in Nat, de \in Nat :
        /\ kind.flight => db = kind.size /\ de = One(kind)
        /\ ~kind.flight => db = 0 /\ de = 0
  <2>1. kind.size \in Nat /\ One(kind) \in Nat
    BY RecoveryAssumption DEF One, Kinds
  <2> QED
    BY <2>1, Zenon
<1>6. /\ x.bytes \in Nat /\ x.eliciting \in Nat /\ w.r.bytes \in Nat /\ w.r.eliciting \in Nat
      /\ \A z \in Spaces : w.sp[z].bytes \in Nat /\ w.sp[z].eliciting \in Nat
  BY SpaceOf, Zenon DEF Space, Rec
<1>7. /\ y.bytes = x.bytes + db /\ y.eliciting = x.eliciting + de
      /\ v.r.bytes = w.r.bytes + db /\ v.r.eliciting = w.r.eliciting + de
  BY <1>3, <1>5, <1>6
<1>8. /\ Bytes(y.sent, Pending(y.sent)) = Bytes(x.sent, Pending(x.sent)) + db
      /\ Eliciting(y.sent, Pending(y.sent)) = Eliciting(x.sent, Pending(x.sent)) + de
  <2>1. PICK q \in Queue, k \in Nat : q = x.sent /\ k = x.next /\ k \notin DOMAIN q
    BY <1>1, <1>4, Zenon
  <2>a. PICK p : p = y.sent /\ p = Push(q, k, NewPacket(k, kind, t))
    BY <1>3, <2>1, Zenon
  <2>2. /\ Bytes(q, Pending(q)) \in Nat /\ Eliciting(q, Pending(q)) \in Nat
        /\ kind.flight =>
             /\ Bytes(p, Pending(p)) = Bytes(q, Pending(q)) + kind.size
             /\ Eliciting(p, Pending(p)) = Eliciting(q, Pending(q)) + One(kind)
        /\ ~kind.flight =>
             /\ Bytes(p, Pending(p)) = Bytes(q, Pending(q))
             /\ Eliciting(p, Pending(p)) = Eliciting(q, Pending(q))
    BY <2>1, <2>a, SendCounts
  <2> QED
    BY <1>5, <2>1, <2>a, <2>2
<1>9. ExactSpace(y)
  BY <1>1, <1>7, <1>8, Zenon DEF Exact, ExactSpace
<1>10. \A z \in Spaces : ExactSpace(v.sp[z])
  BY <1>2, <1>3, <1>9, Zenon DEF Exact
<1>11. v.r.bytes = v.sp["Initial"].bytes + v.sp["Handshake"].bytes + v.sp["Data"].bytes
  <2>1. PICK f : f = [z \in Spaces |-> w.sp[z].bytes]
    BY Zenon
  <2>2. PICK g : g = [z \in Spaces |-> v.sp[z].bytes]
    BY Zenon
  <2>3. OverSpaces(g) = OverSpaces(f) + db
    <3>1. /\ \A z \in Spaces : f[z] \in Nat
          /\ g[s] = f[s] + db /\ \A z \in Spaces \ {s} : g[z] = f[z]
      BY <1>1, <1>2, <1>3, <1>6, <1>7, <2>1, <2>2, Zenon
    <3> QED
      BY <3>1, SumGrows, Zenon
  <2> QED
    BY <1>7, <2>1, <2>2, <2>3, Zenon DEF Exact, OverSpaces, Spaces
<1>12. v.r.eliciting =
         v.sp["Initial"].eliciting + v.sp["Handshake"].eliciting + v.sp["Data"].eliciting
  <2>1. PICK f : f = [z \in Spaces |-> w.sp[z].eliciting]
    BY Zenon
  <2>2. PICK g : g = [z \in Spaces |-> v.sp[z].eliciting]
    BY Zenon
  <2>3. OverSpaces(g) = OverSpaces(f) + de
    <3>1. /\ \A z \in Spaces : f[z] \in Nat
          /\ g[s] = f[s] + de /\ \A z \in Spaces \ {s} : g[z] = f[z]
      BY <1>1, <1>2, <1>3, <1>6, <1>7, <2>1, <2>2, Zenon
    <3> QED
      BY <3>1, SumGrows, Zenon
  <2> QED
    BY <1>7, <2>1, <2>2, <2>3, Zenon DEF Exact, OverSpaces, Spaces
<1> QED
  BY <1>10, <1>11, <1>12, Zenon DEF Exact

(* on_packet_sent keeps the packets, the counts and the timer.             *)
LEMMA OnPacketSentSound ==
  ASSUME NEW w, NEW s \in Spaces, NEW kind \in Kinds, NEW h, NEW t \in Nat,
         NEW R, NEW T, Sound(w, t, R, T), NEW a
  PROVE  LET v == OnPacketSent(w, s, kind, h, t) IN
         /\ Sound(v, t, R, T)
         /\ Exact(w) => Exact(v)
         /\ Covered(w, h, a) => Covered(v, h, a \/ kind.flight)
<1>1. w \in World /\ Kept(w.sp[s], R[s], T[s])
  BY Zenon DEF Sound
<1>2. w.sp[s].next \notin DOMAIN w.sp[s].sent
  BY <1>1, FreshNumber, Zenon
<1>3. PICK v \in World :
        /\ Sends(w, v, s, kind, t)
        /\ OnPacketSent(w, s, kind, h, t) = IF kind.flight THEN SetTimer(v, h, t) ELSE v
  BY <1>1, <1>2, SendFrame
<1>4. Sound(v, t, R, T)
  BY <1>3, SendsSound, Zenon
<1>5. Exact(w) => Exact(v)
  BY <1>1, <1>3, SendsExact, Zenon
<1>6. CASE kind.flight
  <2>1. Sound(SetTimer(v, h, t), t, R, T)
    BY <1>4, SetTimerSound, Zenon
  <2>2. Dated(v)
    BY <1>4, Zenon DEF Sound
  <2>3. (Exact(w) => Exact(SetTimer(v, h, t))) /\ \A b : Covered(SetTimer(v, h, t), h, b)
    BY <1>5, <2>2, SetTimerCovers, Zenon
  <2> QED
    BY <1>3, <1>6, <2>1, <2>3, Zenon
<1>7. CASE ~kind.flight
  <2>1. /\ \A z \in Spaces : v.sp[z].eliciting = w.sp[z].eliciting
        /\ v.r = w.r
    BY <1>3, <1>7, Zenon DEF Sends
  <2>2. Covered(w, h, a) => Covered(v, h, a \/ kind.flight)
    BY <1>7, <2>1, Zenon DEF Covered
  <2> QED
    BY <1>3, <1>4, <1>5, <1>7, <2>2, Zenon
<1> QED
  BY <1>6, <1>7, Zenon

-----------------------------------------------------------------------------
(* on_loss_detection_timeout and on_pkt_num_space_discarded                *)

(* The loss time branch of on_loss_detection_timeout keeps them.           *)
LEMMA LossTimeoutSound ==
  ASSUME NEW w, NEW h, NEW t \in Nat, NEW R, NEW T, Sound(w, t, R, T)
  PROVE  LET v == LossTimeout(w, h, t) IN
         /\ Sound(v, t, R, T)
         /\ (Exact(w) => Exact(v)) /\ \A a : Covered(v, h, a)
<1>1. w \in World /\ w.sp \in [Spaces -> Space]
  BY Zenon DEF Sound, World
<1>2. PICK s \in Spaces : s = LossTimeAndSpace(w.sp).space
  BY <1>1, LossTimeType, Zenon
<1>3. PICK b : b = DetectLost(w, s, t)
  BY Zenon
<1>4. PICK c : c = DrainSent(b, s, t)
  BY Zenon
<1>5. Sound(b, t, R, T) /\ (Exact(w) => Exact(b))
  BY <1>1, <1>3, DetectLostSound, DetectLostExact, Zenon
<1>6. b \in World
  BY <1>5, Zenon DEF Sound
<1>7. Sound(c, t, R, T) /\ (Exact(b) => Exact(c))
  BY <1>4, <1>5, <1>6, DrainSentSound, DrainSentExact, Zenon
<1>8. c \in World /\ Dated(c)
  BY <1>7, Zenon DEF Sound
<1>9. LossTimeout(w, h, t) = SetTimer(c, h, t)
  BY <1>2, <1>3, <1>4, Zenon DEF LossTimeout
<1>10. Sound(SetTimer(c, h, t), t, R, T)
  BY <1>7, SetTimerSound, Zenon
<1>11. (Exact(c) => Exact(SetTimer(c, h, t))) /\ \A a : Covered(SetTimer(c, h, t), h, a)
  BY <1>8, SetTimerCovers, Zenon
<1> QED
  BY <1>5, <1>7, <1>9, <1>10, <1>11, Zenon

(* A probe takes w to v: only frames still waited for are lost.            *)
Probes(w, v, s) ==
  LET x == w.sp[s]
      y == v.sp[s]
  IN /\ \A z \in Spaces \ {s} : v.sp[z] = w.sp[z]
     /\ v.r.bytes = w.r.bytes /\ v.r.eliciting = w.r.eliciting
     /\ y.next = x.next /\ y.largest = x.largest /\ y.acked = x.acked /\ y.sent = x.sent
     /\ y.last = x.last /\ y.bytes = x.bytes /\ y.eliciting = x.eliciting
     /\ \E F \in SUBSET Frames(x.sent, DOMAIN x.sent) : y.lost = x.lost \cup F

(* The space a probe timeout is for is one of the three.                   *)
LEMMA ProbeSpaceType ==
  ASSUME NEW w \in World, NEW h, NEW t \in Nat, Dated(w)
  PROVE  ProbeSpace(w, h, t) \in Spaces
<1>1. PtoTimeAndSpace(w.r, w.sp, h, t).space \in Spaces
  BY PtoTimeType, Zenon DEF Dated
<1> QED
  BY <1>1, Zenon DEF ProbeSpace, Spaces

(* All that a probe timeout changes before it sets the timer.              *)
LEMMA ProbeFrame ==
  ASSUME NEW w \in World, NEW h, NEW t \in Nat, Dated(w), w.r.pto_count < MaxPtoCount
  PROVE  \E v \in World, s \in Spaces :
           Probes(w, v, s) /\ ProbeTimeout(w, h, t) = SetTimer(v, h, t)
<1>1. PICK r \in Rec, sp \in [Spaces -> Space] : r = w.r /\ sp = w.sp /\ w = [r |-> r, sp |-> sp]
  BY Zenon DEF World
<1>2. PICK s \in Spaces : s = ProbeSpace(w, h, t)
  BY ProbeSpaceType, Zenon
<1>3. PICK x \in Space : x = sp[s] /\ x.sent \in Queue
  BY Zenon DEF Space
<1>4. PICK count \in 0..MaxPtoCount : count = r.pto_count + 1
  <2>1. MaxPtoCount \in Nat
    BY RecoveryAssumption, Zenon
  <2> QED
    BY <1>1, <2>1 DEF Rec
<1>5. PICK probes \in Nat : probes = IF s = "Data" THEN Min({count, MaxPtoProbes}) ELSE 1
  <2>1. count \in Nat /\ MaxPtoProbes \in Nat
    BY RecoveryAssumption DEF MaxPtoProbes
  <2>2. Min({count, MaxPtoProbes}) \in Nat
    BY <2>1, PairNat, Zenon
  <2> QED
    BY <2>2, Zenon
<1>7. PICK oldest : oldest = OldestData(x.sent, probes)
  BY Zenon
<1>8. oldest \in SUBSET DOMAIN x.sent
  BY <1>7, PendingIn, Zenon DEF OldestData
<1>9. PICK F \in SUBSET Frames(x.sent, DOMAIN x.sent) : F = Frames(x.sent, oldest)
  BY <1>8, Zenon DEF Frames
<1>10. F \in SUBSET Nat
  BY <1>3, <1>8, <1>9, FramesType, Zenon
<1>11. PICK y : y = [x EXCEPT !.probes = probes, !.lost = x.lost \cup F]
  BY Zenon
<1>12. x.lost \cup F \in SUBSET Nat
  BY <1>10, Zenon DEF Space
<1>13. /\ y \in Space /\ y.next = x.next /\ y.largest = x.largest /\ y.acked = x.acked
       /\ y.sent = x.sent /\ y.last = x.last /\ y.bytes = x.bytes
       /\ y.eliciting = x.eliciting /\ y.lost = x.lost \cup F
  BY <1>11, <1>12, Zenon DEF Space
<1>14. PICK k : k = [r EXCEPT !.pto_count = count]
  BY Zenon
<1>15. k \in Rec /\ k.bytes = r.bytes /\ k.eliciting = r.eliciting
  BY <1>14, Zenon DEF Rec
<1>16. PICK v : v = [r |-> k, sp |-> [sp EXCEPT ![s] = y]]
  BY Zenon
<1>17. /\ v \in World /\ v.sp[s] = y /\ v.r = k
       /\ \A z \in Spaces \ {s} : v.sp[z] = w.sp[z]
  BY <1>1, <1>13, <1>15, <1>16, Zenon DEF World
<1>18. ProbeTimeout(w, h, t) = SetTimer(v, h, t)
  <2>1. probes = IF s = "Data" THEN Min({w.r.pto_count + 1, MaxPtoProbes}) ELSE 1
    BY <1>1, <1>4, <1>5, Zenon
  <2>2. [w.r EXCEPT !.pto_count = @ + 1] = k
    BY <1>1, <1>4, <1>14, Zenon
  <2>3. y = [x EXCEPT !.probes = probes,
                      !.lost = @ \cup Frames(x.sent, OldestData(x.sent, probes))]
    BY <1>7, <1>9, <1>11, Zenon
  <2>4. v = [r |-> [w.r EXCEPT !.pto_count = @ + 1],
             sp |-> [w.sp EXCEPT ![s] = [w.sp[s] EXCEPT !.probes = probes,
               !.lost = @ \cup Frames(w.sp[s].sent, OldestData(w.sp[s].sent, probes))]]]
    BY <1>1, <1>3, <1>16, <2>2, <2>3
  <2> QED
    BY <1>2, <2>1, <2>4, Zenon DEF ProbeTimeout
<1>19. Probes(w, v, s)
  BY <1>1, <1>3, <1>13, <1>15, <1>17, Zenon DEF Probes
<1> QED
  BY <1>17, <1>18, <1>19, Zenon

(* A probe timeout keeps the packets and the counts: frames sent again     *)
(* stay with their packet too.                                             *)
LEMMA ProbesSound ==
  ASSUME NEW w, NEW v \in World, NEW s \in Spaces, NEW t, NEW R, NEW T,
         Sound(w, t, R, T), Probes(w, v, s)
  PROVE  Sound(v, t, R, T) /\ (Exact(w) => Exact(v))
<1>0. w \in World /\ Dated(w) /\ \A z \in Spaces : Kept(w.sp[z], R[z], T[z]) /\ Past(w.sp[z], t)
  BY Zenon DEF Sound
<1>1. PICK x \in Space : x = w.sp[s]
  BY <1>0, SpaceOf, Zenon
<1>2. PICK y \in Space : y = v.sp[s]
  BY SpaceOf, Zenon
<1>3. /\ \A z \in Spaces \ {s} : v.sp[z] = w.sp[z]
      /\ v.r.bytes = w.r.bytes /\ v.r.eliciting = w.r.eliciting
      /\ y.next = x.next /\ y.largest = x.largest /\ y.acked = x.acked /\ y.sent = x.sent
      /\ y.last = x.last /\ y.bytes = x.bytes /\ y.eliciting = x.eliciting
  BY <1>1, <1>2, Zenon DEF Probes
<1>4. PICK F \in SUBSET Frames(x.sent, DOMAIN x.sent) : y.lost = x.lost \cup F
  BY <1>1, <1>2, Zenon DEF Probes
<1>5. Kept(x, R[s], T[s]) /\ Past(x, t)
  BY <1>0, <1>1, Zenon
<1>6. Kept(y, R[s], T[s])
  <2>1. 0..(x.next - 1) = T[s] \cup y.lost \cup y.acked \cup Frames(y.sent, DOMAIN y.sent)
    <3>1. 0..(x.next - 1) = T[s] \cup x.lost \cup x.acked \cup Frames(x.sent, DOMAIN x.sent)
      BY <1>5, Zenon DEF Kept
    <3> QED
      BY <1>3, <1>4, <3>1, Zenon
  <2> QED
    BY <1>3, <1>5, <2>1 DEF Kept
<1>7. Past(y, t)
  BY <1>3, <1>5, Zenon DEF Past
<1>8. Dated(v)
  BY <1>0, <1>1, <1>2, <1>3, DatedStep
<1>9. Sound(v, t, R, T)
  BY <1>0, <1>2, <1>3, <1>6, <1>7, <1>8, Zenon DEF Sound
<1>10. Exact(w) => Exact(v)
  <2>1. /\ v.r.bytes = w.r.bytes /\ v.r.eliciting = w.r.eliciting
        /\ \A z \in Spaces : /\ v.sp[z].sent = w.sp[z].sent /\ v.sp[z].bytes = w.sp[z].bytes
                             /\ v.sp[z].eliciting = w.sp[z].eliciting
    BY <1>1, <1>2, <1>3, Zenon
  <2> QED
    BY <2>1 DEF Exact, ExactSpace, Spaces
<1> QED
  BY <1>9, <1>10, Zenon

(* on_loss_detection_timeout keeps the packets, the counts and the timer.  *)
LEMMA OnTimeoutSound ==
  ASSUME NEW w, NEW h, NEW t \in Nat, NEW R, NEW T, Sound(w, t, R, T),
         w.r.pto_count < MaxPtoCount
  PROVE  LET v == OnTimeout(w, h, t) IN
         /\ Sound(v, t, R, T)
         /\ (Exact(w) => Exact(v)) /\ \A a : Covered(v, h, a)
<1>1. CASE LossTimeAndSpace(w.sp).time # None
  <2>1. OnTimeout(w, h, t) = LossTimeout(w, h, t)
    BY <1>1, Zenon DEF OnTimeout
  <2> QED
    BY <2>1, LossTimeoutSound, Zenon
<1>2. CASE LossTimeAndSpace(w.sp).time = None
  <2>1. OnTimeout(w, h, t) = ProbeTimeout(w, h, t)
    BY <1>2, Zenon DEF OnTimeout
  <2>2. w \in World /\ Dated(w)
    BY Zenon DEF Sound
  <2>3. PICK v \in World, s \in Spaces :
          Probes(w, v, s) /\ ProbeTimeout(w, h, t) = SetTimer(v, h, t)
    BY <2>2, ProbeFrame, Zenon
  <2>4. Sound(v, t, R, T) /\ (Exact(w) => Exact(v))
    BY <2>3, ProbesSound, Zenon
  <2>5. Dated(v)
    BY <2>4, Zenon DEF Sound
  <2>6. Sound(SetTimer(v, h, t), t, R, T)
    BY <2>4, SetTimerSound, Zenon
  <2>7. (Exact(v) => Exact(SetTimer(v, h, t))) /\ \A a : Covered(SetTimer(v, h, t), h, a)
    BY <2>5, SetTimerCovers, Zenon
  <2> QED
    BY <2>1, <2>3, <2>4, <2>6, <2>7, Zenon
<1> QED
  BY <1>1, <1>2, Zenon

(* The queue of a new space is empty.                                      *)
LEMMA NewQueue ==
  ASSUME NEW q, q = [n \in {} |-> 0]
  PROVE  q \in Queue /\ DOMAIN q = {} /\ Pending(q) = {} /\ Frames(q, DOMAIN q) = {}
<1>1. DOMAIN q = {} /\ q \in [{} -> Packet]
  BY Zenon
<1>2. IsFiniteSet(DOMAIN q) /\ DOMAIN q \subseteq Nat
  BY <1>1, FS_EmptySet, Zenon
<1> QED
  BY <1>1, <1>2, QueueType, Zenon DEF Pending, Frames

(* A new space.                                                            *)
LEMMA SpaceNewType ==
  /\ SpaceNew \in Space /\ SpaceNew.sent \in Queue
  /\ DOMAIN SpaceNew.sent = {} /\ Pending(SpaceNew.sent) = {}
  /\ Frames(SpaceNew.sent, DOMAIN SpaceNew.sent) = {}
  /\ SpaceNew.next = 0 /\ SpaceNew.lost = {} /\ SpaceNew.acked = {} /\ SpaceNew.largest = None
  /\ SpaceNew.bytes = 0 /\ SpaceNew.eliciting = 0
<1>1. PICK q \in Queue : /\ q = [n \in {} |-> 0] /\ DOMAIN q = {} /\ Pending(q) = {}
                        /\ Frames(q, DOMAIN q) = {}
  BY NewQueue, Zenon
<1>2. SpaceNew =
  [next |-> 0, sent |-> q, lost |-> {}, acked |-> {}, last |-> None, loss_time |-> None,
   largest |-> None, probes |-> 0, bytes |-> 0, eliciting |-> 0, silent |-> 0]
  BY <1>1, Zenon DEF SpaceNew
<1>3. SpaceNew \in Space
  BY <1>2 DEF Space, None
<1> QED
  BY <1>1, <1>2, <1>3, Zenon

Cleared(x) == [SpaceNew EXCEPT !.next = x.next, !.largest = x.largest, !.silent = x.silent]

(* The space that is left when its keys are discarded.                     *)
LEMMA ClearedType ==
  ASSUME NEW x \in Space, NEW y, y = Cleared(x)
  PROVE  /\ y \in Space /\ y.next = x.next /\ y.largest = x.largest
         /\ y.sent = SpaceNew.sent /\ y.lost = {} /\ y.acked = {}
         /\ y.bytes = 0 /\ y.eliciting = 0
<1>1. PICK z \in Space : z = SpaceNew
  BY SpaceNewType, Zenon
<1>2. y = [z EXCEPT !.next = x.next, !.largest = x.largest, !.silent = x.silent]
  BY <1>1, Zenon DEF Cleared
<1>3. /\ y \in Space /\ y.next = x.next /\ y.largest = x.largest
      /\ y.sent = z.sent /\ y.lost = z.lost /\ y.acked = z.acked
      /\ y.bytes = z.bytes /\ y.eliciting = z.eliciting
  BY <1>2 DEF Space
<1> QED
  BY <1>1, <1>3, SpaceNewType, Zenon

(* All that on_pkt_num_space_discarded changes before it sets the timer.   *)
LEMMA DiscardFrame ==
  ASSUME NEW w \in World, NEW s \in Spaces, NEW h, NEW t
  PROVE  \E v \in World :
           /\ OnDiscarded(w, s, h, t) = SetTimer(v, h, t)
           /\ \A z \in Spaces \ {s} : v.sp[z] = w.sp[z]
           /\ v.sp[s] = Cleared(w.sp[s])
           /\ v.r.bytes = Sub(w.r.bytes, Bytes(w.sp[s].sent, Pending(w.sp[s].sent)))
           /\ v.r.eliciting = Sub(w.r.eliciting, Eliciting(w.sp[s].sent, Pending(w.sp[s].sent)))
<1>1. PICK r \in Rec, sp \in [Spaces -> Space] : r = w.r /\ sp = w.sp /\ w = [r |-> r, sp |-> sp]
  BY Zenon DEF World
<1>2. PICK x \in Space, q \in Queue : x = sp[s] /\ q = x.sent
  BY Zenon DEF Space
<1>3. PICK y \in Space : y = Cleared(x)
  BY ClearedType, Zenon
<1>4. PICK P \in SUBSET DOMAIN q : P = Pending(q)
  BY PendingIn, Zenon
<1>5. PICK k : k = LeaveFlight(r, q, P)
  BY Zenon
<1>6. /\ k \in Rec /\ k.bytes = Sub(r.bytes, Bytes(q, P))
      /\ k.eliciting = Sub(r.eliciting, Eliciting(q, P))
  BY <1>5, LeaveRec, Zenon
<1>7. PICK v : v = [r |-> k, sp |-> [sp EXCEPT ![s] = y]]
  BY Zenon
<1>8. OnDiscarded(w, s, h, t) = SetTimer(v, h, t)
  BY <1>1, <1>2, <1>3, <1>4, <1>5, <1>7 DEF OnDiscarded, Cleared
<1>9. /\ v \in World /\ v.sp[s] = y /\ v.r = k
      /\ \A z \in Spaces \ {s} : v.sp[z] = w.sp[z]
  BY <1>1, <1>6, <1>7, Zenon DEF World
<1> QED
  BY <1>1, <1>2, <1>3, <1>4, <1>6, <1>8, <1>9

(* Discarding a space keeps the packets of the others, the counts and the  *)
(* timer.                                                                  *)
LEMMA OnDiscardedSound ==
  ASSUME NEW w, NEW s \in Spaces, NEW h, NEW t \in Nat, NEW R, NEW T, Sound(w, t, R, T),
         NEW F, F[s] = 0..(w.sp[s].next - 1), \A z \in Spaces \ {s} : F[z] = T[z]
  PROVE  LET v == OnDiscarded(w, s, h, t) IN
         /\ Sound(v, t, R, F)
         /\ (Exact(w) => Exact(v)) /\ \A a : Covered(v, h, a)
<1>0. w \in World /\ Dated(w) /\ \A z \in Spaces : Kept(w.sp[z], R[z], T[z]) /\ Past(w.sp[z], t)
  BY Zenon DEF Sound
<1>1. PICK x \in Space, q \in Queue : x = w.sp[s] /\ q = x.sent
  BY <1>0, SpaceOf, Zenon
<1>2. PICK v \in World :
        /\ OnDiscarded(w, s, h, t) = SetTimer(v, h, t)
        /\ \A z \in Spaces \ {s} : v.sp[z] = w.sp[z]
        /\ v.sp[s] = Cleared(x)
        /\ v.r.bytes = Sub(w.r.bytes, Bytes(q, Pending(q)))
        /\ v.r.eliciting = Sub(w.r.eliciting, Eliciting(q, Pending(q)))
  BY <1>0, <1>1, DiscardFrame
<1>3. PICK y \in Space : /\ y = v.sp[s] /\ y.next = x.next /\ y.largest = x.largest
                        /\ y.sent = SpaceNew.sent /\ y.lost = {} /\ y.acked = {}
                        /\ y.bytes = 0 /\ y.eliciting = 0
  BY <1>2, ClearedType, Zenon
<1>4. y.sent \in Queue /\ DOMAIN y.sent = {} /\ Pending(y.sent) = {} /\ Frames(y.sent, DOMAIN y.sent) = {}
  BY <1>3, SpaceNewType, Zenon
<1>5. Kept(y, R[s], F[s])
  <2>1. Kept(x, R[s], T[s])
    BY <1>0, <1>1, Zenon
  <2>2. R[s] \subseteq 0..(x.next - 1) /\ x.largest \in R[s] \cup {None}
    BY <2>1, Zenon DEF Kept
  <2> QED
    BY <1>1, <1>3, <1>4, <2>2, Zenon DEF Kept
<1>6. Past(y, t)
  BY <1>4, Zenon DEF Past
<1>7. Dated(v)
  BY <1>0, <1>2, <1>3, Zenon DEF Dated
<1>8. Sound(v, t, R, F)
  BY <1>0, <1>2, <1>3, <1>5, <1>6, <1>7 DEF Sound
<1>9. ASSUME Exact(w) PROVE Exact(v)
  <2>1. PICK P \in SUBSET DOMAIN q : P = Pending(q)
    BY PendingIn, Zenon
  <2>2. Bytes(q, P) \in Nat /\ Eliciting(q, P) \in Nat
    BY CountsFinite, Zenon
  <2>3. x.bytes = Bytes(q, P) /\ x.eliciting = Eliciting(q, P)
    BY <1>1, <1>9, <2>1, Zenon DEF Exact, ExactSpace
  <2>4. y.bytes = Sub(x.bytes, Bytes(q, P)) /\ y.eliciting = Sub(x.eliciting, Eliciting(q, P))
    BY <1>3, <2>2, <2>3 DEF Sub
  <2>5. Leaves(w, v, s, P)
    BY <1>1, <1>2, <1>3, <1>4, <2>1, <2>4, Zenon DEF Leaves
  <2> QED
    BY <1>0, <1>9, <2>5, LeaveExact
<1>10. Sound(SetTimer(v, h, t), t, R, F)
  BY <1>8, SetTimerSound, Zenon
<1>11. (Exact(v) => Exact(SetTimer(v, h, t))) /\ \A a : Covered(SetTimer(v, h, t), h, a)
  BY <1>7, SetTimerCovers, Zenon
<1> QED
  BY <1>2, <1>9, <1>10, <1>11, Zenon

(* The connection takes the acknowledged frames: they are in its hands.    *)
LEMMA TakeAckedSound ==
  ASSUME NEW w, NEW s \in Spaces, NEW t, NEW R, NEW T, Sound(w, t, R, T),
         NEW F, F[s] = T[s] \cup w.sp[s].acked, \A z \in Spaces \ {s} : F[z] = T[z]
  PROVE  /\ Sound(TakeAcked(w, s), t, R, F)
         /\ Exact(w) => Exact(TakeAcked(w, s))
         /\ \A h, a : Covered(w, h, a) => Covered(TakeAcked(w, s), h, a)
<1>0. w \in World /\ Dated(w) /\ \A z \in Spaces : Kept(w.sp[z], R[z], T[z]) /\ Past(w.sp[z], t)
  BY Zenon DEF Sound
<1>1. PICK r \in Rec, sp \in [Spaces -> Space] : r = w.r /\ sp = w.sp /\ w = [r |-> r, sp |-> sp]
  BY <1>0, Zenon DEF World
<1>2. PICK x \in Space : x = sp[s]
  BY Zenon
<1>3. PICK y : y = [x EXCEPT !.acked = {}]
  BY Zenon
<1>4. /\ y \in Space /\ y.next = x.next /\ y.largest = x.largest /\ y.lost = x.lost
      /\ y.acked = {} /\ y.sent = x.sent /\ y.last = x.last /\ y.bytes = x.bytes
      /\ y.eliciting = x.eliciting
  BY <1>3, Zenon DEF Space
<1>5. PICK v : v = [r |-> r, sp |-> [sp EXCEPT ![s] = y]]
  BY Zenon
<1>6. v = TakeAcked(w, s)
  BY <1>1, <1>2, <1>3, <1>5, Zenon DEF TakeAcked
<1>7. /\ v \in World /\ v.sp[s] = y /\ v.r = w.r
      /\ \A z \in Spaces \ {s} : v.sp[z] = w.sp[z]
  BY <1>1, <1>4, <1>5, Zenon DEF World
<1>8. Kept(x, R[s], T[s]) /\ Past(x, t)
  BY <1>0, <1>1, <1>2, Zenon
<1>9. Kept(y, R[s], F[s])
  <2>1. 0..(x.next - 1) = F[s] \cup y.lost \cup y.acked \cup Frames(y.sent, DOMAIN y.sent)
    <3>1. 0..(x.next - 1) = T[s] \cup x.lost \cup x.acked \cup Frames(x.sent, DOMAIN x.sent)
      BY <1>8, Zenon DEF Kept
    <3> QED
      BY <1>1, <1>2, <1>4, <3>1, Zenon
  <2> QED
    BY <1>4, <1>8, <2>1 DEF Kept
<1>10. Past(y, t)
  BY <1>4, <1>8, Zenon DEF Past
<1>11. \A z \in Spaces : /\ v.sp[z].sent = w.sp[z].sent /\ v.sp[z].bytes = w.sp[z].bytes
                        /\ v.sp[z].eliciting = w.sp[z].eliciting /\ v.sp[z].last = w.sp[z].last
  BY <1>1, <1>2, <1>4, <1>7, Zenon
<1>12. Dated(v)
  BY <1>0, <1>11, Zenon DEF Dated
<1>13. Sound(v, t, R, F)
  BY <1>0, <1>7, <1>9, <1>10, <1>12, Zenon DEF Sound
<1>14. Exact(w) => Exact(v)
  BY <1>7, <1>11 DEF Exact, ExactSpace, Spaces
<1>15. \A h, a : Covered(w, h, a) => Covered(v, h, a)
  BY <1>7, <1>11, Zenon DEF Covered
<1> QED
  BY <1>6, <1>13, <1>14, <1>15, Zenon

-----------------------------------------------------------------------------
(* The invariant of the specification                                      *)

Status ==
  [stage : {"initial", "handshake", "completed", "confirmed"},
   initial : BOOLEAN, verified : BOOLEAN, server : BOOLEAN]

Inv ==
  /\ now \in Nat /\ scn \in Scenarios /\ hs \in Status
  /\ reached \in [Spaces -> SUBSET Nat] /\ taken \in [Spaces -> SUBSET Nat]
  /\ Sound(W, now, reached, taken)
  /\ (~late => Exact(W)) /\ Covered(W, hs, armed)

(* A state is the record of its two parts.                                 *)
LEMMA WorldIs ==
  ASSUME NEW w \in World
  PROVE  [r |-> w.r, sp |-> w.sp] = w
BY Zenon DEF World

(* What the timer has to cover depends on whether the handshake is         *)
(* completed.                                                              *)
LEMMA CoveredStage ==
  ASSUME NEW w, NEW h, NEW g, NEW a, Covered(w, h, a), Completed(g) = Completed(h)
  PROVE  Covered(w, g, a)
BY Zenon DEF Covered

(* An acknowledgment does not complete the handshake.                      *)
LEMMA VerifyStage ==
  ASSUME NEW h \in Status, NEW s
  PROVE  Verify(h, s) \in Status /\ Completed(Verify(h, s)) = Completed(h)
<1>1. PICK b \in BOOLEAN : b = (h.verified \/ s = "Handshake" \/ (s = "Data" /\ Completed(h)))
  BY Zenon
<1>2. Verify(h, s) = [h EXCEPT !.verified = b]
  BY <1>1, Zenon DEF Verify
<1>3. [h EXCEPT !.verified = b] \in Status /\ [h EXCEPT !.verified = b].stage = h.stage
  BY Zenon DEF Status
<1> QED
  BY <1>2, <1>3, Zenon DEF Completed

(* Dropping a space keeps the type of the handshake's status.              *)
LEMMA DroppedType ==
  ASSUME NEW h \in Status, NEW s
  PROVE  Dropped(h, s) \in Status
BY Zenon DEF Dropped, Status

(* An acknowledgment names numbers of packets that were sent, at least     *)
(* one.                                                                    *)
LEMMA RangeType ==
  ASSUME NEW n \in Nat, NEW pns \in AckRanges(n)
  PROVE  pns \in SUBSET (0..(n - 1)) /\ pns # {}
BY DEF AckRanges

(* Time passing keeps the packets.                                         *)
LEMMA LaterSound ==
  ASSUME NEW w, NEW t \in Nat, NEW u \in Nat, t <= u, NEW R, NEW T, Sound(w, t, R, T)
  PROVE  Sound(w, u, R, T)
<1>1. ASSUME NEW s \in Spaces
      PROVE  Past(w.sp[s], u)
  <2>1. PICK q \in Queue : q = w.sp[s].sent
    BY SpaceOf, Zenon DEF Sound
  <2>2. \A n \in DOMAIN q : q[n].time \in Nat /\ q[n].time <= t
    BY <2>1, KindType, Zenon DEF Packet, Sound, Past
  <2>3. \A n \in DOMAIN q : q[n].time <= u
    BY <2>2
  <2> QED
    BY <2>1, <2>3, Zenon DEF Past
<1> QED
  BY <1>1, Zenon DEF Sound

(* The parameters of a scenario.                                           *)
LEMMA ScenarioType ==
  ASSUME NEW x \in Scenarios
  PROVE  x.kinds \subseteq Kinds /\ x.delays \subseteq Nat
BY RecoveryAssumption, Zenon

(* The inductive invariant holds when the connection begins.               *)
LEMMA InitInv == Init => Inv
<1> SUFFICES ASSUME Init PROVE Inv
  BY Zenon
<1>1. /\ scn \in Scenarios /\ now = 0 /\ rec = RecNew
      /\ hs = [stage |-> "initial", initial |-> TRUE, verified |-> FALSE, server |-> scn.server]
      /\ spaces = [s \in Spaces |-> SpaceNew]
      /\ reached = [s \in Spaces |-> {}] /\ taken = [s \in Spaces |-> {}]
  BY Zenon DEF Init
<1>2. hs \in Status
  BY <1>1, RecoveryAssumption, Zenon DEF Status
<1>3. rec \in Rec /\ rec.bytes = 0 /\ rec.eliciting = 0
  <2>1. PICK u \in Rtt : u = RttNew(InitialRtt)
    BY RecoveryAssumption, RttNewType, Zenon
  <2>2. rec = [pto_count |-> 0, timer |-> None, bytes |-> 0, eliciting |-> 0, rtt |-> u]
    BY <1>1, <2>1, Zenon DEF RecNew
  <2>3. 0 \in 0..MaxPtoCount
    BY RecoveryAssumption
  <2> QED
    BY <2>2, <2>3 DEF Rec, None
<1>4. PICK x \in Space : x = SpaceNew
  BY SpaceNewType, Zenon
<1>5. /\ x.sent \in Queue /\ DOMAIN x.sent = {} /\ Pending(x.sent) = {}
      /\ Frames(x.sent, DOMAIN x.sent) = {}
      /\ x.next = 0 /\ x.lost = {} /\ x.acked = {} /\ x.largest = None
      /\ x.bytes = 0 /\ x.eliciting = 0
  BY <1>4, SpaceNewType, Zenon
<1>6. spaces \in [Spaces -> Space] /\ \A s \in Spaces : spaces[s] = x
  BY <1>1, <1>4, Zenon
<1>7. W \in World /\ W.r = rec /\ W.sp = spaces
  BY <1>3, <1>6, Zenon DEF W, World
<1>8. Kept(x, {}, {}) /\ Past(x, 0)
  <2>1. 0..(0 - 1) = {}
    OBVIOUS
  <2> QED
    BY <1>5, <2>1, Zenon DEF Kept, Past
<1>9. Dated(W)
  BY <1>5, <1>6, <1>7, Zenon DEF Dated
<1>10. Sound(W, now, reached, taken)
  BY <1>1, <1>6, <1>7, <1>8, <1>9 DEF Sound
<1>11. ExactSpace(x)
  BY <1>5, CountsEmpty, Zenon DEF ExactSpace
<1>12. Exact(W)
  BY <1>3, <1>5, <1>6, <1>7, <1>11 DEF Exact, Spaces
<1>13. Covered(W, hs, armed)
  BY <1>5, <1>6, <1>7, Zenon DEF Covered
<1> QED
  BY <1>1, <1>2, <1>10, <1>12, <1>13, Zenon DEF Inv

(* The world after Set(w).                                                 *)
LEMMA SetWorld ==
  ASSUME NEW w \in World, Set(w)
  PROVE  W' = w
BY WorldIs, Zenon DEF Set, W

(* What the inductive invariant says of the variables.                     *)
LEMMA InvFacts ==
  ASSUME Inv
  PROVE  /\ W \in World /\ W.r = rec /\ W.sp = spaces
         /\ \A s \in Spaces : /\ spaces[s] \in Space /\ spaces[s].next \in Nat
                              /\ spaces[s].lost \in SUBSET Nat
<1>1. W \in World /\ W.r = rec /\ W.sp = spaces
  BY Zenon DEF Inv, Sound, W
<1> QED
  BY <1>1, Zenon DEF World, Space

(* A packet sent keeps the inductive invariant.                            *)
LEMMA SendInv ==
  ASSUME Inv, NEW s \in Spaces, NEW kind \in scn.kinds, Send(s, kind)
  PROVE  Inv'
<1>1. now \in Nat /\ kind \in Kinds
  BY ScenarioType, Zenon DEF Inv
<1>2. PICK F : F = [q \in Spaces |-> taken[q] \cup spaces[q].lost]
  BY Zenon
<1>3. F \in [Spaces -> SUBSET Nat]
  BY <1>2, InvFacts, Zenon DEF Inv
<1>4. \A q \in Spaces : F[q] = taken[q] \cup W.sp[q].lost
  BY <1>2, InvFacts, Zenon
<1>5. PICK u : u = TakeLost(W)
  BY Zenon
<1>6. /\ Sound(u, now, reached, F)
      /\ (~late => Exact(u)) /\ Covered(u, hs, armed)
  BY <1>4, <1>5, TakeLostSound DEF Inv
<1>7. PICK v : v = OnPacketSent(u, s, kind, hs, now)
  BY Zenon
<1>8. /\ Sound(v, now, reached, F)
      /\ (~late => Exact(v)) /\ Covered(v, hs, armed \/ kind.flight)
  <2>0. Sound(u, now, reached, F)
    BY <1>6, Zenon
  <2>1. /\ Sound(v, now, reached, F)
        /\ Exact(u) => Exact(v)
        /\ Covered(u, hs, armed) => Covered(v, hs, armed \/ kind.flight)
    BY <1>1, <1>7, <2>0, OnPacketSentSound
  <2> QED
    BY <1>6, <2>1, Zenon
<1>9. W' = v
  <2>1. v \in World /\ Set(v)
    BY <1>5, <1>7, <1>8, Zenon DEF Send, Sound
  <2> QED
    BY <2>1, SetWorld, Zenon
<1>10. /\ scn' = scn /\ now' = now /\ hs' = hs /\ reached' = reached /\ late' = late
       /\ armed' = (armed \/ kind.flight) /\ taken' = F
  BY <1>2, Zenon DEF Send
<1> QED
  BY <1>3, <1>8, <1>9, <1>10, Zenon DEF Inv

(* An acknowledgment keeps it, late and repeated ones included.            *)
LEMMA AckInv ==
  ASSUME Inv, NEW s \in Spaces, NEW pns \in AckRanges(spaces[s].next), NEW delay \in scn.delays,
         Ack(s, pns, delay)
  PROVE  Inv'
<1>1. now \in Nat /\ delay \in Nat /\ hs \in Status
  BY ScenarioType, Zenon DEF Inv
<1>2. pns \in SUBSET (0..(W.sp[s].next - 1)) /\ pns # {} /\ pns \in SUBSET Nat
  <2>1. spaces[s].next \in Nat /\ W.sp[s] = spaces[s]
    BY InvFacts, Zenon
  <2>2. pns \in SUBSET (0..(spaces[s].next - 1)) /\ pns # {}
    BY <2>1, RangeType, Zenon
  <2> QED
    BY <2>1, <2>2
<1>3. PICK h \in Status : h = Verify(hs, s) /\ Completed(h) = Completed(hs)
  BY <1>1, VerifyStage, Zenon
<1>4. PICK Q : Q = [reached EXCEPT ![s] = @ \cup pns]
  BY Zenon
<1>5. /\ Q \in [Spaces -> SUBSET Nat] /\ Q[s] = reached[s] \cup pns
      /\ \A q \in Spaces \ {s} : Q[q] = reached[q]
  BY <1>2, <1>4, Zenon DEF Inv
<1>6. PICK v : v = OnAckReceived(W, s, pns, delay, h, now)
  BY Zenon
<1>7. Sound(W, now, reached, taken)
  BY Zenon DEF Inv
<1>8. Sound(v, now, Q, taken)
  BY <1>1, <1>2, <1>5, <1>6, <1>7, OnAckReceivedSound, Zenon
<1>9. PICK new : new = NewlyAcked(W.sp[s], pns) /\ new = NewlyAcked(spaces[s], pns)
  BY InvFacts, Zenon
<1>10. PICK b \in BOOLEAN : b = (\E n \in new : spaces[s].sent[n].lost # None
                                              /\ spaces[s].sent[n].kind.flight)
  BY Zenon
<1>11. PICK c \in BOOLEAN : c = (armed \/ new # {})
  BY Zenon
<1>12. (~late /\ ~b => Exact(v)) /\ Covered(v, h, c)
  <2>1. Covered(W, h, armed)
    BY <1>3, CoveredStage, Zenon DEF Inv
  <2>2. ~b => NoneLate(W.sp[s], pns)
    BY <1>9, <1>10, InvFacts, Zenon DEF NoneLate
  <2>3. /\ Exact(W) /\ NoneLate(W.sp[s], pns) => Exact(v)
        /\ \A f : (f => armed \/ new # {}) => Covered(v, h, f)
    BY <1>1, <1>2, <1>5, <1>6, <1>7, <1>9, <2>1, OnAckReceivedExact
  <2> QED
    BY <1>11, <2>2, <2>3, Zenon DEF Inv
<1>13. PICK F : F = [taken EXCEPT ![s] = @ \cup v.sp[s].acked]
  BY Zenon
<1>14. v \in World /\ v.sp[s].acked \in SUBSET Nat
  BY <1>8, SpaceOf, Zenon DEF Sound, Space
<1>15. /\ F \in [Spaces -> SUBSET Nat] /\ F[s] = taken[s] \cup v.sp[s].acked
       /\ \A q \in Spaces \ {s} : F[q] = taken[q]
  BY <1>13, <1>14, Zenon DEF Inv
<1>16. PICK u : u = TakeAcked(v, s)
  BY Zenon
<1>17. /\ Sound(u, now, Q, F) /\ (Exact(v) => Exact(u))
       /\ Covered(v, h, c) => Covered(u, h, c)
  BY <1>8, <1>15, <1>16, TakeAckedSound
<1>18. W' = u
  <2>1. u \in World /\ Set(u)
    BY <1>3, <1>6, <1>16, <1>17, Zenon DEF Ack, Sound
  <2> QED
    BY <2>1, SetWorld, Zenon
<1>19. scn' = scn /\ now' = now /\ hs' = h /\ reached' = Q /\ taken' = F
  BY <1>3, <1>4, <1>6, <1>13, Zenon DEF Ack
<1>20. late' = (late \/ b) /\ armed' = c
  BY <1>9, <1>10, <1>11, Zenon DEF Ack
<1>21. (~late' => Exact(u)) /\ Covered(u, h, armed')
  BY <1>12, <1>17, <1>20, Zenon
<1> QED
  BY <1>5, <1>15, <1>17, <1>18, <1>19, <1>21, Zenon DEF Inv

(* The loss detection timer going off keeps it.                            *)
LEMMA TimeoutInv ==
  ASSUME Inv, Timeout
  PROVE  Inv'
<1>1. now \in Nat /\ Sound(W, now, reached, taken) /\ W.r.pto_count < MaxPtoCount
  BY InvFacts, Zenon DEF Inv, Timeout
<1>2. PICK v : v = OnTimeout(W, hs, now)
  BY Zenon
<1>3. /\ Sound(v, now, reached, taken)
      /\ (Exact(W) => Exact(v)) /\ \A a : Covered(v, hs, a)
  BY <1>1, <1>2, OnTimeoutSound, Zenon
<1>4. W' = v
  <2>1. v \in World /\ Set(v)
    BY <1>2, <1>3, Zenon DEF Timeout, Sound
  <2> QED
    BY <2>1, SetWorld, Zenon
<1>5. /\ scn' = scn /\ now' = now /\ hs' = hs /\ reached' = reached /\ late' = late
      /\ taken' = taken
  BY Zenon DEF Timeout
<1>6. (~late' => Exact(v)) /\ Covered(v, hs, armed')
  BY <1>3, <1>5, Zenon DEF Inv
<1> QED
  BY <1>3, <1>4, <1>5, <1>6, Zenon DEF Inv

(* A discarded space keeps it.                                             *)
LEMMA DiscardInv ==
  ASSUME Inv, NEW s \in Spaces, Discard(s)
  PROVE  Inv'
<1>1. now \in Nat /\ Sound(W, now, reached, taken) /\ hs \in Status
  BY Zenon DEF Inv
<1>2. PICK h \in Status : h = Dropped(hs, s)
  BY <1>1, DroppedType, Zenon
<1>3. PICK F : F = [taken EXCEPT ![s] = 0..(spaces[s].next - 1)]
  BY Zenon
<1>4. /\ F \in [Spaces -> SUBSET Nat] /\ F[s] = 0..(W.sp[s].next - 1)
      /\ \A z \in Spaces \ {s} : F[z] = taken[z]
  <2>1. spaces[s].next \in Nat /\ W.sp = spaces
    BY InvFacts, Zenon
  <2>2. 0..(spaces[s].next - 1) \in SUBSET Nat
    BY <2>1
  <2> QED
    BY <1>3, <2>1, <2>2, Zenon DEF Inv
<1>5. PICK v : v = OnDiscarded(W, s, h, now)
  BY Zenon
<1>6. /\ Sound(v, now, reached, F)
      /\ (Exact(W) => Exact(v)) /\ \A a : Covered(v, h, a)
  BY <1>1, <1>4, <1>5, OnDiscardedSound, Zenon
<1>7. W' = v
  <2>1. v \in World /\ Set(v)
    BY <1>2, <1>5, <1>6, Zenon DEF Discard, Sound
  <2> QED
    BY <2>1, SetWorld, Zenon
<1>8. /\ scn' = scn /\ now' = now /\ hs' = h /\ reached' = reached /\ late' = late
      /\ taken' = F
  BY <1>2, <1>3, Zenon DEF Discard
<1>9. (~late' => Exact(v)) /\ Covered(v, h, armed')
  BY <1>6, <1>8, Zenon DEF Inv
<1> QED
  BY <1>4, <1>6, <1>7, <1>8, <1>9, Zenon DEF Inv

(* Time passing keeps it.                                                  *)
LEMMA ClockInv ==
  ASSUME Inv, Clock
  PROVE  Inv'
<1>1. /\ scn' = scn /\ hs' = hs /\ reached' = reached /\ late' = late /\ armed' = armed
      /\ taken' = taken /\ W' = W /\ now' = now + Tick
  BY Zenon DEF Clock, W
<1>2. now \in Nat /\ now + Tick \in Nat /\ now <= now + Tick
  BY RecoveryAssumption DEF Inv
<1>3. Sound(W, now + Tick, reached, taken)
  BY <1>2, LaterSound, Zenon DEF Inv
<1> QED
  BY <1>1, <1>2, <1>3, Zenon DEF Inv

(* Progress of the handshake keeps it.                                     *)
LEMMA HandshakeInv ==
  ASSUME Inv, Handshake
  PROVE  Inv'
<1>1. /\ scn' = scn /\ now' = now /\ reached' = reached /\ late' = late
      /\ taken' = taken /\ W' = W
  BY Zenon DEF Handshake, W
<1>2. hs' \in Status /\ hs.stage \in {"initial", "handshake"}
  BY Zenon DEF Inv, Handshake, Status
<1>3. CASE hs.stage = "initial"
  <2>1. ~Completed(hs) /\ ~Completed(hs')
    BY <1>3, Zenon DEF Handshake, Inv, Status, Completed
  <2>2. Covered(W, hs, armed) => Covered(W, hs', armed')
    BY <2>1, Zenon DEF Covered
  <2> QED
    BY <1>1, <1>2, <2>2, Zenon DEF Inv
<1>4. CASE hs.stage # "initial"
  <2>1. ~armed'
    BY <1>4, Zenon DEF Handshake
  <2>2. Covered(W, hs, armed) => Covered(W, hs', armed')
    BY <2>1, Zenon DEF Covered
  <2> QED
    BY <1>1, <1>2, <2>2, Zenon DEF Inv
<1> QED
  BY <1>3, <1>4, Zenon

(* The validation of the path keeps it.                                    *)
LEMMA PathValidatedInv ==
  ASSUME Inv, PathValidated
  PROVE  Inv'
<1>1. /\ scn' = scn /\ now' = now /\ hs' = hs /\ reached' = reached /\ late' = late
      /\ armed' = armed /\ taken' = taken /\ spaces' = spaces
      /\ rec' = [rec EXCEPT !.rtt = TrySetInitRtt(@, 2 * Tick)]
  BY Zenon DEF PathValidated
<1>2. W \in World /\ W.r = rec /\ W.sp = spaces
  BY InvFacts, Zenon
<1>3. rec \in Rec /\ spaces \in [Spaces -> Space]
  BY <1>2, Zenon DEF World
<1>4. PICK u \in Rtt : u = TrySetInitRtt(rec.rtt, 2 * Tick)
  <2>1. 2 * Tick \in Nat
    BY RecoveryAssumption
  <2>2. RttNew(2 * Tick) \in Rtt
    BY <2>1, RttNewType, Zenon
  <2> QED
    BY <1>3, <2>2, Zenon DEF TrySetInitRtt, Rec
<1>5. PICK k : k = [rec EXCEPT !.rtt = u]
  BY Zenon
<1>6. k = rec'
  BY <1>1, <1>4, <1>5, Zenon
<1>7. k \in Rec /\ k.bytes = rec.bytes /\ k.eliciting = rec.eliciting /\ k.timer = rec.timer
  BY <1>3, <1>5, Zenon DEF Rec
<1>a. PICK v : v = [r |-> k, sp |-> spaces]
  BY Zenon
<1>8. v \in World /\ v.r = k /\ v.sp = spaces
  BY <1>3, <1>7, <1>a, Zenon DEF World
<1>9. W' = v
  BY <1>1, <1>6, <1>a, Zenon DEF W
<1>10. Sound(v, now, reached, taken) /\ (Exact(W) => Exact(v))
  BY <1>2, <1>7, <1>8, SameSpaces, Zenon DEF Inv
<1>11. Covered(W, hs, armed) => Covered(v, hs, armed)
  BY <1>2, <1>7, <1>8, Zenon DEF Covered
<1> QED
  BY <1>1, <1>9, <1>10, <1>11, Zenon DEF Inv

(* Every step keeps the inductive invariant.                               *)
LEMMA NextInv == Inv /\ [Next]_vars => Inv'
<1> SUFFICES ASSUME Inv, [Next]_vars PROVE Inv'
  BY Zenon
<1>1. CASE UNCHANGED vars
  BY <1>1, Zenon DEF Inv, W, vars
<1>2. CASE Next
  <2>1. ASSUME NEW s \in Spaces, NEW kind \in scn.kinds, Send(s, kind) PROVE Inv'
    BY <2>1, SendInv, Zenon
  <2>2. ASSUME NEW s \in Spaces, NEW pns \in AckRanges(spaces[s].next), NEW delay \in scn.delays,
               Ack(s, pns, delay)
        PROVE  Inv'
    BY <2>2, AckInv, Zenon
  <2>3. ASSUME NEW s \in Spaces, Discard(s) PROVE Inv'
    BY <2>3, DiscardInv, Zenon
  <2> QED
    BY <1>2, <2>1, <2>2, <2>3, TimeoutInv, ClockInv, HandshakeInv, PathValidatedInv, Zenon DEF Next
<1> QED
  BY <1>1, <1>2, Zenon

(* The inductive invariant holds always.                                   *)
LEMMA InvInvariant == Spec => []Inv
BY InitInv, NextInv, PTL DEF Spec

-----------------------------------------------------------------------------
(* The properties                                                          *)

(* A packet is declared lost only because a later one of its space reached *)
(* the peer, and no frame of a packet is forgotten, however                *)
(* acknowledgments, losses, probes and discards follow each other.         *)
THEOREM RecoveryKeepsPackets == Spec => []PacketsKept
<1>1. Inv => PacketsKept
  <2> SUFFICES ASSUME Inv PROVE PacketsKept
    BY Zenon
  <2>1. \A s \in Spaces : Kept(spaces[s], reached[s], taken[s])
    BY InvFacts, Zenon DEF Inv, Sound
  <2>2. LossesJustified
    BY <2>1, Zenon DEF LossesJustified, Kept
  <2>3. FramesKept
    BY <2>1, Zenon DEF FramesKept, Kept
  <2> QED
    BY <2>2, <2>3, Zenon DEF PacketsKept
<1> QED
  BY <1>1, InvInvariant, PTL

(* Until a packet is acknowledged after it was declared lost, the bytes    *)
(* and ack-eliciting packets counted as in flight, for each space and for  *)
(* the path, are those of the packets still waited for.                    *)
THEOREM RecoveryCounts == Spec => []InFlightExactUnlessLate
<1>1. Inv => InFlightExactUnlessLate
  <2> SUFFICES ASSUME Inv, ~late PROVE InFlightExact
    BY Zenon DEF InFlightExactUnlessLate
  <2>1. Exact(W) /\ W.r = rec /\ W.sp = spaces
    BY InvFacts, Zenon DEF Inv
  <2>2. \A s \in Spaces : ExactSpace(spaces[s])
    BY <2>1, Zenon DEF Exact
  <2>3. PICK bytes : bytes = [s \in Spaces |-> Bytes(spaces[s].sent, Pending(spaces[s].sent))]
    BY Zenon
  <2>4. PICK eliciting :
          eliciting = [s \in Spaces |-> Eliciting(spaces[s].sent, Pending(spaces[s].sent))]
    BY Zenon
  <2>5. \A s \in Spaces : spaces[s].bytes = bytes[s] /\ spaces[s].eliciting = eliciting[s]
    BY <2>2, <2>3, <2>4, Zenon DEF ExactSpace
  <2>6. rec.bytes = OverSpaces(bytes) /\ rec.eliciting = OverSpaces(eliciting)
    BY <2>1, <2>5, Zenon DEF Exact, OverSpaces, Spaces
  <2> QED
    BY <2>3, <2>4, <2>5, <2>6, Zenon DEF InFlightExact
<1> QED
  BY <1>1, InvInvariant, PTL

(* While an ack-eliciting packet is in flight in a space that may be       *)
(* probed, the timer is set, unless late acknowledgments have counted the  *)
(* packets of the space or of the path down to zero: the invariant covers  *)
(* a space by its counts, which are exact until the first of them.         *)
THEOREM RecoveryTimer == Spec => []TimerArmed
<1>1. Inv => TimerArmed
  <2> SUFFICES ASSUME Inv, NEW s \in Spaces, NEW n \in InFlight(s),
                      spaces[s].sent[n].kind.eliciting, s = "Data" => Completed(hs) /\ armed,
                      ~(late /\ (spaces[s].eliciting = 0 \/ rec.eliciting = 0))
               PROVE  rec.timer # None
    BY Zenon DEF TimerArmed, CountedOut
  <2>1. Covered(W, hs, armed) /\ W.r = rec /\ W.sp = spaces /\ W \in World
    BY InvFacts, Zenon DEF Inv
  <2>2. spaces[s].eliciting # 0 /\ rec.eliciting # 0
    <3>1. CASE late
      BY <3>1, Zenon
    <3>2. CASE ~late
      <4>1. Exact(W)
        BY <3>2, Zenon DEF Inv
      <4>2. PICK q \in Queue : q = spaces[s].sent
        BY <2>1, SpaceOf, Zenon
      <4>3. PICK P \in SUBSET DOMAIN q : P = Pending(q)
        BY PendingIn, Zenon
      <4>4. n \in Elicits(q, P)
        BY <4>2, <4>3, Zenon DEF InFlight, Elicits
      <4>5. IsFiniteSet(Elicits(q, P)) /\ Eliciting(q, P) = Cardinality(Elicits(q, P))
        BY CountsFinite, Zenon
      <4>6. Eliciting(q, P) # 0
        BY <4>4, <4>5, FS_EmptySet, Zenon
      <4>7. spaces[s].eliciting # 0
        BY <2>1, <4>1, <4>2, <4>3, <4>6, Zenon DEF Exact, ExactSpace
      <4>8. \A z \in Spaces : spaces[z].eliciting \in Nat
        BY <2>1, SpaceOf, Zenon DEF Space
      <4>a. rec.eliciting = spaces["Initial"].eliciting + spaces["Handshake"].eliciting
                              + spaces["Data"].eliciting
        BY <2>1, <4>1, Zenon DEF Exact
      <4>9. rec.eliciting # 0
        BY <4>7, <4>8, <4>a DEF Spaces
      <4> QED
        BY <4>7, <4>9, Zenon
    <3> QED
      BY <3>1, <3>2, Zenon
  <2> QED
    BY <2>1, <2>2, Zenon DEF Covered
<1> QED
  BY <1>1, InvInvariant, PTL
=============================================================================
