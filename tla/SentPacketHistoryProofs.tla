----------------------- MODULE SentPacketHistoryProofs -----------------------
(***************************************************************************)
(* Proofs about SentPacketHistory, for any bound on the packet numbers and *)
(* any number of skipped packets remembered: the history never panics, its *)
(* count and its distances are exact, and it implements TrackedPackets.    *)
(*                                                                         *)
(* SliceInv places the slice among the packet numbers: it ends at the      *)
(* highest number and has a packet, not a hole, at its start.  CountInv    *)
(* and SkipInv relate the count and the skipped numbers to it.             *)
(***************************************************************************)
EXTENDS SentPacketHistory, FiniteSetTheorems, SequenceTheorems,
        WellFoundedInduction, TLAPS

Slots == Kinds \cup {Hole}

(* The packets of the slice p whose first number is f: Tracked, for any    *)
(* slice.                                                                  *)
Numbers(p, f) == {n \in Int : n - f + 1 \in 1..Len(p) /\ p[n - f + 1] # Hole}
TrackedOf(p, f) == [n \in Numbers(p, f) |-> p[n - f + 1]]

OutstandingNumbers == {n \in DOMAIN Tracked : Outstanding(Tracked[n])}

(* HistoryTypeOK without the path probes, which nothing below depends on.  *)
SliceTypes ==
  /\ packets \in Seq(Slots)
  /\ firstPacketNumber \in {Invalid} \cup (0..MaxPacketNumber)
  /\ highestPacketNumber \in {Invalid} \cup (0..MaxPacketNumber)
  /\ numOutstanding \in Nat
  /\ skippedPackets \in Seq(0..MaxPacketNumber)
  /\ Len(skippedPackets) <= MaxSkippedPackets
  /\ allSkipped \subseteq 0..MaxPacketNumber

SliceInv ==
  packets # <<>> =>
    /\ firstPacketNumber \in Nat
    /\ highestPacketNumber = firstPacketNumber + Len(packets) - 1
    /\ packets[1] # Hole

CountInv == numOutstanding = Cardinality(OutstandingNumbers)

SkipInv ==
  /\ Range(skippedPackets) \subseteq allSkipped
  /\ \A i, j \in 1..Len(skippedPackets) : i < j => skippedPackets[i] < skippedPackets[j]
  /\ \A n \in allSkipped : n <= highestPacketNumber /\ n \notin DOMAIN Tracked

IInv == SliceTypes /\ HistoryNoPanic /\ SliceInv /\ CountInv /\ SkipInv

-----------------------------------------------------------------------------
(* Slices *)

(* A non-empty set of positions has a least one.                           *)
LEMMA LeastPosition ==
  ASSUME NEW T, T \subseteq Nat, T # {}
  PROVE  \E x \in T : \A y \in T : x <= y
<1>1. IsWellFoundedOn(OpToRel(<, Nat), Nat)
  BY NatLessThanWellFounded
<1>2. PICK x \in T : \A y \in T : ~(<<y, x>> \in OpToRel(<, Nat))
  BY <1>1, WFMin
<1>3. \A y \in T : ~(y < x)
  BY <1>2 DEF OpToRel
<1> QED
  BY <1>3

(* cleanupStart finds the first packet of a slice that has one.            *)
LEMMA FirstLiveFound ==
  ASSUME NEW s \in Seq(Slots), \E i \in DOMAIN s : s[i] # Hole
  PROVE  /\ FirstLive(s) \in 1..Len(s) /\ s[FirstLive(s)] # Hole
         /\ \A j \in 1..(FirstLive(s) - 1) : s[j] = Hole
<1> DEFINE T == {i \in 1..Len(s) : s[i] # Hole}
<1>1. T \subseteq Nat /\ T # {}
  OBVIOUS
<1>2. PICK x \in T : \A y \in T : x <= y
  BY <1>1, LeastPosition
<1>3. x \in DOMAIN s /\ s[x] # Hole /\ \A j \in 1..(x - 1) : s[j] = Hole
  BY <1>2
<1> QED
  BY <1>3 DEF FirstLive

(* Tracked, spelled out for the next state too.                            *)
LEMMA TrackedExpression ==
  ASSUME NEW p \in Seq(Slots), NEW f \in Int
  PROVE  [n \in {f + i - 1 : i \in {j \in DOMAIN p : p[j] # Hole}} |-> p[n - f + 1]]
           = TrackedOf(p, f)
<1> DEFINE D == {f + i - 1 : i \in {j \in DOMAIN p : p[j] # Hole}}
<1>1. ASSUME NEW n \in Numbers(p, f) PROVE n \in D
  <2>1. n = f + (n - f + 1) - 1
    BY DEF Numbers
  <2> QED
    BY <2>1 DEF Numbers
<1>2. D \subseteq Numbers(p, f)
  BY DEF Numbers
<1>3. D = Numbers(p, f)
  BY <1>1, <1>2
<1> QED
  BY <1>3 DEF TrackedOf

(* A packet appended to the slice is tracked under the next number.        *)
LEMMA TrackedAppend ==
  ASSUME NEW p \in Seq(Slots), NEW f \in Int, NEW kind \in Kinds
  PROVE  TrackedOf(Append(p, kind), f) =
           [m \in DOMAIN TrackedOf(p, f) \cup {f + Len(p)} |->
              IF m = f + Len(p) THEN kind ELSE TrackedOf(p, f)[m]]
<1> DEFINE q == Append(p, kind)
<1>1. /\ Len(q) = Len(p) + 1 /\ q[Len(p) + 1] = kind /\ kind # Hole
      /\ \A i \in 1..Len(p) : q[i] = p[i]
  BY DEF Slots, Kinds, Hole
<1> HIDE DEF q
<1>2. Numbers(q, f) = Numbers(p, f) \cup {f + Len(p)}
  BY <1>1 DEF Numbers
<1>3. ASSUME NEW m \in Numbers(q, f)
      PROVE  q[m - f + 1] = IF m = f + Len(p) THEN kind ELSE p[m - f + 1]
  BY <1>1 DEF Numbers
<1> QED
  BY <1>2, <1>3 DEF q, TrackedOf

(* A skipped number leaves a hole and tracks nothing.                      *)
LEMMA TrackedSkip ==
  ASSUME NEW p \in Seq(Slots), NEW f \in Int
  PROVE  TrackedOf(Append(p, Hole), f) = TrackedOf(p, f)
<1> DEFINE q == Append(p, Hole)
<1>1. /\ Len(q) = Len(p) + 1 /\ q[Len(p) + 1] = Hole
      /\ \A i \in 1..Len(p) : q[i] = p[i]
  BY DEF Slots
<1> HIDE DEF q
<1>2. Numbers(q, f) = Numbers(p, f)
  BY <1>1 DEF Numbers
<1>3. \A m \in Numbers(q, f) : q[m - f + 1] = p[m - f + 1]
  BY <1>1 DEF Numbers
<1> QED
  BY <1>2, <1>3 DEF q, TrackedOf

(* A packet replaced by a hole is no longer tracked; the others are.       *)
LEMMA TrackedClear ==
  ASSUME NEW p \in Seq(Slots), NEW f \in Int, NEW i \in 1..Len(p)
  PROVE  TrackedOf([p EXCEPT ![i] = Hole], f) =
           [m \in DOMAIN TrackedOf(p, f) \ {f + i - 1} |-> TrackedOf(p, f)[m]]
<1> DEFINE q == [p EXCEPT ![i] = Hole]
<1>1. /\ Len(q) = Len(p)
      /\ \A j \in 1..Len(p) : q[j] = IF j = i THEN Hole ELSE p[j]
  BY DEF Slots
<1> HIDE DEF q
<1>2. \A m \in Int : m - f + 1 = i <=> m = f + i - 1
  OBVIOUS
<1>3. Numbers(q, f) = Numbers(p, f) \ {f + i - 1}
  BY <1>1, <1>2 DEF Numbers
<1>4. \A m \in Numbers(q, f) : q[m - f + 1] = p[m - f + 1]
  BY <1>1, <1>2 DEF Numbers
<1> QED
  BY <1>3, <1>4 DEF q, TrackedOf

(* What cleanupStart leaves of a slice tracks what the slice tracked.      *)
LEMMA TrackedCleanup ==
  ASSUME NEW s \in Seq(Slots), NEW f \in Int, NEW k \in 1..Len(s),
         \A j \in 1..(k - 1) : s[j] = Hole
  PROVE  /\ SubSeq(s, k, Len(s)) \in Seq(Slots)
         /\ Len(SubSeq(s, k, Len(s))) = Len(s) - k + 1
         /\ SubSeq(s, k, Len(s))[1] = s[k]
         /\ TrackedOf(SubSeq(s, k, Len(s)), f + k - 1) = TrackedOf(s, f)
<1> DEFINE q == SubSeq(s, k, Len(s))
<1>1. /\ q \in Seq(Slots) /\ Len(q) = Len(s) - k + 1
      /\ \A i \in 1..(Len(s) - k + 1) : q[i] = s[k + i - 1]
  BY SubSeqProperties
<1> HIDE DEF q
<1>2. ASSUME NEW n \in Int
      PROVE  /\ n \in Numbers(s, f) <=> n \in Numbers(q, f + k - 1)
             /\ n \in Numbers(q, f + k - 1) => q[n - (f + k - 1) + 1] = s[n - f + 1]
  <2>1. k + (n - (f + k - 1) + 1) - 1 = n - f + 1
    OBVIOUS
  <2>2. n - f + 1 \in 1..Len(s) /\ s[n - f + 1] # Hole => n - f + 1 >= k
    OBVIOUS
  <2>3. n - f + 1 \in k..Len(s) <=> n - (f + k - 1) + 1 \in 1..Len(q)
    BY <1>1
  <2>4. n - f + 1 \in k..Len(s) => q[n - (f + k - 1) + 1] = s[n - f + 1]
    BY <1>1, <2>1, <2>3
  <2> QED
    BY <2>2, <2>3, <2>4 DEF Numbers
<1>3. Numbers(s, f) = Numbers(q, f + k - 1)
  BY <1>2 DEF Numbers
<1>4. TrackedOf(s, f) = TrackedOf(q, f + k - 1)
  BY <1>2, <1>3 DEF TrackedOf, Numbers
<1> QED
  BY <1>1, <1>4 DEF q

(* A slice without packets tracks nothing.                                 *)
LEMMA TrackedNothing ==
  ASSUME NEW s \in Seq(Slots), NEW f \in Int, NEW g \in Int, \A i \in DOMAIN s : s[i] = Hole
  PROVE  TrackedOf(<<>>, g) = TrackedOf(s, f)
<1>1. Numbers(s, f) = {} /\ Numbers(<<>>, g) = {}
  BY DEF Numbers
<1> QED
  BY <1>1 DEF TrackedOf

(* An empty history tracks nothing.                                        *)
LEMMA TrackedEmpty ==
  ASSUME NEW f \in Int, NEW g \in Int
  PROVE  TrackedOf(<<>>, f) = TrackedOf(<<>>, g)
<1>1. Numbers(<<>>, f) = {} /\ Numbers(<<>>, g) = {}
  BY DEF Numbers
<1> QED
  BY <1>1 DEF TrackedOf

-----------------------------------------------------------------------------
(* Steps *)

(* The numbers of tracked packets and their places in the slice.           *)
LEMMA TrackedPlaces ==
  ASSUME SliceTypes, SliceInv, NEW n \in DOMAIN Tracked
  PROVE  /\ n \in Int /\ packets # <<>>
         /\ GetIndex(n) = n - firstPacketNumber + 1 /\ GetIndex(n) \in 1..Len(packets)
         /\ Tracked[n] = packets[GetIndex(n)] /\ packets[GetIndex(n)] \in Kinds
         /\ n <= highestPacketNumber
<1>0. packets \in Seq(Slots) /\ firstPacketNumber \in Int
  BY HistoryAssumption DEF SliceTypes, Invalid
<1>1. Tracked = TrackedOf(packets, firstPacketNumber)
  BY <1>0, TrackedExpression DEF Tracked
<1>2. /\ n \in Int /\ n - firstPacketNumber + 1 \in 1..Len(packets)
      /\ packets[n - firstPacketNumber + 1] # Hole
      /\ Tracked[n] = packets[n - firstPacketNumber + 1]
  BY <1>1 DEF TrackedOf, Numbers
<1>3. packets # <<>>
  BY <1>2
<1>4. GetIndex(n) = n - firstPacketNumber + 1
  BY <1>0, <1>2 DEF GetIndex
<1>5. packets[n - firstPacketNumber + 1] \in Slots
  BY <1>0, <1>2
<1>6. n <= highestPacketNumber
  BY <1>0, <1>2, <1>3 DEF SliceInv
<1> QED
  BY <1>2, <1>3, <1>4, <1>5, <1>6 DEF Slots

(* cleanupStart on the slice with new holes.                               *)
LEMMA CleanupKeeps ==
  ASSUME SliceTypes, SliceInv, packets # <<>>,
         NEW s \in Seq(Slots), Len(s) = Len(packets),
         CleanupStart(s), highestPacketNumber' = highestPacketNumber
  PROVE  /\ packets' \in Seq(Slots)
         /\ firstPacketNumber' \in {Invalid} \cup (0..MaxPacketNumber)
         /\ SliceInv'
         /\ packets' # <<>> => packets'[1] # Hole
         /\ TrackedOf(packets', firstPacketNumber') = TrackedOf(s, firstPacketNumber)
<1>1. /\ firstPacketNumber \in Nat /\ MaxPacketNumber \in Nat
      /\ highestPacketNumber = firstPacketNumber + Len(packets) - 1
      /\ highestPacketNumber <= MaxPacketNumber
  BY HistoryAssumption DEF SliceInv, SliceTypes, Invalid
<1>2. CASE \E i \in DOMAIN s : s[i] # Hole
  <2> DEFINE k == FirstLive(s)
  <2>1. k \in 1..Len(s) /\ s[k] # Hole /\ \A j \in 1..(k - 1) : s[j] = Hole
    BY <1>2, FirstLiveFound
  <2>2. packets' = SubSeq(s, k, Len(s)) /\ firstPacketNumber' = firstPacketNumber + k - 1
    BY <1>2 DEF CleanupStart
  <2> HIDE DEF k
  <2>3. /\ packets' \in Seq(Slots) /\ Len(packets') = Len(s) - k + 1 /\ packets'[1] = s[k]
        /\ TrackedOf(packets', firstPacketNumber') = TrackedOf(s, firstPacketNumber)
    <3>1. /\ SubSeq(s, k, Len(s)) \in Seq(Slots)
          /\ Len(SubSeq(s, k, Len(s))) = Len(s) - k + 1
          /\ SubSeq(s, k, Len(s))[1] = s[k]
          /\ TrackedOf(SubSeq(s, k, Len(s)), firstPacketNumber + k - 1)
               = TrackedOf(s, firstPacketNumber)
      <4>1. firstPacketNumber \in Int /\ k \in 1..Len(s)
        BY <1>1, <2>1
      <4>2. \A j \in 1..(k - 1) : s[j] = Hole
        BY <2>1
      <4> HIDE <1>1, <2>1
      <4> QED
        BY <4>1, <4>2, TrackedCleanup
    <3> QED
      BY <2>2, <3>1
  <2>4. firstPacketNumber' \in 0..MaxPacketNumber
    BY <1>1, <2>1, <2>2
  <2>5. highestPacketNumber' = firstPacketNumber' + Len(packets') - 1
    BY <1>1, <2>1, <2>2, <2>3
  <2> QED
    BY <2>1, <2>3, <2>4, <2>5 DEF SliceInv
<1>3. CASE ~\E i \in DOMAIN s : s[i] # Hole
  <2>1. packets' = <<>> /\ firstPacketNumber' = Invalid
    BY <1>3 DEF CleanupStart
  <2>2. TrackedOf(<<>>, Invalid) = TrackedOf(s, firstPacketNumber)
    BY <1>1, <1>3, TrackedNothing DEF Invalid
  <2> QED
    BY <2>1, <2>2 DEF SliceInv
<1> QED
  BY <1>2, <1>3

(* Remove and declareLost: the packet is forgotten, the rest stays.        *)
LEMMA LeaveForgets ==
  ASSUME SliceTypes, SliceInv, NEW n \in DOMAIN Tracked,
         RemovePacket(n) \/ DeclareLost(n)
  PROVE  /\ packets' \in Seq(Slots)
         /\ firstPacketNumber' \in {Invalid} \cup (0..MaxPacketNumber)
         /\ SliceInv'
         /\ packets' # <<>> => packets'[1] # Hole
         /\ Tracked' = [m \in DOMAIN Tracked \ {n} |-> Tracked[m]]
<1> DEFINE i == GetIndex(n)
           s == [packets EXCEPT ![i] = Hole]
<1>1. /\ n \in Int /\ packets # <<>> /\ i \in 1..Len(packets)
      /\ i = n - firstPacketNumber + 1
  BY TrackedPlaces
<1>2. packets \in Seq(Slots) /\ firstPacketNumber \in Int
  BY DEF SliceTypes, Invalid
<1>3. /\ s \in Seq(Slots) /\ Len(s) = Len(packets)
      /\ \A j \in 1..Len(packets) : s[j] = IF j = i THEN Hole ELSE packets[j]
  BY <1>1, <1>2 DEF Slots
<1>4. TrackedOf(s, firstPacketNumber) = [m \in DOMAIN Tracked \ {n} |-> Tracked[m]]
  <2>1. firstPacketNumber + i - 1 = n
    BY <1>1, <1>2
  <2>2. Tracked = TrackedOf(packets, firstPacketNumber)
    BY <1>2, TrackedExpression DEF Tracked
  <2> HIDE DEF i
  <2>3. TrackedOf([packets EXCEPT ![i] = Hole], firstPacketNumber) =
          [m \in DOMAIN TrackedOf(packets, firstPacketNumber) \ {firstPacketNumber + i - 1}
             |-> TrackedOf(packets, firstPacketNumber)[m]]
    BY <1>1, <1>2, TrackedClear
  <2> QED
    BY <2>1, <2>2, <2>3
<1>5. highestPacketNumber' = highestPacketNumber
  BY DEF RemovePacket, DeclareLost, Leave
<1>6. \/ CleanupStart(s)
      \/ packets' = s /\ firstPacketNumber' = firstPacketNumber /\ i # 1
  BY <1>1 DEF RemovePacket, DeclareLost
<1> HIDE DEF i, s
<1>7. /\ packets' \in Seq(Slots)
      /\ firstPacketNumber' \in {Invalid} \cup (0..MaxPacketNumber)
      /\ SliceInv'
      /\ packets' # <<>> => packets'[1] # Hole
      /\ TrackedOf(packets', firstPacketNumber') = TrackedOf(s, firstPacketNumber)
  <2>1. CASE CleanupStart(s)
    BY <1>1, <1>3, <1>5, <2>1, CleanupKeeps
  <2>2. CASE packets' = s /\ firstPacketNumber' = firstPacketNumber /\ i # 1
    BY <1>1, <1>3, <1>5, <2>2 DEF SliceInv, SliceTypes
  <2> QED
    BY <1>6, <2>1, <2>2
<1>8. Tracked' = TrackedOf(packets', firstPacketNumber')
  <2>1. firstPacketNumber' \in Int
    BY <1>7, HistoryAssumption DEF Invalid
  <2> QED
    BY <1>7, <2>1, TrackedExpression DEF Tracked
<1> QED
  BY <1>4, <1>7, <1>8

(* The next number lies behind everything the history knows, and using it  *)
(* is no reason to panic.                                                  *)
LEMMA NextNumberFresh ==
  ASSUME SliceTypes, SliceInv, SkipInv, NEW n \in NextNumbers, UseNumber(n)
  PROVE  /\ n \in 0..MaxPacketNumber /\ highestPacketNumber < n
         /\ n \notin DOMAIN Tracked /\ \A m \in allSkipped : m < n
         /\ ~panic' /\ highestPacketNumber' = n
         /\ packets # <<>> => n = firstPacketNumber + Len(packets)
         /\ firstPacketNumber' = IF packets = <<>> THEN n ELSE firstPacketNumber
<1>1. n \in 0..MaxPacketNumber /\ (highestPacketNumber = Invalid \/ n = highestPacketNumber + 1)
  BY DEF NextNumbers
<1>2. highestPacketNumber \in {Invalid} \cup (0..MaxPacketNumber) /\ Invalid = -1
      /\ MaxPacketNumber \in Nat
  BY HistoryAssumption DEF SliceTypes, Invalid
<1>3. highestPacketNumber < n
  BY <1>1, <1>2
<1>4. n \notin DOMAIN Tracked
  BY <1>1, <1>2, <1>3, TrackedPlaces
<1>5. \A m \in allSkipped : m < n
  BY <1>1, <1>2, <1>3 DEF SkipInv, SliceTypes
<1>6. packets # <<>> => n = firstPacketNumber + Len(packets)
  BY <1>1, <1>2 DEF SliceInv, SliceTypes
<1> QED
  BY <1>1, <1>3, <1>4, <1>5, <1>6 DEF UseNumber

(* SentPacket and SentPathProbePacket: the packet enters the map.          *)
LEMMA AppendTracks ==
  ASSUME SliceTypes, SliceInv, SkipInv, NEW n \in NextNumbers, NEW kind \in Kinds,
         UseNumber(n), packets' = Append(packets, kind)
  PROVE  /\ packets' \in Seq(Slots) /\ firstPacketNumber' \in 0..MaxPacketNumber
         /\ SliceInv'
         /\ Tracked' = [m \in DOMAIN Tracked \cup {n} |-> IF m = n THEN kind ELSE Tracked[m]]
<1> DEFINE f == IF packets = <<>> THEN n ELSE firstPacketNumber
<1>1. /\ n \in 0..MaxPacketNumber /\ highestPacketNumber' = n /\ MaxPacketNumber \in Nat
      /\ packets # <<>> => n = firstPacketNumber + Len(packets)
      /\ firstPacketNumber' = f
  BY NextNumberFresh, HistoryAssumption
<1>2. packets \in Seq(Slots) /\ firstPacketNumber \in Int
  BY HistoryAssumption DEF SliceTypes, Invalid
<1>3. f \in 0..MaxPacketNumber /\ n = f + Len(packets)
  BY <1>1, <1>2 DEF SliceInv, SliceTypes, Invalid
<1>4. Tracked = TrackedOf(packets, f)
  <2>1. Tracked = TrackedOf(packets, firstPacketNumber)
    BY <1>2, TrackedExpression DEF Tracked
  <2>2. CASE packets = <<>>
    <3>1. n \in Int /\ firstPacketNumber \in Int
      BY <1>1, <1>2
    <3>2. TrackedOf(<<>>, n) = TrackedOf(<<>>, firstPacketNumber)
      BY <3>1, TrackedEmpty
    <3> QED
      BY <2>1, <2>2, <3>2
  <2> QED
    BY <2>1, <2>2
<1> HIDE DEF f
<1>5. TrackedOf(Append(packets, kind), f) =
        [m \in DOMAIN Tracked \cup {n} |-> IF m = n THEN kind ELSE Tracked[m]]
  <2>1. f \in Int
    BY <1>1, <1>3
  <2>2. TrackedOf(Append(packets, kind), f) =
          [m \in DOMAIN TrackedOf(packets, f) \cup {f + Len(packets)} |->
             IF m = f + Len(packets) THEN kind ELSE TrackedOf(packets, f)[m]]
    BY <1>2, <2>1, TrackedAppend
  <2> QED
    BY <1>3, <1>4, <2>2
<1>6. /\ packets' \in Seq(Slots) /\ Len(packets') = Len(packets) + 1
      /\ packets'[1] = IF packets = <<>> THEN kind ELSE packets[1]
      /\ kind # Hole
  BY <1>2 DEF Slots, Kinds, Hole
<1>7. Tracked' = TrackedOf(packets', firstPacketNumber')
  <2>1. packets' \in Seq(Slots) /\ firstPacketNumber' \in Int
    BY <1>1, <1>3, <1>6
  <2> QED
    BY <2>1, TrackedExpression DEF Tracked
<1>8. SliceInv'
  BY <1>1, <1>2, <1>3, <1>6 DEF SliceInv
<1> QED
  BY <1>1, <1>3, <1>5, <1>6, <1>7, <1>8

(* SkippedPacket: a hole, or nothing in an empty slice.                    *)
LEMMA SkipTracks ==
  ASSUME SliceTypes, SliceInv, SkipInv, NEW n \in NextNumbers, UseNumber(n),
         packets' = IF packets = <<>> THEN packets ELSE Append(packets, Hole)
  PROVE  /\ packets' \in Seq(Slots) /\ firstPacketNumber' \in 0..MaxPacketNumber
         /\ SliceInv'
         /\ Tracked' = Tracked
<1>1. /\ n \in 0..MaxPacketNumber /\ highestPacketNumber' = n /\ MaxPacketNumber \in Nat
      /\ packets # <<>> => n = firstPacketNumber + Len(packets)
      /\ firstPacketNumber' = IF packets = <<>> THEN n ELSE firstPacketNumber
  BY NextNumberFresh, HistoryAssumption
<1>2. packets \in Seq(Slots) /\ firstPacketNumber \in Int
  BY HistoryAssumption DEF SliceTypes, Invalid
<1>3. Tracked = TrackedOf(packets, firstPacketNumber)
  BY <1>2, TrackedExpression DEF Tracked
<1>4. CASE packets = <<>>
  <2>1. n \in Int /\ packets' = <<>> /\ firstPacketNumber' = n /\ <<>> \in Seq(Slots)
    BY <1>1, <1>4
  <2>2. TrackedOf(<<>>, n) = TrackedOf(<<>>, firstPacketNumber)
    BY <1>2, <2>1, TrackedEmpty
  <2>3. Tracked' = TrackedOf(packets', firstPacketNumber')
    <3>1. packets' \in Seq(Slots) /\ firstPacketNumber' \in Int
      BY <2>1
    <3> QED
      BY <3>1, TrackedExpression DEF Tracked
  <2> QED
    BY <1>1, <1>2, <1>3, <1>4, <2>1, <2>2, <2>3 DEF SliceInv
<1>5. CASE packets # <<>>
  <2>1. /\ packets' \in Seq(Slots) /\ Len(packets') = Len(packets) + 1
        /\ packets'[1] = packets[1] /\ packets' = Append(packets, Hole)
    BY <1>2, <1>5 DEF Slots
  <2>2. firstPacketNumber' = firstPacketNumber /\ firstPacketNumber \in 0..MaxPacketNumber
    BY <1>1, <1>5 DEF SliceInv, SliceTypes, Invalid
  <2>3. Tracked' = TrackedOf(packets', firstPacketNumber')
    <3>1. packets' \in Seq(Slots) /\ firstPacketNumber' \in Int
      BY <1>1, <2>1, <2>2
    <3> QED
      BY <3>1, TrackedExpression DEF Tracked
  <2>4. Tracked' = Tracked
    <3>1. TrackedOf(Append(packets, Hole), firstPacketNumber)
            = TrackedOf(packets, firstPacketNumber)
      BY <1>2, TrackedSkip
    <3> QED
      BY <1>3, <2>1, <2>2, <2>3, <3>1
  <2>5. SliceInv'
    BY <1>1, <1>2, <1>5, <2>1, <2>2 DEF SliceInv
  <2> QED
    BY <2>1, <2>2, <2>4, <2>5
<1> QED
  BY <1>4, <1>5

-----------------------------------------------------------------------------
(* The invariant *)

(* The outstanding packets are finitely many.                              *)
LEMMA OutstandingFinite ==
  ASSUME SliceTypes, SliceInv
  PROVE  IsFiniteSet(OutstandingNumbers)
<1>1. firstPacketNumber \in Int /\ highestPacketNumber \in Int
  BY HistoryAssumption DEF SliceTypes, Invalid
<1>2. OutstandingNumbers \subseteq firstPacketNumber..highestPacketNumber
  BY <1>1, TrackedPlaces DEF OutstandingNumbers
<1> QED
  BY <1>1, <1>2, FS_Interval, FS_Subset

(* A new history satisfies the invariant.                                  *)
LEMMA InitIInv == HistoryInit => IInv
<1> SUFFICES ASSUME HistoryInit PROVE IInv
  OBVIOUS
<1>1. SliceTypes
  BY HistoryAssumption DEF HistoryInit, SliceTypes
<1>2. HistoryNoPanic /\ SliceInv
  BY DEF HistoryInit, HistoryNoPanic, SliceInv
<1>3. OutstandingNumbers = {}
  BY DEF HistoryInit, OutstandingNumbers, Tracked
<1>4. CountInv
  BY <1>3, FS_EmptySet DEF HistoryInit, CountInv
<1>5. SkipInv
  BY DEF HistoryInit, SkipInv, Range
<1> QED
  BY <1>1, <1>2, <1>4, <1>5 DEF IInv

(* Sending a packet of any kind.                                           *)
LEMMA SendIInv ==
  ASSUME IInv, NEW n \in NextNumbers, NEW kind \in Kinds,
         UseNumber(n), packets' = Append(packets, kind),
         numOutstanding' = numOutstanding + (IF Outstanding(kind) THEN 1 ELSE 0),
         UNCHANGED <<skippedPackets, allSkipped>>
  PROVE  IInv'
<1> USE DEF IInv
<1>1. /\ n \in 0..MaxPacketNumber /\ highestPacketNumber < n /\ n \notin DOMAIN Tracked
      /\ \A m \in allSkipped : m < n
      /\ ~panic' /\ highestPacketNumber' = n
  BY NextNumberFresh
<1>2. /\ packets' \in Seq(Slots) /\ firstPacketNumber' \in 0..MaxPacketNumber /\ SliceInv'
      /\ Tracked' = [m \in DOMAIN Tracked \cup {n} |-> IF m = n THEN kind ELSE Tracked[m]]
  BY AppendTracks
<1>3. IsFiniteSet(OutstandingNumbers)
  BY OutstandingFinite
<1>4. OutstandingNumbers' =
        IF Outstanding(kind) THEN OutstandingNumbers \cup {n} ELSE OutstandingNumbers
  BY <1>1, <1>2 DEF OutstandingNumbers
<1>5. n \notin OutstandingNumbers
  BY <1>1 DEF OutstandingNumbers
<1>6. CountInv'
  <2>1. /\ numOutstanding = Cardinality(OutstandingNumbers) /\ numOutstanding \in Nat
        /\ Cardinality(OutstandingNumbers \cup {n}) = Cardinality(OutstandingNumbers) + 1
    BY <1>3, <1>5, FS_AddElement DEF CountInv, SliceTypes
  <2>2. CASE Outstanding(kind)
    BY <1>4, <2>1, <2>2 DEF CountInv
  <2>3. CASE ~Outstanding(kind)
    BY <1>4, <2>1, <2>3 DEF CountInv
  <2> QED
    BY <2>2, <2>3
<1>7. SkipInv'
  <2>1. \A m \in allSkipped : m <= n /\ m \notin DOMAIN Tracked'
    BY <1>1, <1>2, HistoryAssumption DEF SkipInv, SliceTypes
  <2> QED
    BY <1>1, <2>1 DEF SkipInv, Range
<1>8. SliceTypes'
  BY <1>1, <1>2 DEF SliceTypes
<1> QED
  BY <1>1, <1>2, <1>6, <1>7, <1>8 DEF HistoryNoPanic

(* A number joins the skipped ones: they stay ordered, and the oldest goes *)
(* when there are too many.                                                *)
LEMMA SkippedOrdered ==
  ASSUME NEW s \in Seq(Nat), NEW n \in Nat, NEW A,
         \A i \in 1..Len(s) : s[i] \in A /\ s[i] < n,
         \A i, j \in 1..Len(s) : i < j => s[i] < s[j],
         Len(s) <= MaxSkippedPackets,
         NEW t, t = Append(IF Len(s) = MaxSkippedPackets THEN Tail(s) ELSE s, n)
  PROVE  /\ t \in Seq(A \cup {n}) /\ Len(t) <= MaxSkippedPackets
         /\ \A i, j \in 1..Len(t) : i < j => t[i] < t[j]
<1>1. s \in Seq(A \cup {n})
  <2>1. \A i \in 1..Len(s) : s[i] \in A \cup {n}
    OBVIOUS
  <2> QED
    BY <2>1
<1>2. CASE Len(s) = MaxSkippedPackets
  <2>1. s # <<>>
    BY <1>2, HistoryAssumption
  <2>2. /\ Tail(s) \in Seq(A \cup {n}) /\ Len(Tail(s)) = Len(s) - 1
        /\ \A i \in 1..Len(Tail(s)) : Tail(s)[i] = s[i + 1]
    BY <1>1, <2>1, HeadTailProperties
  <2>3. /\ t \in Seq(A \cup {n}) /\ Len(t) = Len(s)
        /\ \A i \in 1..(Len(s) - 1) : t[i] = s[i + 1]
        /\ t[Len(s)] = n
    BY <1>2, <2>2, AppendProperties
  <2> QED
    BY <1>2, <2>3
<1>3. CASE Len(s) # MaxSkippedPackets
  <2>1. /\ t \in Seq(A \cup {n}) /\ Len(t) = Len(s) + 1
        /\ \A i \in 1..Len(s) : t[i] = s[i]
        /\ t[Len(s) + 1] = n
    BY <1>1, <1>3, AppendProperties
  <2> QED
    BY <1>3, <2>1, HistoryAssumption
<1> QED
  BY <1>2, <1>3

(* SkippedPacket keeps the invariant.                                      *)
LEMMA SkipIInv ==
  ASSUME IInv, NEW n \in NextNumbers, SkippedPacket(n)
  PROVE  IInv'
<1> USE DEF IInv
<1>0. UseNumber(n)
  BY DEF SkippedPacket
<1>1. /\ n \in 0..MaxPacketNumber /\ highestPacketNumber < n /\ n \notin DOMAIN Tracked
      /\ \A m \in allSkipped : m < n
      /\ ~panic' /\ highestPacketNumber' = n
  BY <1>0, NextNumberFresh
<1>2. /\ packets' \in Seq(Slots) /\ firstPacketNumber' \in 0..MaxPacketNumber /\ SliceInv'
      /\ Tracked' = Tracked
  BY <1>0, SkipTracks DEF SkippedPacket
<1>3. CountInv'
  BY <1>2 DEF CountInv, OutstandingNumbers, SkippedPacket
<1>4. /\ skippedPackets' \in Seq(allSkipped \cup {n})
      /\ Len(skippedPackets') <= MaxSkippedPackets
      /\ \A i, j \in 1..Len(skippedPackets') :
           i < j => skippedPackets'[i] < skippedPackets'[j]
  <2>1. skippedPackets \in Seq(Nat) /\ n \in Nat /\ Len(skippedPackets) <= MaxSkippedPackets
    BY <1>1, HistoryAssumption DEF SliceTypes
  <2>2. \A i \in 1..Len(skippedPackets) : skippedPackets[i] \in allSkipped /\ skippedPackets[i] < n
    BY <1>1, <2>1 DEF SkipInv, Range
  <2>3. \A i, j \in 1..Len(skippedPackets) : i < j => skippedPackets[i] < skippedPackets[j]
    BY DEF SkipInv
  <2>4. skippedPackets' = Append(IF Len(skippedPackets) = MaxSkippedPackets
                                 THEN Tail(skippedPackets) ELSE skippedPackets, n)
    BY DEF SkippedPacket
  <2> QED
    BY <2>1, <2>2, <2>3, <2>4, SkippedOrdered
<1>5. allSkipped' = allSkipped \cup {n} /\ allSkipped' \subseteq 0..MaxPacketNumber
  BY <1>1 DEF SkippedPacket, SliceTypes
<1>6. SkipInv'
  <2>1. Range(skippedPackets') \subseteq allSkipped'
    BY <1>4, <1>5 DEF Range
  <2>2. \A m \in allSkipped' : m <= n /\ m \notin DOMAIN Tracked'
    BY <1>1, <1>2, <1>5 DEF SkipInv, SliceTypes
  <2> QED
    BY <1>1, <1>4, <2>1, <2>2 DEF SkipInv
<1>7. SliceTypes'
  <2>1. skippedPackets' \in Seq(0..MaxPacketNumber)
    BY <1>4, <1>5, SeqMonotonic
  <2> QED
    BY <1>1, <1>2, <1>4, <1>5, <2>1 DEF SliceTypes, SkippedPacket
<1> QED
  BY <1>1, <1>2, <1>3, <1>6, <1>7 DEF HistoryNoPanic

(* A packet leaves: the count goes down with it and stays natural.         *)
LEMMA LeaveIInv ==
  ASSUME IInv, NEW n \in DOMAIN Tracked, RemovePacket(n) \/ DeclareLost(n)
  PROVE  IInv'
<1> USE DEF IInv
<1> DEFINE i == GetIndex(n)
<1>1. n \in Int /\ Tracked[n] = packets[i]
  BY TrackedPlaces
<1>2. /\ packets' \in Seq(Slots) /\ firstPacketNumber' \in {Invalid} \cup (0..MaxPacketNumber)
      /\ SliceInv' /\ (packets' # <<>> => packets'[1] # Hole)
      /\ Tracked' = [m \in DOMAIN Tracked \ {n} |-> Tracked[m]]
  BY LeaveForgets
<1>3. /\ numOutstanding' = numOutstanding - (IF Outstanding(packets[i]) THEN 1 ELSE 0)
      /\ UNCHANGED <<highestPacketNumber, skippedPackets, pathProbePackets, allSkipped>>
      /\ panic' => numOutstanding' < 0 \/ (packets' # <<>> /\ packets'[1] = Hole)
  BY DEF RemovePacket, DeclareLost, Leave
<1> HIDE DEF i
<1>4. IsFiniteSet(OutstandingNumbers)
  BY OutstandingFinite
<1>5. OutstandingNumbers' = OutstandingNumbers \ {n}
  BY <1>2 DEF OutstandingNumbers
<1>6. n \in OutstandingNumbers <=> Outstanding(packets[i])
  BY <1>1 DEF OutstandingNumbers
<1>7. /\ Cardinality(OutstandingNumbers') = numOutstanding' /\ numOutstanding' \in Nat
  <2>1. IsFiniteSet(OutstandingNumbers \ {n})
        /\ Cardinality(OutstandingNumbers \ {n}) =
             IF n \in OutstandingNumbers THEN Cardinality(OutstandingNumbers) - 1
                                         ELSE Cardinality(OutstandingNumbers)
    BY <1>4, FS_RemoveElement
  <2>2. Cardinality(OutstandingNumbers \ {n}) \in Nat
    BY <2>1, FS_CardinalityType
  <2>3. numOutstanding = Cardinality(OutstandingNumbers) /\ numOutstanding \in Nat
    BY DEF CountInv, SliceTypes
  <2>4. numOutstanding' = Cardinality(OutstandingNumbers \ {n})
    BY <1>3, <1>6, <2>1, <2>3
  <2> QED
    BY <1>5, <2>2, <2>4
<1>8. ~panic'
  BY <1>2, <1>3, <1>7
<1>9. SkipInv'
  BY <1>2, <1>3 DEF SkipInv
<1>10. SliceTypes'
  BY <1>2, <1>3, <1>7 DEF SliceTypes
<1> QED
  BY <1>2, <1>7, <1>8, <1>9, <1>10 DEF HistoryNoPanic, CountInv

(* Every operation keeps the invariant.                                    *)
LEMMA NextIInv == IInv /\ [HistoryNext]_historyVars => IInv'
<1> SUFFICES ASSUME IInv, [HistoryNext]_historyVars PROVE IInv'
  OBVIOUS
<1>1. ASSUME NEW n \in NextNumbers, SkippedPacket(n) PROVE IInv'
  BY <1>1, SkipIInv
<1>2. ASSUME NEW n \in NextNumbers, SentPathProbePacket(n) PROVE IInv'
  <2>1. "pathProbe" \in Kinds /\ ~Outstanding("pathProbe")
    BY DEF Kinds, Outstanding
  <2>2. numOutstanding' = numOutstanding + (IF Outstanding("pathProbe") THEN 1 ELSE 0)
    BY <1>2, <2>1 DEF SentPathProbePacket, IInv, SliceTypes
  <2> QED
    BY <1>2, <2>1, <2>2, SendIInv DEF SentPathProbePacket
<1>3. ASSUME NEW n \in NextNumbers, NEW kind \in Kinds \ {"pathProbe"}, SentPacket(n, kind)
      PROVE  IInv'
  BY <1>3, SendIInv DEF SentPacket
<1>4. ASSUME NEW n \in DOMAIN Tracked, RemovePacket(n) \/ DeclareLost(n) PROVE IInv'
  BY <1>4, LeaveIInv
<1>5. CASE UNCHANGED historyVars \/ \E n \in Range(pathProbePackets) : RemovePathProbe(n)
  <2>1. UNCHANGED <<packets, firstPacketNumber, highestPacketNumber, numOutstanding,
                    skippedPackets, panic, allSkipped>>
    BY <1>5 DEF historyVars, RemovePathProbe
  <2>2. UNCHANGED <<Tracked, OutstandingNumbers>>
    BY <2>1 DEF Tracked, OutstandingNumbers
  <2> QED
    BY <2>1, <2>2 DEF IInv, SliceTypes, HistoryNoPanic, SliceInv, CountInv, SkipInv
<1> QED
  BY <1>1, <1>2, <1>3, <1>4, <1>5 DEF HistoryNext

(* The invariant holds in every reachable state.                           *)
LEMMA Inductive == HistorySpec => []IInv
  BY InitIInv, NextIInv, PTL DEF HistorySpec

-----------------------------------------------------------------------------
(* What the invariant implies *)

(* The invariant makes the outstanding count exact.                        *)
LEMMA CountFollows == IInv => OutstandingCounted
<1> SUFFICES ASSUME IInv PROVE OutstandingCounted
  OBVIOUS
<1> DEFINE I == {i \in DOMAIN packets : Outstanding(packets[i])}
           f == [i \in I |-> firstPacketNumber + i - 1]
<1>1. packets \in Seq(Slots) /\ firstPacketNumber \in Int
  BY HistoryAssumption DEF IInv, SliceTypes, Invalid
<1>2. Tracked = TrackedOf(packets, firstPacketNumber)
  BY <1>1, TrackedExpression DEF Tracked
<1>3. \A i \in I : firstPacketNumber + i - 1 \in OutstandingNumbers
  BY <1>1, <1>2 DEF OutstandingNumbers, TrackedOf, Numbers, Outstanding, Hole
<1>4. \A n \in OutstandingNumbers : n - firstPacketNumber + 1 \in I
                                    /\ firstPacketNumber + (n - firstPacketNumber + 1) - 1 = n
  BY <1>1, <1>2 DEF OutstandingNumbers, TrackedOf, Numbers
<1>5. f \in Bijection(I, OutstandingNumbers)
  <2>1. f \in [I -> OutstandingNumbers]
    BY <1>3
  <2>2. \A i, j \in I : f[i] = f[j] => i = j
    BY <1>1
  <2>3. \A n \in OutstandingNumbers : \E i \in I : f[i] = n
    BY <1>4
  <2> QED
    BY <2>1, <2>2, <2>3 DEF Bijection, Injection, Surjection, IsInjective
<1>6. IsFiniteSet(I)
  BY <1>1, FS_Interval, FS_Subset
<1>7. Cardinality(I) = Cardinality(OutstandingNumbers)
  BY <1>5, <1>6, FS_Bijection DEF ExistsBijection
<1> QED
  BY <1>7 DEF IInv, CountInv, OutstandingCounted

(* The invariant makes Difference exact.                                   *)
LEMMA DistanceFollows == IInv => DifferenceExact
<1> SUFFICES ASSUME IInv, NEW a \in DOMAIN Tracked, NEW b \in DOMAIN Tracked, b < a,
                    \A n \in allSkipped \ Range(skippedPackets) : n < b
             PROVE  Difference(a, b) = Cardinality(((b + 1)..a) \ allSkipped)
  BY DEF DifferenceExact
<1> DEFINE S == skippedPackets
           K == {i \in DOMAIN S : b < S[i] /\ S[i] < a}
           N == ((b + 1)..a) \cap allSkipped
           f == [i \in K |-> S[i]]
<1>1. a \in Int /\ b \in Int /\ a \notin allSkipped
  BY TrackedPlaces DEF IInv, SkipInv
<1>2. /\ S \in Seq(Int) /\ allSkipped \subseteq Int
      /\ \A i, j \in 1..Len(S) : i < j => S[i] < S[j]
      /\ \A i \in 1..Len(S) : S[i] \in allSkipped
  BY HistoryAssumption DEF IInv, SliceTypes, SkipInv, Range
<1>3. f \in Bijection(K, N)
  <2>1. f \in [K -> N]
    BY <1>1, <1>2
  <2>2. \A i, j \in K : f[i] = f[j] => i = j
    BY <1>2
  <2>3. ASSUME NEW n \in N PROVE \E i \in K : f[i] = n
    <3>1. n \in Range(S) /\ n \in Int /\ b < n /\ n < a
      BY <1>1, <1>2
    <3>2. PICK i \in DOMAIN S : S[i] = n
      BY <3>1 DEF Range
    <3> QED
      BY <3>1, <3>2
  <2> QED
    BY <2>1, <2>2, <2>3 DEF Bijection, Injection, Surjection, IsInjective
<1>4. IsFiniteSet(K)
  BY <1>2, FS_Interval, FS_Subset
<1>5. Cardinality(N) = Cardinality(K) /\ Cardinality(K) \in Nat
  BY <1>3, <1>4, FS_Bijection, FS_CardinalityType DEF ExistsBijection
<1>6. Cardinality(((b + 1)..a) \ allSkipped) = (a - b) - Cardinality(K)
  <2>1. IsFiniteSet((b + 1)..a) /\ Cardinality((b + 1)..a) = a - b
    BY <1>1, FS_Interval
  <2>2. Cardinality(((b + 1)..a) \ allSkipped)
          = Cardinality((b + 1)..a) - Cardinality(((b + 1)..a) \cap allSkipped)
    BY <2>1, FS_Difference
  <2> HIDE DEF K
  <2> QED
    BY <1>5, <2>1, <2>2
<1>7. CASE S = <<>> \/ a < Head(S) \/ b > S[Len(S)]
  <2>1. K = {}
    BY <1>1, <1>2, <1>7
  <2>2. Cardinality(K) = 0
    BY <2>1, FS_EmptySet
  <2> QED
    BY <1>1, <1>6, <1>7, <2>2 DEF Difference
<1>8. CASE ~(S = <<>> \/ a < Head(S) \/ b > S[Len(S)])
  BY <1>6, <1>8 DEF Difference
<1> QED
  BY <1>7, <1>8

(* HistoryExact: whatever the order of sends, skipped numbers, losses and  *)
(* removals, sentPacketHistory never panics, its count of outstanding      *)
(* packets is right, and its distances leave out the skipped numbers.      *)
THEOREM Exact == HistorySpec => []HistoryExact
<1>1. IInv => HistoryExact
  BY CountFollows, DistanceFollows DEF IInv, HistoryExact
<1> QED
  BY <1>1, Inductive, PTL

-----------------------------------------------------------------------------
(* Refinement *)

(* A new history is an empty set of tracked packets.                       *)
LEMMA InitRefines == HistoryInit => Abstract!Init
<1> SUFFICES ASSUME HistoryInit PROVE Abstract!Init
  OBVIOUS
<1>1. DOMAIN Tracked = {}
  BY DEF HistoryInit, Tracked
<1>2. Tracked = [n \in {} |-> ""]
  BY <1>1 DEF Tracked
<1> QED
  BY <1>2 DEF HistoryInit, Abstract!Init, Invalid

(* Every operation is one on the tracked packets, or none.                 *)
LEMMA StepRefines == IInv /\ [HistoryNext]_historyVars => [Abstract!Next]_(Abstract!vars)
<1> SUFFICES ASSUME IInv, [HistoryNext]_historyVars
             PROVE  Abstract!Next \/ UNCHANGED Abstract!vars
  OBVIOUS
<1>0. SliceTypes /\ SliceInv /\ SkipInv
  BY DEF IInv
<1>1. ASSUME NEW n \in NextNumbers, SkippedPacket(n) PROVE Abstract!Next
  <2>1. UseNumber(n) /\ packets' = IF packets = <<>> THEN packets ELSE Append(packets, Hole)
    BY <1>1 DEF SkippedPacket
  <2>2. Tracked' = Tracked
    BY <1>0, <2>1, SkipTracks
  <2>3. Abstract!Skip(n)
    BY <2>1, <2>2 DEF Abstract!Skip, UseNumber, NextNumbers, Invalid
  <2> QED
    BY <2>3 DEF Abstract!Next, NextNumbers
<1>2. ASSUME NEW n \in NextNumbers, NEW kind \in Kinds,
             UseNumber(n), packets' = Append(packets, kind)
      PROVE  Abstract!Next
  <2>1. Tracked' = [m \in DOMAIN Tracked \cup {n} |-> IF m = n THEN kind ELSE Tracked[m]]
    BY <1>0, <1>2, AppendTracks
  <2>2. Abstract!Send(n, kind)
    BY <1>2, <2>1 DEF Abstract!Send, UseNumber, NextNumbers, Invalid
  <2> QED
    BY <2>2 DEF Abstract!Next, NextNumbers
<1>3. ASSUME NEW n \in DOMAIN Tracked, RemovePacket(n) \/ DeclareLost(n)
      PROVE  Abstract!Next
  <2>1. Tracked' = [m \in DOMAIN Tracked \ {n} |-> Tracked[m]]
    BY <1>0, <1>3, LeaveForgets
  <2>2. highestPacketNumber' = highestPacketNumber
    BY <1>3 DEF RemovePacket, DeclareLost, Leave
  <2>3. Abstract!Forget(n)
    BY <2>1, <2>2 DEF Abstract!Forget
  <2> QED
    BY <2>3 DEF Abstract!Next
<1>4. CASE UNCHANGED historyVars \/ \E n \in Range(pathProbePackets) : RemovePathProbe(n)
  BY <1>4 DEF historyVars, RemovePathProbe, Abstract!vars, Tracked
<1>5. ASSUME NEW n \in NextNumbers, SentPathProbePacket(n) PROVE Abstract!Next
  BY <1>2, <1>5 DEF SentPathProbePacket, Kinds
<1>6. ASSUME NEW n \in NextNumbers, NEW kind \in Kinds \ {"pathProbe"}, SentPacket(n, kind)
      PROVE  Abstract!Next
  BY <1>2, <1>6 DEF SentPacket
<1> QED
  BY <1>1, <1>3, <1>4, <1>5, <1>6 DEF HistoryNext

(* The slice with its holes, its moving start and its cleanups behaves as  *)
(* a map from packet numbers to packets that are sent in order, skipped or *)
(* forgotten one at a time: sentPacketHistory implements TrackedPackets.   *)
THEOREM Refinement == HistorySpec => ImplementsTracked
  BY Inductive, InitRefines, StepRefines, PTL
     DEF HistorySpec, ImplementsTracked, Abstract!Spec
=============================================================================
