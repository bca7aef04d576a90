----------------------- MODULE SentPacketHandlerProofs ------------------------
(***************************************************************************)
(* Proofs about SentPacketHandler, for any scenarios, RTT estimates, loss  *)
(* thresholds and timeouts.                                                *)
(***************************************************************************)
EXTENDS SentPacketHandler, FiniteSetTheorems, WellFoundedInduction, TLAPS

Entry == [kind : AllKinds, at : Nat]
FiniteSets_ == {S \in SUBSET Nat : IsFiniteSet(S)}
Map(V) == UNION {[S -> V] : S \in FiniteSets_}    \* packet number -> V

-----------------------------------------------------------------------------
(* Numbers and maps *)

(* A nonempty set of naturals has a least element.                         *)
LEMMA MinExists ==
  ASSUME NEW S, S \subseteq Nat, S # {}
  PROVE  Min(S) \in S /\ \A y \in S : Min(S) <= y
<1>1. PICK x \in S : \A y \in S : ~(<<y, x>> \in OpToRel(<, Nat))
  BY NatLessThanWellFounded, WFMin, Zenon
<1>2. \A y \in S : ~(y < x)
  BY <1>1, Zenon DEF OpToRel
<1>3. \A y \in S : x <= y
  BY <1>2
<1> QED
  BY <1>3, Zenon DEF Min

(* A map is a function from finitely many packet numbers.                  *)
LEMMA MapIs ==
  ASSUME NEW V, NEW f
  PROVE  f \in Map(V) <=> /\ DOMAIN f \subseteq Nat /\ IsFiniteSet(DOMAIN f)
                          /\ f \in [DOMAIN f -> V]
  BY Zenon DEF Map, FiniteSets_

(* Removing entries from a history leaves the others as they are.          *)
LEMMA WithoutIs ==
  ASSUME NEW V, NEW f \in Map(V), NEW S
  PROVE  /\ Without(f, S) \in Map(V) /\ DOMAIN Without(f, S) = DOMAIN f \ S
         /\ \A n \in DOMAIN f \ S : Without(f, S)[n] = f[n]
<1>1. DOMAIN f \subseteq Nat /\ IsFiniteSet(DOMAIN f) /\ f \in [DOMAIN f -> V]
  BY MapIs, Zenon
<1>2. IsFiniteSet(DOMAIN f \ S)
  BY <1>1, FS_Difference, Zenon
<1>3. PICK g : g = Without(f, S)
  BY Zenon
<1>4. DOMAIN g = DOMAIN f \ S /\ \A n \in DOMAIN f \ S : g[n] = f[n]
  BY <1>3, Zenon DEF Without
<1>5. g \in [DOMAIN g -> V]
  BY <1>1, <1>3, <1>4, Zenon DEF Without
<1>6. g \in Map(V)
  BY <1>1, <1>2, <1>4, <1>5, MapIs, Zenon
<1> QED
  BY <1>3, <1>4, <1>6, Zenon

(* Adding one entry.                                                       *)
LEMMA WithIs ==
  ASSUME NEW V, NEW f \in Map(V), NEW n \in Nat, NEW v \in V
  PROVE  /\ With(f, n, v) \in Map(V) /\ DOMAIN With(f, n, v) = DOMAIN f \cup {n}
         /\ With(f, n, v)[n] = v
         /\ \A m \in DOMAIN f \ {n} : With(f, n, v)[m] = f[m]
<1>1. DOMAIN f \subseteq Nat /\ IsFiniteSet(DOMAIN f) /\ f \in [DOMAIN f -> V]
  BY MapIs, Zenon
<1>2. IsFiniteSet(DOMAIN f \cup {n})
  BY <1>1, FS_AddElement, Zenon
<1>3. PICK g : g = With(f, n, v)
  BY Zenon
<1>4. /\ DOMAIN g = DOMAIN f \cup {n} /\ g[n] = v
      /\ \A m \in DOMAIN f \ {n} : g[m] = f[m]
  BY <1>3, Zenon DEF With
<1>5. g \in [DOMAIN g -> V]
  BY <1>1, <1>3, Zenon DEF With
<1>6. g \in Map(V)
  BY <1>1, <1>2, <1>4, <1>5, MapIs, Zenon
<1> QED
  BY <1>3, <1>4, <1>6, Zenon

(* Nothing is tracked in a new history.                                    *)
LEMMA EmptyMaps ==
  /\ DOMAIN None = {} /\ DOMAIN NoProbes = {}
  /\ \A V : None \in Map(V) /\ NoProbes \in Map(V)
<1>1. DOMAIN None = {} /\ DOMAIN NoProbes = {}
  BY Zenon DEF None, NoProbes
<1>2. ASSUME NEW V PROVE None \in [{} -> V] /\ NoProbes \in [{} -> V]
  BY Zenon DEF None, NoProbes
<1>3. IsFiniteSet({})
  BY FS_EmptySet, Zenon
<1> QED
  BY <1>1, <1>2, <1>3, MapIs, Zenon

(* Removing all entries is what a new history is.                          *)
LEMMA WithoutAll ==
  ASSUME NEW V, NEW f \in Map(V), NEW S, DOMAIN f \subseteq S
  PROVE  Without(f, S) = None /\ Without(f, S) = NoProbes
  BY Zenon DEF Without, None, NoProbes

(* Removing nothing changes nothing.                                       *)
LEMMA WithoutNone ==
  ASSUME NEW V, NEW f \in Map(V)
  PROVE  Without(f, {}) = f
  BY MapIs, Zenon DEF Without

-----------------------------------------------------------------------------
(* Bytes in flight *)

Elicits(f, S) == {n \in S : AckEliciting(f[n])}

(* The count of a history is a cardinality of a finite set.                *)
LEMMA SizeIs ==
  ASSUME NEW f \in Map(Entry), NEW S \in SUBSET DOMAIN f
  PROVE  /\ IsFiniteSet(Elicits(f, S)) /\ Cardinality(Elicits(f, S)) \in Nat
         /\ Size(f) = Cardinality(Elicits(f, DOMAIN f))
<1>1. IsFiniteSet(DOMAIN f)
  BY MapIs, Zenon
<1>2. Elicits(f, S) \subseteq DOMAIN f
  BY Zenon DEF Elicits
<1>3. IsFiniteSet(Elicits(f, S))
  BY <1>1, <1>2, FS_Subset, Zenon
<1> QED
  BY <1>3, FS_CardinalityType, Zenon DEF Size, Elicits

(* The packets that leave a history take their share of the count along.   *)
LEMMA SizeWithout ==
  ASSUME NEW f \in Map(Entry), NEW S
  PROVE  /\ Size(f) \in Nat /\ Size(Without(f, S)) \in Nat
         /\ Size(Without(f, S)) = Size(f) - Cardinality(Elicits(f, S \cap DOMAIN f))
<1> DEFINE E == Elicits(f, DOMAIN f)
           G == Elicits(f, S \cap DOMAIN f)
<1>1. IsFiniteSet(E) /\ Size(f) = Cardinality(E) /\ Cardinality(E) \in Nat
  BY SizeIs, Zenon
<1>2. G \subseteq E /\ G = E \cap G
  BY Zenon DEF Elicits
<1>3. Cardinality(E \ G) = Cardinality(E) - Cardinality(E \cap G)
  BY <1>1, FS_Difference, Zenon
<1>4. PICK g \in Map(Entry) : /\ g = Without(f, S) /\ DOMAIN g = DOMAIN f \ S
                              /\ \A n \in DOMAIN f \ S : g[n] = f[n]
  BY WithoutIs
<1>5. Elicits(g, DOMAIN g) = E \ G
  BY <1>4, Zenon DEF Elicits
<1>6. Size(g) = Cardinality(E \ G) /\ Size(g) \in Nat
  BY <1>5, SizeIs, Zenon
<1> QED
  BY <1>1, <1>2, <1>3, <1>4, <1>6, Zenon

(* A new packet adds one if it elicits an ACK.                             *)
LEMMA SizeWith ==
  ASSUME NEW f \in Map(Entry), NEW n \in Nat, n \notin DOMAIN f, NEW v \in Entry
  PROVE  /\ Size(f) \in Nat
         /\ Size(With(f, n, v)) = Size(f) + (IF AckEliciting(v) THEN 1 ELSE 0)
<1>0. PICK g : g = With(f, n, v)
  BY Zenon
<1>1. /\ g \in Map(Entry) /\ DOMAIN g = DOMAIN f \cup {n}
      /\ g[n] = v /\ \A m \in DOMAIN f \ {n} : g[m] = f[m]
  BY <1>0, WithIs
<1>2. PICK E : /\ E = Elicits(f, DOMAIN f) /\ IsFiniteSet(E)
               /\ Size(f) = Cardinality(E) /\ Cardinality(E) \in Nat
  <2>1. DOMAIN f \in SUBSET DOMAIN f
    BY Zenon
  <2> QED
    BY <2>1, SizeIs, Zenon
<1>3. Size(g) = Cardinality(Elicits(g, DOMAIN g))
  BY <1>1, SizeIs, Zenon
<1>4. CASE AckEliciting(v)
  <2>1. Elicits(g, DOMAIN g) = E \cup {n} /\ n \notin E
    BY <1>1, <1>2, <1>4 DEF Elicits
  <2>2. Cardinality(E \cup {n}) = Cardinality(E) + 1
    BY <1>2, <2>1, FS_AddElement, Zenon
  <2> QED
    BY <1>0, <1>2, <1>3, <1>4, <2>1, <2>2, Zenon
<1>5. CASE ~AckEliciting(v)
  <2>1. Elicits(g, DOMAIN g) = E
    BY <1>1, <1>2, <1>5 DEF Elicits
  <2> QED
    BY <1>0, <1>2, <1>3, <1>5, <2>1
<1> QED
  BY <1>4, <1>5, Zenon
-----------------------------------------------------------------------------
(* Types *)

HandlerTyped ==
  /\ conf \in Scenarios /\ now \in Nat \ {0} /\ rtt \in Nat
  /\ dropped \in SUBSET Spaces
  /\ histories \in [Spaces -> Map(Entry)] /\ pathProbes \in Map(Nat)
  /\ next \in [Spaces -> Nat] /\ skipped \in SUBSET Nat
  /\ lossTime \in [Spaces -> Nat] /\ lastElicitingTime \in [Spaces -> Nat]
  /\ bytesSent \in Nat /\ bytesReceived \in Nat
  /\ ptoCount \in Nat /\ numProbesToSend \in Nat /\ ptoMode \in Spaces \cup {"none"}
  /\ peerAddressValidated \in BOOLEAN /\ peerCompletedAddressValidation \in BOOLEAN
  /\ handshakeConfirmed \in BOOLEAN /\ closed \in BOOLEAN

(* Only numbers already skipped are forgotten.                             *)
LEMMA KeepNewestIs ==
  ASSUME NEW S
  PROVE  KeepNewest(S) \subseteq S
  BY Zenon DEF KeepNewest

(* What a scenario fixes.                                                  *)
LEMMA ConfIs ==
  ASSUME conf \in Scenarios
  PROVE  /\ RTTs \subseteq Nat \ {0} /\ MaxPto \in Nat \ {0} /\ SentKinds \subseteq AllKinds
         /\ Epoch \in Nat \ {0} /\ Established \in BOOLEAN
         /\ Perspective \in {"client", "server"}
         /\ PathProbeTimeout \in Nat /\ MaxAckDelay \in Nat
<1>1. conf.maxRTT \in Nat \ {0} /\ conf.maxPto \in Nat \ {0}
  BY ScenariosAssumption, Zenon
<1>2. PathProbeTimeout \in Nat /\ MaxAckDelay \in Nat
  BY LimitsAssumption, Zenon
<1>3. conf.kinds \subseteq AllKinds /\ conf.established \in BOOLEAN
      /\ conf.perspective \in {"client", "server"}
  BY ScenariosAssumption, Zenon
<1> QED
  BY <1>1, <1>2, <1>3 DEF RTTs, MaxPto, SentKinds, Epoch, Established, Perspective

(* A new handler has its types.                                            *)
LEMMA InitTyped == HandlerInit => HandlerTyped
<1> SUFFICES ASSUME HandlerInit PROVE HandlerTyped
  BY Zenon
<1>1. conf \in Scenarios /\ now \in Nat \ {0} /\ rtt \in Nat
  BY ConfIs, Zenon DEF HandlerInit
<1>2. histories \in [Spaces -> Map(Entry)] /\ pathProbes \in Map(Nat)
  BY EmptyMaps, Zenon DEF HandlerInit
<1>3. peerAddressValidated \in BOOLEAN /\ peerCompletedAddressValidation \in BOOLEAN
      /\ handshakeConfirmed \in BOOLEAN /\ dropped \in SUBSET Spaces /\ closed \in BOOLEAN
  BY <1>1, ConfIs, Zenon DEF HandlerInit, Spaces
<1>4. /\ next \in [Spaces -> Nat] /\ skipped \in SUBSET Nat
      /\ lossTime \in [Spaces -> Nat] /\ lastElicitingTime \in [Spaces -> Nat]
      /\ bytesSent \in Nat /\ bytesReceived \in Nat
      /\ ptoCount \in Nat /\ numProbesToSend \in Nat /\ ptoMode \in Spaces \cup {"none"}
  BY Zenon DEF HandlerInit
<1> QED
  BY <1>1, <1>2, <1>3, <1>4, Zenon DEF HandlerTyped

(* The loss time that detectLostPackets leaves is a time, or zero.         *)
LEMMA LossTimeNat ==
  ASSUME NEW s, NEW f \in Map(Entry), NEW largest, NEW delay \in Nat
  PROVE  NewLossTime(s, f, largest, delay) \in Nat
<1>1. PICK rest : rest = {n \in DOMAIN f : n <= largest} \ LostPackets(s, f, largest, delay)
  BY Zenon
<1>2. rest \subseteq DOMAIN f /\ DOMAIN f \subseteq Nat /\ f \in [DOMAIN f -> Entry]
  BY <1>1, MapIs, Zenon
<1>3. rest # {} => Min(rest) \in rest
  BY <1>2, MinExists, Zenon
<1>4. rest # {} => f[Min(rest)].at \in Nat
  BY <1>2, <1>3, Zenon DEF Entry
<1>5. NewLossTime(s, f, largest, delay) = IF rest = {} THEN 0 ELSE f[Min(rest)].at + delay
  BY <1>1, Zenon DEF NewLossTime
<1> QED
  BY <1>4, <1>5

NewEntry(kind) == [kind |-> kind, at |-> IF kind = "pathProbe" THEN 0 ELSE now]

(* What is tracked of a packet that is sent.                               *)
LEMMA NewEntryIs ==
  ASSUME HandlerTyped, NEW kind \in AllKinds
  PROVE  NewEntry(kind) \in Entry /\ NewEntry(kind).kind = kind
<1>1. PICK t \in Nat : t = IF kind = "pathProbe" THEN 0 ELSE now
  BY Zenon DEF HandlerTyped
<1>2. NewEntry(kind) = [kind |-> kind, at |-> t]
  BY <1>1, Zenon DEF NewEntry
<1> QED
  BY <1>2 DEF Entry

(* HandlerSentPacket keeps the types.                                      *)
LEMMA SentPacketTyped ==
  ASSUME HandlerTyped, NEW s \in Spaces, NEW kind \in AllKinds, NEW skip \in BOOLEAN,
         NEW lost, HandlerSentPacket(s, kind, skip, lost)
  PROVE  HandlerTyped'
<1>1. PICK n \in Nat : n = IF skip THEN next[s] + 1 ELSE next[s]
  BY DEF HandlerTyped
<1>2. PICK e : e = NewEntry(kind)
  BY Zenon
<1>3. e \in Entry /\ histories' = [histories EXCEPT ![s] = With(Without(histories[s], lost), n, e)]
  BY <1>1, <1>2, NewEntryIs, Zenon DEF HandlerSentPacket, NewEntry
<1>4. Without(histories[s], lost) \in Map(Entry)
  BY WithoutIs, Zenon DEF HandlerTyped
<1>5. With(Without(histories[s], lost), n, e) \in Map(Entry)
  BY <1>3, <1>4, WithIs, Zenon
<1>6. histories' \in [Spaces -> Map(Entry)]
  BY <1>3, <1>5, Zenon DEF HandlerTyped
<1>7. pathProbes' \in Map(Nat)
  <2>1. With(pathProbes, n, now) \in Map(Nat)
    BY WithIs, Zenon DEF HandlerTyped
  <2> QED
    BY <1>1, <2>1, Zenon DEF HandlerSentPacket, HandlerTyped
<1>8. next' \in [Spaces -> Nat] /\ skipped' \in SUBSET Nat
  <2>1. next' = [next EXCEPT ![s] = n + 1]
    BY <1>1, Zenon DEF HandlerSentPacket
  <2>2. skipped' \subseteq skipped \cup {next[s]}
    BY KeepNewestIs, Zenon DEF HandlerSentPacket
  <2> QED
    BY <2>1, <2>2 DEF HandlerTyped
<1>9. lossTime' = lossTime /\ lastElicitingTime' \in [Spaces -> Nat]
  BY Zenon DEF HandlerSentPacket, HandlerTyped
<1>10. bytesSent' \in Nat /\ numProbesToSend' \in Nat
  BY DEF HandlerSentPacket, HandlerTyped
<1>11. UNCHANGED <<conf, now, rtt, dropped, ptoCount, ptoMode, bytesReceived,
                   peerAddressValidated, peerCompletedAddressValidation, handshakeConfirmed, closed>>
  BY Zenon DEF HandlerSentPacket, peerVars
<1> QED
  BY <1>6, <1>7, <1>8, <1>9, <1>10, <1>11, Zenon DEF HandlerTyped

(* An ACK of something new, and what it removes.                           *)
LEMMA NewAckTyped ==
  ASSUME HandlerTyped, NEW s \in Spaces, NEW ack, ReceivedNewAck(s, ack)
  PROVE  HandlerTyped'
<1>1. PICK f, acked, left, largest, lost :
        /\ f = histories[s] /\ acked = AckedPackets(s, ack) /\ left = Without(f, acked)
        /\ largest = Max({largestAcked[s], Max(ack)})
        /\ lost = LostPackets(s, left, largest, rtt')
  BY Zenon
<1>2. rtt' \in Nat
  BY ConfIs, Zenon DEF ReceivedNewAck, HandlerTyped
<1>3. f \in Map(Entry) /\ left \in Map(Entry) /\ Without(left, lost) \in Map(Entry)
  <2>1. f \in Map(Entry)
    BY <1>1, Zenon DEF HandlerTyped
  <2>2. left \in Map(Entry)
    BY <1>1, <2>1, WithoutIs, Zenon
  <2> QED
    BY <2>1, <2>2, WithoutIs, Zenon
<1>4. histories' = [histories EXCEPT ![s] = Without(left, lost)]
  BY <1>1, Zenon DEF ReceivedNewAck
<1>5. lossTime' = [lossTime EXCEPT ![s] = NewLossTime(s, left, largest, rtt')]
  BY <1>1, Zenon DEF ReceivedNewAck
<1>6. NewLossTime(s, left, largest, rtt') \in Nat
  BY <1>2, <1>3, LossTimeNat, Zenon
<1>7. PICK P, Q : pathProbes' = Without(Without(pathProbes, P), Q)
  BY Zenon DEF ReceivedNewAck
<1>8. pathProbes' \in Map(Nat)
  <2>1. Without(pathProbes, P) \in Map(Nat)
    BY WithoutIs, Zenon DEF HandlerTyped
  <2> QED
    BY <1>7, <2>1, WithoutIs, Zenon
<1>9. peerCompletedAddressValidation' \in BOOLEAN /\ ptoCount' \in Nat /\ numProbesToSend' \in Nat
  BY Zenon DEF ReceivedNewAck, HandlerTyped
<1>10. UNCHANGED <<conf, now, dropped, next, skipped, lastElicitingTime, bytesSent, bytesReceived,
                   ptoMode, peerAddressValidated, handshakeConfirmed, closed>>
  BY Zenon DEF ReceivedNewAck
<1>11. histories' \in [Spaces -> Map(Entry)] /\ lossTime' \in [Spaces -> Nat]
  BY <1>3, <1>4, <1>5, <1>6, Zenon DEF HandlerTyped
<1> QED
  BY <1>2, <1>8, <1>9, <1>10, <1>11, Zenon DEF HandlerTyped

(* Any other ACK.                                                          *)
LEMMA AckTyped ==
  ASSUME HandlerTyped, NEW s \in Spaces, NEW ack, ReceivedAck(s, ack)
  PROVE  HandlerTyped'
<1>1. CASE RefuseAck(s, ack)
  BY <1>1, Zenon DEF RefuseAck, HandlerTyped, spaceVars, appVars, peerVars, ptoVars
<1>2. CASE ReceivedOldAck(s, ack)
  <2>1. peerCompletedAddressValidation' \in BOOLEAN
    BY <1>2, Zenon DEF ReceivedOldAck, HandlerTyped
  <2> QED
    BY <1>2, <2>1, Zenon DEF ReceivedOldAck, HandlerTyped, spaceVars, appVars, ptoVars
<1>3. CASE ReceivedNewAck(s, ack)
  BY <1>3, NewAckTyped, Zenon
<1> QED
  BY <1>1, <1>2, <1>3, Zenon DEF ReceivedAck

-----------------------------------------------------------------------------
(* The timer *)

(* The earliest of the spaces' times is one of them, and zero when all are. *)
LEMMA EarliestIs ==
  ASSUME NEW times \in [Spaces -> Nat]
  PROVE  LET e == Earliest(times) IN
         /\ e.time \in Nat /\ e.space \in Spaces
         /\ e.time # 0 => times[e.space] = e.time
         /\ e.time = 0 <=> \A s \in Spaces : times[s] = 0
<1>1. PICK due : due = {s \in Spaces : times[s] # 0}
  BY Zenon
<1>2. PICK min : min = {s \in due : \A q \in due : times[s] <= times[q]}
  BY Zenon
<1>3. due # {} => min # {}
  BY <1>1, <1>2 DEF Spaces
<1>4. min \subseteq due /\ due \subseteq Spaces
  BY <1>1, <1>2, Zenon
<1>5. due # {} => First(min) \in min
  BY <1>3, <1>4, Zenon DEF First, Spaces
<1>6. Earliest(times) = IF due = {} THEN [time |-> 0, space |-> "app"]
                        ELSE [time |-> times[First(min)], space |-> First(min)]
  BY <1>1, <1>2, Zenon DEF Earliest
<1>7. CASE due = {}
  BY <1>1, <1>6, <1>7 DEF Spaces
<1>8. CASE due # {}
  <2>1. PICK x \in Spaces : x = First(min) /\ times[x] # 0
    BY <1>1, <1>4, <1>5, <1>8, Zenon
  <2>2. Earliest(times) = [time |-> times[x], space |-> x]
    BY <1>6, <1>8, <2>1, Zenon
  <2> QED
    BY <2>1, <2>2
<1> QED
  BY <1>7, <1>8, Zenon

(* getScaledPTO never returns zero, however often the PTO is doubled.      *)
LEMMA ScaledPTOIs ==
  ASSUME HandlerTyped, NEW b \in BOOLEAN
  PROVE  ScaledPTO(b) \in Nat \ {0}
<1>1. PICK k \in Int : k = 2^ptoCount
  BY DEF HandlerTyped
<1>2. PICK d \in Nat : d = 2 * rtt + (IF b THEN MaxAckDelay ELSE 0)
  BY ConfIs DEF HandlerTyped
<1>3. PICK p \in Int : p = d * k
  OBVIOUS
<1>4. ScaledPTO(b) = IF p > MaxPto \/ p <= 0 THEN MaxPto ELSE p
  BY <1>1, <1>2, <1>3, Zenon DEF ScaledPTO
<1>5. MaxPto \in Nat \ {0}
  BY ConfIs, Zenon DEF HandlerTyped
<1> QED
  BY <1>4, <1>5

(* getLossTimeAndSpace: a time that is set belongs to a space with keys.   *)
LEMMA LossTimeIs ==
  ASSUME HandlerTyped
  PROVE  /\ LossTimeAndSpace.time \in Nat /\ LossTimeAndSpace.space \in Spaces
         /\ LossTimeAndSpace.time # 0 => LossTimeAndSpace.space \notin dropped
         /\ LossTimeAndSpace.time = 0 <=> \A s \in Spaces \ dropped : lossTime[s] = 0
<1>1. PICK t \in [Spaces -> Nat] : t = [s \in Spaces |-> IF s \in dropped THEN 0 ELSE lossTime[s]]
  BY Zenon DEF HandlerTyped
<1>2. LossTimeAndSpace = Earliest(t)
  BY <1>1, Zenon DEF LossTimeAndSpace
<1>3. PICK e : e = Earliest(t)
  BY Zenon
<1>4. /\ e.time \in Nat /\ e.space \in Spaces
      /\ e.time # 0 => t[e.space] = e.time
      /\ e.time = 0 <=> \A s \in Spaces : t[s] = 0
  BY <1>3, EarliestIs, Zenon
<1> QED
  BY <1>1, <1>2, <1>3, <1>4, Zenon

(* The handshake is over when its keys are gone, and 1-RTT keys stay.      *)
Shaken ==
  /\ "handshake" \in dropped => handshakeConfirmed /\ peerCompletedAddressValidation
  /\ "app" \notin dropped

(* getPTOTimeAndSpace: a PTO that is set is for a space with keys.         *)
LEMMA PTOTimeIs ==
  ASSUME HandlerTyped, Shaken
  PROVE  /\ PTOTimeAndSpace.time \in Nat /\ PTOTimeAndSpace.space \in Spaces
         /\ PTOTimeAndSpace.time # 0 => PTOTimeAndSpace.space \notin dropped
<1>1. ScaledPTO(FALSE) \in Nat \ {0} /\ ScaledPTO(TRUE) \in Nat \ {0}
  BY ScaledPTOIs, Zenon
<1>2. PICK t : t = PTOTimes
  BY Zenon
<1>3. t \in [Spaces -> Nat] /\ \A s \in Spaces : t[s] # 0 => s \notin dropped
  <2>1. ASSUME NEW s \in Spaces
        PROVE  t[s] \in Nat /\ (t[s] # 0 => s \notin dropped)
    <3>1. ScaledPTO(s = "app") \in Nat
      <4>1. (s = "app") \in BOOLEAN
        BY Zenon
      <4> QED
        BY <4>1, ScaledPTOIs, Zenon
    <3>2. lastElicitingTime[s] \in Nat
      BY Zenon DEF HandlerTyped
    <3> QED
      BY <1>2, <3>1, <3>2 DEF HasOutstanding, PTOTimes
  <2> QED
    BY <1>2, <2>1, Zenon DEF PTOTimes
<1>4. PICK e : e = Earliest(t)
  BY Zenon
<1>5. e.time \in Nat /\ e.space \in Spaces /\ (e.time # 0 => t[e.space] = e.time)
  BY <1>3, <1>4, EarliestIs, Zenon
<1>6. CASE ~handshakeConfirmed /\ ~HasOutstandingCryptoPackets /\ peerCompletedAddressValidation
  <2>1. PTOTimeAndSpace = [time |-> 0, space |-> "app"]
    BY <1>6, Zenon DEF PTOTimeAndSpace
  <2> QED
    BY <2>1, Zenon DEF Spaces
<1>7. CASE ~handshakeConfirmed /\ ~HasOutstandingCryptoPackets /\ ~peerCompletedAddressValidation
  <2>1. PTOTimeAndSpace = [time |-> now + ScaledPTO(FALSE),
             space |-> IF "initial" \in dropped THEN "handshake" ELSE "initial"]
    BY <1>7, Zenon DEF PTOTimeAndSpace
  <2>2. now \in Nat /\ "handshake" \notin dropped
    BY <1>7, Zenon DEF HandlerTyped, Shaken
  <2>3. PICK x : x = IF "initial" \in dropped THEN "handshake" ELSE "initial"
    BY Zenon
  <2>4. x \in Spaces /\ x \notin dropped
    BY <2>2, <2>3, Zenon DEF Spaces
  <2>5. PTOTimeAndSpace.time = now + ScaledPTO(FALSE) /\ PTOTimeAndSpace.space = x
    BY <2>1, <2>3, Zenon
  <2>6. PICK k \in Nat : k = ScaledPTO(FALSE)
    BY <1>1, Zenon
  <2>7. PTOTimeAndSpace.time \in Nat
    <3>1. now + k \in Nat
      BY <2>2
    <3> QED
      BY <2>5, <2>6, <3>1, Zenon
  <2> QED
    BY <2>4, <2>5, <2>7, Zenon
<1>8. CASE ~(~handshakeConfirmed /\ ~HasOutstandingCryptoPackets)
  <2>1. PTOTimeAndSpace = Earliest(PTOTimes)
    BY <1>8, Zenon DEF PTOTimeAndSpace
  <2>2. PTOTimeAndSpace = e
    BY <1>2, <1>4, <2>1, Zenon
  <2> QED
    BY <1>3, <1>5, <2>2, Zenon
<1> QED
  BY <1>6, <1>7, <1>8, Zenon

-----------------------------------------------------------------------------
(* The types, for the other actions *)

(* A timeout for a loss time.                                              *)
LEMMA LossTimeoutTyped ==
  ASSUME HandlerTyped, NEW late, LossTimeout(late)
  PROVE  histories' \in [Spaces -> Map(Entry)] /\ lossTime' \in [Spaces -> Nat]
<1>1. PICK s : s = LossTimeAndSpace.space
  BY Zenon
<1>2. PICK f : f = histories[s]
  BY Zenon
<1>3. PICK lost : lost = LostPackets(s, f, largestAcked[s], rtt)
  BY Zenon
<1>4. s \in Spaces
  BY <1>1, LossTimeIs, Zenon
<1>5. f \in Map(Entry) /\ rtt \in Nat
  BY <1>2, <1>4, Zenon DEF HandlerTyped
<1>6. Without(f, lost) \in Map(Entry)
  BY <1>5, WithoutIs, Zenon
<1>7. NewLossTime(s, f, largestAcked[s], rtt) \in Nat
  BY <1>5, LossTimeNat, Zenon
<1>8. histories' = [histories EXCEPT ![s] = Without(f, lost)]
  BY <1>1, <1>2, <1>3, Zenon DEF LossTimeout
<1>9. lossTime' = [lossTime EXCEPT ![s] = NewLossTime(s, f, largestAcked[s], rtt)]
  BY <1>1, <1>2, Zenon DEF LossTimeout
<1> QED
  BY <1>4, <1>6, <1>7, <1>8, <1>9, Zenon DEF HandlerTyped

(* What a PTO changes.                                                     *)
PtoEffect ==
  /\ ptoCount' \in Nat /\ numProbesToSend' \in Nat /\ ptoMode' \in Spaces \cup {"none"}
  /\ next' \in [Spaces -> Nat] /\ (\A s \in Spaces : next[s] <= next'[s])
  /\ next'["initial"] = next["initial"] /\ next'["handshake"] = next["handshake"]
  /\ skipped' \in SUBSET Nat
  /\ \A n \in skipped' \ skipped : next["app"] <= n /\ n < next'["app"]

(* Probes in a space with packets outstanding.                             *)
LEMMA SpacePTOTyped ==
  ASSUME HandlerTyped, NEW s \in Spaces, NEW skip \in BOOLEAN, SpacePTO(s, skip)
  PROVE  PtoEffect
<1>1. PICK n \in Nat : n = IF skip THEN next["app"] + 1 ELSE next["app"]
  BY DEF HandlerTyped, Spaces
<1>2. ptoCount' \in Nat /\ numProbesToSend' \in Nat /\ ptoMode' \in Spaces \cup {"none"}
  BY DEF SpacePTO, HandlerTyped
<1>3. CASE s = "app"
  <2>1. next' = [next EXCEPT !["app"] = n + 1] /\ next["app"] \in Nat
    BY <1>1, <1>3, Zenon DEF SpacePTO, HandlerTyped, Spaces
  <2>2. PICK A : A = IF skip THEN KeepNewest(skipped \cup {n - 1}) ELSE skipped
    BY Zenon
  <2>3. skipped' = KeepNewest(A \cup {n})
    BY <1>1, <1>3, <2>2, Zenon DEF SpacePTO
  <2>4. A \subseteq skipped \cup (IF skip THEN {n - 1} ELSE {})
    BY <2>2, KeepNewestIs, Zenon
  <2>5. skipped' \subseteq skipped \cup {n} \cup (IF skip THEN {n - 1} ELSE {})
    BY <2>3, <2>4, KeepNewestIs, Zenon
  <2>6. skipped \subseteq Nat /\ (skip => n - 1 = next["app"])
    BY <1>1, <2>1 DEF HandlerTyped
  <2>7. skipped' \in SUBSET Nat
    BY <2>1, <2>5, <2>6, Zenon
  <2>8. \A m \in skipped' \ skipped : next["app"] <= m /\ m < next'["app"]
    BY <1>1, <2>1, <2>5, <2>6 DEF HandlerTyped, Spaces
  <2>9. next' \in [Spaces -> Nat] /\ (\A q \in Spaces : next[q] <= next'[q])
    BY <1>1, <2>1 DEF HandlerTyped, Spaces
  <2>10. next'["initial"] = next["initial"] /\ next'["handshake"] = next["handshake"]
    BY <2>1, Zenon DEF HandlerTyped, Spaces
  <2> QED
    BY <1>2, <2>7, <2>8, <2>9, <2>10, Zenon DEF PtoEffect
<1>4. CASE s # "app"
  <2>1. next' = next /\ skipped' = skipped
    BY <1>4, Zenon DEF SpacePTO
  <2> QED
    BY <1>2, <2>1 DEF PtoEffect, HandlerTyped
<1> QED
  BY <1>3, <1>4, Zenon

(* Any PTO.                                                                *)
LEMMA PTOTyped ==
  ASSUME HandlerTyped, Shaken, NEW probes, NEW skip \in BOOLEAN, PTO(probes, skip)
  PROVE  PtoEffect
<1>1. PTOTimeAndSpace.space \in Spaces
  BY PTOTimeIs, Zenon
<1>2. CASE AntiDeadlockPTO
  <2>1. ptoCount' \in Nat /\ numProbesToSend' \in Nat /\ ptoMode' \in Spaces \cup {"none"}
    BY <1>2 DEF AntiDeadlockPTO, HandlerTyped, Spaces
  <2>2. next' = next /\ skipped' = skipped
    BY <1>2, Zenon DEF AntiDeadlockPTO
  <2> QED
    BY <2>1, <2>2 DEF PtoEffect, HandlerTyped
<1>3. CASE UNCHANGED <<ptoVars, next, skipped, skipFrom, bug>>
  BY <1>3 DEF ptoVars, PtoEffect, HandlerTyped
<1>4. CASE SpacePTO(PTOTimeAndSpace.space, skip)
  BY <1>1, <1>4, SpacePTOTyped, Zenon
<1> QED
  BY <1>2, <1>3, <1>4, Zenon DEF PTO

(* Every timeout.                                                          *)
LEMMA TimeoutTyped ==
  ASSUME HandlerTyped, Shaken, NEW skip \in BOOLEAN, OnLossDetectionTimeout(skip)
  PROVE  HandlerTyped'
<1>1. PICK late : late = IF handshakeConfirmed THEN LostPathProbes(pathProbes) ELSE {}
  BY Zenon
<1>2. pathProbes' \in Map(Nat)
  <2>1. Without(pathProbes, late) \in Map(Nat)
    BY WithoutIs, Zenon DEF HandlerTyped
  <2> QED
    BY <1>1, <2>1, Zenon DEF OnLossDetectionTimeout
<1>3. UNCHANGED <<conf, now, rtt, lastElicitingTime, peerVars, bytesSent, closed>>
  BY Zenon DEF OnLossDetectionTimeout
<1>4. CASE LossTimeAndSpace.time # 0
  <2>1. LossTimeout(late)
    BY <1>1, <1>4, Zenon DEF OnLossDetectionTimeout
  <2>2. histories' \in [Spaces -> Map(Entry)] /\ lossTime' \in [Spaces -> Nat]
    BY <2>1, LossTimeoutTyped, Zenon
  <2>3. UNCHANGED <<next, skipped, ptoVars>>
    BY <2>1, Zenon DEF LossTimeout
  <2> QED
    BY <1>2, <1>3, <2>2, <2>3, Zenon DEF HandlerTyped, ptoVars, peerVars
<1>5. CASE LossTimeAndSpace.time = 0
  <2>1. PTO(pathProbes', skip) /\ histories' = histories /\ lossTime' = lossTime
    BY <1>5, Zenon DEF OnLossDetectionTimeout
  <2>2. PtoEffect
    BY <2>1, PTOTyped, Zenon
  <2> QED
    BY <1>2, <1>3, <2>1, <2>2, Zenon DEF HandlerTyped, PtoEffect, peerVars
<1> QED
  BY <1>4, <1>5, Zenon

(* Dropped keys.                                                           *)
LEMMA DropTyped ==
  ASSUME HandlerTyped
  PROVE  /\ \A s \in Spaces : DropPackets(s) => HandlerTyped'
         /\ Drop0RTT => HandlerTyped'
<1>1. None \in Map(Entry)
  BY EmptyMaps, Zenon
<1>2. ASSUME NEW s \in Spaces, DropPackets(s) PROVE HandlerTyped'
  <2>1. histories' \in [Spaces -> Map(Entry)]
    BY <1>1, <1>2, Zenon DEF DropPackets, HandlerTyped
  <2>2. dropped' \in SUBSET Spaces /\ peerCompletedAddressValidation' \in BOOLEAN
        /\ handshakeConfirmed' \in BOOLEAN
    BY <1>2, Zenon DEF DropPackets, HandlerTyped
  <2>3. ptoCount' \in Nat /\ numProbesToSend' \in Nat /\ ptoMode' \in Spaces \cup {"none"}
    BY <1>2, Zenon DEF DropPackets, ResetPTO
  <2> QED
    BY <1>2, <2>1, <2>2, <2>3, Zenon DEF DropPackets, HandlerTyped, appVars
<1>3. ASSUME Drop0RTT PROVE HandlerTyped'
  <2>1. histories' \in [Spaces -> Map(Entry)]
    BY <1>1, <1>3, Zenon DEF Drop0RTT, HandlerTyped
  <2>2. ptoCount' \in Nat /\ numProbesToSend' \in Nat /\ ptoMode' \in Spaces \cup {"none"}
    BY <1>3, Zenon DEF Drop0RTT, ResetPTO
  <2> QED
    BY <1>3, <2>1, <2>2, Zenon DEF Drop0RTT, HandlerTyped, appVars, peerVars
<1> QED
  BY <1>2, <1>3, Zenon

(* Retry and migration.                                                    *)
LEMMA ResetTyped ==
  ASSUME HandlerTyped
  PROVE  /\ \A skip \in BOOLEAN : ResetForRetry(skip) => HandlerTyped'
         /\ MigratedPath => HandlerTyped'
<1>1. None \in Map(Entry) /\ NoProbes \in Map(Nat)
  BY EmptyMaps, Zenon
<1>2. RTTs \subseteq Nat
  BY ConfIs, Zenon DEF HandlerTyped
<1>3. ASSUME NEW skip \in BOOLEAN, ResetForRetry(skip) PROVE HandlerTyped'
  <2>1. histories' \in [Spaces -> Map(Entry)]
    BY <1>1, <1>3, Zenon DEF ResetForRetry, HandlerTyped
  <2>2. lossTime' \in [Spaces -> Nat] /\ lastElicitingTime' \in [Spaces -> Nat]
    BY <1>3, Zenon DEF ResetForRetry, HandlerTyped
  <2>3. next' \in [Spaces -> Nat] /\ rtt' \in Nat
    BY <1>2, <1>3 DEF ResetForRetry, HandlerTyped, Spaces
  <2>4. pathProbes' \in Map(Nat) /\ skipped' = {} /\ ptoCount' = 0
    BY <1>1, <1>3, Zenon DEF ResetForRetry
  <2>5. UNCHANGED <<conf, now, peerVars, ptoMode, numProbesToSend, bytesSent, closed>>
    BY <1>3, Zenon DEF ResetForRetry
  <2> QED
    BY <2>1, <2>2, <2>3, <2>4, <2>5, Zenon DEF HandlerTyped, peerVars
<1>4. ASSUME MigratedPath PROVE HandlerTyped'
  <2>1. histories' \in [Spaces -> Map(Entry)] /\ rtt' \in Nat
    BY <1>1, <1>2, <1>4, Zenon DEF MigratedPath, HandlerTyped
  <2>2. pathProbes' \in Map(Nat)
    BY <1>4, WithoutIs, Zenon DEF MigratedPath, HandlerTyped
  <2> QED
    BY <1>4, <2>1, <2>2, Zenon DEF MigratedPath, HandlerTyped, peerVars, ptoVars
<1> QED
  BY <1>3, <1>4, Zenon

-----------------------------------------------------------------------------
(* Packets that are given up, acknowledged or lost *)

(* Numbers that were used or skipped are not used again.                   *)
Numbers ==
  /\ \A s \in Spaces : \A n \in DOMAIN histories[s] : n < next[s]
  /\ \A n \in DOMAIN pathProbes \cup skipped : n < next["app"]
  /\ \A s \in Spaces, n \in Nat : <<s, n>> \in sent \cup reported => n < next[s]

(* What is still to be reported is tracked, and what is tracked is not     *)
(* reported yet.                                                           *)
Marked ==
  /\ twice = FALSE
  /\ \A s \in Spaces : \A n \in DOMAIN histories[s] :
       /\ AckEliciting(histories[s][n]) => <<s, n>> \notin reported
       /\ <<s, n>> \in sent => AckEliciting(histories[s][n])
       /\ histories[s][n].kind = "pathProbe" => s = "app"
  /\ \A n \in DOMAIN pathProbes :
       /\ <<"app", n>> \notin reported
       /\ n \in DOMAIN histories["app"] => histories["app"][n].kind = "pathProbe"
  /\ \A n \in skipped : <<"app", n>> \notin sent
  /\ \A s \in Spaces \ dropped, n \in Nat :
       <<s, n>> \in sent => <<s, n>> \in reported \/ n \in DOMAIN histories[s]

(* The packets G of space s leave their history, the probes X are removed, *)
(* and the frames of G and of the probes L are reported.                   *)
Removal(s, G, L, X) ==
  /\ histories' = [histories EXCEPT ![s] = Without(histories[s], G)]
  /\ bytesInFlight' = bytesInFlight - Cardinality(Elicits(histories[s], G))
  /\ pathProbes' = Without(pathProbes, X)
  /\ reported' = reported \cup Of(s, Elicits(histories[s], G)) \cup Of("app", L)
  /\ twice' = (twice \/ (Of(s, Elicits(histories[s], G)) \cup Of("app", L)) \cap reported # {})
  /\ sent' = sent /\ dropped' = dropped
  /\ \A q \in Spaces : next[q] <= next'[q]
  /\ \A n \in skipped' \ skipped : next["app"] <= n /\ n < next'["app"]

(* One space's share of bytesInFlight changes.                             *)
LEMMA ExactStep ==
  ASSUME HandlerTyped, BytesInFlightExact, NEW s \in Spaces, NEW g \in Map(Entry), NEW d \in Int,
         Size(g) = Size(histories[s]) + d,
         histories' = [histories EXCEPT ![s] = g], bytesInFlight' = bytesInFlight + d
  PROVE  BytesInFlightExact'
<1>1. \A q \in Spaces : Size(histories[q]) \in Nat
  BY SizeWithout, Zenon DEF HandlerTyped
<1>2. \A q \in Spaces : histories'[q] = IF q = s THEN g ELSE histories[q]
  BY Zenon DEF HandlerTyped
<1>3. PICK a \in Nat, b \in Nat, c \in Nat :
        a = Size(histories["initial"]) /\ b = Size(histories["handshake"]) /\ c = Size(histories["app"])
  BY <1>1, Zenon DEF Spaces
<1>4. bytesInFlight = a + b + c
  BY <1>3, Zenon DEF BytesInFlightExact
<1>5. CASE s = "initial"
  <2>1. /\ Size(histories'["initial"]) = a + d
        /\ Size(histories'["handshake"]) = b /\ Size(histories'["app"]) = c
    BY <1>2, <1>3, <1>5, Zenon DEF Spaces
  <2> QED
    BY <1>4, <2>1 DEF BytesInFlightExact
<1>6. CASE s = "handshake"
  <2>1. /\ Size(histories'["initial"]) = a
        /\ Size(histories'["handshake"]) = b + d /\ Size(histories'["app"]) = c
    BY <1>2, <1>3, <1>6, Zenon DEF Spaces
  <2> QED
    BY <1>4, <2>1 DEF BytesInFlightExact
<1>7. CASE s = "app"
  <2>1. /\ Size(histories'["initial"]) = a
        /\ Size(histories'["handshake"]) = b /\ Size(histories'["app"]) = c + d
    BY <1>2, <1>3, <1>7, Zenon DEF Spaces
  <2> QED
    BY <1>4, <2>1 DEF BytesInFlightExact
<1> QED
  BY <1>5, <1>6, <1>7, Zenon DEF Spaces

(* bytesInFlight follows the packets that leave.                           *)
LEMMA RemovalExact ==
  ASSUME HandlerTyped, BytesInFlightExact, NEW s \in Spaces,
         NEW G \in SUBSET DOMAIN histories[s], NEW L, NEW X, Removal(s, G, L, X)
  PROVE  BytesInFlightExact'
<1>1. PICK f \in Map(Entry) : f = histories[s]
  BY Zenon DEF HandlerTyped
<1>2. PICK c \in Nat : c = Cardinality(Elicits(f, G))
  BY <1>1, SizeIs, Zenon
<1>3. PICK g : g = Without(f, G)
  BY Zenon
<1>4. g \in Map(Entry)
  BY <1>1, <1>3, WithoutIs, Zenon
<1>5. G \cap DOMAIN f = G
  BY <1>1, Zenon
<1>6. Size(f) \in Nat /\ Size(g) \in Nat /\ Size(g) = Size(f) - c
  BY <1>1, <1>2, <1>3, <1>5, SizeWithout, Zenon
<1>7. PICK d \in Int : d = -c
  BY <1>2
<1>8. Size(g) = Size(histories[s]) + d
  BY <1>1, <1>2, <1>6, <1>7, Zenon
<1>9. bytesInFlight' = bytesInFlight - c
  BY <1>1, <1>2, Zenon DEF Removal
<1>10. bytesInFlight \in Nat
  <2>1. \A q \in Spaces : Size(histories[q]) \in Nat
    BY SizeWithout, Zenon DEF HandlerTyped
  <2> QED
    BY <2>1 DEF BytesInFlightExact, Spaces
<1>11. bytesInFlight' = bytesInFlight + d
  BY <1>2, <1>7, <1>9, <1>10, Zenon
<1>12. histories' = [histories EXCEPT ![s] = g]
  BY <1>1, <1>3, Zenon DEF Removal
<1> QED
  BY <1>4, <1>8, <1>11, <1>12, ExactStep, Zenon

Leaves(s, G, X) ==
  /\ \A q \in Spaces :
       /\ DOMAIN histories'[q] = IF q = s THEN DOMAIN histories[s] \ G ELSE DOMAIN histories[q]
       /\ \A n \in DOMAIN histories'[q] : histories'[q][n] = histories[q][n]
  /\ DOMAIN pathProbes' = DOMAIN pathProbes \ X

(* What is left in the history.                                            *)
LEMMA RemovalLeaves ==
  ASSUME HandlerTyped, NEW s \in Spaces, NEW G \in SUBSET DOMAIN histories[s],
         NEW L, NEW X, Removal(s, G, L, X)
  PROVE  Leaves(s, G, X)
<1>1. PICK f \in Map(Entry) : f = histories[s]
  BY Zenon DEF HandlerTyped
<1>2. PICK g : g = Without(f, G)
  BY Zenon
<1>3. DOMAIN g = DOMAIN f \ G /\ \A n \in DOMAIN f \ G : g[n] = f[n]
  BY <1>2, Zenon DEF Without
<1>4. histories' = [histories EXCEPT ![s] = g]
  BY <1>1, <1>2, Zenon DEF Removal
<1>5. DOMAIN pathProbes' = DOMAIN pathProbes \ X
  BY WithoutIs, Zenon DEF Removal, HandlerTyped
<1>6. ASSUME NEW q \in Spaces
      PROVE  /\ DOMAIN histories'[q] = IF q = s THEN DOMAIN histories[s] \ G ELSE DOMAIN histories[q]
             /\ \A n \in DOMAIN histories'[q] : histories'[q][n] = histories[q][n]
  <2>1. CASE q = s
    BY <1>1, <1>3, <1>4, <2>1, Zenon DEF HandlerTyped
  <2>2. CASE q # s
    BY <1>4, <2>2, Zenon DEF HandlerTyped
  <2> QED
    BY <2>1, <2>2, Zenon
<1> QED
  BY <1>5, <1>6, Zenon DEF Leaves

(* The frames reported were tracked, as packets or as path probes.         *)
LEMMA RemovalReports ==
  ASSUME NEW s \in Spaces, NEW G, NEW L, NEW X, Removal(s, G, L, X)
  PROVE  \A q \in Spaces, n \in Nat : <<q, n>> \in reported' <=>
           \/ <<q, n>> \in reported
           \/ q = s /\ n \in Elicits(histories[s], G)
           \/ q = "app" /\ n \in L
  BY Zenon DEF Removal, Of

(* Numbers stay below the next one.                                        *)
LEMMA RemovalNumbers ==
  ASSUME HandlerTyped, HandlerTyped', Numbers, NEW s \in Spaces,
         NEW G \in SUBSET DOMAIN histories[s],
         NEW L \in SUBSET DOMAIN pathProbes, NEW X, Removal(s, G, L, X)
  PROVE  Numbers'
<1>0. Leaves(s, G, X)
  BY RemovalLeaves, Zenon
<1>1. /\ \A q \in Spaces : next[q] \in Nat /\ next'[q] \in Nat /\ next[q] <= next'[q]
      /\ "app" \in Spaces
  BY Zenon DEF HandlerTyped, Removal, Spaces
<1>2. \A q \in Spaces : DOMAIN histories'[q] \subseteq DOMAIN histories[q]
  BY <1>0, Zenon DEF Leaves
<1>3. \A q \in Spaces : DOMAIN histories[q] \subseteq Nat
  BY MapIs, Zenon DEF HandlerTyped
<1>4. \A q \in Spaces : \A n \in DOMAIN histories'[q] : n < next'[q]
  BY <1>1, <1>2, <1>3 DEF Numbers
<1>5. DOMAIN pathProbes' \subseteq DOMAIN pathProbes /\ DOMAIN pathProbes \subseteq Nat
  BY <1>0, MapIs, Zenon DEF HandlerTyped, Leaves
<1>6. skipped' \subseteq Nat /\ \A n \in skipped' \ skipped : n < next'["app"]
  BY Zenon DEF HandlerTyped, Removal
<1>7. \A n \in DOMAIN pathProbes' \cup skipped' : n < next'["app"]
  <2>1. ASSUME NEW n \in DOMAIN pathProbes' \cup skipped' PROVE n < next'["app"]
    <3>1. n \in Nat
      BY <1>5, <1>6, Zenon
    <3>2. n \in DOMAIN pathProbes \cup skipped \/ n < next'["app"]
      BY <1>5, <1>6, <2>1, Zenon
    <3> QED
      BY <1>1, <3>1, <3>2 DEF Numbers
  <2> QED
    BY <2>1, Zenon
<1>8. ASSUME NEW q \in Spaces, NEW n \in Nat, <<q, n>> \in sent' \cup reported'
      PROVE  n < next'[q]
  <2>1. \/ <<q, n>> \in sent \cup reported
        \/ q = s /\ n \in Elicits(histories[s], G)
        \/ q = "app" /\ n \in L
    BY <1>8, RemovalReports, Zenon DEF Removal
  <2>2. n < next[q]
    BY <2>1, Zenon DEF Numbers, Elicits
  <2> QED
    BY <1>1, <2>2
<1> QED
  BY <1>4, <1>7, <1>8, Zenon DEF Numbers

(* Nothing is reported twice, and nothing that was sent is forgotten.      *)
LEMMA RemovalMarked ==
  ASSUME HandlerTyped, HandlerTyped', Numbers, Marked, NEW s \in Spaces,
         NEW G \in SUBSET DOMAIN histories[s], NEW X,
         NEW L \in SUBSET DOMAIN pathProbes, L \subseteq X, Removal(s, G, L, X)
  PROVE  Marked'
<1>0. Leaves(s, G, X)
  BY RemovalLeaves, Zenon
<1>1. /\ \A q \in Spaces : DOMAIN histories[q] \subseteq Nat
      /\ DOMAIN pathProbes \subseteq Nat /\ "app" \in Spaces
  BY MapIs, Zenon DEF HandlerTyped, Spaces
<1>2. \A n \in L : n \in DOMAIN histories["app"] => ~AckEliciting(histories["app"][n])
  BY Zenon DEF Marked, AckEliciting
<1>3. twice' = FALSE
  <2>1. \A n \in Elicits(histories[s], G) : <<s, n>> \notin reported
    BY Zenon DEF Marked, Elicits
  <2>2. \A n \in L : <<"app", n>> \notin reported
    BY Zenon DEF Marked
  <2> QED
    BY <2>1, <2>2 DEF Removal, Of, Marked
<1>4. ASSUME NEW q \in Spaces, NEW n \in DOMAIN histories'[q]
      PROVE  /\ AckEliciting(histories'[q][n]) => <<q, n>> \notin reported'
             /\ <<q, n>> \in sent' => AckEliciting(histories'[q][n])
             /\ histories'[q][n].kind = "pathProbe" => q = "app"
  <2>1. n \in DOMAIN histories[q] /\ (q = s => n \notin G) /\ histories'[q][n] = histories[q][n]
    BY <1>0, Zenon DEF Leaves
  <2>2. ~(q = s /\ n \in Elicits(histories[s], G))
    BY <2>1, Zenon DEF Elicits
  <2>3. AckEliciting(histories[q][n]) => ~(q = "app" /\ n \in L)
    BY <1>2, <2>1, Zenon
  <2>4. AckEliciting(histories[q][n]) => <<q, n>> \notin reported'
    BY <1>1, <2>1, <2>2, <2>3, RemovalReports DEF Marked
  <2> QED
    BY <2>1, <2>4, Zenon DEF Marked, Removal
<1>5. ASSUME NEW n \in DOMAIN pathProbes'
      PROVE  /\ <<"app", n>> \notin reported'
             /\ n \in DOMAIN histories'["app"] => histories'["app"][n].kind = "pathProbe"
  <2>1. n \in DOMAIN pathProbes /\ n \notin L
    BY <1>0, Zenon DEF Leaves
  <2>2. s = "app" => n \notin Elicits(histories[s], G)
    BY <2>1, Zenon DEF Marked, Elicits, AckEliciting
  <2>3. <<"app", n>> \notin reported'
    BY <1>1, <2>1, <2>2, RemovalReports DEF Marked
  <2>4. n \in DOMAIN histories'["app"] =>
          n \in DOMAIN histories["app"] /\ histories'["app"][n] = histories["app"][n]
    BY <1>0, <1>1, Zenon DEF Leaves
  <2> QED
    BY <2>1, <2>3, <2>4, Zenon DEF Marked
<1>6. ASSUME NEW n \in skipped' PROVE <<"app", n>> \notin sent'
  <2>1. CASE n \in skipped
    BY <2>1, Zenon DEF Marked, Removal
  <2>2. CASE n \notin skipped
    <3>1. next["app"] <= n /\ next["app"] \in Nat /\ sent' = sent
      BY <1>6, <2>2, Zenon DEF Removal, HandlerTyped, Spaces
    <3>2. \A m \in Nat : <<"app", m>> \in sent => m < next["app"]
      BY <1>1, Zenon DEF Numbers
    <3>3. n \in Nat
      BY <1>6, Zenon DEF HandlerTyped
    <3> QED
      BY <3>1, <3>2, <3>3
  <2> QED
    BY <2>1, <2>2, Zenon
<1>7. ASSUME NEW q \in Spaces \ dropped', NEW n \in Nat, <<q, n>> \in sent'
      PROVE  <<q, n>> \in reported' \/ n \in DOMAIN histories'[q]
  <2>1. <<q, n>> \in sent /\ q \in Spaces \ dropped
    BY <1>7, Zenon DEF Removal
  <2>2. <<q, n>> \in reported \/ n \in DOMAIN histories[q]
    BY <2>1, Zenon DEF Marked
  <2>3. CASE <<q, n>> \in reported
    BY <2>3, Zenon DEF Removal
  <2>4. CASE n \in DOMAIN histories[q] /\ ~(q = s /\ n \in G)
    BY <1>0, <2>4, Zenon DEF Leaves
  <2>5. CASE n \in DOMAIN histories[q] /\ q = s /\ n \in G
    <3>1. n \in Elicits(histories[s], G)
      BY <2>1, <2>5, Zenon DEF Marked, Elicits
    <3> QED
      BY <2>5, <3>1, RemovalReports, Zenon
  <2> QED
    BY <2>2, <2>3, <2>4, <2>5, Zenon
<1> QED
  BY <1>3, <1>4, <1>5, <1>6, <1>7, Zenon DEF Marked

Accounted == Numbers /\ Marked /\ BytesInFlightExact

(* All of it.                                                              *)
LEMMA RemovalKeeps ==
  ASSUME HandlerTyped, HandlerTyped', Accounted, NEW s \in Spaces,
         NEW G \in SUBSET DOMAIN histories[s], NEW X,
         NEW L \in SUBSET DOMAIN pathProbes, L \subseteq X, Removal(s, G, L, X)
  PROVE  Accounted'
<1>1. Numbers'
  BY RemovalNumbers, Zenon DEF Accounted
<1>2. Marked'
  BY RemovalMarked, Zenon DEF Accounted
<1>3. BytesInFlightExact'
  BY RemovalExact, Zenon DEF Accounted
<1> QED
  BY <1>1, <1>2, <1>3, Zenon DEF Accounted

(* Removing packets in two goes.                                           *)
LEMMA WithoutTwice ==
  ASSUME NEW f, NEW S, NEW T
  PROVE  Without(Without(f, S), T) = Without(f, S \cup T)
<1>1. PICK g : g = Without(f, S)
  BY Zenon
<1>2. DOMAIN g = DOMAIN f \ S /\ \A n \in DOMAIN f \ S : g[n] = f[n]
  BY <1>1, Zenon DEF Without
<1>3. [n \in DOMAIN g \ T |-> g[n]] = [n \in DOMAIN f \ (S \cup T) |-> f[n]]
  BY <1>2, Zenon
<1> QED
  BY <1>1, <1>3, Zenon DEF Without

(* ReceivedAck removes what it acknowledges and what it finds lost.        *)
LEMMA NewAckKeeps ==
  ASSUME HandlerTyped, HandlerTyped', Accounted, NEW s \in Spaces, NEW ack, ReceivedNewAck(s, ack)
  PROVE  Accounted'
<1>1. PICK f, acked, largest :
        /\ f = histories[s] /\ acked = AckedPackets(s, ack)
        /\ largest = Max({largestAcked[s], Max(ack)})
  BY Zenon
<1>2. PICK probes, left : probes = {n \in acked : f[n].kind = "pathProbe"} /\ left = Without(f, acked)
  BY Zenon
<1>3. PICK lost, kept : lost = LostPackets(s, left, largest, rtt') /\ kept = Without(pathProbes, probes)
  BY Zenon
<1>4. PICK late : late = IF s = "app" THEN LostPathProbes(kept) ELSE {}
  BY Zenon
<1>5. PICK G, L : G = acked \cup lost /\ L = probes \cup late
  BY Zenon
<1>6. f \in Map(Entry) /\ pathProbes \in Map(Nat)
  BY <1>1, Zenon DEF HandlerTyped
<1>7. acked \subseteq DOMAIN f /\ probes \subseteq DOMAIN pathProbes /\ (s # "app" => probes = {})
  <2>1. acked \subseteq DOMAIN f /\ probes \subseteq DOMAIN pathProbes
    BY <1>1, <1>2, Zenon DEF AckedPackets
  <2>2. \A n \in DOMAIN f : f[n].kind = "pathProbe" => s = "app"
    BY <1>1, Zenon DEF Accounted, Marked
  <2> QED
    BY <1>2, <2>1, <2>2, Zenon
<1>8. lost \subseteq DOMAIN f /\ late \subseteq DOMAIN pathProbes
  <2>1. DOMAIN left \subseteq DOMAIN f /\ DOMAIN kept \subseteq DOMAIN pathProbes
    BY <1>2, <1>3, Zenon DEF Without
  <2> QED
    BY <1>3, <1>4, <2>1, Zenon DEF LostPackets, LostPathProbes
<1>9. PICK gone : gone = {n \in G : AckEliciting(f[n])}
  BY Zenon
<1>10. /\ histories' = [histories EXCEPT ![s] = Without(left, lost)]
       /\ pathProbes' = Without(kept, late)
       /\ RemoveFromBytesInFlight(s, gone)
       /\ Report(Of(s, gone \cup probes) \cup Of("app", late))
       /\ UNCHANGED <<next, skipped, dropped, sent>>
  BY <1>1, <1>2, <1>3, <1>4, <1>5, <1>9, Zenon DEF ReceivedNewAck
<1>11. gone = Elicits(histories[s], G) /\ {n \in gone : AckEliciting(histories[s][n])} = gone
  BY <1>1, <1>9, Zenon DEF Elicits
<1>12. Of(s, gone \cup probes) \cup Of("app", late) = Of(s, gone) \cup Of("app", L)
  BY <1>5, <1>7, Zenon DEF Of
<1>13. Without(left, lost) = Without(f, G) /\ Without(kept, late) = Without(pathProbes, L)
  BY <1>2, <1>3, <1>5, WithoutTwice
<1>14. \A q \in Spaces : next[q] <= next'[q]
  BY <1>10 DEF HandlerTyped
<1>15. bytesInFlight' = bytesInFlight - Cardinality(Elicits(histories[s], G))
  BY <1>10, <1>11, Zenon DEF RemoveFromBytesInFlight
<1>16. Removal(s, G, L, L)
  BY <1>1, <1>10, <1>11, <1>12, <1>13, <1>14, <1>15, Zenon DEF Removal, Report
<1>17. G \in SUBSET DOMAIN histories[s] /\ L \in SUBSET DOMAIN pathProbes
  BY <1>1, <1>5, <1>7, <1>8, Zenon
<1> QED
  BY <1>16, <1>17, RemovalKeeps, Zenon

(* A timeout removes what is lost.                                         *)
LEMMA TimeoutKeeps ==
  ASSUME HandlerTyped, HandlerTyped', Shaken, Accounted, NEW skip \in BOOLEAN,
         OnLossDetectionTimeout(skip)
  PROVE  Accounted'
<1>1. PICK late : late = IF handshakeConfirmed THEN LostPathProbes(pathProbes) ELSE {}
  BY Zenon
<1>2. late \in SUBSET DOMAIN pathProbes /\ pathProbes' = Without(pathProbes, late)
  BY <1>1, Zenon DEF OnLossDetectionTimeout, LostPathProbes
<1>3. UNCHANGED <<sent, dropped>>
  BY Zenon DEF OnLossDetectionTimeout, peerVars
<1>4. CASE LossTimeAndSpace.time # 0
  <2>1. LossTimeout(late)
    BY <1>1, <1>4, Zenon DEF OnLossDetectionTimeout
  <2>2. PICK s \in Spaces : s = LossTimeAndSpace.space
    BY LossTimeIs, Zenon
  <2>3. PICK f, lost : f = histories[s] /\ lost = LostPackets(s, f, largestAcked[s], rtt)
    BY Zenon
  <2>4. PICK gone : gone = {n \in lost : AckEliciting(f[n])}
    BY Zenon
  <2>5. /\ histories' = [histories EXCEPT ![s] = Without(f, lost)]
        /\ RemoveFromBytesInFlight(s, gone)
        /\ Report(Of(s, gone) \cup Of("app", late))
        /\ UNCHANGED <<next, skipped>>
    BY <2>1, <2>2, <2>3, <2>4, Zenon DEF LossTimeout
  <2>6. gone = Elicits(histories[s], lost) /\ {n \in gone : AckEliciting(histories[s][n])} = gone
    BY <2>3, <2>4, Zenon DEF Elicits
  <2>7. lost \in SUBSET DOMAIN histories[s]
    BY <2>3, Zenon DEF LostPackets
  <2>8. \A q \in Spaces : next[q] <= next'[q]
    BY <2>5 DEF HandlerTyped
  <2>9. bytesInFlight' = bytesInFlight - Cardinality(Elicits(histories[s], lost))
    BY <2>5, <2>6, Zenon DEF RemoveFromBytesInFlight
  <2>10. Removal(s, lost, late, late)
    BY <1>2, <1>3, <2>3, <2>5, <2>6, <2>8, <2>9, Zenon DEF Removal, Report
  <2> QED
    BY <1>2, <2>7, <2>10, RemovalKeeps, Zenon
<1>5. CASE LossTimeAndSpace.time = 0
  <2>1. PTO(pathProbes', skip) /\ Report(Of("app", late)) /\ UNCHANGED <<histories, bytesInFlight>>
    BY <1>1, <1>5, Zenon DEF OnLossDetectionTimeout
  <2>2. PtoEffect
    BY <2>1, PTOTyped, Zenon
  <2>3. "app" \in Spaces /\ {} \in SUBSET DOMAIN histories["app"]
    BY Zenon DEF Spaces
  <2>4. PICK f \in Map(Entry) : f = histories["app"]
    BY <2>3, Zenon DEF HandlerTyped
  <2>5. Without(f, {}) = f
    BY WithoutNone, Zenon
  <2>6. histories' = [histories EXCEPT !["app"] = Without(histories["app"], {})]
    BY <2>1, <2>3, <2>4, <2>5, Zenon DEF HandlerTyped
  <2>7. Elicits(histories["app"], {}) = {} /\ Of("app", {}) = {}
    BY Zenon DEF Elicits, Of
  <2>8. bytesInFlight \in Nat
    <3>1. \A q \in Spaces : Size(histories[q]) \in Nat
      BY SizeWithout, Zenon DEF HandlerTyped
    <3> QED
      BY <3>1 DEF Accounted, BytesInFlightExact, Spaces
  <2>9. bytesInFlight' = bytesInFlight - Cardinality(Elicits(histories["app"], {}))
    BY <2>1, <2>7, <2>8, FS_EmptySet
  <2>10. Removal("app", {}, late, late)
    BY <1>2, <1>3, <2>1, <2>2, <2>6, <2>7, <2>9, Zenon DEF Removal, Report, PtoEffect
  <2> QED
    BY <1>2, <2>3, <2>10, RemovalKeeps, Zenon
<1> QED
  BY <1>4, <1>5, Zenon

(* A migration gives up the packets of the old path.                       *)
LEMMA MigrationKeeps ==
  ASSUME HandlerTyped, HandlerTyped', Accounted, MigratedPath
  PROVE  Accounted'
<1>1. PICK f \in Map(Entry) : f = histories["app"]
  BY Zenon DEF HandlerTyped, Spaces
<1>2. PICK gone, X : gone = {n \in DOMAIN f : AckEliciting(f[n])} /\ X = RemoveWhileIterating(pathProbes)
  BY Zenon
<1>3. Without(f, DOMAIN f) = None
  BY WithoutAll, Zenon
<1>4. /\ histories' = [histories EXCEPT !["app"] = None]
      /\ RemoveFromBytesInFlight("app", gone) /\ Report(Of("app", gone))
      /\ pathProbes' = Without(pathProbes, X)
      /\ UNCHANGED <<next, skipped, sent, peerVars>>
  BY <1>1, <1>2, Zenon DEF MigratedPath
<1>5. gone = Elicits(histories["app"], DOMAIN f)
      /\ {n \in gone : AckEliciting(histories["app"][n])} = gone /\ Of("app", {}) = {}
  BY <1>1, <1>2, Zenon DEF Elicits, Of
<1>6. bytesInFlight' = bytesInFlight - Cardinality(Elicits(histories["app"], DOMAIN f))
  BY <1>4, <1>5, Zenon DEF RemoveFromBytesInFlight
<1>7. \A q \in Spaces : next[q] <= next'[q]
  BY <1>4 DEF HandlerTyped
<1>8. Removal("app", DOMAIN f, {}, X)
  BY <1>1, <1>3, <1>4, <1>5, <1>6, <1>7, Zenon DEF Removal, Report, peerVars
<1>9. "app" \in Spaces /\ DOMAIN f \in SUBSET DOMAIN histories["app"]
      /\ {} \in SUBSET DOMAIN pathProbes /\ {} \subseteq X
  BY <1>1, Zenon DEF Spaces
<1> QED
  BY <1>8, <1>9, RemovalKeeps

-----------------------------------------------------------------------------
(* Packets that are sent *)

Fits(s, n, kind) ==
  /\ s \in Spaces \ dropped /\ n \in Nat /\ next[s] <= n /\ kind \in AllKinds
  /\ kind = "pathProbe" => s = "app"

(* What HandlerSentPacket does with the packets lost, tracked until then,  *)
(* and with the new packet n.                                              *)
Sending(s, n, kind, lost) ==
  /\ histories' = [histories EXCEPT ![s] = With(Without(histories[s], lost), n, NewEntry(kind))]
  /\ bytesInFlight' = bytesInFlight - Cardinality(lost) + (IF AckEliciting([kind |-> kind]) THEN 1 ELSE 0)
  /\ pathProbes' = IF kind = "pathProbe" THEN With(pathProbes, n, now) ELSE pathProbes
  /\ reported' = reported \cup Of(s, lost)
  /\ twice' = (twice \/ Of(s, lost) \cap reported # {})
  /\ sent' = IF AckEliciting([kind |-> kind]) THEN sent \cup {<<s, n>>} ELSE sent
  /\ dropped' = dropped
  /\ next' = [next EXCEPT ![s] = n + 1]
  /\ \A m \in skipped' \ skipped : s = "app" /\ next["app"] <= m /\ m < n

(* The count with the lost packets gone and the new one added.             *)
LEMMA SendingExact ==
  ASSUME HandlerTyped, Accounted, NEW s, NEW n, NEW kind, Fits(s, n, kind),
         NEW lost \in SUBSET DOMAIN histories[s],
         \A m \in lost : AckEliciting(histories[s][m]), Sending(s, n, kind, lost)
  PROVE  BytesInFlightExact'
<1>1. s \in Spaces /\ n \in Nat /\ kind \in AllKinds
  BY Zenon DEF Fits
<1>2. PICK f \in Map(Entry) : f = histories[s]
  BY <1>1, Zenon DEF HandlerTyped
<1>3. n \notin DOMAIN f
  <2>1. \A m \in DOMAIN f : m < next[s] /\ m \in Nat
    BY <1>1, <1>2, MapIs, Zenon DEF Accounted, Numbers
  <2>2. next[s] \in Nat /\ next[s] <= n
    BY <1>1, Zenon DEF HandlerTyped, Fits
  <2> QED
    BY <1>1, <2>1, <2>2
<1>4. PICK h : h = Without(f, lost)
  BY Zenon
<1>5. h \in Map(Entry) /\ DOMAIN h = DOMAIN f \ lost
  BY <1>4, WithoutIs, Zenon
<1>6. Elicits(f, lost \cap DOMAIN f) = lost
  BY <1>2, Zenon DEF Elicits
<1>7. Size(f) \in Nat /\ Size(h) \in Nat /\ Size(h) = Size(f) - Cardinality(lost)
  BY <1>4, <1>6, SizeWithout, Zenon
<1>8. PICK e \in Entry : e = NewEntry(kind) /\ e.kind = kind
  BY <1>1, NewEntryIs, Zenon
<1>9. PICK g : g = With(h, n, e)
  BY Zenon
<1>10. PICK one \in Nat : one = IF AckEliciting(e) THEN 1 ELSE 0
  BY Zenon
<1>11. g \in Map(Entry) /\ Size(g) = Size(h) + one
  BY <1>1, <1>3, <1>5, <1>9, <1>10, SizeWith, WithIs
<1>12. PICK c \in Nat : c = Cardinality(lost)
  <2>1. IsFiniteSet(Elicits(f, lost \cap DOMAIN f)) /\ lost \cap DOMAIN f \in SUBSET DOMAIN f
    BY SizeIs, Zenon
  <2> QED
    BY <1>6, <2>1, FS_CardinalityType, Zenon
<1>13. PICK d \in Int : d = one - c
  BY <1>10, <1>12
<1>14. Size(g) = Size(histories[s]) + d
  BY <1>2, <1>7, <1>10, <1>11, <1>12, <1>13
<1>15. AckEliciting(e) <=> AckEliciting([kind |-> kind])
  BY <1>8, Zenon DEF AckEliciting
<1>16. bytesInFlight' = bytesInFlight - c + one
  BY <1>10, <1>12, <1>15, Zenon DEF Sending
<1>17. bytesInFlight \in Nat
  <2>1. \A q \in Spaces : Size(histories[q]) \in Nat
    BY SizeWithout, Zenon DEF HandlerTyped
  <2> QED
    BY <2>1 DEF Accounted, BytesInFlightExact, Spaces
<1>18. bytesInFlight' = bytesInFlight + d
  BY <1>10, <1>12, <1>13, <1>16, <1>17
<1>19. histories' = [histories EXCEPT ![s] = g]
  BY <1>2, <1>4, <1>8, <1>9, Zenon DEF Sending
<1> QED
  BY <1>1, <1>11, <1>14, <1>18, <1>19, ExactStep, Zenon DEF Accounted

(* The history afterwards.                                                 *)
SendingAdds(s, n, kind, lost) ==
  /\ \A q \in Spaces :
       DOMAIN histories'[q] = IF q = s THEN (DOMAIN histories[s] \ lost) \cup {n} ELSE DOMAIN histories[q]
  /\ histories'[s][n].kind = kind
  /\ \A q \in Spaces : \A m \in DOMAIN histories'[q] :
       ~(q = s /\ m = n) => histories'[q][m] = histories[q][m]
  /\ DOMAIN pathProbes' = DOMAIN pathProbes \cup (IF kind = "pathProbe" THEN {n} ELSE {})

(* The new packet, and what is left of the others.                         *)
LEMMA SendingLeaves ==
  ASSUME HandlerTyped, NEW s, NEW n, NEW kind, Fits(s, n, kind), NEW lost, Sending(s, n, kind, lost)
  PROVE  SendingAdds(s, n, kind, lost)
<1>1. s \in Spaces /\ n \in Nat /\ kind \in AllKinds
  BY Zenon DEF Fits
<1>2. PICK f \in Map(Entry) : f = histories[s]
  BY <1>1, Zenon DEF HandlerTyped
<1>3. PICK h : h = Without(f, lost)
  BY Zenon
<1>4. h \in Map(Entry) /\ DOMAIN h = DOMAIN f \ lost /\ \A m \in DOMAIN f \ lost : h[m] = f[m]
  BY <1>3, WithoutIs
<1>5. PICK e \in Entry : e = NewEntry(kind) /\ e.kind = kind
  BY <1>1, NewEntryIs, Zenon
<1>6. PICK g : g = With(h, n, e)
  BY Zenon
<1>7. DOMAIN g = DOMAIN h \cup {n} /\ g[n] = e /\ \A m \in DOMAIN h \ {n} : g[m] = h[m]
  BY <1>6, Zenon DEF With
<1>8. histories' = [histories EXCEPT ![s] = g]
  BY <1>2, <1>3, <1>5, <1>6, Zenon DEF Sending
<1>9. \A q \in Spaces : histories'[q] = IF q = s THEN g ELSE histories[q]
  BY <1>8, Zenon DEF HandlerTyped
<1>10. DOMAIN With(pathProbes, n, now) = DOMAIN pathProbes \cup {n}
  BY Zenon DEF With
<1>11. DOMAIN pathProbes' = DOMAIN pathProbes \cup (IF kind = "pathProbe" THEN {n} ELSE {})
  BY <1>10, Zenon DEF Sending
<1>12. ASSUME NEW q \in Spaces, NEW m \in DOMAIN histories'[q], ~(q = s /\ m = n)
       PROVE  histories'[q][m] = histories[q][m]
  BY <1>2, <1>4, <1>7, <1>9, <1>12
<1>13. histories'[s][n].kind = kind
  BY <1>1, <1>5, <1>7, <1>9, Zenon
<1>14. \A q \in Spaces :
       DOMAIN histories'[q] = IF q = s THEN (DOMAIN histories[s] \ lost) \cup {n} ELSE DOMAIN histories[q]
  BY <1>2, <1>4, <1>7, <1>9, Zenon
<1> QED
  BY <1>11, <1>12, <1>13, <1>14, Zenon DEF SendingAdds

(* The number was not used before.                                         *)
LEMMA SendingFresh ==
  ASSUME HandlerTyped, Numbers, NEW s, NEW n, NEW kind, Fits(s, n, kind)
  PROVE  /\ n \notin DOMAIN histories[s] /\ <<s, n>> \notin sent \cup reported
         /\ s = "app" => n \notin DOMAIN pathProbes \cup skipped
<1>1. s \in Spaces /\ n \in Nat /\ next[s] \in Nat /\ next[s] <= n
  BY Zenon DEF Fits, HandlerTyped
<1>2. \A m \in Nat : m < next[s] => m # n
  BY <1>1
<1>3. DOMAIN histories[s] \subseteq Nat /\ DOMAIN pathProbes \cup skipped \subseteq Nat
  BY <1>1, MapIs, Zenon DEF HandlerTyped
<1>4. n \notin DOMAIN histories[s]
  <2>1. \A m \in DOMAIN histories[s] : m < next[s]
    BY <1>1, Zenon DEF Numbers
  <2> QED
    BY <1>2, <1>3, <2>1, Zenon
<1>5. <<s, n>> \notin sent \cup reported
  BY <1>1, <1>2, Zenon DEF Numbers
<1>6. ASSUME s = "app" PROVE n \notin DOMAIN pathProbes \cup skipped
  <2>1. \A m \in DOMAIN pathProbes \cup skipped : m < next[s]
    BY <1>6, Zenon DEF Numbers
  <2> QED
    BY <1>2, <1>3, <2>1, Zenon
<1> QED
  BY <1>4, <1>5, <1>6, Zenon

(* Numbers stay below the next one.                                        *)
LEMMA SendingNumbers ==
  ASSUME HandlerTyped, HandlerTyped', Numbers, NEW s, NEW n, NEW kind, Fits(s, n, kind),
         NEW lost \in SUBSET DOMAIN histories[s], Sending(s, n, kind, lost)
  PROVE  Numbers'
<1>1. SendingAdds(s, n, kind, lost)
  BY SendingLeaves, Zenon
<1>2. s \in Spaces /\ n \in Nat /\ next[s] <= n /\ "app" \in Spaces
  BY Zenon DEF Fits, Spaces
<1>3. \A q \in Spaces : next[q] \in Nat /\ next'[q] = IF q = s THEN n + 1 ELSE next[q]
  BY <1>2, Zenon DEF Sending, HandlerTyped
<1>4. \A q \in Spaces : DOMAIN histories[q] \subseteq Nat
  BY MapIs, Zenon DEF HandlerTyped
<1>5. ASSUME NEW q \in Spaces, NEW m \in DOMAIN histories'[q] PROVE m < next'[q]
  <2>1. m \in DOMAIN histories[q] \/ (q = s /\ m = n)
    BY <1>1, <1>5, Zenon DEF SendingAdds
  <2> QED
    BY <1>2, <1>3, <1>4, <2>1 DEF Numbers
<1>6. ASSUME NEW m \in DOMAIN pathProbes' \cup skipped' PROVE m < next'["app"]
  <2>1. CASE m \in DOMAIN pathProbes \cup skipped
    <3>1. m < next["app"] /\ m \in Nat
      BY <2>1, MapIs, Zenon DEF Numbers, HandlerTyped
    <3> QED
      BY <1>2, <1>3, <3>1
  <2>2. CASE m \notin DOMAIN pathProbes \cup skipped /\ m \in DOMAIN pathProbes'
    <3>1. m = n /\ s = "app"
      BY <1>1, <2>2, Zenon DEF SendingAdds, Fits
    <3> QED
      BY <1>2, <1>3, <3>1
  <2>3. CASE m \notin DOMAIN pathProbes \cup skipped /\ m \in skipped'
    <3>1. s = "app" /\ m < n /\ m \in Nat
      BY <2>3, Zenon DEF Sending, HandlerTyped
    <3> QED
      BY <1>2, <1>3, <3>1
  <2> QED
    BY <1>6, <2>1, <2>2, <2>3, Zenon
<1>7. ASSUME NEW q \in Spaces, NEW m \in Nat, <<q, m>> \in sent' \cup reported' PROVE m < next'[q]
  <2>1. <<q, m>> \in sent \cup reported \/ (q = s /\ (m = n \/ m \in lost))
    BY <1>7, Zenon DEF Sending, Of
  <2>2. m < next[q] \/ (q = s /\ m = n)
    BY <1>2, <2>1, Zenon DEF Numbers
  <2> QED
    BY <1>2, <1>3, <2>2
<1> QED
  BY <1>5, <1>6, <1>7, Zenon DEF Numbers

(* The packets given up are reported once; the new one is not.             *)
LEMMA SendingMarked ==
  ASSUME HandlerTyped, HandlerTyped', Numbers, Marked, NEW s, NEW n, NEW kind, Fits(s, n, kind),
         NEW lost \in SUBSET DOMAIN histories[s],
         \A m \in lost : AckEliciting(histories[s][m]), Sending(s, n, kind, lost)
  PROVE  Marked'
<1>1. SendingAdds(s, n, kind, lost)
  BY SendingLeaves, Zenon
<1>2. s \in Spaces /\ n \in Nat /\ "app" \in Spaces /\ (kind = "pathProbe" => s = "app")
  BY Zenon DEF Fits, Spaces
<1>3. /\ n \notin DOMAIN histories[s] /\ <<s, n>> \notin sent \cup reported
      /\ s = "app" => n \notin DOMAIN pathProbes \cup skipped
  BY SendingFresh, Zenon
<1>4. \A q \in Spaces : DOMAIN histories[q] \subseteq Nat
  BY MapIs, Zenon DEF HandlerTyped
<1>5. \A q, m : <<q, m>> \in reported' <=> <<q, m>> \in reported \/ (q = s /\ m \in lost)
  BY Zenon DEF Sending, Of
<1>6. \A q, m : <<q, m>> \in sent' <=>
        <<q, m>> \in sent \/ (q = s /\ m = n /\ AckEliciting([kind |-> kind]))
  BY Zenon DEF Sending
<1>7. \A m \in lost : <<s, m>> \notin reported
  BY <1>2, Zenon DEF Marked
<1>8. twice' = FALSE
  BY <1>7, Zenon DEF Sending, Of, Marked
<1>9. ASSUME NEW q \in Spaces, NEW m \in DOMAIN histories'[q]
      PROVE  /\ AckEliciting(histories'[q][m]) => <<q, m>> \notin reported'
             /\ <<q, m>> \in sent' => AckEliciting(histories'[q][m])
             /\ histories'[q][m].kind = "pathProbe" => q = "app"
  <2>1. CASE q = s /\ m = n
    <3>1. histories'[q][m].kind = kind
      BY <1>1, <2>1, Zenon DEF SendingAdds
    <3>2. AckEliciting(histories'[q][m]) <=> AckEliciting([kind |-> kind])
      BY <3>1, Zenon DEF AckEliciting
    <3>3. <<q, m>> \notin reported'
      BY <1>3, <1>5, <2>1, Zenon
    <3> QED
      BY <1>2, <1>3, <1>6, <2>1, <3>1, <3>2, <3>3, Zenon
  <2>2. CASE ~(q = s /\ m = n)
    <3>1. m \in DOMAIN histories[q] /\ histories'[q][m] = histories[q][m] /\ (q = s => m \notin lost)
      BY <1>1, <1>9, <2>2, Zenon DEF SendingAdds
    <3> QED
      BY <1>5, <1>6, <2>2, <3>1 DEF Marked
  <2> QED
    BY <2>1, <2>2, Zenon
<1>10. ASSUME NEW m \in DOMAIN pathProbes'
       PROVE  /\ <<"app", m>> \notin reported'
              /\ m \in DOMAIN histories'["app"] => histories'["app"][m].kind = "pathProbe"
  <2>1. CASE m \in DOMAIN pathProbes
    <3>1. <<"app", m>> \notin reported /\ (s = "app" => m \notin lost)
      BY <2>1, Zenon DEF Marked, AckEliciting
    <3>2. s = "app" => m # n
      BY <1>3, <2>1, Zenon
    <3>3. m \in DOMAIN histories'["app"] =>
            m \in DOMAIN histories["app"] /\ histories'["app"][m] = histories["app"][m]
      BY <1>1, <1>2, <3>2 DEF SendingAdds
    <3> QED
      BY <1>5, <2>1, <3>1, <3>3, Zenon DEF Marked
  <2>2. CASE m \notin DOMAIN pathProbes
    <3>1. m = n /\ kind = "pathProbe" /\ s = "app"
      BY <1>1, <1>2, <1>10, <2>2, Zenon DEF SendingAdds
    <3> QED
      BY <1>1, <1>3, <1>5, <3>1, Zenon DEF SendingAdds
  <2> QED
    BY <2>1, <2>2, Zenon
<1>11. ASSUME NEW m \in skipped' PROVE <<"app", m>> \notin sent'
  <2>1. CASE m \in skipped
    BY <1>3, <1>6, <2>1 DEF Marked
  <2>2. CASE m \notin skipped
    <3>1. s = "app" /\ next["app"] <= m /\ m < n /\ m \in Nat /\ next["app"] \in Nat
      BY <1>2, <1>11, <2>2, Zenon DEF Sending, HandlerTyped
    <3>2. m # n /\ ~(m < next["app"])
      BY <1>2, <3>1
    <3>3. <<"app", m>> \notin sent
      BY <1>2, <3>1, <3>2, Zenon DEF Numbers
    <3> QED
      BY <1>6, <3>2, <3>3
  <2> QED
    BY <2>1, <2>2, Zenon
<1>12. ASSUME NEW q \in Spaces \ dropped', NEW m \in Nat, <<q, m>> \in sent'
       PROVE  <<q, m>> \in reported' \/ m \in DOMAIN histories'[q]
  <2>1. CASE q = s /\ m = n
    BY <1>1, <2>1, Zenon DEF SendingAdds
  <2>2. CASE ~(q = s /\ m = n)
    <3>1. <<q, m>> \in sent /\ q \in Spaces \ dropped
      BY <1>6, <1>12, <2>2, Zenon DEF Sending
    <3>2. <<q, m>> \in reported \/ m \in DOMAIN histories[q]
      BY <3>1, Zenon DEF Marked
    <3> QED
      BY <1>1, <1>5, <3>2, Zenon DEF SendingAdds
  <2> QED
    BY <2>1, <2>2, Zenon
<1> QED
  BY <1>8, <1>9, <1>10, <1>11, <1>12, Zenon DEF Marked

(* SentPacket, whatever is given up before it.                             *)
LEMMA SentPacketKeeps ==
  ASSUME HandlerTyped, Accounted, NEW s \in Spaces, s \notin dropped, NEW kind \in AllKinds,
         kind = "pathProbe" => s = "app", NEW skip \in BOOLEAN,
         NEW lost \in SUBSET DOMAIN histories[s],
         \A m \in lost : AckEliciting(histories[s][m]),
         HandlerSentPacket(s, kind, skip, lost),
         reported' = reported \cup Of(s, lost),
         twice' = (twice \/ Of(s, lost) \cap reported # {})
  PROVE  HandlerTyped' /\ Accounted'
<1>1. HandlerTyped'
  BY SentPacketTyped, Zenon
<1>2. next[s] \in Nat
  BY Zenon DEF HandlerTyped
<1>3. PICK n \in Nat : n = IF skip THEN next[s] + 1 ELSE next[s]
  BY <1>2
<1>4. Fits(s, n, kind)
  BY <1>2, <1>3 DEF Fits
<1>5. /\ histories' = [histories EXCEPT ![s] = With(Without(histories[s], lost), n, NewEntry(kind))]
      /\ bytesInFlight' = bytesInFlight - Cardinality(lost) + (IF AckEliciting([kind |-> kind]) THEN 1 ELSE 0)
      /\ pathProbes' = IF kind = "pathProbe" THEN With(pathProbes, n, now) ELSE pathProbes
      /\ sent' = IF AckEliciting([kind |-> kind]) THEN sent \cup {<<s, n>>} ELSE sent
      /\ next' = [next EXCEPT ![s] = n + 1]
  BY <1>3, Zenon DEF HandlerSentPacket, NewEntry
<1>6. dropped' = dropped
  BY Zenon DEF HandlerSentPacket, peerVars
<1>7. \A m \in skipped' \ skipped : s = "app" /\ next["app"] <= m /\ m < n
  <2>1. CASE skip
    <3>1. s = "app" /\ skipped' \subseteq skipped \cup {next[s]}
      BY <2>1, KeepNewestIs, Zenon DEF HandlerSentPacket
    <3> QED
      BY <1>2, <1>3, <2>1, <3>1
  <2>2. CASE ~skip
    BY <2>2, Zenon DEF HandlerSentPacket
  <2> QED
    BY <2>1, <2>2, Zenon
<1>8. Sending(s, n, kind, lost)
  BY <1>5, <1>6, <1>7, Zenon DEF Sending
<1>9. Numbers'
  BY <1>1, <1>4, <1>8, SendingNumbers, Zenon DEF Accounted
<1>10. Marked'
  BY <1>1, <1>4, <1>8, SendingMarked, Zenon DEF Accounted
<1>11. BytesInFlightExact'
  BY <1>4, <1>8, SendingExact, Zenon
<1> QED
  BY <1>1, <1>9, <1>10, <1>11, Zenon DEF Accounted

(* A path probe is a 1-RTT packet.                                         *)
LEMMA SendableIs ==
  ASSUME NEW s \in Spaces, NEW kind, kind \in Sendable(s)
  PROVE  kind = "pathProbe" => s = "app"
  BY Zenon DEF Sendable, Spaces

(* A packet is sent.                                                       *)
LEMMA SendKeeps ==
  ASSUME HandlerTyped, Accounted, NEW s \in Spaces, NEW kind \in SentKinds, NEW skip \in BOOLEAN,
         Send(s, kind, skip)
  PROVE  HandlerTyped' /\ Accounted'
<1>1. kind \in AllKinds
  BY ConfIs, Zenon DEF HandlerTyped
<1>2. s \notin dropped /\ kind \in Sendable(s) /\ HandlerSentPacket(s, kind, skip, {})
      /\ reported' = reported /\ twice' = twice
  BY Zenon DEF Send
<1>3. kind = "pathProbe" => s = "app"
  BY <1>2, SendableIs, Zenon
<1>4. {} \in SUBSET DOMAIN histories[s] /\ Of(s, {}) = {}
  BY Zenon DEF Of
<1>5. reported' = reported \cup Of(s, {})
  BY <1>2, <1>4, Zenon
<1>6. twice' = (twice \/ Of(s, {}) \cap reported # {})
  BY <1>2, <1>4, Zenon DEF Accounted, Marked
<1> QED
  BY <1>1, <1>2, <1>3, <1>4, <1>5, <1>6, SentPacketKeeps, Zenon

(* A probe is sent for packets that are given up.                          *)
LEMMA SendProbeKeeps ==
  ASSUME HandlerTyped, Accounted, NEW s \in Spaces, NEW given \in SUBSET DOMAIN histories[s],
         NEW skip \in BOOLEAN, SendProbe(s, given, skip)
  PROVE  HandlerTyped' /\ Accounted'
<1>1. "data" \in AllKinds /\ "data" # "pathProbe"
  BY Zenon DEF AllKinds
<1>2. s \notin dropped /\ HandlerSentPacket(s, "data", skip, given) /\ Report(Of(s, given))
  BY Zenon DEF SendProbe
<1>3. \A m \in given : IsOutstanding(histories[s][m])
  BY Zenon DEF SendProbe
<1>4. \A m \in given : AckEliciting(histories[s][m])
  BY <1>3, Zenon DEF IsOutstanding, AckEliciting
<1>5. reported' = reported \cup Of(s, given) /\ twice' = (twice \/ Of(s, given) \cap reported # {})
  BY <1>2, Zenon DEF Report
<1> QED
  BY <1>1, <1>2, <1>4, <1>5, SentPacketKeeps, Zenon

-----------------------------------------------------------------------------
(* Dropped keys and Retry *)

(* A history that is emptied.                                              *)
LEMMA EmptyExact ==
  ASSUME HandlerTyped, BytesInFlightExact, NEW s \in Spaces,
         histories' = [histories EXCEPT ![s] = None],
         RemoveFromBytesInFlight(s, DOMAIN histories[s])
  PROVE  /\ BytesInFlightExact'
         /\ \A q \in Spaces : histories'[q] = IF q = s THEN None ELSE histories[q]
<1>1. PICK f \in Map(Entry) : f = histories[s]
  BY Zenon DEF HandlerTyped
<1>2. Without(f, DOMAIN f) = None /\ DOMAIN f \cap DOMAIN f = DOMAIN f
  BY WithoutAll, Zenon
<1>3. PICK c \in Nat : c = Cardinality(Elicits(f, DOMAIN f)) /\ Size(f) = c
  <2>1. DOMAIN f \in SUBSET DOMAIN f
    BY Zenon
  <2> QED
    BY <2>1, SizeIs, Zenon
<1>4. Size(None) = Size(f) - c /\ Size(f) \in Nat
  BY <1>2, <1>3, SizeWithout, Zenon
<1>5. PICK d \in Int : d = -c
  BY <1>3
<1>6. bytesInFlight' = bytesInFlight - c
  BY <1>1, <1>3, Zenon DEF RemoveFromBytesInFlight, Elicits
<1>7. bytesInFlight \in Nat
  <2>1. \A q \in Spaces : Size(histories[q]) \in Nat
    BY SizeWithout, Zenon DEF HandlerTyped
  <2> QED
    BY <2>1 DEF BytesInFlightExact, Spaces
<1>8. bytesInFlight' = bytesInFlight + d /\ Size(None) = Size(histories[s]) + d
  BY <1>1, <1>3, <1>4, <1>5, <1>6, <1>7, Zenon
<1>9. None \in Map(Entry)
  BY EmptyMaps, Zenon
<1>10. BytesInFlightExact'
  BY <1>8, <1>9, ExactStep, Zenon
<1> QED
  BY <1>10, Zenon DEF HandlerTyped

(* A space whose packets are forgotten: their frames go with its keys, or  *)
(* are not counted any more.                                               *)
LEMMA EmptyKeeps ==
  ASSUME HandlerTyped, Accounted, NEW s \in Spaces,
         histories' = [histories EXCEPT ![s] = None],
         RemoveFromBytesInFlight(s, DOMAIN histories[s]),
         sent' \subseteq sent, s \in dropped' \/ sent' = sent \ Of(s, DOMAIN histories[s]),
         dropped \subseteq dropped',
         UNCHANGED <<next, skipped, pathProbes, reported, twice>>
  PROVE  Accounted'
<1>1. BytesInFlightExact'
  BY EmptyExact, Zenon DEF Accounted
<1>2. \A q \in Spaces : histories'[q] = IF q = s THEN None ELSE histories[q]
  BY EmptyExact, Zenon DEF Accounted
<1>3. DOMAIN None = {}
  BY EmptyMaps, Zenon
<1>4. Numbers'
  BY <1>2, <1>3, Zenon DEF Accounted, Numbers
<1>5. \A q \in Spaces : \A n \in DOMAIN histories'[q] :
        q # s /\ n \in DOMAIN histories[q] /\ histories'[q][n] = histories[q][n]
  BY <1>2, <1>3, Zenon
<1>6. \A q \in Spaces : \A n \in DOMAIN histories'[q] :
        /\ AckEliciting(histories'[q][n]) => <<q, n>> \notin reported'
        /\ <<q, n>> \in sent' => AckEliciting(histories'[q][n])
        /\ histories'[q][n].kind = "pathProbe" => q = "app"
  <2>1. ASSUME NEW q \in Spaces, NEW n \in DOMAIN histories'[q]
        PROVE  /\ AckEliciting(histories'[q][n]) => <<q, n>> \notin reported'
               /\ <<q, n>> \in sent' => AckEliciting(histories'[q][n])
               /\ histories'[q][n].kind = "pathProbe" => q = "app"
    <3>1. n \in DOMAIN histories[q] /\ histories'[q][n] = histories[q][n]
      BY <1>5, <2>1, Zenon
    <3> QED
      BY <3>1, Zenon DEF Accounted, Marked
  <2> QED
    BY <2>1, Zenon
<1>7. \A n \in DOMAIN pathProbes' :
        /\ <<"app", n>> \notin reported'
        /\ n \in DOMAIN histories'["app"] => histories'["app"][n].kind = "pathProbe"
  BY <1>5, Zenon DEF Accounted, Marked, Spaces
<1>8. ASSUME NEW q \in Spaces \ dropped', NEW n \in Nat, <<q, n>> \in sent'
      PROVE  <<q, n>> \in reported' \/ n \in DOMAIN histories'[q]
  <2>1. q \in Spaces \ dropped /\ <<q, n>> \in sent
    BY <1>8, Zenon
  <2>2. <<q, n>> \in reported \/ n \in DOMAIN histories[q]
    BY <2>1, Zenon DEF Accounted, Marked
  <2>3. CASE q = s
    <3>1. <<q, n>> \notin Of(s, DOMAIN histories[s])
      BY <1>8, <2>3, Zenon
    <3>2. n \notin DOMAIN histories[s]
      BY <2>3, <3>1, Zenon DEF Of
    <3> QED
      BY <2>2, <2>3, <3>2, Zenon
  <2>4. CASE q # s
    BY <1>2, <2>2, <2>4, Zenon
  <2> QED
    BY <2>3, <2>4, Zenon
<1>9. twice' = FALSE /\ \A n \in skipped' : <<"app", n>> \notin sent'
  BY Zenon DEF Accounted, Marked
<1>10. Marked'
  BY <1>6, <1>7, <1>8, <1>9, Zenon DEF Marked
<1> QED
  BY <1>1, <1>4, <1>10, Zenon DEF Accounted

(* Keys are dropped, or 0-RTT is rejected.                                 *)
LEMMA DropKeeps ==
  ASSUME HandlerTyped, Accounted
  PROVE  /\ \A s \in Spaces : DropPackets(s) => Accounted'
         /\ Drop0RTT => Accounted'
<1>1. ASSUME NEW s \in Spaces, DropPackets(s) PROVE Accounted'
  <2>1. /\ histories' = [histories EXCEPT ![s] = None]
        /\ RemoveFromBytesInFlight(s, DOMAIN histories[s])
        /\ dropped' = dropped \cup {s} /\ UNCHANGED <<next, appVars, history>>
    BY <1>1, Zenon DEF DropPackets
  <2> QED
    BY <2>1, EmptyKeeps, Zenon DEF appVars, history
<1>2. ASSUME Drop0RTT PROVE Accounted'
  <2>1. /\ histories' = [histories EXCEPT !["app"] = None]
        /\ RemoveFromBytesInFlight("app", DOMAIN histories["app"])
        /\ sent' = sent \ Of("app", DOMAIN histories["app"])
        /\ UNCHANGED <<next, appVars, peerVars, reported, twice>>
    BY <1>2, Zenon DEF Drop0RTT
  <2>2. "app" \in Spaces
    BY Zenon DEF Spaces
  <2> QED
    BY <2>1, <2>2, EmptyKeeps, Zenon DEF appVars, peerVars
<1> QED
  BY <1>1, <1>2, Zenon

(* Before a client has heard from the server no Handshake packet is sent   *)
(* or owed, and no keys are dropped.                                       *)
Unheard ==
  /\ histories["handshake"] = None /\ next["handshake"] = 0 /\ dropped = {}
  /\ ptoMode # "handshake"
Fresh ==
  /\ bytesReceived = 0 /\ ~Established => Unheard
  /\ Established => {"initial", "handshake"} \subseteq dropped /\ next["initial"] = 0

(* A Retry reports the packets of both spaces and counts from zero.        *)
LEMMA RetryKeeps ==
  ASSUME HandlerTyped, HandlerTyped', Accounted, Fresh, NEW skip \in BOOLEAN, ResetForRetry(skip)
  PROVE  Accounted'
<1>1. Unheard
  BY ConfIs DEF ResetForRetry, Fresh, HandlerTyped
<1>2. \A q \in Spaces : histories'[q] = None
  BY <1>1, Zenon DEF ResetForRetry, Unheard, Spaces
<1>3. DOMAIN None = {} /\ DOMAIN NoProbes = {}
  BY EmptyMaps, Zenon
<1>4. Size(None) = 0
  <2>1. {n \in DOMAIN None : AckEliciting(None[n])} = {}
    BY <1>3, Zenon
  <2> QED
    BY <2>1, FS_EmptySet, Zenon DEF Size
<1>5. BytesInFlightExact'
  BY <1>2, <1>4 DEF BytesInFlightExact, ResetForRetry, Spaces
<1>6. \A q \in Spaces : next[q] \in Nat /\ next'[q] \in Nat /\ next[q] <= next'[q]
  BY DEF ResetForRetry, HandlerTyped, Spaces
<1>7. /\ reported' = reported \cup RetryFrames /\ twice' = (twice \/ RetryFrames \cap reported # {})
      /\ sent' = sent /\ skipped' = {} /\ pathProbes' = NoProbes /\ dropped' = dropped
  BY Zenon DEF ResetForRetry, Report, peerVars
<1>8. \A q, n : <<q, n>> \in RetryFrames <=>
        q \in {"initial", "app"} /\ n \in DOMAIN histories[q] /\ AckEliciting(histories[q][n])
  BY DEF RetryFrames, Of
<1>9. Numbers'
  <2>1. ASSUME NEW q \in Spaces, NEW n \in Nat, <<q, n>> \in sent' \cup reported'
        PROVE  n < next'[q]
    <3>1. <<q, n>> \in sent \cup reported \/ n \in DOMAIN histories[q]
      BY <1>7, <1>8, <2>1, Zenon
    <3>2. n < next[q]
      BY <3>1, Zenon DEF Accounted, Numbers
    <3> QED
      BY <1>6, <3>2
  <2> QED
    BY <1>2, <1>3, <1>7, <2>1, Zenon DEF Numbers
<1>10. RetryFrames \cap reported = {}
  <2>1. \A x \in RetryFrames : \E q, n : x = <<q, n>>
    BY Zenon DEF RetryFrames, Of
  <2>2. \A q, n : <<q, n>> \in RetryFrames => <<q, n>> \notin reported
    BY <1>8 DEF Accounted, Marked, Spaces
  <2> QED
    BY <2>1, <2>2
<1>11. twice' = FALSE
  BY <1>7, <1>10, Zenon DEF Accounted, Marked
<1>12. ASSUME NEW q \in Spaces \ dropped', NEW n \in Nat, <<q, n>> \in sent'
       PROVE  <<q, n>> \in reported'
  <2>1. q \in Spaces \ dropped /\ <<q, n>> \in sent
    BY <1>7, <1>12, Zenon
  <2>2. <<q, n>> \in reported \/ n \in DOMAIN histories[q]
    BY <2>1, Zenon DEF Accounted, Marked
  <2>3. ASSUME n \in DOMAIN histories[q] PROVE <<q, n>> \in RetryFrames
    <3>1. AckEliciting(histories[q][n])
      BY <2>1, <2>3, Zenon DEF Accounted, Marked
    <3>2. q \in {"initial", "app"}
      BY <1>1, <1>3, <2>1, <2>3, Zenon DEF Unheard, Spaces
    <3> QED
      BY <1>8, <2>3, <3>1, <3>2, Zenon
  <2> QED
    BY <1>7, <2>2, <2>3, Zenon
<1>13. Marked'
  BY <1>2, <1>3, <1>7, <1>11, <1>12, Zenon DEF Marked, Spaces
<1> QED
  BY <1>5, <1>9, <1>13, Zenon DEF Accounted

-----------------------------------------------------------------------------
(* Keys and probes *)

(* No panic is reached, and a probe is owed where there are keys.          *)
Owed == bug = FALSE /\ (numProbesToSend > 0 => ptoMode \in Spaces \ dropped)
Keys == Shaken /\ Fresh /\ Owed

(* A PTO that is set counts from a packet outstanding in its space; before *)
(* the server is heard from it is not for Handshake packets.               *)
LEMMA PTOUnheard ==
  ASSUME HandlerTyped, Unheard, PTOTimeAndSpace.time # 0
  PROVE  PTOTimeAndSpace.space # "handshake"
<1>1. DOMAIN histories["handshake"] = {}
  BY EmptyMaps, Zenon DEF Unheard
<1>2. ~HasOutstanding("handshake")
  BY <1>1, Zenon DEF HasOutstanding
<1>3. CASE ~handshakeConfirmed /\ ~HasOutstandingCryptoPackets
  BY <1>3, Zenon DEF PTOTimeAndSpace, Unheard
<1>4. CASE ~(~handshakeConfirmed /\ ~HasOutstandingCryptoPackets)
  <2>1. PTOTimeAndSpace = Earliest(PTOTimes)
    BY <1>4, Zenon DEF PTOTimeAndSpace
  <2>2. PICK t : t = PTOTimes
    BY Zenon
  <2>3. t \in [Spaces -> Nat] /\ t["handshake"] = 0
    <3>1. ASSUME NEW s \in Spaces PROVE t[s] \in Nat
      <4>1. (s = "app") \in BOOLEAN
        BY Zenon
      <4>2. ScaledPTO(s = "app") \in Nat
        BY <4>1, ScaledPTOIs, Zenon
      <4>3. lastElicitingTime[s] \in Nat
        BY Zenon DEF HandlerTyped
      <4> QED
        BY <2>2, <4>2, <4>3 DEF PTOTimes
    <3> QED
      BY <1>2, <2>2, <3>1, Zenon DEF PTOTimes, Spaces
  <2>4. PICK e : e = Earliest(t)
    BY Zenon
  <2>5. e.time # 0 => t[e.space] = e.time
    BY <2>3, <2>4, EarliestIs, Zenon
  <2> QED
    BY <2>1, <2>2, <2>3, <2>4, <2>5, Zenon
<1> QED
  BY <1>3, <1>4, Zenon

(* The mode of a probe is a space's only while a probe is owed there.      *)
LEMMA SendModeIs ==
  ASSUME NEW s \in Spaces, SendMode = s, HandlerTyped
  PROVE  ptoMode = s
  BY DEF SendMode, Spaces, HandlerTyped

(* A step that leaves keys alone and counts no probe.                      *)
QuietStep ==
  /\ UNCHANGED <<conf, dropped, handshakeConfirmed, bug>>
  /\ peerCompletedAddressValidation => peerCompletedAddressValidation'
  /\ bytesReceived <= bytesReceived' 
  /\ next'["initial"] = next["initial"] \/ "initial" \notin dropped
  /\ bytesReceived = 0 /\ ~Established =>
       histories'["handshake"] = histories["handshake"] /\ next'["handshake"] = next["handshake"]

(* Such a step keeps the keys' invariant.                                  *)
LEMMA QuietKeeps ==
  ASSUME HandlerTyped, HandlerTyped', Keys, QuietStep, ptoMode' = ptoMode,
         numProbesToSend' > 0 => numProbesToSend > 0
  PROVE  Keys'
<1>1. Shaken'
  BY Zenon DEF Keys, Shaken, QuietStep
<1>2. Owed'
  BY Zenon DEF Keys, Owed, QuietStep
<1>3. Established' = Established
  BY Zenon DEF Established, QuietStep
<1>4. ASSUME bytesReceived' = 0 /\ ~Established' PROVE Unheard'
  <2>1. bytesReceived = 0 /\ ~Established
    BY <1>3, <1>4 DEF QuietStep, HandlerTyped
  <2> QED
    BY <2>1, Zenon DEF Keys, Fresh, Unheard, QuietStep
<1>5. ASSUME Established' PROVE {"initial", "handshake"} \subseteq dropped' /\ next'["initial"] = 0
  BY <1>3, <1>5, Zenon DEF Keys, Fresh, QuietStep
<1> QED
  BY <1>1, <1>2, <1>4, <1>5, Zenon DEF Keys, Fresh

(* Sending.                                                                *)
LEMMA SentPacketKeys ==
  ASSUME HandlerTyped, HandlerTyped', Keys, NEW s \in Spaces, s \notin dropped, NEW kind,
         NEW skip \in BOOLEAN, NEW lost, HandlerSentPacket(s, kind, skip, lost),
         s = "handshake" => bytesReceived # 0 \/ ptoMode = "handshake"
  PROVE  Keys'
<1>1. UNCHANGED <<conf, dropped, handshakeConfirmed, bug, bytesReceived,
                  peerCompletedAddressValidation, ptoMode>>
  BY Zenon DEF HandlerSentPacket, peerVars
<1>2. PICK n, g : histories' = [histories EXCEPT ![s] = g] /\ next' = [next EXCEPT ![s] = n]
  BY Zenon DEF HandlerSentPacket
<1>3. next'["initial"] = next["initial"] \/ "initial" \notin dropped
  BY <1>2, Zenon DEF HandlerTyped, Spaces
<1>4. ASSUME bytesReceived = 0, ~Established
      PROVE  histories'["handshake"] = histories["handshake"] /\ next'["handshake"] = next["handshake"]
  <2>1. s # "handshake"
    BY <1>4, Zenon DEF Keys, Fresh, Unheard
  <2> QED
    BY <1>2, <2>1, Zenon DEF HandlerTyped, Spaces
<1>5. QuietStep
  BY <1>1, <1>3, <1>4 DEF QuietStep, HandlerTyped
<1>6. numProbesToSend' > 0 => numProbesToSend > 0
  BY Zenon DEF HandlerSentPacket, HandlerTyped
<1> QED
  BY <1>1, <1>5, <1>6, QuietKeeps, Zenon

(* A packet or a probe.                                                    *)
LEMMA SendKeys ==
  ASSUME HandlerTyped, HandlerTyped', Keys, NEW s \in Spaces, NEW skip \in BOOLEAN
  PROVE  /\ \A kind : Send(s, kind, skip) => Keys'
         /\ \A given : SendProbe(s, given, skip) => Keys'
<1>1. ASSUME NEW kind, Send(s, kind, skip) PROVE Keys'
  <2>1. s \notin dropped /\ kind \in Sendable(s) /\ HandlerSentPacket(s, kind, skip, {})
    BY <1>1, Zenon DEF Send
  <2>2. s = "handshake" => bytesReceived # 0
    BY <2>1 DEF Sendable, HandlerTyped
  <2> QED
    BY <2>1, <2>2, SentPacketKeys, Zenon
<1>2. ASSUME NEW given, SendProbe(s, given, skip) PROVE Keys'
  <2>1. s \notin dropped /\ HandlerSentPacket(s, "data", skip, given) /\ SendMode = s
    BY <1>2, Zenon DEF SendProbe
  <2>2. ptoMode = s
    BY <2>1, SendModeIs, Zenon
  <2> QED
    BY <2>1, <2>2, SentPacketKeys, Zenon
<1> QED
  BY <1>1, <1>2, Zenon

(* ACKs.                                                                   *)
LEMMA AckKeys ==
  ASSUME HandlerTyped, HandlerTyped', Keys, NEW s \in Spaces, NEW ack, ReceivedAck(s, ack)
  PROVE  Keys'
<1>1. bytesReceived = 0 => Established
  BY DEF ReceivedAck, HandlerTyped
<1>2. CASE RefuseAck(s, ack)
  <2>1. QuietStep /\ ptoMode' = ptoMode /\ numProbesToSend' = numProbesToSend
    BY <1>1, <1>2 DEF RefuseAck, QuietStep, HandlerTyped, spaceVars, peerVars, ptoVars
  <2> QED
    BY <2>1, QuietKeeps, Zenon
<1>3. CASE ReceivedOldAck(s, ack)
  <2>1. QuietStep /\ ptoMode' = ptoMode /\ numProbesToSend' = numProbesToSend
    BY <1>1, <1>3 DEF ReceivedOldAck, QuietStep, HandlerTyped, spaceVars, ptoVars
  <2> QED
    BY <2>1, QuietKeeps, Zenon
<1>4. CASE ReceivedNewAck(s, ack)
  <2>1. /\ UNCHANGED <<conf, dropped, handshakeConfirmed, bug, bytesReceived, next, ptoMode>>
        /\ peerCompletedAddressValidation' = (peerCompletedAddressValidation \/ s # "initial")
        /\ numProbesToSend' = 0
    BY <1>4, Zenon DEF ReceivedNewAck
  <2>2. QuietStep
    BY <1>1, <2>1 DEF QuietStep, HandlerTyped
  <2> QED
    BY <2>1, <2>2, QuietKeeps
<1> QED
  BY <1>2, <1>3, <1>4, Zenon DEF ReceivedAck

(* The timer fires: a probe is owed only in a space that has keys.         *)
LEMMA PTOKeys ==
  ASSUME HandlerTyped, HandlerTyped', Keys, NEW probes, NEW skip \in BOOLEAN, PTO(probes, skip),
         QuietStep \/ bug' # bug,
         UNCHANGED <<conf, dropped, handshakeConfirmed, peerCompletedAddressValidation, bytesReceived>>
  PROVE  bug' = FALSE /\ (QuietStep => Keys')
<1>1. CASE AntiDeadlockPTO /\ ~peerCompletedAddressValidation
  <2>1. "handshake" \notin dropped
    BY <1>1, Zenon DEF Keys, Shaken
  <2>2. bug' = FALSE
    BY <1>1, <2>1, Zenon DEF AntiDeadlockPTO, Keys, Owed
  <2>3. ptoMode' \in Spaces \ dropped /\ ("initial" \notin dropped => ptoMode' = "initial")
    BY <1>1, <2>1, Zenon DEF AntiDeadlockPTO, Spaces
  <2>4. Owed'
    BY <2>2, <2>3, Zenon DEF Owed
  <2>5. Established' = Established
    BY Zenon DEF Established
  <2>6. ASSUME QuietStep PROVE Fresh'
    <3>1. ASSUME bytesReceived' = 0 /\ ~Established' PROVE Unheard'
      BY <2>3, <2>5, <2>6, <3>1, Zenon DEF Keys, Fresh, Unheard, QuietStep
    <3> QED
      BY <2>5, <2>6, <3>1, Zenon DEF Keys, Fresh, QuietStep
  <2> QED
    BY <2>2, <2>4, <2>6, Zenon DEF Keys, Shaken
<1>2. CASE UNCHANGED <<ptoVars, next, skipped, skipFrom, bug>>
  <2>1. bug' = FALSE /\ ptoMode' = ptoMode /\ numProbesToSend' = numProbesToSend
    BY <1>2, Zenon DEF Keys, Owed, ptoVars
  <2> QED
    BY <2>1, QuietKeeps, Zenon
<1>3. CASE SpacePTO(PTOTimeAndSpace.space, skip) /\ ~NoPTO(probes)
  <2>1. PICK s : s = PTOTimeAndSpace.space
    BY Zenon
  <2>2. PTOTimeAndSpace.time # 0
    BY <1>3, Zenon DEF NoPTO
  <2>3. s \in Spaces \ dropped
    BY <2>1, <2>2, PTOTimeIs, Zenon DEF Keys
  <2>4. bug' = FALSE /\ ptoMode' = s
    BY <1>3, <2>1, <2>3, Zenon DEF SpacePTO, Keys, Owed
  <2>5. Owed'
    BY <2>3, <2>4, Zenon DEF Owed
  <2>6. Established' = Established
    BY Zenon DEF Established
  <2>7. ASSUME QuietStep PROVE Fresh'
    <3>1. ASSUME bytesReceived' = 0 /\ ~Established' PROVE Unheard'
      <4>1. Unheard
        BY <2>6, <3>1, Zenon DEF Keys, Fresh
      <4>2. ptoMode' # "handshake"
        BY <2>1, <2>2, <2>4, <4>1, PTOUnheard, Zenon
      <4> QED
        BY <2>6, <2>7, <3>1, <4>1, <4>2, Zenon DEF Unheard, QuietStep
    <3> QED
      BY <2>6, <2>7, <3>1, Zenon DEF Keys, Fresh, QuietStep
  <2> QED
    BY <2>4, <2>5, <2>7, Zenon DEF Keys, Shaken
<1> QED
  BY <1>1, <1>2, <1>3, Zenon DEF PTO

(* Timeouts.                                                               *)
LEMMA TimeoutKeys ==
  ASSUME HandlerTyped, HandlerTyped', Keys, NEW skip \in BOOLEAN, OnLossDetectionTimeout(skip)
  PROVE  Keys'
<1>1. UNCHANGED <<conf, dropped, handshakeConfirmed, peerCompletedAddressValidation, bytesReceived>>
  BY Zenon DEF OnLossDetectionTimeout, peerVars
<1>2. PICK late : late = IF handshakeConfirmed THEN LostPathProbes(pathProbes) ELSE {}
  BY Zenon
<1>3. CASE LossTimeAndSpace.time # 0
  <2>1. LossTimeout(late)
    BY <1>2, <1>3, Zenon DEF OnLossDetectionTimeout
  <2>2. PICK s \in Spaces : s = LossTimeAndSpace.space
    BY LossTimeIs, Zenon
  <2>3. PICK lost : histories' = [histories EXCEPT ![s] = Without(histories[s], lost)]
    BY <2>1, <2>2, Zenon DEF LossTimeout
  <2>4. ASSUME bytesReceived = 0, ~Established PROVE histories'["handshake"] = histories["handshake"]
    <3>1. histories["handshake"] = None
      BY <2>4, Zenon DEF Keys, Fresh, Unheard
    <3>2. None \in Map(Entry) /\ DOMAIN None = {}
      BY EmptyMaps, Zenon
    <3>3. Without(None, lost) = None
      BY <3>2, WithoutAll, Zenon
    <3> QED
      BY <2>3, <3>1, <3>3, Zenon DEF HandlerTyped, Spaces
  <2>5. UNCHANGED <<next, ptoMode, numProbesToSend, bug>>
    BY <2>1, Zenon DEF LossTimeout, ptoVars
  <2>6. QuietStep
    BY <1>1, <2>4, <2>5 DEF QuietStep, HandlerTyped
  <2> QED
    BY <2>5, <2>6, QuietKeeps, Zenon
<1>4. CASE LossTimeAndSpace.time = 0
  <2>1. PTO(pathProbes', skip) /\ histories' = histories
    BY <1>4, Zenon DEF OnLossDetectionTimeout
  <2>2. PtoEffect
    BY <2>1, PTOTyped, Zenon DEF Keys
  <2>3. QuietStep \/ bug' # bug
    BY <1>1, <2>1, <2>2 DEF QuietStep, HandlerTyped, PtoEffect
  <2>4. bug' = FALSE /\ (QuietStep => Keys')
    BY <1>1, <2>1, <2>3, PTOKeys, Zenon
  <2>5. QuietStep
    BY <2>3, <2>4, Zenon DEF Keys, Owed
  <2> QED
    BY <2>4, <2>5, Zenon
<1> QED
  BY <1>3, <1>4, Zenon

(* Dropped keys.                                                           *)
LEMMA DropKeys ==
  ASSUME HandlerTyped, HandlerTyped', Keys
  PROVE  /\ \A s \in Spaces : DropPackets(s) => Keys'
         /\ Drop0RTT => Keys'
<1>1. ASSUME NEW s \in Spaces, DropPackets(s) PROVE Keys'
  <2>1. /\ dropped' = dropped \cup {s} /\ s \in {"initial", "handshake"}
        /\ next["handshake"] > 0 /\ numProbesToSend' = 0
        /\ UNCHANGED <<conf, next, bytesReceived, bug>>
        /\ peerCompletedAddressValidation' = (peerCompletedAddressValidation \/ s = "handshake")
        /\ handshakeConfirmed' = (handshakeConfirmed \/ s = "handshake")
    BY <1>1, Zenon DEF DropPackets, ResetPTO
  <2>2. Shaken'
    BY <2>1, Zenon DEF Keys, Shaken
  <2>3. Owed'
    BY <2>1 DEF Keys, Owed
  <2>4. Established' = Established
    BY <2>1, Zenon DEF Established
  <2>5. Fresh'
    BY <2>1, <2>4 DEF Keys, Fresh, Unheard
  <2> QED
    BY <2>2, <2>3, <2>5, Zenon DEF Keys
<1>2. ASSUME Drop0RTT PROVE Keys'
  <2>1. /\ UNCHANGED <<conf, peerVars, next, bug>> /\ bytesReceived # 0 /\ numProbesToSend' = 0
    BY <1>2 DEF Drop0RTT, ResetPTO, HandlerTyped
  <2>2. Shaken' /\ Owed' /\ Established' = Established
    BY <2>1 DEF Keys, Shaken, Owed, Established, peerVars
  <2>3. Fresh'
    BY <2>1, <2>2, Zenon DEF Keys, Fresh, peerVars
  <2> QED
    BY <2>2, <2>3, Zenon DEF Keys
<1> QED
  BY <1>1, <1>2, Zenon

(* The remaining actions.                                                  *)
LEMMA OtherKeys ==
  ASSUME HandlerTyped, HandlerTyped', Keys,
         \/ Tick \/ ReceivedBytes \/ ReceivedPacket \/ MigratedPath
         \/ \E skip \in BOOLEAN : ResetForRetry(skip)
  PROVE  Keys'
<1>1. CASE Tick
  <2>1. QuietStep /\ UNCHANGED <<ptoMode, numProbesToSend>>
    BY <1>1 DEF Tick, QuietStep, HandlerTyped, peerVars, spaceVars, ptoVars
  <2> QED
    BY <2>1, QuietKeeps, Zenon
<1>2. CASE ReceivedBytes
  <2>1. QuietStep /\ UNCHANGED <<ptoMode, numProbesToSend>>
    BY <1>2 DEF ReceivedBytes, QuietStep, HandlerTyped, spaceVars, ptoVars
  <2> QED
    BY <2>1, QuietKeeps, Zenon
<1>3. CASE ReceivedPacket
  <2>1. QuietStep /\ UNCHANGED <<ptoMode, numProbesToSend>>
    BY <1>3 DEF ReceivedPacket, QuietStep, HandlerTyped, spaceVars, ptoVars
  <2> QED
    BY <2>1, QuietKeeps, Zenon
<1>4. CASE MigratedPath
  <2>1. QuietStep /\ UNCHANGED <<ptoMode, numProbesToSend>>
    BY <1>4 DEF MigratedPath, QuietStep, HandlerTyped, Spaces, peerVars, ptoVars
  <2> QED
    BY <2>1, QuietKeeps, Zenon
<1>5. ASSUME NEW skip \in BOOLEAN, ResetForRetry(skip) PROVE Keys'
  <2>1. histories'["handshake"] = histories["handshake"] /\ next'["handshake"] = next["handshake"]
        /\ next'["initial"] = next["initial"]
    BY <1>5, Zenon DEF ResetForRetry, HandlerTyped, Spaces
  <2>2. UNCHANGED <<conf, peerVars, ptoMode, numProbesToSend, bug>>
    BY <1>5, Zenon DEF ResetForRetry
  <2>3. QuietStep
    BY <2>1, <2>2 DEF QuietStep, HandlerTyped, peerVars
  <2> QED
    BY <2>2, <2>3, QuietKeeps, Zenon
<1> QED
  BY <1>1, <1>2, <1>3, <1>4, <1>5, Zenon

-----------------------------------------------------------------------------
(* The invariant *)

HandlerInv == HandlerTyped /\ Accounted /\ Keys

(* A new handler has sent nothing.                                         *)
LEMMA HandlerInitInv == HandlerInit => HandlerInv
<1> SUFFICES ASSUME HandlerInit PROVE HandlerInv
  BY Zenon
<1>1. HandlerTyped
  BY InitTyped, Zenon
<1>2. DOMAIN None = {} /\ DOMAIN NoProbes = {}
  BY EmptyMaps, Zenon
<1>3. Size(None) = 0
  <2>1. {n \in DOMAIN None : AckEliciting(None[n])} = {}
    BY <1>2, Zenon
  <2> QED
    BY <2>1, FS_EmptySet, Zenon DEF Size
<1>4. BytesInFlightExact
  BY <1>3 DEF BytesInFlightExact, HandlerInit, Spaces
<1>5. Numbers /\ Marked
  BY <1>2, Zenon DEF HandlerInit, Numbers, Marked, Spaces
<1>6. Owed
  BY DEF HandlerInit, Owed
<1>7. Shaken /\ Fresh
  <2>1. Established \in BOOLEAN
    BY <1>1, ConfIs, Zenon DEF HandlerTyped
  <2> QED
    BY <2>1, Zenon DEF HandlerInit, Shaken, Fresh, Unheard, Spaces
<1> QED
  BY <1>1, <1>4, <1>5, <1>6, <1>7, Zenon DEF HandlerInv, Accounted, Keys

(* Steps that touch neither a packet nor a report.                         *)
LEMMA IdleKeeps ==
  ASSUME HandlerTyped, Accounted,
         UNCHANGED <<histories, next, pathProbes, skipped, dropped, bytesInFlight, sent, reported, twice>>
  PROVE  Accounted'
<1>1. Numbers' /\ BytesInFlightExact'
  BY Zenon DEF Accounted, Numbers, BytesInFlightExact
<1>2. Marked'
  BY Zenon DEF Accounted, Marked
<1> QED
  BY <1>1, <1>2, Zenon DEF Accounted

(* Every ACK.                                                              *)
LEMMA AckInv ==
  ASSUME HandlerInv, NEW s \in Spaces, NEW ack, ReceivedAck(s, ack)
  PROVE  HandlerInv'
<1>1. HandlerTyped'
  BY AckTyped, Zenon DEF HandlerInv
<1>2. Keys'
  BY <1>1, AckKeys, Zenon DEF HandlerInv
<1>3. CASE RefuseAck(s, ack)
  BY <1>1, <1>2, <1>3, IdleKeeps, Zenon DEF HandlerInv, RefuseAck, spaceVars, appVars, peerVars, history
<1>4. CASE ReceivedOldAck(s, ack)
  BY <1>1, <1>2, <1>4, IdleKeeps, Zenon DEF HandlerInv, ReceivedOldAck, spaceVars, appVars, history
<1>5. CASE ReceivedNewAck(s, ack)
  BY <1>1, <1>2, <1>5, NewAckKeeps, Zenon DEF HandlerInv
<1> QED
  BY <1>3, <1>4, <1>5, Zenon DEF ReceivedAck

(* Every step.                                                             *)
LEMMA HandlerStepInv == HandlerInv /\ [HandlerNext]_handlerVars => HandlerInv'
<1> SUFFICES ASSUME HandlerInv, [HandlerNext]_handlerVars PROVE HandlerInv'
  BY Zenon
<1>0. HandlerTyped /\ Accounted /\ Keys /\ Shaken /\ Fresh
  BY Zenon DEF HandlerInv, Keys
<1>1. CASE Tick
  <2>1. HandlerTyped'
    BY <1>0, <1>1 DEF Tick, HandlerTyped, spaceVars, appVars, peerVars, ptoVars
  <2>2. Accounted'
    BY <1>0, <1>1, IdleKeeps, Zenon DEF Tick, spaceVars, appVars, peerVars, history
  <2> QED
    BY <1>0, <1>1, <2>1, <2>2, OtherKeys, Zenon DEF HandlerInv
<1>2. ASSUME NEW s \in Spaces, NEW kind \in SentKinds, NEW skip \in BOOLEAN, Send(s, kind, skip)
      PROVE  HandlerInv'
  BY <1>0, <1>2, SendKeeps, SendKeys, Zenon DEF HandlerInv
<1>3. ASSUME NEW s \in Spaces, NEW skip \in BOOLEAN, NEW given \in SUBSET DOMAIN histories[s],
             SendProbe(s, given, skip)
      PROVE  HandlerInv'
  BY <1>0, <1>3, SendProbeKeeps, SendKeys, Zenon DEF HandlerInv
<1>4. ASSUME NEW s \in Spaces, NEW ack, ReceivedAck(s, ack) PROVE HandlerInv'
  BY <1>4, AckInv, Zenon
<1>5. ASSUME NEW skip \in BOOLEAN, OnLossDetectionTimeout(skip) PROVE HandlerInv'
  <2>1. HandlerTyped'
    BY <1>0, <1>5, TimeoutTyped, Zenon
  <2> QED
    BY <1>0, <1>5, <2>1, TimeoutKeeps, TimeoutKeys, Zenon DEF HandlerInv
<1>6. CASE ReceivedBytes
  <2>1. HandlerTyped'
    BY <1>0, <1>6 DEF ReceivedBytes, HandlerTyped, spaceVars, appVars, ptoVars
  <2>2. Accounted'
    BY <1>0, <1>6, IdleKeeps, Zenon DEF ReceivedBytes, spaceVars, appVars, history
  <2> QED
    BY <1>0, <1>6, <2>1, <2>2, OtherKeys, Zenon DEF HandlerInv
<1>7. CASE ReceivedPacket
  <2>1. HandlerTyped'
    BY <1>0, <1>7, Zenon DEF ReceivedPacket, HandlerTyped, spaceVars, appVars, ptoVars
  <2>2. Accounted'
    BY <1>0, <1>7, IdleKeeps, Zenon DEF ReceivedPacket, spaceVars, appVars, history
  <2> QED
    BY <1>0, <1>7, <2>1, <2>2, OtherKeys, Zenon DEF HandlerInv
<1>8. ASSUME NEW s \in Spaces, DropPackets(s) PROVE HandlerInv'
  <2>1. HandlerTyped'
    BY <1>0, <1>8, DropTyped, Zenon
  <2> QED
    BY <1>0, <1>8, <2>1, DropKeeps, DropKeys, Zenon DEF HandlerInv
<1>9. CASE Drop0RTT
  <2>1. HandlerTyped'
    BY <1>0, <1>9, DropTyped, Zenon
  <2> QED
    BY <1>0, <1>9, <2>1, DropKeeps, DropKeys, Zenon DEF HandlerInv
<1>10. ASSUME NEW skip \in BOOLEAN, ResetForRetry(skip) PROVE HandlerInv'
  <2>1. HandlerTyped'
    BY <1>0, <1>10, ResetTyped, Zenon
  <2> QED
    BY <1>0, <1>10, <2>1, RetryKeeps, OtherKeys, Zenon DEF HandlerInv
<1>11. CASE MigratedPath
  <2>1. HandlerTyped'
    BY <1>0, <1>11, ResetTyped, Zenon
  <2> QED
    BY <1>0, <1>11, <2>1, MigrationKeeps, OtherKeys, Zenon DEF HandlerInv
<1>12. CASE UNCHANGED handlerVars
  <2>1. HandlerTyped'
    BY <1>0, <1>12, Zenon DEF handlerVars, HandlerTyped, spaceVars, appVars, peerVars, ptoVars
  <2>2. Accounted'
    BY <1>0, <1>12, IdleKeeps, Zenon DEF handlerVars, spaceVars, appVars, peerVars, history
  <2>3. QuietStep /\ UNCHANGED <<ptoMode, numProbesToSend>>
    BY <1>0, <1>12 DEF handlerVars, QuietStep, HandlerTyped, spaceVars, peerVars, ptoVars
  <2> QED
    BY <1>0, <2>1, <2>2, <2>3, QuietKeeps, Zenon DEF HandlerInv
<1>13. CASE Step
  BY <1>1, <1>2, <1>3, <1>4, <1>5, <1>6, <1>8, <1>9, <1>10, <1>11, <1>13, Zenon DEF Step
<1>14. CASE GoOn
  <2>1. "handshake" \in Spaces
    BY Zenon DEF Spaces
  <2> QED
    BY <1>4, <1>7, <1>8, <1>14, <2>1, Zenon DEF GoOn
<1> QED
  BY <1>12, <1>13, <1>14, Zenon DEF HandlerNext

(* The invariant holds throughout.                                         *)
LEMMA HandlerInvariant == HandlerSpec => []HandlerInv
<1> QED
  BY HandlerInitInv, HandlerStepInv, PTL DEF HandlerSpec

(* BytesInFlightExact: the window that sentPacketHandler counts is exactly *)
(* what is in flight, for any number of packets and any order of ACKs,     *)
(* losses, probes, dropped keys, Retry and migration.                      *)
THEOREM WindowExact == HandlerSpec => []BytesInFlightExact
<1>1. HandlerInv => BytesInFlightExact
  BY Zenon DEF HandlerInv, Accounted
<1> QED
  BY <1>1, HandlerInvariant, PTL

(* FramesAccounted: the frames of every ack-eliciting packet are reported  *)
(* acknowledged or lost exactly once, and an ACK is refused only for a     *)
(* number that carried no frames.                                          *)
THEOREM FramesAnswered == HandlerSpec => []FramesAccounted
<1>1. HandlerInv => FramesAccounted
  <2> SUFFICES ASSUME HandlerInv PROVE FramesAccounted
    BY Zenon
  <2>1. Marked
    BY Zenon DEF HandlerInv, Accounted
  <2>2. NoFrameForgotten
    <3>1. ASSUME NEW s \in Spaces \ dropped, NEW x \in sent \cap Of(s, 0..MaxNumber)
          PROVE  x \in reported \cup Of(s, DOMAIN histories[s])
      <4>1. PICK n \in Nat : x = <<s, n>>
        BY <3>1 DEF Of
      <4>2. x \in reported \/ n \in DOMAIN histories[s]
        BY <2>1, <3>1, <4>1, Zenon DEF Marked
      <4> QED
        BY <4>1, <4>2, Zenon DEF Of
    <3> QED
      BY <3>1, Zenon DEF NoFrameForgotten
  <2>3. ReportedOnce
    BY <2>1, Zenon DEF Marked, ReportedOnce
  <2>4. SkippedNeverSent
    BY <2>1, Zenon DEF Marked, SkippedNeverSent
  <2> QED
    BY <2>2, <2>3, <2>4, Zenon DEF FramesAccounted
<1> QED
  BY <1>1, HandlerInvariant, PTL

-----------------------------------------------------------------------------
(* What the timer is set to *)

ProbeTime ==
  IF HasOutstandingPathProbes
  THEN pathProbes[Min(DOMAIN pathProbes)] + PathProbeTimeout ELSE 0
Disarmed ==
  \/ /\ peerCompletedAddressValidation /\ ~HasOutstandingCryptoPackets
     /\ ~HasOutstanding("app") /\ ~HasOutstandingPathProbes
  \/ IsAmplificationLimited
BeforeProbe(t) == t # 0 /\ (ProbeTime = 0 \/ t < ProbeTime)
LossAlarm == [time |-> LossTimeAndSpace.time, type |-> "loss", space |-> LossTimeAndSpace.space]
PTOAlarm == [time |-> PTOTimeAndSpace.time, type |-> "pto", space |-> PTOTimeAndSpace.space]
ProbeAlarm == [time |-> ProbeTime, type |-> "pathProbe", space |-> "app"]

DueCases ==
  LossDetectionTime =
    IF Disarmed THEN NoAlarm
    ELSE IF BeforeProbe(LossTimeAndSpace.time) THEN LossAlarm
    ELSE IF BeforeProbe(PTOTimeAndSpace.time) THEN PTOAlarm
    ELSE IF ProbeTime # 0 THEN ProbeAlarm ELSE NoAlarm

(* The cases of setLossDetectionTimer.                                     *)
LEMMA DueIs == DueCases
<1>1. PICK probe, loss, pto : probe = ProbeTime /\ loss = LossTimeAndSpace /\ pto = PTOTimeAndSpace
  BY Zenon
<1>2. LossDetectionTime =
        IF Disarmed THEN NoAlarm
        ELSE CASE loss.time # 0 /\ (probe = 0 \/ loss.time < probe) ->
                    [time |-> loss.time, type |-> "loss", space |-> loss.space]
               [] /\ ~(loss.time # 0 /\ (probe = 0 \/ loss.time < probe))
                  /\ pto.time # 0 /\ (probe = 0 \/ pto.time < probe) ->
                    [time |-> pto.time, type |-> "pto", space |-> pto.space]
               [] /\ ~(loss.time # 0 /\ (probe = 0 \/ loss.time < probe))
                  /\ ~(pto.time # 0 /\ (probe = 0 \/ pto.time < probe)) /\ probe # 0 ->
                    [time |-> probe, type |-> "pathProbe", space |-> "app"]
               [] OTHER -> NoAlarm
  BY <1>1, Zenon DEF LossDetectionTime, Disarmed, ProbeTime
<1>3. CASE Disarmed
  BY <1>2, <1>3, Zenon DEF DueCases
<1>4. CASE ~Disarmed
  <2>1. /\ BeforeProbe(LossTimeAndSpace.time) <=> loss.time # 0 /\ (probe = 0 \/ loss.time < probe)
        /\ BeforeProbe(PTOTimeAndSpace.time) <=> pto.time # 0 /\ (probe = 0 \/ pto.time < probe)
    BY <1>1, Zenon DEF BeforeProbe
  <2> QED
    BY <1>1, <1>2, <1>4, <2>1, Zenon DEF DueCases, LossAlarm, PTOAlarm, ProbeAlarm
<1> QED
  BY <1>3, <1>4, Zenon

(* The timer is set exactly when there is a time to wait for.              *)
DueZero ==
  LossDetectionTime.time # 0 <=>
    /\ ~Disarmed
    /\ LossTimeAndSpace.time # 0 \/ PTOTimeAndSpace.time # 0 \/ ProbeTime # 0

(* That follows from the cases.                                            *)
LEMMA DueZeroIs == DueZero
<1>1. DueCases
  BY DueIs, Zenon
<1> QED
  BY <1>1, Zenon DEF DueZero, DueCases, BeforeProbe, LossAlarm, PTOAlarm, ProbeAlarm, NoAlarm

(* What an alarm is set for.                                               *)
AlarmIs(a) ==
  /\ a.time \in Nat /\ a.type \in {"none", "loss", "pto", "pathProbe"}
  /\ a.type = "none" => a.time = 0
  /\ a.type = "loss" => LossTimeAndSpace.time # 0
  /\ a.type = "pathProbe" => \E n \in DOMAIN pathProbes : a.time = pathProbes[n] + PathProbeTimeout
DueSound == AlarmIs(LossDetectionTime)
AlarmSound == AlarmIs(alarm)

(* The timer is set for what it says it is set for.                        *)
LEMMA DueSoundIs == HandlerTyped /\ Shaken => DueSound
<1> SUFFICES ASSUME HandlerTyped, Shaken PROVE DueSound
  BY Zenon
<1>1. PICK a : a = LossDetectionTime
  BY Zenon
<1>2. LossTimeAndSpace.time \in Nat /\ PTOTimeAndSpace.time \in Nat
  BY LossTimeIs, PTOTimeIs, Zenon
<1>3. ProbeTime # 0 => \E n \in DOMAIN pathProbes : ProbeTime = pathProbes[n] + PathProbeTimeout
  <2>1. DOMAIN pathProbes \subseteq Nat
    BY MapIs, Zenon DEF HandlerTyped
  <2>2. DOMAIN pathProbes # {} => Min(DOMAIN pathProbes) \in DOMAIN pathProbes
    BY <2>1, MinExists, Zenon
  <2> QED
    BY <2>2, Zenon DEF ProbeTime, HasOutstandingPathProbes
<1>4. ProbeTime \in Nat
  <2>1. \A n \in DOMAIN pathProbes : pathProbes[n] \in Nat
    BY MapIs DEF HandlerTyped
  <2>2. PathProbeTimeout \in Nat
    BY ConfIs, Zenon DEF HandlerTyped
  <2>3. CASE ProbeTime = 0
    BY <2>3, Zenon
  <2>4. CASE ProbeTime # 0
    BY <1>3, <2>1, <2>2, <2>4
  <2> QED
    BY <2>3, <2>4, Zenon
<1>5. \/ a = NoAlarm \/ a = PTOAlarm
      \/ a = LossAlarm /\ LossTimeAndSpace.time # 0
      \/ a = ProbeAlarm /\ ProbeTime # 0
  <2>1. BeforeProbe(LossTimeAndSpace.time) => LossTimeAndSpace.time # 0
    BY Zenon DEF BeforeProbe
  <2>2. DueCases
    BY DueIs, Zenon
  <2> QED
    BY <1>1, <2>1, <2>2, Zenon DEF DueCases
<1>6. CASE a = NoAlarm
  BY <1>1, <1>6 DEF DueSound, AlarmIs, NoAlarm
<1>7. CASE a = LossAlarm /\ LossTimeAndSpace.time # 0
  BY <1>1, <1>2, <1>7 DEF DueSound, AlarmIs, LossAlarm
<1>8. CASE a = PTOAlarm
  BY <1>1, <1>2, <1>8 DEF DueSound, AlarmIs, PTOAlarm
<1>9. CASE a = ProbeAlarm /\ ProbeTime # 0
  BY <1>1, <1>3, <1>4, <1>9 DEF DueSound, AlarmIs, ProbeAlarm
<1> QED
  BY <1>5, <1>6, <1>7, <1>8, <1>9, Zenon

(* A step that sets the timer leaves it armed.                             *)
LEMMA SetArms ==
  ASSUME (HandlerTyped /\ Shaken)', SetLossDetectionTimer
  PROVE  TimerArmed' /\ AlarmSound'
<1>1. DueSound'
  BY DueSoundIs, PTL
<1>2. alarm' = LossDetectionTime'
  BY Zenon DEF SetLossDetectionTimer
<1>3. AlarmSound'
  BY <1>1, <1>2, Zenon DEF DueSound, AlarmSound, AlarmIs
<1>4. LossDetectionTime'.time \in Nat
  BY <1>1, Zenon DEF DueSound, AlarmIs
<1>5. TimerArmed'
  BY <1>2, <1>4 DEF TimerArmed
<1> QED
  BY <1>3, <1>5, Zenon

(* Nothing changes that the timer depends on, but for the clock and the    *)
(* amplification limit.                                                    *)
SameTimers ==
  /\ UNCHANGED <<conf, rtt, dropped, lossTime, lastElicitingTime, pathProbes,
                 peerCompletedAddressValidation, handshakeConfirmed, ptoCount, alarm>>
  /\ \A s \in Spaces : HasOutstanding(s)' <=> HasOutstanding(s)
  /\ IsAmplificationLimited => IsAmplificationLimited'
  /\ now' = now \/ now' = now + 1
  /\ peerCompletedAddressValidation \/ largestSent' = largestSent
  /\ closed => closed'

(* The times themselves are then the same.                                 *)
LEMMA SameTimes ==
  ASSUME SameTimers
  PROVE  /\ LossTimeAndSpace' = LossTimeAndSpace /\ ProbeTime' = ProbeTime
         /\ PTOTimes' = PTOTimes /\ ScaledPTO(FALSE)' = ScaledPTO(FALSE)
         /\ HasOutstandingCryptoPackets' <=> HasOutstandingCryptoPackets
         /\ Disarmed => Disarmed'
<1>1. LossTimeAndSpace' = LossTimeAndSpace
  BY Zenon DEF SameTimers, LossTimeAndSpace, Earliest
<1>2. ProbeTime' = ProbeTime /\ (HasOutstandingPathProbes' <=> HasOutstandingPathProbes)
  BY Zenon DEF SameTimers, ProbeTime, HasOutstandingPathProbes
<1>3. \A b \in BOOLEAN : ScaledPTO(b)' = ScaledPTO(b)
  BY Zenon DEF SameTimers, ScaledPTO, MaxPto
<1>4. PTOTimes' = PTOTimes
  <2>1. ASSUME NEW s \in Spaces
        PROVE  (IF HasOutstanding(s)' /\ lastElicitingTime'[s] # 0 /\ (s = "app" => handshakeConfirmed')
                THEN lastElicitingTime'[s] + ScaledPTO(s = "app")' ELSE 0)
             = (IF HasOutstanding(s) /\ lastElicitingTime[s] # 0 /\ (s = "app" => handshakeConfirmed)
                THEN lastElicitingTime[s] + ScaledPTO(s = "app") ELSE 0)
    <3>1. (s = "app") \in BOOLEAN
      BY Zenon
    <3> QED
      BY <1>3, <3>1, Zenon DEF SameTimers
  <2> QED
    BY <2>1, Zenon DEF PTOTimes
<1>5. HasOutstandingCryptoPackets' <=> HasOutstandingCryptoPackets
  BY Zenon DEF SameTimers, HasOutstandingCryptoPackets, Spaces
<1>6. Disarmed => Disarmed'
  BY <1>2, <1>5, Zenon DEF Disarmed, SameTimers, Spaces
<1> QED
  BY <1>1, <1>2, <1>3, <1>4, <1>5, <1>6, Zenon

Floating == ~handshakeConfirmed /\ ~HasOutstandingCryptoPackets

(* And so is what the timer would be set to, unless it counts from now.    *)
LEMMA SameDue ==
  ASSUME SameTimers, HandlerTyped, Shaken
  PROVE  /\ Floating' <=> Floating
         /\ ~Disarmed' /\ ~Floating => LossDetectionTime' = LossDetectionTime
         /\ Floating /\ LossDetectionTime'.time # 0 => LossDetectionTime.time # 0
<1>1. /\ LossTimeAndSpace' = LossTimeAndSpace /\ ProbeTime' = ProbeTime
      /\ PTOTimes' = PTOTimes /\ ScaledPTO(FALSE)' = ScaledPTO(FALSE)
      /\ HasOutstandingCryptoPackets' <=> HasOutstandingCryptoPackets
      /\ Disarmed => Disarmed'
  BY SameTimes, Zenon
<1>2. Floating' <=> Floating
  BY <1>1, Zenon DEF Floating, SameTimers
<1>3. ASSUME ~Floating, ~Disarmed' PROVE LossDetectionTime' = LossDetectionTime
  <2>1. PTOTimeAndSpace = Earliest(PTOTimes)
    BY <1>3, Zenon DEF PTOTimeAndSpace, Floating
  <2>2. PTOTimeAndSpace' = Earliest(PTOTimes)'
    BY <1>2, <1>3, Zenon DEF PTOTimeAndSpace, Floating
  <2>3. PTOTimeAndSpace' = PTOTimeAndSpace
    BY <1>1, <2>1, <2>2, Zenon DEF Earliest
  <2>4. DueCases /\ DueCases'
    BY DueIs, PTL
  <2>5. /\ BeforeProbe(LossTimeAndSpace.time)' <=> BeforeProbe(LossTimeAndSpace.time)
        /\ BeforeProbe(PTOTimeAndSpace.time)' <=> BeforeProbe(PTOTimeAndSpace.time)
    BY <1>1, <2>3, Zenon DEF BeforeProbe
  <2>6. LossAlarm' = LossAlarm /\ PTOAlarm' = PTOAlarm /\ ProbeAlarm' = ProbeAlarm
    BY <1>1, <2>3, Zenon DEF LossAlarm, PTOAlarm, ProbeAlarm
  <2> QED
    BY <1>1, <1>3, <2>4, <2>5, <2>6, Zenon DEF DueCases, NoAlarm
<1>4. ASSUME Floating, LossDetectionTime'.time # 0 PROVE LossDetectionTime.time # 0
  <2>1. DueZero /\ DueZero'
    BY DueZeroIs, PTL
  <2>2. ~Disarmed' /\ ~Disarmed
    BY <1>1, <1>4, <2>1, Zenon DEF DueZero
  <2>3. CASE peerCompletedAddressValidation
    <3>1. PTOTimeAndSpace'.time = 0
      BY <1>2, <1>4, <2>3, Zenon DEF PTOTimeAndSpace, Floating, SameTimers
    <3>2. LossTimeAndSpace.time # 0 \/ ProbeTime # 0
      BY <1>1, <1>4, <2>1, <3>1, Zenon DEF DueZero
    <3> QED
      BY <2>1, <2>2, <3>2, Zenon DEF DueZero
  <2>4. CASE ~peerCompletedAddressValidation
    <3>1. PTOTimeAndSpace.time = now + ScaledPTO(FALSE)
      BY <1>4, <2>4, Zenon DEF PTOTimeAndSpace, Floating
    <3>2. PICK k \in Nat \ {0} : k = ScaledPTO(FALSE)
      BY ScaledPTOIs, Zenon
    <3>3. now + k # 0
      BY DEF HandlerTyped
    <3> QED
      BY <2>1, <2>2, <3>1, <3>2, <3>3, Zenon DEF DueZero
  <2> QED
    BY <2>3, <2>4, Zenon
<1> QED
  BY <1>2, <1>3, <1>4, Zenon

(* A step that leaves the timer alone leaves it armed.                     *)
LEMMA UnsetArms ==
  ASSUME SameTimers, HandlerTyped, Shaken, TimerArmed, AlarmSound
  PROVE  TimerArmed' /\ AlarmSound'
<1>1. /\ Floating' <=> Floating
      /\ ~Disarmed' /\ ~Floating => LossDetectionTime' = LossDetectionTime
      /\ Floating /\ LossDetectionTime'.time # 0 => LossDetectionTime.time # 0
  BY SameDue, Zenon
<1>2. LossTimeAndSpace' = LossTimeAndSpace
  BY SameTimes, Zenon
<1>3. AlarmSound'
  BY <1>2, Zenon DEF AlarmSound, AlarmIs, SameTimers
<1>4. ASSUME LossDetectionTime'.time # 0, ~closed',
             ~(~peerCompletedAddressValidation' /\ largestSent'["initial"] = NoNumber)
      PROVE  alarm'.time # 0 /\ (Floating' \/ alarm'.time <= LossDetectionTime'.time)
  <2>1. ~closed /\ ~(~peerCompletedAddressValidation /\ largestSent["initial"] = NoNumber)
    BY <1>4, Zenon DEF SameTimers
  <2>2. ~Disarmed'
    <3>1. DueZero'
      BY DueZeroIs, PTL
    <3> QED
      BY <1>4, <3>1, Zenon DEF DueZero
  <2>3. LossDetectionTime.time # 0 => alarm.time # 0 /\ (Floating \/ alarm.time <= LossDetectionTime.time)
    BY <2>1, Zenon DEF TimerArmed, Floating
  <2> QED
    BY <1>1, <1>4, <2>2, <2>3, Zenon DEF SameTimers
<1>5. TimerArmed'
  BY <1>4, Zenon DEF TimerArmed, Floating
<1> QED
  BY <1>3, <1>5, Zenon

-----------------------------------------------------------------------------
(* The timer, step by step *)

(* A client that has heard nothing still waits for address validation, and *)
(* paths are probed once the handshake is confirmed.                       *)
Waiting ==
  bytesReceived = 0 /\ ~Established /\ Perspective = "client" => ~peerCompletedAddressValidation
Confirmed == DOMAIN pathProbes # {} => handshakeConfirmed
Side == Waiting /\ Confirmed

(* Both hold on while no probe is added and no validation completed.       *)
LEMMA SideKeeps ==
  ASSUME HandlerTyped, Side, conf' = conf, bytesReceived' \in Nat, bytesReceived <= bytesReceived',
         peerCompletedAddressValidation' = peerCompletedAddressValidation
           \/ bytesReceived # 0 \/ Established,
         handshakeConfirmed => handshakeConfirmed',
         DOMAIN pathProbes' \subseteq DOMAIN pathProbes \/ handshakeConfirmed'
  PROVE  Side'
<1>1. Established' = Established /\ Perspective' = Perspective
  BY Zenon DEF Established, Perspective
<1>2. bytesReceived' = 0 => bytesReceived = 0
  BY DEF HandlerTyped
<1>3. Waiting'
  BY <1>1, <1>2, Zenon DEF Side, Waiting
<1>4. Confirmed'
  BY Zenon DEF Side, Confirmed
<1> QED
  BY <1>3, <1>4, Zenon DEF Side

(* Every step keeps them.                                                  *)
LEMMA SideStep ==
  ASSUME HandlerInv, HandlerTyped', Side, [HandlerNext]_handlerVars
  PROVE  Side'
<1>0. HandlerTyped /\ Keys /\ Fresh /\ bytesReceived \in Nat /\ bytesReceived' \in Nat
  BY Zenon DEF HandlerInv, Keys, HandlerTyped
<1>1. CASE Tick
  BY <1>0, <1>1, SideKeeps DEF Tick, appVars, peerVars
<1>2. ASSUME NEW s \in Spaces, NEW kind, NEW skip, NEW lost, HandlerSentPacket(s, kind, skip, lost),
             kind = "pathProbe" => handshakeConfirmed
      PROVE  Side'
  <2>1. kind # "pathProbe" => pathProbes' = pathProbes
    BY <1>2, Zenon DEF HandlerSentPacket
  <2>2. UNCHANGED <<conf, peerVars>>
    BY <1>2, Zenon DEF HandlerSentPacket
  <2> QED
    BY <1>0, <1>2, <2>1, <2>2, SideKeeps DEF peerVars
<1>3. ASSUME NEW s \in Spaces, NEW kind, NEW skip, Send(s, kind, skip) PROVE Side'
  <2>1. kind \in Sendable(s) /\ HandlerSentPacket(s, kind, skip, {})
    BY <1>3, Zenon DEF Send
  <2>2. kind = "pathProbe" => handshakeConfirmed
    BY <2>1, Zenon DEF Sendable, Spaces
  <2> QED
    BY <1>2, <2>1, <2>2, Zenon
<1>4. ASSUME NEW s \in Spaces, NEW given, NEW skip, SendProbe(s, given, skip) PROVE Side'
  BY <1>2, <1>4, Zenon DEF SendProbe
<1>5. ASSUME NEW s \in Spaces, NEW ack, ReceivedAck(s, ack) PROVE Side'
  <2>1. bytesReceived # 0 \/ Established
    BY <1>0, <1>5 DEF ReceivedAck
  <2>2. UNCHANGED <<conf, bytesReceived, handshakeConfirmed>>
    BY <1>5, Zenon DEF ReceivedAck, RefuseAck, ReceivedOldAck, ReceivedNewAck, peerVars
  <2>3. DOMAIN pathProbes' \subseteq DOMAIN pathProbes
    <3>1. CASE RefuseAck(s, ack) \/ ReceivedOldAck(s, ack)
      BY <3>1, Zenon DEF RefuseAck, ReceivedOldAck, appVars
    <3>2. CASE ReceivedNewAck(s, ack)
      <4>1. PICK P, Q : pathProbes' = Without(Without(pathProbes, P), Q)
        BY <3>2, Zenon DEF ReceivedNewAck
      <4> QED
        BY <4>1, Zenon DEF Without
    <3> QED
      BY <1>5, <3>1, <3>2, Zenon DEF ReceivedAck
  <2> QED
    BY <1>0, <2>1, <2>2, <2>3, SideKeeps
<1>6. ASSUME NEW skip, OnLossDetectionTimeout(skip) PROVE Side'
  <2>1. PICK late : pathProbes' = Without(pathProbes, late)
    BY <1>6, Zenon DEF OnLossDetectionTimeout
  <2>2. UNCHANGED <<conf, peerVars>> /\ DOMAIN pathProbes' \subseteq DOMAIN pathProbes
    BY <1>6, <2>1, Zenon DEF OnLossDetectionTimeout, Without
  <2> QED
    BY <1>0, <2>2, SideKeeps DEF peerVars
<1>7. CASE ReceivedBytes
  BY <1>0, <1>7, SideKeeps DEF ReceivedBytes, appVars
<1>8. CASE ReceivedPacket
  BY <1>0, <1>8, SideKeeps DEF ReceivedPacket, appVars
<1>9. ASSUME NEW s \in Spaces, DropPackets(s) PROVE Side'
  <2>1. bytesReceived # 0 \/ Established
    BY <1>0, <1>9 DEF Fresh, Unheard, DropPackets
  <2>2. /\ UNCHANGED <<conf, bytesReceived, pathProbes>>
        /\ handshakeConfirmed => handshakeConfirmed'
    BY <1>9, Zenon DEF DropPackets, appVars
  <2> QED
    BY <1>0, <2>1, <2>2, SideKeeps
<1>10. CASE Drop0RTT
  BY <1>0, <1>10, SideKeeps DEF Drop0RTT, appVars, peerVars
<1>11. ASSUME NEW skip, ResetForRetry(skip) PROVE Side'
  <2>1. UNCHANGED <<conf, peerVars>> /\ DOMAIN pathProbes' \subseteq DOMAIN pathProbes
    BY <1>11, EmptyMaps, Zenon DEF ResetForRetry
  <2> QED
    BY <1>0, <2>1, SideKeeps DEF peerVars
<1>12. CASE MigratedPath
  <2>1. UNCHANGED <<conf, peerVars>> /\ DOMAIN pathProbes' \subseteq DOMAIN pathProbes
    BY <1>12, Zenon DEF MigratedPath, Without
  <2> QED
    BY <1>0, <2>1, SideKeeps DEF peerVars
<1>13. CASE UNCHANGED handlerVars
  BY <1>0, <1>13, SideKeeps DEF handlerVars, appVars, peerVars
<1>14. CASE Step
  BY <1>1, <1>3, <1>4, <1>5, <1>6, <1>7, <1>9, <1>10, <1>11, <1>12, <1>14 DEF Step
<1>15. CASE GoOn
  BY <1>5, <1>8, <1>9, <1>15, Zenon DEF GoOn, Spaces
<1> QED
  BY <1>13, <1>14, <1>15, Zenon DEF HandlerNext

TimerInv == TimerArmed /\ AlarmSound

(* A new handler has no timer, and nothing to wait for.                    *)
LEMMA TimerInit == HandlerInit => TimerInv /\ Side
<1> SUFFICES ASSUME HandlerInit PROVE TimerInv /\ Side
  BY Zenon
<1>1. HandlerTyped /\ Shaken
  BY HandlerInitInv, Zenon DEF HandlerInv, Keys
<1>2. DOMAIN None = {} /\ DOMAIN NoProbes = {}
  BY EmptyMaps, Zenon
<1>3. Established \in BOOLEAN /\ Perspective \in {"client", "server"}
  BY <1>1, ConfIs, Zenon DEF HandlerTyped
<1>4. Side
  BY <1>2, <1>3 DEF HandlerInit, Side, Waiting, Confirmed
<1>5. AlarmSound
  BY DEF HandlerInit, AlarmSound, AlarmIs, NoAlarm
<1>6. CASE peerCompletedAddressValidation
  <2>1. \A s \in Spaces : ~HasOutstanding(s)
    BY <1>2, Zenon DEF HandlerInit, HasOutstanding
  <2>2. Disarmed
    BY <1>2, <1>6, <2>1, Zenon DEF Disarmed, HasOutstandingCryptoPackets, HasOutstandingPathProbes,
      HandlerInit, Spaces
  <2>3. LossDetectionTime.time = 0
    BY <2>2, DueZeroIs, Zenon DEF DueZero
  <2> QED
    BY <1>4, <1>5, <2>3, Zenon DEF TimerInv, TimerArmed
<1>7. CASE ~peerCompletedAddressValidation
  <2>1. largestSent["initial"] = NoNumber
    BY Zenon DEF HandlerInit, Spaces
  <2> QED
    BY <1>4, <1>5, <1>7, <2>1, Zenon DEF TimerInv, TimerArmed
<1> QED
  BY <1>6, <1>7, Zenon

(* An ACK-only packet changes nothing that the timer depends on.           *)
LEMMA AckOnlySame ==
  ASSUME HandlerTyped, Numbers, NEW s \in Spaces, NEW kind \in AllKinds, NEW skip \in BOOLEAN,
         HandlerSentPacket(s, kind, skip, {}),
         kind # "pathProbe", ~AckEliciting([kind |-> kind]), peerCompletedAddressValidation
  PROVE  SameTimers
<1>1. PICK n : n = IF skip THEN next[s] + 1 ELSE next[s]
  BY Zenon
<1>2. n \in Nat /\ next[s] <= n
  BY <1>1 DEF HandlerTyped
<1>3. n \notin DOMAIN histories[s]
  <2>1. \A m \in DOMAIN histories[s] : m \in Nat /\ m < next[s]
    BY MapIs, Zenon DEF HandlerTyped, Numbers
  <2>2. next[s] \in Nat
    BY Zenon DEF HandlerTyped
  <2> QED
    BY <1>2, <2>1, <2>2
<1>4. PICK e : e = [kind |-> kind, at |-> IF kind = "pathProbe" THEN 0 ELSE now]
  BY Zenon
<1>5. histories' = [histories EXCEPT ![s] = With(Without(histories[s], {}), n, e)]
  BY <1>1, <1>4, Zenon DEF HandlerSentPacket
<1>6. e.kind \notin {"data", "zeroRTT"}
  BY <1>4 DEF AckEliciting
<1>7. UNCHANGED <<conf, now, rtt, dropped, lossTime, lastElicitingTime, pathProbes,
                  peerAddressValidated, bytesReceived,
                  peerCompletedAddressValidation, handshakeConfirmed, ptoCount, alarm, closed>>
  BY Zenon DEF HandlerSentPacket, peerVars
<1>8. ASSUME NEW q \in Spaces PROVE HasOutstanding(q)' <=> HasOutstanding(q)
  <2>1. CASE q # s
    <3>1. histories'[q] = histories[q]
      BY <1>5, <2>1, Zenon DEF HandlerTyped
    <3> QED
      BY <1>7, <3>1, Zenon DEF HasOutstanding
  <2>2. CASE q = s
    <3>1. PICK f, g : f = histories[s] /\ g = histories'[s]
      BY Zenon
    <3>2. g = With(Without(f, {}), n, e)
      BY <1>5, <3>1, Zenon DEF HandlerTyped
    <3>3. /\ DOMAIN g = DOMAIN f \cup {n} /\ g[n] = e
          /\ \A m \in DOMAIN f : g[m] = f[m]
      BY <1>3, <3>1, <3>2, Zenon DEF With, Without
    <3>4. (\E m \in DOMAIN g : IsOutstanding(g[m])) <=> (\E m \in DOMAIN f : IsOutstanding(f[m]))
      BY <1>6, <3>3, Zenon DEF IsOutstanding
    <3> QED
      BY <1>7, <2>2, <3>1, <3>4, Zenon DEF HasOutstanding
  <2> QED
    BY <2>1, <2>2, Zenon
<1>9. IsAmplificationLimited => IsAmplificationLimited'
  <2>1. bytesSent' = bytesSent \/ bytesSent' = bytesSent + 1
    BY Zenon DEF HandlerSentPacket
  <2>2. bytesSent \in Nat /\ bytesReceived \in Nat
    BY Zenon DEF HandlerTyped
  <2>3. bytesSent >= 3 * bytesReceived => bytesSent' >= 3 * bytesReceived
    BY <2>1, <2>2
  <2> QED
    BY <1>7, <2>3, Zenon DEF IsAmplificationLimited
<1> QED
  BY <1>7, <1>8, <1>9, Zenon DEF SameTimers

(* Sending sets the timer, unless it is only an ACK.                       *)
LEMMA SentTimer ==
  ASSUME HandlerInv, HandlerInv', TimerInv, NEW s \in Spaces, NEW kind \in AllKinds,
         NEW skip \in BOOLEAN, NEW lost, HandlerSentPacket(s, kind, skip, lost),
         lost = {} \/ kind = "data"
  PROVE  TimerInv'
<1>0. HandlerTyped /\ Numbers /\ Shaken /\ (HandlerTyped /\ Shaken)'
  BY Zenon DEF HandlerInv, Accounted, Keys
<1>1. CASE kind = "pathProbe" \/ AckEliciting([kind |-> kind]) \/ ~peerCompletedAddressValidation
  <2>1. SetLossDetectionTimer
    BY <1>1, Zenon DEF HandlerSentPacket
  <2> QED
    BY <1>0, <2>1, SetArms, Zenon DEF TimerInv
<1>2. CASE ~(kind = "pathProbe" \/ AckEliciting([kind |-> kind]) \/ ~peerCompletedAddressValidation)
  <2>1. kind # "data"
    BY <1>2 DEF AckEliciting
  <2>2. HandlerSentPacket(s, kind, skip, {})
    BY <2>1, Zenon
  <2>3. SameTimers
    BY <1>0, <1>2, <2>2, AckOnlySame, Zenon
  <2> QED
    BY <1>0, <2>3, UnsetArms, Zenon DEF TimerInv
<1> QED
  BY <1>1, <1>2, Zenon

(* An ACK sets the timer, unless nothing comes of it.                      *)
LEMMA AckTimer ==
  ASSUME HandlerInv, HandlerInv', TimerInv, NEW s \in Spaces, NEW ack, ReceivedAck(s, ack)
  PROVE  TimerInv'
<1>0. HandlerTyped /\ Shaken /\ (HandlerTyped /\ Shaken)'
  BY Zenon DEF HandlerInv, Keys
<1>1. CASE RefuseAck(s, ack)
  <2>1. TimerArmed'
    BY <1>1, Zenon DEF RefuseAck, TimerArmed
  <2>2. LossTimeAndSpace' = LossTimeAndSpace
    BY <1>1, Zenon DEF RefuseAck, LossTimeAndSpace, Earliest, spaceVars, peerVars
  <2>3. AlarmSound'
    BY <1>1, <2>2, Zenon DEF RefuseAck, TimerInv, AlarmSound, AlarmIs, appVars
  <2> QED
    BY <2>1, <2>3, Zenon DEF TimerInv
<1>2. CASE ReceivedOldAck(s, ack)
  <2>1. CASE peerCompletedAddressValidation' # peerCompletedAddressValidation
    <3>1. SetLossDetectionTimer
      BY <1>2, <2>1, Zenon DEF ReceivedOldAck
    <3> QED
      BY <1>0, <3>1, SetArms, Zenon DEF TimerInv
  <2>2. CASE peerCompletedAddressValidation' = peerCompletedAddressValidation
    <3>1. UNCHANGED alarm
      BY <1>2, <2>2, Zenon DEF ReceivedOldAck
    <3>2. UNCHANGED <<conf, now, rtt, dropped, bytesReceived, bytesSent, peerAddressValidated,
                      handshakeConfirmed, ptoCount, closed, largestSent, histories, lossTime,
                      lastElicitingTime, pathProbes>>
      BY <1>2, Zenon DEF ReceivedOldAck, spaceVars, appVars, ptoVars
    <3>3. SameTimers
      BY <2>2, <3>1, <3>2, Zenon DEF SameTimers, HasOutstanding, IsAmplificationLimited
    <3> QED
      BY <1>0, <3>3, UnsetArms, Zenon DEF TimerInv
  <2> QED
    BY <2>1, <2>2, Zenon
<1>3. CASE ReceivedNewAck(s, ack)
  <2>1. SetLossDetectionTimer
    BY <1>3, Zenon DEF ReceivedNewAck
  <2> QED
    BY <1>0, <2>1, SetArms, Zenon DEF TimerInv
<1> QED
  BY <1>1, <1>2, <1>3, Zenon DEF ReceivedAck

(* A Retry leaves a client that has sent nothing.                          *)
LEMMA RetryTimer ==
  ASSUME HandlerInv, Side, NEW skip, ResetForRetry(skip)
  PROVE  TimerInv'
<1>1. ~Established
  <2>1. next["initial"] # 0
    BY DEF ResetForRetry
  <2> QED
    BY <2>1, Zenon DEF HandlerInv, Keys, Fresh
<1>2. ~peerCompletedAddressValidation
  BY <1>1, Zenon DEF Side, Waiting, ResetForRetry
<1>3. ~peerCompletedAddressValidation' /\ largestSent'["initial"] = NoNumber
  BY <1>2, Zenon DEF ResetForRetry, peerVars, Spaces
<1>4. TimerArmed'
  BY <1>3, Zenon DEF TimerArmed
<1>5. AlarmSound'
  BY DEF ResetForRetry, AlarmSound, AlarmIs, NoAlarm
<1> QED
  BY <1>4, <1>5, Zenon DEF TimerInv

(* Every step leaves the timer armed.                                      *)
LEMMA TimerStep ==
  ASSUME HandlerInv, HandlerInv', Side, TimerInv, [HandlerNext]_handlerVars
  PROVE  TimerInv'
<1>0. HandlerTyped /\ Shaken /\ (HandlerTyped /\ Shaken)' /\ SentKinds \subseteq AllKinds
  <2>1. HandlerTyped /\ Shaken /\ (HandlerTyped /\ Shaken)'
    BY Zenon DEF HandlerInv, Keys
  <2> QED
    BY <2>1, ConfIs, Zenon DEF HandlerTyped
<1>set. SetLossDetectionTimer => TimerInv'
  BY <1>0, SetArms, Zenon DEF TimerInv
<1>unset. SameTimers => TimerInv'
  BY <1>0, UnsetArms, Zenon DEF TimerInv
<1>1. CASE Tick
  <2>1. now' = now + 1
    BY <1>1, Zenon DEF Tick
  <2>2. UNCHANGED <<conf, rtt, dropped, bytesReceived, bytesSent, peerAddressValidated,
                    peerCompletedAddressValidation, handshakeConfirmed, ptoCount, closed, alarm,
                    largestSent, histories, lossTime, lastElicitingTime, pathProbes>>
    BY <1>1, Zenon DEF Tick, spaceVars, appVars, peerVars, ptoVars
  <2>3. SameTimers
    BY <2>1, <2>2, Zenon DEF SameTimers, HasOutstanding, IsAmplificationLimited
  <2> QED
    BY <1>unset, <2>3, Zenon
<1>2. ASSUME NEW s \in Spaces, NEW kind \in SentKinds, NEW skip \in BOOLEAN, Send(s, kind, skip)
      PROVE  TimerInv'
  <2>1. HandlerSentPacket(s, kind, skip, {}) /\ kind \in AllKinds
    BY <1>0, <1>2, Zenon DEF Send
  <2> QED
    BY <2>1, SentTimer, Zenon
<1>3. ASSUME NEW s \in Spaces, NEW skip \in BOOLEAN, NEW given, SendProbe(s, given, skip)
      PROVE  TimerInv'
  <2>1. HandlerSentPacket(s, "data", skip, given) /\ "data" \in AllKinds
    BY <1>3, Zenon DEF SendProbe, AllKinds
  <2> QED
    BY <2>1, SentTimer, Zenon
<1>4. ASSUME NEW s \in Spaces, NEW ack, ReceivedAck(s, ack) PROVE TimerInv'
  BY <1>4, AckTimer, Zenon
<1>5. ASSUME NEW skip, OnLossDetectionTimeout(skip) PROVE TimerInv'
  BY <1>5, <1>set, Zenon DEF OnLossDetectionTimeout
<1>6. CASE ReceivedBytes
  <2>1. CASE IsAmplificationLimited /\ ~IsAmplificationLimited'
    BY <1>6, <1>set, <2>1, Zenon DEF ReceivedBytes
  <2>2. CASE ~(IsAmplificationLimited /\ ~IsAmplificationLimited')
    <3>1. UNCHANGED alarm
      BY <1>6, <2>2, Zenon DEF ReceivedBytes
    <3>2. UNCHANGED <<conf, now, rtt, dropped, peerCompletedAddressValidation, handshakeConfirmed,
                      ptoCount, closed, largestSent, histories, lossTime, lastElicitingTime,
                      pathProbes>>
      BY <1>6, Zenon DEF ReceivedBytes, spaceVars, appVars, ptoVars
    <3>3. SameTimers
      BY <2>2, <3>1, <3>2, Zenon DEF SameTimers, HasOutstanding
    <3> QED
      BY <1>unset, <3>3, Zenon
  <2> QED
    BY <2>1, <2>2, Zenon
<1>7. CASE ReceivedPacket
  BY <1>7, <1>set, Zenon DEF ReceivedPacket
<1>8. ASSUME NEW s \in Spaces, DropPackets(s) PROVE TimerInv'
  BY <1>8, <1>set, Zenon DEF DropPackets
<1>9. CASE Drop0RTT
  BY <1>9, <1>set, Zenon DEF Drop0RTT
<1>10. ASSUME NEW skip, ResetForRetry(skip) PROVE TimerInv'
  BY <1>10, RetryTimer, Zenon
<1>11. CASE MigratedPath
  BY <1>11, <1>set, Zenon DEF MigratedPath
<1>12. CASE UNCHANGED handlerVars
  <2>1. UNCHANGED <<conf, now, rtt, dropped, bytesReceived, bytesSent, peerAddressValidated,
                    peerCompletedAddressValidation, handshakeConfirmed, ptoCount, closed, alarm,
                    largestSent, histories, lossTime, lastElicitingTime, pathProbes>>
    BY <1>12, Zenon DEF handlerVars, spaceVars, appVars, peerVars, ptoVars
  <2>2. SameTimers
    BY <2>1, Zenon DEF SameTimers, HasOutstanding, IsAmplificationLimited
  <2> QED
    BY <1>unset, <2>2, Zenon
<1>13. CASE Step
  BY <1>1, <1>2, <1>3, <1>4, <1>5, <1>6, <1>8, <1>9, <1>10, <1>11, <1>13, Zenon DEF Step
<1>14. CASE GoOn
  <2>1. "handshake" \in Spaces
    BY Zenon DEF Spaces
  <2> QED
    BY <1>4, <1>7, <1>8, <1>14, <2>1, Zenon DEF GoOn
<1> QED
  BY <1>12, <1>13, <1>14, Zenon DEF HandlerNext

(* The whole invariant holds throughout.                                   *)
LEMMA TimerInvariant == HandlerSpec => [](HandlerInv /\ Side /\ TimerInv)
<1>1. HandlerInit => HandlerInv /\ Side /\ TimerInv
  BY HandlerInitInv, TimerInit, Zenon
<1>2. HandlerInv /\ Side /\ TimerInv /\ [HandlerNext]_handlerVars => (HandlerInv /\ Side /\ TimerInv)'
  <2> SUFFICES ASSUME HandlerInv, Side, TimerInv, [HandlerNext]_handlerVars
               PROVE  (HandlerInv /\ Side /\ TimerInv)'
    BY Zenon
  <2>1. HandlerInv'
    BY HandlerStepInv, Zenon
  <2>2. HandlerTyped'
    BY <2>1, Zenon DEF HandlerInv
  <2>3. Side'
    BY <2>2, SideStep, Zenon
  <2>4. TimerInv'
    BY <2>1, TimerStep, Zenon
  <2> QED
    BY <2>1, <2>3, <2>4, Zenon
<1> QED
  BY <1>1, <1>2, PTL DEF HandlerSpec

(* TimersSound: OnLossDetectionTimeout never reaches an error marked BUG,  *)
(* a probe is owed only in a space with keys, and the timer that           *)
(* setLossDetectionTimer would set is set, whatever order the handler's    *)
(* calls come in.                                                          *)
THEOREM TimersHold == HandlerSpec => []TimersSound
<1>1. HandlerInv /\ Side /\ TimerInv => TimersSound
  BY Zenon DEF HandlerInv, Keys, Owed, TimerInv, TimersSound, NoBug
<1> QED
  BY <1>1, TimerInvariant, PTL

(* A timeout counts a PTO only if that is what the alarm was set for, or   *)
(* if a path probe timed out with it.                                      *)
LEMMA TimeoutCounts ==
  ASSUME HandlerInv, Side, TimerInv, NEW skip, OnLossDetectionTimeout(skip), ptoCount' # ptoCount
  PROVE  alarm.type = "pto" \/ pathProbes' # pathProbes
<1>1. AlarmSound /\ HandlerTyped
  BY Zenon DEF TimerInv, HandlerInv
<1>2. LossTimeAndSpace.time = 0
  BY Zenon DEF OnLossDetectionTimeout, LossTimeout, ptoVars
<1>3. alarm.time # 0 /\ alarm.time <= now
  BY Zenon DEF OnLossDetectionTimeout
<1>4. alarm.type \in {"pto", "pathProbe"}
  BY <1>1, <1>2, <1>3, Zenon DEF AlarmSound, AlarmIs
<1>5. ASSUME alarm.type = "pathProbe" PROVE pathProbes' # pathProbes
  <2>1. PICK n \in DOMAIN pathProbes : alarm.time = pathProbes[n] + PathProbeTimeout
    BY <1>1, <1>5, Zenon DEF AlarmSound, AlarmIs
  <2>2. pathProbes[n] \in Nat
    BY <1>1, MapIs DEF HandlerTyped
  <2>3. PathProbeTimeout \in Nat /\ now \in Nat
    BY <1>1, ConfIs DEF HandlerTyped
  <2>4. pathProbes[n] <= now - PathProbeTimeout
    BY <1>3, <2>1, <2>2, <2>3
  <2>5. handshakeConfirmed
    BY <2>1, Zenon DEF Side, Confirmed
  <2>6. pathProbes' = Without(pathProbes, LostPathProbes(pathProbes))
    BY <2>5, Zenon DEF OnLossDetectionTimeout
  <2>7. n \notin DOMAIN pathProbes'
    BY <2>4, <2>6, Zenon DEF Without, LostPathProbes
  <2> QED
    BY <2>7, Zenon
<1> QED
  BY <1>4, <1>5, Zenon

(* No other step counts one.                                               *)
LEMMA OtherCounts ==
  ASSUME HandlerTyped, [HandlerNext]_handlerVars, ptoCount' > ptoCount
  PROVE  \E skip \in BOOLEAN : OnLossDetectionTimeout(skip)
<1>1. ptoCount' # ptoCount /\ ptoCount' # 0
  BY DEF HandlerTyped
<1>2. ~Tick /\ ~ReceivedBytes /\ ~ReceivedPacket /\ ~Drop0RTT /\ ~MigratedPath
  BY <1>1, Zenon DEF Tick, ReceivedBytes, ReceivedPacket, Drop0RTT, MigratedPath, ResetPTO, ptoVars
<1>sent. ASSUME NEW s, NEW kind, NEW skip, NEW lost, HandlerSentPacket(s, kind, skip, lost)
         PROVE  FALSE
  <2>1. UNCHANGED ptoCount
    BY <1>sent, Zenon DEF HandlerSentPacket
  <2> QED
    BY <1>1, <2>1, Zenon
<1>3. ASSUME NEW s, NEW kind, NEW skip, Send(s, kind, skip) PROVE FALSE
  BY <1>3, <1>sent, Zenon DEF Send
<1>4. ASSUME NEW s, NEW given, NEW skip, SendProbe(s, given, skip) PROVE FALSE
  BY <1>4, <1>sent, Zenon DEF SendProbe
<1>5. ASSUME NEW s, NEW ack, ReceivedAck(s, ack) PROVE FALSE
  <2>1. CASE RefuseAck(s, ack) \/ ReceivedOldAck(s, ack)
    BY <1>1, <2>1, Zenon DEF RefuseAck, ReceivedOldAck, ptoVars
  <2>2. CASE ReceivedNewAck(s, ack)
    <3>1. ptoCount' = ptoCount \/ ptoCount' = 0
      BY <2>2, Zenon DEF ReceivedNewAck
    <3> QED
      BY <1>1, <3>1, Zenon
  <2> QED
    BY <1>5, <2>1, <2>2, Zenon DEF ReceivedAck
<1>6. \A s : ~DropPackets(s)
  BY <1>1, Zenon DEF DropPackets, ResetPTO
<1>7. \A skip : ~ResetForRetry(skip)
  BY <1>1, Zenon DEF ResetForRetry
<1>8. ~UNCHANGED handlerVars
  BY <1>1, Zenon DEF handlerVars, ptoVars
<1>9. CASE Step
  BY <1>2, <1>3, <1>4, <1>5, <1>6, <1>7, <1>9, Zenon DEF Step
<1>10. CASE GoOn
  BY <1>2, <1>5, <1>6, <1>10, Zenon DEF GoOn
<1> QED
  BY <1>8, <1>9, <1>10, Zenon DEF HandlerNext

(* PtoOnlyWhenDue: although one alarm serves loss times, PTOs and path     *)
(* probes, OnLossDetectionTimeout never counts a PTO for a loss time.      *)
THEOREM PTOCountedWhenDue == HandlerSpec => PtoOnlyWhenDue
<1>1. HandlerInv /\ Side /\ TimerInv /\ [HandlerNext]_handlerVars =>
        [ptoCount' > ptoCount => alarm.type = "pto" \/ pathProbes' # pathProbes]_handlerVars
  <2> SUFFICES ASSUME HandlerInv, Side, TimerInv, [HandlerNext]_handlerVars, ptoCount' > ptoCount
               PROVE  alarm.type = "pto" \/ pathProbes' # pathProbes
    BY Zenon
  <2>1. HandlerTyped /\ ptoCount' # ptoCount
    BY DEF HandlerInv, HandlerTyped
  <2>2. PICK skip \in BOOLEAN : OnLossDetectionTimeout(skip)
    BY <2>1, OtherCounts, Zenon
  <2> QED
    BY <2>1, <2>2, TimeoutCounts, Zenon
<1> QED
  BY <1>1, TimerInvariant, PTL DEF HandlerSpec, PtoOnlyWhenDue
=============================================================================
