------------------------------ MODULE BBRv3Proofs ------------------------------
(***************************************************************************)
(* Proofs about quic-go's BBRv3.  The sender: what updateMinRtt keeps      *)
(* bounds the samples since its stamp, and no sample exceeds the round     *)
(* trip it measures, for any lengths of the two filters and any number of  *)
(* packet number spaces on the one map of send times.  The statistics:     *)
(* StatsConsistent, for any number of collectors, packets and goroutines.  *)
(***************************************************************************)
EXTENDS BBRv3Sender, BBRv3Stats, TLAPS

SenderTypes ==
  /\ now \in Nat /\ now <= MaxTime
  /\ probeRttMinStamp \in Nat /\ probeRttMinStamp <= now
  /\ minRttStamp \in Nat /\ minRttStamp <= now
  /\ probeRttMinDelay \in Nat /\ minRtt \in Nat
  /\ probeRttMinDelay <= MaxDuration
  /\ \A n \in DOMAIN sentTimes : sentTimes[n] \in Nat /\ sentTimes[n] <= now
  /\ \A x \in samples : x.at \in Nat /\ x.at <= now /\ x.rtt \in Nat

(* The 5 s filter bounds the samples since its stamp.  A migration resets  *)
(* it in a tick that may have seen samples; the packets sent after that    *)
(* give their samples in later ticks, since a sample of zero is not used.  *)
FilterInv ==
  /\ probeRttMinDelay = MaxDuration =>
       /\ \A x \in samples : x.at <= probeRttMinStamp
       /\ \A n \in DOMAIN sentTimes : sentTimes[n] >= probeRttMinStamp
  /\ probeRttMinDelay # MaxDuration =>
       \A x \in samples :
         /\ x.at >= probeRttMinStamp => probeRttMinDelay <= x.rtt
         /\ x.at = now => now - probeRttMinStamp <= ProbeRttInterval

WindowInv == SenderTypes /\ FilterInv /\ MinRttBoundsWindow

-----------------------------------------------------------------------------
(* The constants are numbers, and the filters nest.                        *)
LEMMA Params ==
  /\ ProbeRttInterval \in Nat /\ MinRttFilterLen \in Nat /\ MaxTime \in Nat
  /\ MaxDuration \in Nat /\ MaxDuration = MaxTime + 1
  /\ ProbeRttInterval <= MinRttFilterLen
  BY ParamAssumption DEF MaxDuration

(* A new sender satisfies the window invariant.                            *)
LEMMA InitWindow == SenderInit => WindowInv
  BY Params DEF SenderInit, WindowInv, SenderTypes, FilterInv, MinRttBoundsWindow, Empty

(* Put and Drop, at the times they keep.                                   *)
LEMMA PutDrop ==
  ASSUME NEW f, NEW x, NEW v
  PROVE  /\ \A y \in DOMAIN Put(f, x, v) : y = x \/ (y \in DOMAIN f /\ y # x)
         /\ \A y \in DOMAIN Put(f, x, v) : Put(f, x, v)[y] = IF y = x THEN v ELSE f[y]
         /\ x \in DOMAIN Put(f, x, v)
         /\ \A y \in DOMAIN Drop(f, x) : y \in DOMAIN f /\ y # x /\ Drop(f, x)[y] = f[y]
  BY DEF Put, Drop

(* An ack that gives a sample: the new state of both filters.              *)
LEMMA SampleStep ==
  ASSUME WindowInv, NEW n \in DOMAIN sentTimes, now - sentTimes[n] > 0,
         UpdateMinRtt(now - sentTimes[n]), UNCHANGED now,
         NEW real, NEW own,
         samples' = samples \cup {[at |-> now, rtt |-> now - sentTimes[n],
                                  real |-> real, own |-> own]},
         sentTimes' = Drop(sentTimes, n)
  PROVE  WindowInv' /\ now' - minRttStamp' <= MinRttFilterLen
<1> DEFINE rtt == now - sentTimes[n]
<1> DEFINE fresh == rtt <= probeRttMinDelay \/ now - probeRttMinStamp > ProbeRttInterval
<1> DEFINE new == [at |-> now, rtt |-> rtt, real |-> real, own |-> own]
<1> USE Params
<1>0. /\ now \in Nat /\ now <= MaxTime /\ sentTimes[n] \in Nat /\ sentTimes[n] <= now
      /\ probeRttMinStamp \in Nat /\ probeRttMinStamp <= now
      /\ minRttStamp \in Nat /\ minRttStamp <= now
      /\ probeRttMinDelay \in Nat /\ minRtt \in Nat /\ probeRttMinDelay <= MaxDuration
      /\ \A x \in samples : x.at \in Nat /\ x.at <= now /\ x.rtt \in Nat
  BY DEF WindowInv, SenderTypes
<1>1. rtt \in Nat /\ rtt > 0 /\ rtt < MaxDuration
  BY <1>0
<1>2. /\ probeRttMinDelay' = IF fresh THEN rtt ELSE probeRttMinDelay
      /\ probeRttMinStamp' = IF fresh THEN now ELSE probeRttMinStamp
  BY DEF UpdateMinRtt
<1>3. \/ minRtt' = probeRttMinDelay' /\ minRttStamp' = probeRttMinStamp'
      \/ /\ UNCHANGED <<minRtt, minRttStamp>>
         /\ ~(probeRttMinDelay' < minRtt) /\ ~(now - minRttStamp > MinRttFilterLen)
  BY <1>2 DEF UpdateMinRtt
<1>4. new.at = now /\ new.rtt = rtt /\ samples' = samples \cup {new}
  OBVIOUS
<1>5. \A m \in DOMAIN sentTimes' : m \in DOMAIN sentTimes /\ sentTimes'[m] = sentTimes[m]
  BY PutDrop, Zenon
<1> HIDE DEF rtt, new
<1>6. probeRttMinDelay' \in Nat /\ probeRttMinDelay' < MaxDuration /\ probeRttMinDelay' <= rtt
  BY <1>0, <1>1, <1>2
<1>7. \A x \in samples' : /\ x.at >= probeRttMinStamp' => probeRttMinDelay' <= x.rtt
                          /\ x.at = now => now - probeRttMinStamp' <= ProbeRttInterval
  <2>1. CASE fresh
    <3>1. probeRttMinStamp' = now /\ probeRttMinDelay' = rtt
      BY <1>2, <2>1
    <3>2. ASSUME NEW x \in samples, x.at >= now PROVE rtt <= x.rtt
      <4>1. x.at = now
        BY <1>0, <3>2
      <4>2. CASE probeRttMinDelay = MaxDuration
        <5>1. sentTimes[n] >= probeRttMinStamp /\ x.at <= probeRttMinStamp
          BY <4>2 DEF WindowInv, FilterInv
        <5> QED
          BY <1>0, <4>1, <5>1
      <4>3. CASE probeRttMinDelay # MaxDuration
        <5>1. probeRttMinDelay <= x.rtt /\ now - probeRttMinStamp <= ProbeRttInterval
          BY <1>0, <4>1, <4>3 DEF WindowInv, FilterInv
        <5> QED
          BY <1>0, <1>1, <2>1, <5>1
      <4> QED
        BY <4>2, <4>3
    <3> QED
      BY <1>0, <1>1, <1>4, <3>1, <3>2
  <2>2. CASE ~fresh
    <3>1. probeRttMinDelay # MaxDuration
      BY <1>0, <1>1, <2>2
    <3> QED
      BY <1>0, <1>1, <1>2, <1>4, <2>2, <3>1 DEF WindowInv, FilterInv
  <2> QED
    BY <2>1, <2>2
<1>8. FilterInv'
  BY <1>6, <1>7 DEF FilterInv
<1>9. SenderTypes'
  <2>1. \A m \in DOMAIN sentTimes' : sentTimes'[m] \in Nat /\ sentTimes'[m] <= now
    BY <1>5 DEF SenderTypes, WindowInv
  <2>2. \A x \in samples' : x.at \in Nat /\ x.at <= now /\ x.rtt \in Nat
    BY <1>0, <1>1, <1>4
  <2>3. probeRttMinStamp' \in Nat /\ probeRttMinStamp' <= now
    BY <1>0, <1>2
  <2>4. minRttStamp' \in Nat /\ minRttStamp' <= now /\ minRtt' \in Nat
    BY <1>0, <1>3, <1>6, <2>3
  <2> QED
    BY <1>0, <1>6, <2>1, <2>2, <2>3, <2>4 DEF SenderTypes
<1>10. MinRttBoundsWindow'
  <2>1. CASE minRtt' = probeRttMinDelay' /\ minRttStamp' = probeRttMinStamp'
    BY <1>7, <2>1 DEF MinRttBoundsWindow
  <2>2. CASE UNCHANGED <<minRtt, minRttStamp>> /\ ~(probeRttMinDelay' < minRtt)
    <3>1. minRtt <= rtt
      BY <1>0, <1>1, <1>6, <2>2
    <3> QED
      BY <1>4, <2>2, <3>1 DEF WindowInv, MinRttBoundsWindow
  <2> QED
    BY <1>3, <2>1, <2>2
<1>11. now' - minRttStamp' <= MinRttFilterLen
  BY <1>0, <1>2, <1>3
<1> QED
  BY <1>8, <1>9, <1>10, <1>11 DEF WindowInv

(* Every call keeps the window invariant, and a sample leaves minRtt fresh.*)
LEMMA NextWindow ==
  ASSUME WindowInv, [SenderNext]_senderVars
  PROVE  WindowInv' /\ (samples' # samples => now' - minRttStamp' <= MinRttFilterLen)
<1> USE Params
<1>1. CASE Tick
  BY <1>1 DEF Tick, rttVars, timeVars, WindowInv, SenderTypes, FilterInv, MinRttBoundsWindow
<1>2. ASSUME NEW s \in Spaces, NEW ackEliciting \in BOOLEAN, OnPacketSent(s, ackEliciting)
      PROVE  WindowInv' /\ samples' = samples
  <2>1. /\ UNCHANGED <<now, probeRttMinDelay, probeRttMinStamp, minRtt, minRttStamp, samples>>
        /\ sentTimes' = Put(sentTimes, nextPacket[s], now)
    BY <1>2 DEF OnPacketSent, rttVars
  <2>2. \A m \in DOMAIN sentTimes' :
          sentTimes'[m] = now \/ (m \in DOMAIN sentTimes /\ sentTimes'[m] = sentTimes[m])
    BY <2>1, PutDrop
  <2> QED
    BY <2>1, <2>2 DEF WindowInv, SenderTypes, FilterInv, MinRttBoundsWindow
<1>3. ASSUME NEW k \in DOMAIN inFlight, OnPacketAcked(k)
      PROVE  WindowInv' /\ (samples' # samples => now' - minRttStamp' <= MinRttFilterLen)
  <2>1. CASE k[2] \in DOMAIN sentTimes /\ now - sentTimes[k[2]] > 0
    <3>1. PICK n : n = k[2]
      OBVIOUS
    <3>2. PICK real, own : real = now - inFlight[k] /\ own = (writer[k[2]] = k[1])
      OBVIOUS
    <3>3. /\ UpdateMinRtt(now - sentTimes[n]) /\ UNCHANGED now
          /\ samples' = samples \cup {[at |-> now, rtt |-> now - sentTimes[n],
                                  real |-> real, own |-> own]}
          /\ sentTimes' = Drop(sentTimes, n)
      BY <1>3, <2>1, <3>1, <3>2 DEF OnPacketAcked
    <3> QED
      BY <2>1, <3>1, <3>3, SampleStep
  <2>2. CASE ~(k[2] \in DOMAIN sentTimes /\ now - sentTimes[k[2]] > 0)
    <3>1. UNCHANGED <<now, probeRttMinDelay, probeRttMinStamp, minRtt, minRttStamp, samples>>
      BY <1>3, <2>2 DEF OnPacketAcked, rttVars
    <3>2. \A m \in DOMAIN sentTimes' : m \in DOMAIN sentTimes /\ sentTimes'[m] = sentTimes[m]
      BY <1>3, PutDrop DEF OnPacketAcked
    <3> QED
      BY <3>1, <3>2 DEF WindowInv, SenderTypes, FilterInv, MinRttBoundsWindow
  <2> QED
    BY <2>1, <2>2
<1>4. ASSUME UNCHANGED <<now, sentTimes, probeRttMinDelay, probeRttMinStamp, minRtt, minRttStamp,
                         samples>>
      PROVE  WindowInv' /\ samples' = samples
  BY <1>4 DEF WindowInv, SenderTypes, FilterInv, MinRttBoundsWindow
<1>5. ASSUME NEW k \in DOMAIN inFlight, NEW lostBytes \in {0, 1}, OnCongestionEvent(k, lostBytes)
      PROVE  WindowInv' /\ samples' = samples
  BY <1>4, <1>5 DEF OnCongestionEvent, rttVars, timeVars
<1>6. CASE OnRetransmissionTimeout
  BY <1>6 DEF OnRetransmissionTimeout, Empty, WindowInv, SenderTypes, FilterInv, MinRttBoundsWindow
<1>7. CASE UNCHANGED senderVars
  BY <1>4, <1>7 DEF senderVars, rttVars, timeVars
<1>8. OnRetransmissionTimeout \/ Tick => samples' = samples
  BY DEF OnRetransmissionTimeout, Tick
<1> QED
  BY <1>1, <1>2, <1>3, <1>5, <1>6, <1>7, <1>8 DEF SenderNext, Reported

-----------------------------------------------------------------------------
(* What the shared map holds under the number of a packet in flight was    *)
(* written when that packet was sent or later, and is the packet's own     *)
(* send time if its space wrote it.                                        *)
FlightOK(k) ==
  /\ k \in Spaces \X Nat
  /\ k[2] < nextPacket[k[1]]
  /\ inFlight[k] \in Nat /\ inFlight[k] <= now
  /\ k[2] \in DOMAIN sentTimes =>
       /\ inFlight[k] <= sentTimes[k[2]]
       /\ writer[k[2]] = k[1] => sentTimes[k[2]] = inFlight[k]

ExactInv ==
  /\ DOMAIN nextPacket = Spaces /\ \A s \in Spaces : nextPacket[s] \in Nat
  /\ DOMAIN writer = DOMAIN sentTimes
  /\ \A k \in DOMAIN inFlight : FlightOK(k)
  /\ SamplesExactUnlessShared

(* A new sender has nothing in flight.                                     *)
LEMMA InitExact == SenderInit => ExactInv
  BY DEF SenderInit, ExactInv, SamplesExactUnlessShared, Empty

(* Every call keeps the send times exact, or late by another space.        *)
LEMMA NextExact ==
  ASSUME WindowInv, ExactInv, [SenderNext]_senderVars
  PROVE  ExactInv'
<1>0. now \in Nat /\ \A m \in DOMAIN sentTimes : sentTimes[m] \in Nat /\ sentTimes[m] <= now
  BY DEF WindowInv, SenderTypes
<1>1. ASSUME UNCHANGED <<nextPacket, samples>>, now' \in Nat, now <= now',
             DOMAIN writer' = DOMAIN sentTimes',
             \A k \in DOMAIN inFlight' : k \in DOMAIN inFlight /\ inFlight'[k] = inFlight[k],
             \A m \in DOMAIN sentTimes' : /\ m \in DOMAIN sentTimes
                                          /\ sentTimes'[m] = sentTimes[m]
                                          /\ writer'[m] = writer[m]
      PROVE  ExactInv'
  <2>1. ASSUME NEW k \in DOMAIN inFlight' PROVE FlightOK(k)'
    <3>1. FlightOK(k) /\ inFlight'[k] = inFlight[k]
      BY <1>1, <2>1 DEF ExactInv
    <3> QED
      BY <1>0, <1>1, <3>1 DEF FlightOK
  <2> QED
    BY <1>1, <2>1 DEF ExactInv, SamplesExactUnlessShared
<1>2. CASE Tick
  BY <1>0, <1>1, <1>2 DEF Tick, timeVars, ExactInv
<1>3. ASSUME NEW s \in Spaces, NEW ackEliciting \in BOOLEAN, OnPacketSent(s, ackEliciting)
      PROVE  ExactInv'
  <2>1. PICK n : n = nextPacket[s]
    OBVIOUS
  <2>2. /\ n \in Nat /\ sentTimes' = Put(sentTimes, n, now) /\ writer' = Put(writer, n, s)
        /\ inFlight' = Put(inFlight, <<s, n>>, now) \/ inFlight' = inFlight
        /\ nextPacket' = [nextPacket EXCEPT ![s] = n + 1] /\ samples' = samples /\ now' = now
    BY <1>3, <2>1 DEF OnPacketSent, ExactInv
  <2>3. /\ DOMAIN nextPacket' = Spaces /\ nextPacket'[s] = n + 1
        /\ \A z \in Spaces : nextPacket'[z] \in Nat /\ nextPacket[z] <= nextPacket'[z]
    BY <2>1, <2>2 DEF ExactInv
  <2>4. /\ DOMAIN sentTimes' = DOMAIN sentTimes \cup {n} /\ sentTimes'[n] = now
        /\ \A m \in DOMAIN sentTimes : m # n => sentTimes'[m] = sentTimes[m]
    BY <2>2, Zenon DEF Put
  <2>5. /\ DOMAIN writer' = DOMAIN writer \cup {n} /\ writer'[n] = s
        /\ \A m \in DOMAIN writer : m # n => writer'[m] = writer[m]
    BY <2>2, Zenon DEF Put
  <2>6. \A k \in DOMAIN inFlight' :
          \/ k = <<s, n>> /\ inFlight'[k] = now
          \/ k \in DOMAIN inFlight /\ inFlight'[k] = inFlight[k]
    BY <2>2, PutDrop
  <2>7. ASSUME NEW k \in DOMAIN inFlight' PROVE FlightOK(k)'
    <3>1. CASE k = <<s, n>> /\ inFlight'[k] = now
      BY <1>0, <2>2, <2>3, <2>4, <3>1 DEF FlightOK
    <3>2. CASE k \in DOMAIN inFlight /\ inFlight'[k] = inFlight[k]
      <4>1. FlightOK(k)
        BY <3>2 DEF ExactInv
      <4>2. k \in Spaces \X Nat /\ k[2] < nextPacket'[k[1]]
        BY <2>3, <4>1 DEF FlightOK, ExactInv
      <4>3. CASE k[2] = n
        <5>1. k[1] # s
          BY <2>1, <2>2, <4>1, <4>3 DEF FlightOK
        <5> QED
          BY <1>0, <2>2, <2>4, <2>5, <3>2, <4>1, <4>2, <4>3, <5>1 DEF FlightOK
      <4>4. CASE k[2] # n
        BY <2>2, <2>4, <2>5, <3>2, <4>1, <4>2, <4>4, Zenon DEF FlightOK, ExactInv
      <4> QED
        BY <4>3, <4>4
    <3> QED
      BY <2>6, <3>1, <3>2
  <2> QED
    BY <2>2, <2>3, <2>4, <2>5, <2>7 DEF ExactInv, SamplesExactUnlessShared
<1>4. ASSUME NEW k \in DOMAIN inFlight, OnPacketAcked(k)
      PROVE  ExactInv'
  <2>1. PICK n : n = k[2]
    OBVIOUS
  <2>2. /\ inFlight' = Drop(inFlight, k) /\ sentTimes' = Drop(sentTimes, n)
        /\ writer' = Drop(writer, n) /\ nextPacket' = nextPacket /\ now' = now
    BY <1>4, <2>1 DEF OnPacketAcked
  <2>3. \A j \in DOMAIN inFlight' : j \in DOMAIN inFlight /\ inFlight'[j] = inFlight[j]
    BY <2>2, PutDrop
  <2>4. /\ DOMAIN sentTimes' = DOMAIN sentTimes \ {n}
        /\ \A m \in DOMAIN sentTimes' : sentTimes'[m] = sentTimes[m]
    BY <2>2, Zenon DEF Drop
  <2>5. /\ DOMAIN writer' = DOMAIN writer \ {n}
        /\ \A m \in DOMAIN writer' : writer'[m] = writer[m]
    BY <2>2, Zenon DEF Drop
  <2>6. ASSUME NEW j \in DOMAIN inFlight' PROVE FlightOK(j)'
    <3>1. FlightOK(j) /\ inFlight'[j] = inFlight[j]
      BY <2>3, <2>6 DEF ExactInv
    <3> QED
      BY <2>2, <2>4, <2>5, <3>1 DEF FlightOK, ExactInv
  <2>7. \A x \in samples' : x \in samples \/ (x.rtt <= x.real /\ (x.own => x.rtt = x.real))
    <3>1. CASE samples' = samples
      BY <3>1
    <3>2. CASE samples' # samples
      <4>1. PICK v, w, o : v = now - sentTimes[n] /\ w = now - inFlight[k]
                          /\ o = (writer[n] = k[1])
        OBVIOUS
      <4>2. /\ n \in DOMAIN sentTimes
            /\ samples' = samples \cup {[at |-> now, rtt |-> v, real |-> w, own |-> o]}
        BY <1>4, <2>1, <3>2, <4>1, Zenon DEF OnPacketAcked
      <4>3. inFlight[k] \in Nat /\ inFlight[k] <= sentTimes[n] /\ sentTimes[n] \in Nat
            /\ (o => sentTimes[n] = inFlight[k])
        BY <1>0, <2>1, <4>1, <4>2, Zenon DEF ExactInv, FlightOK
      <4>4. v <= w /\ (o => v = w)
        BY <1>0, <4>1, <4>3
      <4> QED
        BY <4>2, <4>4
    <3> QED
      BY <3>1, <3>2
  <2> QED
    BY <2>2, <2>4, <2>5, <2>6, <2>7 DEF ExactInv, SamplesExactUnlessShared
<1>5. ASSUME NEW k \in DOMAIN inFlight, NEW lostBytes \in {0, 1}, OnCongestionEvent(k, lostBytes)
      PROVE  ExactInv'
  <2>1. \A j \in DOMAIN inFlight' : j \in DOMAIN inFlight /\ inFlight'[j] = inFlight[j]
    <3>1. inFlight' \in {inFlight, Drop(inFlight, k)}
      BY <1>5 DEF OnCongestionEvent
    <3>2. \A j \in DOMAIN Drop(inFlight, k) :
            j \in DOMAIN inFlight /\ Drop(inFlight, k)[j] = inFlight[j]
      BY PutDrop
    <3>3. CASE inFlight' = inFlight
      BY <3>3
    <3>4. CASE inFlight' = Drop(inFlight, k)
      BY <3>2, <3>4
    <3> QED
      BY <3>1, <3>3, <3>4
  <2>2. UNCHANGED <<now, sentTimes, writer, nextPacket, samples>>
    BY <1>5 DEF OnCongestionEvent, timeVars
  <2> QED
    BY <1>0, <1>1, <2>1, <2>2 DEF ExactInv
<1>6. CASE OnRetransmissionTimeout
  BY <1>0, <1>1, <1>6 DEF OnRetransmissionTimeout, Empty
<1>7. CASE UNCHANGED senderVars
  BY <1>0, <1>1, <1>7 DEF senderVars, timeVars, ExactInv
<1> QED
  BY <1>2, <1>3, <1>4, <1>5, <1>6, <1>7 DEF SenderNext, Reported

-----------------------------------------------------------------------------
(* updateMinRtt's minimum is at most every sample taken since its stamp,   *)
(* with any number of packet number spaces, whatever expires or is reset   *)
(* by a migration.                                                         *)
THEOREM Bound == SenderSpec => []MinRttBoundsWindow
<1>1. WindowInv /\ [SenderNext]_senderVars => WindowInv'
  BY NextWindow
<1>2. WindowInv => MinRttBoundsWindow
  BY DEF WindowInv
<1> QED
  BY <1>1, <1>2, InitWindow, PTL DEF SenderSpec

(* After an ack that gave a sample the minimum is no older than its window *)
(* (updateMinRtt), because the 5 s filter is never older than 5 s then.    *)
THEOREM Fresh == SenderSpec => MinRttFresh
<1>1. WindowInv /\ [SenderNext]_senderVars => WindowInv'
  BY NextWindow
<1>2. WindowInv /\ [SenderNext]_senderVars =>
        [samples' # samples => now' - minRttStamp' <= MinRttFilterLen]_senderVars
  BY NextWindow
<1> QED
  BY <1>1, <1>2, InitWindow, PTL DEF SenderSpec, MinRttFresh

(* Moreover, with any number of packet number spaces on the shared map, no *)
(* sample exceeds the round trip of the packet it is credited to, and one  *)
(* taken from the packet's own entry is that round trip: another space can *)
(* overwrite a send time, and then only by a later one (OnPacketSent,      *)
(* OnPacketAcked).                                                         *)
THEOREM MinRtt == SenderSpec => []MinRttSound
<1>1. WindowInv /\ ExactInv /\ [SenderNext]_senderVars => WindowInv' /\ ExactInv'
  BY NextWindow, NextExact
<1>2. ExactInv => SamplesExactUnlessShared
  BY DEF ExactInv
<1>3. SenderSpec => []SamplesExactUnlessShared
  BY <1>1, <1>2, InitWindow, InitExact, PTL DEF SenderSpec
<1>4. MinRttSound <=> MinRttBoundsWindow /\ SamplesExactUnlessShared
  BY DEF MinRttSound
<1> QED
  BY <1>3, <1>4, Bound, PTL

-----------------------------------------------------------------------------
(* The statistics: their inductive invariant.                              *)


Live == {"select", "logging"}
Closing == {"close", "replaceClose"}
Marking == {"mark", "replaceMark"}
Ops == {"idle", "stop", "replaceStop", "replace", "start"} \cup Closing \cup Marking

StatsTypes ==
  /\ work.apps \subseteq Apps
  /\ created \in Nat /\ 1 <= created /\ created <= MaxCollectors
  /\ stats \in Nat /\ stats <= created
  /\ running \subseteq 1..created /\ closed \subseteq 1..created
  /\ logger \in [Collectors -> Live \cup {"none", "done"}]
  /\ app \in [Apps -> [op : Ops, on : Nat]]

(* Any number of goroutines: a Stop past its first section is about a      *)
(* collector that exists, past its second the channel is closed; and a     *)
(* logger nobody has told to stop belongs to a collector that says so.     *)
StopInv ==
  /\ \A a \in Apps :
       /\ app[a].op \in Closing \cup Marking => app[a].on \in 1..created
       /\ app[a].op \in Marking => app[a].on \in closed
  /\ \A c \in Collectors : logger[c] \in Live /\ c \notin closed => c \in running

(* One goroutine: the flag, the channel and the call under way agree.      *)
OneInv ==
  /\ \A c \in running : c \notin closed => logger[c] \in Live
  /\ \A c \in running : c \in closed =>
       \E a \in work.apps : app[a].op \in Marking /\ app[a].on = c
  /\ \A a \in work.apps :
       /\ app[a].op \in Closing => app[a].on \in running /\ app[a].on \notin closed
       /\ app[a].op = "start" =>
            stats \in {0, created} /\ created \notin closed /\ created \notin running

(* A calm connection: the collector being stopped is the sender's, and no  *)
(* logger is left to stop when it is about to be replaced.                 *)
CalmInv ==
  /\ fatal = "none" /\ stats # 0 /\ conn # "lost"
  /\ \A c \in Collectors : logger[c] \in Live /\ c \notin closed => c = stats
  /\ \A a \in work.apps :
       /\ app[a].op \in Closing \cup Marking => app[a].on = stats
       /\ app[a].op = "replace" => \A c \in Collectors : logger[c] \in Live => c \in closed

(* Until the statistics are replaced: packets acked, in flight and sent.   *)
TotalsInv ==
  /\ totalSent \in [Collectors -> Nat] /\ totalAcked \in [Collectors -> Nat]
  /\ flight \in Nat /\ (conn = "sent" => flight > 0)
  /\ created = 1 => totalAcked[1] <= totalSent[1]
  /\ created = 1 /\ stats = 1 =>
       totalAcked[1] + flight + (IF conn = "acked" THEN 1 ELSE 0)
         <= totalSent[1] + (IF conn = "sent" THEN 1 ELSE 0)

StatsInv ==
  /\ StatsTypes /\ StopInv /\ TotalsInv
  /\ OneApp => OneInv
  /\ Calm => CalmInv

(* The constants and workloads have their types.                           *)
LEMMA StatsParams ==
  /\ MaxCollectors \in Nat /\ 1 <= MaxCollectors /\ Collectors = 1..MaxCollectors
  /\ \A w \in Workloads : w.apps \subseteq Apps
  BY WorkloadsAssumption, BoundsAssumption DEF Collectors

(* A new collector satisfies the invariant.                                *)
LEMMA InitStats == StatsInit => StatsInv
<1> SUFFICES ASSUME StatsInit PROVE StatsInv
  OBVIOUS
<1>1. StatsTypes
  BY StatsParams DEF StatsInit, StatsTypes, Live, Ops, Idle
<1>2. StopInv
  BY DEF StatsInit, StopInv, Live, Closing, Marking, Idle
<1>3. TotalsInv
  BY StatsParams DEF StatsInit, TotalsInv
<1>4. OneInv
  BY StatsParams DEF StatsInit, StatsTypes, OneInv, Live, Closing, Marking, Idle
<1>5. CalmInv
  BY StatsParams DEF StatsInit, CalmInv, Live, Closing, Marking, Idle
<1> QED
  BY <1>1, <1>2, <1>3, <1>4, <1>5 DEF StatsInv

(* The connection's goroutine: the statistics may only disappear.          *)
LEMMA ConnStats ==
  ASSUME StatsInv, fatal = "none", Conn
  PROVE  StatsInv'
<1>1. UNCHANGED <<work, created, running, closed, logger, app>> /\ stats' \in {stats, 0}
  BY Zenon DEF Conn, StatsOnPacketSent, StatsOnPacketAcked, StatsOnCongestionEvent, Report,
         CountUpdate, OnBytesLost, RestOfUpdates, UpdateOfNil, Die,
         StatsOnRetransmissionTimeout
<1>2. StatsTypes' /\ StopInv'
  BY <1>1, StatsParams DEF StatsInv, StatsTypes, StopInv
<1>3. OneApp' => OneInv'
  BY <1>1 DEF StatsInv, OneApp, OneInv
<1>4. Calm' => CalmInv'
  <2> SUFFICES ASSUME Calm PROVE CalmInv'
    BY <1>1 DEF Calm, OneApp
  <2>1. work.events = {} /\ stats # 0 /\ conn # "lost"
    BY DEF StatsInv, Calm, CalmInv
  <2>2. fatal' = fatal /\ stats' = stats /\ conn' # "lost"
    BY <2>1 DEF Conn, StatsOnPacketSent, StatsOnPacketAcked, StatsOnCongestionEvent, Report,
         CountUpdate, OnBytesLost, RestOfUpdates, UpdateOfNil,
         StatsOnRetransmissionTimeout
  <2> QED
    BY <1>1, <2>2 DEF StatsInv, CalmInv
<1>5. TotalsInv'
  <2>1. CASE StatsOnPacketSent
    BY <2>1, StatsParams DEF StatsOnPacketSent, Report, StatsInv, TotalsInv, counters
  <2>2. CASE StatsOnPacketAcked
    BY <2>2, StatsParams DEF StatsOnPacketAcked, Report, StatsInv, TotalsInv, counters
  <2>3. CASE StatsOnCongestionEvent
    BY <2>3, StatsParams DEF StatsOnCongestionEvent, Report, StatsInv, TotalsInv, counters
  <2>4. CASE CountUpdate
    <3>1. stats \in Collectors /\ (created = 1 => stats = 1)
      BY <2>4, StatsParams DEF CountUpdate, StatsInv, StatsTypes
    <3>2. CASE conn = "sent"
      <4>1. /\ totalSent' = [totalSent EXCEPT ![stats] = @ + 1]
            /\ totalAcked' = [totalAcked EXCEPT ![stats] = @ + 0]
            /\ conn' = "rest" /\ UNCHANGED <<stats, created, flight>>
        BY <2>4, <3>2 DEF CountUpdate
      <4> QED
        BY <3>1, <4>1, <3>2 DEF StatsInv, TotalsInv
    <3>3. CASE conn = "acked"
      <4>1. /\ totalAcked' = [totalAcked EXCEPT ![stats] = @ + 1]
            /\ totalSent' = [totalSent EXCEPT ![stats] = @ + 0]
            /\ conn' = "rest" /\ UNCHANGED <<stats, created, flight>>
        BY <2>4, <3>3 DEF CountUpdate
      <4> QED
        BY <3>1, <4>1, <3>3 DEF StatsInv, TotalsInv
    <3> QED
      BY <2>4, <3>2, <3>3 DEF CountUpdate
  <2>5. CASE OnBytesLost \/ UpdateOfNil
    BY <2>5 DEF OnBytesLost, UpdateOfNil, Die, StatsInv, TotalsInv, counters
  <2>6. CASE RestOfUpdates
    BY <2>6, Zenon DEF RestOfUpdates, StatsInv, TotalsInv, counters
  <2>7. CASE StatsOnRetransmissionTimeout
    BY <2>7 DEF StatsOnRetransmissionTimeout, StatsInv, TotalsInv, counters
  <2> QED
    BY <2>1, <2>2, <2>3, <2>4, <2>5, <2>6, <2>7, Zenon DEF Conn
<1> QED
  BY <1>2, <1>3, <1>4, <1>5 DEF StatsInv

(* Steps of the loggers and the applications leave the connection's part.  *)
LEMMA TotalsKept ==
  ASSUME StatsInv, UNCHANGED <<counters, flight, conn>>,
         \/ created' = created /\ stats' \in {stats, 0}
         \/ created' # 1
  PROVE  TotalsInv'
<1>1. UNCHANGED <<totalSent, totalAcked, flight, conn>>
  BY DEF counters
<1>2. created' = 1 => created = 1 /\ stats' \in {stats, 0}
  OBVIOUS
<1> QED
  BY <1>1, <1>2 DEF StatsInv, TotalsInv

(* A logger step keeps the invariant.                                      *)
LEMMA LoggerStats ==
  ASSUME StatsInv, fatal = "none", NEW c \in Collectors, Logger(c)
  PROVE  StatsInv'
<1>1. PICK to \in Live \cup {"done"} :
        /\ logger' = [logger EXCEPT ![c] = to] /\ logger[c] \in Live
        /\ to = "done" => c \in closed
  BY DEF Logger, LoggerTick, LoggerPrinted, LoggerStop, Live
<1>2. UNCHANGED <<work, stats, created, running, closed, counters, flight, conn, app, fatal>>
  BY DEF Logger, LoggerTick, LoggerPrinted, LoggerStop
<1>3. StatsTypes'
  BY <1>1, <1>2, StatsParams DEF StatsInv, StatsTypes
<1>4. \A d \in Collectors : logger'[d] = IF d = c THEN to ELSE logger[d]
  BY <1>1, StatsParams DEF StatsInv, StatsTypes
<1>5. \A d \in Collectors : logger'[d] \in Live => logger[d] \in Live
  BY <1>1, <1>4
<1>6. \A d \in Collectors : logger[d] \in Live /\ d \notin closed => logger'[d] \in Live
  BY <1>1, <1>4
<1>7. StopInv'
  BY <1>2, <1>5, Zenon DEF StatsInv, StopInv
<1>8. OneApp' => OneInv'
  <2>1. \A d \in running : d \in Collectors
    BY StatsParams DEF StatsInv, StatsTypes
  <2> QED
    BY <1>2, <1>6, <2>1 DEF StatsInv, OneApp, OneInv
<1>9. Calm' => CalmInv'
  BY <1>2, <1>5 DEF StatsInv, Calm, OneApp, CalmInv
<1>10. TotalsInv'
  BY <1>2, TotalsKept, Zenon
<1> QED
  BY <1>3, <1>7, <1>8, <1>9, <1>10 DEF StatsInv

(* What an application's next operation may be, when only app changes.     *)
LEMMA DoStats ==
  ASSUME StatsInv, NEW a \in work.apps, NEW op \in Ops, NEW on \in Nat,
         app' = [app EXCEPT ![a] = [op |-> op, on |-> on]],
         UNCHANGED <<work, stats, created, running, closed, logger, counters, flight,
                     conn, fatal>>,
         op \notin Marking \cup {"start"},
         app[a].op \notin Marking,
         op \in Closing => on = stats /\ stats # 0 /\ on \in running,
         op = "replace" => stats \notin running
  PROVE  StatsInv'
<1>1. a \in Apps /\ app'[a].op = op /\ app'[a].on = on
      /\ \A b \in Apps : b # a => app'[b] = app[b]
  BY StatsParams, Zenon DEF StatsInv, StatsTypes
<1>2. StatsTypes'
  BY StatsParams, Zenon DEF StatsInv, StatsTypes
<1>3. StopInv'
  <2>1. ASSUME NEW b \in Apps
        PROVE  /\ app'[b].op \in Closing \cup Marking => app'[b].on \in 1..created
               /\ app'[b].op \in Marking => app'[b].on \in closed
    <3>1. CASE b = a
      BY <1>1, <3>1, StatsParams, Zenon DEF StatsInv, StatsTypes, Closing, Marking
    <3>2. CASE b # a
      BY <1>1, <3>2, Zenon DEF StatsInv, StopInv
    <3> QED
      BY <3>1, <3>2, Zenon
  <2> QED
    BY <2>1, Zenon DEF StatsInv, StopInv
<1>4. ASSUME OneApp PROVE OneInv'
  <2>1. work.apps = {a}
    BY <1>4, Zenon DEF OneApp
  <2>2. running \cap closed = {}
    BY <1>4, <2>1, Zenon DEF StatsInv, OneInv
  <2>3. \A b \in work.apps : b = a
    BY <2>1, Zenon
  <2> QED
    BY <1>1, <1>4, <2>2, <2>3 DEF StatsInv, OneInv
<1>5. ASSUME Calm PROVE CalmInv'
  <2>1. \A b \in work.apps : b = a
    BY <1>5, Zenon DEF Calm, OneApp
  <2>2. \A c \in Collectors : logger[c] \in Live /\ c \notin closed => c = stats /\ c \in running
    BY <1>5, Zenon DEF StatsInv, StopInv, CalmInv
  <2>3. op \in Closing \cup Marking => on = stats
    OBVIOUS
  <2>4. op = "replace" => \A c \in Collectors : logger[c] \in Live => c \in closed
    BY <2>2, Zenon
  <2>5. \A b \in work.apps :
          /\ app'[b].op \in Closing \cup Marking => app'[b].on = stats
          /\ app'[b].op = "replace" => \A c \in Collectors : logger[c] \in Live => c \in closed
    BY <1>1, <2>1, <2>3, <2>4, Zenon
  <2> QED
    BY <1>5, <2>2, <2>5, Zenon DEF StatsInv, CalmInv
<1>6. TotalsInv'
  BY TotalsKept, Zenon
<1> QED
  BY <1>2, <1>3, <1>4, <1>5, <1>6, Zenon DEF StatsInv, Calm, OneApp

(* The steps of Stop and SetStatsConfig that change more than app.         *)
LEMMA StopCloseStats ==
  ASSUME StatsInv, NEW a \in work.apps, StopClose(a)
  PROVE  StatsInv'
<1>1. PICK c : c = app[a].on
  BY Zenon
<1>2. PICK op \in Marking : app' = [app EXCEPT ![a] = [op |-> op, on |-> c]]
  BY <1>1, Zenon DEF StopClose, Do, Marking
<1>3. /\ a \in Apps /\ c \in 1..created /\ c \in Nat /\ app[a].op \in Closing
      /\ closed' = closed \cup {c}
      /\ UNCHANGED <<work, stats, created, running, logger, counters, flight, conn, fatal>>
  BY <1>1, StatsParams DEF StopClose, StatsInv, StatsTypes, StopInv, Closing
<1>4. app'[a].op = op /\ app'[a].on = c /\ \A b \in Apps : b # a => app'[b] = app[b]
  BY <1>2, <1>3, StatsParams DEF StatsInv, StatsTypes
<1>5. StatsTypes'
  BY <1>2, <1>3, StatsParams, Zenon DEF StatsInv, StatsTypes, Ops
<1>6. StopInv'
  <2>1. ASSUME NEW b \in Apps
        PROVE  /\ app'[b].op \in Closing \cup Marking => app'[b].on \in 1..created
               /\ app'[b].op \in Marking => app'[b].on \in closed'
    <3>1. CASE b = a
      BY <1>3, <1>4, <3>1, Zenon
    <3>2. CASE b # a
      BY <1>3, <1>4, <3>2, Zenon DEF StatsInv, StopInv
    <3> QED
      BY <3>1, <3>2, Zenon
  <2> QED
    BY <1>3, <2>1, Zenon DEF StatsInv, StopInv
<1>7. ASSUME OneApp PROVE OneInv'
  <2>1. \A b \in work.apps : b = a
    BY <1>7, Zenon DEF OneApp
  <2>2. \A d \in running : d \notin closed
    BY <1>3, <1>7, <2>1 DEF StatsInv, OneInv, Closing, Marking
  <2>3. app'[a].op \in Marking /\ app'[a].on = c /\ app'[a].op \notin Closing \cup {"start"}
    BY <1>4, Zenon DEF Closing, Marking
  <2> QED
    BY <1>3, <1>7, <2>1, <2>2, <2>3, Zenon DEF StatsInv, OneInv
<1>8. ASSUME Calm PROVE CalmInv'
  <2>1. \A b \in work.apps : b = a
    BY <1>8, Zenon DEF Calm, OneApp
  <2>2. c = stats /\ app'[a].op # "replace" /\ app'[a].on = c
    BY <1>1, <1>3, <1>4, <1>8 DEF StatsInv, CalmInv, Closing, Marking
  <2> QED
    BY <1>3, <1>8, <2>1, <2>2 DEF StatsInv, CalmInv
<1>9. TotalsInv'
  BY <1>3, TotalsKept, Zenon
<1> QED
  BY <1>3, <1>5, <1>6, <1>7, <1>8, <1>9 DEF StatsInv, Calm, OneApp

(* StopMark keeps the invariant.                                           *)
LEMMA StopMarkStats ==
  ASSUME StatsInv, NEW a \in work.apps, StopMark(a)
  PROVE  StatsInv'
<1>1. PICK c : c = app[a].on
  BY Zenon
<1>2. PICK op \in {"idle", "replace"} : app' = [app EXCEPT ![a] = [op |-> op, on |-> 0]]
  BY Zenon DEF StopMark, Do
<1>3. /\ a \in Apps /\ c \in closed /\ app[a].op \in Marking
      /\ running' = running \ {c}
      /\ UNCHANGED <<work, stats, created, closed, logger, counters, flight, conn, fatal>>
  BY <1>1, StatsParams DEF StopMark, StatsInv, StatsTypes, StopInv, Marking
<1>4. app'[a].op = op /\ app'[a].on = 0 /\ \A b \in Apps : b # a => app'[b] = app[b]
  BY <1>2, <1>3, StatsParams DEF StatsInv, StatsTypes
<1>5. StatsTypes'
  BY <1>2, <1>3, StatsParams DEF StatsInv, StatsTypes, Ops
<1>6. StopInv'
  <2>1. ASSUME NEW b \in Apps
        PROVE  /\ app'[b].op \in Closing \cup Marking => app'[b].on \in 1..created
               /\ app'[b].op \in Marking => app'[b].on \in closed
    <3>1. CASE b = a
      BY <1>4, <3>1, Zenon DEF Closing, Marking
    <3>2. CASE b # a
      BY <1>4, <3>2, Zenon DEF StatsInv, StopInv
    <3> QED
      BY <3>1, <3>2
  <2> QED
    BY <1>3, <2>1 DEF StatsInv, StopInv
<1>7. ASSUME OneApp PROVE OneInv'
  <2>1. \A b \in work.apps : b = a
    BY <1>7, Zenon DEF OneApp
  <2>2. \A d \in running : d \in closed => d = c
    BY <1>1, <1>7, <2>1 DEF StatsInv, OneInv
  <2>3. app'[a].op \notin Closing \cup {"start"}
    BY <1>4, Zenon DEF Closing
  <2> QED
    BY <1>3, <1>7, <2>1, <2>2, <2>3, Zenon DEF StatsInv, OneInv
<1>8. ASSUME Calm PROVE CalmInv'
  <2>1. \A b \in work.apps : b = a
    BY <1>8 DEF Calm, OneApp
  <2>4. CalmInv
    BY <1>8, Zenon DEF StatsInv
  <2>5. c = stats
    BY <1>1, <1>3, <2>4, Zenon DEF CalmInv
  <2>2. c = stats /\ app'[a].op \notin Closing \cup Marking
    BY <1>4, <2>5, Zenon DEF Closing, Marking
  <2>3. \A d \in Collectors : logger[d] \in Live => d \in closed
    BY <1>3, <1>8, <2>2, Zenon DEF StatsInv, CalmInv
  <2> QED
    BY <1>3, <1>8, <2>1, <2>2, <2>3 DEF StatsInv, CalmInv
<1>9. TotalsInv'
  BY <1>3, TotalsKept
<1> QED
  BY <1>3, <1>5, <1>6, <1>7, <1>8, <1>9 DEF StatsInv, Calm, OneApp

(* Replace keeps the invariant.                                            *)
LEMMA ReplaceStats ==
  ASSUME StatsInv, NEW a \in work.apps, Replace(a)
  PROVE  StatsInv'
<1>1. PICK n : n = created + 1
  BY Zenon
<1>2. /\ a \in Apps /\ n \in Nat /\ n <= MaxCollectors /\ n # 1 /\ n = created + 1
      /\ created \in Nat /\ 1 <= created
      /\ app[a].op = "replace" /\ created' = n /\ stats' = n
      /\ app' = [app EXCEPT ![a] = [op |-> "start", on |-> 0]]
      /\ UNCHANGED <<work, running, closed, logger, counters, flight, conn, fatal>>
  BY <1>1, StatsParams DEF Replace, Do, StatsInv, StatsTypes
<1>3. app'[a].op = "start" /\ app'[a].on = 0 /\ \A b \in Apps : b # a => app'[b] = app[b]
  BY <1>2, StatsParams, Zenon DEF StatsInv, StatsTypes
<1>4. n \notin running /\ n \notin closed /\ \A i \in 1..created : i \in 1..n
  BY <1>2, StatsParams DEF StatsInv, StatsTypes
<1>5. StatsTypes'
  BY <1>2, <1>4, StatsParams DEF StatsInv, StatsTypes, Ops
<1>6. StopInv'
  <2>1. ASSUME NEW b \in Apps
        PROVE  /\ app'[b].op \in Closing \cup Marking => app'[b].on \in 1..n
               /\ app'[b].op \in Marking => app'[b].on \in closed
    <3>1. CASE b = a
      BY <1>3, <3>1, Zenon DEF Closing, Marking
    <3>2. CASE b # a
      BY <1>3, <1>4, <3>2, Zenon DEF StatsInv, StopInv
    <3> QED
      BY <3>1, <3>2, Zenon
  <2> QED
    BY <1>2, <2>1, Zenon DEF StatsInv, StopInv
<1>7. ASSUME OneApp PROVE OneInv'
  <2>1. \A b \in work.apps : b = a
    BY <1>7, Zenon DEF OneApp
  <2>2. \A d \in running : d \notin closed
    BY <1>2, <1>7, <2>1 DEF StatsInv, OneInv, Marking
  <2>3. app'[a].op \notin Closing
    BY <1>3, Zenon DEF Closing
  <2> QED
    BY <1>2, <1>4, <1>7, <2>1, <2>2, <2>3 DEF StatsInv, OneInv
<1>8. ASSUME Calm PROVE CalmInv'
  <2>1. \A b \in work.apps : b = a
    BY <1>8 DEF Calm, OneApp
  <2>2. app'[a].op \notin Closing \cup Marking \cup {"replace"}
    BY <1>3, Zenon DEF Closing, Marking
  <2>3. \A d \in Collectors : logger[d] \in Live => d \in closed
    BY <1>2, <1>8, Zenon DEF StatsInv, CalmInv
  <2> QED
    BY <1>2, <1>8, <2>1, <2>2, <2>3 DEF StatsInv, CalmInv
<1>9. TotalsInv'
  BY <1>2, TotalsKept, Zenon
<1> QED
  BY <1>2, <1>5, <1>6, <1>7, <1>8, <1>9 DEF StatsInv, Calm, OneApp

(* Start keeps the invariant.                                              *)
LEMMA StartStats ==
  ASSUME StatsInv, NEW a \in work.apps, Start(a)
  PROVE  StatsInv'
<1>1. PICK n : n = stats
  BY Zenon
<1>2. /\ a \in Apps /\ n \in Collectors /\ n \in 1..created /\ n \in Nat
      /\ app[a].op = "start" /\ app' = [app EXCEPT ![a] = [op |-> "idle", on |-> 0]]
      /\ UNCHANGED <<work, stats, created, closed, counters, flight, conn, fatal>>
  BY <1>1, StatsParams DEF Start, Do, StatsInv, StatsTypes
<1>3. app'[a].op = "idle" /\ app'[a].on = 0 /\ \A b \in Apps : b # a => app'[b] = app[b]
  BY <1>2, StatsParams, Zenon DEF StatsInv, StatsTypes
<1>4. \/ n \in running /\ UNCHANGED <<running, logger>>
      \/ n \notin running /\ running' = running \cup {n}
         /\ logger' = [logger EXCEPT ![n] = "select"]
  BY <1>1, Zenon DEF Start
<1>5. StatsTypes'
  BY <1>2, <1>4, StatsParams, Zenon DEF StatsInv, StatsTypes, Ops, Live
<1>6. \A d \in Collectors : d # n => logger'[d] = logger[d]
  BY <1>4, StatsParams DEF StatsInv, StatsTypes
<1>7. running' = running \cup {n}
  BY <1>4
<1>8. StopInv'
  <2>1. ASSUME NEW b \in Apps
        PROVE  /\ app'[b].op \in Closing \cup Marking => app'[b].on \in 1..created
               /\ app'[b].op \in Marking => app'[b].on \in closed
    <3>1. CASE b = a
      BY <1>3, <3>1, Zenon DEF Closing, Marking
    <3>2. CASE b # a
      BY <1>3, <3>2, Zenon DEF StatsInv, StopInv
    <3> QED
      BY <3>1, <3>2
  <2> QED
    BY <1>2, <1>6, <1>7, <2>1 DEF StatsInv, StopInv
<1>9. ASSUME OneApp PROVE OneInv'
  <2>1. \A b \in work.apps : b = a
    BY <1>9, Zenon DEF OneApp
  <2>0. app[a].op \notin Marking
    BY <1>2, Zenon DEF Marking
  <2>2. \A d \in running : d \notin closed /\ logger[d] \in Live
    BY <1>9, <2>0, <2>1 DEF StatsInv, OneInv
  <2>3. app'[a].op \notin Closing \cup {"start"}
    BY <1>3, Zenon DEF Closing
  <2>4. n \notin running /\ n \notin closed
    BY <1>1, <1>2, <1>9 DEF StatsInv, OneInv
  <2>5. logger'[n] \in Live
    BY <1>2, <1>4, <2>4, StatsParams, Zenon DEF StatsInv, StatsTypes, Live
  <2>6. \A d \in running' : d \notin closed /\ logger'[d] \in Live
    <3>1. \A d \in running : d \in Collectors
      BY StatsParams DEF StatsInv, StatsTypes
    <3> QED
      BY <1>6, <1>7, <2>2, <2>4, <2>5, <3>1
  <2> QED
    BY <1>2, <2>1, <2>3, <2>6 DEF OneInv
<1>10. ASSUME Calm PROVE CalmInv'
  <2>1. \A b \in work.apps : b = a
    BY <1>10 DEF Calm, OneApp
  <2>2. app'[a].op \notin Closing \cup Marking \cup {"replace"}
    BY <1>3, Zenon DEF Closing, Marking
  <2> QED
    BY <1>1, <1>2, <1>6, <1>10, <2>1, <2>2 DEF StatsInv, CalmInv
<1>11. TotalsInv'
  BY <1>2, TotalsKept, Zenon
<1> QED
  BY <1>2, <1>5, <1>8, <1>9, <1>10, <1>11 DEF StatsInv, Calm, OneApp

(* Disable keeps the invariant.                                            *)
LEMMA DisableStats ==
  ASSUME StatsInv, NEW a \in work.apps, Disable(a)
  PROVE  StatsInv'
<1>1. /\ app' = [app EXCEPT ![a] = [op |-> "idle", on |-> 0]] /\ stats' = 0
      /\ work.events # {} /\ app[a].op = "replace"
      /\ UNCHANGED <<work, created, running, closed, logger, counters, flight, conn, fatal>>
  BY Zenon DEF Disable, Do
<1>2. a \in Apps /\ app \in [Apps -> [op : Ops, on : Nat]] /\ StatsTypes /\ StopInv
  BY Zenon DEF StatsInv, StatsTypes
<1>3. app' \in [Apps -> [op : Ops, on : Nat]]
  BY <1>1, <1>2, Zenon DEF Ops
<1>4. StatsTypes'
  BY <1>1, <1>2, <1>3 DEF StatsTypes
<1>5. app'[a].op = "idle" /\ \A b \in Apps : b # a => app'[b] = app[b]
  BY <1>1, <1>2
<1>6. \A b \in Apps : app'[b].op \in Closing \cup Marking \cup {"start"} => app'[b] = app[b]
  BY <1>5, Zenon DEF Closing, Marking
<1>7. StopInv'
  <2>1. UNCHANGED <<created, running, closed, logger>>
    BY <1>1, Zenon
  <2> QED
    BY <1>2, <1>6, <2>1, Zenon DEF StopInv
<1>8. ASSUME OneApp PROVE OneInv'
  <2>1. OneInv /\ work.apps \subseteq Apps
    BY <1>2, <1>8 DEF StatsInv, StatsTypes
  <2>2. \A b \in work.apps : b = a
    BY <1>8, Zenon DEF OneApp
  <2>3. app[a].op \notin Marking /\ app'[a].op \notin Closing \cup {"start"}
    BY <1>1, <1>5, Zenon DEF Closing, Marking
  <2>4. \A d \in running : d \notin closed /\ logger[d] \in Live
    BY <2>1, <2>2, <2>3, Zenon DEF OneInv
  <2>5. UNCHANGED <<work, running, closed, logger>>
    BY <1>1, Zenon
  <2> QED
    BY <2>2, <2>3, <2>4, <2>5, Zenon DEF OneInv
<1>9. TotalsInv'
  BY <1>1, TotalsKept, Zenon
<1> QED
  BY <1>1, <1>4, <1>7, <1>8, <1>9, Zenon DEF StatsInv, OneApp, Calm

(* Every step keeps the invariant.                                         *)
LEMMA NextStats ==
  ASSUME StatsInv, [StatsNext]_statsVars
  PROVE  StatsInv'
<1>1. CASE UNCHANGED statsVars
  <2>1. UNCHANGED <<work, stats, created, running, closed, logger, totalSent, totalAcked,
                    flight, conn, app, fatal>>
    BY <1>1 DEF statsVars, counters
  <2> QED
    BY <2>1, StatsParams, Zenon DEF StatsInv, StatsTypes, StopInv, TotalsInv, OneApp, OneInv, Calm, CalmInv
<1>2. ASSUME fatal = "none", NEW a \in work.apps, App(a)
      PROVE  StatsInv'
  <2>1. ASSUME NEW op \in {"stop", "replaceStop"}, CallStop(a, op)
        PROVE  StatsInv'
    <3>1. /\ app' = [app EXCEPT ![a] = [op |-> op, on |-> 0]]
          /\ UNCHANGED <<work, stats, created, running, closed, logger, counters, flight,
                         conn, fatal>>
      BY <2>1 DEF CallStop, Do
    <3>2. op \in Ops /\ op \notin Closing \cup Marking \cup {"start", "replace"}
          /\ app[a].op \notin Marking
      BY <2>1 DEF CallStop, Ops, Closing, Marking
    <3> QED
      BY <3>1, <3>2, DoStats, Zenon
  <2>2. CASE CallStopNil(a)
    <3>1. UNCHANGED <<work, stats, created, running, closed, logger, totalSent, totalAcked,
                      flight, conn, app, fatal>>
      BY <2>2, Zenon DEF CallStopNil, counters
    <3> QED
      BY <3>1, StatsParams, Zenon DEF StatsInv, StatsTypes, StopInv, TotalsInv, OneApp, OneInv, Calm, CalmInv
  <2>3. CASE CallReplace(a)
    <3>1. 0 \notin running
      BY StatsParams DEF StatsInv, StatsTypes
    <3>2. /\ app' = [app EXCEPT ![a] = [op |-> "replace", on |-> 0]] /\ stats = 0
          /\ UNCHANGED <<work, stats, created, running, closed, logger, counters, flight,
                         conn, fatal>>
      BY <2>3, Zenon DEF CallReplace, Do
    <3>3. "replace" \in Ops /\ "replace" \notin Closing \cup Marking \cup {"start"}
          /\ app[a].op \notin Marking
      BY <2>3, Zenon DEF CallReplace, Ops, Closing, Marking
    <3> QED
      BY <3>1, <3>2, <3>3, DoStats, Zenon
  <2>5. CASE StopCheck(a)
    <3>1. PICK op, on :
            /\ app' = [app EXCEPT ![a] = [op |-> op, on |-> on]]
            /\ \/ stats \in running /\ op \in Closing /\ on = stats
               \/ stats \notin running /\ op \in {"idle", "replace"} /\ on = 0
      BY <2>5 DEF StopCheck, Do, After, Closing
    <3>2. /\ UNCHANGED <<work, stats, created, running, closed, logger, counters, flight,
                         conn, fatal>>
          /\ stats # 0 /\ app[a].op \notin Marking
      BY <2>5 DEF StopCheck, Marking
    <3>4. stats \in Nat
      BY Zenon DEF StatsInv, StatsTypes
    <3>3. /\ op \in Ops /\ on \in Nat /\ op \notin Marking \cup {"start"}
          /\ (op = "replace" => stats \notin running)
          /\ (op \in Closing => on = stats /\ stats # 0 /\ on \in running)
      <4>1. CASE stats \in running /\ op \in Closing /\ on = stats
        BY <3>2, <3>4, <4>1 DEF Ops, Closing, Marking
      <4>2. CASE stats \notin running /\ op \in {"idle", "replace"} /\ on = 0
        BY <4>2, Zenon DEF Ops, Closing, Marking
      <4> QED
        BY <3>1, <4>1, <4>2, Zenon
    <3> QED
      BY <3>1, <3>2, <3>3, DoStats
  <2>6. ASSUME StopOfNil(a) \/ StopCloseClosed(a)
        PROVE  StatsInv'
    <3>1. UNCHANGED <<work, stats, created, running, closed, logger, totalSent, totalAcked,
                      flight, conn, app>>
      BY <2>6, Zenon DEF StopOfNil, StopCloseClosed, Die, counters
    <3>2. ~Calm
      BY <2>6 DEF StopOfNil, StopCloseClosed, StatsInv, Calm, CalmInv, OneInv, Closing
    <3> QED
      BY <3>1, <3>2, StatsParams, Zenon DEF StatsInv, StatsTypes, StopInv, TotalsInv, OneApp, OneInv, Calm
  <2> QED
    BY <1>2, <2>1, <2>2, <2>3, <2>5, <2>6, StopCloseStats, StopMarkStats, ReplaceStats,
       StartStats, DisableStats, Zenon DEF App, Finish
<1> QED
  BY <1>1, <1>2, ConnStats, LoggerStats, Zenon DEF StatsNext

(* The collector, its logger goroutine and the calls of Stop, Start and    *)
(* SetStatsConfig stay consistent for any number of collectors, packets    *)
(* and goroutines, whatever else happens to the connection.                *)
THEOREM Statistics == StatsSpec => []StatsConsistent
<1>1. StatsInv /\ [StatsNext]_statsVars => StatsInv'
  BY NextStats
<1>2. StatsInv => StatsConsistent
  <2> SUFFICES ASSUME StatsInv PROVE StatsConsistent
    BY Zenon
  <2>1. CalmNoFatal /\ AckedWithinSent
    BY Zenon DEF StatsInv, CalmInv, TotalsInv, CalmNoFatal, NoFatal, AckedWithinSent
  <2>2. NoOrphanLogger
    BY Zenon DEF StatsInv, CalmInv, NoOrphanLogger, Live
  <2>3. RunningHasLogger
    BY DEF StatsInv, OneInv, RunningHasLogger, Live
  <2> QED
    BY <2>1, <2>2, <2>3 DEF StatsConsistent
<1> QED
  BY <1>1, <1>2, InitStats, PTL DEF StatsSpec
=============================================================================
