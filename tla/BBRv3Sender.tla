----------------------------- MODULE BBRv3Sender -----------------------------
(***************************************************************************)
(* quic-go's BBRv3Sender as the sent packet handler drives it: the calls   *)
(* of the SendAlgorithm interface and everything they reach.               *)
(*                                                                         *)
(* The state machine of bbrv3.go (updateModelAndState, setCwnd,            *)
(* enterRecovery and what they call) has no caller, so no action reaches   *)
(* it: the model has the state and the recovery flags, and only the live   *)
(* calls may change them.  Time is a discrete clock; bytes, pacing and the *)
(* window (constant between resets) are left out.  The caller's part, the  *)
(* packet number spaces and what is in flight, is inFlight; a space that   *)
(* is dropped is one whose packets are never reported again.               *)
(***************************************************************************)
EXTENDS Integers, FiniteSets

CONSTANTS
  Spaces,            \* packet number spaces that share the controller
  ProbeRttInterval,  \* bbr3ProbeRttInterval, 5 s
  MinRttFilterLen,   \* bbr3MinRttFilterLen, 10 s
  FullLossCount,     \* bbr3FullLossCount, 6
  MaxLossEvents,     \* the cap 0xf of lossEventsInRound
  MaxPacket,         \* bound: packets sent, by space
  MaxTime,           \* bound: the clock
  MaxMigrations      \* bound: path migrations

ASSUME ParamAssumption ==
  /\ {ProbeRttInterval, MinRttFilterLen, FullLossCount, MaxLossEvents,
      MaxTime, MaxMigrations} \subseteq Nat
  /\ MaxPacket \in [Spaces -> Nat]
  /\ ProbeRttInterval <= MinRttFilterLen
  /\ FullLossCount <= MaxLossEvents

MaxDuration == MaxTime + 1   \* time.Duration(^uint64(0) >> 1): no sample yet

VARIABLES
  now,
  state, inRecovery, lossRoundStart, isFilledPipe,
  lossEventsInRound,
  sentTimes,          \* packet number -> send time, one map for all spaces
  writer,             \* history: the space whose packet wrote each of its entries
  probeRttMinDelay, probeRttMinStamp, minRtt, minRttStamp,
  nextPacket,         \* the handler's next packet number, by space
  inFlight,           \* <<space, number>> -> send time, ack-eliciting packets
  migrations,
  samples             \* history: every RTT sample, with the packet's real RTT and
                      \* whether the entry it was taken from was the packet's own

loss == <<state, inRecovery, lossRoundStart, isFilledPipe, lossEventsInRound>>
rttVars == <<probeRttMinDelay, probeRttMinStamp, minRtt, minRttStamp>>
timeVars == <<sentTimes, writer>>
senderVars == <<now, loss, timeVars, rttVars, nextPacket, inFlight, migrations, samples>>

Empty == [x \in {} |-> 0]
Put(f, x, v) == [y \in DOMAIN f \cup {x} |-> IF y = x THEN v ELSE f[y]]
Drop(f, x) == [y \in DOMAIN f \ {x} |-> f[y]]

SenderInit ==
  /\ now = 0
  /\ state = "Startup" /\ isFilledPipe = FALSE
  /\ inRecovery = FALSE /\ lossRoundStart = FALSE
  /\ lossEventsInRound = 0
  /\ sentTimes = Empty /\ writer = Empty
  /\ probeRttMinDelay = MaxDuration /\ probeRttMinStamp = now
  /\ minRtt = MaxDuration /\ minRttStamp = now
  /\ nextPacket = [s \in Spaces |-> 0] /\ inFlight = Empty /\ migrations = 0
  /\ samples = {}

-----------------------------------------------------------------------------
Tick ==
  /\ now < MaxTime
  /\ now' = now + 1
  /\ UNCHANGED <<loss, timeVars, rttVars, nextPacket, inFlight, migrations, samples>>

(* Every packet is recorded, also one that is not ack-eliciting and will   *)
(* never be reported as acked.                                             *)
OnPacketSent(s, ackEliciting) ==
  /\ nextPacket[s] < MaxPacket[s]
  /\ sentTimes' = Put(sentTimes, nextPacket[s], now)
  /\ writer' = Put(writer, nextPacket[s], s)
  /\ inFlight' = IF ackEliciting THEN Put(inFlight, <<s, nextPacket[s]>>, now)
                                 ELSE inFlight
  /\ nextPacket' = [nextPacket EXCEPT ![s] = @ + 1]
  /\ UNCHANGED <<now, loss, rttVars, migrations, samples>>

(* Mutant: the 10 s minimum never expires.                                 *)
UpdateMinRttNoExpiry(rtt) ==
  LET fresh    == rtt <= probeRttMinDelay \/ now - probeRttMinStamp > ProbeRttInterval
      delay    == IF fresh THEN rtt ELSE probeRttMinDelay
      stamp    == IF fresh THEN now ELSE probeRttMinStamp
  IN /\ probeRttMinDelay' = delay
     /\ probeRttMinStamp' = stamp
     /\ minRtt' = IF delay < minRtt THEN delay ELSE minRtt
     /\ minRttStamp' = IF delay < minRtt THEN stamp ELSE minRttStamp

(* Mutant: the time of a new minimum is not noted.                         *)
UpdateMinRttNoStamp(rtt) ==
  LET fresh    == rtt <= probeRttMinDelay \/ now - probeRttMinStamp > ProbeRttInterval
      delay    == IF fresh THEN rtt ELSE probeRttMinDelay
  IN /\ probeRttMinDelay' = delay
     /\ probeRttMinStamp' = IF fresh THEN now ELSE probeRttMinStamp
     /\ minRtt' = IF delay < minRtt \/ now - minRttStamp > MinRttFilterLen
                  THEN delay ELSE minRtt
     /\ UNCHANGED minRttStamp

(* updateMinRtt: a sample replaces the 5 s minimum when it is smaller or   *)
(* that minimum has expired, and the 5 s minimum the 10 s one likewise.    *)
UpdateMinRtt(rtt) ==
  LET fresh    == rtt <= probeRttMinDelay \/ now - probeRttMinStamp > ProbeRttInterval
      delay    == IF fresh THEN rtt ELSE probeRttMinDelay
      stamp    == IF fresh THEN now ELSE probeRttMinStamp
      replaced == delay < minRtt \/ now - minRttStamp > MinRttFilterLen
  IN /\ probeRttMinDelay' = delay
     /\ probeRttMinStamp' = stamp
     /\ minRtt' = IF replaced THEN delay ELSE minRtt
     /\ minRttStamp' = IF replaced THEN stamp ELSE minRttStamp

(* A packet without a send time, or acked in the tick it was sent in,      *)
(* gives no sample.                                                        *)
OnPacketAcked(k) ==
  LET n == k[2]
      sampled == n \in DOMAIN sentTimes /\ now - sentTimes[n] > 0
  IN /\ inFlight' = Drop(inFlight, k)
     /\ sentTimes' = Drop(sentTimes, n)
     /\ writer' = Drop(writer, n)
     /\ IF sampled
        THEN /\ UpdateMinRtt(now - sentTimes[n])
             /\ samples' = samples \cup
                  {[at |-> now, rtt |-> now - sentTimes[n], real |-> now - inFlight[k],
                    own |-> writer[n] = k[1]]}
        ELSE UNCHANGED <<rttVars, samples>>
     /\ UNCHANGED <<now, loss, nextPacket, migrations>>

(* ackState() is always the zero record: 0 > 0 * 2%.                       *)
IsInflightTooHigh == 0 > 0

CheckStartupHighLoss(events) ==
  /\ isFilledPipe' = (isFilledPipe \/ ( /\ lossRoundStart /\ inRecovery
                                       /\ events >= FullLossCount
                                       /\ IsInflightTooHigh))
  /\ lossEventsInRound' = IF lossRoundStart THEN 0 ELSE events

(* A lost packet, which leaves the bytes in flight, or (lostBytes = 0) an  *)
(* ECN congestion mark on a packet that is acked next.                     *)
OnCongestionEvent(k, lostBytes) ==
  LET events == IF lostBytes > 0 /\ lossEventsInRound < MaxLossEvents
                THEN lossEventsInRound + 1 ELSE lossEventsInRound
  IN /\ inFlight' = IF lostBytes > 0 THEN Drop(inFlight, k) ELSE inFlight
     /\ IF state = "Startup" /\ inRecovery
        THEN CheckStartupHighLoss(events)
        ELSE lossEventsInRound' = events /\ UNCHANGED isFilledPipe
     /\ UNCHANGED <<now, state, inRecovery, lossRoundStart, timeVars, rttVars,
                    nextPacket, migrations, samples>>

(* MigratedPath has declared the 1-RTT packets lost without a congestion   *)
(* event; the controller is replaced by a new one that keeps only the min  *)
(* RTT and its stamp.                                                      *)
OnRetransmissionTimeout ==
  /\ migrations < MaxMigrations
  /\ inFlight' = [k \in {j \in DOMAIN inFlight : j[1] # "app"} |-> inFlight[k]]
  /\ migrations' = migrations + 1
  /\ state' = "Startup" /\ isFilledPipe' = FALSE
  /\ inRecovery' = FALSE /\ lossRoundStart' = FALSE /\ lossEventsInRound' = 0
  /\ sentTimes' = Empty /\ writer' = Empty
  /\ probeRttMinDelay' = MaxDuration /\ probeRttMinStamp' = now
  /\ UNCHANGED <<now, minRtt, minRttStamp, nextPacket, samples>>

Reported == \E k \in DOMAIN inFlight :
            OnPacketAcked(k) \/ \E lostBytes \in {0, 1} : OnCongestionEvent(k, lostBytes)

SenderNext ==
  \/ Tick
  \/ \E s \in Spaces, ackEliciting \in BOOLEAN : OnPacketSent(s, ackEliciting)
  \/ Reported
  \/ OnRetransmissionTimeout

SenderSpec == SenderInit /\ [][SenderNext]_senderVars

-----------------------------------------------------------------------------
(* minRtt is at most every RTT sample taken since it was stamped, whatever *)
(* the expiry of the 5 s filter or the reset of a migration let in.  It is *)
(* no minimum over the last 10 s: when it expires it is replaced by the    *)
(* 5 s one, and a smaller sample from before that one's stamp is forgotten *)
(* although it is younger than 10 s.                                       *)
MinRttBoundsWindow ==
  \A x \in samples : x.at >= minRttStamp => minRtt <= x.rtt

(* After an ack that gave a sample minRtt is no older than the 10 s window *)
(* (updateMinRtt), also when the 5 s filter and the window expire at once. *)
MinRttFresh ==
  [][samples' # samples => now' - minRttStamp' <= MinRttFilterLen]_senderVars

(* An RTT sample is the time since the packet it is credited to was sent   *)
(* (sentTimes in OnPacketSent and OnPacketAcked), unless a packet of       *)
(* another space with the same number was sent in between: the spaces      *)
(* share one map, and the sample is then taken from the other packet's     *)
(* time.  Even so it never exceeds the packet's round trip: the map only   *)
(* errs towards RTTs that are too small.                                   *)
SamplesExactUnlessShared ==
  \A x \in samples : x.rtt <= x.real /\ (x.own => x.rtt = x.real)

(* What updateMinRtt keeps is a lower bound of the samples since its       *)
(* stamp, and none of them is longer than the round trip it measures; with *)
(* several packet number spaces in flight some are shorter.                *)
MinRttSound == MinRttBoundsWindow /\ SamplesExactUnlessShared

=============================================================================
