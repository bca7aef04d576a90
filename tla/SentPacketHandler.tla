-------------------------- MODULE SentPacketHandler --------------------------
(***************************************************************************)
(* quic-go's sentPacketHandler: the packets of the three packet number     *)
(* spaces, loss detection by packet and time threshold, the probe timeout, *)
(* path probes, the amplification limit, dropped spaces, Retry and path    *)
(* migration, as the connection's run loop drives them.                    *)
(*                                                                         *)
(* A history is the map that SentPacketHistory implements.  A packet is a  *)
(* datagram of size 1.  Time is a discrete clock, 0 the zero time.  The    *)
(* RTT estimate is any member of RTTs, picked anew where the code updates  *)
(* it.  The lost packet tracker only feeds log events and is left out, as  *)
(* are ECN and the controller's calls.                                     *)
(***************************************************************************)
EXTENDS Integers, FiniteSets, FiniteSetsExt

CONSTANTS
  Scenarios,        \* the connections looked at
  MaxAckDelay,
  PacketThreshold,  \* packetThreshold, 3
  PathProbeTimeout, \* pathProbePacketLossTimeout
  MaxSkipped,       \* maxSkippedPackets, 4
  MaxTracked, MaxOutstanding   \* limits of SendMode

AllKinds == {"data", "ack", "mtuProbe", "pathProbe", "zeroRTT"}

ASSUME ScenariosAssumption ==
  \A c \in Scenarios :
    /\ c.perspective \in {"client", "server"} /\ c.established \in BOOLEAN
    /\ c.kinds \subseteq AllKinds /\ {c.maxRTT, c.maxPto} \subseteq Nat \ {0}
    /\ {c.cwnd, c.maxNumber, c.maxTime, c.maxBytes, c.maxMigrations,
        c.maxPTOCount} \subseteq Nat
ASSUME LimitsAssumption ==
  {MaxAckDelay, PacketThreshold, PathProbeTimeout, MaxSkipped, MaxTracked,
   MaxOutstanding} \subseteq Nat

VARIABLE conf       \* the scenario, chosen at the start

Perspective == conf.perspective   \* "client" or "server"
Established == conf.established   \* start after the handshake
SentKinds == conf.kinds               \* the kinds of packets sent
RTTs == 1..conf.maxRTT            \* RTT estimates
MaxPto == conf.maxPto             \* maxPTODuration
Cwnd == conf.cwnd                 \* the controller's window
MaxNumber == conf.maxNumber       \* bound: packet numbers of a space
MaxTime == conf.maxTime           \* bound: ticks
MaxBytes == conf.maxBytes         \* bound: datagrams received
MaxMigrations == conf.maxMigrations   \* bound: path migrations
MaxPTOCount == conf.maxPTOCount   \* bound: PTOs without an ACK

Spaces == {"initial", "handshake", "app"}
Epoch == PathProbeTimeout + conf.maxRTT    \* the clock's start: no time is negative
NoNumber == -1
NoAlarm == [time |-> 0, type |-> "none", space |-> "app"]

VARIABLES
  now, rtt,
  dropped,          \* spaces whose keys are dropped
  histories,          \* space -> (packet number -> [kind, at])
  next,             \* space -> next packet number
  largestSent, largestAcked, lossTime, lastElicitingTime,
  skipped,          \* the last skipped numbers of the app space
  skipFrom,         \* where the generator's current period began
  pathProbes,       \* packet number of a path probe -> when it was sent
  bytesInFlight, bytesSent, bytesReceived,
  peerAddressValidated, peerCompletedAddressValidation, handshakeConfirmed,
  ptoCount, ptoMode, numProbesToSend, alarm,
  migrations, retried,
  closed,           \* an ACK was refused
  bug,              \* a panic or an error marked BUG was reached
  sent,             \* history: the packets sent whose frames count, as <<space, number>>
  reported, twice   \* history: those reported acked or lost, and whether one was twice

spaceVars == <<histories, next, largestSent, largestAcked, lossTime, lastElicitingTime>>
appVars == <<skipped, skipFrom, pathProbes>>
peerVars == <<bytesReceived, peerAddressValidated, peerCompletedAddressValidation,
              handshakeConfirmed, dropped>>
ptoVars == <<ptoCount, ptoMode, numProbesToSend>>
history == <<sent, reported, twice>>
handlerVars == <<conf, now, rtt, spaceVars, appVars, peerVars, ptoVars, bytesInFlight, bytesSent,
          alarm, migrations, retried, closed, bug, history>>

None == [n \in {} |-> [kind |-> "ack", at |-> 0]]
NoProbes == [n \in {} |-> 0]

HandlerInit ==
  /\ conf \in Scenarios
  /\ now = Epoch /\ rtt \in RTTs
  /\ dropped = IF Established THEN {"initial", "handshake"} ELSE {}
  /\ histories = [s \in Spaces |-> None]
  /\ next = [s \in Spaces |-> 0]
  /\ largestSent = [s \in Spaces |-> NoNumber]
  /\ largestAcked = [s \in Spaces |-> NoNumber]
  /\ lossTime = [s \in Spaces |-> 0]
  /\ lastElicitingTime = [s \in Spaces |-> 0]
  /\ skipped = {} /\ skipFrom = 0 /\ pathProbes = NoProbes
  /\ bytesInFlight = 0 /\ bytesSent = 0 /\ bytesReceived = 0
  /\ peerAddressValidated \in                  \* clientAddressValidated: by a token
       IF Established \/ Perspective = "client" THEN {TRUE} ELSE BOOLEAN
  /\ peerCompletedAddressValidation = (Established \/ Perspective = "server")
  /\ handshakeConfirmed = Established
  /\ ptoCount = 0 /\ ptoMode = "none" /\ numProbesToSend = 0
  /\ alarm = NoAlarm /\ migrations = 0 /\ retried = FALSE
  /\ closed = FALSE /\ bug = FALSE
  /\ sent = {} /\ reported = {} /\ twice = FALSE

-----------------------------------------------------------------------------
(* Packets and histories.                                                  *)

AckEliciting(p) == p.kind \in {"data", "zeroRTT", "mtuProbe"}
IsOutstanding(p) == p.kind \in {"data", "zeroRTT"}

Without(f, S) == [n \in DOMAIN f \ S |-> f[n]]
With(f, n, v) == [m \in DOMAIN f \cup {n} |-> IF m = n THEN v ELSE f[m]]
Size(f) == Cardinality({n \in DOMAIN f : AckEliciting(f[n])})

HasOutstanding(s) == s \notin dropped /\ \E n \in DOMAIN histories[s] : IsOutstanding(histories[s][n])
HasOutstandingPathProbes == DOMAIN pathProbes # {}

(* Len of a history, with the holes after its first packet.                *)
HistoryLen(s) ==
  IF s \in dropped \/ DOMAIN histories[s] = {} THEN 0 ELSE next[s] - Min(DOMAIN histories[s])

KeepNewest(S) == IF Cardinality(S) > MaxSkipped THEN S \ {Min(S)} ELSE S
SpaceDifference(s, a, b) ==
  (a - b) - (IF s = "app" THEN Cardinality({n \in skipped : b < n /\ n < a}) ELSE 0)

(* OnAcked or OnLost for the frames of the packets R.                      *)
Of(s, S) == {<<s, n>> : n \in S}
Report(R) ==
  /\ reported' = reported \cup R
  /\ twice' = (twice \/ R \cap reported # {})

(* Mutant: MTU probe packets stay in flight.                               *)
RemoveOutstandingFromBytesInFlight(s, S) ==
  bytesInFlight' = bytesInFlight - Cardinality({n \in S : IsOutstanding(histories[s][n])})

(* removeFromBytesInFlight for packets S of space s.                       *)
RemoveFromBytesInFlight(s, S) ==
  bytesInFlight' = bytesInFlight - Cardinality({n \in S : AckEliciting(histories[s][n])})

-----------------------------------------------------------------------------
(* The loss detection timer.                                               *)

IsAmplificationLimited ==
  ~peerAddressValidated /\ bytesSent >= 3 * bytesReceived

HasOutstandingCryptoPackets == HasOutstanding("initial") \/ HasOutstanding("handshake")

(* The earliest nonzero time and its space, the first space on a tie.      *)
First(S) ==
  IF "initial" \in S THEN "initial" ELSE IF "handshake" \in S THEN "handshake" ELSE "app"
Earliest(times) ==
  LET due == {s \in Spaces : times[s] # 0}
      space == First({s \in due : \A q \in due : times[s] <= times[q]})
  IN IF due = {} THEN [time |-> 0, space |-> "app"]
     ELSE [time |-> times[space], space |-> space]

LossTimeAndSpace ==
  Earliest([s \in Spaces |-> IF s \in dropped THEN 0 ELSE lossTime[s]])

ScaledPTO(includeMaxAckDelay) ==
  LET pto == (2 * rtt + (IF includeMaxAckDelay THEN MaxAckDelay ELSE 0)) * 2^ptoCount
  IN IF pto > MaxPto \/ pto <= 0 THEN MaxPto ELSE pto

PTOTimes ==
  [s \in Spaces |->
     IF HasOutstanding(s) /\ lastElicitingTime[s] # 0 /\ (s = "app" => handshakeConfirmed)
     THEN lastElicitingTime[s] + ScaledPTO(s = "app") ELSE 0]

PTOTimeAndSpace ==
  IF ~handshakeConfirmed /\ ~HasOutstandingCryptoPackets
  THEN IF peerCompletedAddressValidation
       THEN [time |-> 0, space |-> "app"]
       ELSE [time |-> now + ScaledPTO(FALSE),
             space |-> IF "initial" \in dropped THEN "handshake" ELSE "initial"]
  ELSE Earliest(PTOTimes)

LossDetectionTime ==
  LET probe == IF HasOutstandingPathProbes
               THEN pathProbes[Min(DOMAIN pathProbes)] + PathProbeTimeout ELSE 0
      loss  == LossTimeAndSpace
      pto   == PTOTimeAndSpace
      first(t) == t # 0 /\ (probe = 0 \/ t < probe)
  IN IF \/ /\ peerCompletedAddressValidation /\ ~HasOutstandingCryptoPackets
           /\ ~HasOutstanding("app") /\ ~HasOutstandingPathProbes
        \/ IsAmplificationLimited
     THEN NoAlarm
     ELSE CASE first(loss.time) -> [time |-> loss.time, type |-> "loss", space |-> loss.space]
            [] ~first(loss.time) /\ first(pto.time) ->
                 [time |-> pto.time, type |-> "pto", space |-> pto.space]
            [] ~first(loss.time) /\ ~first(pto.time) /\ probe # 0 ->
                 [time |-> probe, type |-> "pathProbe", space |-> "app"]
            [] OTHER -> NoAlarm

(* Called last in an action: from the state that the action leaves.        *)
SetLossDetectionTimer == alarm' = LossDetectionTime'

-----------------------------------------------------------------------------
Tick ==
  /\ now < Epoch + MaxTime
  /\ now' = now + 1
  /\ UNCHANGED <<conf, rtt, spaceVars, appVars, peerVars, ptoVars, bytesInFlight, bytesSent,
                 alarm, migrations, retried, closed, bug, history>>

SendMode ==
  LET tracked == HistoryLen("initial") + HistoryLen("handshake") + HistoryLen("app")
  IN CASE IsAmplificationLimited \/ tracked >= MaxTracked -> "none"
       [] ~IsAmplificationLimited /\ tracked < MaxTracked /\ numProbesToSend > 0 -> ptoMode
       [] OTHER -> IF bytesInFlight >= Cwnd \/ tracked >= MaxOutstanding THEN "ack" ELSE "any"

(* PopPacketNumber and SentPacket, with lost the packets of s given up     *)
(* before.  The generator may skip a number, at least three after the last *)
(* skip.                                                                   *)
HandlerSentPacket(s, kind, skip, lost) ==
  LET n == IF skip THEN next[s] + 1 ELSE next[s]
      elicits == AckEliciting([kind |-> kind])
      probe == kind = "pathProbe"
  IN /\ n <= MaxNumber
     /\ skip => s = "app" /\ next[s] >= skipFrom + 3
     /\ next' = [next EXCEPT ![s] = n + 1]
     /\ skipped' = IF skip THEN KeepNewest(skipped \cup {next[s]}) ELSE skipped
     /\ skipFrom' = IF skip THEN n + 1 ELSE skipFrom
     /\ largestSent' = [largestSent EXCEPT ![s] = n]
     /\ histories' = [histories EXCEPT ![s] =
          With(Without(histories[s], lost), n,
               [kind |-> kind, at |-> IF probe THEN 0 ELSE now])]
     /\ pathProbes' = IF probe THEN With(pathProbes, n, now) ELSE pathProbes
     /\ bytesSent' = IF peerAddressValidated THEN bytesSent ELSE bytesSent + 1
     /\ bytesInFlight' = bytesInFlight - Cardinality(lost) + (IF elicits THEN 1 ELSE 0)
     /\ lastElicitingTime' =
          IF elicits THEN [lastElicitingTime EXCEPT ![s] = now] ELSE lastElicitingTime
     /\ numProbesToSend' = IF elicits /\ numProbesToSend > 0
                           THEN numProbesToSend - 1 ELSE numProbesToSend
     /\ sent' = IF elicits THEN sent \cup {<<s, n>>} ELSE sent
     /\ UNCHANGED <<conf, now, rtt, largestAcked, lossTime, peerVars, ptoCount, ptoMode,
                    migrations, retried, closed, bug>>
     /\ IF probe \/ elicits \/ ~peerCompletedAddressValidation
        THEN SetLossDetectionTimer ELSE UNCHANGED alarm

(* What the connection may send in a space: 1-RTT, and 0-RTT before it.    *)
Sendable(s) ==
  CASE s = "initial" ->
         IF Perspective = "client" \/ bytesReceived > 0 THEN {"data", "ack"} ELSE {}
    [] s = "handshake" -> IF bytesReceived > 0 THEN {"data", "ack"} ELSE {}
    [] s = "app" /\ handshakeConfirmed ->
         {"data", "ack", "mtuProbe", "pathProbe"}
    [] OTHER -> IF Perspective = "client"
                THEN IF bytesReceived = 0 THEN {"zeroRTT"}
                     ELSE IF "initial" \in dropped THEN {"data"} ELSE {}
                ELSE IF bytesReceived > 0 THEN {"data"} ELSE {}

(* A server answers a packet on a new path with a probe whatever the mode. *)
Send(s, kind, skip) ==
  /\ s \notin dropped /\ kind \in Sendable(s)
  /\ \/ SendMode = "any"
     \/ SendMode = "ack" /\ kind = "ack"
     \/ kind = "pathProbe" /\ Perspective = "server"
  /\ UNCHANGED <<reported, twice>>
  /\ HandlerSentPacket(s, kind, skip, {})

(* Mutant: QueueProbePacket does not declare the packet lost.              *)
SendProbeKeepsPacket(s, given, skip) ==
  /\ SendMode = s /\ s \notin dropped
  /\ given = {n \in DOMAIN histories[s] : IsOutstanding(histories[s][n])}
  /\ Report(Of(s, given))
  /\ HandlerSentPacket(s, "data", skip, {})

(* sendProbePacket: QueueProbePacket gives up the oldest outstanding       *)
(* packets until one of them has frames to send again.                     *)
SendProbe(s, given, skip) ==
  LET out == {n \in DOMAIN histories[s] : IsOutstanding(histories[s][n])}
  IN /\ SendMode = s /\ s \notin dropped
     /\ given \subseteq out /\ (out # {} => given # {})
     /\ \A n \in given, m \in out \ given : n < m
     /\ Report(Of(s, given))
     /\ HandlerSentPacket(s, "data", skip, given)

-----------------------------------------------------------------------------
(* detectLostPackets on history f of space s, with the largest acknowledged *)
(* number and the delay: the packets lost, and when the first of the others *)
(* will be.                                                                 *)
LostPackets(s, f, largest, delay) ==
  {n \in DOMAIN f : /\ n <= largest
                    /\ \/ f[n].at <= now - delay
                       \/ SpaceDifference(s, largest, n) >= PacketThreshold}

NewLossTime(s, f, largest, delay) ==
  LET rest == {n \in DOMAIN f : n <= largest} \ LostPackets(s, f, largest, delay)
  IN IF rest = {} THEN 0 ELSE f[Min(rest)].at + delay

(* detectLostPathProbes: the probes that timed out.                        *)
LostPathProbes(probes) == {n \in DOMAIN probes : probes[n] <= now - PathProbeTimeout}

(* detectAndRemoveAckedPackets: the numbers newly acknowledged.  A path    *)
(* probe's entry counts only while the probe itself is kept.               *)
AckedPackets(s, ack) ==
  {n \in ack \cap DOMAIN histories[s] :
     histories[s][n].kind = "pathProbe" => n \in DOMAIN pathProbes}

(* An ACK for a number that was never sent or that was skipped.  The error *)
(* closes the connection.                                                  *)
RefusedAck(s, ack) == Max(ack) > largestSent[s] \/ (s = "app" /\ ack \cap skipped # {})

RefuseAck(s, ack) ==
  /\ RefusedAck(s, ack)
  /\ closed' = TRUE
  /\ UNCHANGED <<conf, now, rtt, spaceVars, appVars, peerVars, ptoVars, bytesInFlight,
                 bytesSent, alarm, migrations, retried, bug, history>>

(* An ACK of nothing new still ends the client's wait for validation.      *)
ReceivedOldAck(s, ack) ==
  /\ ~RefusedAck(s, ack) /\ AckedPackets(s, ack) = {}
  /\ peerCompletedAddressValidation' = (peerCompletedAddressValidation \/ s # "initial")
  /\ UNCHANGED <<conf, now, rtt, spaceVars, appVars, dropped, bytesReceived, peerAddressValidated,
                 handshakeConfirmed, ptoVars, bytesInFlight, bytesSent, migrations, retried,
                 closed, bug, history>>
  /\ IF peerCompletedAddressValidation' # peerCompletedAddressValidation
     THEN SetLossDetectionTimer ELSE UNCHANGED alarm

ReceivedNewAck(s, ack) ==
  LET f       == histories[s]
      acked   == AckedPackets(s, ack)
      probes  == {n \in acked : f[n].kind = "pathProbe"}
      left    == Without(f, acked)
      largest == Max({largestAcked[s], Max(ack)})
      lost    == LostPackets(s, left, largest, rtt')
      kept    == Without(pathProbes, probes)
      late    == IF s = "app" THEN LostPathProbes(kept) ELSE {}
      gone    == {n \in acked \cup lost : AckEliciting(f[n])}
      sample  == Max(ack) \in acked \ probes /\ \E n \in acked : AckEliciting(f[n])
  IN /\ ~RefusedAck(s, ack) /\ acked # {}
     /\ peerCompletedAddressValidation' = (peerCompletedAddressValidation \/ s # "initial")
     /\ rtt' \in IF sample THEN RTTs ELSE {rtt}
     /\ histories' = [histories EXCEPT ![s] = Without(left, lost)]
     /\ largestAcked' = [largestAcked EXCEPT ![s] = largest]
     /\ lossTime' = [lossTime EXCEPT ![s] = NewLossTime(s, left, largest, rtt')]
     /\ pathProbes' = Without(kept, late)
     /\ RemoveFromBytesInFlight(s, gone)
     /\ ptoCount' = IF peerCompletedAddressValidation' THEN 0 ELSE ptoCount
     /\ numProbesToSend' = 0
     /\ Report(Of(s, gone \cup probes) \cup Of("app", late))
     /\ UNCHANGED <<conf, now, next, largestSent, lastElicitingTime, skipped, skipFrom, dropped,
                    bytesReceived, peerAddressValidated, handshakeConfirmed, ptoMode,
                    bytesSent, migrations, retried, closed, bug, sent>>
     /\ SetLossDetectionTimer

(* A server reads 1-RTT packets only once its handshake is complete.       *)
ReceivedAck(s, ack) ==
  /\ s \notin dropped /\ (Established \/ bytesReceived > 0)
  /\ s = "app" => handshakeConfirmed \/ Perspective = "client"
  /\ \/ RefuseAck(s, ack)
     \/ ReceivedOldAck(s, ack)
     \/ ReceivedNewAck(s, ack)

-----------------------------------------------------------------------------
(* Mutant: the return after loss detection is missing.                     *)
LossTimeoutCountsPTO(late) ==
  LET s    == LossTimeAndSpace.space
      f    == histories[s]
      lost == LostPackets(s, f, largestAcked[s], rtt)
      gone == {n \in lost : AckEliciting(f[n])}
  IN /\ histories' = [histories EXCEPT ![s] = Without(f, lost)]
     /\ lossTime' = [lossTime EXCEPT ![s] = NewLossTime(s, f, largestAcked[s], rtt)]
     /\ RemoveFromBytesInFlight(s, gone)
     /\ Report(Of(s, gone) \cup Of("app", late))
     /\ ptoCount' = ptoCount + 1
     /\ UNCHANGED <<next, skipped, skipFrom, ptoMode, numProbesToSend, bug>>

(* The timer fires while a loss time is set.                               *)
LossTimeout(late) ==
  LET s    == LossTimeAndSpace.space
      f    == histories[s]
      lost == LostPackets(s, f, largestAcked[s], rtt)
      gone == {n \in lost : AckEliciting(f[n])}
  IN /\ histories' = [histories EXCEPT ![s] = Without(f, lost)]
     /\ lossTime' = [lossTime EXCEPT ![s] = NewLossTime(s, f, largestAcked[s], rtt)]
     /\ RemoveFromBytesInFlight(s, gone)
     /\ Report(Of(s, gone) \cup Of("app", late))
     /\ UNCHANGED <<next, skipped, skipFrom, ptoVars, bug>>

(* Nothing is in flight, but the server may be waiting for validation.     *)
AntiDeadlockPTO ==
  /\ ptoCount < MaxPTOCount
  /\ ptoCount' = ptoCount + 1 /\ numProbesToSend' = numProbesToSend + 1
  /\ ptoMode' = IF "initial" \notin dropped THEN "initial"
                ELSE IF "handshake" \notin dropped THEN "handshake" ELSE ptoMode
  /\ bug' = (bug \/ {"initial", "handshake"} \subseteq dropped)
  /\ UNCHANGED <<next, skipped, skipFrom>>

(* Two probes in space s.  The app space gives up a packet number, after   *)
(* one that the generator may skip itself.                                 *)
SpacePTO(s, skip) ==
  LET n == IF skip THEN next["app"] + 1 ELSE next["app"]
  IN /\ ptoCount < MaxPTOCount
     /\ ptoCount' = ptoCount + 1 /\ numProbesToSend' = numProbesToSend + 2
     /\ ptoMode' = s
     /\ bug' = (bug \/ s \in dropped)
     /\ IF s = "app"
        THEN /\ n <= MaxNumber
             /\ skip => next["app"] >= skipFrom + 3
             /\ next' = [next EXCEPT !["app"] = n + 1]
             /\ skipped' = KeepNewest(
                  (IF skip THEN KeepNewest(skipped \cup {n - 1}) ELSE skipped) \cup {n})
             /\ skipFrom' = IF skip THEN n + 1 ELSE skipFrom
        ELSE ~skip /\ UNCHANGED <<next, skipped, skipFrom>>

(* No PTO is set, or its space has nothing to probe for.                   *)
NoPTO(probes) ==
  LET pto == PTOTimeAndSpace
  IN \/ pto.time = 0
     \/ /\ ~HasOutstanding(pto.space) /\ ~(pto.space = "app" /\ DOMAIN probes # {})
        /\ ~peerCompletedAddressValidation

PTO(probes, skip) ==
  CASE bytesInFlight = 0 /\ ~peerCompletedAddressValidation -> ~skip /\ AntiDeadlockPTO
    [] (bytesInFlight # 0 \/ peerCompletedAddressValidation) /\ NoPTO(probes) ->
         ~skip /\ UNCHANGED <<ptoVars, next, skipped, skipFrom, bug>>
    [] OTHER -> SpacePTO(PTOTimeAndSpace.space, skip)

OnLossDetectionTimeout(skip) ==
  LET late == IF handshakeConfirmed THEN LostPathProbes(pathProbes) ELSE {}
  IN /\ alarm.time # 0 /\ alarm.time <= now
     /\ pathProbes' = Without(pathProbes, late)
     /\ IF LossTimeAndSpace.time # 0
        THEN ~skip /\ LossTimeout(late)
        ELSE /\ PTO(pathProbes', skip)
             /\ Report(Of("app", late))
             /\ UNCHANGED <<histories, lossTime, bytesInFlight>>
     /\ UNCHANGED <<conf, now, rtt, largestSent, largestAcked, lastElicitingTime, peerVars,
                    bytesSent, migrations, retried, closed, sent>>
     /\ SetLossDetectionTimer

-----------------------------------------------------------------------------
(* Mutant: the timer is not set again.                                     *)
ReceivedBytesNoTimer ==
  /\ bytesReceived < MaxBytes
  /\ Perspective = "client" => next["initial"] > 0
  /\ bytesReceived' = bytesReceived + 1
  /\ UNCHANGED <<conf, now, rtt, spaceVars, appVars, peerAddressValidated, dropped,
                 peerCompletedAddressValidation, handshakeConfirmed, ptoVars, bytesInFlight,
                 bytesSent, alarm, migrations, retried, closed, bug, history>>

ReceivedBytes ==
  /\ bytesReceived < MaxBytes
  /\ Perspective = "client" => next["initial"] > 0
  /\ bytesReceived' = bytesReceived + 1
  /\ UNCHANGED <<conf, now, rtt, spaceVars, appVars, peerAddressValidated, dropped,
                 peerCompletedAddressValidation, handshakeConfirmed, ptoVars, bytesInFlight,
                 bytesSent, migrations, retried, closed, bug, history>>
  /\ IF IsAmplificationLimited /\ ~IsAmplificationLimited'
     THEN SetLossDetectionTimer ELSE UNCHANGED alarm

(* ReceivedPacket of a client's first Handshake packet, last of what the   *)
(* connection does with it.                                                *)
ReceivedPacket ==
  /\ Perspective = "server" /\ ~peerAddressValidated /\ "initial" \in dropped
  /\ peerAddressValidated' = TRUE
  /\ UNCHANGED <<conf, now, rtt, spaceVars, appVars, bytesReceived, dropped,
                 peerCompletedAddressValidation, handshakeConfirmed, ptoVars, bytesInFlight,
                 bytesSent, migrations, retried, closed, bug, history>>
  /\ SetLossDetectionTimer

(* DropPackets, its last part.                                             *)
ResetPTO == ptoCount' = 0 /\ numProbesToSend' = 0 /\ ptoMode' = "none"

(* DropPackets: the client drops Initial keys when it has sent a Handshake *)
(* packet, the server when it receives the first one, which answers one of *)
(* its own; Handshake keys go when the handshake is confirmed.             *)
DropPackets(s) ==
  /\ s \in {"initial", "handshake"} \ dropped
  /\ next["handshake"] > 0
  /\ s = "handshake" => "initial" \in dropped
  /\ dropped' = dropped \cup {s}
  /\ peerCompletedAddressValidation' = (peerCompletedAddressValidation \/ s = "handshake")
  /\ handshakeConfirmed' = (handshakeConfirmed \/ s = "handshake")
  /\ RemoveFromBytesInFlight(s, DOMAIN histories[s])
  /\ histories' = [histories EXCEPT ![s] = None]
  /\ ResetPTO
  /\ UNCHANGED <<conf, now, rtt, next, largestSent, largestAcked, lossTime, lastElicitingTime,
                 appVars, bytesReceived, peerAddressValidated, bytesSent, migrations,
                 retried, closed, bug, history>>
  /\ SetLossDetectionTimer

(* DropPackets for 0-RTT: the server rejected it, before any 1-RTT packet. *)
Drop0RTT ==
  /\ largestAcked["app"] = NoNumber /\ bytesReceived > 0 /\ "handshake" \notin dropped
  /\ DOMAIN histories["app"] # {}
  /\ \A n \in DOMAIN histories["app"] : histories["app"][n].kind = "zeroRTT"
  /\ RemoveFromBytesInFlight("app", DOMAIN histories["app"])
  /\ histories' = [histories EXCEPT !["app"] = None]
  /\ sent' = sent \ Of("app", DOMAIN histories["app"])
  /\ ResetPTO
  /\ UNCHANGED <<conf, now, rtt, next, largestSent, largestAcked, lossTime, lastElicitingTime,
                 appVars, peerVars, bytesSent, migrations, retried, closed, bug,
                 reported, twice>>
  /\ SetLossDetectionTimer

(* ResetForRetry: the packets whose frames are sent again.                 *)
RetryFrames ==
  UNION {Of(s, {n \in DOMAIN histories[s] : AckEliciting(histories[s][n])}) : s \in {"initial", "app"}}

(* ResetForRetry: the frames of the client's first packets are sent again, *)
(* in new spaces that go on from the numbers that Peek returns.            *)
ResetForRetry(skip) ==
  LET fresh == {"initial", "app"}
      New(f, value) == [s \in Spaces |-> IF s \in fresh THEN value ELSE f[s]]
  IN /\ Perspective = "client" /\ bytesReceived = 0 /\ ~retried /\ next["initial"] > 0
     /\ skip => next["app"] >= skipFrom + 3
     /\ retried' = TRUE
     /\ bytesInFlight' = 0
     /\ Report(RetryFrames)
     /\ rtt' \in IF ptoCount = 0 THEN RTTs ELSE {rtt}
     /\ histories' = New(histories, None)
     /\ next' = [next EXCEPT !["app"] = IF skip THEN @ + 1 ELSE @]
     /\ largestSent' = New(largestSent, NoNumber)
     /\ largestAcked' = New(largestAcked, NoNumber)
     /\ lossTime' = New(lossTime, 0)
     /\ lastElicitingTime' = New(lastElicitingTime, 0)
     /\ skipped' = {} /\ skipFrom' = next'["app"] /\ pathProbes' = NoProbes
     /\ alarm' = NoAlarm /\ ptoCount' = 0
     /\ UNCHANGED <<conf, now, peerVars, ptoMode, numProbesToSend, bytesSent, migrations,
                    closed, bug, sent>>

(* RemovePathProbe called for every element of the slice while iterating   *)
(* over it: the loop reads the array that the calls shift, and so leaves   *)
(* every second probe, but never the last.                                 *)
RemoveWhileIterating(probes) ==
  {n \in DOMAIN probes :
     LET place == Cardinality({m \in DOMAIN probes : m <= n})
     IN place % 2 = 1 \/ place = Cardinality(DOMAIN probes)}

MigratedPath ==
  LET f == histories["app"]
      gone == {n \in DOMAIN f : AckEliciting(f[n])}
  IN /\ handshakeConfirmed /\ migrations < MaxMigrations
     /\ migrations' = migrations + 1
     /\ rtt' \in RTTs
     /\ histories' = [histories EXCEPT !["app"] = None]
     /\ RemoveFromBytesInFlight("app", gone)
     /\ Report(Of("app", gone))
     /\ pathProbes' = Without(pathProbes, RemoveWhileIterating(pathProbes))
     /\ UNCHANGED <<conf, now, next, largestSent, largestAcked, lossTime, lastElicitingTime,
                    skipped, skipFrom, peerVars, ptoVars, bytesSent, retried, closed, bug,
                    sent>>
     /\ SetLossDetectionTimer

-----------------------------------------------------------------------------
Step ==
  \/ Tick
  \/ \E s \in Spaces, kind \in SentKinds, skip \in BOOLEAN : Send(s, kind, skip)
  \/ \E s \in Spaces, skip \in BOOLEAN :
       \E given \in SUBSET DOMAIN histories[s] : SendProbe(s, given, skip)
  \/ \E s \in Spaces : \E ack \in SUBSET (0..next[s]) \ {{}} : ReceivedAck(s, ack)
  \/ \E skip \in BOOLEAN : OnLossDetectionTimeout(skip)
  \/ ReceivedBytes
  \/ \E s \in Spaces : DropPackets(s)
  \/ Drop0RTT
  \/ \E skip \in BOOLEAN : ResetForRetry(skip)
  \/ MigratedPath

(* The connection is in the middle of sending, or of handling, the client's *)
(* first Handshake packet, and only goes on with that.                      *)
HandshakePacketInHand ==
  IF Perspective = "client" THEN next["handshake"] > 0 /\ "initial" \notin dropped
  ELSE "initial" \in dropped /\ ~peerAddressValidated

GoOn ==
  \/ \E s \in Spaces : DropPackets(s)
  \/ Perspective = "server" /\ \E ack \in SUBSET (0..next["handshake"]) \ {{}} :
       ReceivedAck("handshake", ack)
  \/ ReceivedPacket

HandlerNext ==
  /\ ~closed /\ ~bug
  /\ IF HandshakePacketInHand THEN GoOn ELSE Step

HandlerSpec == HandlerInit /\ [][HandlerNext]_handlerVars

-----------------------------------------------------------------------------
Times == 0..(Epoch + MaxTime + MaxPto + PathProbeTimeout)

(* The handler's fields have their types.                                  *)
HandlerTypeOK ==
  /\ conf \in Scenarios
  /\ now \in Epoch..(Epoch + MaxTime) /\ rtt \in RTTs /\ dropped \subseteq Spaces
  /\ \A s \in Spaces :
       /\ DOMAIN histories[s] \subseteq 0..MaxNumber
       /\ \A n \in DOMAIN histories[s] : histories[s][n].at \in 0..now
       /\ next[s] \in 0..(MaxNumber + 1)
       /\ largestSent[s] \in -1..(next[s] - 1) /\ largestAcked[s] \in -1..largestSent[s]
       /\ lossTime[s] \in Times /\ lastElicitingTime[s] \in 0..now
  /\ skipped \subseteq 0..MaxNumber /\ Cardinality(skipped) <= MaxSkipped
  /\ {bytesInFlight, bytesSent, bytesReceived, ptoCount, numProbesToSend} \subseteq Nat
  /\ ptoMode \in Spaces \cup {"none"} /\ alarm.time \in Times

(* The handler reaches neither a panic nor an error marked BUG in          *)
(* OnLossDetectionTimeout, and a probe is owed only in a space that still  *)
(* has keys: getPacketNumberSpace would return nil.                        *)
NoBug == ~bug /\ (numProbesToSend > 0 => ptoMode \in Spaces \ dropped)

(* bytesInFlight is exactly what the ack-eliciting packets still tracked   *)
(* add up to, over all spaces: the window is neither leaked nor overdrawn  *)
(* by any order of ACKs, losses, probes, dropped keys, Retry and migration. *)
BytesInFlightExact ==
  bytesInFlight = Size(histories["initial"]) + Size(histories["handshake"]) + Size(histories["app"])

(* No frame is forgotten: an ack-eliciting packet that is no longer        *)
(* tracked was reported acknowledged or lost, unless its keys are gone.    *)
NoFrameForgotten ==
  \A s \in Spaces \ dropped :
    sent \cap Of(s, 0..MaxNumber) \subseteq reported \cup Of(s, DOMAIN histories[s])

(* OnAcked or OnLost is called at most once for the frames of a packet,    *)
(* and never while it is tracked.                                          *)
ReportedOnce ==
  /\ ~twice
  /\ \A s \in Spaces : \A n \in DOMAIN histories[s] :
       AckEliciting(histories[s][n]) => <<s, n>> \notin reported

(* What setLossDetectionTimer would arm now is armed already, no later:    *)
(* no step that changes what the timer depends on forgets to set it.  A    *)
(* PTO counted from the current time is excepted, and a client that has    *)
(* sent nothing since it began or since a Retry.                           *)
TimerArmed ==
  LET due == LossDetectionTime
      floating == ~handshakeConfirmed /\ ~HasOutstandingCryptoPackets
      quiet == ~peerCompletedAddressValidation /\ largestSent["initial"] = NoNumber
  IN (due.time # 0 /\ ~quiet /\ ~closed) =>
        alarm.time # 0 /\ (floating \/ alarm.time <= due.time)

(* A packet number that an ACK is refused for was never used by a packet.  *)
SkippedNeverSent == \A n \in skipped : <<"app", n>> \notin sent

(* The frames of every packet sent are answered for exactly once, by an    *)
(* ACK, a loss or a probe, and no number given up ever carries frames.     *)
FramesAccounted == NoFrameForgotten /\ ReportedOnce /\ SkippedNeverSent

(* OnLossDetectionTimeout always finds something to do in a space that has *)
(* keys, and is called in time.                                            *)
TimersSound == NoBug /\ TimerArmed

(* One alarm serves loss times, PTOs and path probes: a PTO is counted     *)
(* only when the PTO was what the alarm was set for, or when a path probe  *)
(* timed out with it; never for a loss time.                               *)
PtoOnlyWhenDue ==
  [][ptoCount' > ptoCount => alarm.type = "pto" \/ pathProbes' # pathProbes]_handlerVars

=============================================================================
