---------------------------- MODULE TqCongestion -----------------------------
(***************************************************************************)
(* A sender that moves a plan's packets over one bottleneck link with the  *)
(* congestion controller algo: how recovery.rs calls the controller when a *)
(* packet is sent, acknowledged or lost, and when it lets the next packet  *)
(* go (can_send, with the pacer).                                          *)
(*                                                                         *)
(* The link serves one packet in LinkTime ticks, queues at most Queue of   *)
(* them, and an acknowledgement comes back Delay ticks after its packet    *)
(* was served.  A plan says how much there is to send and what may happen  *)
(* on the way: packets lost besides those the full queue drops, pauses of  *)
(* the application for PauseTime ticks, a delay that grows once, probes of *)
(* the path MTU, and packets with nothing but an ACK frame, which are not  *)
(* in flight.  Time jumps from event to event.                             *)
(***************************************************************************)
EXTENDS TqRate

CONSTANTS
  Algorithms, Plans, LinkTime, Queue, Delay, SlowDelay, PauseTime,
  Deadline, ProbeRttStay, FollowTime,      \* what the properties allow
  PacketThreshold, MtuProbeSize, AckSize,  \* of a probe of the path MTU, of an ACK-only packet
  ProbeRttInterval, ProbeRttDuration, MinRttFilterLen, ProbeMaxRounds, QuantumRate, ExtraAckedLen,
  ProbeWaits,
  RtpropFilterLen, BtlbwFilterLen, ProbeRttBasedOnBdp, ProbeRttCwndGain,
  SlowStartThresh, FastConvergence, HystartEnabled, MinRttThresh, MaxRttThresh, RttSamples, CssRounds,
  SlowStartDelta, SteadyDelta, UseStandingRtt, CopaMinRttWindow, CopaMaxVelocity

ASSUME CongestionAssumption ==
  /\ Algorithms \subseteq {"Cubic", "Bbr", "Bbr3", "Copa", "Dummy"}
  /\ Plans \subseteq [packets : Nat, drops : Nat, pauses : Nat, longer : BOOLEAN, mtu : Nat, acks : Nat]
  /\ {LinkTime, Queue, Delay, SlowDelay, Deadline, MtuProbeSize, AckSize} \subseteq Nat \ {0}

VARIABLES
  algo,      \* congestion_control_algorithm
  cc,        \* the controller
  pacer,
  sent,      \* the packets sent, each with the time at which its acknowledgement arrives
  cached,    \* cache_pkt_size: the size of the last packet in flight that was sent
  next,      \* the next packet number
  left,      \* packets of data still to be sent
  now,
  rtt,       \* [srtt, latest, seen]
  link,      \* [free, delay, since]: when the link is free, the delay, and since when it is longer
  faults,    \* what is left of the plan
  idle,      \* the application is silent until then
  acked,     \* the largest packet number acknowledged, or 0
  probe,     \* when the probe timeout expires
  entered,   \* when the controller entered ProbeRTT, or Never
  stray      \* history: bytes of MTU probes lost with no other packet, and of acknowledged
             \* packets that were not in flight

vars == <<algo, cc, pacer, sent, cached, next, left, now, rtt, link, faults, idle, acked, probe,
          entered, stray>>

B3 == INSTANCE TqBbr3
B1 == INSTANCE TqBbr
Cu == INSTANCE TqCubic
Co == INSTANCE TqCopa

(* Dummy keeps its window; build_congestion_controller                     *)
DummyNew == [cwnd |-> InitialCwnd]
New(a) ==
  CASE a = "Cubic" -> Cu!CubicNew
    [] a = "Bbr" -> B1!BbrNew
    [] a = "Bbr3" -> B3!Bbr3New
    [] a = "Copa" -> Co!CopaNew
    [] a = "Dummy" -> DummyNew

(* congestion_window and pacing_rate                                       *)
Window ==
  CASE algo = "Cubic" -> Cu!CubicWindow(cc)
    [] algo = "Bbr" -> B1!BbrWindow(cc)
    [] algo = "Bbr3" -> B3!Bbr3Window(cc)
    [] algo = "Copa" -> Co!CopaWindow(cc)
    [] algo = "Dummy" -> cc.cwnd
PacingRate == IF algo = "Copa" THEN Co!CopaPacing(cc) ELSE cc.pacing_rate

BytesOf(ps) == FoldSet(LAMBDA p, n : p.size + n, 0, ps)
Flying(ps) == {p \in ps : p.kind # "ack"}
InFlight == BytesOf(Flying(sent))

-----------------------------------------------------------------------------
(* The calls that recovery makes                                           *)
OnSent(c, p) ==
  CASE algo = "Cubic" -> Cu!CubicSent(c, p, InFlight)
    [] algo = "Bbr" -> B1!BbrSent(c, p)
    [] algo = "Bbr3" -> B3!Bbr3Sent(c, p)
    [] algo = "Copa" -> Co!CopaSent(c, p, InFlight)
    [] OTHER -> c
Stamped(p) == IF algo \in {"Bbr", "Bbr3"} THEN Stamp(cc.r, p, cc.in_flight, cc.lost_total) ELSE p
BeginAck(c) ==
  CASE algo = "Bbr" -> B1!BbrBegin(c, now)
    [] algo = "Bbr3" -> B3!Bbr3Begin(c, now)
    [] algo = "Copa" -> Co!CopaBegin(c, now)
    [] OTHER -> c
OnAck(c, p, t) ==
  CASE algo = "Cubic" -> Cu!CubicAck(c, p, t.srtt, t.latest, now)
    [] algo = "Bbr" -> B1!BbrAck(c, p, now)
    [] algo = "Bbr3" -> B3!Bbr3Ack(c, p, now)
    [] algo = "Copa" -> Co!CopaAck(c, p, t.srtt, t.latest)
    [] OTHER -> c
OnCongestion(c, p, bytes, in_flight) ==
  CASE algo = "Cubic" -> Cu!CubicCongestion(c, p, now)
    [] algo = "Bbr" -> B1!BbrCongestion(c, p, bytes, now)
    [] algo = "Bbr3" -> B3!Bbr3Congestion(c, p, bytes, now)
    [] algo = "Copa" -> Co!CopaCongestion(c, bytes, in_flight)
    [] OTHER -> c
EndAck(c) ==
  CASE algo = "Cubic" -> Cu!CubicEnd(c)
    [] algo = "Bbr" -> B1!BbrEnd(c)
    [] algo = "Bbr3" -> B3!Bbr3End(c)
    [] algo = "Copa" -> Co!CopaEnd(c)
    [] OTHER -> c

(* The random choices that a call may draw                                 *)
Picks ==
  CASE algo = "Bbr3" -> [rounds : {0}, wait : ProbeWaits]
    [] algo = "Bbr" -> {0, 6}
    [] OTHER -> {0}
Draw(c, pick) == IF algo \in {"Bbr", "Bbr3"} THEN [c EXCEPT !.pick = pick] ELSE c
Drawn(c) == IF algo \in {"Bbr", "Bbr3"} THEN [c EXCEPT !.pick = New(algo).pick] ELSE c

-----------------------------------------------------------------------------
Init ==
  /\ algo \in Algorithms
  /\ cc = New(algo)
  /\ pacer = PacerNew(InitialRtt, InitialCwnd)
  /\ sent = {} /\ cached = 0 /\ next = 1 /\ now = 1
  /\ rtt = [srtt |-> InitialRtt, latest |-> InitialRtt, seen |-> FALSE]
  /\ link = [free |-> 0, delay |-> Delay, since |-> Never]
  /\ \E plan \in Plans : left = plan.packets /\ faults = [plan EXCEPT !.packets = 0]
  /\ idle = 0 /\ acked = 0 /\ probe = Never /\ entered = Never
  /\ stray = [mtu |-> 0, acks |-> 0]

(* detect_lost_packets: the packet and the time threshold                  *)
LossDelay(t) == (9 * AtLeast(t.srtt, t.latest)) \div 8
LostOf(ps, largest, t) ==
  {p \in ps : p.pn < largest /\ (largest >= p.pn + PacketThreshold \/ now >= p.sent + LossDelay(t))}
(* The loss of MTU probes alone is no congestion event: the controller is  *)
(* not told of it.                                                         *)
Congested(lost) == {p \in lost : p.kind # "mtu"}
WithLoss(c, lost, rest) ==
  IF Congested(lost) = {} THEN c
  ELSE OnCongestion(c, CHOOSE p \in Congested(lost) : \A q \in Congested(lost) : q.pn <= p.pn,
                    BytesOf(Flying(lost)), BytesOf(Flying(rest)))
Strayed(lost, newly) ==
  [stray EXCEPT !.mtu = IF Congested(lost) = {} THEN @ + BytesOf(lost) ELSE @,
                !.acks = @ + BytesOf(newly \ Flying(newly))]

(* RttEstimator.update                                                     *)
RttAfter(p) ==
  LET latest == now - p.sent IN
  [latest |-> latest, seen |-> TRUE,
   srtt |-> IF rtt.seen THEN (7 * rtt.srtt + latest) \div 8 ELSE latest]

Pto == 3 * AtLeast(rtt.srtt, 1)
Due == {p \in Flying(sent) : p.at = now}
TimedOut == LostOf(sent, acked, rtt)
ProbeRttEntry(c) ==
  IF algo \notin {"Bbr", "Bbr3"} \/ c.state # "ProbeRTT" THEN Never
  ELSE IF entered = Never THEN now ELSE entered

(* on_ack_received: every packet whose acknowledgement arrives now, with   *)
(* the ACK-only packets sent before; the controller sees the RTT as it was *)
(* before this sample.                                                     *)
Newly == Due \cup {p \in sent \ Flying(sent) : p.at # Never /\ \E q \in Due : p.pn < q.pn}
Acknowledge(pick) ==
  LET newly == Newly
      largest == AtLeast(acked, Max({p.pn : p \in newly}))
      t == RttAfter(CHOOSE p \in newly : \A q \in newly : q.pn <= p.pn)
      rest0 == sent \ newly
      lost == LostOf(rest0, largest, t)
      rest == rest0 \ lost
      order == SetToSortSeq(newly, LAMBDA p, q : p.pn < q.pn)
      marked == FoldLeft(LAMBDA d, p : OnAck(d, p, rtt), BeginAck(Draw(cc, pick)), order)
      c == Drawn(EndAck(WithLoss(marked, lost, rest)))
  IN /\ Due # {}
     /\ cc' = c
     /\ sent' = rest
     /\ acked' = largest
     /\ rtt' = t
     /\ left' = left + Cardinality({p \in lost : p.kind = "data"})
     /\ probe' = IF Flying(rest) = {} THEN Never ELSE now + 3 * AtLeast(t.srtt, 1)
     /\ entered' = ProbeRttEntry(c)
     /\ stray' = Strayed(lost, newly)
     /\ UNCHANGED <<algo, pacer, cached, next, now, link, faults, idle>>

(* on_loss_detection_timeout, the loss timer                               *)
LossTimer(pick) ==
  LET rest == sent \ TimedOut
      c == Drawn(WithLoss(Draw(cc, pick), TimedOut, rest))
  IN /\ Due = {} /\ TimedOut # {}
     /\ cc' = c
     /\ sent' = rest
     /\ left' = left + Cardinality({p \in TimedOut : p.kind = "data"})
     /\ probe' = IF Flying(rest) = {} THEN Never ELSE now + Pto
     /\ entered' = ProbeRttEntry(c)
     /\ stray' = Strayed(TimedOut, {})
     /\ UNCHANGED <<algo, pacer, cached, next, now, rtt, link, faults, idle, acked>>

(* A packet enters the link, or finds its queue full.                      *)
Departure == AtLeast(now, link.free) + LinkTime
Overflows == link.free > now + Queue * LinkTime
Packet(kind, size, at) ==
  [pn |-> next, size |-> size, sent |-> now, kind |-> kind, at |-> at,
   first |-> 0, time |-> Never, delivered |-> 0, app |-> FALSE, tx |-> 0, lost |-> 0]
Transmit(kind, size, dropped, pick) ==
  LET gone == dropped \/ Overflows
      p == Packet(kind, size, IF gone THEN Never ELSE Departure + link.delay)
      c == Drawn(OnSent(Draw(cc, pick), p))
  IN /\ cc' = c
     /\ sent' = sent \cup {Stamped(p)}
     /\ cached' = size
     /\ next' = next + 1
     /\ left' = IF kind = "data" THEN left - 1 ELSE left
     /\ probe' = now + Pto
     /\ link' = IF gone THEN link ELSE [link EXCEPT !.free = Departure]
     /\ entered' = ProbeRttEntry(c)

(* can_send and can_pacing                                                 *)
Quiet == Due = {} /\ TimedOut = {} /\ ~(probe # Never /\ now >= probe)
Paced == Schedule(pacer, cached, PacingRate, rtt.srtt, Window, now)
WindowOpen == InFlight < Window
Wants == left > 0 /\ now >= idle
MayGo == Wants /\ WindowOpen /\ (algo # "Dummy" => Paced.at = Never)
Spent(size) == PacerSent(IF algo = "Dummy" THEN pacer ELSE Paced.q, size)
InRecovery ==
  CASE algo = "Cubic" -> Cu!SentInRecovery(cc, now)
    [] algo = "Bbr" -> B1!SentInRecovery(cc, now)
    [] algo = "Bbr3" -> B3!SentInRecovery(cc, now)
    [] OTHER -> FALSE
MtuProbeDue ==
  /\ faults.mtu > 0 /\ \A p \in sent : p.kind # "mtu"
  /\ MtuProbeSize <= Window /\ ~InRecovery
SendData(dropped, pick) ==
  /\ Quiet /\ MayGo /\ ~MtuProbeDue
  /\ dropped => faults.drops > 0 /\ ~Overflows
  /\ Transmit("data", Mtu, dropped, pick)
  /\ pacer' = Spent(Mtu)
  /\ faults' = [faults EXCEPT !.drops = IF dropped THEN @ - 1 ELSE @]
  /\ UNCHANGED <<algo, now, rtt, idle, acked, stray>>

(* try_write_pmut_probe_frames: one probe of the path MTU at a time, ahead *)
(* of data, which the path may not carry.                                  *)
SendMtuProbe(dropped, pick) ==
  /\ Quiet /\ MayGo /\ MtuProbeDue
  /\ Transmit("mtu", MtuProbeSize, dropped, pick)
  /\ pacer' = Spent(MtuProbeSize)
  /\ faults' = [faults EXCEPT !.mtu = @ - 1]
  /\ UNCHANGED <<algo, now, rtt, idle, acked, stray>>

(* A packet with nothing but an ACK frame: neither the window nor the      *)
(* pacer holds it back, and the controller is not told.  The peer          *)
(* acknowledges it with the next packet that asks for an acknowledgement.  *)
SendAckOnly ==
  /\ Quiet /\ Wants /\ faults.acks > 0
  /\ sent' = sent \cup {Packet("ack", AckSize, 0)}
  /\ next' = next + 1
  /\ faults' = [faults EXCEPT !.acks = @ - 1]
  /\ UNCHANGED <<algo, cc, pacer, cached, left, now, rtt, link, idle, acked, probe, entered, stray>>

(* The probe timeout: a probe leaves whatever the window and the pacer say.*)
SendProbe(pick) ==
  /\ Due = {} /\ TimedOut = {} /\ probe # Never /\ now >= probe
  /\ Transmit(IF left > 0 THEN "data" ELSE "ping", Mtu, FALSE, pick)
  /\ pacer' = PacerSent(pacer, Mtu)
  /\ UNCHANGED <<algo, now, rtt, faults, idle, acked, stray>>

(* The application pauses; the path becomes longer.                        *)
Pause ==
  /\ Quiet /\ Wants /\ faults.pauses > 0
  /\ idle' = now + PauseTime
  /\ faults' = [faults EXCEPT !.pauses = @ - 1]
  /\ UNCHANGED <<algo, cc, pacer, sent, cached, next, left, now, rtt, link, acked, probe, entered, stray>>
Lengthen ==
  /\ Quiet /\ Wants /\ faults.longer
  /\ link' = [link EXCEPT !.delay = SlowDelay, !.since = now]
  /\ faults' = [faults EXCEPT !.longer = FALSE]
  /\ UNCHANGED <<algo, cc, pacer, sent, cached, next, left, now, rtt, idle, acked, probe, entered, stray>>

(* Time passes to the next event.                                          *)
Events ==
  {p.at : p \in {q \in sent : q.at # Never}}
  \cup {p.sent + LossDelay(rtt) : p \in {q \in sent : q.pn < acked}}
  \cup (IF probe # Never THEN {probe} ELSE {})
  \cup (IF left > 0 /\ idle > now THEN {idle} ELSE {})
  \cup (IF Wants /\ WindowOpen /\ algo # "Dummy" THEN {Paced.at} ELSE {})
Tick ==
  /\ Quiet /\ ~MayGo
  /\ \E t \in Events : t > now /\ (\A u \in Events : u > now => t <= u) /\ now' = AtMost(t, Deadline)
  /\ pacer' = IF Wants /\ WindowOpen /\ algo # "Dummy" THEN Paced.q ELSE pacer
  /\ UNCHANGED <<algo, cc, sent, cached, next, left, rtt, link, faults, idle, acked, probe, entered, stray>>

Done == left = 0 /\ Flying(sent) = {}
Finished == Done /\ UNCHANGED vars

Next ==
  \/ /\ now < Deadline
     /\ \/ \E pick \in Picks : Acknowledge(pick) \/ LossTimer(pick) \/ SendProbe(pick)
        \/ \E pick \in Picks, dropped \in BOOLEAN : SendData(dropped, pick) \/ SendMtuProbe(dropped, pick)
        \/ SendAckOnly \/ Pause \/ Lengthen \/ Tick
  \/ Finished

Spec == Init /\ [][Next]_vars

-----------------------------------------------------------------------------
(* No controller stalls the transfer: whatever was lost, whenever the      *)
(* application paused and whatever state the controller was in then, every *)
(* packet of data is sent and acknowledged by the Deadline                 *)
(* (recovery.rs:849-893 against the window and rate of each algorithm).    *)
NoStall == now < Deadline \/ Done

(* BBR and BBRv3 decide by their own count of the bytes in flight, which   *)
(* they keep apart from recovery's.  The two differ in the code, but only  *)
(* by two amounts: an MTU probe lost with no other packet stays in theirs  *)
(* for ever (recovery.rs:466-467 against 479-481, 497), and an acknowledged*)
(* packet that was never in flight is taken off it all the same            *)
(* (recovery.rs:364-372 against 178-182).  Until one of these happens they *)
(* agree (bbr3.rs:1868, 1894, 1945; recovery.rs:214, 352, 467).  What the  *)
(* controllers compute stays within its type: no u64 below zero, no        *)
(* minimum RTT of 0, no index past the gain cycle.                         *)
InFlightAgrees ==
  /\ algo \in {"Bbr", "Bbr3"} => cc.in_flight \in InFlight - stray.acks .. InFlight + stray.mtu
  /\ algo = "Bbr" => cc \in B1!BbrType
  /\ algo = "Bbr3" => cc \in B3!Bbr3Type

(* ProbeRTT ends: the acknowledgements that the small window still brings, *)
(* a pause or a lost packet do not leave BBR or BBRv3 there for longer     *)
(* than ProbeRttStay (bbr.rs:720-754, bbr3.rs:1274-1338).  This is not     *)
(* said once an MTU probe was lost with no other packet: what stays in     *)
(* their count keeps it above probe_rtt_cwnd (bbr.rs:738, bbr3.rs:1287),   *)
(* and the code then may stay in ProbeRTT for the rest of the transfer.    *)
ProbeRttEnds == entered # Never => now - entered <= ProbeRttStay \/ stray.mtu > 0

(* A minimum RTT that the path no longer has is given up: FollowTime after *)
(* the path became longer no controller still uses the old one             *)
(* (bbr.rs:796-808, bbr3.rs:1227-1246, minmax.rs:110-193).                 *)
MinRtt ==
  CASE algo = "Bbr" -> cc.rtprop
    [] algo = "Bbr3" -> cc.min_rtt
    [] algo = "Copa" -> Best(cc.min_rtt)
    [] OTHER -> SlowDelay + LinkTime
MinRttFollows ==
  link.since # Never /\ now > link.since + FollowTime => MinRtt >= SlowDelay + LinkTime

(* While CUBIC is in slow start, HyStart++ lets the window grow: the phase *)
(* Exited, in which cwnd_increment is 0, goes with a window at ssthresh    *)
(* (cubic.rs:345-354, 431-439, 482-495; hystart_plus_plus.rs:285-294).     *)
SlowStartGrows == algo = "Cubic" /\ Cu!InSlowStart(cc) => ~Cu!Exited(cc.h)

(* The controllers' estimates and phases go on with the path.              *)
EstimatesFollow == ProbeRttEnds /\ MinRttFollows /\ SlowStartGrows

-----------------------------------------------------------------------------
(* TqCongestion over a link of three packets of delay and a short queue.   *)
MCAlgorithms == {"Cubic", "Bbr", "Bbr3", "Copa", "Dummy"}
MCPlans ==
  {[packets |-> 18, drops |-> 1, pauses |-> 1, longer |-> FALSE, mtu |-> 0, acks |-> 0],
   [packets |-> 64, drops |-> 0, pauses |-> 0, longer |-> TRUE, mtu |-> 0, acks |-> 0],
   [packets |-> 60, drops |-> 1, pauses |-> 0, longer |-> FALSE, mtu |-> 0, acks |-> 0],
   [packets |-> 40, drops |-> 0, pauses |-> 0, longer |-> FALSE, mtu |-> 3, acks |-> 1]}
MCProbeWaits == {20, 40}
=============================================================================
