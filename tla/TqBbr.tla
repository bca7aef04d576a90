-------------------------------- MODULE TqBbr --------------------------------
(***************************************************************************)
(* tquic's BBR (congestion_control/bbr.rs) as a record b.  b.pick is the   *)
(* index that the next entry into ProbeBW will draw.                       *)
(***************************************************************************)
EXTENDS TqRate

CONSTANTS
  ProbeRttDuration, RtpropFilterLen,
  QuantumRate,           \* SEND_QUANTUM_THRESHOLD_PACING_RATE
  BtlbwFilterLen,        \* BTLBW_FILTER_LEN
  ProbeRttBasedOnBdp, ProbeRttCwndGain

HighGain == 289
DrainGain == 35
FullBwGrowth == 125
FullBwCount == 3
ProbeBwCwndGain == 200
PacingGainCycle == <<125, 75, 100, 100, 100, 100, 100, 100>>

AckStateNew(now, in_flight) ==
  [now |-> now, lost_bytes |-> 0, acked |-> 0, delivered |-> 0, sent |-> now, prior |-> in_flight]

(* new and init                                                            *)
BbrNew ==
  [state |-> "Startup", cwnd |-> InitialCwnd, pacing_gain |-> HighGain, cwnd_gain |-> HighGain,
   pacing_rate |-> (HighGain * InitialCwnd * Scale) \div (100 * InitialRtt), send_quantum |-> 0,
   btlbw |-> 0, btlbwfilter |-> MinMaxNew, r |-> RateNew,
   rtprop |-> InitialRtt, rtprop_stamp |-> 0, rtprop_expired |-> FALSE,
   round |-> 0, round_start |-> FALSE, next_round |-> 0,
   filled |-> FALSE, full_bw |-> 0, full_count |-> 0,
   pr_done |-> Never, pr_round_done |-> FALSE, conserve |-> FALSE, prior_cwnd |-> 0,
   idle_restart |-> FALSE, cycle_stamp |-> 0, cycle |-> 0, target_cwnd |-> 0,
   in_recovery |-> FALSE, ack |-> AckStateNew(0, 0), epoch |-> Never,
   in_flight |-> 0, lost_total |-> 0, pick |-> 0]

BbrType ==
  [state : {"Startup", "Drain", "ProbeBW", "ProbeRTT"}, cwnd : Nat, pacing_gain : Nat, cwnd_gain : Nat,
   pacing_rate : Nat, send_quantum : Nat, btlbw : Nat, btlbwfilter : MinMaxType, r : RateType,
   rtprop : Nat \ {0}, rtprop_stamp : Nat, rtprop_expired : BOOLEAN,
   round : Nat, round_start : BOOLEAN, next_round : Nat,
   filled : BOOLEAN, full_bw : Nat, full_count : Nat,
   pr_done : Time, pr_round_done : BOOLEAN, conserve : BOOLEAN, prior_cwnd : Nat,
   idle_restart : BOOLEAN, cycle_stamp : Nat, cycle : 0..(Len(PacingGainCycle) - 1), target_cwnd : Nat,
   in_recovery : BOOLEAN, ack : [DOMAIN AckStateNew(0, 0) -> Nat], epoch : Time,
   in_flight : Nat, lost_total : Nat, pick : Nat]

(* inflight, probe_rtt_cwnd                                                *)
Inflight(b, gain) == (gain * b.btlbw * b.rtprop) \div (100 * Scale) + 3 * b.send_quantum
ProbeRttCwnd(b) == IF ProbeRttBasedOnBdp THEN Inflight(b, ProbeRttCwndGain) ELSE MinCwnd

(* save_cwnd, restore_cwnd, enter_recovery, exit_recovery                  *)
SaveCwnd(b) ==
  [b EXCEPT !.prior_cwnd = IF ~b.in_recovery /\ b.state # "ProbeRTT" THEN b.cwnd
                           ELSE AtLeast(b.cwnd, @)]
RestoreCwnd(b) == [b EXCEPT !.cwnd = AtLeast(@, b.prior_cwnd)]
StartRound(b) == [b EXCEPT !.next_round = b.r.delivered]
EnterRecovery(b, now) ==
  StartRound([SaveCwnd(b) EXCEPT !.epoch = now, !.cwnd = b.in_flight + AtLeast(b.ack.acked, Mtu),
                                 !.conserve = TRUE, !.in_recovery = TRUE])
ExitRecovery(b) ==
  RestoreCwnd([b EXCEPT !.epoch = Never, !.conserve = FALSE, !.in_recovery = FALSE])
SentInRecovery(b, sent) == b.epoch # Never /\ sent <= b.epoch

-----------------------------------------------------------------------------
(* update_round, update_btlbw                                              *)
UpdateRound(b) ==
  IF b.ack.delivered >= b.next_round
  THEN [StartRound(b) EXCEPT !.round = @ + 1, !.round_start = TRUE, !.conserve = FALSE]
  ELSE [b EXCEPT !.round_start = FALSE]
UpdateBtlbw(b0) ==
  LET b == UpdateRound(b0)
      f == UpdateMax(b.btlbwfilter, b.round, b.r.rate, BtlbwFilterLen)
  IN IF b.r.rate >= b.btlbw \/ ~b.r.app THEN [b EXCEPT !.btlbwfilter = f, !.btlbw = Best(f)] ELSE b

(* check_cycle_phase, advance_cycle_phase, enter_probe_bw                  *)
AdvanceCycle(b, now) ==
  LET next == (b.cycle + 1) % Len(PacingGainCycle) IN
  [b EXCEPT !.cycle_stamp = now, !.cycle = next, !.pacing_gain = PacingGainCycle[next + 1]]
IsNextPhase(b, now) ==
  LET full == now - b.cycle_stamp > b.rtprop IN
  CASE b.pacing_gain > 100 ->
         full /\ (b.ack.lost_bytes > 0 \/ b.ack.prior >= Inflight(b, b.pacing_gain))
    [] b.pacing_gain < 100 -> full \/ b.ack.prior <= Inflight(b, 100)
    [] OTHER -> full
CheckCycle(b, now) ==
  IF b.state = "ProbeBW" /\ IsNextPhase(b, now) THEN AdvanceCycle(b, now) ELSE b
EnterProbeBw(b, now) ==
  AdvanceCycle([b EXCEPT !.state = "ProbeBW", !.cwnd_gain = ProbeBwCwndGain,
                         !.cycle = Len(PacingGainCycle) - 1 - b.pick], now)

(* check_full_pipe, check_drain                                            *)
CheckFullPipe(b) ==
  IF b.filled \/ ~b.round_start \/ b.r.app THEN b
  ELSE IF b.btlbw >= Percent(b.full_bw, FullBwGrowth)
  THEN [b EXCEPT !.full_bw = b.btlbw, !.full_count = 0]
  ELSE [b EXCEPT !.full_count = @ + 1, !.filled = b.full_count + 1 >= FullBwCount]
CheckDrain(b0, now) ==
  LET b == IF b0.state = "Startup" /\ b0.filled
           THEN [b0 EXCEPT !.state = "Drain", !.pacing_gain = DrainGain, !.cwnd_gain = HighGain]
           ELSE b0
  IN IF b.state = "Drain" /\ b.in_flight <= Inflight(b, 100) THEN EnterProbeBw(b, now) ELSE b

(* update_rtprop                                                           *)
UpdateRtprop(b, now) ==
  LET expired == now - b.rtprop_stamp > RtpropFilterLen IN
  IF b.r.rtt # 0 /\ (b.r.rtt <= b.rtprop \/ expired)
  THEN [b EXCEPT !.rtprop_expired = expired, !.rtprop = b.r.rtt, !.rtprop_stamp = now]
  ELSE [b EXCEPT !.rtprop_expired = expired]

(* check_probe_rtt, handle_probe_rtt, exit_probe_rtt                       *)
ExitProbeRtt(b, now) ==
  IF b.filled THEN EnterProbeBw(b, now)
  ELSE [b EXCEPT !.state = "Startup", !.pacing_gain = HighGain, !.cwnd_gain = HighGain]
HandleProbeRtt(b0, now) ==
  LET b == [b0 EXCEPT !.r = SetAppLimited(@, TRUE)]
      over == [b EXCEPT !.pr_round_done = @ \/ b.round_start]
  IN IF b.pr_done = Never
     THEN IF b.in_flight <= ProbeRttCwnd(b)
          THEN StartRound([b EXCEPT !.pr_done = now + ProbeRttDuration, !.pr_round_done = FALSE])
          ELSE b
     ELSE IF over.pr_round_done /\ now >= b.pr_done
     THEN ExitProbeRtt(RestoreCwnd([over EXCEPT !.rtprop_stamp = now]), now)
     ELSE over
CheckProbeRtt(b, now) ==
  LET e == IF b.state # "ProbeRTT" /\ b.rtprop_expired /\ ~b.idle_restart
           THEN [SaveCwnd([b EXCEPT !.state = "ProbeRTT", !.pacing_gain = 100, !.cwnd_gain = 100])
                   EXCEPT !.pr_done = Never]
           ELSE b
  IN [IF e.state = "ProbeRTT" THEN HandleProbeRtt(e, now) ELSE e EXCEPT !.idle_restart = FALSE]

(* update_model_and_state                                                  *)
UpdateModel(b, now) ==
  LET cycled == CheckCycle(UpdateBtlbw(b), now) IN
  CheckProbeRtt(UpdateRtprop(CheckDrain(CheckFullPipe(cycled), now), now), now)

-----------------------------------------------------------------------------
(* set_pacing_rate, set_send_quantum                                       *)
SetPacing(b, gain) ==
  LET rate == Percent(b.btlbw, gain) IN
  IF b.filled \/ rate > b.pacing_rate THEN [b EXCEPT !.pacing_rate = rate] ELSE b
SetQuantum(b) ==
  [b EXCEPT !.send_quantum =
     AtLeast(b.pacing_rate \div 1000, IF b.pacing_rate < QuantumRate THEN Mtu ELSE 2 * Mtu)]

(* set_cwnd                                                                *)
Modulated(b) ==
  LET cut == IF b.ack.lost_bytes > 0 THEN AtLeast(Minus(b.cwnd, b.ack.lost_bytes), MinCwnd) ELSE b.cwnd
  IN [b EXCEPT !.cwnd = IF b.conserve THEN AtLeast(cut, b.in_flight + b.ack.acked) ELSE cut]
Grown(b) ==
  LET grown == CASE b.filled -> AtMost(b.target_cwnd, b.cwnd + b.ack.acked)
                 [] ~b.filled /\ (b.cwnd < b.target_cwnd \/ b.r.delivered < InitialCwnd) ->
                      b.cwnd + b.ack.acked
                 [] OTHER -> b.cwnd
  IN IF b.conserve THEN b ELSE [b EXCEPT !.cwnd = AtLeast(grown, MinCwnd)]
SetCwnd(b0) ==
  LET b == Grown(Modulated([b0 EXCEPT !.target_cwnd = Inflight(b0, b0.cwnd_gain)])) IN
  IF b.state = "ProbeRTT" THEN [b EXCEPT !.cwnd = ProbeRttCwnd(b)] ELSE b

-----------------------------------------------------------------------------
(* on_sent, with handle_restart_from_idle                                  *)
RestartFromIdle(b) ==
  LET idle == [b EXCEPT !.idle_restart = TRUE] IN
  IF b.in_flight # 0 \/ ~IsAppLimited(b.r) THEN b
  ELSE IF b.state = "ProbeBW" THEN SetPacing(idle, 100) ELSE idle
BbrSent(b, p) ==
  [RestartFromIdle([b EXCEPT !.r = RateSent(@, p, b.in_flight)]) EXCEPT !.in_flight = @ + p.size]

BbrBegin(b, now) == [b EXCEPT !.ack = AckStateNew(now, b.in_flight)]
BbrAck(b, p, now) ==
  [b EXCEPT !.r = RateAcked(@, p, now), !.in_flight = Minus(@, p.size),
            !.ack.acked = @ + p.size, !.ack.sent = p.sent,
            !.ack.delivered = AtLeast(@, p.delivered)]
BbrEnd(b0) ==
  LET s == [b0 EXCEPT !.r = RateSample(@)]
      b == IF s.in_recovery /\ ~SentInRecovery(s, s.ack.sent) THEN ExitRecovery(s) ELSE s
      m == UpdateModel(b, b.ack.now)
  IN SetCwnd(SetQuantum(SetPacing(m, m.pacing_gain)))

(* on_congestion_event; recovery never reports persistent congestion.      *)
BbrCongestion(b0, p, bytes, now) ==
  LET b == [b0 EXCEPT !.in_flight = Minus(@, bytes), !.lost_total = @ + bytes,
                      !.ack.lost_bytes = @ + bytes]
  IN IF ~b.in_recovery /\ ~SentInRecovery(b, p.sent) THEN EnterRecovery(b, now) ELSE b

BbrWindow(b) == AtLeast(b.cwnd, MinCwnd)
=============================================================================
