------------------------------- MODULE TqBbr3 --------------------------------
(***************************************************************************)
(* tquic's BBRv3 (congestion_control/bbr3.rs) as a record b: begin_ack,    *)
(* on_ack, on_congestion_event and end_ack in the order in which recovery  *)
(* calls them.  b.pick holds the random numbers that the next phase that   *)
(* starts will draw.                                                       *)
(***************************************************************************)
EXTENDS TqRate

CONSTANTS
  ProbeRttInterval, ProbeRttDuration, MinRttFilterLen,
  ProbeMaxRounds,        \* PROBE_BW_MAX_ROUNDS
  QuantumRate,           \* SEND_QUANTUM_THRESHOLD_PACING_RATE
  ExtraAckedLen          \* EXTRA_ACKED_FILTER_LEN

LossThresh == 2
FullLossCount == 6
Beta == 70
Headroom == 85
FullBwCount == 3
FullBwGrowth == 125
Margin == 99

ProbeBw == {"Down", "Cruise", "Refill", "Up"}
InProbeBw(b) == b.state \in ProbeBw

(* update_gains                                                            *)
Gains ==
  [Startup |-> <<277, 200>>, Drain |-> <<50, 200>>, Down |-> <<90, 200>>, Cruise |-> <<100, 200>>,
   Refill |-> <<100, 200>>, Up |-> <<125, 225>>, ProbeRTT |-> <<100, 50>>]
UpdateGains(b) == [b EXCEPT !.pacing_gain = Gains[b.state][1], !.cwnd_gain = Gains[b.state][2]]

AckStateNew(now) == [now |-> now, lost_bytes |-> 0, acked |-> 0, delivered |-> 0, sent |-> now,
                     tx |-> 0, lost |-> 0]

(* new and init                                                            *)
Bbr3New ==
  UpdateGains(
    [state |-> "Startup", cwnd |-> InitialCwnd, pacing_gain |-> 277, cwnd_gain |-> 200,
     pacing_rate |-> (277 * InitialCwnd * Scale) \div (100 * InitialRtt),
     send_quantum |-> 0, conserve |-> FALSE, idle_restart |-> FALSE,
     round |-> 0, round_start |-> FALSE, next_round |-> 0,
     max_bw |-> 0, bw_hi |-> Inf, bw_lo |-> Inf, bw |-> 0, filter |-> <<0, 0>>,
     min_rtt |-> AtLeast(InitialRtt, 1), min_rtt_stamp |-> 0, bdp |-> 0, max_inflight |-> 0,
     inflight_hi |-> Inf, inflight_lo |-> Inf, bw_latest |-> 0, inflight_latest |-> 0,
     cycle_stamp |-> 0, ack_phase |-> "Init",
     ea_start |-> 0, ea_delivered |-> 0, ea_filter |-> MinMaxNew,
     filled |-> FALSE, full_bw |-> 0, full_count |-> 0,
     pr_delay |-> Inf, pr_stamp |-> 0, pr_expired |-> FALSE, pr_done |-> Never,
     pr_round_done |-> FALSE, r |-> RateNew, ack |-> AckStateNew(0),
     rounds_since |-> 0, wait |-> Inf, up_cnt |-> 0, up_acks |-> 0, up_rounds |-> 0,
     samples |-> FALSE, loss_round_start |-> FALSE, loss_in_round |-> FALSE, prior_cwnd |-> 0,
     in_recovery |-> FALSE, loss_round |-> 0, loss_events |-> 0, epoch |-> 0,
     in_flight |-> 0, lost_total |-> 0, pick |-> [rounds |-> 0, wait |-> 0]])

(* What each field holds: no u64 falls below zero, and gains are the ones  *)
(* of some state.                                                          *)
Bbr3Type ==
  [state : DOMAIN Gains, cwnd : Nat, pacing_gain : {Gains[s][1] : s \in DOMAIN Gains},
   cwnd_gain : {Gains[s][2] : s \in DOMAIN Gains}, pacing_rate : Nat, send_quantum : Nat,
   conserve : BOOLEAN, idle_restart : BOOLEAN, round : Nat, round_start : BOOLEAN, next_round : Nat,
   max_bw : Nat, bw_hi : Nat, bw_lo : Nat, bw : Nat, filter : Nat \X Nat,
   min_rtt : Nat \ {0}, min_rtt_stamp : Nat, bdp : Nat, max_inflight : Nat,
   inflight_hi : Nat, inflight_lo : Nat, bw_latest : Nat, inflight_latest : Nat, cycle_stamp : Nat,
   ack_phase : {"Init", "Stopping", "Refilling", "Starting", "Feedback"},
   ea_start : Nat, ea_delivered : Nat, ea_filter : MinMaxType,
   filled : BOOLEAN, full_bw : Nat, full_count : 0..FullBwCount,
   pr_delay : Nat, pr_stamp : Nat, pr_expired : BOOLEAN, pr_done : Time, pr_round_done : BOOLEAN,
   r : RateType, ack : [DOMAIN AckStateNew(0) -> Nat], rounds_since : Nat, wait : Nat,
   up_cnt : Nat, up_acks : Nat, up_rounds : 0..30, samples : BOOLEAN,
   loss_round_start : BOOLEAN, loss_in_round : BOOLEAN, prior_cwnd : Nat, in_recovery : BOOLEAN,
   loss_round : Nat, loss_events : Nat, epoch : Time, in_flight : Nat, lost_total : Nat,
   pick : [rounds : Nat, wait : Nat]]

-----------------------------------------------------------------------------
(* bdp_multiple and inflight; the first leaves its result in bdp.          *)
BdpOf(b, bw) == (bw * b.min_rtt) \div Scale
WithBdp(b, bw) == [b EXCEPT !.bdp = BdpOf(b, bw)]
BdpMultiple(b, bw, gain) == (gain * bw * b.min_rtt) \div (100 * Scale)
QuantizationBudget(b, inflight) ==
  AtLeast(AtLeast(inflight, 3 * b.send_quantum), MinCwnd) + (IF b.state = "Up" THEN 2 * Mtu ELSE 0)
Inflight(b, gain) == QuantizationBudget(b, BdpMultiple(b, b.max_bw, gain))
InflightWithHeadroom(b) ==
  IF b.inflight_hi = Inf THEN Inf
  ELSE AtLeast(Minus(b.inflight_hi, AtLeast(Percent(b.inflight_hi, Headroom), 1)), MinCwnd)
ProbeRttCwnd(b) == AtLeast(BdpMultiple(b, b.bw, b.cwnd_gain), MinCwnd)
TargetInflight(b) == AtMost(b.bdp, b.cwnd)

(* save_cwnd, restore_cwnd, enter_recovery, exit_recovery                  *)
SaveCwnd(b) ==
  [b EXCEPT !.prior_cwnd = IF ~b.in_recovery /\ b.state # "ProbeRTT" THEN b.cwnd
                           ELSE AtLeast(b.cwnd, @)]
RestoreCwnd(b) == [b EXCEPT !.cwnd = AtLeast(@, b.prior_cwnd)]
StartRound(b) == [b EXCEPT !.next_round = b.r.delivered]
EnterRecovery(b, now) ==
  StartRound([SaveCwnd(b) EXCEPT !.epoch = now, !.cwnd = b.in_flight + AtLeast(b.ack.acked, Mtu),
                                 !.conserve = TRUE, !.in_recovery = TRUE])
ExitRecovery(b) ==
  RestoreCwnd([b EXCEPT !.epoch = Never, !.conserve = FALSE, !.in_recovery = FALSE])
SentInRecovery(b, sent) == b.epoch # Never /\ sent <= b.epoch

(* reset_congestion_signals, reset_lower_bounds                            *)
ResetSignals(b) == [b EXCEPT !.loss_in_round = FALSE, !.bw_latest = 0, !.inflight_latest = 0]
ResetLowerBounds(b) == [b EXCEPT !.bw_lo = Inf, !.inflight_lo = Inf]

-----------------------------------------------------------------------------
(* The phases of ProbeBW                                                   *)
StartDown(b, now) ==
  StartRound([ResetSignals(b) EXCEPT !.up_cnt = Inf, !.rounds_since = b.pick.rounds,
    !.wait = b.pick.wait, !.cycle_stamp = now, !.ack_phase = "Stopping", !.state = "Down"])
StartCruise(b) == [b EXCEPT !.state = "Cruise"]
StartRefill(b) ==
  StartRound([ResetLowerBounds(b) EXCEPT !.up_rounds = 0, !.up_acks = 0,
    !.ack_phase = "Refilling", !.state = "Refill"])
RaiseSlope(b) ==
  [b EXCEPT !.up_rounds = AtMost(@ + 1, 30), !.up_cnt = AtLeast(b.cwnd \div 2^b.up_rounds, 1)]
StartUp(b, now) ==
  RaiseSlope(StartRound([b EXCEPT !.ack_phase = "Starting", !.full_bw = b.r.rate,
    !.cycle_stamp = now, !.state = "Up"]))
Elapsed(b, now, interval) == now > b.cycle_stamp + interval
RenoProbeTime(b) == b.rounds_since >= AtMost(TargetInflight(b), ProbeMaxRounds)
TimeToProbe(b, now) == Elapsed(b, now, b.wait) \/ RenoProbeTime(b)

(* is_inflight_too_high, handle_inflight_too_high                          *)
TooHigh(b) == b.ack.lost > Percent(b.ack.tx, LossThresh)
HandleTooHigh(b, now) ==
  LET cut == [b EXCEPT !.samples = FALSE,
                       !.inflight_hi = IF IsAppLimited(b.r) THEN @
                                       ELSE AtLeast(Percent(TargetInflight(b), Beta), b.ack.tx)]
  IN IF b.state = "Up" THEN StartDown(cut, now) ELSE cut

(* probe_inflight_hi_upward                                                *)
ProbeUpward(b) ==
  LET acks == b.up_acks + b.ack.acked
      delta == acks \div b.up_cnt
      grown == IF acks < b.up_cnt THEN [b EXCEPT !.up_acks = acks]
               ELSE [b EXCEPT !.up_acks = acks - delta * b.up_cnt,
                              !.inflight_hi = AtMost(@ + delta * Mtu, Inf)]
  IN IF b.cwnd < b.inflight_hi THEN b
     ELSE IF b.round_start THEN RaiseSlope(grown) ELSE grown

(* advance_max_bw_filter                                                   *)
AdvanceFilter(b) == IF b.filter[2] = 0 THEN b ELSE [b EXCEPT !.filter = <<b.filter[2], 0>>]

(* adapt_upper_bounds                                                      *)
AckPhase(b) ==
  CASE b.ack_phase = "Starting" /\ b.round_start -> [b EXCEPT !.ack_phase = "Feedback"]
    [] b.ack_phase = "Stopping" /\ b.round_start ->
         LET s == [b EXCEPT !.samples = FALSE, !.ack_phase = "Init"] IN
         IF InProbeBw(b) /\ ~IsAppLimited(b.r) THEN AdvanceFilter(s) ELSE s
    [] OTHER -> b
Raised(b) ==
  LET up == [b EXCEPT !.inflight_hi = AtLeast(@, b.ack.tx), !.bw_hi = AtLeast(@, b.r.rate)] IN
  IF b.inflight_hi = Inf THEN b ELSE IF b.state = "Up" THEN ProbeUpward(up) ELSE up
AdaptUpperBounds(b0, now) ==
  LET b == AckPhase(b0) IN
  IF ~TooHigh(b) THEN Raised(b) ELSE IF b.samples THEN HandleTooHigh(b, now) ELSE b

(* update_probe_bw_cycle_phase                                             *)
TimeToCruise(b, in_flight) == in_flight <= InflightWithHeadroom(b) /\ in_flight <= Inflight(b, 100)
CyclePhase(b0, now, in_flight) ==
  LET b == AdaptUpperBounds(b0, now)
      noted == IF in_flight > InflightWithHeadroom(b) THEN b ELSE WithBdp(b, b.max_bw)
      long == WithBdp(b, b.max_bw)
  IN CASE ~b0.filled -> b0
       [] b0.filled /\ b.state \in {"Down", "Cruise"} /\ TimeToProbe(b, now) -> StartRefill(b)
       [] b0.filled /\ b.state = "Down" /\ ~TimeToProbe(b, now) ->
            IF TimeToCruise(b, in_flight) THEN StartCruise(noted) ELSE noted
       [] b0.filled /\ b.state = "Refill" /\ b.round_start -> StartUp([b EXCEPT !.samples = TRUE], now)
       [] b0.filled /\ b.state = "Up" /\ Elapsed(b, now, b.min_rtt) ->
            IF in_flight > Inflight(b, b.pacing_gain) THEN StartDown(long, now) ELSE long
       [] OTHER -> b

-----------------------------------------------------------------------------
(* update_latest_delivery_signals, advance_latest_delivery_signals         *)
LatestSignals(b) ==
  LET new == b.r.prior >= b.loss_round IN
  [b EXCEPT !.loss_round_start = new, !.bw_latest = AtLeast(@, b.r.rate),
            !.inflight_latest = AtLeast(@, b.r.sampled),
            !.loss_round = IF new THEN b.r.delivered ELSE @]
AdvanceSignals(b) ==
  IF b.loss_round_start THEN [b EXCEPT !.bw_latest = b.r.rate, !.inflight_latest = b.r.sampled] ELSE b

(* update_round, update_max_bw                                             *)
UpdateRound(b) ==
  IF b.ack.delivered >= b.next_round
  THEN [StartRound(b) EXCEPT !.round = @ + 1, !.rounds_since = @ + 1, !.round_start = TRUE,
                             !.conserve = FALSE]
  ELSE [b EXCEPT !.round_start = FALSE]
UpdateMaxBw(b0) ==
  LET b == UpdateRound(b0)
      f == <<b.filter[1], AtLeast(b.r.rate, b.filter[2])>>
  IN IF b.r.rate >= b.max_bw \/ ~IsAppLimited(b.r)
     THEN [b EXCEPT !.filter = f, !.max_bw = AtLeast(f[1], f[2])] ELSE b

(* update_congestion_signals and adapt_lower_bounds_from_congestion        *)
LowerBounds(b) ==
  LET bw == IF b.bw_lo = Inf THEN b.max_bw ELSE b.bw_lo
      inflight == IF b.inflight_lo = Inf THEN b.cwnd ELSE b.inflight_lo
  IN IF b.state \in {"Startup", "Refill", "Up"} \/ ~b.loss_in_round THEN b
     ELSE [b EXCEPT !.bw_lo = AtLeast(b.bw_latest, Percent(bw, Beta)),
                    !.inflight_lo = AtLeast(b.inflight_latest, Percent(inflight, Beta))]
CongestionSignals(b0) ==
  LET b1 == UpdateMaxBw(b0)
      b == [b1 EXCEPT !.loss_in_round = @ \/ b1.ack.lost > 0]
  IN IF b.loss_round_start THEN [LowerBounds(b) EXCEPT !.loss_in_round = TRUE] ELSE b

(* update_ack_aggregation                                                  *)
AckAggregation(b, now) ==
  LET expected == (b.bw * (now - b.ea_start)) \div Scale
      anew == b.ea_delivered <= expected
      delivered == (IF anew THEN 0 ELSE b.ea_delivered) + b.ack.acked
      extra == AtMost(Minus(delivered, IF anew THEN 0 ELSE expected), b.cwnd)
  IN [b EXCEPT !.ea_delivered = delivered, !.ea_start = IF anew THEN now ELSE @,
               !.ea_filter = UpdateMax(@, b.round, extra, ExtraAckedLen)]

(* check_startup_full_bandwidth, check_startup_high_loss                   *)
FullBandwidth(b) ==
  IF b.filled \/ ~b.round_start \/ b.r.app THEN b
  ELSE IF b.max_bw >= Percent(b.full_bw, FullBwGrowth)
  THEN [b EXCEPT !.full_bw = b.max_bw, !.full_count = 0]
  ELSE [b EXCEPT !.full_count = @ + 1, !.filled = b.full_count + 1 >= FullBwCount]
HighLoss(b0) ==
  LET b == [b0 EXCEPT !.loss_events = IF b0.ack.lost > 0 /\ @ < 15 THEN @ + 1 ELSE @]
      high == b.loss_round_start /\ b.in_recovery /\ b.loss_events >= FullLossCount /\ TooHigh(b)
      c == IF high THEN [WithBdp(b, b.max_bw) EXCEPT !.filled = TRUE,
                           !.inflight_hi = AtLeast(Inflight(b, 100), b.inflight_latest)]
           ELSE b
  IN IF b.loss_round_start THEN [c EXCEPT !.loss_events = 0] ELSE c
CheckStartupDone(b0) ==
  LET b == HighLoss(FullBandwidth(b0)) IN
  IF b.state = "Startup" /\ b.filled THEN UpdateGains([b EXCEPT !.state = "Drain"]) ELSE b
CheckDrain(b, now, in_flight) ==
  IF b.state # "Drain" THEN b
  ELSE IF in_flight <= Inflight(b, 100) THEN StartDown(WithBdp(b, b.max_bw), now)
  ELSE WithBdp(b, b.max_bw)

-----------------------------------------------------------------------------
(* update_min_rtt                                                          *)
(* Mutant: min_rtt only falls. *)
UpdateMinRttFalls(b0, now) ==
  LET expired == now - b0.pr_stamp > ProbeRttInterval
      rtt == b0.r.rtt
      b == IF rtt # 0 /\ (rtt <= b0.pr_delay \/ expired)
           THEN [b0 EXCEPT !.pr_expired = expired, !.pr_delay = rtt, !.pr_stamp = now]
           ELSE [b0 EXCEPT !.pr_expired = expired]
  IN IF b.pr_delay < b.min_rtt
     THEN [b EXCEPT !.min_rtt = b.pr_delay, !.min_rtt_stamp = b.pr_stamp] ELSE b
UpdateMinRtt(b0, now) ==
  LET expired == now - b0.pr_stamp > ProbeRttInterval
      rtt == b0.r.rtt
      b == IF rtt # 0 /\ (rtt <= b0.pr_delay \/ expired)
           THEN [b0 EXCEPT !.pr_expired = expired, !.pr_delay = rtt, !.pr_stamp = now]
           ELSE [b0 EXCEPT !.pr_expired = expired]
  IN IF b.pr_delay < b.min_rtt \/ now - b.min_rtt_stamp > MinRttFilterLen
     THEN [b EXCEPT !.min_rtt = b.pr_delay, !.min_rtt_stamp = b.pr_stamp] ELSE b

(* check_probe_rtt, handle_probe_rtt, check_probe_rtt_done                 *)
ExitProbeRtt(b0, now) ==
  LET b == ResetLowerBounds(b0) IN
  IF b.filled THEN StartCruise(StartDown(b, now)) ELSE UpdateGains([b EXCEPT !.state = "Startup"])
ProbeRttDone(b, now) ==
  IF b.pr_done # Never /\ now > b.pr_done
  THEN ExitProbeRtt(RestoreCwnd([b EXCEPT !.pr_stamp = now]), now) ELSE b
HandleProbeRtt(b0, now, in_flight) ==
  LET b == [b0 EXCEPT !.r = SetAppLimited(@, TRUE)]
      over == [b EXCEPT !.pr_round_done = @ \/ b.round_start]
      low == WithBdp(b, b.bw)
  IN IF b.pr_done # Never THEN IF over.pr_round_done THEN ProbeRttDone(over, now) ELSE over
     ELSE IF in_flight <= ProbeRttCwnd(b)
     THEN StartRound([low EXCEPT !.pr_done = now + ProbeRttDuration, !.pr_round_done = FALSE])
     ELSE low
CheckProbeRtt(b, now, in_flight) ==
  LET enter == b.state # "ProbeRTT" /\ b.pr_expired /\ ~b.idle_restart
      e == IF enter
           THEN StartRound([SaveCwnd(UpdateGains([b EXCEPT !.state = "ProbeRTT"])) EXCEPT
                              !.pr_done = Never, !.ack_phase = "Stopping"])
           ELSE b
      h == IF e.state = "ProbeRTT" THEN HandleProbeRtt(e, now, in_flight) ELSE e
  IN [h EXCEPT !.idle_restart = @ /\ h.r.delivered = 0]

(* update_model_and_state                                                  *)
BoundBw(b) == [b EXCEPT !.bw = AtMost(AtMost(b.max_bw, b.bw_lo), b.bw_hi)]
UpdateModel(b, now, in_flight) ==
  LET signals == AckAggregation(CongestionSignals(LatestSignals(b)), now)
      drained == CheckDrain(CheckStartupDone(signals), now, in_flight)
      probed == UpdateMinRtt(CyclePhase(drained, now, in_flight), now)
  IN BoundBw(AdvanceSignals(CheckProbeRtt(probed, now, in_flight)))

-----------------------------------------------------------------------------
(* set_pacing_rate, set_send_quantum                                       *)
SetPacing(b, gain) ==
  LET rate == (gain * Margin * b.bw) \div 10000 IN
  IF b.filled \/ rate > b.pacing_rate THEN [b EXCEPT !.pacing_rate = rate] ELSE b
SetQuantum(b) ==
  [b EXCEPT !.send_quantum =
     AtLeast(b.pacing_rate \div 1000, IF b.pacing_rate < QuantumRate THEN Mtu ELSE 2 * Mtu)]

(* set_cwnd                                                                *)
MaxInflight(b) ==
  [WithBdp(b, b.max_bw) EXCEPT !.max_inflight =
     QuantizationBudget(b, BdpMultiple(b, b.max_bw, b.cwnd_gain) + Best(b.ea_filter))]
Modulated(b) ==
  LET cut == IF b.ack.lost_bytes > 0 THEN AtLeast(Minus(b.cwnd, b.ack.lost_bytes), MinCwnd) ELSE b.cwnd
  IN [b EXCEPT !.cwnd = IF b.conserve THEN AtLeast(cut, b.in_flight + b.ack.acked) ELSE cut]
Grown(b) ==
  LET grown == CASE b.filled -> AtMost(b.max_inflight, b.cwnd + b.ack.acked)
                 [] ~b.filled /\ (b.cwnd < b.max_inflight \/ b.r.delivered < InitialCwnd) ->
                      b.cwnd + b.ack.acked
                 [] OTHER -> b.cwnd
  IN IF b.conserve THEN b ELSE [b EXCEPT !.cwnd = AtLeast(grown, MinCwnd)]
BoundForProbeRtt(b) ==
  IF b.state # "ProbeRTT" THEN b
  ELSE [WithBdp(b, b.bw) EXCEPT !.cwnd = AtMost(@, ProbeRttCwnd(b))]
BoundForModel(b) ==
  LET cap == CASE b.state \in ProbeBw \ {"Cruise"} -> b.inflight_hi
               [] b.state \in {"ProbeRTT", "Cruise"} -> InflightWithHeadroom(b)
               [] OTHER -> Inf
  IN [b EXCEPT !.cwnd = AtMost(@, AtLeast(AtMost(cap, b.inflight_lo), MinCwnd))]
SetCwnd(b) == BoundForModel(BoundForProbeRtt(Grown(Modulated(MaxInflight(b)))))

-----------------------------------------------------------------------------
(* on_sent, with handle_restart_from_idle                                  *)
RestartFromIdle(b, now) ==
  LET idle == [b EXCEPT !.idle_restart = TRUE, !.ea_start = now] IN
  IF b.in_flight # 0 \/ ~IsAppLimited(b.r) THEN b
  ELSE IF InProbeBw(b) THEN SetPacing(idle, 100)
  ELSE IF b.state = "ProbeRTT" THEN ProbeRttDone(idle, now) ELSE idle
Bbr3Sent(b, p) ==
  LET sent == [b EXCEPT !.r = RateSent(@, p, b.in_flight)] IN
  [RestartFromIdle(sent, p.sent) EXCEPT !.in_flight = @ + p.size]
Bbr3Stamp(b, p) == Stamp(b.r, p, b.in_flight, b.lost_total)

Bbr3Begin(b, now) == [b EXCEPT !.ack = AckStateNew(now)]
Bbr3Ack(b, p, now) ==
  [b EXCEPT !.r = RateAcked(@, p, now), !.in_flight = Minus(@, p.size),
            !.ack.acked = @ + p.size, !.ack.sent = p.sent,
            !.ack.delivered = AtLeast(@, p.delivered)]
Bbr3End(b0) ==
  LET s == [b0 EXCEPT !.r = RateSample(@)]
      b == IF s.in_recovery /\ ~SentInRecovery(s, s.ack.sent) THEN ExitRecovery(s) ELSE s
      m == UpdateGains(UpdateModel(b, b.ack.now, b.in_flight))
  IN SetCwnd(SetQuantum(SetPacing(m, m.pacing_gain)))

(* on_congestion_event, with handle_lost_packet; recovery never reports    *)
(* persistent congestion.                                                  *)
InflightFromLost(b, p) ==
  LET prev == Minus(p.tx, p.size)
      lost == Minus(b.ack.lost, p.size)
  IN prev + AtLeast(0, (LossThresh * prev - 100 * lost) \div (100 - LossThresh))
HandleLost(b0, p, now) ==
  LET b == [b0 EXCEPT !.ack.tx = p.tx, !.ack.lost = b0.lost_total - p.lost,
                      !.r = SetAppLimited(@, p.app)]
  IN IF ~b0.samples /\ b0.state # "Startup" THEN b0
     ELSE IF TooHigh(b) THEN HandleTooHigh([b EXCEPT !.ack.tx = InflightFromLost(b, p)], now)
     ELSE b
(* Mutant: what is lost stays in flight. *)
Bbr3CongestionKept(b0, p, bytes, now) ==
  LET b == HandleLost([b0 EXCEPT !.lost_total = @ + bytes, !.ack.lost_bytes = @ + bytes], p, now)
  IN IF ~b.in_recovery /\ ~SentInRecovery(b, p.sent) THEN EnterRecovery(b, now) ELSE b
Bbr3Congestion(b0, p, bytes, now) ==
  LET b == HandleLost([b0 EXCEPT !.in_flight = Minus(@, bytes), !.lost_total = @ + bytes,
                                 !.ack.lost_bytes = @ + bytes], p, now)
  IN IF ~b.in_recovery /\ ~SentInRecovery(b, p.sent) THEN EnterRecovery(b, now) ELSE b

Bbr3Window(b) == AtLeast(b.cwnd, MinCwnd)
=============================================================================
