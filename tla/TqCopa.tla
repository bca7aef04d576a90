-------------------------------- MODULE TqCopa -------------------------------
(***************************************************************************)
(* tquic's COPA (congestion_control/copa.rs).  The window follows the      *)
(* sign of target_rate - current_rate; delta is in hundredths.             *)
(***************************************************************************)
EXTENDS TqRate

CONSTANTS
  SlowStartDelta, SteadyDelta, UseStandingRtt,
  CopaMinRttWindow,       \* MIN_RTT_FILTER_WINDOW
  CopaMaxVelocity         \* bound: the velocity doubles without limit in the code

SpeedUpThreshold == 3
PacingGain == 2
LossRateThreshold == 10   \* hundredths

AckStateNew(now) == [now |-> now, acked |-> 0, largest |-> 0, min_rtt |-> 0, srtt |-> 0]

CopaNew ==
  [competitive |-> FALSE, slow_start |-> TRUE, cwnd |-> InitialCwnd,
   up |-> TRUE, velocity |-> 1, last_cwnd |-> 0, same |-> 0, delta |-> SlowStartDelta,
   standing |-> MinMaxNew, min_rtt |-> MinMaxNew, ack |-> AckStateNew(0), increase |-> FALSE,
   target_rate |-> 0, last_sent |-> 0, round_start |-> FALSE, round_end |-> 0,
   round_acked |-> 0, round_lost |-> 0, loss_rate |-> 0,
   in_flight |-> 0, acked_total |-> 0, lost_total |-> 0]

(* get_standing_rtt, pacing_rate                                           *)
StandingRtt(c) == IF Best(c.standing) = 0 THEN AtLeast(InitialRtt, 1) ELSE Best(c.standing)
CurrentRate(c) == (c.cwnd * Scale) \div StandingRtt(c)
CopaPacing(c) == PacingGain * CurrentRate(c)

(* update_velocity                                                         *)
UpdateVelocity(c) ==
  LET up == c.cwnd > c.last_cwnd
      turned == IF up # c.up THEN [c EXCEPT !.velocity = 1, !.same = 0]
                ELSE [c EXCEPT !.same = AtMost(@ + 1, SpeedUpThreshold),
                               !.velocity = IF c.same + 1 >= SpeedUpThreshold
                                            THEN AtMost(2 * @, CopaMaxVelocity) ELSE @]
      against == c.increase # c.up /\ turned.velocity > 1
  IN CASE c.slow_start /\ c.increase -> c
       [] ~(c.slow_start /\ c.increase) /\ c.last_cwnd = 0 ->
            [c EXCEPT !.last_cwnd = AtLeast(c.cwnd, MinCwnd), !.velocity = 1, !.same = 0]
       [] ~(c.slow_start /\ c.increase) /\ c.last_cwnd # 0 /\ c.round_start ->
            [turned EXCEPT !.velocity = IF against THEN 1 ELSE @, !.up = up, !.last_cwnd = c.cwnd]
       [] OTHER -> c

(* update_mode                                                             *)
UpdateMode(c) ==
  LET competitive == c.loss_rate >= LossRateThreshold IN
  [c EXCEPT !.competitive = competitive,
            !.delta = IF competitive THEN AtMost(2 * @, 50)
                      ELSE IF c.slow_start THEN SlowStartDelta ELSE SteadyDelta]

(* update_cwnd                                                             *)
UpdateCwnd(c0) ==
  LET c == [c0 EXCEPT !.slow_start = @ /\ c0.increase]
      step == (100 * c.velocity * c.ack.acked * Mtu) \div (c.delta * c.cwnd)
      moved == IF c.increase THEN c.cwnd + step ELSE Minus(c.cwnd, step)
  IN IF c.slow_start THEN [c EXCEPT !.cwnd = @ + c.ack.acked]
     ELSE IF moved = 0 THEN [c EXCEPT !.cwnd = MinCwnd, !.velocity = 1]
     ELSE [c EXCEPT !.cwnd = moved]

(* update_round                                                            *)
UpdateRound(c) ==
  LET lost == c.lost_total - c.round_lost
      acked == c.acked_total - c.round_acked
  IN IF c.ack.largest >= c.round_end
     THEN [c EXCEPT !.loss_rate = (100 * lost) \div AtLeast(lost + acked, 1), !.round_start = TRUE,
                    !.round_acked = c.acked_total, !.round_lost = c.lost_total,
                    !.round_end = c.last_sent]
     ELSE [c EXCEPT !.round_start = FALSE]

(* update_model                                                            *)
UpdateModel(c0) ==
  LET rtt == IF c0.ack.min_rtt # 0 THEN c0.ack.min_rtt
             ELSE IF c0.ack.srtt = 0 THEN InitialRtt ELSE c0.ack.srtt
      window == IF UseStandingRtt THEN c0.ack.srtt ELSE c0.ack.srtt \div 2
      c == UpdateMode([c0 EXCEPT !.ack.min_rtt = rtt,
                         !.min_rtt = UpdateMin(@, c0.ack.now, rtt, CopaMinRttWindow),
                         !.standing = UpdateMin(@, c0.ack.now, rtt, window)])
      queueing == Minus(StandingRtt(c), Best(c.min_rtt))
      target == IF queueing = 0 THEN CurrentRate(c) ELSE (100 * Mtu * Scale) \div (c.delta * queueing)
  IN UpdateCwnd(UpdateVelocity([c EXCEPT !.target_rate = target,
                                         !.increase = queueing = 0 \/ target >= CurrentRate(c)]))

-----------------------------------------------------------------------------
CopaSent(c, p, in_flight) == [c EXCEPT !.in_flight = in_flight, !.last_sent = p.pn]
CopaBegin(c, now) == [c EXCEPT !.ack = AckStateNew(now)]
CopaAck(c, p, srtt, latest) ==
  [c EXCEPT !.in_flight = Minus(@, p.size), !.acked_total = @ + p.size, !.ack.acked = @ + p.size,
            !.ack.largest = AtLeast(@, p.pn), !.ack.srtt = srtt,
            !.ack.min_rtt = IF @ = 0 \/ @ >= latest THEN latest ELSE @]
CopaEnd(c) == UpdateModel(UpdateRound(c))
CopaCongestion(c, bytes, in_flight) ==
  [c EXCEPT !.lost_total = @ + bytes, !.in_flight = in_flight]

CopaWindow(c) == AtLeast(c.cwnd, MinCwnd)
=============================================================================
