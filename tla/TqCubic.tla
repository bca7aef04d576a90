------------------------------- MODULE TqCubic -------------------------------
(***************************************************************************)
(* tquic's CUBIC (congestion_control/cubic.rs) with HyStart++, which       *)
(* decides how slow start grows and when it ends.  Windows are in bytes;   *)
(* the curve is evaluated in whole ticks and bytes.                        *)
(***************************************************************************)
EXTENDS TqRate

CONSTANTS
  SlowStartThresh,        \* the configured slow_start_thresh
  FastConvergence,        \* fast_convergence_enabled
  HystartEnabled,
  MinRttThresh, MaxRttThresh, RttSamples, CssRounds

Beta == 70
Alpha == 53               \* 3 (1 - beta) / (1 + beta), in hundredths
CurveC == 40              \* C, in hundredths
MinRttDivisor == 8
CssGrowthDivisor == 4
HystartL == 64

-----------------------------------------------------------------------------
(* HystartPlusPlus                                                         *)
HystartNew ==
  [phase |-> "Standard", last_min |-> Inf, min |-> Inf, count |-> 0, sent |-> 0, acked |-> 0,
   end |-> 0, css |-> 0, baseline |-> Inf]
Exited(h) == h.phase = "Exited"
HystartSent(h, pn) == [h EXCEPT !.sent = pn]
RttThresh(h) == Clamp(h.last_min \div MinRttDivisor, MinRttThresh, MaxRttThresh)
HystartAck(h0, pn, rtt) ==
  LET h == [h0 EXCEPT !.acked = AtLeast(@, pn), !.min = AtMost(@, rtt), !.count = @ + 1]
      sampled == h.count >= RttSamples
  IN CASE ~HystartEnabled /\ ~Exited(h0) -> h0
       [] h.phase = "Standard" /\ sampled /\ h.last_min # Inf /\ h.min >= h.last_min + RttThresh(h) ->
            [h EXCEPT !.phase = "Conservative", !.baseline = h.min]
       [] h.phase = "Conservative" /\ sampled /\ h.min < h.baseline ->
            [h EXCEPT !.phase = "Standard", !.baseline = Inf, !.css = 0]
       [] OTHER -> h
HystartEnd(h) ==
  LET r == [h EXCEPT !.end = h.sent, !.last_min = h.min, !.min = Inf, !.count = 0] IN
  CASE (~HystartEnabled /\ ~Exited(h)) \/ h.acked <= h.end -> h
    [] h.phase = "Conservative" /\ h.css + 1 >= CssRounds -> [r EXCEPT !.css = 0, !.phase = "Exited"]
    [] h.phase = "Conservative" /\ h.css + 1 < CssRounds -> [r EXCEPT !.css = @ + 1]
    [] OTHER -> r
HystartCongestion(h) == IF HystartEnabled THEN [h EXCEPT !.end = 0, !.phase = "Exited"] ELSE h
CwndIncrement(h, acked) ==
  CASE h.phase = "Standard" -> AtMost(acked, HystartL * Mtu)
    [] h.phase = "Conservative" -> AtMost(acked \div CssGrowthDivisor, HystartL * Mtu)
    [] OTHER -> 0

-----------------------------------------------------------------------------
(* Cubic: new                                                              *)
CubicNew ==
  [h |-> HystartNew, cwnd |-> InitialCwnd, ssthresh |-> SlowStartThresh, w_max |-> 0, k |-> 0,
   alpha |-> Alpha, w_est |-> 0, inc |-> 0, epoch |-> Never, last_sent |-> Never,
   pacing_rate |-> (InitialCwnd * Scale) \div AtLeast(InitialRtt, 1)]

(* w_cubic, w_est, cubic_k                                                 *)
Cube(t) == (CurveC * Mtu * (((t * t) \div Scale) * t)) \div (100 * Scale * Scale)
WCubic(c, t) == Cube(t - c.k) + c.w_max
WEst(c, acked) == c.w_est + (c.alpha * acked * Mtu) \div (100 * c.cwnd)
CubicK(w_max, cwnd) ==
  IF w_max <= cwnd THEN 0
  ELSE CHOOSE k \in 1..20 * Scale : Cube(k) >= w_max - cwnd /\ Cube(k - 1) < w_max - cwnd

InSlowStart(c) == c.cwnd < c.ssthresh
SentInRecovery(c, sent) == c.epoch # Never /\ sent <= c.epoch

(* on_sent, of a packet sent with in_flight bytes outstanding              *)
CubicSent(c, p, in_flight) ==
  [c EXCEPT !.epoch = IF in_flight = 0 /\ c.last_sent # Never /\ @ # Never
                      THEN @ + (p.sent - c.last_sent) ELSE @,
            !.last_sent = p.sent, !.h = HystartSent(@, p.pn)]

(* on_ack                                                                  *)
Avoidance(c0, p, srtt, now) ==
  LET c1 == IF c0.epoch # Never THEN c0
            ELSE [c0 EXCEPT !.epoch = now, !.w_max = c0.cwnd, !.k = 0, !.w_est = c0.cwnd,
                            !.alpha = Alpha]
      since == Minus(now, c1.epoch)
      target == Clamp(WCubic(c1, since + srtt), c1.cwnd, (3 * c1.cwnd) \div 2)
      c2 == [c1 EXCEPT !.w_est = WEst(c1, p.size)]
      c == IF c2.w_est >= c2.w_max THEN [c2 EXCEPT !.alpha = 100] ELSE c2
      grown == IF WCubic(c, since) < c.w_est THEN AtLeast(c.cwnd, c.w_est)
               ELSE c.cwnd + ((target - c.cwnd) * Mtu) \div c.cwnd
      inc == c.inc + grown - c.cwnd
  IN [c EXCEPT !.cwnd = @ + (inc \div Mtu) * Mtu, !.inc = inc % Mtu]
CubicAck(c0, p, srtt, latest, now) ==
  LET c == IF InSlowStart(c0)
           THEN [c0 EXCEPT !.cwnd = @ + CwndIncrement(c0.h, p.size), !.h = HystartAck(@, p.pn, latest)]
           ELSE Avoidance(c0, p, srtt, now)
  IN IF SentInRecovery(c0, p.sent) \/ srtt = 0 THEN c0
     ELSE [c EXCEPT !.pacing_rate = (c.cwnd * Scale) \div srtt]
CubicEnd(c) ==
  LET h == HystartEnd(c.h) IN
  IF Exited(c.h) THEN c
  ELSE [c EXCEPT !.h = h, !.ssthresh = IF Exited(h) THEN c.cwnd ELSE @]

(* on_congestion_event; recovery never reports persistent congestion.      *)
CubicCongestion(c, p, now) ==
  LET w_max == CASE ~FastConvergence -> c.w_max
                 [] FastConvergence /\ c.cwnd < c.w_max -> (c.cwnd * (100 + Beta)) \div 200
                 [] OTHER -> c.cwnd
      cwnd == AtLeast(Percent(c.cwnd, Beta), 2 * Mtu)
  IN IF SentInRecovery(c, p.sent) THEN c
     ELSE [c EXCEPT !.epoch = now, !.w_max = w_max, !.ssthresh = cwnd, !.cwnd = cwnd,
                    !.k = CubicK(w_max, cwnd), !.inc = Percent(@, Beta), !.w_est = cwnd,
                    !.alpha = Alpha, !.h = HystartCongestion(@)]

CubicWindow(c) == AtLeast(c.cwnd, MinCwnd)
=============================================================================
