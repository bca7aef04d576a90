------------------------------- MODULE TqRate --------------------------------
(***************************************************************************)
(* What tquic's congestion controllers share: the delivery rate estimator, *)
(* the windowed minimum and maximum of MinMax, and the pacer.  Time is in  *)
(* ticks, a rate in bytes for Scale ticks; a fraction is a number of       *)
(* hundredths; Inf stands for u64::MAX and Duration::MAX.                  *)
(***************************************************************************)
EXTENDS Integers, Sequences, FiniteSetsExt, SequencesExt

CONSTANTS
  Scale,        \* ticks in a second
  Mtu,          \* max_datagram_size
  MinCwnd, InitialCwnd, InitialRtt

ASSUME RateAssumption ==
  /\ {Scale, Mtu, MinCwnd, InitialCwnd, InitialRtt} \subseteq Nat \ {0}
  /\ MinCwnd <= InitialCwnd

Inf == 1000000000
Never == -1
AtLeast(a, b) == IF a > b THEN a ELSE b
AtMost(a, b) == IF a < b THEN a ELSE b
Minus(a, b) == AtLeast(0, a - b)
Percent(x, g) == (x * g) \div 100
Clamp(x, low, high) == AtMost(AtLeast(x, low), high)

-----------------------------------------------------------------------------
(* DeliveryRateEstimator                                                   *)
RateNew ==
  [delivered |-> 0, delivered_time |-> 0, first_sent |-> 0, app_pn |-> 0, largest |-> 0,
   last_sent |-> 0, rate |-> 0, app |-> FALSE, sampled |-> 0, prior |-> 0, prior_time |-> Never,
   send_elapsed |-> 0, ack_elapsed |-> 0, rtt |-> 0]

Time == Nat \cup {Never}
RateType ==
  [delivered : Nat, delivered_time : Nat, first_sent : Nat, app_pn : Nat, largest : Nat,
   last_sent : Nat, rate : Nat, app : BOOLEAN, sampled : Nat, prior : Nat, prior_time : Time,
   send_elapsed : Nat, ack_elapsed : Nat, rtt : Nat]

IsAppLimited(r) == r.app_pn # 0
SetAppLimited(r, limited) ==
  [r EXCEPT !.app_pn = IF limited THEN AtLeast(r.last_sent, 1) ELSE 0]

(* on_packet_sent: the estimator, and the state kept with the packet       *)
RateSent(r, p, in_flight) ==
  [r EXCEPT !.first_sent = IF in_flight = 0 THEN p.sent ELSE @,
            !.delivered_time = IF in_flight = 0 THEN p.sent ELSE @,
            !.last_sent = p.pn]
Stamp(r, p, in_flight, lost) ==
  LET s == RateSent(r, p, in_flight) IN
  [p EXCEPT !.first = s.first_sent, !.time = s.delivered_time, !.delivered = r.delivered,
            !.app = IsAppLimited(r), !.tx = in_flight, !.lost = lost]

(* update_rate_sample, of a packet acknowledged now; one that on_sent never*)
(* saw changes nothing                                                     *)
RateAcked(r, p, now) ==
  LET newer == r.prior_time = Never \/ p.delivered > r.prior
      d == r.delivered + p.size
      prior == IF newer THEN p.delivered ELSE r.prior
  IN IF p.time = Never THEN r ELSE
     [r EXCEPT !.delivered = d, !.delivered_time = now, !.prior = prior,
               !.prior_time = IF newer THEN p.time ELSE @,
               !.app = IF newer THEN p.app ELSE @,
               !.first_sent = IF newer THEN p.sent ELSE @,
               !.send_elapsed = Minus(p.sent, p.first), !.ack_elapsed = now - p.time,
               !.rtt = now - p.sent, !.sampled = Minus(d, prior),
               !.largest = AtLeast(@, p.pn)]

(* generate_rate_sample                                                    *)
RateSample(r0) ==
  LET r == IF IsAppLimited(r0) /\ r0.largest > r0.app_pn THEN SetAppLimited(r0, FALSE) ELSE r0
      interval == AtLeast(r.send_elapsed, r.ack_elapsed)
      s == [r EXCEPT !.sampled = Minus(r.delivered, r.prior)]
  IN IF r.prior_time = Never THEN r
     ELSE IF interval = 0 THEN s
     ELSE [s EXCEPT !.rate = (s.sampled * Scale) \div interval]

-----------------------------------------------------------------------------
(* MinMax: three samples, the best first                                   *)
MinMaxNew == [i \in 1..3 |-> [t |-> 0, v |-> 0]]
MinMaxType == [1..3 -> [t : Nat, v : Nat]]
Subwin(m, s, window) ==
  LET dt == Minus(s.t, m[1].t)
      shift(n) == <<n[2], n[3], s>>
  IN CASE dt > window ->
            IF Minus(s.t, m[2].t) > window THEN shift(shift(m)) ELSE shift(m)
       [] dt <= window /\ m[2].t = m[1].t /\ dt > window \div 4 -> <<m[1], s, s>>
       [] dt <= window /\ m[2].t # m[1].t /\ m[3].t = m[2].t /\ dt > window \div 2 ->
            <<m[1], m[2], s>>
       [] OTHER -> m
UpdateBest(m, t, v, window, Better(_, _)) ==
  LET s == [t |-> t, v |-> v]
      kept == IF Better(v, m[2].v) THEN <<m[1], s, s>>
              ELSE IF Better(v, m[3].v) THEN <<m[1], m[2], s>> ELSE m
  IN IF t < m[3].t THEN m
     ELSE IF m[1].v = 0 \/ Better(v, m[1].v) \/ t - m[3].t > window THEN <<s, s, s>>
     ELSE Subwin(kept, s, window)
UpdateMax(m, t, v, window) == UpdateBest(m, t, v, window, LAMBDA a, b : a >= b)
UpdateMin(m, t, v, window) == UpdateBest(m, t, v, window, LAMBDA a, b : a <= b)
Best(m) == m[1].v

-----------------------------------------------------------------------------
(* Pacer: capacity is the burst it lets through; schedule returns the      *)
(* pacer and the time to wait for, or Never.                               *)
CONSTANTS PaceGranularity, MinBurst, MaxBurst

Burst(cwnd, srtt) ==
  Clamp((cwnd * PaceGranularity) \div AtLeast(srtt, 1), MinBurst * Mtu, MaxBurst * Mtu)
PacerNew(srtt, cwnd) ==
  [capacity |-> Burst(cwnd, srtt), tokens |-> Burst(cwnd, srtt), cwnd |-> cwnd, at |-> 0]
PacerSent(q, n) == [q EXCEPT !.tokens = Minus(@, n)]
Resized(q, srtt, cwnd) ==
  IF cwnd = q.cwnd THEN q
  ELSE [q EXCEPT !.capacity = Burst(cwnd, srtt), !.cwnd = cwnd,
                 !.tokens = AtMost(Burst(cwnd, srtt), @)]
(* Mutant: the time that passed brings no tokens. *)
RefilledNever(q, rate, now) == [q EXCEPT !.tokens = AtMost(@, q.capacity), !.at = now]
Refilled(q, rate, now) ==
  [q EXCEPT !.tokens = AtMost(@ + (rate * (now - q.at)) \div Scale, q.capacity), !.at = now]
Schedule(q0, n, rate, srtt, cwnd, now) ==
  LET q == Resized(q0, srtt, cwnd)
      r == Refilled(q, rate, now)
      wait == (Minus(n, r.tokens) * Scale + rate - 1) \div AtLeast(rate, 1)
  IN IF srtt = 0 \/ cwnd = 0 \/ rate = 0 THEN [q |-> q0, at |-> Never]
     ELSE IF q.tokens >= n THEN [q |-> q, at |-> Never]
     ELSE IF n <= r.tokens THEN [q |-> r, at |-> Never]
     ELSE [q |-> r, at |-> now + wait]
=============================================================================
