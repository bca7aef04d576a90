----------------------------- MODULE TqRecovery ------------------------------
(***************************************************************************)
(* tquic's loss recovery for one path: Recovery, RttEstimator and the part *)
(* of PacketNumSpace that it keeps, for the Initial, Handshake and Data    *)
(* spaces, with a clock.  The peer acknowledges, in any order and more     *)
(* than once, packets that reached it; congestion control is the constant  *)
(* Cwnd.  Frames are named by the packet that carried them first.  A queue *)
(* of sent packets, in which packet numbers ascend, is a function on the   *)
(* numbers.                                                                *)
(***************************************************************************)
EXTENDS Integers, FiniteSets, FiniteSetsExt

CONSTANTS
  Tick,             \* the step of the clock
  Granularity,      \* TIMER_GRANULARITY
  InitialRtt, MaxAckDelay, MaxPto, PtoLinearFactor,   \* of RecoveryConfig
  Cwnd,             \* the congestion window
  MaxSize,          \* the largest size of a packet
  Scenarios,        \* server or not, the packets sent and the ACKs: [server, kinds, max, delays]
  MaxTime, MaxPtoCount   \* bounds of the model

VARIABLES
  scn,              \* the scenario
  now, rec, spaces,
  hs,               \* the handshake: its stage and flags of the connection
  reached,          \* the packets that an ACK frame has named
  late,             \* a packet was acknowledged after it was declared lost
  armed,            \* the timer was set since the handshake completed
  taken             \* frames handed to the connection as lost or as acknowledged

vars == <<scn, now, rec, spaces, hs, reached, late, armed, taken>>

None == -1
PacketThreshold == 3       \* INITIAL_PACKET_THRESHOLD
MaxPtoProbes == 2          \* MAX_PTO_PROBES_COUNT
Sub(a, b) == IF a > b THEN a - b ELSE 0      \* saturating_sub
Spaces == {"Initial", "Handshake", "Data"}   \* in this order

(* The first space of a set, in the order of the loops over the spaces.    *)
First(S) ==
  IF "Initial" \in S THEN "Initial" ELSE IF "Handshake" \in S THEN "Handshake" ELSE "Data"
Earliest(S, at) == First({s \in S : \A q \in S : at[s] <= at[q]})

(* A kind tells whether a packet is ack-eliciting, in flight, carries data *)
(* (the frames a probe repeats), and its size.                             *)
Kinds == [eliciting : BOOLEAN, flight : BOOLEAN, data : BOOLEAN, size : 1..MaxSize]
KindOf(eliciting, flight, data, size) ==
  [eliciting |-> eliciting, flight |-> flight, data |-> data, size |-> size]
DataPkt == KindOf(TRUE, TRUE, TRUE, 2)
PingPkt == KindOf(TRUE, TRUE, FALSE, 1)
AckPkt == KindOf(FALSE, FALSE, FALSE, 1)
PaddedPkt == KindOf(FALSE, TRUE, FALSE, 2)

ASSUME RecoveryAssumption ==
  /\ {Tick, Granularity, InitialRtt, MaxPto, Cwnd, MaxSize, MaxTime} \subseteq Nat \ {0}
  /\ {MaxAckDelay, PtoLinearFactor, MaxPtoCount} \subseteq Nat
  /\ Scenarios \subseteq [server : BOOLEAN, kinds : SUBSET Kinds, max : [Spaces -> Nat],
                          delays : SUBSET Nat]

(* handshake_status                                                        *)
Derived(h) == h.stage \in {"handshake", "completed"}
Completed(h) == h.stage \in {"completed", "confirmed"}

-----------------------------------------------------------------------------
(* RttEstimator                                                            *)
RttNew(rtt) == [latest |-> rtt, smoothed |-> None, var |-> rtt \div 2, min |-> rtt, max |-> rtt]
SmoothedRtt(r) == IF r.smoothed = None THEN r.latest ELSE r.smoothed
PtoBase(r) == SmoothedRtt(r) + Max({4 * r.var, Granularity})

(* try_set_init_rtt                                                        *)
TrySetInitRtt(r, rtt) == IF r.smoothed # None THEN r ELSE RttNew(rtt)

(* update: the peer's delay is subtracted unless that goes below min_rtt.  *)
RttUpdate(r, delay, rtt) ==
  LET min == Min({r.min, rtt})
      adjusted == IF min + delay <= rtt THEN rtt - delay ELSE rtt
      sample == Max({r.smoothed - adjusted, adjusted - r.smoothed})
  IN IF r.smoothed = None
     THEN [latest |-> rtt, smoothed |-> rtt, var |-> rtt \div 2, min |-> rtt, max |-> rtt]
     ELSE [latest |-> rtt, min |-> min, max |-> Max({r.max, rtt}),
           smoothed |-> (7 * r.smoothed + adjusted) \div 8,
           var |-> (3 * r.var + sample) \div 4]

-----------------------------------------------------------------------------
RecNew ==
  [pto_count |-> 0, timer |-> None, bytes |-> 0, eliciting |-> 0, rtt |-> RttNew(InitialRtt)]
SpaceNew ==
  [next |-> 0, sent |-> [n \in {} |-> 0], lost |-> {}, acked |-> {}, last |-> None, loss_time |-> None,
   largest |-> None, probes |-> 0, bytes |-> 0, eliciting |-> 0, silent |-> 0]

(* get_loss_time_and_space: the spaces share one timer.                    *)
LossTimeAndSpace(sp) ==
  LET at == [s \in Spaces |-> sp[s].loss_time]
      due == {s \in Spaces : at[s] # None}
  IN IF due = {} THEN [time |-> None, space |-> "Data"]
     ELSE [time |-> at[Earliest(due, at)], space |-> Earliest(due, at)]

(* calculate_pto and pto_with_ack_delay                                    *)
Backoff(r) == 2^Sub(r.pto_count, PtoLinearFactor)
CalculatePto(r) == Min({PtoBase(r.rtt) * Backoff(r), MaxPto})
PtoWithAckDelay(r, duration) == Min({duration + MaxAckDelay * Backoff(r), MaxPto})

(* get_pto_time_and_space: the Data space counts once the handshake is     *)
(* completed; the spaces are tried in order, and a tie is the earlier's.   *)
PtoTimeAndSpace(r, sp, h, t) ==
  LET pto == CalculatePto(r)
      busy == {s \in Spaces : sp[s].eliciting # 0 /\ (s = "Data" => Completed(h))}
      at == [s \in Spaces |->
               sp[s].last + (IF s = "Data" THEN PtoWithAckDelay(r, pto) ELSE pto)]
  IN IF r.eliciting = 0
     THEN [time |-> t + pto, space |-> IF Derived(h) THEN "Handshake" ELSE "Initial"]
     ELSE IF busy = {} THEN [time |-> None, space |-> "Initial"]
     ELSE [time |-> at[Earliest(busy, at)], space |-> Earliest(busy, at)]

(* Mutant: no probe timeout once the peer has verified the address.        *)
SetTimerVerified(w, h, t) ==
  [w EXCEPT !.r.timer =
     IF LossTimeAndSpace(w.sp).time # None THEN LossTimeAndSpace(w.sp).time
     ELSE IF w.r.eliciting = 0 \/ h.verified THEN None
     ELSE PtoTimeAndSpace(w.r, w.sp, h, t).time]

(* set_loss_detection_timer                                                *)
SetTimer(w, h, t) ==
  LET loss == LossTimeAndSpace(w.sp).time IN
  [w EXCEPT !.r.timer =
     IF loss # None THEN loss
     ELSE IF w.r.eliciting = 0 /\ h.verified THEN None
     ELSE PtoTimeAndSpace(w.r, w.sp, h, t).time]

(* on_packet_sent                                                          *)
Push(sent, n, pkt) == [m \in DOMAIN sent \cup {n} |-> IF m = n THEN pkt ELSE sent[m]]
OnPacketSent(w, s, kind, h, t) ==
  LET x == w.sp[s]
      pkt == [kind |-> kind, time |-> t, acked |-> FALSE, lost |-> None, frames |-> {x.next}]
      one == IF kind.eliciting THEN 1 ELSE 0
      pushed == [x EXCEPT !.sent = Push(@, x.next, pkt), !.next = @ + 1,
                          !.silent = IF kind.eliciting THEN 0 ELSE @ + 1]
      counted == [pushed EXCEPT !.last = IF kind.eliciting THEN t ELSE @,
                                !.probes = Sub(@, one),
                                !.eliciting = @ + one, !.bytes = @ + kind.size]
      path == [w.r EXCEPT !.eliciting = @ + one, !.bytes = @ + kind.size]
  IN IF kind.flight THEN SetTimer([r |-> path, sp |-> [w.sp EXCEPT ![s] = counted]], h, t)
     ELSE [w EXCEPT !.sp[s] = pushed]

(* The bytes and the ack-eliciting packets in flight among the packets S   *)
(* of a queue; a size is counted out byte by byte.                         *)
Bytes(sent, S) ==
  Cardinality({u \in S \X (1..MaxSize) : sent[u[1]].kind.flight /\ u[2] <= sent[u[1]].kind.size})
Eliciting(sent, S) ==
  Cardinality({n \in S : sent[n].kind.flight /\ sent[n].kind.eliciting})

(* The packets S leave the counts c, of their space or of the path.        *)
LeaveFlight(c, sent, S) ==
  [c EXCEPT !.bytes = Sub(@, Bytes(sent, S)), !.eliciting = Sub(@, Eliciting(sent, S))]

Frames(sent, S) == UNION {sent[n].frames : n \in S}
Pending(sent) == {n \in DOMAIN sent : ~sent[n].acked /\ sent[n].lost = None}

-----------------------------------------------------------------------------
(* detect_acked_packets: packets of the queue that the ranges cover, those *)
(* deemed lost included, whose frames are gone.                            *)
NewlyAcked(x, pns) == {n \in DOMAIN x.sent \cap pns : ~x.sent[n].acked}
MarkAcked(sent, S) ==
  [n \in DOMAIN sent |->
     IF n \in S THEN [sent[n] EXCEPT !.acked = TRUE, !.frames = {}] ELSE sent[n]]
DetectAcked(w, s, pns) ==
  LET x == w.sp[s]
      new == NewlyAcked(x, pns)
  IN [r |-> LeaveFlight(w.r, x.sent, new),
      sp |-> [w.sp EXCEPT ![s] = [LeaveFlight(x, x.sent, new) EXCEPT
                 !.acked = @ \cup Frames(x.sent, new), !.sent = MarkAcked(@, new)]]]

(* The RTT sample of an ACK: the largest packet acknowledged so far is new *)
(* and some new one is ack-eliciting; a sample of zero is not used.        *)
RttSample(x, pns, t) ==
  LET new == NewlyAcked(x, pns) IN
  IF x.largest \in new /\ \E n \in new : x.sent[n].kind.eliciting
  THEN t - x.sent[x.largest].time ELSE 0

(* detect_lost_packets                                                     *)
LossDelay(r) == Max({(Max({r.rtt.latest, SmoothedRtt(r.rtt)}) * 9) \div 8, Granularity})
Unacked(x) == {n \in Pending(x.sent) : n <= x.largest}
IsLost(r, x, n, t) ==
  x.sent[n].time <= t - LossDelay(r) \/ n + PacketThreshold <= x.largest
Gone(r, x, t) == {n \in Unacked(x) : IsLost(r, x, n, t)}
LossTime(r, x, S) ==    \* when the packets S are next to be declared lost
  IF S = {} THEN None ELSE Min({x.sent[n].time + LossDelay(r) : n \in S})
MarkLost(sent, S, t) ==
  [n \in DOMAIN sent |->
     IF n \in S THEN [sent[n] EXCEPT !.lost = t, !.frames = {}] ELSE sent[n]]
DetectLost(w, s, t) ==
  LET x == w.sp[s]
      gone == Gone(w.r, x, t)
  IN [r |-> LeaveFlight(w.r, x.sent, gone),
      sp |-> [w.sp EXCEPT ![s] = [LeaveFlight(x, x.sent, gone) EXCEPT
                 !.loss_time = LossTime(w.r, x, Unacked(x) \ gone),
                 !.lost = @ \cup Frames(x.sent, gone), !.sent = MarkLost(@, gone, t)]]]

Keep(sent, S) == [n \in S |-> sent[n]]

(* Mutant: every packet up to the largest acknowledged is drained.         *)
DrainSentAll(w, s, t) ==
  [w EXCEPT !.sp[s].sent = Keep(@, {n \in DOMAIN @ : n > w.sp[s].largest})]

(* drain_sent_packets: the front of the queue that is acked, or lost for   *)
(* longer than a round trip.                                               *)
DrainSent(w, s, t) ==
  LET sent == w.sp[s].sent
      stays == Pending(sent) \cup
                 {n \in DOMAIN sent : sent[n].lost # None /\ sent[n].lost + SmoothedRtt(w.r.rtt) > t}
  IN [w EXCEPT !.sp[s].sent = Keep(@, {n \in DOMAIN @ : \E m \in stays : m <= n})]

(* on_ack_received                                                         *)
NoteLargest(w, s, pns) == [w EXCEPT !.sp[s].largest = Max({@, Max(pns)})]
NoteRtt(w, delay, rtt) ==
  IF rtt = 0 THEN w ELSE [w EXCEPT !.r.rtt = RttUpdate(@, delay, rtt)]
ResetPtoCount(w) == [w EXCEPT !.r.pto_count = 0]
OnAckReceived(w, s, pns, delay, h, t) ==
  LET top == NoteLargest(w, s, pns)
      rtt == RttSample(top.sp[s], pns, t)
      timed == NoteRtt(DetectAcked(top, s, pns), delay, rtt)
      done == DrainSent(DetectLost(timed, s, t), s, t)
  IN IF NewlyAcked(top.sp[s], pns) = {} THEN top ELSE SetTimer(ResetPtoCount(done), h, t)

-----------------------------------------------------------------------------
(* on_loss_detection_timeout                                               *)
LossTimeout(w, h, t) ==
  LET s == LossTimeAndSpace(w.sp).space IN
  SetTimer(DrainSent(DetectLost(w, s, t), s, t), h, t)

(* A probe timeout: the frames of the oldest packets with data are sent    *)
(* again, and the packets are still waited for.                            *)
ProbeSpace(w, h, t) ==
  IF w.r.eliciting > 0 THEN PtoTimeAndSpace(w.r, w.sp, h, t).space
  ELSE IF Derived(h) THEN "Handshake" ELSE "Initial"
OldestData(sent, k) ==    \* the first k packets pending that carry data
  LET waiting == {n \in Pending(sent) : sent[n].kind.data}
  IN {n \in waiting : Cardinality({m \in waiting : m < n}) < k}
ProbeTimeout(w, h, t) ==
  LET s == ProbeSpace(w, h, t)
      probes == IF s = "Data" THEN Min({w.r.pto_count + 1, MaxPtoProbes}) ELSE 1
      x == w.sp[s]
  IN SetTimer([r |-> [w.r EXCEPT !.pto_count = @ + 1],
               sp |-> [w.sp EXCEPT ![s] = [x EXCEPT !.probes = probes,
                         !.lost = @ \cup Frames(x.sent, OldestData(x.sent, probes))]]], h, t)
OnTimeout(w, h, t) ==
  IF LossTimeAndSpace(w.sp).time # None THEN LossTimeout(w, h, t) ELSE ProbeTimeout(w, h, t)

(* Mutant: the packets discarded are still counted as in flight.           *)
OnDiscardedCounted(w, s, h, t) ==
  SetTimer([w EXCEPT !.sp[s] = [SpaceNew EXCEPT !.next = w.sp[s].next,
                                                !.largest = w.sp[s].largest]], h, t)

(* on_pkt_num_space_discarded and remove_from_bytes_in_flight              *)
OnDiscarded(w, s, h, t) ==
  LET x == w.sp[s]
      cleared == [SpaceNew EXCEPT !.next = x.next, !.largest = x.largest, !.silent = x.silent]
  IN SetTimer([r |-> LeaveFlight(w.r, x.sent, Pending(x.sent)),
               sp |-> [w.sp EXCEPT ![s] = cleared]], h, t)

-----------------------------------------------------------------------------
W == [r |-> rec, sp |-> spaces]
Set(w) == rec' = w.r /\ spaces' = w.sp

Init ==
  /\ scn \in Scenarios
  /\ now = 0 /\ rec = RecNew
  /\ hs = [stage |-> "initial", initial |-> TRUE, verified |-> FALSE, server |-> scn.server]
  /\ spaces = [s \in Spaces |-> SpaceNew]
  /\ reached = [s \in Spaces |-> {}] /\ late = FALSE /\ armed = TRUE
  /\ taken = [s \in Spaces |-> {}]

(* The spaces that packets are sent in, by their keys: 0-RTT packets of a  *)
(* client and early 1-RTT packets of a server are in the Data space.       *)
Keyed(s) ==
  CASE s = "Initial" -> hs.initial
    [] s = "Handshake" -> Derived(hs)
    [] s = "Data" -> hs.server => hs.stage # "initial"

(* Whether a packet can be sent now: can_send, or a probe is due.          *)
Allowed(s, kind) == ~kind.flight \/ rec.bytes < Cwnd \/ spaces[s].probes > 0

(* process_all_lost_frames takes the lost frames before a packet is built. *)
TakeLost(w) == [r |-> w.r, sp |-> [s \in Spaces |-> [w.sp[s] EXCEPT !.lost = {}]]]
Send(s, kind) ==
  /\ Keyed(s) /\ Allowed(s, kind)
  /\ spaces[s].next < scn.max[s]
  /\ Set(OnPacketSent(TakeLost(W), s, kind, hs, now))
  /\ armed' = (armed \/ kind.flight)
  /\ taken' = [q \in Spaces |-> taken[q] \cup spaces[q].lost]
  /\ UNCHANGED <<scn, now, hs, reached, late>>

(* An ACK frame arrives (recv_frame), for packets that reached the peer:   *)
(* those it received in a window, with or without a hole.  The address     *)
(* counts as verified before the packets are looked at; the frames         *)
(* acknowledged are taken at the end of recv_packet.                       *)
AckRanges(n) == {(lo..hi) \ {hole} : lo \in 0..(n - 1), hi \in 0..(n - 1), hole \in 1..n} \ {{}}
Verify(h, s) ==
  [h EXCEPT !.verified = @ \/ s = "Handshake" \/ (s = "Data" /\ Completed(h))]
TakeAcked(w, s) == [r |-> w.r, sp |-> [w.sp EXCEPT ![s] = [w.sp[s] EXCEPT !.acked = {}]]]
Ack(s, pns, delay) ==
  LET new == NewlyAcked(spaces[s], pns)
      w == OnAckReceived(W, s, pns, delay, Verify(hs, s), now)
  IN /\ IF s = "Data" THEN Completed(hs) ELSE Keyed(s)
     /\ hs' = Verify(hs, s)
     /\ Set(TakeAcked(w, s))
     /\ taken' = [taken EXCEPT ![s] = @ \cup w.sp[s].acked]
     /\ reached' = [reached EXCEPT ![s] = @ \cup pns]
     /\ late' = (late \/ \E n \in new :
                           spaces[s].sent[n].lost # None /\ spaces[s].sent[n].kind.flight)
     /\ armed' = (armed \/ new # {})
     /\ UNCHANGED <<scn, now>>

Timeout ==
  /\ rec.timer # None /\ now >= rec.timer
  /\ rec.pto_count < MaxPtoCount
  /\ Set(OnTimeout(W, hs, now))
  /\ armed' = TRUE
  /\ UNCHANGED <<scn, now, hs, reached, late, taken>>

(* The clock; a timer is served at most a step late.                       *)
Clock ==
  /\ now + Tick <= MaxTime
  /\ rec.timer # None => now < rec.timer + Tick
  /\ now' = now + Tick
  /\ UNCHANGED <<scn, rec, spaces, hs, reached, late, armed, taken>>

(* The handshake goes on: its keys are derived, then it is completed.      *)
Handshake ==
  /\ hs.stage \in {"initial", "handshake"}
  /\ hs' = [hs EXCEPT !.stage = IF @ = "initial" THEN "handshake" ELSE "completed"]
  /\ armed' = (armed /\ hs.stage = "initial")
  /\ UNCHANGED <<scn, now, rec, spaces, reached, late, taken>>

(* drop_space_state of Initial, and of Handshake when it is confirmed: a   *)
(* client hears so in HANDSHAKE_DONE, which verifies its address.          *)
Dropped(h, s) ==
  IF s = "Initial" THEN [h EXCEPT !.initial = FALSE]
  ELSE [h EXCEPT !.stage = "confirmed", !.verified = @ \/ ~h.server]
Discard(s) ==
  /\ IF s = "Initial" THEN hs.initial /\ hs.stage # "initial"
     ELSE s = "Handshake" /\ hs.stage = "completed"
  /\ hs' = Dropped(hs, s)
  /\ Set(OnDiscarded(W, s, Dropped(hs, s), now))
  /\ armed' = TRUE
  /\ taken' = [taken EXCEPT ![s] = 0..(spaces[s].next - 1)]
  /\ UNCHANGED <<scn, now, reached, late>>

(* try_set_init_rtt with the round trip of a path validation               *)
PathValidated ==
  /\ Completed(hs) /\ TrySetInitRtt(rec.rtt, 2 * Tick) # rec.rtt
  /\ rec' = [rec EXCEPT !.rtt = TrySetInitRtt(@, 2 * Tick)]
  /\ UNCHANGED <<scn, now, spaces, hs, reached, late, armed, taken>>

Next ==
  \/ \E s \in Spaces :
       \/ \E kind \in scn.kinds : Send(s, kind)
       \/ \E pns \in AckRanges(spaces[s].next), delay \in scn.delays : Ack(s, pns, delay)
       \/ Discard(s)
  \/ Timeout
  \/ Clock
  \/ Handshake
  \/ PathValidated

Spec == Init /\ [][Next]_vars

-----------------------------------------------------------------------------
InFlight(s) == {n \in Pending(spaces[s].sent) : spaces[s].sent[n].kind.flight}
OverSpaces(f) == f["Initial"] + f["Handshake"] + f["Data"]

(* The bytes and ack-eliciting packets counted for a space, and for the    *)
(* path over its spaces, are those of packets neither acknowledged nor     *)
(* declared lost, as the comment on bytes_in_flight says.                  *)
InFlightExact ==
  LET bytes == [s \in Spaces |-> Bytes(spaces[s].sent, Pending(spaces[s].sent))]
      eliciting == [s \in Spaces |-> Eliciting(spaces[s].sent, Pending(spaces[s].sent))]
  IN /\ \A s \in Spaces : spaces[s].bytes = bytes[s] /\ spaces[s].eliciting = eliciting[s]
     /\ rec.bytes = OverSpaces(bytes) /\ rec.eliciting = OverSpaces(eliciting)

(* The same until a packet is acknowledged after it was declared lost.     *)
InFlightExactUnlessLate == late \/ InFlightExact

(* While an ack-eliciting packet is in flight the timer is set, so that a  *)
(* lost tail is noticed (set_loss_detection_timer); packets of the Data    *)
(* space are waited for once the handshake is completed, from the first    *)
(* packet sent or acknowledged after that.  A packet acknowledged after it *)
(* was declared lost leaves the counts twice; the timer may then be off    *)
(* with packets in flight, but only when the count of the space or of the  *)
(* path has come down to zero.                                             *)
CountedOut(s) == late /\ (spaces[s].eliciting = 0 \/ rec.eliciting = 0)
TimerArmed ==
  \A s \in Spaces : \A n \in InFlight(s) :
    spaces[s].sent[n].kind.eliciting /\ (s = "Data" => Completed(hs) /\ armed)
      => rec.timer # None \/ CountedOut(s)

(* A packet is declared lost only when a later packet of its space was     *)
(* acknowledged, so reached the peer (detect_lost_packets); a probe        *)
(* timeout declares none.                                                  *)
LossesJustified ==
  \A s \in Spaces : \A n \in DOMAIN spaces[s].sent :
    spaces[s].sent[n].lost # None => \E pn \in reached[s] : pn > n /\ pn <= spaces[s].largest

(* No frame is forgotten: the frames of every packet of a space are still  *)
(* waited for, or handed over as lost or as acknowledged.                  *)
FramesKept ==
  \A s \in Spaces :
    0..(spaces[s].next - 1) =
      taken[s] \cup spaces[s].lost \cup spaces[s].acked
        \cup Frames(spaces[s].sent, DOMAIN spaces[s].sent)

(* A packet is given up only for a reason, and its frames are not.         *)
PacketsKept == LossesJustified /\ FramesKept

-----------------------------------------------------------------------------
(* The connections that are checked: the handshake of a client and of a    *)
(* server with a packet or two in each space, and a client that sends in   *)
(* the Data space only.                                                    *)
Scn(server, kinds, i, h, d, delays) ==
  [server |-> server, kinds |-> kinds, delays |-> delays,
   max |-> [s \in Spaces |-> IF s = "Initial" THEN i ELSE IF s = "Handshake" THEN h ELSE d]]
MCScenarios ==
  {Scn(FALSE, {DataPkt, PaddedPkt}, 1, 1, 1, {0}),
   Scn(TRUE, {DataPkt}, 1, 1, 1, {0}),
   Scn(FALSE, {DataPkt, AckPkt}, 0, 0, 3, {Tick}),
   Scn(FALSE, {PingPkt}, 0, 0, 4, {0})}
=============================================================================
