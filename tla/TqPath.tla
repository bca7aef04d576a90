------------------------------- MODULE TqPath -------------------------------
(***************************************************************************)
(* One network path of a tquic connection (connection/path.rs), the map of *)
(* its paths, the search for the path's MTU (connection/pmtu.rs) and the   *)
(* three multipath schedulers (multipath_scheduler/).  The server has one  *)
(* address, so a path is identified by the client's.  A path map is a      *)
(* function from path IDs to paths; the slab's iteration order is the      *)
(* order of the IDs.  Sizes are bytes.                                     *)
(***************************************************************************)
EXTENDS TqCids

CONSTANTS MaxProbingTimeouts, MaxPathChalsRecv, Window

MinInitialLen == 1200
MinPathProbeSize == 64
AntiAmplFactor == 3
MaxProbeCount == 3
MaxPacketSizeIpv4 == 1472

Larger(a, b)  == IF a > b THEN a ELSE b
Smaller(a, b) == IF a < b THEN a ELSE b

----------------------------------------------------------------------------
(* The MTU search. *)

PmtuNew(enable) ==
    [ shouldProbe |-> enable, current |-> MinInitialLen, probeSize |-> None,
      probeCount |-> 0, failedSize |-> 0, maxPmtu |-> MaxPacketSizeIpv4 ]

MtuCeiling(d, peerMax) ==
    Smaller(IF d.failedSize > 0 THEN d.failedSize ELSE d.maxPmtu, peerMax)

CalProbeSize(d, peerMax) ==
    LET ceiling == MtuCeiling(d, peerMax)
    IN IF d.failedSize = 0 /\ ceiling < 1500 THEN ceiling ELSE (d.current + ceiling) \div 2

\* check_finish: within one percent of the ceiling.
CheckFinish(d, peerMax) ==
    LET ceiling == MtuCeiling(d, peerMax)
    IN d.current >= ceiling \/ 100 * d.current >= 99 * ceiling

GetProbeSize(d, peerMax) ==
    IF d.probeSize # None THEN d ELSE [d EXCEPT !.probeSize = CalProbeSize(d, peerMax)]

OnPmtuProbeSent(d) == [d EXCEPT !.shouldProbe = FALSE]

OnPmtuProbeAcked(d, size, peerMax) ==
    LET grown == [d EXCEPT !.current = Larger(@, size), !.probeCount = 0]
    IN [grown EXCEPT !.probeSize = CalProbeSize(grown, peerMax),
                     !.shouldProbe = ~CheckFinish(grown, peerMax)]

OnPmtuProbeLost(d, size, peerMax) ==
    IF size # d.probeSize THEN d
    ELSE IF d.probeCount + 1 < MaxProbeCount
    THEN [d EXCEPT !.probeCount = @ + 1, !.shouldProbe = TRUE]
    ELSE LET failed == [d EXCEPT !.failedSize = size, !.probeCount = 0]
         IN [failed EXCEPT !.probeSize = CalProbeSize(failed, peerMax),
                           !.shouldProbe = ~CheckFinish(failed, peerMax)]

----------------------------------------------------------------------------
(* A path.  PathState is ordered: Failed < Unknown < Validating <          *)
(* ValidatingMTU < Validated.                                              *)

Failed == 0
Unknown == 1
Validating == 2
ValidatingMTU == 3
Validated == 4

PathNew(addr, initial, pmtu) ==
    [ addr |-> addr, scid |-> IF initial THEN 0 ELSE None, dcid |-> IF initial THEN 0 ELSE None,
      active |-> FALSE, state |-> IF initial THEN Validated ELSE Unknown,
      recvChals |-> <<>>, sentChals |-> <<>>, needChal |-> FALSE, lostChal |-> 0,
      maxChalSize |-> 0, verified |-> FALSE, peerVerified |-> FALSE, limit |-> 0,
      pmtu |-> PmtuNew(pmtu), ping |-> FALSE, space |-> 2,
      mds |-> MinInitialLen, out |-> 0 ]

PromoteTo(p, state) == [p EXCEPT !.state = Larger(@, state)]

OnPathChalReceived(p, data) ==
    [p EXCEPT !.recvChals = Append(IF Len(@) >= MaxPathChalsRecv THEN Tail(@) ELSE @, data),
              !.peerVerified = TRUE]

\* on_path_resp_received: any response shows that the peer is there; the path
\* is valid once a challenge of full size was answered.
OnPathRespReceived(p, data, multipath) ==
    IF p.state = Validated THEN p
    ELSE LET matched == SelectSeq(p.sentChals, LAMBDA c : c.data = data)
             size    == IF matched = <<>> THEN 0 ELSE matched[Len(matched)].size
             heard   == PromoteTo([p EXCEPT !.verified = TRUE, !.lostChal = 0,
                                            !.sentChals = SelectSeq(@, LAMBDA c : c.data # data),
                                            !.maxChalSize = Larger(@, size)], ValidatingMTU)
         IN IF heard.maxChalSize >= MinInitialLen
            THEN [heard EXCEPT !.state = Validated, !.active = multipath, !.sentChals = <<>>]
            ELSE [heard EXCEPT !.needChal = TRUE]

InitiatePathChal(p) == [p EXCEPT !.needChal = TRUE]

OnPathChalSent(p, data, size) ==
    [PromoteTo(p, Validating) EXCEPT !.needChal = FALSE,
                                     !.sentChals = Append(@, [data |-> data, size |-> size])]

(* Mutant: the challenges that timed out are forgotten without a new one. *)
OnPathChalTimeoutSilent(p, n) ==
    IF p.state \notin {Validating, ValidatingMTU} THEN p
    ELSE [p EXCEPT !.sentChals = SubSeq(@, n + 1, Len(@)), !.lostChal = @ + n]

\* on_path_chal_timeout, when the first n challenges are overdue: each asks for
\* another challenge until there were too many.
OnPathChalTimeout(p, n) ==
    IF p.state \notin {Validating, ValidatingMTU} THEN p
    ELSE IF p.lostChal + n < MaxProbingTimeouts
    THEN InitiatePathChal([p EXCEPT !.sentChals = SubSeq(@, n + 1, Len(@)), !.lostChal = @ + n])
    ELSE [p EXCEPT !.state = Failed, !.active = FALSE, !.sentChals = <<>>, !.lostChal = MaxProbingTimeouts,
                   !.needChal = @ \/ p.lostChal + 1 < MaxProbingTimeouts]

NeedSendValidationFrames(p, server) ==
    /\ ~server \/ p.limit >= MinPathProbeSize
    /\ p.needChal \/ p.recvChals # <<>>

\* need_expand_padding_frames: the datagram is filled up.
NeedExpandPaddingFrames(p, server) ==
    p.state # Validated /\ (~server \/ p.limit > p.mds)

PathActive(p) == p.active /\ p.dcid # None

PathUnused(p) == ~p.active /\ p.dcid = None

\* Recovery of the path: the window counts packets.
CanSendOn(p) == p.out < Window

----------------------------------------------------------------------------
(* The map of the paths. *)

GetPathId(paths, addr) ==
    IF \E pid \in DOMAIN paths : paths[pid].addr = addr
    THEN CHOOSE pid \in DOMAIN paths : paths[pid].addr = addr ELSE None

ActivePathId(paths) ==
    LET on == {pid \in DOMAIN paths : paths[pid].active}
    IN IF on = {} THEN None ELSE Lowest(on)

\* insert_path: a full map gives the slot of an unused path away.
InsertPathId(paths, maxPaths) ==
    LET unused == {pid \in DOMAIN paths : PathUnused(paths[pid])}
    IN IF Cardinality(DOMAIN paths) < maxPaths THEN Cardinality(DOMAIN paths)
       ELSE IF unused = {} THEN None ELSE Lowest(unused)

PutPath(paths, pid, p) == [q \in DOMAIN paths \cup {pid} |-> IF q = pid THEN p ELSE paths[q]]

IncAntiAmplLimit(p, server, len) ==
    IF server /\ ~p.verified THEN [p EXCEPT !.limit = @ + AntiAmplFactor * len] ELSE p

DecAntiAmplLimit(p, server, len) ==
    IF server /\ ~p.verified THEN [p EXCEPT !.limit = Larger(@ - len, 0)] ELSE p

CmpAntiAmplLimit(p, server, left) ==
    IF server /\ ~p.verified THEN Smaller(left, p.limit) ELSE left

\* mark_ping without an address: every active path in multipath mode.
MarkPing(paths, multipath) ==
    IF ~multipath
    THEN [paths EXCEPT ![ActivePathId(paths)].ping = TRUE]
    ELSE [pid \in DOMAIN paths |-> [paths[pid] EXCEPT !.ping = @ \/ PathActive(paths[pid])]]

----------------------------------------------------------------------------
(* The schedulers: a path to send on, or None. *)

Usable(paths) == {pid \in DOMAIN paths : PathActive(paths[pid]) /\ CanSendOn(paths[pid])}

\* srtt[addr] is the smoothed RTT of the path with that address.
MinRttSelect(paths, srtt) ==
    IF Usable(paths) = {} THEN None
    ELSE Lowest({pid \in Usable(paths) :
                   \A q \in Usable(paths) : srtt[paths[pid].addr] <= srtt[paths[q].addr]})

RedundantSelect(paths) == IF Usable(paths) = {} THEN None ELSE Lowest(Usable(paths))

\* The first usable path after the last one; around the end when the last one
\* still exists.
RoundRobinSelect(paths, last) ==
    LET after == {pid \in Usable(paths) : last # None /\ last \in DOMAIN paths => pid > last}
    IN IF after # {} THEN Lowest(after)
       ELSE IF Usable(paths) = {} THEN None ELSE Lowest(Usable(paths))
=============================================================================
