------------------------------ MODULE TqPaths ------------------------------
(***************************************************************************)
(* Connection IDs, paths, path validation, MTU search and multipath        *)
(* scheduling of two tquic endpoints after the handshake: what send, recv, *)
(* the loss of a packet, the challenge timer and the application's calls   *)
(* do to the connection-ID manager, the path map, the packet number spaces *)
(* and the frames that travel.  Loss recovery is abstract: a packet that   *)
(* was sent is acknowledged when it arrives, or declared lost.             *)
(*                                                                         *)
(* The network loses packets, loses acknowledgments, delays packets past   *)
(* their timers (each costs one of the plan's faults), reorders freely,    *)
(* drops what exceeds the path's MTU, and may rebind the client's address. *)
(***************************************************************************)
EXTENDS TqPath

CONSTANTS Client, Server, Home, Plans, MaxPaths

VARIABLES
    plan,   \* what happens in this behaviour, chosen at the start
    conn,   \* the two connections
    net,    \* packets in transit
    nat,    \* the address the server sees for each address of the client
    left    \* what is left of the plan's inputs and faults

vars == <<plan, conn, net, nat, left>>

Ends == {Client, Server}
Peer(e) == IF e = Client THEN Server ELSE Client
IsServer(e) == e = Server
Addrs == DOMAIN nat

Data == 2

SpaceNew == [next |-> 0, buffered |-> <<>>, recv |-> {}]

\* spaces.add
AddSpace(c) ==
    [c EXCEPT !.spaces = [s \in DOMAIN @ \cup {c.nextSpace} |->
                             IF s = c.nextSpace THEN SpaceNew ELSE @[s]],
              !.nextSpace = @ + 1]

\* get_space_id
SpaceOf(c, pid) == IF c.multipath THEN c.paths[pid].space ELSE Data

----------------------------------------------------------------------------
(* Choosing a path and writing a packet. *)

NeedSendPathUnaware(c) == NeedSendCidControlFrames(c.cids) \/ c.pending # {}

Buffered(c, pid) == c.spaces[SpaceOf(c, pid)].buffered

OnSelect(c) ==
    CASE plan.scheduler = "MinRtt"     -> MinRttSelect(c.paths, plan.srtt)
      [] plan.scheduler = "Redundant"  -> RedundantSelect(c.paths)
      [] plan.scheduler = "RoundRobin" -> RoundRobinSelect(c.paths, c.last)

ScheduledPath(c) == IF c.multipath /\ NeedSendPathUnaware(c) THEN OnSelect(c) ELSE None

SelectSendPath(c, e) ==
    LET probing == {pid \in DOMAIN c.paths : /\ c.paths[pid].dcid # None
                                             /\ NeedSendValidationFrames(c.paths[pid], IsServer(e))}
        waiting == {pid \in DOMAIN c.paths :
                      /\ c.multipath /\ PathActive(c.paths[pid])
                      /\ (Buffered(c, pid) # <<>> /\ CanSendOn(c.paths[pid])) \/ c.paths[pid].ping}
    IN IF probing # {} THEN Lowest(probing)
       ELSE IF ScheduledPath(c) # None THEN ScheduledPath(c)
       ELSE IF waiting # {} THEN Lowest(waiting)
       ELSE ActivePathId(c.paths)

\* select_send_packet_type: there is a reason to send a 1-RTT packet.
NeedSend(c, pid, e) ==
    \/ NeedSendValidationFrames(c.paths[pid], IsServer(e))
    \/ c.paths[pid].pmtu.shouldProbe
    \/ c.paths[pid].ping
    \/ NeedSendPathUnaware(c)
    \/ \E s \in DOMAIN c.spaces : c.spaces[s].buffered # <<>>

\* try_write_pmut_probe_frames: the probe is a packet of its own.
ProbesMtu(p) == p.state = Validated /\ p.pmtu.shouldProbe

ValidationFrames(c, p) ==
    [i \in DOMAIN p.recvChals |-> [type |-> "PathResponse", data |-> p.recvChals[i]]]
    \o IF p.needChal THEN <<[type |-> "PathChallenge", data |-> c.nextData]>> ELSE <<>>

\* try_write_cid_control_frame
AdvertiseFrames(c) ==
    [i \in DOMAIN c.cids.toAdvertise |-> NewConnectionIdFrame(c.cids, c.cids.toAdvertise[i])]

RetireFrames(c, p) ==
    IF ~PathActive(p) THEN <<>>
    ELSE [i \in DOMAIN c.cids.toRetire |-> [type |-> "RetireConnectionId", seq |-> c.cids.toRetire[i]]]

\* try_write_buffered_frames: what the peer has acknowledged is skipped.
Unacked(c, pid) == SelectSeq(Buffered(c, pid), LAMBDA k : k \notin c.acked)

BufferedFrames(c, pid) ==
    IF c.multipath /\ PathActive(c.paths[pid]) /\ Unacked(c, pid) # <<>>
    THEN <<[type |-> "Stream", chunk |-> Head(Unacked(c, pid))]>> ELSE <<>>

\* try_write_stream_frames: one chunk fills a packet.
StreamFrames(c, pid) ==
    IF PathActive(c.paths[pid]) /\ c.pending # {} /\ BufferedFrames(c, pid) = <<>>
    THEN <<[type |-> "Stream", chunk |-> Lowest(c.pending)]>> ELSE <<>>

SendFrames(c, pid) ==
    LET p == c.paths[pid]
    IN IF ProbesMtu(p)
       THEN <<[type |-> "MtuProbe", size |-> GetProbeSize(p.pmtu, plan.peerMax).probeSize, pid |-> pid]>>
       ELSE LET written == ValidationFrames(c, p) \o AdvertiseFrames(c) \o RetireFrames(c, p)
                           \o BufferedFrames(c, pid) \o StreamFrames(c, pid)
            IN written \o IF p.ping THEN <<[type |-> "Ping"]>> ELSE <<>>

HasType(frames, t) == \E i \in DOMAIN frames : frames[i].type = t

\* send: the datagram is at most max_datagram_size and the limit of an
\* unvalidated client address.
Left(p, e) == CmpAntiAmplLimit(p, IsServer(e), p.mds)

PacketSize(p, frames, e) ==
    IF HasType(frames, "MtuProbe") THEN frames[1].size
    ELSE IF NeedExpandPaddingFrames(p, IsServer(e)) \/ HasType(frames, "Stream") THEN Left(p, e)
    ELSE Smaller(plan.ctl, Left(p, e))

\* The errors send can end with: no path, no dcid, a connection ID to
\* advertise that is gone, and the loop over the dcids to retire that does not
\* end while its head is the path's own.
SendError(c, pid) ==
    IF pid = None THEN "InternalError"
    ELSE LET p == c.paths[pid]
         IN IF p.dcid = None \/ p.dcid \notin Seqs(c.cids.dcids) THEN "InternalError"
            ELSE IF p.scid # None /\ p.scid \notin Seqs(c.cids.scids) THEN "InternalError"
            ELSE IF CanSendOn(p) /\ ~ProbesMtu(p) /\ ~ToSet(c.cids.toAdvertise) \subseteq Seqs(c.cids.scids)
            THEN "InternalError"
            ELSE IF CanSendOn(p) /\ ~ProbesMtu(p) /\ PathActive(p) /\ p.dcid \in ToSet(c.cids.toRetire)
            THEN "Spin"
            ELSE None

\* What is left in the manager once the frames were written.
CidsWritten(c, p) ==
    [c.cids EXCEPT !.toAdvertise = <<>>, !.toRetire = IF PathActive(p) THEN <<>> ELSE @]

PathWritten(c, p, frames, size, e) ==
    LET probed  == IF HasType(frames, "MtuProbe")
                   THEN [p EXCEPT !.pmtu = OnPmtuProbeSent(GetProbeSize(@, plan.peerMax))]
                   ELSE [p EXCEPT !.recvChals = <<>>, !.ping = FALSE]
        chalked == IF HasType(frames, "PathChallenge") THEN OnPathChalSent(probed, c.nextData, size) ELSE probed
    IN DecAntiAmplLimit([chalked EXCEPT !.out = @ + 1], IsServer(e), size)

\* on_sent of the redundant scheduler: a chunk sent for the first time is also
\* queued on the other active paths.
RedundantOnSent(c, pid, frames, again) ==
    LET chunks == SelectSeq(frames, LAMBDA f : f.type = "Stream")
        others == {c.paths[q].space : q \in {r \in DOMAIN c.paths : r # pid /\ PathActive(c.paths[r])}}
    IN [s \in DOMAIN c.spaces |->
          IF plan.scheduler = "Redundant" /\ c.multipath /\ ~again /\ chunks # <<>> /\ s \in others
          THEN Append(c.spaces[s].buffered, chunks[1].chunk) ELSE c.spaces[s].buffered]

\* An ID is announced with a retire_prior_to that rose above its own number
\* since it was queued.
Backdated(frames) ==
    \E i \in DOMAIN frames : frames[i].type = "NewConnectionId" /\ frames[i].retirePriorTo > frames[i].seq

\* send_packet on path pid
SendPacket(c, pid, e) ==
    LET p      == c.paths[pid]
        frames == SendFrames(c, pid)
        size   == PacketSize(p, frames, e)
        space  == SpaceOf(c, pid)
        again  == BufferedFrames(c, pid) # <<>> /\ ~ProbesMtu(p)
        drained == [c.spaces EXCEPT ![space].buffered = IF ProbesMtu(p) \/ ~PathActive(p) THEN @
                                                        ELSE IF again THEN Tail(Unacked(c, pid)) ELSE <<>>,
                                    ![space].next = @ + 1]
        queued == RedundantOnSent([c EXCEPT !.spaces = drained], pid, frames, again)
        pkt    == [from |-> e, addr |-> p.addr, dcid |-> p.dcid, space |-> space, pn |-> c.spaces[space].next,
                   pid |-> pid, frames |-> frames, size |-> size]
    IN [pkt |-> pkt,
        c   |-> [c EXCEPT !.paths[pid] = PathWritten(c, p, frames, size, e),
                          !.cids = IF ProbesMtu(p) THEN @ ELSE CidsWritten(c, p),
                          !.spaces = [s \in DOMAIN drained |-> [drained[s] EXCEPT !.buffered = queued[s]]],
                          !.pending = IF ProbesMtu(p) \/ StreamFrames(c, pid) = <<>> THEN @ ELSE @ \ {Lowest(@)},
                          !.nextData = IF HasType(frames, "PathChallenge") THEN @ + 1 ELSE @,
                          !.last = IF ScheduledPath(c) = pid THEN pid ELSE @,
                          !.unacked = @ \cup {pkt},
                          !.backdated = @ \/ Backdated(frames),
                          !.nonces = @ \cup {<<p.dcid, pkt.pn>>},
                          !.reused = @ \/ <<p.dcid, pkt.pn>> \in c.nonces]]

\* There is a packet that send would write now.
Ready(c, e) ==
    LET pid == SelectSendPath(c, e)
    IN /\ c.err = None
       /\ pid # None => /\ NeedSend(c, pid, e)
                        /\ c.paths[pid].dcid # None =>
                             /\ CanSendOn(c.paths[pid])
                             /\ Left(c.paths[pid], e) >= MinPathProbeSize
                             /\ SendFrames(c, pid) # <<>> \/ SendError(c, pid) # None

----------------------------------------------------------------------------
(* Receiving. *)

\* try_allocate_cids_from_peer, for the paths from pid on
AllocateCids(c) ==
    LET lacking == {pid \in DOMAIN c.paths : c.paths[pid].dcid = None}
        Give(d, pid) ==
            IF pid \notin lacking THEN d
            ELSE IF d.cids.zeroDcid THEN [d EXCEPT !.paths[pid].dcid = 0]
            ELSE IF LowestUnusedDcid(d.cids) = None THEN d
            ELSE [d EXCEPT !.cids.dcids = MarkUsed(@, LowestUnusedDcid(d.cids), pid),
                           !.paths[pid].dcid = LowestUnusedDcid(d.cids)]
    IN FoldLeft(Give, c, [i \in 1..MaxPaths |-> i - 1])

\* recv_frame, NEW_CONNECTION_ID: a path whose dcid was asked back takes the
\* lowest free one, or waits.
OnNewConnectionId(c, f) ==
    LET added == AddDcid(c.cids, f.seq, f.retirePriorTo)
        Replace(d, item) ==
            IF d.paths[item.path].dcid # item.seq THEN d
            ELSE LET new == LowestUnusedDcid(d.cids)
                 IN IF new = None THEN [d EXCEPT !.paths[item.path].dcid = None]
                    ELSE [d EXCEPT !.paths[item.path].dcid = new,
                                   !.cids.dcids = MarkUsed(@, new, item.path)]
        stored == [c EXCEPT !.cids = added.m]
    IN IF added.err # None THEN [stored EXCEPT !.err = added.err]
       ELSE FoldLeft(Replace, stored, added.out)

\* recv_frame, RETIRE_CONNECTION_ID
OnRetireConnectionId(c, f, dcid) ==
    IF c.cids.zeroScid THEN [c EXCEPT !.err = "ProtocolViolation"]
    ELSE IF f.seq \notin Seqs(c.cids.scids) THEN c
    ELSE LET retired == RetireScid(c.cids, f.seq, dcid)
             stored  == [c EXCEPT !.cids = retired.m, !.err = retired.err]
         IN IF retired.path # None /\ c.paths[retired.path].scid = f.seq
            THEN [stored EXCEPT !.paths[retired.path].scid = None] ELSE stored

RecvFrame(c, f, pid, dcid) ==
    IF c.err # None THEN c
    ELSE CASE f.type = "NewConnectionId"    -> OnNewConnectionId(c, f)
           [] f.type = "RetireConnectionId" -> OnRetireConnectionId(c, f, dcid)
           [] f.type = "PathChallenge" -> [c EXCEPT !.paths[pid] = OnPathChalReceived(@, f.data)]
           [] f.type = "PathResponse"  -> [c EXCEPT !.paths[pid] = OnPathRespReceived(@, f.data, c.multipath)]
           [] f.type = "Stream" -> [c EXCEPT !.received = @ \cup {f.chunk}]
           [] OTHER -> c

RecvFrames(c, pkt, pid) ==
    LET Recv(d, f) == RecvFrame(d, f, pid, pkt.dcid)
    IN FoldLeft(Recv, c, pkt.frames)

\* get_or_create_path for an unknown address.  A packet whose dcid was seen on
\* another path comes from a rebound address and shares that path's space.
CreatePath(c, e, addr, dcid, size) ==
    LET item   == GetItem(c.cids.scids, dcid)
        used   == IF c.cids.zeroScid THEN None ELSE item.path
        grown  == IF c.multipath /\ used = None THEN AddSpace(c) ELSE c
        path   == [InitiatePathChal(PathNew(addr, FALSE, plan.mtuSearch)) EXCEPT
                      !.limit = IF IsServer(e) THEN AntiAmplFactor * size ELSE 0,
                      !.scid = dcid,
                      !.space = IF ~c.multipath THEN Data
                                ELSE IF used = None THEN c.nextSpace ELSE c.paths[used].space]
        pid    == InsertPathId(c.paths, MaxPaths)
    IN IF pid = None THEN [pid |-> None, c |-> grown]
       ELSE [pid |-> pid,
             c |-> [grown EXCEPT !.paths = PutPath(@, pid, path),
                                 !.cids.scids = IF used = None THEN MarkUsed(@, dcid, pid) ELSE @]]

\* get_or_create_path for a known address
UseScid(c, pid, dcid) ==
    IF c.paths[pid].scid = dcid THEN c
    ELSE [c EXCEPT !.paths[pid].scid = dcid, !.cids.scids = MarkUsed(@, dcid, pid)]

\* scid(): the connection ID of the active path, needed to parse any packet
ScidOfActive(c) ==
    LET pid == ActivePathId(c.paths)
    IN IF pid = None THEN None
       ELSE IF c.paths[pid].scid \in Seqs(c.cids.scids) THEN c.paths[pid].scid ELSE None

\* recv of a packet from addr, as the receiver e sees it
RecvPacket(c, e, addr, pkt) ==
    LET known   == GetPathId(c.paths, addr)
        counted == IF known = None THEN c
                   ELSE [c EXCEPT !.paths[known] = IncAntiAmplLimit(@, IsServer(e), pkt.size)]
        placed  == IF known = None THEN CreatePath(counted, e, addr, pkt.dcid, pkt.size)
                   ELSE [pid |-> known, c |-> UseScid(counted, known, pkt.dcid)]
        space   == SpaceOf(placed.c, placed.pid)
    IN IF c.err # None \/ (known = None /\ ~IsServer(e)) THEN c
       ELSE IF ScidOfActive(counted) = None THEN [counted EXCEPT !.err = "InternalError"]
       ELSE IF pkt.dcid \notin Seqs(c.cids.scids) THEN counted
       ELSE IF placed.pid = None THEN placed.c
       ELSE IF pkt.pn \in placed.c.spaces[space].recv THEN [placed.c EXCEPT !.mistaken = TRUE]
       ELSE LET done == RecvFrames(placed.c, pkt, placed.pid)
            IN IF done.err # None THEN done
               ELSE [AllocateCids(done) EXCEPT !.spaces[space].recv = @ \cup {pkt.pn}]

\* try_process_acked_frames
OnFrameAcked(c, f) ==
    CASE f.type = "Stream" -> [c EXCEPT !.acked = @ \cup {f.chunk}, !.pending = @ \ {f.chunk}]
      [] f.type = "MtuProbe" ->
           LET d == OnPmtuProbeAcked(c.paths[f.pid].pmtu, f.size, plan.peerMax)
           IN [c EXCEPT !.paths[f.pid].pmtu = d, !.paths[f.pid].mds = Larger(@, d.current)]
      [] OTHER -> c

\* process_all_lost_frames
OnFrameLost(c, f) ==
    CASE f.type = "NewConnectionId"    -> [c EXCEPT !.cids = MarkScidToAdvertise(@, f.seq, TRUE)]
      [] f.type = "RetireConnectionId" -> [c EXCEPT !.cids = MarkDcidToRetire(@, f.seq, TRUE)]
      [] f.type = "Stream"   -> [c EXCEPT !.pending = IF f.chunk \in c.acked THEN @ ELSE @ \cup {f.chunk}]
      [] f.type = "MtuProbe" -> [c EXCEPT !.paths[f.pid].pmtu = OnPmtuProbeLost(@, f.size, plan.peerMax)]
      [] OTHER -> c

Settled(c, pkt) == [c EXCEPT !.unacked = @ \ {pkt}, !.paths[pkt.pid].out = @ - 1]

(* Mutant: the dcid of the new path stays free for others. *)
AddPathUnmarked(c, addr) ==
    LET dcid == IF c.cids.zeroDcid THEN 0 ELSE LowestUnusedDcid(c.cids)
        pid  == InsertPathId(c.paths, MaxPaths)
        path == [InitiatePathChal(PathNew(addr, FALSE, plan.mtuSearch)) EXCEPT
                    !.dcid = dcid, !.space = IF c.multipath THEN c.nextSpace ELSE Data]
        grown == IF c.multipath THEN AddSpace(c) ELSE c
    IN IF GetPathId(c.paths, addr) # None \/ pid = None THEN c
       ELSE [grown EXCEPT !.paths = PutPath(@, pid, path),
                          !.cids.dcids = @]

(* Mutant: the new path shares the first path's packet number space. *)
AddPathSharedSpace(c, addr) ==
    LET dcid == IF c.cids.zeroDcid THEN 0 ELSE LowestUnusedDcid(c.cids)
        pid  == InsertPathId(c.paths, MaxPaths)
        path == [InitiatePathChal(PathNew(addr, FALSE, plan.mtuSearch)) EXCEPT
                    !.dcid = dcid, !.space = Data]
        grown == IF c.multipath THEN AddSpace(c) ELSE c
    IN IF GetPathId(c.paths, addr) # None \/ pid = None THEN c
       ELSE [grown EXCEPT !.paths = PutPath(@, pid, path),
                          !.cids.dcids = IF dcid = None THEN @ ELSE MarkUsed(@, dcid, pid)]

\* add_path
AddPath(c, addr) ==
    LET dcid == IF c.cids.zeroDcid THEN 0 ELSE LowestUnusedDcid(c.cids)
        pid  == InsertPathId(c.paths, MaxPaths)
        path == [InitiatePathChal(PathNew(addr, FALSE, plan.mtuSearch)) EXCEPT
                    !.dcid = dcid, !.space = IF c.multipath THEN c.nextSpace ELSE Data]
        grown == IF c.multipath THEN AddSpace(c) ELSE c
    IN IF GetPathId(c.paths, addr) # None \/ pid = None THEN c
       ELSE [grown EXCEPT !.paths = PutPath(@, pid, path),
                          !.cids.dcids = IF dcid = None THEN @ ELSE MarkUsed(@, dcid, pid)]

----------------------------------------------------------------------------
(* The two endpoints after the handshake.  Each knows its peer's limit and *)
(* has been asked (Event::ScidToAdvertise) to issue that many IDs but one. *)

RECURSIVE AddScids(_, _)
AddScids(m, n) == IF n = 0 THEN m ELSE AddScids(AddScid(m).m, n - 1)

ConnNew(e, p) ==
    LET zero == p.zero /\ e = Client
        cids == SetScidLimit(SetInitialDcid(ConnectionIdNew(p.limit, zero, 0), p.zero /\ e = Server, 0), p.limit)
    IN [ cids |-> IF zero THEN cids ELSE AddScids(cids, p.limit - 1),
         paths |-> [pid \in {0} |-> [PathNew(Home, TRUE, p.mtuSearch /\ e = Client) EXCEPT
                                        !.active = TRUE, !.verified = TRUE]],
         spaces |-> [s \in {Data} |-> SpaceNew], nextSpace |-> 3,
         multipath |-> p.multipath, last |-> None,
         pending |-> IF e = Client THEN 1..p.chunks ELSE {}, acked |-> {}, received |-> {},
         nextData |-> 0, unacked |-> {}, nonces |-> {}, reused |-> FALSE, mistaken |-> FALSE,
         backdated |-> FALSE,
         err |-> None ]

Init ==
    /\ plan \in Plans
    /\ conn = [e \in Ends |-> ConnNew(e, plan)]
    /\ net = {}
    /\ nat = plan.nat
    /\ left = [adds |-> plan.adds, paths |-> plan.paths, faults |-> plan.faults,
               rebinds |-> plan.rebinds, pings |-> plan.pings]

\* A path that the server can never pad is challenged for ever: the plan
\* bounds the packets sent to a connection ID.
Repeats(e, pid) ==
    Cardinality({n \in conn[e].nonces : n[1] = conn[e].paths[pid].dcid}) >= plan.pkts

Capped(e) == \E pid \in DOMAIN conn[e].paths : Repeats(e, pid)

Send(e) ==
    /\ Ready(conn[e], e) /\ ~Capped(e)
    /\ LET pid == SelectSendPath(conn[e], e)
           err == SendError(conn[e], pid)
           r   == SendPacket(conn[e], pid, e)
       IN IF err # None
          THEN conn' = [conn EXCEPT ![e].err = err] /\ net' = net
          ELSE conn' = [conn EXCEPT ![e] = r.c] /\ net' = net \cup {r.pkt}
    /\ UNCHANGED <<plan, nat, left>>

Fault(cost) == left.faults >= cost /\ left' = [left EXCEPT !.faults = @ - cost]

\* The address under which pkt arrives, or None when nobody is there.
ArrivalAddr(pkt) ==
    IF pkt.from = Client THEN nat[pkt.addr]
    ELSE IF \E a \in Addrs : nat[a] = pkt.addr THEN CHOOSE a \in Addrs : nat[a] = pkt.addr ELSE None

Arrives(pkt) == pkt.size <= plan.mtu /\ ArrivalAddr(pkt) # None

\* The receiver took a packet in, before which it was c and after which it is d.
Accepted(c, d) == \E s \in DOMAIN d.spaces : d.spaces[s].recv # IF s \in DOMAIN c.spaces THEN c.spaces[s].recv ELSE {}

\* A packet arrives and its acknowledgment comes back, or is lost.
Deliver(pkt, acked) ==
    /\ pkt \in net /\ Arrives(pkt)
    /\ Fault(IF acked THEN 0 ELSE 1)
    /\ net' = net \ {pkt}
    /\ LET to   == Peer(pkt.from)
           recv == RecvPacket(conn[to], to, ArrivalAddr(pkt), pkt)
           sent == IF acked /\ pkt \in conn[pkt.from].unacked /\ Accepted(conn[to], recv)
                   THEN FoldLeft(OnFrameAcked, Settled(conn[pkt.from], pkt), pkt.frames)
                   ELSE conn[pkt.from]
       IN conn' = [conn EXCEPT ![to] = recv, ![pkt.from] = sent]
    /\ UNCHANGED <<plan, nat>>

\* The network loses a packet; what cannot pass is lost at no cost.
Drop(pkt) ==
    /\ pkt \in net
    /\ Fault(IF Arrives(pkt) THEN 1 ELSE 0)
    /\ net' = net \ {pkt}
    /\ UNCHANGED <<plan, conn, nat>>

\* Loss detection gives a packet up; too early while it still travels.
Lose(e, pkt) ==
    /\ pkt \in conn[e].unacked
    /\ Fault(IF pkt \in net THEN 1 ELSE 0)
    /\ conn' = [conn EXCEPT ![e] = FoldLeft(OnFrameLost, Settled(@, pkt), pkt.frames)]
    /\ UNCHANGED <<plan, net, nat>>

\* A challenge or its answer is still on its way.
ChalTravels(e, pid) ==
    \/ \E pkt \in net : pkt.from = e /\ pkt.pid = pid /\ HasType(pkt.frames, "PathChallenge")
    \/ \E q \in DOMAIN conn[Peer(e)].paths :
         LET p == conn[Peer(e)].paths[q]
         IN p.recvChals # <<>> /\ p.dcid # None /\ NeedSendValidationFrames(p, IsServer(Peer(e)))
    \/ \E pkt \in net : pkt.from = Peer(e) /\ HasType(pkt.frames, "PathResponse")

\* on_timeout, PathChallenge: the first n challenges of the path are overdue.
ChalTimeout(e, pid, n) ==
    /\ pid \in DOMAIN conn[e].paths
    /\ n \in 1..Len(conn[e].paths[pid].sentChals)
    /\ Fault(IF ChalTravels(e, pid) THEN 1 ELSE 0)
    /\ conn' = [conn EXCEPT ![e].paths[pid] = OnPathChalTimeout(@, n)]
    /\ UNCHANGED <<plan, net, nat>>

\* The application adds a path (add_path).
OpenPath(a) ==
    /\ left.paths > 0
    /\ a \in Addrs \ {Home}
    /\ conn' = [conn EXCEPT ![Client] = AddPath(@, a)]
    /\ left' = [left EXCEPT !.paths = @ - 1]
    /\ UNCHANGED <<plan, net, nat>>

\* The endpoint issues another connection ID (conn_add_scids); a failure is
\* only logged.
IssueScid(e) ==
    /\ left.adds[e] > 0
    /\ conn' = [conn EXCEPT ![e].cids = AddScid(@).m]
    /\ left' = [left EXCEPT !.adds[e] = @ - 1]
    /\ UNCHANGED <<plan, net, nat>>

\* The application pings.
PingPeer(e) ==
    /\ left.pings > 0
    /\ conn' = [conn EXCEPT ![e].paths = MarkPing(@, conn[e].multipath)]
    /\ left' = [left EXCEPT !.pings = @ - 1]
    /\ UNCHANGED <<plan, net, nat>>

\* A NAT gives the client's address a another face.  This server keeps sending
\* to the old one (migrate_path is not implemented).
Rebind(a, b) ==
    /\ left.rebinds > 0
    /\ a \in Addrs /\ b \in plan.faces /\ \A x \in Addrs : nat[x] # b
    /\ nat' = [nat EXCEPT ![a] = b]
    /\ left' = [left EXCEPT !.rebinds = @ - 1]
    /\ UNCHANGED <<plan, conn, net>>

\* An error closes the connection.
Alive == \A e \in Ends : conn[e].err = None

\* Nothing travels, nothing waits for an acknowledgment or an answer, and
\* there is nothing to send.
Quiet ==
    /\ Alive /\ net = {}
    /\ \A e \in Ends : /\ conn[e].unacked = {}
                       /\ ~Ready(conn[e], e)
                       /\ \A pid \in DOMAIN conn[e].paths : conn[e].paths[pid].sentChals = <<>>

Finished ==
    /\ Quiet \/ ~Alive \/ \E e \in Ends : Capped(e)
    /\ UNCHANGED vars

Next ==
    \/ /\ Alive
       /\ \/ \E e \in Ends : Send(e)
          \/ \E pkt \in net, acked \in BOOLEAN : Deliver(pkt, acked)
          \/ \E pkt \in net : Drop(pkt)
          \/ \E e \in Ends : \E pkt \in conn[e].unacked : Lose(e, pkt)
          \/ \E e \in Ends : \E pid \in DOMAIN conn[e].paths :
               \E n \in 1..Len(conn[e].paths[pid].sentChals) : ChalTimeout(e, pid, n)
          \/ \E a \in Addrs : OpenPath(a)
          \/ \E e \in Ends : IssueScid(e)
          \/ \E e \in Ends : PingPeer(e)
          \/ \E a \in Addrs, b \in plan.faces : Rebind(a, b)
    \/ Finished

Spec == Init /\ [][Next]_vars

----------------------------------------------------------------------------

\* An ID is queued to be announced again that the peer has retired already.
Revoked(c) == ~ToSet(c.cids.toAdvertise) \subseteq Seqs(c.cids.scids)

\* Two endpoints that only exchange what this code sends do not make each
\* other fail: no frame is refused, no connection ID is missing when a packet
\* is to be sent or parsed, no queue of IDs overflows (cid.rs, recv_frame,
\* send_packet).  Three crossings do break it in the code and are left out: an
\* ID that is announced with a retire_prior_to above its own number, which the
\* peer refuses (cid.rs:509 against 383); an announcement declared lost after
\* the peer retired the ID, whose repetition ends the sender
\* (connection.rs:2831, cid.rs:505); and, with several paths, a retirement of
\* the first path's ID that arrives on another path before anything else was
\* sent on the first (connection.rs:871, 469).  Nothing else does.
NoCidError ==
    \A e \in Ends :
        \/ conn[e].err = None
        \/ conn[e].err = "InternalError" /\ Revoked(conn[e])
        \/ conn[e].err = "InternalError" /\ conn[e].multipath /\ ScidOfActive(conn[e]) = None
        \/ conn[e].err = "ProtocolViolation" /\ conn[Peer(e)].backdated

\* A connection ID a path sends to is one the peer still accepts: retirement
\* crosses with packets, acknowledgments and new IDs in any order.
PeerKnowsDcids ==
    \A e \in Ends : \A pid \in DOMAIN conn[e].paths :
        conn[e].paths[pid].dcid # None =>
            /\ conn[e].paths[pid].dcid \in Seqs(conn[Peer(e)].cids.scids)
            /\ ~conn[e].cids.zeroDcid =>
                 \A q \in DOMAIN conn[e].paths \ {pid} : conn[e].paths[q].dcid # conn[e].paths[pid].dcid

\* A packet number identifies a packet: the pair of dcid number and packet
\* number that makes the nonce is never used twice, and no packet that arrives
\* for the first time is taken for a duplicate, because the two ends agree on
\* which paths share a packet number space (get_or_create_path, add_path).
PacketsUnambiguous ==
    \A e \in Ends : ~conn[e].mistaken /\ (conn[e].multipath => ~conn[e].reused)

\* The server owes a challenge for which the client's packets have not given
\* it the credit; no timer runs (path.rs:303).
Starved(e, p) == IsServer(e) /\ ~p.verified /\ p.needChal /\ p.limit < MinPathProbeSize

\* The server's path has an answer and no proof of its MTU, and is never padded.
Unpadded(p) == p.state = ValidatingMTU /\ p.limit <= p.mds

\* Nobody is any more where the path leads.
Deserted(p) == \A a \in Addrs : nat[a] # p.addr

\* When everything is quiet no validation is left half done: a path that has a
\* dcid is valid or has failed, unless the server is short of credit for a
\* challenge and waits for more packets from an address it was rebound to;
\* and every chunk of the stream has arrived whatever the scheduler did.
\* The endpoints go on sending, up to the plan's bound, in two cases only: the
\* server's path was reached by a packet so small that its challenges are
\* never padded, which the code then repeats for ever (path.rs:316, 224), or
\* the server sends to an address that the client no longer has.
PathsSettle ==
    /\ Quiet => /\ \A e \in Ends : \A pid \in DOMAIN conn[e].paths :
                     LET p == conn[e].paths[pid]
                     IN p.dcid # None => p.state \in {Validated, Failed} \/ Starved(e, p)
                /\ conn[Server].received = 1..plan.chunks
    /\ \A pid \in DOMAIN conn[Server].paths :
          Repeats(Server, pid) =>
              \E q \in DOMAIN conn[Server].paths :
                  LET p == conn[Server].paths[q]
                  IN p.dcid = conn[Server].paths[pid].dcid /\ (Unpadded(p) \/ Deserted(p))
    /\ Capped(Client) => \E pid \in DOMAIN conn[Server].paths : Unpadded(conn[Server].paths[pid])

\* The MTU search ends within one percent of what the path carries, and only
\* probes are ever larger than that.
MtuFound ==
    LET d == conn[Client].paths[0].pmtu
        target == Smaller(plan.mtu, Smaller(plan.peerMax, MaxPacketSizeIpv4))
    IN plan.mtuSearch =>
         /\ d.current <= plan.mtu
         /\ \A pkt \in net : HasType(pkt.frames, "MtuProbe") \/ pkt.size <= plan.mtu
         /\ Quiet => 100 * d.current >= 99 * target

(* The endpoints' sets of connection IDs agree, but for the crossings that *)
(* NoCidError names.                                                       *)
CidsAgree == NoCidError /\ PeerKnowsDcids

(* Validation comes to an end, except on a path that the server cannot pad *)
(* or has no credit for, and so does the search for the MTU.               *)
PathsReady == PathsSettle /\ MtuFound

-----------------------------------------------------------------------------
(***************************************************************************)
(* Instances of TqPaths for TLC.                                           *)
(***************************************************************************)
CONSTANTS a0, a1, a2, b1

Quietly ==
    [ multipath |-> FALSE, scheduler |-> "MinRtt", srtt |-> [a \in {a0, a1, a2, b1} |-> IF a = a0 THEN 2 ELSE 1],
      zero |-> FALSE, limit |-> 2, adds |-> [e \in Ends |-> 0], paths |-> 0, chunks |-> 0, faults |-> 0,
      rebinds |-> 0, faces |-> {b1}, pings |-> 0, nat |-> [a \in {a0, a1} |-> a],
      mtu |-> 1500, mtuSearch |-> FALSE, peerMax |-> 1500, ctl |-> 100, pkts |-> 40 ]

Issues(c, s) == [e \in Ends |-> IF e = Client THEN c ELSE s]

\* Retirement with a lost packet and with a second path; validation with lost
\* and late packets; a client without connection IDs.
SinglePath ==
    { [Quietly EXCEPT !.adds = Issues(0, 2), !.chunks = 1, !.faults = 1],
      [Quietly EXCEPT !.adds = Issues(1, 1)],
      [Quietly EXCEPT !.adds = Issues(0, 2), !.paths = 1],
      [Quietly EXCEPT !.paths = 1, !.faults = 1],
      [Quietly EXCEPT !.paths = 1, !.faults = 2, !.zero = TRUE] }

\* Every scheduler with a lost packet, a ping, three paths, and a retirement.
Multipath ==
    {[Quietly EXCEPT !.multipath = TRUE, !.paths = 1, !.chunks = 2, !.faults = 1, !.scheduler = s]
        : s \in {"MinRtt", "Redundant", "RoundRobin"}}
    \cup {[Quietly EXCEPT !.multipath = TRUE, !.paths = 1, !.chunks = 2, !.pings = 1],
          [Quietly EXCEPT !.multipath = TRUE, !.paths = 2, !.limit = 3, !.nat = [a \in {a0, a1, a2} |-> a]],
          [Quietly EXCEPT !.multipath = TRUE, !.paths = 1, !.chunks = 1, !.adds = Issues(0, 1)]}

\* A NAT rebinds the client's address: control packets large enough for the
\* server to answer with a full datagram, too small for that, and so small
\* that a lost challenge leaves it no credit for the next.
Rebinding ==
    {[Quietly EXCEPT !.rebinds = 1, !.chunks = 2, !.ctl = 500, !.multipath = m, !.pings = 1, !.pkts = 6]
        : m \in BOOLEAN}
    \cup {[Quietly EXCEPT !.rebinds = 1, !.ctl = 100, !.pings = 1, !.pkts = 5],
          [Quietly EXCEPT !.rebinds = 1, !.ctl = 30, !.pings = 1, !.pkts = 6, !.faults = 1, !.zero = TRUE]}

\* Paths that carry less than the first probe, with and without a peer that
\* accepts less.
MtuSearch ==
    {[Quietly EXCEPT !.mtuSearch = TRUE, !.mtu = m, !.peerMax = p] : m \in {1300, 1500}, p \in {1400, 1500}}

ModelPlans == SinglePath \cup Multipath \cup Rebinding \cup MtuSearch
=============================================================================
