---------------------------- MODULE TqEndpoints -----------------------------
(***************************************************************************)
(* A client and a server endpoint of tquic that exchange datagrams over a  *)
(* network that loses, duplicates and reorders them.  An endpoint is       *)
(* single threaded: its calls (connect, recv, on_timeout, the application) *)
(* happen between two runs of process_connections, and that one goes       *)
(* through its connections in the arbitrary order of a hash set, one step  *)
(* each.  The server may restart, forgetting all but its reset key.        *)
(***************************************************************************)
EXTENDS TqEndpoint

CONSTANTS Client, Server, Alien, Plans

VARIABLES plan, ep, net, left, fresh

vars == <<plan, ep, net, left, fresh>>

Ends == {Client, Server}

Peer(e) == IF e = Client THEN Server ELSE Client

Init ==
    /\ plan \in Plans
    /\ ep = [e \in Ends |-> EndpointNew(e = Server)]
    /\ net = {}
    /\ left = plan.left
    /\ fresh = 1

\* At most n of the plan's faults of a kind.
Fault(kind, n) == left[kind] >= n /\ left' = [left EXCEPT ![kind] = @ - n]

-----------------------------------------------------------------------------
\* connect: the connection is created, routed and marked for processing.
Connect ==
    LET idx  == ep[Client].next
        scid == IF plan.zero THEN Empty ELSE fresh
        addr == [ip |-> 1, port |-> idx]
        made == InsertConn(ep[Client], NewClient(scid, fresh + 1, addr, plan.token))
        told == [made EXCEPT !.log = Bind(@, idx, <<"created">>)]
    IN /\ Fault("connects", 1)
       /\ ep[Client].phase = "idle" /\ ~ep[Client].closed
       /\ ep' = [ep EXCEPT ![Client] = InsertRoute(MarkTickable(told, idx, TRUE), scid, addr, idx)]
       /\ fresh' = fresh + 2
       /\ net' = IF plan.zeroRtt THEN net \cup {[to |-> Server, pkt |-> [Blank EXCEPT !.type = "ZeroRTT", !.addr = addr,
                                                                         !.dcid = fresh + 1, !.scid = scid]]}
                 ELSE net
       /\ UNCHANGED plan

\* validate_address_token: each configured key in turn.
ValidateAddressToken(token, addr, dcid) ==
    LET opened == {Decode(k, token, addr, dcid, plan.now) : k \in plan.keys} \ {None}
    IN IF opened = {} THEN None ELSE CHOOSE t \in opened : TRUE

\* send_retry: a fresh ID, and a token that remembers the original one.
SendRetry(s, pkt) ==
    AddPacket(s, [Blank EXCEPT !.type = "Retry", !.addr = pkt.addr, !.dcid = pkt.scid, !.scid = fresh,
                               !.token = NewRetryToken(plan.key, pkt.addr, pkt.dcid, fresh, plan.now), !.arg = pkt.dcid])

SendVersionNegotiation(s, pkt) ==
    AddPacket(s, [Blank EXCEPT !.type = "VersionNegotiation", !.addr = pkt.addr, !.dcid = pkt.scid, !.scid = pkt.dcid])

SendStatelessReset(s, e, pkt) ==
    LET len == ResetLen(pkt.len, CidLen)
    IN IF len = 0 THEN s
       ELSE AddPacket(s, [Blank EXCEPT !.type = "Reset", !.addr = pkt.addr, !.token = ResetToken(e, pkt.dcid), !.len = len])

\* recv, a server creates a connection for an Initial packet.  When the
\* connection refuses it, recv returns before the buffered packets.
Accept(s, pkt, token) ==
    LET idx   == s.next
        odcid == IF token = None THEN pkt.dcid ELSE token.odcid
        made  == InsertConn(s, NewServer(fresh, pkt.addr, token))
        ways  == InsertRoute(InsertRoute(made, fresh, pkt.addr, idx), odcid, pkt.addr, idx)
        told  == [ways EXCEPT !.log = Bind(@, idx, <<"created">>)]
        fed   == MarkTickable([told EXCEPT !.conns[idx] = ConnRecv(@, pkt)], idx, TRUE)
    IN IF fed.conns[idx].state = "closing" THEN fed
       ELSE [fed EXCEPT !.conns[idx] = FoldLeft(ConnRecv, @, Buffered(s.buffer, pkt.dcid)),
                        !.buffer = BufferDel(@, pkt.dcid)]

\* recv, an Initial packet that belongs to no connection.
RecvInitial(s, pkt) ==
    LET token == IF pkt.token = None THEN None ELSE ValidateAddressToken(pkt.token, pkt.addr, pkt.dcid)
    IN IF Cardinality(DOMAIN s.conns) >= plan.maxConns THEN s
       ELSE IF pkt.arg = "UnknownVersion" THEN SendVersionNegotiation(s, pkt)
       ELSE IF pkt.token # None /\ token = None
       THEN IF pkt.token.type = "Retry" THEN s ELSE SendRetry(s, pkt)
       ELSE IF pkt.token = None /\ plan.retry THEN SendRetry(s, pkt)
       ELSE Accept(s, pkt, token)

\* recv.
RecvDatagram(e, pkt) ==
    LET s     == ep[e]
        found == Find(s, pkt)
    IN IF found.idx # None /\ found.idx \in DOMAIN s.conns
       THEN LET woken == MarkTickable(s, found.idx, TRUE)
            IN IF found.reset /\ plan.reset THEN [woken EXCEPT !.conns[found.idx] = ConnReset(@)]
               ELSE [woken EXCEPT !.conns[found.idx] = ConnRecv(@, pkt)]
       ELSE IF ~s.server THEN (IF plan.reset THEN SendStatelessReset(s, e, pkt) ELSE s)
       ELSE IF pkt.type = "Initial" /\ ~s.closed THEN RecvInitial(s, pkt)
       ELSE IF pkt.type = "ZeroRTT" /\ ~s.closed THEN [s EXCEPT !.buffer = BufferAdd(@, pkt)]
       ELSE IF IsShort(pkt) /\ pkt.dcid # Empty /\ plan.reset THEN SendStatelessReset(s, e, pkt)
       ELSE s

\* A datagram arrives; the network may keep a copy.
Recv(e, m, copy) ==
    /\ m.to = e /\ ep[e].phase = "idle"
    /\ IF copy THEN Fault("dups", 1) ELSE UNCHANGED left
    /\ ep' = [ep EXCEPT ![e] = RecvDatagram(e, m.pkt)]
    /\ fresh' = IF m.pkt.type = "Initial" THEN fresh + 1 ELSE fresh
    /\ net' = IF copy THEN net ELSE net \ {m}
    /\ UNCHANGED plan

\* Another program asks for a connection, in a version of QUIC the server does
\* not know or with frames it refuses.
Stranger(arg) ==
    /\ Fault("strangers", 1)
    /\ net' = net \cup {[to |-> Server, pkt |-> [Blank EXCEPT !.type = "Initial", !.addr = Alien, !.dcid = fresh,
                                                            !.scid = Junk, !.key = fresh, !.arg = arg]]}
    /\ fresh' = fresh + 1
    /\ UNCHANGED <<plan, ep>>

\* The network damages the payload of an Initial packet.
Spoil(m) ==
    /\ m.pkt.type = "Initial" /\ m.pkt.arg = None
    /\ Fault("spoils", 1)
    /\ net' = (net \ {m}) \cup {[m EXCEPT !.pkt.arg = "Damaged"]}
    /\ UNCHANGED <<plan, ep, fresh>>

Busy(s) == s.packets # <<>> \/ ~QueuesEmpty(s) \/ s.phase # "idle"

\* process_connections goes round for ever: tickable_next and sendable_next
\* leave the index in its queue, and no connection is there to take it out.
Spinning(s) == s.phase # "idle" /\ s.conns = <<>> /\ ~QueuesEmpty(s)

\* The network loses a packet, and what nobody is going to read.
Lose(m) ==
    /\ Fault("drops", IF Spinning(ep[m.to]) THEN 0 ELSE 1)
    /\ net' = net \ {m}
    /\ UNCHANGED <<plan, ep, fresh>>

-----------------------------------------------------------------------------
Still == net = {} /\ \A e \in Ends : Busy(ep[e]) => Spinning(ep[e])

\* on_timeout of the endpoint, one connection of it.  A short timer may run
\* out while packets are on their way; the idle timeout is far longer than anything in flight.
OnTimeout(e, idx) ==
    LET s     == ep[e]
        woken == MarkTickable([s EXCEPT !.timers = Without(@, {idx})], idx, TRUE)
        kind  == s.timers[idx]
    IN /\ s.phase = "idle"
       /\ idx \in DOMAIN s.conns
       /\ kind = "idle" => /\ plan.idle /\ Still
                           /\ \A x \in Ends : "pto" \notin Range(ep[x].timers)
       /\ IF kind \in {"pto", "drain"} /\ ~Still THEN Fault("early", 1) ELSE UNCHANGED left
       /\ ep' = [ep EXCEPT ![e] = IF kind # ConnTimeout(s.conns[idx]) THEN woken
                                  ELSE [woken EXCEPT !.conns[idx] = ConnOnTimeout(@)]]
       /\ UNCHANGED <<plan, net, fresh>>

\* process_connections begins.
Process(e) ==
    /\ ep[e].phase = "idle" /\ Busy(ep[e])
    /\ ep' = [ep EXCEPT ![e].phase = "tick", ![e].ready = {}, ![e].sent = {}]
    /\ UNCHANGED <<plan, net, left, fresh>>

\* An event of a connection, and what the endpoint does with it.
HandleEvent(s, e, idx, event, cid) ==
    CASE event.type = "ConnectionEstablished" -> [s EXCEPT !.log[idx] = Append(@, "established")]
      [] event.type = "ScidToAdvertise" ->
           InsertRoute([s EXCEPT !.conns[idx] = Queue([@ EXCEPT !.scids = @ \cup {cid}], "NewCid",
                                                      [cid |-> cid, token |-> ResetToken(e, cid)])],
                       cid, None, idx)
      [] event.type = "ScidRetired" -> [s EXCEPT !.cids = Without(@, {event.arg})]
      [] event.type \in {"DcidAdvertised", "ResetTokenAdvertised"} -> [s EXCEPT !.tokens = Bind(@, event.arg, idx)]

\* process_connection of a connection that is not closed: its events, its
\* readable streams, its timer.  The handler may leave data unread.
TickOpen(s, e, idx, reads) ==
    LET polled == FoldLeft(LAMBDA t, ev : HandleEvent(t, e, idx, ev, fresh), s, s.conns[idx].events)
        read   == [polled EXCEPT !.conns[idx].events = <<>>, !.conns[idx].readable = @ /\ ~reads]
        timed  == SetTimer(MarkSendable(read, idx, TRUE), idx)
    IN MarkTickable([timed EXCEPT !.ready = IF IsReady(timed.conns[idx]) THEN @ \cup {idx} ELSE @], idx, FALSE)

\* The connection is closed: it is reported and forgotten.
TickClosed(s, idx) ==
    LET told == MarkSendable(MarkTickable([s EXCEPT !.log[idx] = Append(@, "closed")], idx, FALSE), idx, FALSE)
        c    == s.conns[idx]
        gone == RemoveRoutes(told, c)
    IN [gone EXCEPT !.conns = Without(@, {idx}), !.timers = Without(@, {idx}),
                    !.orphans = IF c.server /\ c.odcid = None THEN @ \cup {c.key} ELSE @]

Tick(e, idx, reads) ==
    LET s == ep[e]
    IN /\ s.phase = "tick" /\ idx \in s.tickable
       /\ IF idx \in DOMAIN s.conns /\ s.conns[idx].readable /\ ~reads THEN Fault("lazy", 1) ELSE UNCHANGED left
       /\ ep' = [ep EXCEPT ![e] = IF idx \notin DOMAIN s.conns THEN s
                                  ELSE IF s.conns[idx].state = "closed" THEN TickClosed(s, idx)
                                  ELSE TickOpen(s, e, idx, reads)]
       /\ fresh' = IF idx \in DOMAIN s.conns /\ HasEvents(s.conns[idx]) THEN fresh + 1 ELSE fresh
       /\ UNCHANGED <<plan, net>>

TickDone(e) ==
    /\ ep[e].phase = "tick" /\ ep[e].tickable = {}
    /\ ep' = [ep EXCEPT ![e].phase = "send"]
    /\ UNCHANGED <<plan, net, left, fresh>>

\* The sender takes the first n packets of the queue.
Hand(e, s, n) ==
    /\ ep' = [ep EXCEPT ![e] = [s EXCEPT !.packets = SubSeq(@, n + 1, Len(@))]]
    /\ net' = net \cup {[to |-> Peer(e), pkt |-> s.packets[i]] : i \in {j \in 1..n : s.packets[j].addr # Alien}}

\* The sender or the connection fails, and process_connections returns at once.
Fail(e, s) ==
    /\ Fault("fails", 1)
    /\ ep' = [ep EXCEPT ![e] = [s EXCEPT !.phase = "idle", !.failed = TRUE]]
    /\ net' = net

\* send_packets_out, one packet of one connection and a full batch.
Send(e, idx) ==
    LET s == ep[e]
        r == ConnSend(s.conns[idx], e)
        put == [s EXCEPT !.conns[idx] = r.c, !.sent = @ \cup {idx}]
        t == IF idx \notin DOMAIN s.conns THEN s
             ELSE IF r.pkt = None THEN MarkSendable(put, idx, FALSE) ELSE AddPacket(put, r.pkt)
    IN /\ s.phase = "send" /\ idx \in s.sendable
       /\ IF idx \in DOMAIN s.conns /\ s.conns[idx].state \in {"draining", "closed"}
          THEN ep' = [ep EXCEPT ![e] = MarkSendable(s, idx, FALSE)] /\ UNCHANGED <<net, left>>
          ELSE \/ idx \in DOMAIN s.conns /\ Fail(e, s)
               \/ IF Len(t.packets) < BatchSize
                  THEN ep' = [ep EXCEPT ![e] = t] /\ UNCHANGED <<net, left>>
                  ELSE \/ Hand(e, t, BatchSize) /\ UNCHANGED left
                       \/ Hand(e, t, 0) /\ Fault("blocks", 1)
                       \/ Fail(e, t)
       /\ UNCHANGED <<plan, fresh>>

\* The timers of the connections that tried to send.
(* Mutant: the timers are left as they were before the packets went out. *)
TimersOfSentStale(s) == s

TimersOfSent(s) == FoldLeft(SetTimer, s, SetToSeq(s.sent \cap DOMAIN s.conns))

\* What is left of the queue goes out, and the connections that are still
\* ready are marked again.
Rearm(s) ==
    FoldLeft(LAMBDA t, idx : MarkTickable(t, idx, TRUE), [s EXCEPT !.phase = "idle", !.ready = {}],
             SetToSeq(s.ready \cap DOMAIN s.conns))

Flush(e) ==
    LET s == TimersOfSent(ep[e])
    IN /\ ep[e].phase = "send" /\ ep[e].sendable = {}
       /\ \/ Hand(e, Rearm(s), Len(s.packets)) /\ UNCHANGED left
          \/ s.packets # <<>> /\ Hand(e, Rearm(s), 0) /\ Fault("blocks", 1)
          \/ s.packets # <<>> /\ Fail(e, s)
       /\ UNCHANGED <<plan, fresh>>

-----------------------------------------------------------------------------
\* The application, through conn_get_mut, between two calls.
Usable(e, idx) == ep[e].phase = "idle" /\ idx \in DOMAIN ep[e].conns

Write(idx) ==
    /\ Usable(Client, idx) /\ ep[Client].conns[idx].up /\ ep[Client].conns[idx].again = None
    /\ left.restarts = 0
    /\ Fault("writes", 1)
    /\ ep' = [ep EXCEPT ![Client] = MarkTickable([@ EXCEPT !.conns[idx] = [Queue(@, "Data", None) EXCEPT !.again = "Data", !.ptos = 0]],
                                                 idx, TRUE)]
    /\ UNCHANGED <<plan, net, fresh>>

Close(e, idx) ==
    /\ Usable(e, idx) /\ ep[e].conns[idx].up /\ ep[e].conns[idx].state = "open"
    /\ Fault("closes", 1)
    /\ ep' = [ep EXCEPT ![e] = MarkTickable([@ EXCEPT !.conns[idx] = ConnClose(@)], idx, TRUE)]
    /\ UNCHANGED <<plan, net, fresh>>

\* The connection moves on to another ID of its peer and retires the old one.
SwitchCid(e, idx, d) ==
    LET c == ep[e].conns[idx]
    IN /\ Usable(e, idx) /\ c.up /\ c.state = "open"
       /\ d \in c.dcids /\ d.cid # c.dcid
       /\ Fault("switches", 1)
       /\ ep' = [ep EXCEPT ![e] = MarkTickable([@ EXCEPT !.conns[idx] =
                                     Queue([c EXCEPT !.dcid = d.cid, !.dcids = {x \in @ : x.cid # c.dcid}], "Retire", c.dcid)],
                                   idx, TRUE)]
       /\ UNCHANGED <<plan, net, fresh>>

\* Endpoint::close.  By force, it clears all tables and neither queue.
CloseEndpoint(e, force) ==
    /\ ep[e].phase = "idle" /\ ~ep[e].closed
    /\ Fault(IF force THEN "kills" ELSE "stops", 1)
    /\ ep' = [ep EXCEPT ![e] = IF ~force THEN [@ EXCEPT !.closed = TRUE]
                               ELSE [@ EXCEPT !.closed = TRUE, !.timers = <<>>, !.cids = <<>>, !.addrs = <<>>,
                                              !.tokens = <<>>, !.conns = <<>>,
                                              !.log = [i \in DOMAIN @ |-> IF i \in DOMAIN ep[e].conns
                                                                          THEN Append(@[i], "closed") ELSE @[i]]]]
    /\ UNCHANGED <<plan, net, fresh>>

\* The server process dies and starts anew; the reset key is configured.
Restart ==
    /\ Fault("restarts", 1)
    /\ Still /\ \A idx \in DOMAIN ep[Client].conns : ep[Client].conns[idx].again = None
    /\ ep[Client].conns # <<>>
    /\ ep' = [ep EXCEPT ![Server] = EndpointNew(TRUE)]
    /\ UNCHANGED <<plan, net, fresh>>

Quiet == Still /\ \A e \in Ends : ep[e].conns = <<>> /\ ep[e].timers = <<>>

Finished == Quiet /\ UNCHANGED vars

\* The steps of process_connections commute with all the other endpoint
\* does: they touch the network only to add to it.  They run to the end.
Processing ==
    \E e \in Ends :
        \/ TickDone(e) \/ Flush(e)
        \/ \E idx \in ep[e].tickable, reads \in BOOLEAN : Tick(e, idx, reads)
        \/ \E idx \in ep[e].sendable : Send(e, idx)

Calls ==
    \/ Connect \/ Restart \/ Finished
    \/ \E arg \in {"UnknownVersion", "Refused"} : Stranger(arg)
    \/ \E m \in net : Lose(m) \/ Spoil(m) \/ \E e \in Ends, copy \in BOOLEAN : Recv(e, m, copy)
    \/ \E e \in Ends :
         \/ \E idx \in DOMAIN ep[e].timers : OnTimeout(e, idx)
         \/ Process(e)
         \/ \E idx \in DOMAIN ep[e].conns :
              \/ Close(e, idx)
              \/ \E d \in ep[e].conns[idx].dcids : SwitchCid(e, idx, d)
         \/ \E force \in BOOLEAN : CloseEndpoint(e, force)
    \/ \E idx \in DOMAIN ep[Client].conns : Write(idx)

Next == IF \A e \in Ends : ep[e].phase = "idle" \/ Spinning(ep[e]) THEN Calls ELSE Processing

Spec == Init /\ [][Next]_vars /\ WF_vars(Next)

-----------------------------------------------------------------------------
(* A datagram that carries an ID of a live connection reaches that          *)
(* connection (endpoint.rs, the routes follow the IDs through connect,      *)
(* accept, ScidToAdvertise, ScidRetired and the clean-up), no ID leads to a *)
(* connection that is gone, and one Initial, however often it arrives,      *)
(* makes one connection.  Two cases are left out.  The route of a           *)
(* connection that never decrypted an Initial is never removed, because     *)
(* odcid() is unknown until then (connection.rs:606, endpoint.rs:971).      *)
(* After a Retry an Initial that arrives twice makes two connections,       *)
(* because the route is made for the ID before the Retry (endpoint.rs:280). *)
RoutesAgree ==
    \A e \in Ends :
        LET s == ep[e]
        IN /\ \A idx \in DOMAIN s.conns : \A cid \in s.conns[idx].scids \ {Empty} :
                  cid \in DOMAIN s.cids /\ s.cids[cid] = idx
           /\ \A cid \in DOMAIN s.cids : s.cids[cid] \in DOMAIN s.conns \/ cid \in s.orphans
           /\ s.server => \A i, j \in DOMAIN s.conns :
                             s.conns[i].key = s.conns[j].key /\ s.conns[i].rscid = None => i = j

(* Between two calls a connection that has something to do is in the        *)
(* tickable queue, and one that waits has in the timer queue the timer it   *)
(* waits for (endpoint.rs:606-619, 742-750).  The exception is a call of    *)
(* process_connections that failed: it drops the list of ready connections. *)
NoLostWakeup ==
    \A e \in Ends :
        LET s == ep[e]
        IN s.phase = "idle" /\ ~s.failed =>
             \A idx \in DOMAIN s.conns :
                LET c == s.conns[idx]
                IN \/ c.tick /\ idx \in s.tickable
                   \/ /\ ~IsReady(c) /\ c.state # "closing" /\ (c.out # <<>> => c.state = "draining")
                      /\ idx \in DOMAIN s.timers /\ s.timers[idx] = ConnTimeout(c)

(* The handler hears of a connection once when it is created, at most once  *)
(* when it is established and once when it is closed, in this order, and a  *)
(* connection is gone exactly when it has been reported closed              *)
(* (lib.rs, TransportHandler).                                              *)
CallbacksInOrder ==
    \A e \in Ends : \A idx \in DOMAIN ep[e].log :
        /\ ep[e].log[idx] \in {<<"created">>, <<"created", "established">>, <<"created", "closed">>,
                               <<"created", "established", "closed">>}
        /\ (idx \in DOMAIN ep[e].conns) = (Last(ep[e].log[idx]) # "closed")

(* Routes, connections and what the application was told agree.            *)
EndpointSound == RoutesAgree /\ CallbacksInOrder


-----------------------------------------------------------------------------
(* Plans for TqEndpoints: how the server is configured, what the client    *)
(* brings, and how many faults of each kind may happen.                    *)
Base == [retry |-> FALSE, reset |-> TRUE, zero |-> FALSE, zeroRtt |-> FALSE, idle |-> TRUE, token |-> None,
         key |-> 1, keys |-> {1}, now |-> 10, maxConns |-> 2,
         left |-> [connects |-> 1, dups |-> 0, drops |-> 0, early |-> 0, lazy |-> 0, blocks |-> 0, fails |-> 0,
                   writes |-> 0, closes |-> 0, switches |-> 0, stops |-> 0, kills |-> 0, restarts |-> 0, strangers |-> 0, spoils |-> 0]]

Home == [ip |-> 1, port |-> 0]

Tokens == {NewResumeToken(1, [ip |-> 1, port |-> 5], 9), NewResumeToken(1, Home, 2),
           NewResumeToken(1, [ip |-> 2, port |-> 0], 9), NewResumeToken(3, Home, 9)}

\* A lossy handshake, with and without Retry, with good and bad tokens.
Handshakes ==
    {[Base EXCEPT !.left.dups = 1, !.left.drops = 1, !.zero = TRUE],
     [Base EXCEPT !.left.dups = 1, !.left.early = 1, !.zeroRtt = TRUE],
     [Base EXCEPT !.left.drops = 2]}
      \cup {[Base EXCEPT !.left.drops = 1, !.left.dups = 1, !.retry = TRUE, !.zeroRtt = TRUE],
            [Base EXCEPT !.left.strangers = 1, !.left.stops = 1],
            [Base EXCEPT !.left.strangers = 1, !.maxConns = 1],
            [Base EXCEPT !.left.spoils = 1, !.left.drops = 2, !.zeroRtt = TRUE]}
      \cup {[Base EXCEPT !.token = t, !.left.dups = 1] : t \in Tokens}

\* A long life: data, a change of ID, an orderly end, a slow application, a
\* sender that blocks or fails.
Lives ==
    {[Base EXCEPT !.left.closes = 1, !.left.writes = 1, !.left.early = 1],
     [Base EXCEPT !.left.closes = 1, !.left.switches = 1],
     [Base EXCEPT !.left.kills = 1, !.left.writes = 1],
     [Base EXCEPT !.left.lazy = 1, !.left.writes = 1, !.left.blocks = 1],
     [Base EXCEPT !.left.lazy = 1, !.left.writes = 1, !.left.fails = 1],
     [Base EXCEPT !.left.connects = 2, !.maxConns = 1]}

\* The server loses its state.
Restarts ==
    {[Base EXCEPT !.idle = FALSE, !.left.restarts = 1, !.left.writes = 1, !.left.drops = 1, !.zero = z] : z \in BOOLEAN}

ModelPlans == Handshakes \cup Lives \cup Restarts
=============================================================================
