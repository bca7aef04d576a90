----------------------------- MODULE TqEndpoint -----------------------------
(***************************************************************************)
(* The state of a tquic endpoint (endpoint.rs, timer_queue.rs, the queues  *)
(* of lib.rs) and of the connections it owns, as far as an endpoint sees   *)
(* them: the IDs they hold, the events they raise, whether they have       *)
(* packets to send, and which timer they run.  The connection proper is    *)
(* the subject of TqConnection and TqPaths; here its messages are Initial, *)
(* Accept (the server's flight), Fin (the client's), Done, Data and Ack.   *)
(***************************************************************************)
EXTENDS Integers, Sequences, SequencesExt, FiniteSets, Functions

(* Address tokens and stateless reset tokens (token.rs), and the packets   *)
(* that carry them (packet.rs).  Sealing and opening is exact crypto: a    *)
(* token opens only under its key and with the same additional data.  An   *)
(* address is a record of an ip and a port.                                *)
CONSTANTS None, Lifetime

MinResetPacketLen == 21
MaxResetPacketLen == 42

\* The additional data of a token: a Retry token is bound to the whole
\* address and to the ID the server chose, a resume token to the ip alone.
AdditionalData(type, address, rscid) ==
    [ip |-> address.ip, port |-> IF type = "Retry" THEN address.port ELSE None,
     rscid |-> IF type = "Retry" THEN rscid ELSE None]

\* encode: what the holder of a token can see is its type alone.
Encode(type, key, address, odcid, rscid, now) ==
    [type |-> type, key |-> key, aad |-> AdditionalData(type, address, rscid),
     odcid |-> odcid, issued |-> now]

NewRetryToken(key, address, odcid, rscid, now) == Encode("Retry", key, address, odcid, rscid, now)

NewResumeToken(key, address, now) == Encode("Resume", key, address, None, None, now)

\* decode: the token's claims, or None for InvalidToken.
Decode(key, token, address, dcid, now) ==
    IF \/ token.key # key
       \/ token.aad # AdditionalData(token.type, address, dcid)
       \/ token.issued > now \/ now - token.issued > Lifetime
    THEN None
    ELSE [odcid |-> IF token.type = "Retry" THEN token.odcid ELSE dcid,
          rscid |-> IF token.type = "Retry" THEN dcid ELSE None]

\* The token the owner of the key hands out for one of its IDs.
ResetToken(key, cid) == [owner |-> key, cid |-> cid]


\* send_stateless_reset: the length of the answer to a packet, 0 for none.
\* Every answer is shorter than what it answers.
ResetLen(len, cidLen) ==
    LET out == len - 1
    IN IF len < cidLen + 19 \/ out < MinResetPacketLen THEN 0
       ELSE IF out > MaxResetPacketLen THEN MaxResetPacketLen ELSE out

-----------------------------------------------------------------------------
CONSTANTS Empty, Junk, MaxPtos, MaxZeroRtt, CacheSize, BatchSize, CidLen

Without(f, S) == Restrict(f, DOMAIN f \ S)

Bind(f, x, v) == (x :> v) @@ f

\* A packet.  Short-header packets show their destination ID and nothing else.
Blank == [type |-> "", addr |-> None, dcid |-> Junk, scid |-> None, token |-> None, arg |-> None,
          key |-> None, len |-> 60]

IsShort(pkt) == pkt.type \in {"Data", "Ack", "Done", "Close", "NewCid", "Retire", "Reset"}

-----------------------------------------------------------------------------
\* Connection, new_client and new_server.
ConnNew(server, scid, addr) ==
    [server |-> server, addr |-> addr, state |-> "open", up |-> FALSE,
     scids |-> {scid}, dcid |-> None, dcids |-> {}, odcid |-> None, rscid |-> None,
     key |-> None, didRetry |-> FALSE, gotPeer |-> FALSE, token |-> None,
     events |-> <<>>, out |-> <<>>, again |-> None, ptos |-> 0, readable |-> FALSE,
     gotReset |-> FALSE, tick |-> FALSE, sendable |-> FALSE]

NewClient(scid, odcid, addr, token) ==
    [ConnNew(FALSE, scid, addr) EXCEPT !.dcid = odcid, !.key = odcid, !.token = token,
                                       !.out = <<[type |-> "Initial", arg |-> None]>>, !.again = "Initial"]

\* A token of either kind makes the server announce the IDs it decodes to.
NewServer(scid, addr, token) ==
    IF token = None THEN ConnNew(TRUE, scid, addr)
    ELSE [ConnNew(TRUE, scid, addr) EXCEPT !.odcid = token.odcid, !.rscid = token.rscid, !.didRetry = TRUE]

\* EventQueue: add, and is_empty.  A connection of an endpoint has it enabled.
AddEvent(c, type, arg) == [c EXCEPT !.events = Append(@, [type |-> type, arg |-> arg])]
HasEvents(c) == c.events # <<>>

Queue(c, type, arg) == [c EXCEPT !.out = Append(@, [type |-> type, arg |-> arg])]

\* process_retry: once, and only for the ID the Initial packet was sent to.
ProcessRetry(c, pkt) ==
    IF c.server \/ c.didRetry \/ pkt.arg # c.dcid THEN c
    ELSE [c EXCEPT !.token = pkt.token, !.didRetry = TRUE, !.gotPeer = FALSE, !.odcid = c.dcid,
                   !.dcid = pkt.scid, !.rscid = pkt.scid, !.key = pkt.scid,
                   !.out = <<[type |-> "Initial", arg |-> None]>>, !.again = "Initial"]

\* try_set_dcid_for_initial_path.
SetPeerCid(c, pkt) ==
    IF c.gotPeer THEN c
    ELSE [c EXCEPT !.dcid = pkt.scid, !.dcids = {[cid |-> pkt.scid, token |-> None]}, !.gotPeer = TRUE,
                   !.odcid = IF ~c.server THEN (IF c.odcid = None THEN c.dcid ELSE c.odcid)
                             ELSE IF c.didRetry THEN c.odcid ELSE pkt.dcid]

\* The handshake is complete: on_handshake_completed raises the events.
Established(c, token) ==
    LET tokened == IF token = None THEN c ELSE AddEvent(c, "ResetTokenAdvertised", token)
        told(v) == AddEvent([v EXCEPT !.up = TRUE], "ConnectionEstablished", None)
        asked(v) == IF Empty \in v.scids THEN v ELSE AddEvent(v, "ScidToAdvertise", None)
    IN asked(told(tokened))

\* A damaged packet fixes the keys and no more; frames the connection refuses
\* close it.
ServerInitial(c, pkt) ==
    IF c.key \notin {None, pkt.key} THEN c
    ELSE IF pkt.arg = "Damaged" THEN [c EXCEPT !.key = pkt.key]
    ELSE LET known == SetPeerCid([c EXCEPT !.key = pkt.key], pkt)
         IN IF pkt.arg = "Refused" THEN [known EXCEPT !.state = "closing"]
            ELSE IF c.gotPeer THEN known ELSE [Queue(known, "Accept", None) EXCEPT !.again = "Accept"]

\* The server's flight: the IDs it announces must be the ones the client saw.
ClientAccept(c, pkt) ==
    IF c.up \/ pkt.key # c.key \/ (c.gotPeer /\ pkt.scid # c.dcid) THEN c
    ELSE LET known == SetPeerCid(c, pkt)
         IN IF pkt.arg # [odcid |-> known.odcid, rscid |-> known.rscid]
            THEN [known EXCEPT !.state = "closing", !.again = None]
            ELSE [Queue([Established(known, pkt.token) EXCEPT !.out = <<>>], "Fin", None) EXCEPT !.again = "Fin"]

\* Connection::recv, by the frames a packet stands for.
ConnRecv(c, pkt) ==
    IF c.state # "open" THEN c
    ELSE CASE pkt.type = "Retry" -> ProcessRetry(c, pkt)
           [] pkt.type = "Initial" /\ c.server -> ServerInitial(c, pkt)
           [] pkt.type = "Accept" /\ ~c.server -> ClientAccept(c, pkt)
           [] pkt.type = "Fin" /\ c.server ->
                Queue(IF c.up THEN c ELSE [Established(c, None) EXCEPT !.again = None], "Done", None)
           [] pkt.type = "ZeroRTT" /\ c.server -> [c EXCEPT !.readable = TRUE]
           [] pkt.type = "Done" /\ c.up -> [c EXCEPT !.again = IF @ = "Fin" THEN None ELSE @]
           [] pkt.type = "Data" /\ c.up -> Queue([c EXCEPT !.readable = TRUE], "Ack", None)
           [] pkt.type = "Ack" /\ c.up -> [c EXCEPT !.again = IF @ = "Data" THEN None ELSE @]
           [] pkt.type = "Close" /\ c.up -> [c EXCEPT !.state = "draining"]
           [] pkt.type = "NewCid" /\ c.up /\ (\A d \in c.dcids : d.cid # pkt.arg.cid) ->
                AddEvent([c EXCEPT !.dcids = @ \cup {pkt.arg}], "DcidAdvertised", pkt.arg.token)
           [] pkt.type = "Retire" /\ c.up /\ pkt.arg \in c.scids /\ pkt.dcid # pkt.arg ->
                AddEvent([c EXCEPT !.scids = @ \ {pkt.arg}], "ScidRetired", pkt.arg)
           [] OTHER -> c

\* reset, on a stateless reset of the peer.
ConnReset(c) == IF c.state \in {"closed", "draining"} THEN c ELSE [c EXCEPT !.state = "draining", !.gotReset = TRUE]

\* close, by the application.
ConnClose(c) == IF c.state # "open" THEN c ELSE [c EXCEPT !.state = "closing", !.again = None]

\* send: one packet, or None for Done.
ConnSend(c, resetKey) ==
    LET pkt(type, arg) == [Blank EXCEPT !.type = type, !.addr = c.addr, !.dcid = c.dcid, !.arg = arg,
                                        !.scid = CHOOSE s \in c.scids : TRUE,
                                        !.key = c.key,
                                        !.token = IF type = "Initial" THEN c.token
                                                  ELSE IF type # "Accept" THEN None
                                                  ELSE ResetToken(resetKey, CHOOSE s \in c.scids : TRUE)]
    IN IF c.state = "closing"
       THEN [c |-> [c EXCEPT !.state = "draining", !.out = <<>>], pkt |-> pkt("Close", None)]
       ELSE IF c.out = <<>> THEN [c |-> c, pkt |-> None]
       ELSE [c |-> [c EXCEPT !.out = Tail(@)],
             pkt |-> pkt(Head(c.out).type, IF Head(c.out).type = "Accept"
                                           THEN [odcid |-> c.odcid, rscid |-> c.rscid] ELSE Head(c.out).arg)]

\* timeout: the timer that runs out next.
ConnTimeout(c) ==
    IF c.state = "closed" THEN None
    ELSE IF c.state = "draining" THEN "drain"
    ELSE IF c.again # None /\ c.ptos < MaxPtos THEN "pto" ELSE "idle"

\* on_timeout, when that timer has run out.
ConnOnTimeout(c) ==
    IF ConnTimeout(c) \in {"drain", "idle"} THEN [c EXCEPT !.state = "closed"]
    ELSE IF ConnTimeout(c) = "pto" THEN [Queue(c, c.again, None) EXCEPT !.ptos = @ + 1] ELSE c

\* is_ready, after the events have been polled.
IsReady(c) == HasEvents(c) \/ c.readable \/ c.state = "closed"

-----------------------------------------------------------------------------
\* Endpoint, new.
EndpointNew(server) ==
    [server |-> server, conns |-> <<>>, next |-> 0, cids |-> <<>>, addrs |-> <<>>, tokens |-> <<>>,
     timers |-> <<>>, tickable |-> {}, sendable |-> {}, packets |-> <<>>, buffer |-> <<>>, closed |-> FALSE,
     phase |-> "idle", ready |-> {}, sent |-> {}, failed |-> FALSE, log |-> <<>>,
     orphans |-> {}]

\* ConnectionQueues::is_empty
QueuesEmpty(ep) == ep.tickable = {} /\ ep.sendable = {}

\* mark_tickable and mark_sendable keep the flag and the queue in step.
MarkTickable(ep, idx, b) ==
    [ep EXCEPT !.conns[idx].tick = b, !.tickable = IF b THEN @ \cup {idx} ELSE @ \ {idx}]

MarkSendable(ep, idx, b) ==
    [ep EXCEPT !.conns[idx].sendable = b, !.sendable = IF b THEN @ \cup {idx} ELSE @ \ {idx}]

\* ConnectionTable::insert: an index is never used twice.
InsertConn(ep, c) == [ep EXCEPT !.conns = Bind(@, ep.next, c), !.next = @ + 1]

InsertRoute(ep, cid, addr, idx) ==
    IF cid # Empty THEN [ep EXCEPT !.cids = Bind(@, cid, idx)] ELSE [ep EXCEPT !.addrs = Bind(@, addr, idx)]

\* ConnectionRoutes::find.
Find(ep, pkt) ==
    LET byId == IF pkt.dcid # Empty
                THEN (IF pkt.dcid \in DOMAIN ep.cids THEN ep.cids[pkt.dcid] ELSE None)
                ELSE (IF pkt.addr \in DOMAIN ep.addrs THEN ep.addrs[pkt.addr] ELSE None)
    IN IF byId # None \/ pkt.len < MinResetPacketLen \/ pkt.type # "Reset" \/ pkt.token \notin DOMAIN ep.tokens
       THEN [idx |-> byId, reset |-> FALSE]
       ELSE [idx |-> ep.tokens[pkt.token], reset |-> TRUE]

(* Mutant: the route of the first ID the client chose is forgotten. *)
RemoveRoutesKeepsOdcid(ep, c) ==
    [ep EXCEPT !.cids = Without(@, c.scids \ {Empty}),
               !.addrs = IF Empty \in c.scids THEN Without(@, {c.addr}) ELSE @,
               !.tokens = Without(@, {d.token : d \in c.dcids})]

\* ConnectionRoutes::remove.
RemoveRoutes(ep, c) ==
    [ep EXCEPT !.cids = Without(@, (c.scids \ {Empty}) \cup (IF c.server THEN {c.odcid} ELSE {})),
               !.addrs = IF Empty \in c.scids THEN Without(@, {c.addr}) ELSE @,
               !.tokens = Without(@, {d.token : d \in c.dcids})]

\* TimerQueue::add and del, for what the connection's timeout returns.
SetTimer(ep, idx) ==
    LET t == ConnTimeout(ep.conns[idx])
    IN [ep EXCEPT !.timers = IF t = None THEN Without(@, {idx}) ELSE Bind(@, idx, t)]

\* PacketBuffer: an LRU cache of 0-RTT packets that came before their Initial.
BufferAdd(buffer, pkt) ==
    LET has == SelectSeq(buffer, LAMBDA b : b.dcid = pkt.dcid)
        other == SelectSeq(buffer, LAMBDA b : b.dcid # pkt.dcid)
    IN IF has # <<>>
       THEN Append(other, [has[1] EXCEPT !.pkts = IF Len(@) < MaxZeroRtt THEN Append(@, pkt) ELSE @])
       ELSE Append(IF Len(other) = CacheSize THEN Tail(other) ELSE other, [dcid |-> pkt.dcid, pkts |-> <<pkt>>])

Buffered(buffer, dcid) == FlattenSeq([i \in DOMAIN buffer |-> IF buffer[i].dcid = dcid THEN buffer[i].pkts ELSE <<>>])

BufferDel(buffer, dcid) == SelectSeq(buffer, LAMBDA b : b.dcid # dcid)

AddPacket(ep, pkt) == [ep EXCEPT !.packets = Append(@, pkt)]
=============================================================================
