------------------------------- MODULE TqWire --------------------------------
(***************************************************************************)
(* What two tquic endpoints put on the wire.  A behaviour is one of two    *)
(* kinds.  "item": something is written to a buffer (a frame, a header,    *)
(* transport parameters, a field section, a Retry, a datagram of packets)  *)
(* and read back,                                                          *)
(* all of it or what a buffer that ends early holds.  "keys": endpoints    *)
(* "a" and "b" of a confirmed connection exchange 1-RTT packets over a     *)
(* network that loses, repeats and reorders them, and update their keys.   *)
(***************************************************************************)
EXTENDS TqPacket, TqQpack

CONSTANTS
  Items,        \* what is written
  Starts,       \* how many packets each side has exchanged when "keys" begins
  MaxSent,      \* packets each side sends then
  MaxUpdates    \* key updates each side starts

VARIABLES
  plan,      \* the kind of the behaviour, and the item
  stage,     \* of an item: "write", "read", "done"
  wire,      \* the bytes of the item, and what the AEAD sealed for them
  got,       \* what was read
  cut,       \* how many bytes of the wire there were to read
  ep,        \* the endpoints
  net,       \* the packets that were sent
  started,   \* how many key updates each side started
  opened,    \* by receiver, the numbers of the packets it opened
  again,     \* ... those it opened more than once
  first,     \* ... the whole number of the first packet opened in its phase
  hasty      \* a key update was started before any packet was acknowledged
itemVars == <<stage, wire, got, cut>>
keyVars == <<ep, net, started, opened, again, first, hasty>>
vars == <<plan, itemVars, keyVars>>

Ends == {"a", "b"}
Peer(e) == IF e = "a" THEN "b" ELSE "a"

-----------------------------------------------------------------------------
(* One packet of a datagram in send_packet, from its header to its         *)
(* protection: item is [type, pn, acked, frames], and the packet is the    *)
(* id-th the AEAD seals.  Packet numbers are those of RFC 9000 here; TLC's *)
(* integers leave no room for a window of four bytes.                      *)
Real == INSTANCE TqPacketNumber WITH
          PnWindow <- <<256, 65536, 16777216, 1073741824>>, PnLimit <- 1073741824
Dcid == <<1, 2, 3, 4>>
Scid == <<5, 6>>
SealKey(type) ==
  IF type = "initial" THEN InitialKeys(Dcid, FALSE).seal ELSE KeyOf(TlsSecret(type))
OpenKey(type) ==
  IF type = "initial" THEN InitialKeys(Dcid, TRUE).open ELSE KeyOf(TlsSecret(type))
Payload(frames) ==
  LET bytes == FlattenSeq([i \in DOMAIN frames |-> ToBytes(frames[i])]) IN
  IF Len(bytes) < MinPayloadLen THEN bytes \o Zeros(MinPayloadLen - Len(bytes)) ELSE bytes
Written(id, x, pnl, plain) ==
  LET before == HeaderBytes(Header(x.type, Version1, Dcid, Scid, pnl, 0, <<>>, FALSE))
                  \o (IF x.type = "one_rtt" THEN <<>> ELSE V2(pnl + Len(plain) + TagLen))
                  \o BigEndian(x.pn, pnl)
  IN [bytes |-> EncryptPacket(id, SealKey(x.type), before, pnl, plain),
      sealed |-> Sealed(SealKey(x.type), 0, x.pn, before, plain)]
WritePacket(id, x) == Written(id, x, Real!PacketNumLen(x.pn, x.acked), Payload(x.frames))
WriteDatagram(xs) ==
  LET add(w, p) == [bytes |-> w.bytes \o p.bytes, sealed |-> Append(w.sealed, p.sealed)] IN
  FoldLeft(LAMBDA w, i : add(w, WritePacket(i, xs[i])), [bytes |-> <<>>, sealed |-> <<>>],
           [i \in DOMAIN xs |-> i])

(* The frames of a payload, as recv_packet takes them one by one.          *)
RECURSIVE ReadFrames(_, _, _)
ReadFrames(b, type, frames) ==
  LET next(x) == IF x.err # NoError THEN <<Frame("error", <<x.err>>)>>
                 ELSE ReadFrames(SubSeq(b, x.len + 1, Len(b)), type, Append(frames, x.frame))
  IN IF b = <<>> THEN frames ELSE next(FromBytes(b, type))

(* recv_packet from the header to the payload: n of buf's bytes follow the *)
(* length field.  largest is largest_rx_pkt_num.                           *)
Opened(sealed, d, off, n, type, pn) ==
  {[type |-> type, pn |-> pn, frames |-> ReadFrames(m.plain, type, <<>>)] :
     m \in DecryptPayload(sealed, d.buf, off + d.hdr.pkt_num_len, n - d.hdr.pkt_num_len, 0, pn, OpenKey(type))}
ReadProtected(sealed, d, off, n, largest) ==
  IF d.err # NoError THEN {}
  ELSE Opened(sealed, d, off, n, d.hdr.type,
              Real!DecodePacketNum(largest, d.hdr.pkt_num, d.hdr.pkt_num_len))
ReadLength(h) ==
  IF h.hdr.type = "one_rtt" THEN [err |-> NoError, b |-> h.rest, out |-> <<Len(h.rest)>>]
  ELSE ReadVarint(Reader(h.rest))

(* recv: the packets of a datagram one after the other                     *)
RECURSIVE ReadDatagram(_, _, _)
ReadDatagram(sealed, b, largest) ==
  LET rest(h, r, packets) ==
        SetToSeq(packets) \o ReadDatagram(sealed, SubSeq(r.b, r.out[1] + 1, Len(r.b)), largest)
      sized(h, r) ==
        IF r.err # NoError \/ r.out[1] > Len(r.b) THEN <<>>
        ELSE rest(h, r, ReadProtected(sealed, DecryptHeader(b, Len(b) - Len(r.b), h.hdr, OpenKey(h.hdr.type), FALSE),
                                      Len(b) - Len(r.b), r.out[1], largest))
      parsed(h) == IF h.err # NoError THEN <<>> ELSE sized(h, ReadLength(h))
  IN IF b = <<>> THEN <<>> ELSE parsed(HeaderRead(b, Len(Dcid)))

-----------------------------------------------------------------------------
Bytes(b) == [bytes |-> b, sealed |-> <<>>]
WriteItem(x) ==
  CASE x.kind = "frame" -> Bytes(ToBytes(x.frame))
    [] x.kind = "header" -> Bytes(HeaderBytes(x.hdr))
    [] x.kind = "params" -> Bytes(EncodeParams(x.tp, x.server))
    [] x.kind = "retry" -> [bytes |-> RetryBytes(1, Scid, Dcid, x.token),
                            sealed |-> <<RetrySealed(Scid, Dcid, x.odcid, x.token)>>]
    [] x.kind = "versions" -> Bytes(VersionNegotiation(Scid, Dcid, 77))
    [] x.kind = "fields" -> Bytes(EncodeFields(x.fields))
    [] x.kind = "datagram" -> WriteDatagram(x.packets)
ReadItem(x, w, b) ==
  CASE x.kind = "frame" -> FromBytes(b, "one_rtt")
    [] x.kind = "header" -> [HeaderRead(b, Len(x.hdr.dcid)) EXCEPT !.rest = HeaderInfo(b, Len(x.hdr.dcid))]
    [] x.kind = "params" -> DecodeParams(b, ~x.server)
    [] x.kind = "retry" -> [err |-> IF VerifyRetry(w.sealed, b, x.odcid) THEN NoError ELSE "CryptoFail",
                            hdr |-> HeaderRead(b, Len(Dcid)).hdr]
    [] x.kind = "versions" -> HeaderRead(b, Len(Dcid))
    [] x.kind = "fields" -> DecodeFields(b, x.max)
    [] x.kind = "datagram" -> ReadDatagram(w.sealed, b, x.largest)

(* A buffer that ends early: a datagram arrives whole or not at all.       *)
Cuts(x, b) == IF x.kind \in {"frame", "fields"} THEN 0..Len(b) ELSE {Len(b)}

Write ==
  /\ plan.kind = "item" /\ stage = "write"
  /\ wire' = WriteItem(plan.item) /\ stage' = "read"
  /\ UNCHANGED <<plan, got, cut, keyVars>>
Read ==
  /\ plan.kind = "item" /\ stage = "read"
  /\ cut' \in Cuts(plan.item, wire.bytes)
  /\ got' = ReadItem(plan.item, wire, SubSeq(wire.bytes, 1, cut'))
  /\ stage' = "done"
  /\ UNCHANGED <<plan, wire, keyVars>>

-----------------------------------------------------------------------------
Send(e) ==
  /\ plan.kind = "keys" /\ ep[e].next_pkt < plan.start + MaxSent
  /\ SentLen(ep[e]) \in PnLens
  /\ net' = net \cup {PacketOf(ep[e], e, SentLen(ep[e]))}
  /\ ep' = [ep EXCEPT ![e] = AfterSend(@)]
  /\ UNCHANGED <<plan, itemVars, started, opened, again, first, hasty>>

(* A packet that was sent is delivered at any time later, never, or more   *)
(* than once.                                                              *)
Recv(p) ==
  LET e == Peer(p.from) IN
  /\ \E k \in {RecvPacket(ep[e], p)}, ok \in {Accepted(ep[e], p)} :
       /\ ep' = [ep EXCEPT ![e] = k]
       /\ opened' = IF ok THEN [opened EXCEPT ![e] = @ \cup {p.pn}] ELSE opened
       /\ again' = IF ok /\ p.pn \in opened[e] THEN again \cup {<<e, p.pn>>} ELSE again
       /\ first' = IF ok /\ k.first_recv # None /\ (k.phase # ep[e].phase \/ first[e] = None)
                   THEN [first EXCEPT ![e] = p.pn]
                   ELSE first
  /\ UNCHANGED <<plan, itemVars, net, started, hasty>>

(* initiate_key_update                                                     *)
Update(e) ==
  /\ plan.kind = "keys" /\ started[e] < MaxUpdates
  /\ KeyUpdateAllowed(ep[e])
  /\ ep' = [ep EXCEPT ![e] = UpdateKey(@)]
  /\ started' = [started EXCEPT ![e] = @ + 1]
  /\ first' = [first EXCEPT ![e] = None]
  /\ hasty' = (hasty \/ ep[e].largest_acked = None)
  /\ UNCHANGED <<plan, itemVars, net, opened, again>>

(* Timer::KeyDiscard                                                       *)
Discard(e) ==
  /\ ep[e].discard
  /\ ep' = [ep EXCEPT ![e] = DiscardPrevKey(@)]
  /\ UNCHANGED <<plan, itemVars, net, started, opened, again, first, hasty>>

(* Nothing is left to do.                                                  *)
Finished ==
  /\ IF plan.kind = "item" THEN stage = "done"
     ELSE \A e \in Ends : ep[e].next_pkt = plan.start + MaxSent
  /\ UNCHANGED vars

Next ==
  \/ Write \/ Read \/ Finished
  \/ \E e \in Ends : Send(e) \/ Update(e) \/ Discard(e)
  \/ \E p \in net : Recv(p)

(* An endpoint that has sent n packets and received the peer's n, all of   *)
(* them acknowledged.                                                      *)
Warm(e, n) ==
  IF n = 0 THEN KeysNew(e, Peer(e))
  ELSE [KeysNew(e, Peer(e)) EXCEPT
          !.next_pkt = n, !.first_sent = 0, !.first_recv = 0, !.largest_acked = n - 1,
          !.largest_rx = n - 1, !.need_ack = n - 1,
          !.win = FoldLeft(WindowInsert, WindowNew, [i \in 1..n |-> i - 1])]
Init ==
  /\ plan \in [kind : {"item"}, item : Items, start : {0}]
            \cup [kind : {"keys"}, item : {<<>>}, start : Starts]
  /\ stage = "write" /\ wire = <<>> /\ got = <<>> /\ cut = 0
  /\ ep = [e \in Ends |-> Warm(e, plan.start)]
  /\ net = {} /\ started = [e \in Ends |-> 0]
  /\ opened = [e \in Ends |-> 0..(plan.start - 1)] /\ again = {}
  /\ first = [e \in Ends |-> IF plan.start = 0 THEN None ELSE 0]
  /\ hasty = FALSE
Spec == Init /\ [][Next]_vars

-----------------------------------------------------------------------------
Generation(k) == Len(k.keys.open.secret.labels)
GenerationOf(p) == Len(p.pkt_key.labels) - 1

(* Both sides go through the key generations together: while a side only   *)
(* updates after an acknowledgment in its phase (key_update_allowed), it   *)
(* is never two generations from its peer, whatever packets were lost,     *)
(* repeated, late or opened with the previous keys.                        *)
GenerationsClose ==
  plan.kind = "keys" /\ ~hasty => Generation(ep["a"]) - Generation(ep["b"]) \in -1..1

(* A packet that is due: new, in the window of numbers the receiver tells  *)
(* apart, near enough to be decoded, and under keys it still has or can    *)
(* derive.                                                                 *)
Due(e, p) ==
  LET k == ep[e] IN
  /\ p.pn \notin opened[e] /\ p.pn >= k.win.lower
  /\ 2 * p.pn > 2 * (k.largest_rx + 1) - PnWindow[p.len]
  /\ \/ GenerationOf(p) \in {Generation(k), Generation(k) + 1}
     \/ GenerationOf(p) = Generation(k) - 1 /\ k.prev # {}
(* select_key compares numbers that are cut to their low bytes, which goes *)
(* wrong once they wrap within a key phase.                                *)
Wrapped(e, p) ==
  /\ first[e] # None
  /\ (p.truncated > ep[e].first_recv) # (p.pn > first[e])

(* recv_packet opens every packet that is due, whichever of the two phases *)
(* it belongs to and in whatever order packets, updates and the discarding *)
(* of keys come, and opens none twice: the number is decoded right, the    *)
(* window knows what was seen and select_key picks the keys of the         *)
(* sender's generation.                                                    *)
PacketsOpened ==
  plan.kind = "keys" =>
    /\ again = {}
    /\ \A p \in net : LET e == Peer(p.from) IN
         Due(e, p) /\ ~hasty /\ ~Wrapped(e, p) => Accepted(ep[e], p)

(* Key updates lose no packet and never run ahead of the peer.             *)
KeysFollow == PacketsOpened /\ GenerationsClose

(* A key update is followed by the peer: the packets sent under the next   *)
(* keys are opened (key_update and key_update_with_packet_reorder test     *)
(* it), also late in a connection.                                         *)
UpdateFollowed ==
  plan.kind = "keys" /\ ~hasty =>
    \A p \in net : LET e == Peer(p.from) IN
      Due(e, p) /\ GenerationOf(p) = Generation(ep[e]) + 1 => Accepted(ep[e], p)

(* encode leaves out a 0, and decode then supplies a default that is not 0 *)
Kept(tp) == tp.ack_delay_exponent # 0 /\ tp.max_ack_delay # 0 /\ tp.max_udp_payload_size # 0
SentBy(server, tp) ==
  IF server THEN tp
  ELSE [tp EXCEPT !.original_destination_connection_id = {}, !.stateless_reset_token = {},
                  !.retry_source_connection_id = {}]
Plain(packets) ==
  [i \in DOMAIN packets |-> [type |-> packets[i].type, pn |-> packets[i].pn,
                             frames |-> ReadFrames(Payload(packets[i].frames), packets[i].type, <<>>)]]

LowerNames(fields) == [i \in DOMAIN fields |-> <<Lower(fields[i][1]), fields[i][2]>>]

(* What is written is what is read: a frame comes back with the length     *)
(* that wire_len promised, and never from fewer bytes (a run of padding is *)
(* padding however long); headers, transport parameters, Retry and Version *)
(* Negotiation packets come back; the packets of a datagram come back in   *)
(* order with their numbers and frames, so the header protection, the      *)
(* truncated number, the length field and the AEAD of both sides agree.    *)
(* QPACK gives back the fields, their names in lower case, within the      *)
(* limit on a section, and of a section cut short no field that is not it. *)
WireIntact ==
  (plan.kind = "item" /\ stage = "done") =>
    LET x == plan.item IN
    CASE x.kind = "frame" ->
           /\ Len(wire.bytes) = WireLen(x.frame)
           /\ IF cut = Len(wire.bytes)
              THEN got = [err |-> NoError, frame |-> x.frame, len |-> cut]
              ELSE got.err # NoError \/ x.frame.t = "paddings"
      [] x.kind = "header" ->
           /\ got.err = NoError
           /\ got.hdr = [x.hdr EXCEPT !.pkt_num_len = 0]
           /\ got.rest.info = <<x.hdr.type # "one_rtt", x.hdr.version, x.hdr.dcid>>
      [] x.kind = "params" ->
           IF \A id \in DOMAIN NumberName : NumberAllowed(id, x.tp[NumberName[id]])
           THEN Kept(x.tp) => got = [err |-> NoError, tp |-> SentBy(x.server, x.tp)]
           ELSE got.err = "TransportParameterError"
      [] x.kind = "retry" -> got.err = NoError /\ got.hdr.token = x.token /\ got.hdr.scid = Scid
      [] x.kind = "versions" -> got.err = NoError /\ got.hdr.type = "version_negotiation" /\ got.hdr.dcid = Dcid
      [] x.kind = "fields" ->
           IF cut < Len(wire.bytes)
           THEN got.err # NoError \/ IsStrictPrefix(got.fields, LowerNames(x.fields))
           ELSE IF FoldLeft(LAMBDA n, f : n + FieldSize(f), 0, x.fields) <= x.max
           THEN got = [err |-> NoError, fields |-> LowerNames(x.fields)]
           ELSE got.err = Refused
      [] x.kind = "datagram" -> got = Plain(x.packets)

-----------------------------------------------------------------------------
(***************************************************************************)
(* TqWire with frames, headers and parameters at the boundaries of their   *)
(* encodings, and two endpoints whose packet numbers wrap after eight.     *)
(***************************************************************************)
Window == <<8, 32, 128, 512>>
Edges == {0, 63, 64, 16383, 16384, 1073741823, 1073741824}

Text(n) == [i \in 1..n |-> i % 256]
AckSets == {{<<0, 1>>}, {<<3, 70>>}, {<<0, 1>>, <<2, 3>>}, {<<0, 2>>, <<65, 66>>, <<70, 200>>},
            {<<10, 20000>>, <<20001, 20002>>}}
AckFrames == {Frame("ack", <<r, d, e>>) : r \in AckSets, d \in {0, 64}, e \in {<<>>, <<1, 64, 0>>}}
OneNumber == {Frame(t, <<n>>) : t \in {"max_data", "data_blocked", "retire_connection_id"}, n \in Edges}
TwoNumbers == {Frame(t, <<n, m>>) : t \in {"stop_sending", "max_stream_data", "stream_data_blocked"},
                                    n \in {0, 64}, m \in Edges}
ManyStreams == {Frame(t, <<bidi, n>>) : t \in {"max_streams", "streams_blocked"}, bidi \in BOOLEAN, n \in Edges}
Data == {Frame("stream", <<4, off, fin, Text(n)>>) : off \in {0, 64, 16384}, fin \in BOOLEAN, n \in {0, 1, 65}}
          \cup {Frame("crypto", <<off, Text(n)>>) : off \in {0, 16383}, n \in {1, 64}}
Others ==
  {Frame("paddings", <<3>>), Frame("ping", <<>>), Frame("handshake_done", <<>>),
   Frame("reset_stream", <<64, 7, 16384>>), Frame("new_token", <<Text(64)>>),
   Frame("new_connection_id", <<64, 1, Text(8), Text(16)>>),
   Frame("path_challenge", <<Text(8)>>), Frame("path_response", <<Text(8)>>),
   Frame("connection_close", <<10, 64, Text(3)>>), Frame("application_close", <<16384, Text(0)>>),
   Frame("path_abandon", <<64, 1, Text(2)>>), Frame("path_status", <<64, 1, 16384>>)}
Frames == AckFrames \cup OneNumber \cup TwoNumbers \cup ManyStreams \cup Data \cup Others

Headers ==
  {Header(t, 1, d, s, n, 0, IF t = "initial" THEN k ELSE <<>>, FALSE) :
     t \in {"initial", "zero_rtt", "handshake"}, d \in {<<>>, Text(20)}, s \in {<<>>, Text(4)}, n \in {1, 4},
     k \in {<<>>, Text(64)}}
    \cup {Header("one_rtt", 0, d, <<>>, n, 0, <<>>, FALSE) : d \in {<<>>, Text(8)}, n \in {1, 4}}

Preferred == [v4 |-> {<<Text(4), 443>>}, v6 |-> {}, cid |-> Text(8), token |-> Text(16)]
Full == [DefaultParams EXCEPT
  !.original_destination_connection_id = {Text(8)}, !.max_idle_timeout = 30000,
  !.stateless_reset_token = {Text(16)}, !.initial_max_data = 1073741824,
  !.initial_max_stream_data_bidi_local = 16384, !.initial_max_streams_bidi = 64,
  !.disable_active_migration = TRUE, !.active_conn_id_limit = 64, !.enable_multipath = TRUE,
  !.initial_source_connection_id = {<<>>}, !.retry_source_connection_id = {Text(20)}]
ParamSets ==
  {DefaultParams, Full, [Full EXCEPT !.ack_delay_exponent = 21], [Full EXCEPT !.max_ack_delay = 16384],
   [Full EXCEPT !.max_ack_delay = 16383, !.disable_encryption = TRUE],
   [Full EXCEPT !.max_udp_payload_size = 1199], [Full EXCEPT !.max_ack_delay = 0]}

Pkt(type, pn, acked, frames) == [type |-> type, pn |-> pn, acked |-> acked, frames |-> frames]
Ping == <<Frame("ping", <<>>)>>
Hello == <<Frame("crypto", <<0, Text(70)>>), Frame("paddings", <<30>>)>>
Mixed == <<Frame("ack", <<{<<0, 1>>, <<2, 3>>}, 64, <<>>>>), Frame("stream", <<4, 64, TRUE, Text(5)>>)>>
Datagrams ==
  {[packets |-> <<Pkt("initial", pn, acked, Hello), Pkt("handshake", pn, acked, Ping)>>, largest |-> large] :
     pn \in {0, 1}, acked \in {NoneAcked}, large \in {0, 1}}
    \cup {[packets |-> <<Pkt("handshake", pn, pn - 1, Ping), Pkt("one_rtt", pn, a, Mixed)>>, largest |-> pn - 1] :
            pn \in {127, 128, 255, 256, 40000, 16777216}, a \in {100}}
    \cup {[packets |-> <<Pkt("zero_rtt", 3, NoneAcked, <<Frame("stream", <<0, 0, FALSE, Text(2)>>)>>),
                         Pkt("one_rtt", 5, NoneAcked, Ping)>>, largest |-> 0]}

(* Some rows of the tables of tquic: bytes 0, !, &, /, 0, A, a, e, g, x,   *)
(* and the static entries for :path, age, :method and origin               *)
Code(len, n) == [i \in 1..len |-> (n \div 2^(len - i)) % 2]
Huffman ==
  [c \in {0, 33, 38, 47, 48, 65, 97, 101, 103, 120} |->
     CASE c = 0 -> Code(13, 8184) [] c = 33 -> Code(10, 1016) [] c = 38 -> Code(8, 248)
       [] c = 47 -> Code(6, 24) [] c = 48 -> Code(5, 0) [] c = 65 -> Code(6, 33)
       [] c = 97 -> Code(5, 3) [] c = 101 -> Code(5, 5) [] c = 103 -> Code(6, 38)
       [] c = 120 -> Code(7, 121)]
Age == <<97, 103, 101>>
Origin == <<111, 114, 105, 103, 105, 110>>
Path == <<58, 112, 97, 116, 104>>
Method == <<58, 109, 101, 116, 104, 111, 100>>
Connect == <<67, 79, 78, 78, 69, 67, 84>>
Static == <<<<Path, <<47>>, 1>>, <<Age, <<48>>, 2>>, <<Method, Connect, 15>>, <<Origin, <<>>, 90>>>>
Repeat(c, n) == [i \in 1..n |-> c]
Strings == {<<>>, <<48>>, <<33, 0>>, <<120, 97>>, Repeat(97, 15), Repeat(38, 20)}
FieldLists ==
  {<<<<n, v>>>> : n \in {<<65, 103, 101>>, Origin, Method, <<120, 65>>, Repeat(97, 12), <<38, 33>>, Repeat(33, 7)},
                  v \in Strings}
    \cup {<<<<Path, <<47>>>>, <<Age, <<48>>>>, <<Origin, <<120>>>>>>}

NoItems == {}
MCItems ==
  {[kind |-> "frame", frame |-> f] : f \in Frames}
    \cup {[kind |-> "header", hdr |-> h] : h \in Headers}
    \cup {[kind |-> "params", tp |-> tp, server |-> s] : tp \in ParamSets, s \in BOOLEAN}
    \cup {[kind |-> "params", tp |-> [Full EXCEPT !.preferred_address = {Preferred}], server |-> TRUE]}
    \cup {[kind |-> "retry", token |-> t, odcid |-> Text(8)] : t \in {Text(1), Text(64)}}
    \cup {[kind |-> "versions"]}
    \cup {[kind |-> "fields", fields |-> f, max |-> m] : f \in FieldLists, m \in {36, 250}}
    \cup {[kind |-> "datagram", packets |-> d.packets, largest |-> d.largest] : d \in Datagrams}
=============================================================================
