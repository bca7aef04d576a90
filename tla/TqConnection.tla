---------------------------- MODULE TqConnection -----------------------------
(***************************************************************************)
(* One endpoint of a tquic connection up to its end: keys and crypto       *)
(* streams, the TLS session as the connection sees it, packets and frames  *)
(* received and written, undecryptable packets, version negotiation and    *)
(* Retry, acknowledgments, the anti-amplification limit, closing.  It is   *)
(* a record c; every operator returns the next one, with c.err the error   *)
(* it stopped at.  One path; a datagram is at most DatagramSize units; a   *)
(* crypto stream is a set of pieces, a packet holds one of them; streams   *)
(* are one frame of early data.                                            *)
(***************************************************************************)
EXTENDS Integers, Sequences, FiniteSets, FiniteSetsExt, SequencesExt

CONSTANTS
  Capacity,          \* max_undecryptable_packets
  AmplFactor,        \* anti_amplification_factor
  AckThreshold       \* ack_eliciting_threshold

ASSUME ConnectionAssumption == Capacity \in Nat /\ {AmplFactor, AckThreshold} \subseteq Nat \ {0}

Levels == {"Initial", "Handshake", "ZeroRTT", "OneRTT"}
CryptoLevels == Levels \ {"ZeroRTT"}
SpaceOf(level) == IF level \in {"ZeroRTT", "OneRTT"} THEN "Data" ELSE level
DatagramSize == 2  \* of a padded datagram, in units; its packets are one or two
NoCid == "none"
NoToken == [odcid |-> NoCid, rscid |-> NoCid]

(* The pieces of crypto data of each flight: ClientHello and ServerHello   *)
(* at Initial, the server's flight and the client's Finished at Handshake. *)
Flight(server, level) ==
  IF level = "Initial" THEN {0} ELSE IF level = "Handshake" /\ server THEN {0, 1} ELSE {0}

F(t, n) == [t |-> t, n |-> n]
Eliciting(frames) == \E i \in DOMAIN frames : frames[i].t \notin {"ack", "close", "app_close", "padding"}

Stop(c, e) == [c EXCEPT !.err = e]
Then(c, Op(_)) == IF c.err = "none" THEN Op(c) ELSE c
Has(c, flag) == flag \in c.flags
Put(c, flags) == [c EXCEPT !.flags = @ \cup flags]
Drop(c, flags) == [c EXCEPT !.flags = @ \ flags]

IsEstablished(c) == Has(c, "HandshakeCompleted")
IsConfirmed(c) == Has(c, "HandshakeConfirmed")
(* TimerTable: a set of the timers that run                                *)
SetTimer(c, t) == [c EXCEPT !.timers = @ \cup {t}]
StopTimer(c, t) == [c EXCEPT !.timers = @ \ {t}]
IsClosing(c) == c.local_error # "none"
IsDraining(c) == "Draining" \in c.timers
IsClosed(c) == Has(c, "Closed")

-----------------------------------------------------------------------------
(* CryptoStreams: clear resets the Initial stream for either level.        *)
NoStream == [all |-> {}, ready |-> {}, acked |-> {}]
CryptoClear(c) == [c EXCEPT !.tx["Initial"] = NoStream, !.rx["Initial"] = {}]
CryptoWrite(c, level) ==
  LET u == Flight(c.server, level) IN
  [c EXCEPT !.tx[level] = [all |-> u, ready |-> u, acked |-> {}]]
CryptoAck(c, level, u) == [c EXCEPT !.tx[level].acked = @ \cup u, !.tx[level].ready = @ \ u]
(* Mutant: lost crypto data is taken for sent.                             *)
CryptoLostForgotten(c, level, u) == c
CryptoLost(c, level, u) ==
  [c EXCEPT !.tx[level].ready = @ \cup ((u \cap c.tx[level].all) \ c.tx[level].acked)]

(* PacketNumSpace, without what recovery keeps                             *)
SpaceNew ==
  [next |-> 0, sent |-> {}, lost |-> {}, largest |-> -1, probes |-> 0, lowest |-> 1000, top |-> 0,
   win |-> {}, need |-> {}, need_send_ack |-> FALSE, since |-> 0, ack_timer |-> FALSE]

(* drop_space_state: the keys, the crypto stream and the recovery state    *)
DropSpace(c, level) ==
  IF level \notin c.open THEN c
  ELSE LET k == [c EXCEPT !.open = @ \ {level}, !.seal = @ \ {level}] IN
       [CryptoClear(k) EXCEPT !.sp[level].sent = {}, !.sp[level].lost = {}, !.sp[level].probes = 0]

(* derive_initial_secrets: the keys depend on the dcid and the version.    *)
DeriveInitial(c, dcid) ==
  [c EXCEPT !.open = @ \cup {"Initial"}, !.seal = @ \cup {"Initial"},
            !.ikey = <<dcid, c.version>>]

(* TlsSession::process of a client: ClientHello, with early data offered   *)
StartHandshake(c) ==
  IF c.tls # "start" THEN c
  ELSE [CryptoWrite(c, "Initial") EXCEPT !.tls = "hello",
          !.seal = IF c.early THEN @ \cup {"ZeroRTT"} ELSE @]

(* Connection::new                                                         *)
ConnNew(server, scid, dcid, token, version, early, timeouts) ==
  LET c0 ==
    [server |-> server, flags |-> {}, open |-> {}, seal |-> {}, ikey |-> <<NoCid, version>>,
     version |-> version, scid |-> scid, dcid |-> dcid, odcid |-> NoCid, rscid |-> NoCid,
     token |-> token, params |-> NoToken, tls |-> "start",
     tx |-> [l \in CryptoLevels |-> NoStream], rx |-> [l \in CryptoLevels |-> {}],
     sp |-> [s \in {"Initial", "Handshake", "Data"} |-> SpaceNew],
     order |-> <<"Initial", "Handshake", "Data">>, und |-> [l \in Levels |-> <<>>], timers |-> timeouts \cap {"Handshake"},
     local_error |-> "none", peer_error |-> "none", limit |-> 0, recv_count |-> 0,
     verified |-> ~server \/ token # NoToken, early |-> early, idle |-> "Idle" \in timeouts,
     data |-> IF early /\ ~server THEN "ready" ELSE "none", got |-> {}, err |-> "none"]
  IN IF server
     THEN IF token = NoToken THEN c0 ELSE [Put(c0, {"DidRetry"}) EXCEPT !.params = token]
     ELSE Put(DeriveInitial(c0, dcid), {"DerivedInitialSecrets"})

(* close                                                                   *)
Close(c, app) ==
  IF IsClosed(c) \/ IsDraining(c) \/ IsClosing(c) THEN c
  ELSE [c EXCEPT !.local_error = IF app THEN "app" ELSE "transport"]

(* reset, after a stateless reset                                          *)
Reset(c) ==
  IF IsClosed(c) \/ IsDraining(c) THEN c
  ELSE SetTimer(Put(c, {"GotReset"}), "Draining")

-----------------------------------------------------------------------------
(* process_peer_trans_params: the connection ids that the peer saw         *)
PeerParams(c, params) ==
  IF Has(c, "AppliedPeerTransportParams") THEN c
  ELSE IF params.scid # c.dcid THEN Stop(c, "TransportParameterError")
  ELSE IF ~c.server /\ (params.odcid # c.odcid \/ params.rscid # c.rscid)
  THEN Stop(c, "TransportParameterError")
  ELSE Put(c, {"AppliedPeerTransportParams"})

(* SSL_do_handshake, for the data read so far: the secrets it installs and *)
(* the messages it writes                                                  *)
Whole(c, level) == Flight(~c.server, level) \subseteq c.rx[level]
TlsServerHello(c) ==
  [CryptoWrite(CryptoWrite(c, "Initial"), "Handshake") EXCEPT !.tls = "flight",
     !.open = @ \cup {"Handshake"} \cup (IF c.early THEN {"ZeroRTT"} ELSE {}),
     !.seal = @ \cup {"Handshake", "OneRTT"}]
TlsDone(c) ==
  [(IF c.server THEN c ELSE CryptoWrite(c, "Handshake")) EXCEPT !.tls = "done",
     !.open = @ \cup {"OneRTT"}, !.seal = (@ \ {"ZeroRTT"}) \cup {"OneRTT"}]
TlsProcess(c) ==
  CASE c.server /\ c.tls = "start" /\ Whole(c, "Initial") -> TlsServerHello(c)
    [] c.server /\ c.tls = "flight" /\ Whole(c, "Handshake") -> TlsDone(c)
    [] ~c.server /\ c.tls = "hello" /\ Whole(c, "Initial") ->
         [c EXCEPT !.tls = "flight", !.open = @ \cup {"Handshake"}, !.seal = @ \cup {"Handshake"}]
    [] ~c.server /\ c.tls = "flight" /\ Whole(c, "Handshake") -> TlsDone(c)
    [] OTHER -> c
HasPeerParams(c) == c.tls = "done" \/ (c.server /\ c.tls = "flight")

(* process_tls_session: the peer's parameters are read as soon as TLS has  *)
(* them; Replay stands for the packets that were waiting for the keys.     *)
TlsRead(c0, params) ==
  LET c == TlsProcess(c0) IN
  IF IsEstablished(c0) THEN c0 ELSE IF HasPeerParams(c) THEN PeerParams(c, params) ELSE c
TlsCompleted(c) == StopTimer(Put(c, {"HandshakeCompleted"}), "Handshake")
TlsConfirmed(c) ==
  IF ~c.server THEN c
  ELSE DropSpace(Put(c, {"HandshakeConfirmed", "NeedSendHandshakeDone", "NeedSendNewToken"}),
                 "Handshake")
ProcessTls(c0, params, Replay(_)) ==
  LET c == TlsRead(c0, params) IN
  IF IsEstablished(c0) \/ c.tls # "done" THEN c
  ELSE Then(Then(c, LAMBDA v : Replay(TlsCompleted(v))), TlsConfirmed)

-----------------------------------------------------------------------------
(* try_process_acked_frames and process_all_lost_frames, for one frame     *)
FrameAcked(c, s, f) ==
  CASE f.t = "ack" -> [c EXCEPT !.sp[s].need = {pn \in @ : pn > Max(f.n)}]
    [] f.t = "crypto" -> CryptoAck(c, IF s = "Data" THEN "OneRTT" ELSE s, f.n)
    [] f.t = "done" -> Put(Drop(c, {"NeedSendHandshakeDone"}), {"HandshakeDoneAcked"})
    [] f.t = "data" -> [c EXCEPT !.data = "acked"]
    [] OTHER -> c
FrameLost(c, s, f) ==
  CASE f.t = "ack" -> [c EXCEPT !.sp[s].need_send_ack = TRUE]
    [] f.t = "crypto" -> CryptoLost(c, IF s = "Data" THEN "OneRTT" ELSE s, f.n)
    [] f.t = "done" ->
         IF Has(c, "HandshakeDoneAcked") THEN c ELSE Put(c, {"NeedSendHandshakeDone"})
    [] f.t = "token" -> Put(c, {"NeedSendNewToken"})
    [] f.t = "data" -> IF c.data = "sent" THEN [c EXCEPT !.data = "ready"] ELSE c
    [] OTHER -> c

(* on_ack_received, as far as frames go (see TqRecovery)                   *)
Packets(set) == SetToSortSeq(set, LAMBDA p, q : p.pn < q.pn)
OnAck(c, s, pns) ==
  LET new == {p \in c.sp[s].sent : p.pn \in pns}
      kept == [c EXCEPT !.sp[s].sent = @ \ new, !.sp[s].largest = Max({@, Max(pns)})]
  IN FoldLeft(LAMBDA v, p : FoldLeft(LAMBDA w, f : FrameAcked(w, s, f), v, p.frames),
              kept, Packets(new))

(* recv_frame of an ACK                                                    *)
RecvAck(c, s, pns) ==
  LET data == s = "Data" /\ IsEstablished(c)
      verified == IF s = "Handshake" \/ data THEN Put(c, {"PeerVerifiedInitialAddress"}) ELSE c
      confirmed == IF data /\ ~c.server /\ Max(pns) > c.sp[s].lowest
                   THEN Put(verified, {"HandshakeConfirmed"}) ELSE verified
      acked == OnAck(confirmed, s, pns)
  IN IF IsConfirmed(acked) THEN DropSpace(acked, "Handshake") ELSE acked

RecvDone(c) ==
  IF c.server THEN Stop(c, "ProtocolViolation")
  ELSE DropSpace(Put(c, {"PeerVerifiedInitialAddress", "HandshakeConfirmed"}), "Handshake")

(* recv_frame of CONNECTION_CLOSE and APPLICATION_CLOSE                    *)
RecvClose(c, f) == SetTimer([c EXCEPT !.peer_error = f.t], "Draining")

RecvCrypto(c, level, u) == [c EXCEPT !.rx[level] = @ \cup u]

RecvFrame(c, f, pkt, Replay(_)) ==
  LET s == SpaceOf(pkt.type) IN
  CASE f.t = "ack" -> RecvAck(c, s, f.n)
    [] f.t = "crypto" -> ProcessTls(RecvCrypto(c, pkt.type, f.n), pkt.params, Replay)
    [] f.t = "done" -> RecvDone(c)
    [] f.t \in {"close", "app_close"} -> RecvClose(c, f)
    [] f.t = "data" -> [c EXCEPT !.got = @ \cup {"data"}]
    [] f.t = "token" -> [c EXCEPT !.got = @ \cup {"token"}]
    [] OTHER -> c

-----------------------------------------------------------------------------
(* try_buffer_undecryptable_packets and UndecryptablePackets::push         *)
TryBuffer(c, pkt) ==
  LET kept == IF c.server THEN {"ZeroRTT", "OneRTT"} ELSE {"Handshake", "OneRTT"} IN
  IF IsEstablished(c) \/ pkt.type \notin kept \/ Len(c.und[pkt.type]) > Capacity THEN c
  ELSE [c EXCEPT !.und[pkt.type] = Append(@, pkt)]

(* Mutant: the client forgets the id it started with when it got a Retry.  *)
SetPeerCidRetry(c, pkt) ==
  IF Has(c, "GotPeerCid") THEN c
  ELSE IF ~c.server
  THEN [Put(c, {"GotPeerCid"}) EXCEPT !.odcid = c.dcid, !.dcid = pkt.scid]
  ELSE [Put(c, {"GotPeerCid"}) EXCEPT !.dcid = pkt.scid,
          !.params = IF Has(c, "DidRetry") THEN @ ELSE [@ EXCEPT !.odcid = pkt.dcid]]
(* try_set_dcid_for_initial_path                                           *)
SetPeerCid(c, pkt) ==
  IF Has(c, "GotPeerCid") THEN c
  ELSE IF ~c.server
  THEN [Put(c, {"GotPeerCid"}) EXCEPT !.odcid = IF @ = NoCid THEN c.dcid ELSE @,
                                      !.dcid = pkt.scid]
  ELSE [Put(c, {"GotPeerCid"}) EXCEPT !.dcid = pkt.scid,
          !.params = IF Has(c, "DidRetry") THEN @ ELSE [@ EXCEPT !.odcid = pkt.dcid]]

(* try_schedule_ack_frame, for the ack-eliciting packet pn: at once when   *)
(* AckThreshold are due or a later one came before it                      *)
ScheduleAck(c, s, pn) ==
  IF c.sp[s].need_send_ack THEN c
  ELSE IF s # "Data" THEN [c EXCEPT !.sp[s].need_send_ack = TRUE]
  ELSE IF c.sp[s].since + 1 >= AckThreshold \/ pn < c.sp[s].top
  THEN [c EXCEPT !.sp[s].since = @ + 1, !.sp[s].need_send_ack = TRUE, !.sp[s].ack_timer = FALSE]
  ELSE [c EXCEPT !.sp[s].since = @ + 1, !.sp[s].ack_timer = TRUE]

(* recv_packet: what it looks at before the packet is decrypted            *)
Refused(c, pkt) ==
  \/ IsClosing(c) \/ IsDraining(c) \/ IsClosed(c)
  \/ pkt.type # "OneRTT" /\ pkt.ver # c.version
Undecryptable(c, pkt) ==
  \/ pkt.type = "Initial" /\ pkt.key # c.ikey
  \/ pkt.pn \in c.sp[SpaceOf(pkt.type)].win
Prepared(c, pkt) ==
  IF Has(c, "DerivedInitialSecrets") THEN c
  ELSE Put(DeriveInitial(c, pkt.dcid), {"DerivedInitialSecrets"})

(* recv_packet after the frames                                            *)
Received(c, pkt) ==
  LET s == SpaceOf(pkt.type)
      noted == [c EXCEPT !.sp[s].win = @ \cup {pkt.pn}, !.sp[s].need = @ \cup {pkt.pn},
                         !.recv_count = 1, !.timers = IF c.idle THEN @ \cup {"Idle"} ELSE @]
      acked == IF ~Eliciting(pkt.frames) THEN noted
               ELSE ScheduleAck([noted EXCEPT !.sp[s].top = Max({@, pkt.pn})], s, pkt.pn)
      dropped == IF c.server /\ pkt.type = "Handshake"
                 THEN [DropSpace(acked, "Initial") EXCEPT !.verified = TRUE] ELSE acked
  IN Put(dropped, {"NeedSendAckEliciting"})

Versioned(c, pkt) ==
  IF c.server /\ ~Has(c, "DidVersionNegotiation")
  THEN [Put(c, {"DidVersionNegotiation"}) EXCEPT !.version = pkt.ver] ELSE c
RecvPacket(c0, pkt, Replay(_)) ==
  LET c1 == Versioned(c0, pkt)
      c2 == Prepared(c1, pkt)
      frames == FoldLeft(LAMBDA v, f : Then(v, LAMBDA w : RecvFrame(w, f, pkt, Replay)),
                         SetPeerCid(c2, pkt), pkt.frames)
  IN CASE IsClosing(c0) \/ IsDraining(c0) \/ IsClosed(c0) -> c0
       [] Refused(c1, pkt) -> c1
       [] pkt.type \notin c2.open -> TryBuffer(c2, pkt)
       [] Undecryptable(c2, pkt) -> c2
       [] OTHER -> Then(frames, LAMBDA v : Received(v, pkt))

(* recv: an error closes the connection                                    *)
Credit(c, n) == IF c.server /\ ~c.verified THEN [c EXCEPT !.limit = @ + AmplFactor * n] ELSE c
OrClose(c) == IF c.err = "none" THEN c ELSE [Close(c, FALSE) EXCEPT !.err = "none",
                                                                   !.got = @ \cup {c.err}]
RecvOne(c, pkt, Replay(_)) == OrClose(RecvPacket(Credit(c, 1), pkt, Replay))

(* try_process_undecryptable_packets: once the handshake is completed, and *)
(* after every datagram before that                                        *)
Waiting(c) ==
  LET types == IF c.server THEN <<"ZeroRTT", "OneRTT">> ELSE <<"Handshake", "OneRTT">> IN
  SelectSeq(types, LAMBDA l : l \in c.open)
Emptied(c) == [c EXCEPT !.und = [l \in Levels |-> IF l \in c.open THEN <<>> ELSE @[l]]]
ReplayAll(c, Replay(_)) ==
  FoldLeft(LAMBDA v, l : FoldLeft(LAMBDA w, p : RecvOne(w, p, Replay), v, c.und[l]),
           Emptied(c), Waiting(c))
ReplayCompleted(c) == ReplayAll(c, LAMBDA v : v)
ReplayEarly(c) == IF IsEstablished(c) THEN c ELSE ReplayAll(c, ReplayCompleted)

(* process_version_negotiation and process_retry: the handshake starts     *)
(* again, in the same packet number space.                                 *)
Restart(c) ==
  StartHandshake([DeriveInitial(DropSpace(c, "Initial"), c.dcid) EXCEPT !.tls = "start"])
RecvVersions(c, pkt) ==
  IF c.server \/ Has(c, "DidVersionNegotiation") \/ c.recv_count > 0
       \/ pkt.dcid # c.scid \/ pkt.scid # c.dcid \/ pkt.ver = c.version THEN c
  ELSE Restart([Drop(Put(c, {"DidVersionNegotiation"}), {"GotPeerCid"}) EXCEPT !.version = pkt.ver])
RecvRetry(c, pkt) ==
  IF c.server \/ Has(c, "DidRetry") \/ pkt.key # <<c.dcid, c.version>> THEN c
  ELSE Restart([Drop(Put(c, {"DidRetry"}), {"GotPeerCid"}) EXCEPT
                  !.token = pkt.token, !.odcid = c.dcid, !.dcid = pkt.scid, !.rscid = pkt.scid])

(* recv of a datagram: an error, a closed connection or a packet that is   *)
(* refused or does not decrypt skips what follows                          *)
Skips(c, p) ==
  LET ready == Prepared(Versioned(c, p), p) IN
  Refused(ready, p) \/ (p.type \in ready.open /\ Undecryptable(ready, p))
RecvNext(d, p) ==
  CASE d.skip \/ IsClosing(d.c) \/ IsDraining(d.c) \/ IsClosed(d.c) -> d
    [] p.type = "VersionNegotiation" -> [d EXCEPT !.c = RecvVersions(@, p)]
    [] p.type = "Retry" -> [d EXCEPT !.c = RecvRetry(@, p)]
    [] OTHER -> [c |-> OrClose(RecvPacket(d.c, p, ReplayCompleted)), skip |-> Skips(d.c, p)]
RecvDatagram(c, d) ==
  ReplayEarly(FoldLeft(RecvNext, [c |-> Credit(c, d.size), skip |-> FALSE], d.pkts).c)

-----------------------------------------------------------------------------
(* Mutant: a close goes below 1-RTT also when the handshake is completed.  *)
CloseTypeLow(c) ==
  IF "OneRTT" \in c.seal THEN "Handshake"
  ELSE IF "Handshake" \in c.seal /\ "Initial" \notin c.seal THEN "Handshake" ELSE "Initial"
(* select_send_packet_type                                                 *)
CloseType(c) ==
  LET level == IF "OneRTT" \in c.seal THEN "OneRTT"
               ELSE IF "Handshake" \in c.seal THEN "Handshake" ELSE "Initial"
  IN IF IsEstablished(c) THEN level
     ELSE IF level = "OneRTT" THEN "Handshake"
     ELSE IF level = "Handshake" /\ "Initial" \in c.seal THEN "Initial" ELSE level
Urgent(c, l) ==
  LET s == c.sp[SpaceOf(l)] IN
  l \in c.seal /\ (c.tx[l].ready # {} \/ s.need_send_ack \/ s.lost # {} \/ s.probes > 0)
HasData(c) ==
  \/ c.server /\ IsEstablished(c) /\ c.flags \cap {"NeedSendHandshakeDone", "NeedSendNewToken"} # {}
  \/ c.local_error = "app"
  \/ c.data = "ready"
SendType(c) ==
  LET urgent == SelectSeq(<<"Initial", "Handshake", "OneRTT">>, LAMBDA l : Urgent(c, l)) IN
  CASE c.local_error = "transport" -> CloseType(c)
    [] c.local_error # "transport" /\ urgent # <<>> -> urgent[1]
    [] c.local_error # "transport" /\ urgent = <<>> /\ HasData(c)
         /\ (IsEstablished(c) \/ c.seal \cap {"OneRTT", "ZeroRTT"} # {}) ->
         IF ~c.server /\ "ZeroRTT" \in c.seal THEN "ZeroRTT" ELSE "OneRTT"
    [] OTHER -> "none"

(* send_frames: the frames of a packet, and the state they leave           *)
WriteAck(w, l) ==
  LET s == SpaceOf(l) IN
  IF w.c.sp[s].need = {} \/ ~w.c.sp[s].need_send_ack \/ IsClosing(w.c) THEN w
  ELSE [c |-> [w.c EXCEPT !.sp[s].need_send_ack = FALSE, !.sp[s].since = 0],
        fs |-> Append(w.fs, F("ack", w.c.sp[s].need))]
WriteClose(w, l) ==
  LET app == w.c.local_error = "app" IN
  IF ~IsClosing(w.c) \/ (app /\ l \notin {"OneRTT", "ZeroRTT"}) THEN w
  ELSE [c |-> SetTimer(w.c, "Draining"),
        fs |-> Append(w.fs, F(IF app THEN "app_close" ELSE "close", {}))]
WriteDone(w, l) ==
  IF l # "OneRTT" \/ IsClosing(w.c) \/ ~IsEstablished(w.c) \/ ~Has(w.c, "NeedSendHandshakeDone")
  THEN w
  ELSE [c |-> Drop(w.c, {"NeedSendHandshakeDone"}), fs |-> Append(w.fs, F("done", {}))]
WriteCrypto(w, l) ==
  IF l = "ZeroRTT" \/ IsClosing(w.c) \/ w.c.tx[l].ready = {} THEN w
  ELSE LET u == {Min(w.c.tx[l].ready)} IN
       [c |-> [w.c EXCEPT !.tx[l].ready = @ \ u], fs |-> Append(w.fs, F("crypto", u))]
WriteStream(w, l) ==
  IF l \notin {"OneRTT", "ZeroRTT"} \/ IsClosing(w.c) \/ w.c.data # "ready" THEN w
  ELSE [c |-> [w.c EXCEPT !.data = "sent"], fs |-> Append(w.fs, F("data", {}))]
WriteToken(w, l) ==
  IF l # "OneRTT" \/ IsClosing(w.c) \/ ~Has(w.c, "NeedSendNewToken") THEN w
  ELSE [c |-> Drop(w.c, {"NeedSendNewToken"}), fs |-> Append(w.fs, F("token", {}))]
WritePing(w, l) ==
  IF w.c.sp[SpaceOf(l)].probes = 0 \/ Eliciting(w.fs) \/ IsClosing(w.c) THEN w
  ELSE [w EXCEPT !.fs = Append(@, F("ping", {}))]
SendFrames(c, l) ==
  WritePing(WriteToken(WriteStream(WriteCrypto(WriteDone(WriteClose(WriteAck(
    [c |-> c, fs |-> <<>>], l), l), l), l), l), l), l)

(* send_packet: a client that sends a Handshake packet drops Initial.      *)
SentPacket(c, l, fs) ==
  LET s == SpaceOf(l)
      p == [pn |-> c.sp[s].next, frames |-> fs, eliciting |-> Eliciting(fs)]
      e == IF p.eliciting THEN 1 ELSE 0
      sent == [c EXCEPT !.sp[s].sent = @ \cup {p}, !.sp[s].next = @ + 1,
                        !.sp[s].probes = Max({0, @ - e}),
                        !.order = IF p.eliciting THEN Append(Remove(@, s), s) ELSE @,
                        !.sp[s].lowest = IF l = "OneRTT" THEN Min({@, p.pn}) ELSE @,
                        !.timers = IF p.eliciting /\ c.idle THEN @ \cup {"Idle"} ELSE @]
  IN IF ~c.server /\ l = "Handshake" THEN DropSpace(sent, "Initial") ELSE sent
SendPacket(d) ==
  LET l == SendType(d.c)
      w == SendFrames(d.c, l)
      pkt == [type |-> l, pn |-> d.c.sp[SpaceOf(l)].next, frames |-> w.fs, key |-> d.c.ikey,
              ver |-> d.c.version, dcid |-> d.c.dcid, scid |-> d.c.scid, token |-> d.c.token,
              params |-> [scid |-> d.c.scid, odcid |-> d.c.params.odcid,
                          rscid |-> d.c.params.rscid]]
  IN IF d.stop THEN d
     ELSE IF IsDraining(d.c) \/ l \notin d.c.seal THEN [d EXCEPT !.stop = TRUE]
     ELSE IF w.fs = <<>> THEN [d EXCEPT !.stop = TRUE, !.c = w.c]
     ELSE [c |-> SentPacket(w.c, l, w.fs), pkts |-> Append(d.pkts, pkt), stop |-> l = "OneRTT"]

(* send: the lost frames, then a datagram of up to n packets, each counted *)
(* against the anti-amplification limit                                    *)
LostFrames(c) ==
  FoldLeft(LAMBDA v, s : FoldLeft(LAMBDA w, f : FrameLost(w, s, f), [v EXCEPT !.sp[s].lost = {}],
                                  SetToSeq(v.sp[s].lost)),
           c, <<"Initial", "Handshake", "Data">>)
CanSend(c) == ~IsDraining(c) /\ ~IsClosed(c) /\ Has(c, "DerivedInitialSecrets")
Datagram(c, n) ==
  LET ready == LostFrames(IF c.server THEN c ELSE StartHandshake(c))
      limited == ready.server /\ ~ready.verified /\ ready.limit = 0
  IN FoldLeft(LAMBDA v, i : SendPacket(v), [c |-> ready, pkts |-> <<>>, stop |-> limited],
              [i \in 1..n |-> i])
(* The packets of a datagram take their length off the limit, which bounds *)
(* it; length is that of the packets of a datagram with an Initial.  What  *)
(* pads such a datagram up to MIN_CLIENT_INITIAL_LEN is added after that,  *)
(* and takes nothing off.                                                  *)
Limited(c) == c.server /\ ~c.verified
Room(c) == IF Limited(c) THEN Min({DatagramSize, c.limit}) ELSE DatagramSize
SendDatagram(c, n, length) ==
  LET d == Datagram(c, n)
      padded == \E i \in DOMAIN d.pkts : d.pkts[i].type = "Initial"
      written == IF padded THEN Min({length, Room(c)}) ELSE Room(c)
  IN [c |-> IF d.pkts # <<>> /\ Limited(c) THEN [d.c EXCEPT !.limit = Max({0, @ - written})]
            ELSE d.c,
      pkts |-> d.pkts, size |-> Room(c), written |-> written]

-----------------------------------------------------------------------------
(* Probe timeouts (see TqRecovery): the space that is probed is the one    *)
(* whose last ack-eliciting packet is the oldest, and order has the spaces *)
(* by that.                                                                *)
Derived(c) == "Handshake" \in c.open /\ "Handshake" \in c.seal
InFlight(c, s) == {p \in c.sp[s].sent : p.eliciting}
ProbeSpaces(c) ==
  LET busy == {s \in DOMAIN c.sp : InFlight(c, s) # {}}
      due == SelectSeq(c.order, LAMBDA s : s \in busy /\ (s = "Data" => IsEstablished(c)))
  IN IF busy # {} THEN {due[i] : i \in 1..Min({1, Len(due)})}
     ELSE IF Has(c, "PeerVerifiedInitialAddress") THEN {}
     ELSE {IF Derived(c) THEN "Handshake" ELSE "Initial"}
OnProbe(c, s) ==
  LET data == {p \in c.sp[s].sent : \E i \in DOMAIN p.frames : p.frames[i].t \in {"crypto", "data"}}
      oldest == CHOOSE p \in data : \A q \in data : p.pn <= q.pn
  IN [c EXCEPT !.sp[s].probes = 1, !.sp[s].lost = IF data = {} THEN @ ELSE @ \cup Range(oldest.frames)]

(* on_timeout of the other timers                                          *)
OnTimer(c, t) ==
  LET stopped == StopTimer(c, t) IN
  CASE t = "Idle" -> Put(stopped, {"Closed", "IdleTimeout"})
    [] t = "Handshake" -> Put(stopped, {"Closed", "HandshakeTimeout"})
    [] t = "Draining" -> Put(stopped, {"Closed"})
    [] OTHER -> stopped
OnAckTimer(c) ==
  IF c.sp["Data"].ack_timer
  THEN [c EXCEPT !.sp["Data"].need_send_ack = TRUE, !.sp["Data"].ack_timer = FALSE] ELSE c
=============================================================================
