------------------------------ MODULE TqStreams ------------------------------
(***************************************************************************)
(* The streams of one tquic connection: the StreamMaps of the client and   *)
(* the server, the frames their packets carry (try_write_stream_control_   *)
(* frames, try_write_stream_frames, recv_frame), what an acknowledgment, a *)
(* loss or a probe timeout does with the frames of a sent packet, and the  *)
(* two applications.  An endpoint is TRUE for the server, FALSE for the    *)
(* client.  The handshake is over.  Packets may be reordered and dropped,  *)
(* and be deemed lost while they are on their way.                         *)
(***************************************************************************)
EXTENDS TqStreamMap, SequencesExt

CONSTANTS
  Scenarios,    \* the configurations, see below
  PacketRoom,   \* the room for STREAM frames in a packet
  MaxFlight     \* packets of an endpoint that are outstanding at a time

(* A configuration gives each endpoint's transport parameters (params),    *)
(* the stream ids in use (ids), the streams an endpoint writes to          *)
(* (writes), the lengths and FIN flags of the writes (chunks) and their    *)
(* total length (bytes), the other calls of the applications (calls),      *)
(* whether window updates follow each other within two round trips (soon), *)
(* and the number of packets that are dropped, deemed lost wrongly or      *)
(* probed (faults).                                                        *)
ASSUME StreamsAssumption == PacketRoom \in Nat \ {0, 1} /\ MaxFlight \in Nat \ {0}

VARIABLES
  scn,      \* the configuration, fixed
  map,      \* the StreamMap of each endpoint
  sent,     \* its packets that are neither acknowledged nor forgotten
  lost,     \* the frames of lost packets that send has still to look at
  app,      \* what its application did, by stream
  error,    \* the error with which it closed the connection
  faults,   \* the number of faults so far
  blank     \* whether a STREAM frame with neither data nor FIN was sent

vars == <<scn, map, sent, lost, app, error, faults, blank>>

Ends == BOOLEAN
Overhead == 1    \* MAX_STREAM_OVERHEAD and a frame header, in units of data

-----------------------------------------------------------------------------
(* Writing frames: [m, out] is the map and the frames so far.              *)
Adds(r, m, frames) == [m |-> m, out |-> r.out \o frames]

AddMaxStreams(r, bidi) ==
  IF ~ShouldUpdateMaxStreams(r.m.conc, bidi) THEN r
  ELSE Adds(r, [r.m EXCEPT !.conc = UpdateLocalMaxStreams(@, bidi)],
            <<[t |-> "max_streams", bidi |-> bidi, max |-> r.m.conc.local_next[bidi]]>>)

AddDataBlocked(r) ==
  IF r.m.cap.blocked = None THEN r
  ELSE Adds(r, [r.m EXCEPT !.cap.blocked = None],
            <<[t |-> "data_blocked", max |-> r.m.cap.blocked]>>)

(* MAX_STREAM_DATA grows the window of the stream when soon, and that of   *)
(* the connection to 1.5 times it, and makes MAX_DATA due.                 *)
AddMaxStreamData(r, id, soon) ==
  LET fc == FcAutotune(r.m.streams[id].recv.fc, soon) IN
  IF id \notin DOMAIN r.m.streams THEN Adds(r, [r.m EXCEPT !.almost_full = @ \ {id}], <<>>)
  ELSE Adds(r, [r.m EXCEPT !.streams[id].recv.fc = FcUpdate(fc), !.almost_full = @ \ {id},
                           !.fc = FcAtLeast(@, (fc.win * 3) \div 2), !.rx_almost_full = TRUE],
            <<[t |-> "max_stream_data", id |-> id, max |-> FcNext(fc)]>>)

AddMaxData(r, soon) ==
  LET fc == FcAutotune(r.m.fc, soon) IN
  IF ~NeedSendMaxData(r.m) THEN r
  ELSE Adds(r, [r.m EXCEPT !.fc = FcUpdate(fc), !.rx_almost_full = FALSE],
            <<[t |-> "max_data", max |-> FcNext(fc)]>>)

AddAll(r, ids, frame(_)) ==
  r.out \o [i \in 1..Cardinality(ids) |-> frame(SetToSortSeq(ids, <)[i])]

AddStopSending(r) ==
  [m |-> [r.m EXCEPT !.stopped = Empty],
   out |-> AddAll(r, DOMAIN r.m.stopped, LAMBDA id :
             [t |-> "stop_sending", id |-> id, error |-> r.m.stopped[id]])]
AddResetStream(r) ==
  [m |-> [r.m EXCEPT !.reset = Empty],
   out |-> AddAll(r, DOMAIN r.m.reset, LAMBDA id :
             [t |-> "reset_stream", id |-> id, error |-> r.m.reset[id].error,
              final |-> r.m.reset[id].final])]
AddStreamDataBlocked(r) ==
  [m |-> [r.m EXCEPT !.blocked = Empty],
   out |-> AddAll(r, DOMAIN r.m.blocked, LAMBDA id :
             [t |-> "stream_data_blocked", id |-> id, max |-> r.m.blocked[id]])]
AddStreamsBlocked(r, bidi) ==
  IF r.m.conc.blocked[bidi] = None THEN r
  ELSE Adds(r, [r.m EXCEPT !.conc.blocked[bidi] = None],
            <<[t |-> "streams_blocked", bidi |-> bidi, max |-> r.m.conc.blocked[bidi]]>>)

(* try_write_stream_control_frames                                         *)
StreamControlFrames(m, soon) ==
  LET limits == AddDataBlocked(AddMaxStreams(AddMaxStreams([m |-> m, out |-> <<>>], TRUE), FALSE))
      windows == FoldLeft(LAMBDA r, id : AddMaxStreamData(r, id, soon), limits,
                          SetToSortSeq(m.almost_full, <))
      ends == AddStreamDataBlocked(AddResetStream(AddStopSending(AddMaxData(windows, soon))))
  IN AddStreamsBlocked(AddStreamsBlocked(ends, TRUE), FALSE)

(* One turn of the loop of try_write_stream_frames: a stream that is gone  *)
(* or stopped leaves the queue, another fills what room is left.           *)
AddRead(r, m, id, read) ==
  LET keep(after) == IF IsSendable(after.streams[id]) THEN after ELSE RemoveSendable(after)
  IN [m |-> keep([m EXCEPT !.streams[id].send = read.sb]),
      room |-> r.room - Overhead - read.len,
      out |-> Append(r.out, [t |-> "stream", id |-> id, off |-> read.off,
                             len |-> read.len, fin |-> read.fin])]
AddPeeked(r, m, id) ==
  IF id \notin DOMAIN m.streams \/ m.streams[id].send.error # None
  THEN [r EXCEPT !.m = RemoveSendable(m)]
  ELSE AddRead(r, m, id, SendRead(m.streams[id].send, r.room - Overhead))
AddStream(r) ==
  LET fill(peek) == AddPeeked(r, peek.m, peek.id)
  IN IF r.m.sendable = Empty \/ r.room <= Overhead THEN r ELSE fill(PeekSendable(r.m))

(* try_write_stream_frames                                                 *)
StreamFrames(r) ==
  LET queued == FoldFunction(LAMBDA q, n : n + Len(q.ordered) + Len(q.robin), 0, r.m.sendable)
  IN FoldLeft(LAMBDA s, i : AddStream(s), [m |-> r.m, out |-> r.out, room |-> PacketRoom],
              [i \in 1..(PacketRoom + queued) |-> i])

-----------------------------------------------------------------------------
(* recv_frame for the frames of streams                                    *)
RecvFrame(m, f) ==
  CASE f.t = "max_data" -> Succeeds(OnMaxData(m, f.max))
    [] f.t = "max_stream_data" -> OnMaxStreamData(m, f.id, f.max)
    [] f.t = "max_streams" -> Succeeds(OnMaxStreams(m, f.max, f.bidi))
    [] f.t = "reset_stream" -> OnResetStream(m, f.id, f.error, f.final)
    [] f.t = "stop_sending" -> OnStopSending(m, f.id, f.error)
    [] f.t = "stream" -> OnStream(m, f.id, f.off, f.len, f.fin)
    [] f.t = "stream_data_blocked" -> OnStreamDataBlocked(m, f.id)
    [] f.t \in {"data_blocked", "streams_blocked"} -> Succeeds(m)
RecvFrames(m, frames) ==
  FoldLeft(LAMBDA r, f : IF r.err # NoError THEN r ELSE RecvFrame(r.m, f), Succeeds(m), frames)

(* try_process_acked_frames and process_all_lost_frames                    *)
FrameAcked(m, f) ==
  CASE f.t = "stream" -> OnStreamAcked(m, f.id, f.off, f.len)
    [] f.t = "reset_stream" -> OnResetStreamAcked(m, f.id)
    [] OTHER -> m
FrameLost(m, f) ==
  CASE f.t = "stream" -> OnStreamLost(m, f.id, f.off, f.len, f.fin)
    [] f.t = "reset_stream" -> OnResetStreamLost(m, f.id, f.error, f.final)
    [] f.t = "max_stream_data" -> OnMaxStreamDataLost(m, f.id)
    [] f.t = "max_data" -> OnMaxDataLost(m)
    [] f.t = "stop_sending" -> OnStopSendingLost(m, f.id, f.error)
    [] f.t = "streams_blocked" -> OnStreamsBlockedLost(m, f.bidi, f.max)
    [] f.t = "stream_data_blocked" -> OnStreamDataBlockedLost(m, f.id, f.max)
    [] f.t = "data_blocked" -> OnDataBlockedLost(m, f.max)
    [] f.t = "max_streams" -> OnMaxStreamsLost(m)

FramesAcked(m, frames) == FoldLeft(FrameAcked, m, frames)
FramesLost(m, frames) == FoldLeft(FrameLost, m, frames)

-----------------------------------------------------------------------------
NoApp == [wrote |-> 0, fin |-> FALSE, cut |-> FALSE, read |-> 0, ended |-> FALSE, quit |-> FALSE]

Init ==
  /\ scn \in Scenarios
  /\ map = [e \in Ends |-> UpdatePeerParams(MapNew(e, scn.params[e]), scn.params[~e])]
  /\ sent = [e \in Ends |-> <<>>]
  /\ lost = [e \in Ends |-> <<>>]
  /\ app = [e \in Ends |-> [id \in scn.ids |-> NoApp]]
  /\ error = [e \in Ends |-> NoError]
  /\ faults = 0 /\ blank = FALSE

Alive == error = [e \in Ends |-> NoError]

(* stream_write; a stream of one's own is created by the first write.  An  *)
(* application that is not eager waits until the stream is writable again. *)
AppWrite(e, id) ==
  \E chunk \in scn.chunks :
    LET len == chunk[1]
        fin == chunk[2]
    IN
    /\ Alive /\ id \in scn.writes[e]
    /\ \/ "eager" \in scn.calls
       \/ id \notin DOMAIN map[e].streams /\ IsLocal(id, e)
       \/ id \in map[e].writable /\ CheckWritable(map[e], id)
    /\ ~app[e][id].fin /\ ~app[e][id].cut
    /\ app[e][id].wrote + len <= scn.bytes
    /\ fin => app[e][id].wrote + len = scn.bytes
    /\ \E w \in {StreamWrite(map[e], id, len, fin)} :
         /\ map' = [map EXCEPT ![e] = w.m]
         /\ app' = [app EXCEPT ![e][id].wrote = @ + w.len,
                               ![e][id].fin = fin /\ w.err = NoError /\ w.len = len]
    /\ UNCHANGED <<scn, sent, lost, error, faults, blank>>

(* stream_read, when the stream is reported readable                       *)
AppRead(e, id) ==
  /\ Alive /\ id \in map[e].readable /\ CheckReadable(map[e], id)
  /\ \E cap \in {1, PacketRoom} : \E r \in {StreamRead(map[e], id, cap)} :
       /\ map' = [map EXCEPT ![e] = r.m]
       /\ app' = [app EXCEPT ![e][id].read = @ + r.len, ![e][id].ended = @ \/ r.fin]
  /\ UNCHANGED <<scn, sent, lost, error, faults, blank>>

AppShutdownWrite(e, id) ==
  LET r == StreamShutdownWrite(map[e], id, 7) IN
  /\ Alive /\ "shutdown_write" \in scn.calls /\ id \in scn.writes[e] /\ r.err = NoError
  /\ map' = [map EXCEPT ![e] = r.m]
  /\ app' = [app EXCEPT ![e][id].cut = TRUE]
  /\ UNCHANGED <<scn, sent, lost, error, faults, blank>>

AppShutdownRead(e, id) ==
  LET r == StreamShutdownRead(map[e], id, 7) IN
  /\ Alive /\ "shutdown_read" \in scn.calls /\ r.err = NoError
  /\ map' = [map EXCEPT ![e] = r.m]
  /\ app' = [app EXCEPT ![e][id].quit = TRUE]
  /\ UNCHANGED <<scn, sent, lost, error, faults, blank>>

(* stream_bidi_new and stream_uni_new, with the first id of the scenario,  *)
(* and stream_set_priority                                                 *)
AppOpen(e, id) ==
  LET r == StreamNewId(map[e], IsBidi(id), 1, FALSE) IN
  /\ Alive /\ "open" \in scn.calls /\ id \in scn.writes[e] /\ map[e].next[IsBidi(id)] = id
  /\ map' = [map EXCEPT ![e] = r.m]
  /\ UNCHANGED <<scn, sent, lost, app, error, faults, blank>>
AppSetPriority(e, id) ==
  LET r == StreamSetPriority(map[e], id, 3, TRUE) IN
  /\ Alive /\ "open" \in scn.calls /\ id \in DOMAIN map[e].streams
  /\ map' = [map EXCEPT ![e] = r.m]
  /\ UNCHANGED <<scn, sent, lost, app, error, faults, blank>>

(* stream_writable, and want_write and want_read turned off and on         *)
AppWritable(e, id) ==
  LET r == StreamWritable(map[e], id, 2) IN
  /\ Alive /\ "want" \in scn.calls /\ id \in scn.writes[e]
  /\ map' = [map EXCEPT ![e] = r.m]
  /\ UNCHANGED <<scn, sent, lost, app, error, faults, blank>>
AppWant(e, id, want) ==
  LET r == IF id \in scn.writes[e] THEN WantWrite(map[e], id, want)
           ELSE WantRead(map[e], id, want)
  IN /\ Alive /\ "want" \in scn.calls
     /\ map' = [map EXCEPT ![e] = r.m]
     /\ UNCHANGED <<scn, sent, lost, app, error, faults, blank>>

(* The endpoint answers the event StreamClosed.                            *)
Destroy(e, id) ==
  /\ Alive /\ id \in map[e].events
  /\ map' = [map EXCEPT ![e] = StreamDestroy(@, id)]
  /\ UNCHANGED <<scn, sent, lost, app, error, faults, blank>>

IsBlank(f) == f.t = "stream" /\ f.len = 0 /\ ~f.fin

(* send and send_packet: lost frames are made due again, then a packet is  *)
(* filled with what there is to send.                                      *)
SendDue(e, m) == NeedSendStreamFrames(m) /\ Len(sent[e]) < MaxFlight
Filled(e, m) ==
  IF SendDue(e, m) THEN StreamFrames(StreamControlFrames(m, scn.soon)) ELSE [m |-> m, out |-> <<>>]
Send(e) ==
  /\ Alive /\ (SendDue(e, map[e]) \/ lost[e] # <<>>)
  /\ \E m \in {FramesLost(map[e], lost[e])} : \E r \in {Filled(e, m)} :
       /\ map' = [map EXCEPT ![e] = r.m]
       /\ lost' = [lost EXCEPT ![e] = <<>>]
       /\ sent' = IF r.out = <<>> THEN sent
                  ELSE [sent EXCEPT ![e] =
                          Append(@, [frames |-> r.out, net |-> "fly", lost |-> FALSE])]
       /\ blank' = (blank \/ \E i \in DOMAIN r.out : IsBlank(r.out[i]))
  /\ UNCHANGED <<scn, app, error, faults>>

(* A packet is forgotten once its fate is known on both sides.             *)
Settle(pkts, i) ==
  IF pkts[i].lost /\ pkts[i].net # "fly" THEN RemoveAt(pkts, i) ELSE pkts

Deliver(e, i) ==
  /\ Alive /\ sent[e][i].net = "fly"
  /\ \E r \in {RecvFrames(map[~e], sent[e][i].frames)} :
       /\ map' = [map EXCEPT ![~e] = r.m]
       /\ error' = [error EXCEPT ![~e] = r.err]
  /\ sent' = [sent EXCEPT ![e] = Settle([@ EXCEPT ![i].net = "got"], i)]
  /\ UNCHANGED <<scn, lost, app, faults, blank>>

NetDrop(e, i) ==
  /\ Alive /\ sent[e][i].net = "fly" /\ faults < scn.faults
  /\ sent' = [sent EXCEPT ![e] = Settle([@ EXCEPT ![i].net = "dropped"], i)]
  /\ faults' = faults + 1
  /\ UNCHANGED <<scn, map, lost, app, error, blank>>

(* The acknowledgment of a packet arrives; of a packet deemed lost it says *)
(* nothing about frames.                                                   *)
Ack(e, i) ==
  /\ Alive /\ sent[e][i].net = "got" /\ ~sent[e][i].lost
  /\ map' = [map EXCEPT ![e] = FramesAcked(@, sent[e][i].frames)]
  /\ sent' = [sent EXCEPT ![e] = RemoveAt(@, i)]
  /\ UNCHANGED <<scn, lost, app, error, faults, blank>>

(* A packet is deemed lost, rightly or not.                                *)
Lose(e, i) ==
  /\ Alive /\ ~sent[e][i].lost
  /\ sent[e][i].net # "dropped" => faults < scn.faults
  /\ lost' = [lost EXCEPT ![e] = @ \o sent[e][i].frames]
  /\ sent' = [sent EXCEPT ![e] = Settle([@ EXCEPT ![i].lost = TRUE], i)]
  /\ faults' = faults + (IF sent[e][i].net = "dropped" THEN 0 ELSE 1)
  /\ UNCHANGED <<scn, map, app, error, blank>>

(* A probe timeout sends the frames of the oldest packet with data again,  *)
(* and still waits for its acknowledgment.                                 *)
HasData(p) == \E i \in DOMAIN p.frames : p.frames[i].t = "stream"
Probe(e, i) ==
  /\ Alive /\ faults < scn.faults
  /\ HasData(sent[e][i]) /\ ~sent[e][i].lost
  /\ \A j \in 1..(i - 1) : sent[e][j].lost \/ ~HasData(sent[e][j])
  /\ lost' = [lost EXCEPT ![e] = @ \o sent[e][i].frames]
  /\ faults' = faults + 1
  /\ UNCHANGED <<scn, map, sent, app, error, blank>>

Next ==
  \E e \in Ends :
    \/ \E id \in scn.ids :
         AppWrite(e, id) \/ AppRead(e, id) \/ AppShutdownWrite(e, id)
           \/ AppShutdownRead(e, id) \/ AppOpen(e, id) \/ AppSetPriority(e, id)
           \/ AppWritable(e, id) \/ (\E want \in BOOLEAN : AppWant(e, id, want))
           \/ Destroy(e, id)
    \/ Send(e)
    \/ \E i \in DOMAIN sent[e] :
         Deliver(e, i) \/ NetDrop(e, i) \/ Ack(e, i) \/ Lose(e, i) \/ Probe(e, i)

Spec == Init /\ [][Next]_vars

(* The endpoints, the network and the applications do not stop while there *)
(* is a packet to send, to carry, to acknowledge or, when dropped, to deem *)
(* lost, something to read, or room to write what remains.  Nothing is     *)
(* assumed of which step is taken: only finitely many are possible.        *)
CanProgress ==
  /\ Alive
  /\ \E e \in Ends :
       \/ lost[e] # <<>>
       \/ NeedSendStreamFrames(map[e]) /\ Len(sent[e]) < MaxFlight
       \/ \E id \in map[e].readable : CheckReadable(map[e], id)
       \/ \E id \in map[e].writable \cap scn.writes[e] :
            CheckWritable(map[e], id) /\ ~app[e][id].fin
       \/ \E i \in DOMAIN sent[e] : sent[e][i].net = "fly" \/ ~sent[e][i].lost
FairSpec == Spec /\ ([]<>~CanProgress \/ []<><<TRUE>>_vars)

-----------------------------------------------------------------------------
(* A stream is never queued twice for sending without cause: a STREAM      *)
(* frame with neither data nor FIN, which on_stream_frame counts against   *)
(* the connection but RecvBuf does not store, makes the two endpoints'     *)
(* accounts differ; the properties that compare them leave it out (blank). *)

(* Whatever the network and the applications do, neither endpoint finds    *)
(* fault with a frame of the other: no flow control, final size, stream    *)
(* limit or stream state error closes the connection (recv_frame).         *)
PeersAgree == blank \/ Alive

(* The end of a stream is reported (stream_read) only if the writer ended  *)
(* it, and after every byte it wrote.                                      *)
EndMeansAll ==
  \A e \in Ends, id \in scn.ids :
    app[e][id].ended => app[~e][id].fin /\ app[e][id].read = app[~e][id].wrote

(* What the sender may send is never more than what the receiver granted,  *)
(* for a stream and for the connection, and no more was received than is   *)
(* counted as sent (SendCapacity, FlowControl).                            *)
WithinCredit ==
  \A e \in Ends :
    /\ blank \/ map[~e].fc.recv <= map[e].cap.tx
    /\ map[e].cap.tx <= map[e].cap.max
    /\ map[e].cap.max <= map[~e].fc.max
    /\ \A id \in DOMAIN map[e].streams \cap DOMAIN map[~e].streams :
         /\ map[e].streams[id].send.write <= map[e].streams[id].send.max
         /\ map[e].streams[id].send.max <= map[~e].streams[id].recv.fc.max

(* The endpoints' accounts agree: no legal frame is refused, no end of a   *)
(* stream comes early and no credit is exceeded.                           *)
StreamsSound == PeersAgree /\ EndMeansAll /\ WithinCredit

(* A stream with data to send is in the send queue, so that the data does  *)
(* not wait for another call (push_sendable), and read's copying loop ends *)
(* (SendBuf::read).                                                        *)
Queued(m) ==
  UNION {Range(m.sendable[u].ordered) \cup Range(m.sendable[u].robin) : u \in DOMAIN m.sendable}
SendableIsQueued ==
  \A e \in Ends : \A id \in DOMAIN map[e].streams :
    /\ ~map[e].streams[id].send.spin
    /\ IsSendable(map[e].streams[id]) => id \in Queued(map[e])

(* A stream that is written to, and ended with its last data, is read to   *)
(* its end, though windows are exhausted and packets are dropped, deemed   *)
(* lost and probed (process_all_lost_frames).  The one stall left out is   *)
(* the writer out of connection credit when a MAX_DATA that would give it  *)
(* more was dropped: FlowControl::update_max_data raised the limit when    *)
(* the frame was first written, so that need_send_max_data is false when   *)
(* the loss asks for another, and DATA_BLOCKED has no effect.              *)
Awaited ==
  /\ scn.calls = {} /\ <<0, TRUE>> \notin scn.chunks
  /\ \E e \in Ends, id \in scn.ids : app[e][id].wrote > 0 /\ ~app[~e][id].ended
Grants(p) == \E i \in DOMAIN p.frames : p.frames[i].t = "max_data"
MaxDataDropped(e) ==
  /\ map[e].cap.tx = map[e].cap.max /\ map[e].cap.max < map[~e].fc.max
  /\ \A i \in DOMAIN sent[~e] : Grants(sent[~e][i]) => sent[~e][i].net # "fly"
Delivered == []<>(~Awaited \/ \E e \in Ends : MaxDataDropped(e))

-----------------------------------------------------------------------------
(***************************************************************************)
(* Small instances of TqStreams.  A stream sends at most a few bytes over  *)
(* windows smaller than that.                                              *)
(***************************************************************************)
Params(data, streams, stream_data, window) ==
  [data |-> data, streams |-> [b \in BOOLEAN |-> streams], bidi_local |-> stream_data,
   bidi_remote |-> stream_data, uni |-> stream_data, conn_window |-> window,
   stream_window |-> window]
Both(p) == [e \in BOOLEAN |-> p]
ByClient(ids) == [e \in BOOLEAN |-> IF e THEN {} ELSE ids]

(* One stream of the client, 3 bytes over a stream window of 2, with two   *)
(* packets dropped, deemed lost or probed.                                 *)
Transfer ==
  [params |-> Both(Params(4, 1, 2, 3)), ids |-> {2}, writes |-> ByClient({2}),
   chunks |-> {<<1, FALSE>>, <<2, TRUE>>, <<1, TRUE>>}, bytes |-> 3, calls |-> {}, soon |-> TRUE,
   faults |-> 2]

(* A side is shut down by its application in the middle of it.             *)
Shutdown(side) ==
  [Transfer EXCEPT !.calls = {side, "eager"}, !.chunks = {<<2, FALSE>>, <<0, TRUE>>}, !.bytes = 2,
                   !.faults = 1]

(* Both write to one bidirectional stream over a connection window of 1.   *)
Echo ==
  [Transfer EXCEPT !.params = Both(Params(1, 1, 2, 2)), !.ids = {0}, !.bytes = 2,
                   !.writes = [e \in BOOLEAN |-> {0}], !.chunks = {<<2, TRUE>>, <<1, TRUE>>},
                   !.faults = 0]

(* The same bytes over a connection window that runs out, and a fault.     *)
Narrow ==
  [Transfer EXCEPT !.params = Both(Params(2, 1, 4, 2)), !.faults = 1,
                   !.chunks = {<<3, TRUE>>, <<1, TRUE>>}]

(* Two streams where the limit is one.                                     *)
Limit ==
  [Transfer EXCEPT !.ids = {2, 6}, !.writes = ByClient({2, 6}), !.bytes = 1,
                   !.chunks = {<<1, TRUE>>}, !.faults = 1, !.calls = {"eager"}]

(* The calls that set priorities and ask to be told.                       *)
Calls ==
  [Transfer EXCEPT !.calls = {"open", "want", "eager"}, !.chunks = {<<2, TRUE>>, <<1, TRUE>>},
                   !.bytes = 2, !.faults = 0]

McScenarios ==
  {Transfer, Shutdown("shutdown_read"), Shutdown("shutdown_write"), Echo, Narrow,
   Limit, Calls}
=============================================================================
