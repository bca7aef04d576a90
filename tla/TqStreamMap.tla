----------------------------- MODULE TqStreamMap -----------------------------
(***************************************************************************)
(* tquic's StreamMap: the streams of one endpoint of a connection with the *)
(* queues and sets that drive sending and the application, the stream      *)
(* limits and the flow control of the connection, as operators on a        *)
(* record.  Stream ids are those of QUIC: bit 0 tells the initiator, bit 1 *)
(* unidirectional.  An operation with a Result returns [err, m].           *)
(***************************************************************************)
EXTENDS TqBuffers, Functions

Put(f, k, v) == [x \in DOMAIN f \cup {k} |-> IF x = k THEN v ELSE f[x]]
Drop(f, k) == Restrict(f, DOMAIN f \ {k})
Empty == <<>>
Fails(e, m) == [err |-> e, m |-> m]
Succeeds(m) == [err |-> NoError, m |-> m]

(* is_local, is_bidi and the sequence number of an id                      *)
IsLocal(id, server) == (id % 2 = 1) = server
IsBidi(id) == (id \div 2) % 2 = 0
Seq0(id) == id \div 4

-----------------------------------------------------------------------------
(* ConcurrencyControl: limits and counts by IsBidi; avail[local][bidi] are *)
(* the sequence numbers of the streams that may still be created.          *)
ConcNew(params) ==
  [peer_max |-> [b \in BOOLEAN |-> 0], peer_opened |-> [b \in BOOLEAN |-> 0],
   local_max |-> params.streams, local_next |-> params.streams,
   local_opened |-> [b \in BOOLEAN |-> 0], blocked |-> [b \in BOOLEAN |-> None],
   avail |-> [l \in BOOLEAN |-> [b \in BOOLEAN |->
                IF l THEN {} ELSE RsInsert({}, <<0, params.streams[b]>>)]]]

(* update_peer_max_streams, update_local_max_streams                       *)
UpdatePeerMaxStreams(c, bidi, max) ==
  LET top == Max({max, c.peer_max[bidi]}) IN
  [c EXCEPT !.avail[TRUE][bidi] = RsInsert(@, <<c.peer_max[bidi], top>>),
            !.peer_max[bidi] = top,
            !.blocked[bidi] = IF top > @ THEN None ELSE @]
UpdateLocalMaxStreams(c, bidi) ==
  [c EXCEPT !.avail[FALSE][bidi] = RsInsert(@, <<c.local_max[bidi], c.local_next[bidi]>>),
            !.local_max[bidi] = c.local_next[bidi]]

(* should_update_local_max_streams: the credit that waits to be given out  *)
(* exceeds what the peer has left.                                         *)
ShouldUpdateMaxStreams(c, bidi) ==
  /\ c.local_next[bidi] # c.local_max[bidi]
  /\ c.local_next[bidi] - c.local_max[bidi] > c.local_max[bidi] - c.peer_opened[bidi]

(* check_concurrency_limits: opening a stream opens the lower ones too.    *)
CheckConcurrency(c, id, server) ==
  LET bidi == IsBidi(id)
      seq == Seq0(id) + 1
  IN IF IsLocal(id, server)
     THEN IF Max({c.local_opened[bidi], seq}) > c.peer_max[bidi]
          THEN [err |-> "StreamLimitError", c |-> [c EXCEPT !.blocked[bidi] = c.peer_max[bidi]]]
          ELSE [err |-> NoError, c |-> [c EXCEPT !.local_opened[bidi] = Max({@, seq})]]
     ELSE IF Max({c.peer_opened[bidi], seq}) > c.local_max[bidi]
          THEN [err |-> "StreamLimitError", c |-> c]
          ELSE [err |-> NoError, c |-> [c EXCEPT !.peer_opened[bidi] = Max({@, seq})]]

(* is_limited, is_available                                                *)
IsLimited(c, id, server) ==
  Seq0(id) + 1 > (IF IsLocal(id, server) THEN c.peer_max ELSE c.local_max)[IsBidi(id)]
IsAvailable(c, id, server) == RsContains(c.avail[IsLocal(id, server)][IsBidi(id)], Seq0(id))

-----------------------------------------------------------------------------
(* Stream                                                                  *)
StreamNew(bidi, local, max_tx, max_rx, max_window) ==
  [bidi |-> bidi, local |-> local, urgency |-> 127, incremental |-> TRUE,
   recv |-> RecvNew(max_rx, max_window), send |-> SendNew(max_tx), thresh |-> 1,
   wantread |-> bidi \/ ~local, wantwrite |-> bidi \/ local, closed |-> FALSE]

IsReadable(s) == RecvReady(s.recv)
IsSendable(s) == SendReady(s.send)
IsWritable(s) ==
  ~SendIsFin(s.send) /\ ~s.send.shutdown /\ s.send.write + s.thresh <= s.send.max
IsComplete(s) ==
  /\ (s.bidi \/ s.local) => SendIsComplete(s.send)
  /\ (s.bidi \/ ~s.local) => RecvIsFin(s.recv)

(* Transport parameters of the streams: data is initial_max_data, streams  *)
(* the stream limits by IsBidi, and bidi_local, bidi_remote and uni the    *)
(* stream data limits.  max_stream_data_limit pairs the two sides.         *)
MaxRx(m, local, bidi) ==
  CASE local /\ bidi -> m.local.bidi_local
    [] local /\ ~bidi -> 0
    [] ~local /\ bidi -> m.local.bidi_remote
    [] OTHER -> m.local.uni
MaxTx(m, local, bidi) ==
  CASE local /\ bidi -> m.peer.bidi_remote
    [] local /\ ~bidi -> m.peer.uni
    [] ~local /\ bidi -> m.peer.bidi_local
    [] OTHER -> 0

NoParams ==
  [data |-> 0, streams |-> [b \in BOOLEAN |-> 0], bidi_local |-> 0, bidi_remote |-> 0,
   uni |-> 0, conn_window |-> 0, stream_window |-> 0]

(* StreamMap::new.  events are the closed streams that the endpoint has    *)
(* still to destroy; next is next_stream_id by IsBidi.                     *)
MapNew(server, params) ==
  [server |-> server, streams |-> Empty, sendable |-> Empty, readable |-> {}, writable |-> {},
   reset |-> Empty, stopped |-> Empty, almost_full |-> {}, blocked |-> Empty,
   conc |-> ConcNew(params), fc |-> FcNew(params.data, params.conn_window),
   cap |-> [max |-> 0, tx |-> 0, capacity |-> 0, blocked |-> None],
   rx_almost_full |-> FALSE,
   next |-> [b \in BOOLEAN |-> (IF server THEN 1 ELSE 0) + (IF b THEN 0 ELSE 2)],
   peer |-> NoParams, local |-> params, events |-> {}]

(* update_peer_stream_transport_params, SendCapacity's update_max_data and *)
(* update_capacity                                                         *)
UpdateCapacity(cap) == [cap EXCEPT !.capacity = cap.max - cap.tx]
RaiseMaxData(cap, max) == UpdateCapacity([cap EXCEPT !.max = Max({@, max})])
UpdatePeerParams(m, tp) ==
  [m EXCEPT !.peer = tp, !.cap = RaiseMaxData(@, tp.data),
            !.conc = UpdatePeerMaxStreams(
                       UpdatePeerMaxStreams(@, TRUE, tp.streams[TRUE]), FALSE, tp.streams[FALSE])]

-----------------------------------------------------------------------------
(* The sets and queues: sendable maps an urgency to its two queues, the    *)
(* heap of non-incremental streams kept in order of stream id.             *)
EmptyQueue == [ordered |-> <<>>, robin |-> <<>>]

PushSendable(m, id) ==
  LET s == m.streams[id]
      q == IF s.urgency \in DOMAIN m.sendable THEN m.sendable[s.urgency] ELSE EmptyQueue
      below == Len(SelectSeq(q.ordered, LAMBDA x : x <= id))
  IN [m EXCEPT !.sendable = Put(@, s.urgency,
        IF s.incremental THEN [q EXCEPT !.robin = Append(@, id)]
        ELSE [q EXCEPT !.ordered = SubSeq(@, 1, below) \o <<id>>
                                     \o SubSeq(@, below + 1, Len(@))])]

(* peek_sendable turns the round-robin queue; the peeked stream is last.   *)
PeekSendable(m) ==
  LET u == Min(DOMAIN m.sendable)
      q == m.sendable[u]
  IN IF q.ordered # <<>> THEN [id |-> Head(q.ordered), m |-> m]
     ELSE [id |-> Head(q.robin),
           m |-> [m EXCEPT !.sendable[u].robin = Append(Tail(@), Head(@))]]

(* remove_sendable removes the last peeked stream of the first queue.      *)
RemoveSendable(m) ==
  LET u == Min(DOMAIN m.sendable)
      q == m.sendable[u]
      r == IF q.ordered # <<>> THEN [q EXCEPT !.ordered = Tail(@)]
           ELSE [q EXCEPT !.robin = SubSeq(@, 1, Len(@) - 1)]
  IN [m EXCEPT !.sendable = IF r = EmptyQueue THEN Drop(@, u) ELSE Put(@, u, r)]

(* is_closed: a stream that is neither there nor to be created is gone.    *)
IsClosed(m, id) ==
  IF id \in DOMAIN m.streams THEN m.streams[id].closed
  ELSE ~IsAvailable(m.conc, id, m.server) /\ ~IsLimited(m.conc, id, m.server)

(* mark_closed gives a stream of the peer back to its limit.               *)
MarkClosed(m, id) ==
  IF IsClosed(m, id) THEN m
  ELSE [m EXCEPT !.conc.local_next[IsBidi(id)] = IF m.streams[id].local THEN @ ELSE @ + 1,
                 !.readable = @ \ {id}, !.writable = @ \ {id},
                 !.streams[id].closed = TRUE, !.events = @ \cup {id}]
CloseIfComplete(m, id) ==
  IF IsComplete(m.streams[id]) /\ ~IsReadable(m.streams[id]) THEN MarkClosed(m, id) ELSE m

(* stream_destroy, by which the endpoint answers the StreamClosed event.   *)
StreamDestroy(m, id) == [m EXCEPT !.streams = Drop(@, id), !.events = @ \ {id}]

(* get_or_create(id, local), Done for a stream that is gone                *)
GetOrCreate(m, id, local) ==
  LET bidi == IsBidi(id)
      check == CheckConcurrency(m.conc, id, m.server)
      s == StreamNew(bidi, local, MaxTx(m, local, bidi), MaxRx(m, local, bidi),
                     m.local.stream_window)
  IN CASE id \in DOMAIN m.streams -> Succeeds(m)
       [] id \notin DOMAIN m.streams /\ IsClosed(m, id) -> Fails("Done", m)
       [] id \notin DOMAIN m.streams /\ ~IsClosed(m, id) /\ local # IsLocal(id, m.server) ->
            Fails("StreamStateError", m)
       [] OTHER ->
            IF check.err # NoError THEN Fails(check.err, [m EXCEPT !.conc = check.c])
            ELSE Succeeds([m EXCEPT
              !.conc = [check.c EXCEPT !.avail[local][bidi] =
                          RsRemove(@, <<Seq0(id), Seq0(id) + 1>>)],
              !.writable = IF IsWritable(s) THEN @ \cup {id} ELSE @,
              !.next[bidi] = Max({@, id}) + 4,
              !.streams = Put(@, id, s)])

(* The connection consumes delta bytes, and may have to announce more.     *)
Consume(m, delta) ==
  LET fc == FcConsumed(m.fc, delta) IN
  [m EXCEPT !.fc = fc, !.rx_almost_full = @ \/ FcShouldSend(fc)]

(* Back in the send queue, unless it was already sendable.                 *)
Requeue(m, id, was_sendable, empty_fin) ==
  IF (IsSendable(m.streams[id]) \/ empty_fin) /\ ~was_sendable THEN PushSendable(m, id) ELSE m

-----------------------------------------------------------------------------
(* The calls of the application.                                           *)

(* stream_set_priority, and stream_bidi_new and stream_uni_new by way of it *)
StreamSetPriority(m, id, urgency, incremental) ==
  LET g == GetOrCreate(m, id, TRUE) IN
  CASE g.err = "Done" -> Succeeds(m)
    [] g.err # "Done" /\ g.err # NoError -> g
    [] OTHER -> Succeeds([g.m EXCEPT !.streams[id].urgency = urgency,
                                     !.streams[id].incremental = incremental])
StreamNewId(m, bidi, urgency, incremental) ==
  StreamSetPriority(m, m.next[bidi], urgency, incremental)

(* stream_read with room for cap bytes; len and fin are what is returned.  *)
StreamRead(m, id, cap) ==
  LET s == m.streams[id]
      r == RecvRead(s.recv, cap)
      after == [m EXCEPT !.streams[id].recv = r.rb]
      full == IF RecvShouldSend(r.rb)
              THEN [after EXCEPT !.almost_full = @ \cup {id}] ELSE after
      counted == Consume(full, r.len)
      unread == IF RecvReady(r.rb) THEN counted ELSE [counted EXCEPT !.readable = @ \ {id}]
      refuse(e) == [err |-> e, m |-> m, len |-> 0, fin |-> FALSE]
  IN CASE ~IsBidi(id) /\ IsLocal(id, m.server) -> refuse("StreamStateError")
       [] id \notin DOMAIN m.streams -> refuse("StreamStateError")
       [] id \in DOMAIN m.streams /\ ~IsReadable(s) -> refuse("Done")
       [] OTHER ->
            IF r.err # NoError
            THEN [err |-> r.err, len |-> 0, fin |-> FALSE,
                  m |-> [(IF IsComplete(after.streams[id]) THEN MarkClosed(after, id) ELSE after)
                           EXCEPT !.readable = @ \ {id}]]
            ELSE [err |-> NoError, len |-> r.len, fin |-> r.fin,
                  m |-> IF IsComplete(unread.streams[id]) THEN MarkClosed(unread, id)
                        ELSE unread]

(* mark_blocked: STREAM_DATA_BLOCKED is due once per limit.                *)
MarkBlocked(m, id) ==
  LET max == m.streams[id].send.max IN
  IF m.streams[id].send.blocked = max THEN m
  ELSE [m EXCEPT !.streams[id].send.blocked = max, !.blocked = Put(@, id, max)]
ClearBlocked(m, id) ==
  [m EXCEPT !.streams[id].send.blocked = None, !.blocked = Drop(@, id)]

(* What stream_write does once the stream is there, with room for cap      *)
(* bytes on the connection.                                                *)
WriteTo(m, id, want, fin) ==
  LET s == m.streams[id]
      cap == m.cap.capacity
      len == Min({want, cap})
      ends == fin /\ want <= cap
      w == SendWrite(s.send, len, ends)
      written == [m EXCEPT !.streams[id].send = w.sb]
      noted == IF w.len < len THEN MarkBlocked(written, id) ELSE ClearBlocked(written, id)
      queued == Requeue(noted, id, IsSendable(s), len = 0 /\ ends)
      still == IsWritable(written.streams[id])
  IN IF cap = 0 /\ want > 0
     THEN [err |-> "Done", len |-> 0,
           m |-> [m EXCEPT !.writable = IF IsWritable(s) THEN @ \cup {id} ELSE @,
                           !.streams[id].wantwrite = TRUE]]
     ELSE IF w.err # NoError
     THEN [err |-> w.err, len |-> 0, m |-> [m EXCEPT !.writable = @ \ {id}]]
     ELSE [err |-> IF w.len = 0 /\ len > 0 THEN "Done" ELSE NoError, len |-> w.len,
           m |-> [queued EXCEPT
                    !.writable = IF ~still THEN @ \ {id}
                                 ELSE IF IsWritable(s) /\ want > cap THEN @ \cup {id} ELSE @,
                    !.cap.capacity = @ - w.len, !.cap.tx = @ + w.len,
                    !.streams[id].wantwrite = @ \/ w.len < want]]

(* stream_write of want bytes                                              *)
StreamWrite(m, id, want, fin) ==
  LET noted == IF m.cap.max - m.cap.tx < want THEN [m EXCEPT !.cap.blocked = m.cap.max] ELSE m
      g == GetOrCreate(noted, id, TRUE)
  IN CASE ~IsBidi(id) /\ ~IsLocal(id, m.server) ->
            [err |-> "StreamStateError", len |-> 0, m |-> m]
       [] (IsBidi(id) \/ IsLocal(id, m.server)) /\ g.err # NoError ->
            [err |-> g.err, len |-> 0, m |-> g.m]
       [] OTHER -> WriteTo(g.m, id, want, fin)

(* stream_shutdown(Shutdown::Read)                                         *)
StreamShutdownRead(m, id, error) ==
  LET r == RecvShutdown(m.streams[id].recv)
      after == [m EXCEPT !.streams[id].recv = r.rb, !.readable = @ \ {id},
                         !.stopped = IF RecvIsFin(r.rb) THEN @ ELSE Put(@, id, error)]
  IN CASE id \notin DOMAIN m.streams -> Fails("Done", m)
       [] id \in DOMAIN m.streams /\ IsLocal(id, m.server) /\ ~IsBidi(id) ->
            Fails("StreamStateError", m)
       [] OTHER -> IF r.err # NoError THEN Fails(r.err, m)
                   ELSE Succeeds(Consume(after, r.unread))

(* The unsent bytes of a stream that is reset are given back, and a        *)
(* RESET_STREAM is due.                                                    *)
ResetSend(m, id, r, error) ==
  [m EXCEPT !.streams[id].send = r.sb,
            !.cap = UpdateCapacity([@ EXCEPT !.tx = Max({0, @ - r.unsent})]),
            !.reset = Put(@, id, [error |-> error, final |-> r.final])]

(* stream_shutdown(Shutdown::Write)                                        *)
StreamShutdownWrite(m, id, error) ==
  LET r == SendShutdown(m.streams[id].send) IN
  CASE id \notin DOMAIN m.streams -> Fails("Done", m)
    [] id \in DOMAIN m.streams /\ ~IsLocal(id, m.server) /\ ~IsBidi(id) ->
         Fails("StreamStateError", m)
    [] OTHER -> IF r.err # NoError THEN Fails(r.err, m)
                ELSE Succeeds([ResetSend(m, id, r, error) EXCEPT !.writable = @ \ {id}])

(* stream_writable(id, len): too little room makes len the threshold.      *)
StreamWritable(m, id, len) ==
  LET room == m.streams[id].send.max - m.streams[id].send.write
      noted == [m EXCEPT !.cap.blocked = IF m.cap.max - m.cap.tx < len THEN m.cap.max ELSE @,
                         !.streams[id].thresh = Max({1, len})]
  IN CASE id \notin DOMAIN m.streams -> Fails("StreamStateError", m)
       [] id \in DOMAIN m.streams /\ m.streams[id].send.error # None -> Fails("StreamStopped", m)
       [] OTHER -> Succeeds(
            IF Min({m.cap.capacity, room}) >= len THEN m
            ELSE IF room < len THEN MarkBlocked(noted, id)
            ELSE IF IsWritable(noted.streams[id]) THEN [noted EXCEPT !.writable = @ \cup {id}]
            ELSE noted)

(* check_writable and check_readable, has_writable and has_readable        *)
CheckWritable(m, id) ==
  /\ id \in DOMAIN m.streams /\ m.streams[id].wantwrite
  /\ LET sb == m.streams[id].send IN
     sb.error # None \/ Min({m.cap.capacity, sb.max - sb.write}) >= m.streams[id].thresh
CheckReadable(m, id) == id \in DOMAIN m.streams /\ m.streams[id].wantread
HasWritable(m) == m.cap.capacity # 0 /\ \E id \in m.writable : CheckWritable(m, id)
HasReadable(m) == \E id \in m.readable : CheckReadable(m, id)

(* want_write and want_read                                                *)
WantWrite(m, id, want) ==
  CASE id \notin DOMAIN m.streams -> Fails("Done", m)
    [] id \in DOMAIN m.streams /\ ~m.streams[id].bidi /\ ~m.streams[id].local ->
         Fails("InternalError", m)
    [] OTHER -> Succeeds([m EXCEPT !.streams[id].wantwrite = want])
WantRead(m, id, want) ==
  CASE id \notin DOMAIN m.streams -> Fails("Done", m)
    [] id \in DOMAIN m.streams /\ ~m.streams[id].bidi /\ m.streams[id].local ->
         Fails("InternalError", m)
    [] OTHER -> Succeeds([m EXCEPT !.streams[id].wantread = want])

-----------------------------------------------------------------------------
(* Frames from the peer.                                                   *)

(* A frame for a stream that is gone is ignored.                           *)
IgnoreDone(m, g) == IF g.err = "Done" THEN Succeeds(m) ELSE g

OnMaxData(m, max) ==
  LET cap == RaiseMaxData(m.cap, max) IN
  [m EXCEPT !.cap = [cap EXCEPT !.blocked = IF cap.max > @ THEN None ELSE @]]

OnMaxStreamData(m, id, max) ==
  LET g == GetOrCreate(m, id, FALSE)
      was == IsSendable(g.m.streams[id])
      raised == [g.m EXCEPT !.streams[id].send = SendUpdateMax(@, max)]
      after == Requeue(raised, id, was, FALSE)
  IN CASE ~IsLocal(id, m.server) /\ ~IsBidi(id) -> Fails("StreamStateError", m)
       [] (IsLocal(id, m.server) \/ IsBidi(id)) /\ g.err # NoError -> IgnoreDone(m, g)
       [] OTHER -> Succeeds([after EXCEPT !.writable =
                               IF IsWritable(after.streams[id]) THEN @ \cup {id} ELSE @])

OnMaxStreams(m, max, bidi) == [m EXCEPT !.conc = UpdatePeerMaxStreams(@, bidi, max)]

(* DATA_BLOCKED, STREAM_DATA_BLOCKED and STREAMS_BLOCKED change nothing.   *)
OnStreamDataBlocked(m, id) ==
  IF IsLocal(id, m.server) /\ ~IsBidi(id) THEN Fails("StreamStateError", m) ELSE Succeeds(m)

(* RESET_STREAM: everything up to the final size counts as received and,   *)
(* from the read offset on, as consumed.                                   *)
OnResetStream(m, id, error, final) ==
  LET g == GetOrCreate(m, id, FALSE)
      left == m.fc.max - m.fc.recv
      rb == g.m.streams[id].recv
      r == RecvReset(rb, error, final)
      after == [g.m EXCEPT !.streams[id].recv = r.rb,
                           !.readable = IF ~RecvReady(rb) /\ RecvReady(r.rb)
                                        THEN @ \cup {id} ELSE @]
      closed == CloseIfComplete(after, id)
      counted == Consume([closed EXCEPT !.fc = FcReceived(@, r.delta)],
                         Max({0, final - rb.read}))
  IN CASE ~IsBidi(id) /\ IsLocal(id, m.server) -> Fails("StreamStateError", m)
       [] (IsBidi(id) \/ ~IsLocal(id, m.server)) /\ g.err # NoError -> IgnoreDone(m, g)
       [] OTHER -> IF r.err # NoError THEN Fails(r.err, g.m)
                   ELSE IF r.delta > left THEN Fails("FlowControlError", after)
                   ELSE Succeeds(counted)

OnStopSending(m, id, error) ==
  LET g == GetOrCreate(m, id, FALSE)
      s == g.m.streams[id]
      r == SendStop(s.send, error)
      after == ResetSend(g.m, id, r, error)
  IN CASE ~IsLocal(id, m.server) /\ ~IsBidi(id) -> Fails("StreamStateError", m)
       [] (IsLocal(id, m.server) \/ IsBidi(id)) /\ g.err # NoError -> IgnoreDone(m, g)
       [] OTHER -> Succeeds(IF r.err # NoError THEN g.m
                            ELSE IF IsWritable(s) THEN after
                            ELSE [after EXCEPT !.writable = @ \cup {id}])

(* STREAM: data beyond what was received counts against the connection;    *)
(* on a stream shut down for reading it is consumed at once.               *)
OnStream(m, id, off, len, fin) ==
  LET g == GetOrCreate(m, id, FALSE)
      rb == g.m.streams[id].recv
      delta == Max({0, off + len - rb.recv})
      w == RecvWrite(rb, off, len, fin)
      after == [g.m EXCEPT !.streams[id].recv = w.rb, !.fc = FcReceived(@, delta),
                           !.readable = IF ~RecvReady(rb) /\ RecvReady(w.rb)
                                        THEN @ \cup {id} ELSE @]
      refused == /\ IsLocal(id, m.server)
                 /\ ~IsBidi(id) \/ (id \notin DOMAIN m.streams /\ ~IsClosed(m, id))
  IN CASE refused -> Fails("StreamStateError", m)
       [] ~refused /\ g.err # NoError -> IgnoreDone(m, g)
       [] OTHER -> IF delta > m.fc.max - m.fc.recv THEN Fails("FlowControlError", g.m)
                   ELSE IF w.err # NoError THEN Fails(w.err, g.m)
                   ELSE Succeeds(IF rb.shutdown THEN Consume(after, delta) ELSE after)

-----------------------------------------------------------------------------
(* Frames of sent packets that were acknowledged or deemed lost.           *)
OnStreamAcked(m, id, off, len) ==
  IF id \notin DOMAIN m.streams THEN m
  ELSE CloseIfComplete([m EXCEPT !.streams[id].send = AckAndDrop(@, off, len)], id)
OnResetStreamAcked(m, id) ==
  IF id \notin DOMAIN m.streams THEN m ELSE CloseIfComplete(m, id)

(* Mutant: the stream is not queued again.                                 *)
OnStreamLostUnqueued(m, id, off, len, fin) ==
  IF id \notin DOMAIN m.streams THEN m
  ELSE [m EXCEPT !.streams[id].send = Retransmit(@, off, len)]
OnStreamLost(m, id, off, len, fin) ==
  IF id \notin DOMAIN m.streams THEN m
  ELSE Requeue([m EXCEPT !.streams[id].send = Retransmit(@, off, len)], id,
               IsSendable(m.streams[id]), len = 0 /\ fin)
OnResetStreamLost(m, id, error, final) ==
  IF id \notin DOMAIN m.streams THEN m
  ELSE [m EXCEPT !.reset = Put(@, id, [error |-> error, final |-> final])]
OnStopSendingLost(m, id, error) ==
  IF id \notin DOMAIN m.streams \/ RecvIsFin(m.streams[id].recv) THEN m
  ELSE [m EXCEPT !.stopped = Put(@, id, error)]
(* Mutant: a lost MAX_STREAM_DATA is forgotten.                            *)
OnMaxStreamDataForgotten(m, id) == m
OnMaxStreamDataLost(m, id) ==
  IF id \notin DOMAIN m.streams THEN m ELSE [m EXCEPT !.almost_full = @ \cup {id}]
OnMaxDataLost(m) == [m EXCEPT !.rx_almost_full = TRUE]
OnMaxStreamsLost(m) == m
OnStreamDataBlockedLost(m, id, at) ==
  IF id \notin DOMAIN m.streams \/ at # m.streams[id].send.max THEN m
  ELSE [m EXCEPT !.blocked = Put(@, id, at)]
OnDataBlockedLost(m, at) ==
  IF at # m.cap.max THEN m ELSE [m EXCEPT !.cap.blocked = at]
OnStreamsBlockedLost(m, bidi, at) ==
  IF at # m.conc.peer_max[bidi] THEN m ELSE [m EXCEPT !.conc.blocked[bidi] = at]

(* need_send_max_data and need_send_stream_frames                          *)
NeedSendMaxData(m) == m.rx_almost_full /\ m.fc.max < FcNext(m.fc)
NeedSendStreamFrames(m) ==
  \/ m.sendable # Empty
  \/ NeedSendMaxData(m)
  \/ m.cap.blocked # None
  \/ \E b \in BOOLEAN : ShouldUpdateMaxStreams(m.conc, b) \/ m.conc.blocked[b] # None
  \/ m.almost_full # {}
  \/ DOMAIN m.blocked \cup DOMAIN m.reset \cup DOMAIN m.stopped # {}
=============================================================================
