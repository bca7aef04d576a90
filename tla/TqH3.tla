-------------------------------- MODULE TqH3 --------------------------------
(* Http3Connection of tquic (h3/connection.rs): what an endpoint keeps,    *)
(* what the application calls, and what poll makes of the streams that     *)
(* have something to read.                                                 *)
EXTENDS TqH3Stream

(* Http3Connection::new.  in and out are its QUIC streams, gone those that *)
(* are closed, closed the error it closed the connection with.             *)
ConnNew(server, settings) ==
  [server |-> server, streams |-> <<>>, finished |-> <<>>, settings |-> settings,
   peer_settings |-> <<>>, peer |-> [Control |-> None, QpackEncoder |-> None, QpackDecoder |-> None],
   control |-> None, next_req |-> 0, next_uni |-> IF server THEN 3 ELSE 2,
   goaway |-> None, peer_goaway |-> None, max_push |-> None, closed |-> NoError,
   in |-> <<>>, out |-> <<>>, gone |-> {}]

(* open_uni_stream                                                         *)
OpenUniStream(e, type) ==
  LET w == StreamWrite(QuicNew(e, e.next_uni), e.next_uni, <<Unit(type)>>, FALSE) IN
  [w.e EXCEPT !.next_uni = @ + 4]
(* open_control_stream, with the SETTINGS frame                            *)
OpenControlStream(e) ==
  LET id == e.next_uni
      opened == [OpenUniStream(e, "Control") EXCEPT !.control = id]
  IN StreamWrite(opened, id, Encode(SettingsFrame(e.settings)), FALSE).e
(* new_with_quic_conn and open_critical_streams                            *)
NewWithQuicConn(server, settings) ==
  OpenUniStream(OpenUniStream(OpenControlStream(ConnNew(server, settings)), "QpackEncoder"),
                "QpackDecoder")

(* get_or_create: the peer of a client opens no request streams.           *)
GetOrCreate(e, id, local) ==
  CASE id \in DOMAIN e.streams -> Ok(e)
    [] id \notin DOMAIN e.streams /\ ~e.server /\ IsBidi(id) /\ ~local ->
         Fail(e, "StreamCreationError")
    [] OTHER -> Ok([e EXCEPT !.streams = Put(@, id, StreamNew(id, local))])

(* stream_new, stream_destroy and stream_close                             *)
StreamNewRequest(e) ==
  LET id == e.next_req
      s == [StreamNew(id, TRUE) EXCEPT !.prio_init = TRUE]
  IN IF e.peer_goaway # None THEN Fail(e, "IdError")
     ELSE Val([QuicNew(e, id) EXCEPT !.streams = Put(@, id, s), !.next_req = @ + 4], id)
StreamDestroy(e, id) == [e EXCEPT !.streams = Drop(@, id)]
StreamClose(e, id) ==
  IF id \notin DOMAIN e.streams THEN e
  ELSE With(IF StreamFinished(e, id) THEN e ELSE ShutdownRead(e, id), LAMBDA x :
         StreamDestroy(IF e.streams[id].wfin THEN x ELSE ShutdownWrite(x, id), id))

-----------------------------------------------------------------------------
(* Sending.                                                                *)

(* encode_header_fields: what the peer said it takes, once it said so.     *)
TooLargeForPeer(e, tags) ==
  /\ "max_field_section_size" \in DOMAIN e.peer_settings
  /\ Len(tags) > e.peer_settings["max_field_section_size"]

(* An error from the transport ends a stream whose other side has ended.   *)
GiveUp(e, id, err) == Fail(IF StreamFinished(e, id) THEN StreamDestroy(e, id) ELSE e, err)

(* What is known of a stream once its header block is written.             *)
HeadersSent(e, id, fin) ==
  With([e EXCEPT !.streams[id].block = <<>>, !.streams[id].local_init = TRUE,
                 !.streams[id].wfin = @ \/ fin], LAMBDA x :
    Ok(IF fin /\ StreamFinished(x, id) THEN StreamDestroy(x, id) ELSE x))
KeepBlock(e, id, tags, fin) ==
  [WantWrite(e, id) EXCEPT !.streams[id].block = <<[tags |-> tags, fin |-> fin]>>]

(* Mutant: a block that does not fit is not kept.                          *)
SendHeaderBlockForgets(e, id, tags, fin) ==
  With(Encode(HeadersFrame(tags)), LAMBDA frame :
    With(StreamWritable(e, id, Len(frame)), LAMBDA room :
      CASE room.err # NoError -> GiveUp(e, id, room.err)
        [] room.err = NoError /\ ~room.v -> Fail(WantWrite(room.e, id), "StreamBlocked")
        [] OTHER -> HeadersSent(StreamWrite(e, id, frame, fin).e, id, fin)))

(* send_header_block: all of the frame or none of it.  A block that does   *)
(* not fit is kept with its FIN flag.                                      *)
SendHeaderBlock(e, id, tags, fin) ==
  With(Encode(HeadersFrame(tags)), LAMBDA frame :
    With(StreamWritable(e, id, Len(frame)), LAMBDA room :
      CASE room.err # NoError -> GiveUp(e, id, room.err)
        [] room.err = NoError /\ ~room.v -> Fail(KeepBlock(room.e, id, tags, fin), "StreamBlocked")
        [] OTHER -> HeadersSent(StreamWrite(e, id, frame, fin).e, id, fin)))

(* send_headers                                                            *)
SendHeaders(e, id, tags, fin) ==
  LET known == [e EXCEPT !.streams[id].prio_init = TRUE] IN
  CASE id \notin DOMAIN e.streams -> Fail(e, "FrameUnexpected")
    [] id \in DOMAIN e.streams /\ TooLargeForPeer(e, tags) -> Fail(known, "ExcessiveLoad")
    [] OTHER -> SendHeaderBlock(known, id, tags, fin)

(* What send_body writes once a frame of its own fits: as much of the body *)
(* as there is room for, and the FIN if that is all of it.                 *)
BodyWritten(e, id, whole, fin) ==
  CASE ~whole -> WantWrite(StreamWritable(e, id, 3).e, id)
    [] whole /\ fin -> IF StreamFinished(e, id) THEN StreamDestroy(e, id)
                       ELSE [e EXCEPT !.streams[id].wfin = TRUE]
    [] OTHER -> e
WriteBody(e, id, body, fin, room) ==
  With(IF Len(body) < room THEN Len(body) ELSE room, LAMBDA n :
    IF n = 0 /\ ~(fin /\ body = <<>>) THEN Fail(e, "Done")
    ELSE With(StreamWrite(e, id, <<Unit("DATA"), Unit(n)>>, FALSE).e, LAMBDA head :
           With(StreamWrite(head, id, SubSeq(body, 1, n), fin /\ n = Len(body)).e, LAMBDA sent :
             Val(BodyWritten(sent, id, n = Len(body), fin), n))))

(* send_body: a header block that waits goes first, and the FIN of an      *)
(* empty body with it; NoError then asks for the body again.               *)
BlockFirst(e, id, block, bare) ==
  Then(SendHeaderBlock([e EXCEPT !.streams[id].block = <<>>], id, block.tags, block.fin \/ bare),
       LAMBDA x, v : Fail(x, "NoError"))
SendBody(e, id, body, fin) ==
  CASE id \notin DOMAIN e.streams -> Fail(e, "FrameUnexpected")
    [] id \in DOMAIN e.streams /\ e.streams[id].block # <<>> ->
         BlockFirst(e, id, Head(e.streams[id].block), fin /\ body = <<>>)
    [] OTHER ->
         CASE ~e.streams[id].local_init -> Fail(e, "FrameUnexpected")
           [] e.streams[id].local_init /\ body = <<>> /\ ~fin -> Fail(e, "Done")
           [] OTHER ->
                With(StreamCapacity(e, id), LAMBDA cap :
                  CASE cap.err # NoError -> GiveUp(e, id, cap.err)
                    [] cap.err = NoError /\ cap.v < 2 ->
                         Fail(WantWrite(StreamWritable(e, id, 3).e, id), "Done")
                    [] OTHER -> WriteBody(e, id, body, fin, cap.v - 2))

(* GOAWAY on the control stream, once its ID is accepted.                  *)
WriteGoAway(e, value) ==
  Then(StreamCapacity(e, e.control), LAMBDA x, room :
    With(Encode(GoAwayFrame(value)), LAMBDA frame :
      IF room < Len(frame) THEN Fail(WantWrite(x, x.control), "StreamBlocked")
      ELSE Ok([StreamWrite(x, x.control, frame, FALSE).e EXCEPT !.goaway = value])))

(* send_goaway                                                             *)
SendGoAway(e, id) ==
  With(IF e.server THEN id ELSE 0, LAMBDA value :
    IF (e.server /\ id % 4 # 0) \/ (e.goaway # None /\ value > e.goaway) THEN Fail(e, "IdError")
    ELSE WriteGoAway(e, value))

(* send_priority_update_for_request: the stream ID is compared with the    *)
(* number of streams the peer allows.                                      *)
SendPriorityUpdate(e, id, value) ==
  CASE e.server \/ id \in e.gone -> Fail(e, "FrameUnexpected")
    [] ~(e.server \/ id \in e.gone) /\ (id % 4 # 0 \/ id > MaxStreams) -> Fail(e, "IdError")
    [] OTHER ->
         With(Encode(PriorityFrame(id, value)), LAMBDA frame :
           Then(StreamWritable(e, e.control, Len(frame)), LAMBDA x, room :
             IF ~room THEN Fail(WantWrite(x, x.control), "StreamBlocked")
             ELSE Ok(StreamWrite(x, x.control, frame, FALSE).e)))

(* take_priority_update                                                    *)
TakePriorityUpdate(e, id) ==
  IF id \in DOMAIN e.streams /\ e.streams[id].prio # <<>>
  THEN Val([e EXCEPT !.streams[id].prio = <<>>], Head(e.streams[id].prio))
  ELSE Fail(e, "Done")

-----------------------------------------------------------------------------
(* Frames received.  An event is [ev, id, v].                              *)
Event(e, ev, id, v) == Val(e, [ev |-> ev, id |-> id, v |-> v])

OnHeaders(e, id, tags) ==
  IF "max_field_section_size" \in DOMAIN e.settings
     /\ Len(tags) > e.settings["max_field_section_size"]
  THEN Abort(e, "ExcessiveLoad")
  ELSE Event(e, "Headers", id, [tags |-> tags, fin |-> StreamFinished(e, id)])

OnGoAway(e, id) ==
  CASE ~e.server /\ id % 4 # 0 -> Fail(CloseConn(e, "FrameUnexpected"), "IdError")
    [] (e.server \/ id % 4 = 0) /\ e.peer_goaway # None /\ id > e.peer_goaway -> Abort(e, "IdError")
    [] OTHER -> Event([e EXCEPT !.peer_goaway = id], "GoAway", id, None)

OnMaxPushId(e, push) ==
  CASE ~e.server -> Abort(e, "FrameUnexpected")
    [] e.server /\ push < e.max_push -> Abort(e, "IdError")
    [] OTHER -> Fail([e EXCEPT !.max_push = push], "Done")

OnPushPromise(e, id, push) ==
  CASE e.server -> Abort(e, "FrameUnexpected")
    [] ~e.server /\ id % 4 # 0 -> Abort(e, "FrameUnexpected")
    [] OTHER -> IF push > e.max_push THEN Abort(e, "IdError") ELSE Fail(e, "Done")

OnCancelPush(e) == Fail(e, "Done")

(* A stream that does not exist yet is created to keep the priority; the   *)
(* event is raised again only once the value was taken.                    *)
OnPriorityUpdate(e, id, value) ==
  CASE ~e.server -> Abort(e, "FrameUnexpected")
    [] e.server /\ (id % 4 # 0 \/ id > 4 * MaxStreams) -> Abort(e, "IdError")
    [] OTHER ->
         IF id \in e.gone THEN Fail(e, "Done")
         ELSE Then(GetOrCreate(e, id, FALSE), LAMBDA x, v :
                With([x EXCEPT !.streams[id].prio = value], LAMBDA kept :
                  IF x.streams[id].prio # <<>> THEN Fail(kept, "Done")
                  ELSE Event(kept, "PriorityUpdate", id, None)))
OnPriorityUpdatePush(e) == IF e.server THEN Fail(e, "Done") ELSE Abort(e, "FrameUnexpected")

(* process_frame                                                           *)
ProcessFrame(e, id, f) ==
  CASE f.type = "SETTINGS" -> Fail([e EXCEPT !.peer_settings = f.rest], "Done")
    [] f.type = "HEADERS" -> OnHeaders(e, id, f.rest)
    [] f.type = "GOAWAY" -> OnGoAway(e, f.id)
    [] f.type = "MAX_PUSH_ID" -> OnMaxPushId(e, f.id)
    [] f.type = "PUSH_PROMISE" -> OnPushPromise(e, id, f.id)
    [] f.type = "CANCEL_PUSH" -> OnCancelPush(e)
    [] f.type = "PRIORITY_UPDATE" -> OnPriorityUpdate(e, f.id, f.rest)
    [] f.type = "PRIORITY_UPDATE_PUSH" -> OnPriorityUpdatePush(e)
    [] OTHER -> Fail(e, "Done")

-----------------------------------------------------------------------------
(* Streams with something to read.                                         *)

(* process_readable_request_stream: frame after frame until an event, an   *)
(* error, or nothing more to read.  Without polling it stops short of the  *)
(* frames that make events.                                                *)
RECURSIVE ProcessReadableRequest(_, _, _)
ProcessReadableRequest(e, id, polling) ==
  LET next(x, v) == ProcessReadableRequest(x, id, polling)
      state == IF id \in DOMAIN e.streams THEN e.streams[id].state ELSE "None"
  IN CASE state = "FrameType" -> Then(ParseFrameType(e, id), next)
       [] state = "FramePayloadLen" -> Then(ParseFramePayloadLength(e, id), next)
       [] state = "FramePayload" /\ polling ->
            Then(ParseFramePayload(e, id), LAMBDA x, f :
              IfDone(ProcessFrame(x, id, f), LAMBDA y :
                IF StreamFinished(y, id) THEN Fail(y, "Done") ELSE next(y, None)))
       [] state = "Data" /\ polling /\ ~e.streams[id].event ->
            Event([e EXCEPT !.streams[id].event = TRUE], "Data", id, None)
       [] OTHER -> Fail(e, "Done")

(* process_readable_push_stream is the same after the push ID.             *)
ProcessReadablePush(e, id, polling) ==
  Then(IF e.streams[id].state = "PushId" THEN ParsePushId(e, id) ELSE Ok(e), LAMBDA x, v :
    ProcessReadableRequest(x, id, polling))

(* process_readable_control_stream                                         *)
RECURSIVE ProcessReadableControl(_, _)
ProcessReadableControl(e, id) ==
  LET next(x, v) == ProcessReadableControl(x, id) IN
  CASE e.streams[id].state = "FrameType" -> Then(ParseFrameType(e, id), next)
    [] e.streams[id].state = "FramePayloadLen" -> Then(ParseFramePayloadLength(e, id), next)
    [] OTHER -> Then(ParseFramePayload(e, id), LAMBDA x, f :
                  IfDone(ProcessFrame(x, id, f), LAMBDA y : next(y, None)))

(* process_readable_qpack_stream: read and dropped until there is no more. *)
ProcessReadableQpack(e, id) ==
  LET r == StreamRead(e, id, Len(e.in[id].buf) + 1) IN
  Fail(r.e, IF r.err = NoError THEN "Done" ELSE r.err)

(* process_new_uni_stream: each critical stream is opened once, and only a *)
(* client takes a push stream.                                             *)
ProcessNewUniStream(e, id, type) ==
  CASE type \in DOMAIN e.peer ->
         IF e.peer[type] # None THEN Abort(e, "StreamCreationError")
         ELSE Ok([e EXCEPT !.peer[type] = id])
    [] type = "Push" /\ e.server -> Abort(e, "StreamCreationError")
    [] OTHER -> Ok(e)

(* What the type of a unidirectional stream makes of it.                   *)
ProcessTyped(e, id, polling) ==
  CASE e.streams[id].type = "Control" -> ProcessReadableControl(e, id)
    [] e.streams[id].type = "Push" -> ProcessReadablePush(e, id, polling)
    [] e.streams[id].type \in {"QpackEncoder", "QpackDecoder"} -> ProcessReadableQpack(e, id)
    [] OTHER -> Fail(ShutdownRead(e, id), "Done")

(* process_readable_uni_stream                                             *)
ProcessReadableUni(e, id, polling) ==
  CASE id \notin DOMAIN e.streams -> Fail(e, "Done")
    [] OTHER ->
         Then(IF e.streams[id].state # "StreamType" THEN Ok(e)
              ELSE Then(ParseUniStreamType(e, id), LAMBDA x, type : ProcessNewUniStream(x, id, type)),
              LAMBDA x, v : ProcessTyped(x, id, polling))

(* process_readable_stream                                                 *)
ProcessReadableStream(e, id, polling) ==
  With(GetOrCreate(e, id, FALSE), LAMBDA g :
    CASE g.err # NoError -> Abort(e, g.err)
      [] g.err = NoError /\ IsBidi(id) -> ProcessReadableRequest(g.e, id, polling)
      [] OTHER -> ProcessReadableUni(g.e, id, polling))

(* process_finished_stream                                                 *)
ProcessFinishedStream(e, id) ==
  IF /\ id \in DOMAIN e.streams
     /\ e.streams[id].state # "ReadFinished"
     /\ e.streams[id].type \in {"Request", "Push"}
  THEN [e EXCEPT !.streams[id] = MarkReadFinished(@), !.finished = Append(@, id)]
  ELSE e

(* recv_body with room for cap units: DATA frames one after the other.     *)
(* got is what was read so far.                                            *)
RECURSIVE RecvBodyFrom(_, _, _, _)
RecvBodyFrom(e, id, cap, got) ==
  CASE Len(got) = cap -> Val(e, got)
    [] Len(got) < cap /\ id \notin DOMAIN e.streams -> Fail(e, "Done")
    [] Len(got) < cap /\ id \in DOMAIN e.streams /\ e.streams[id].state # "Data" -> Val(e, got)
    [] OTHER ->
         With(ReadDataFromQuic(e, id, cap - Len(got)), LAMBDA d :
           CASE d.err = "Done" -> Val(d.e, got)
             [] d.err \notin {"Done", NoError} -> d
             [] d.err = NoError /\ (d.v.data = <<>> \/ d.v.fin) -> Val(d.e, got \o d.v.data)
             [] OTHER ->
                  IfDone(ProcessReadableRequest(d.e, id, FALSE), LAMBDA x :
                    IF StreamFinished(x, id) THEN Val(x, got \o d.v.data)
                    ELSE RecvBodyFrom(x, id, cap, got \o d.v.data)))
RecvBody(e, id, cap) ==
  Then(RecvBodyFrom(e, id, cap, <<>>), LAMBDA x, got :
    With(IF StreamFinished(x, id) THEN ProcessFinishedStream(x, id) ELSE x, LAMBDA y :
      IF got = <<>> THEN Fail(y, "Done") ELSE Val(y, got)))

(* check_critical_stream_state and process_critical_stream                 *)
CheckCritical(e, id) == IF StreamFinished(e, id) THEN Abort(e, "ClosedCriticalStream") ELSE Ok(e)
ProcessCriticalStream(e, id) ==
  Then(CheckCritical(e, id), LAMBDA x, v :
    IF ~StreamReadable(x, id) THEN Fail(x, "Done")
    ELSE IfDone(ProcessReadableUni(x, id, TRUE), LAMBDA y :
           Then(CheckCritical(y, id), LAMBDA z, w : Fail(z, "Done"))))

(* process_critical_streams: control, encoder, decoder.                    *)
RECURSIVE ProcessCritical(_, _)
ProcessCritical(e, types) ==
  CASE types = <<>> -> Fail(e, "Done")
    [] types # <<>> /\ e.peer[Head(types)] = None -> ProcessCritical(e, Tail(types))
    [] OTHER -> IfDone(ProcessCriticalStream(e, e.peer[Head(types)]),
                       LAMBDA x : ProcessCritical(x, Tail(types)))

(* process_readable_streams over the streams that were readable: a reset   *)
(* is an event; a stream that ended is queued, and dropped once it was     *)
(* written to the end too.                                                 *)
EndOfStream(e, id) ==
  CASE ~StreamFinished(e, id) -> e
    [] StreamFinished(e, id) /\ id \in DOMAIN e.streams /\ e.streams[id].wfin ->
         StreamDestroy(ProcessFinishedStream(e, id), id)
    [] OTHER -> ProcessFinishedStream(e, id)
RECURSIVE ProcessReadable(_, _)
ProcessReadable(e, ids) ==
  IF ids = <<>> THEN Fail(e, "Done")
  ELSE With(ProcessReadableStream(e, Head(ids), TRUE), LAMBDA r :
         CASE r.err = "StreamReset" -> Event(r.e, "Reset", Head(ids), None)
           [] r.err = NoError -> Val(EndOfStream(r.e, Head(ids)), r.v)
           [] r.err = "Done" -> ProcessReadable(EndOfStream(r.e, Head(ids)), Tail(ids))
           [] OTHER -> r)

(* poll, with the streams in the order the set of readable ones yields.    *)
PopFinished(e) ==
  IF e.finished = <<>> THEN Fail(e, "Done")
  ELSE Event([e EXCEPT !.finished = Tail(@)], "Finished", Head(e.finished), None)
Poll(e, order) ==
  IF e.closed # NoError THEN Fail(e, "Done")
  ELSE IfDone(PopFinished(e), LAMBDA w :
         IfDone(ProcessCritical(w, <<"Control", "QpackEncoder", "QpackDecoder">>), LAMBDA x :
           IfDone(ProcessReadable(x, SelectSeq(order, LAMBDA id : StreamReadable(x, id))),
                  LAMBDA y : PopFinished(y))))
=============================================================================
