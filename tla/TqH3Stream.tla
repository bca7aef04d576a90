----------------------------- MODULE TqH3Stream -----------------------------
(* The HTTP/3 streams of tquic (h3/stream.rs, h3/frame.rs) over the QUIC   *)
(* stream operations they call.  An endpoint is a record; an operation     *)
(* takes it and returns [e, err, v]: the endpoint, the error and a value.  *)
(*                                                                         *)
(* A byte stream is a sequence of units.  A variable-length integer is one *)
(* unit that carries its value, a payload is one or more units, so a frame *)
(* can still arrive in pieces.  QUIC streams are cut down to what HTTP/3   *)
(* can see of them; TqStreamMap has them in full.                          *)
EXTENDS Naturals, Sequences, SequencesExt, FiniteSets, Functions

CONSTANTS
  Win,        \* receive window of a stream, in units
  MaxBuf,     \* MAX_STATE_BUF_SIZE
  MaxSettings,  \* MAX_SETTINGS_PAYLOAD_SIZE
  MaxStreams  \* bidirectional streams a client may open

ASSUME H3StreamAssumption ==
  Win \in Nat \ {0} /\ {MaxBuf, MaxSettings, MaxStreams} \subseteq Nat

None == -1
NoError == "ok"

Result(e, err, v) == [e |-> e, err |-> err, v |-> v]
Ok(e) == Result(e, NoError, None)
Val(e, v) == Result(e, NoError, v)
Fail(e, err) == Result(e, err, None)

(* The operator ? of the code, its counterpart for an operation that goes  *)
(* on after Done, and a name for a value.                                  *)
Then(r, Go(_, _)) == IF r.err = NoError THEN Go(r.e, r.v) ELSE r
IfDone(r, Go(_)) == IF r.err = "Done" THEN Go(r.e) ELSE r
With(x, Go(_)) == Go(x)

(* conn.close(true, err): the first error is kept.                         *)
CloseConn(e, err) == IF e.closed = NoError THEN [e EXCEPT !.closed = err] ELSE e
(* close, then return the error.                                           *)
Abort(e, err) == Fail(CloseConn(e, err), err)

IsBidi(id) == (id \div 2) % 2 = 0
Put(f, k, v) == [x \in DOMAIN f \cup {k} |-> IF x = k THEN v ELSE f[x]]
Drop(f, k) == Restrict(f, DOMAIN f \ {k})

-----------------------------------------------------------------------------
(* The two halves of a QUIC stream.  out: the units written, whether the   *)
(* end was, the credit, the threshold of the write event and whether it is *)
(* wanted, and whether the stream was reset here or stopped by the peer.   *)
(* in: the units that arrived and are unread, how many arrived, the FIN,   *)
(* whether it waits as an empty buffer, the reset, and Shutdown::Read.     *)
NewOut == [data |-> <<>>, fin |-> FALSE, max |-> Win, thresh |-> 1, want |-> TRUE,
           reset |-> FALSE, stopped |-> FALSE]
NewIn == [buf |-> <<>>, got |-> 0, fin |-> FALSE, mark |-> FALSE, reset |-> FALSE,
          told |-> FALSE, shut |-> FALSE, stop |-> FALSE]

Readable(i) == ~i.shut /\ (i.buf # <<>> \/ i.mark \/ (i.reset /\ ~i.told))
IsFin(i) == (i.fin /\ i.buf = <<>>) \/ i.reset
(* A stream that is gone from the map counts as finished.                  *)
StreamFinished(e, id) == id \notin DOMAIN e.in \/ IsFin(e.in[id])
StreamReadable(e, id) == id \in DOMAIN e.in /\ Readable(e.in[id])

(* stream_read with room for cap units                                     *)
StreamRead(e, id, cap) ==
  LET i == e.in[id]
      n == IF Len(i.buf) < cap THEN Len(i.buf) ELSE cap
      rest == SubSeq(i.buf, n + 1, Len(i.buf))
      taken == [i EXCEPT !.buf = rest, !.mark = @ /\ ~(rest = <<>> /\ n < cap)]
  IN CASE id \notin DOMAIN e.in -> Fail(e, "StreamStateError")
       [] id \in DOMAIN e.in /\ ~Readable(i) -> Fail(e, "Done")
       [] StreamReadable(e, id) /\ i.reset -> Fail([e EXCEPT !.in[id].told = TRUE], "StreamReset")
       [] OTHER -> Val([e EXCEPT !.in[id] = taken],
                       [data |-> SubSeq(i.buf, 1, n), fin |-> IsFin(taken)])

(* stream_capacity                                                         *)
StreamCapacity(e, id) ==
  CASE id \notin DOMAIN e.out -> Fail(e, "StreamStateError")
    [] id \in DOMAIN e.out /\ e.out[id].stopped -> Fail(e, "StreamStopped")
    [] OTHER -> Val(e, e.out[id].max - Len(e.out[id].data))

(* stream_writable: without room for len units, len becomes the threshold. *)
StreamWritable(e, id, len) ==
  LET c == StreamCapacity(e, id) IN
  CASE c.err # NoError -> c
    [] c.err = NoError /\ c.v >= len -> Val(e, TRUE)
    [] OTHER -> Val([e EXCEPT !.out[id].thresh = IF len > 1 THEN len ELSE 1], FALSE)
WantWrite(e, id) == IF id \in DOMAIN e.out THEN [e EXCEPT !.out[id].want = TRUE] ELSE e

(* stream_check_writable: when on_stream_writable is called.               *)
CheckWritable(e, id) ==
  /\ id \in DOMAIN e.out /\ e.out[id].want
  /\ e.out[id].stopped \/ e.out[id].max - Len(e.out[id].data) >= e.out[id].thresh

(* stream_write of units for which there is room                           *)
StreamWrite(e, id, units, fin) ==
  CASE id \notin DOMAIN e.out -> Fail(e, "StreamStateError")
    [] id \in DOMAIN e.out /\ e.out[id].stopped -> Fail(e, "StreamStopped")
    [] id \in DOMAIN e.out /\ e.out[id].fin /\ units # <<>> -> Fail(e, "FinalSizeError")
    [] OTHER -> Val([e EXCEPT !.out[id].data = @ \o units, !.out[id].fin = @ \/ fin], Len(units))

(* stream_new                                                              *)
QuicNew(e, id) ==
  [e EXCEPT !.out = Put(@, id, NewOut), !.in = IF IsBidi(id) THEN Put(@, id, NewIn) ELSE @]

(* stream_shutdown, Read then Write: STOP_SENDING unless the end is known  *)
(* to have been read, RESET_STREAM unless the stream was shut down before. *)
ShutdownRead(e, id) ==
  IF id \notin DOMAIN e.in \/ e.in[id].shut THEN e
  ELSE [e EXCEPT !.in[id] = [@ EXCEPT !.shut = TRUE, !.buf = <<>>, !.mark = FALSE,
                                      !.stop = ~IsFin(e.in[id])]]
ShutdownWrite(e, id) == IF id \in DOMAIN e.out THEN [e EXCEPT !.out[id].reset = TRUE] ELSE e

-----------------------------------------------------------------------------
(* Frames.  A varint unit is [v |-> value]; encode lays a frame out as its *)
(* type, the length of its payload and the payload.                        *)
Unit(v) == [v |-> v]
Encode(frame) == <<Unit(frame.type), Unit(Len(frame.payload))>> \o frame.payload

HeadersFrame(tags) == [type |-> "HEADERS", payload |-> tags]
GoAwayFrame(id) == [type |-> "GOAWAY", payload |-> <<Unit(id)>>]
PriorityFrame(id, value) == [type |-> "PRIORITY_UPDATE", payload |-> <<Unit(id), Unit(value)>>]
(* Settings: a function from the settings that are given to their values.  *)
(* encode_settings_frame writes them in a fixed order as pairs of an       *)
(* identifier and a value; decode_settings_frame takes them in any order   *)
(* and refuses the identifiers of HTTP/2; its raw list is left out.        *)
SettingOrder == <<"max_field_section_size", "qpack_max_table_capacity", "qpack_blocked_streams",
                  "connect_protocol_enabled">>
EncodeSettings(settings) ==
  FlattenSeq([n \in 1..4 |-> IF SettingOrder[n] \in DOMAIN settings
                             THEN <<Unit(SettingOrder[n]), Unit(settings[SettingOrder[n]])>>
                             ELSE <<>>])
DecodeSettings(buf) ==
  LET pairs == [n \in 1..(Len(buf) \div 2) |-> <<buf[2 * n - 1].v, buf[2 * n].v>>]
      known == ToSet(SettingOrder) \cap {pairs[n][1] : n \in DOMAIN pairs}
      last(name) == CHOOSE n \in DOMAIN pairs :
                      pairs[n][1] = name /\ \A k \in DOMAIN pairs : pairs[k][1] = name => k <= n
      bad == \E n \in DOMAIN pairs :
               \/ pairs[n][1] = "http2"
               \/ pairs[n][1] = "connect_protocol_enabled" /\ pairs[n][2] > 1
  IN CASE Len(buf) > MaxSettings -> [err |-> "ExcessiveLoad"]
       [] Len(buf) <= MaxSettings /\ bad -> [err |-> "SettingsError"]
       [] OTHER -> [err |-> NoError, id |-> None,
                    rest |-> [name \in known |-> pairs[last(name)][2]]]

SettingsFrame(settings) == [type |-> "SETTINGS", payload |-> EncodeSettings(settings)]

NeedsPayload ==
  {"GOAWAY", "PUSH_PROMISE", "CANCEL_PUSH", "MAX_PUSH_ID", "PRIORITY_UPDATE", "PRIORITY_UPDATE_PUSH"}
Varints == {"CANCEL_PUSH", "GOAWAY", "MAX_PUSH_ID"}

(* decode_payload: the ID and what follows it.                             *)
DecodePayload(type, buf) ==
  CASE type = "SETTINGS" -> DecodeSettings(buf)
    [] type \in Varints \cup {"PUSH_PROMISE", "PRIORITY_UPDATE", "PRIORITY_UPDATE_PUSH"} ->
         [err |-> NoError, id |-> Head(buf).v, rest |-> Tail(buf)]
    [] OTHER -> [err |-> NoError, id |-> None, rest |-> buf]

-----------------------------------------------------------------------------
(* Http3Stream.  buf is what was read of the exp units that the state      *)
(* machine waits for, event is data_event_triggered.                       *)
StreamNew(id, local) ==
  [type |-> IF IsBidi(id) THEN "Request" ELSE "None",
   state |-> IF IsBidi(id) THEN "FrameType" ELSE "StreamType",
   local |-> local, ftype |-> "None", buf |-> <<>>, exp |-> 1, peer_init |-> FALSE,
   local_init |-> FALSE, wfin |-> FALSE, event |-> FALSE, prio_init |-> FALSE,
   prio |-> <<>>, block |-> <<>>]

(* transition: a buffer that is resized has a limit.                       *)
TransitionState(s, state, len) == [s EXCEPT !.state = state, !.buf = <<>>, !.exp = len]
TooLarge(len) == len > MaxBuf

Ready(s) == Len(s.buf) = s.exp

(* check_frame_on_control_stream, _request_stream and _push_stream         *)
CheckControl(s, type) ==
  CASE ~s.peer_init /\ type # "SETTINGS" -> "MissingSettings"
    [] s.peer_init /\ type \in {"SETTINGS", "DATA", "HEADERS", "PUSH_PROMISE"} -> "FrameUnexpected"
    [] OTHER -> NoError
CheckRequest(s, type) ==
  IF \/ type = "DATA" /\ ~s.peer_init
     \/ type \in {"CANCEL_PUSH", "SETTINGS", "GOAWAY", "MAX_PUSH_ID", "PRIORITY_UPDATE",
                  "PRIORITY_UPDATE_PUSH"}
  THEN "FrameUnexpected" ELSE NoError
CheckPush(s, type) ==
  IF type \in {"CANCEL_PUSH", "SETTINGS", "PUSH_PROMISE", "GOAWAY", "MAX_PUSH_ID",
               "PRIORITY_UPDATE", "PRIORITY_UPDATE_PUSH"}
  THEN "FrameUnexpected" ELSE NoError

(* read_and_fill_buffer: a short read makes the data event due again.      *)
Rearm(e, id) == [e EXCEPT !.streams[id].event = FALSE]
Filled(e, id, data) == [e EXCEPT !.streams[id].buf = @ \o data]
ReadAndFill(e, id) ==
  IF Ready(e.streams[id]) THEN Ok(e)
  ELSE With(StreamRead(e, id, e.streams[id].exp - Len(e.streams[id].buf)), LAMBDA r :
         CASE r.err = "Done" -> Fail(Rearm(r.e, id), "Done")
           [] r.err = NoError ->
                With(Filled(r.e, id, r.v.data), LAMBDA x :
                  IF Ready(x.streams[id]) THEN Ok(x) ELSE Fail(Rearm(x, id), "Done"))
           [] OTHER -> r)

(* read_and_parse_varint                                                   *)
ParseVarint(e, id) == Then(ReadAndFill(e, id), LAMBDA x, v : Val(x, Head(x.streams[id].buf).v))

(* parse_uni_stream_type and set_stream_type                               *)
TypeOfId(v) == IF v \in {"Control", "Push", "QpackEncoder", "QpackDecoder"} THEN v ELSE "Unknown"
StateOfType(type) ==
  CASE type \in {"Control", "Request"} -> "FrameType"
    [] type = "Push" -> "PushId"
    [] type \in {"QpackEncoder", "QpackDecoder"} -> "QpackInstruction"
    [] OTHER -> "Skip"
SetStreamType(s, type) ==
  [TransitionState(s, StateOfType(type), 1)
     EXCEPT !.type = type, !.peer_init = @ \/ type \in {"QpackEncoder", "QpackDecoder"}]
ParseUniStreamType(e, id) ==
  Then(ParseVarint(e, id), LAMBDA x, v :
    Val([x EXCEPT !.streams[id] = SetStreamType(@, TypeOfId(v))], TypeOfId(v)))

(* parse_push_id: the push ID itself is not kept.                          *)
ParsePushId(e, id) ==
  Then(ParseVarint(e, id), LAMBDA x, v :
    Ok([x EXCEPT !.streams[id] = TransitionState(@, "FrameType", 1)]))

(* set_frame_type and parse_frame_type                                     *)
CheckFrame(s, type) ==
  CASE s.type = "Control" -> CheckControl(s, type)
    [] s.type = "Request" -> CheckRequest(s, type)
    [] s.type = "Push" -> CheckPush(s, type)
    [] OTHER -> "FrameUnexpected"
SetFrameType(s, type) ==
  [TransitionState(s, "FramePayloadLen", 1)
     EXCEPT !.ftype = type,
            !.peer_init = @ \/ (s.type = "Control" /\ type = "SETTINGS")
                            \/ (s.type = "Request" /\ type = "HEADERS")]
ParseFrameType(e, id) ==
  Then(ParseVarint(e, id), LAMBDA x, type :
    With(CheckFrame(x.streams[id], type), LAMBDA err :
      IF err # NoError THEN Abort(x, err)
      ELSE Ok([x EXCEPT !.streams[id] = SetFrameType(@, type)])))

(* set_frame_payload_len and parse_frame_payload_length                    *)
PayloadLenError(s, len) ==
  CASE s.ftype \in NeedsPayload /\ len = 0 -> "FrameError"
    [] s.ftype # "DATA" /\ TooLarge(len) -> "ExcessiveLoad"
    [] OTHER -> NoError
SetFramePayloadLen(s, len) ==
  TransitionState(s, IF s.ftype = "DATA" THEN "Data" ELSE "FramePayload", len)
ParseFramePayloadLength(e, id) ==
  Then(ParseVarint(e, id), LAMBDA x, len :
    With(PayloadLenError(x.streams[id], len), LAMBDA err :
      IF err # NoError THEN Abort(x, err)
      ELSE Ok([x EXCEPT !.streams[id] = SetFramePayloadLen(@, len)])))

(* parse_frame_payload: every error but Done closes the connection, the    *)
(* reset of the stream included.                                           *)
FrameParsed(e, id, f) ==
  IF f.err # NoError THEN Abort(Rearm(e, id), f.err)
  ELSE Val([Rearm(e, id) EXCEPT !.streams[id] = TransitionState(@, "FrameType", 1)],
           [type |-> e.streams[id].ftype, id |-> f.id, rest |-> f.rest])
ParseFramePayload(e, id) ==
  With(ReadAndFill(e, id), LAMBDA r :
    CASE r.err = "Done" -> r
      [] r.err = NoError ->
           FrameParsed(r.e, id, DecodePayload(r.e.streams[id].ftype, r.e.streams[id].buf))
      [] OTHER -> Abort(r.e, r.err))

(* Mutant: a read is not limited to what is left of the frame.             *)
BodyRoomAny(s, cap) == cap

(* The part of a DATA frame that is read is counted.                       *)
BodyRoom(s, cap) == IF cap < s.exp - Len(s.buf) THEN cap ELSE s.exp - Len(s.buf)
FrameOver(e, id) ==
  IF Ready(e.streams[id]) THEN [e EXCEPT !.streams[id] = TransitionState(@, "FrameType", 1)] ELSE e

(* read_data_from_quic                                                     *)
ReadDataFromQuic(e, id, cap) ==
  With(StreamRead(e, id, BodyRoom(e.streams[id], cap)), LAMBDA r :
    CASE r.err = "Done" -> Fail(Rearm(r.e, id), "Done")
      [] r.err = NoError ->
           With(IF StreamReadable(r.e, id) THEN r.e ELSE Rearm(r.e, id), LAMBDA x :
             Val(FrameOver(Filled(x, id, r.v.data), id), r.v))
      [] OTHER -> r)

(* mark_read_finished                                                      *)
MarkReadFinished(s) == TransitionState(s, "ReadFinished", 0)
=============================================================================
