------------------------------- MODULE TqFrame -------------------------------
(***************************************************************************)
(* tquic's frames: to_bytes, wire_len, from_bytes and validate_frame.  A   *)
(* frame is [t, f], its name and the sequence of its fields.               *)
(***************************************************************************)
EXTENDS TqRanges, Sequences, SequencesExt

(* Encoder and Decoder: buffers are sequences of bytes.  A number is below *)
(* 2^31 (TLC's integers), so of an 8-byte field only the low four bytes    *)
(* differ from zero; the four lengths of a varint all occur.  A reader is  *)
(* [err, b, out]: the error that ended the reading, the bytes that are     *)
(* left and the values read so far.                                        *)
NoError == "ok"
Short == "BufferTooShort"

-----------------------------------------------------------------------------
(* encode_varint_len                                                       *)
VarintLen(n) ==
  IF n <= 63 THEN 1 ELSE IF n <= 16383 THEN 2 ELSE IF n <= 1073741823 THEN 4 ELSE 8

(* decode_varint_len, of the two highest bits of the first byte            *)
DecodeVarintLen(first) == 2^(first \div 64)

(* put_u8, put_u16, put_u32 and put_u64, which cut n to w bytes, and back  *)
BigEndian(n, w) == [i \in 1..w |-> IF w - i > 3 THEN 0 ELSE (n \div 256^(w - i)) % 256]
Number(bytes) == FoldLeft(LAMBDA n, byte : n * 256 + byte, 0, bytes)

(* write_varint_with_len sets bits of the first byte (n | 0x4000 and so    *)
(* on), which does no harm when n leaves them free, and write_varint       *)
Marked(byte, w) ==
  CASE w = 1 -> byte
    [] w = 2 -> IF (byte \div 64) % 2 = 1 THEN byte ELSE byte + 64
    [] w = 4 -> IF byte >= 128 THEN byte ELSE byte + 128
    [] w = 8 -> 192 + (byte % 64)
WriteVarintLen(n, w) == <<Marked(BigEndian(n, w)[1], w)>> \o Tail(BigEndian(n, w))
V(n) == WriteVarintLen(n, VarintLen(n))
V2(n) == WriteVarintLen(n, 2)

(* A field with its length before it, as a varint or as one byte.          *)
VB(bytes) == V(Len(bytes)) \o bytes
UB(bytes) == <<Len(bytes)>> \o bytes

-----------------------------------------------------------------------------
Reader(b) == [err |-> NoError, b |-> b, out |-> <<>>]
Failed(r, err) == [r EXCEPT !.err = err]
Advance(r, n, value) ==
  [r EXCEPT !.b = SubSeq(@, n + 1, Len(@)), !.out = Append(@, value)]

(* read(len), and read_u8, read_u16 and so on                              *)
ReadRaw(r, n) ==
  IF Len(r.b) < n THEN Failed(r, Short) ELSE Advance(r, n, SubSeq(r.b, 1, n))
ReadUint(r, n) ==
  IF Len(r.b) < n THEN Failed(r, Short) ELSE Advance(r, n, Number(SubSeq(r.b, 1, n)))

(* read_varint masks the two highest bits.                                 *)
ReadVarint(r) ==
  IF r.b = <<>> \/ Len(r.b) < DecodeVarintLen(r.b[1]) THEN Failed(r, Short)
  ELSE LET w == DecodeVarintLen(r.b[1]) IN
       Advance(r, w, Number([SubSeq(r.b, 1, w) EXCEPT ![1] = @ % 64]))

(* The length last read is replaced by the bytes it announces:             *)
(* read_with_varint_length and read_with_u8_length.                        *)
TakeAnnounced(r) ==
  IF r.err # NoError THEN r ELSE ReadRaw([r EXCEPT !.out = Front(@)], Last(r.out))
ReadField(r, kind) ==
  IF r.err # NoError THEN r
  ELSE CASE kind = "v" -> ReadVarint(r)
         [] kind = "vb" -> TakeAnnounced(ReadVarint(r))
         [] kind = "ub" -> TakeAnnounced(ReadUint(r, 1))
         [] kind = "u8" -> ReadUint(r, 1)
         [] kind = "u16" -> ReadUint(r, 2)
         [] kind = "u32" -> ReadUint(r, 4)
         [] kind = "4" -> ReadRaw(r, 4)
         [] kind = "8" -> ReadRaw(r, 8)
         [] kind = "16" -> ReadRaw(r, 16)
Reads(r, kinds) == FoldLeft(ReadField, r, kinds)

-----------------------------------------------------------------------------
MaxStreamSize == 1073741824  \* MAX_STREAM_SIZE, 2^62 in the code
PathAbandonType == 354585605  \* 0x15228c05
PathStatusType == 354585606

Frame(name, fields) == [t |-> name, f |-> fields]

-----------------------------------------------------------------------------
(* ACK: the ranges from the highest down, each as the gap to the one       *)
(* before it and its length.  No two ranges touch, so no gap is negative.  *)
Descending(ranges) == SetToSortSeq(ranges, LAMBDA p, q : Start(p) > Start(q))
Gap(above, r) == Start(above) - End(r) - 1
RangeLen(r) == End(r) - 1 - Start(r)
AckBytes(ranges, delay, ecn) ==
  LET rs == Descending(ranges)
      block(i) == V(Gap(rs[i - 1], rs[i])) \o V(RangeLen(rs[i]))
  IN V(IF ecn = <<>> THEN 2 ELSE 3) \o V(End(rs[1]) - 1) \o V(delay) \o V(Len(rs) - 1)
       \o V(RangeLen(rs[1]))
       \o FlattenSeq([i \in 1..(Len(rs) - 1) |-> block(i + 1)])
       \o FlattenSeq([i \in DOMAIN ecn |-> V(ecn[i])])
AckLen(ranges, delay, ecn) ==
  LET rs == Descending(ranges)
      sum(s) == FoldLeft(LAMBDA n, v : n + VarintLen(v), 0, s)
  IN 1 + sum(<<End(rs[1]) - 1, delay, Len(rs) - 1, RangeLen(rs[1])>>)
       + sum([i \in 1..(Len(rs) - 1) |-> Gap(rs[i], rs[i + 1])])
       + sum([i \in 1..(Len(rs) - 1) |-> RangeLen(rs[i + 1])]) + sum(ecn)

(* parse_ack_frame: low is the smallest number acked so far.               *)
(* Mutant: two ranges may touch.                                           *)
AckBlockReadTouching(a, r) ==
  LET top == a.low - r.out[1] - 1 IN
  IF r.err # NoError THEN [a EXCEPT !.r = r]
  ELSE IF a.low < 1 + r.out[1] \/ top < r.out[2]
  THEN [a EXCEPT !.r = Failed(r, "FrameEncodingError")]
  ELSE [r |-> r, low |-> top - r.out[2],
        ranges |-> RsInsert(a.ranges, <<top - r.out[2], top + 1>>)]
AckBlockRead(a, r) ==
  LET top == a.low - r.out[1] - 2 IN
  IF r.err # NoError THEN [a EXCEPT !.r = r]
  ELSE IF a.low < 2 + r.out[1] \/ top < r.out[2]
  THEN [a EXCEPT !.r = Failed(r, "FrameEncodingError")]
  ELSE [r |-> r, low |-> top - r.out[2],
        ranges |-> RsInsert(a.ranges, <<top - r.out[2], top + 1>>)]
AckBlock(a, i) ==
  IF a.r.err # NoError THEN a
  ELSE AckBlockRead(a, Reads([a.r EXCEPT !.out = <<>>], <<"v", "v">>))
AckDone(a, delay, counts) ==
  [r |-> counts, frame |-> Frame("ack", <<a.ranges, delay, counts.out>>)]
AckRead(h, ecn) ==
  LET largest == h.out[1]
      first == h.out[4]
      blocks(n) == FoldLeft(AckBlock, [r |-> h, low |-> largest - first,
                              ranges |-> RsInsert({}, <<largest - first, largest + 1>>)],
                            [i \in 1..n |-> i])
      rest(a) == AckDone(a, h.out[2],
                         Reads([a.r EXCEPT !.out = <<>>], IF ecn THEN <<"v", "v", "v">> ELSE <<>>))
  IN IF h.err # NoError THEN [r |-> h, frame |-> <<>>]
     ELSE IF largest < first THEN [r |-> Failed(h, "FrameEncodingError"), frame |-> <<>>]
     ELSE rest(blocks(h.out[3]))

-----------------------------------------------------------------------------
(* encode_crypto_header, encode_stream_header: offset and length always    *)
(* there, the length in two bytes.                                         *)
CryptoHeader(off, len) == V(6) \o V(off) \o V2(len)
StreamHeader(id, off, len, fin) == V(IF fin THEN 15 ELSE 14) \o V(id) \o V(off) \o V2(len)
CryptoHeaderLen(off) == 1 + VarintLen(off) + 2
StreamHeaderLen(id, off) == 1 + VarintLen(id) + VarintLen(off) + 2

Zeros(n) == [i \in 1..n |-> 0]

(* to_bytes                                                                *)
ToBytes(fr) ==
  LET f == fr.f IN
  CASE fr.t = "paddings" -> Zeros(f[1])
    [] fr.t = "ping" -> V(1)
    [] fr.t = "ack" -> AckBytes(f[1], f[2], f[3])
    [] fr.t = "reset_stream" -> V(4) \o V(f[1]) \o V(f[2]) \o V(f[3])
    [] fr.t = "stop_sending" -> V(5) \o V(f[1]) \o V(f[2])
    [] fr.t = "crypto" -> CryptoHeader(f[1], Len(f[2])) \o f[2]
    [] fr.t = "new_token" -> V(7) \o VB(f[1])
    [] fr.t = "stream" -> StreamHeader(f[1], f[2], Len(f[4]), f[3]) \o f[4]
    [] fr.t = "max_data" -> V(16) \o V(f[1])
    [] fr.t = "max_stream_data" -> V(17) \o V(f[1]) \o V(f[2])
    [] fr.t = "max_streams" -> V(IF f[1] THEN 18 ELSE 19) \o V(f[2])
    [] fr.t = "data_blocked" -> V(20) \o V(f[1])
    [] fr.t = "stream_data_blocked" -> V(21) \o V(f[1]) \o V(f[2])
    [] fr.t = "streams_blocked" -> V(IF f[1] THEN 22 ELSE 23) \o V(f[2])
    [] fr.t = "new_connection_id" -> V(24) \o V(f[1]) \o V(f[2]) \o UB(f[3]) \o f[4]
    [] fr.t = "retire_connection_id" -> V(25) \o V(f[1])
    [] fr.t = "path_challenge" -> V(26) \o f[1]
    [] fr.t = "path_response" -> V(27) \o f[1]
    [] fr.t = "connection_close" -> V(28) \o V(f[1]) \o V(f[2]) \o VB(f[3])
    [] fr.t = "application_close" -> V(29) \o V(f[1]) \o VB(f[2])
    [] fr.t = "handshake_done" -> V(30)
    [] fr.t = "path_abandon" -> V(PathAbandonType) \o V(f[1]) \o V(f[2]) \o VB(f[3])
    [] fr.t = "path_status" -> V(PathStatusType) \o V(f[1]) \o V(f[2]) \o V(f[3])

(* wire_len, by which write_frame_to_packet decides whether a frame fits   *)
WireLen(fr) ==
  LET f == fr.f
      v(i) == VarintLen(f[i])
      bytes(i) == VarintLen(Len(f[i])) + Len(f[i])
  IN
  CASE fr.t = "paddings" -> f[1]
    [] fr.t \in {"ping", "handshake_done"} -> 1
    [] fr.t = "ack" -> AckLen(f[1], f[2], f[3])
    [] fr.t = "reset_stream" -> 1 + v(1) + v(2) + v(3)
    [] fr.t \in {"stop_sending", "max_stream_data", "stream_data_blocked"} -> 1 + v(1) + v(2)
    [] fr.t = "crypto" -> 1 + v(1) + 2 + Len(f[2])
    [] fr.t = "new_token" -> 1 + bytes(1)
    [] fr.t = "stream" -> 1 + v(1) + v(2) + 2 + Len(f[4])
    [] fr.t \in {"max_data", "data_blocked", "retire_connection_id"} -> 1 + v(1)
    [] fr.t \in {"max_streams", "streams_blocked"} -> 1 + v(2)
    [] fr.t = "new_connection_id" -> 1 + v(1) + v(2) + 1 + Len(f[3]) + Len(f[4])
    [] fr.t \in {"path_challenge", "path_response"} -> 1 + 8
    [] fr.t = "connection_close" -> 1 + v(1) + v(2) + bytes(3)
    [] fr.t = "application_close" -> 1 + v(1) + bytes(2)
    [] fr.t = "path_abandon" -> 4 + v(1) + v(2) + bytes(3)
    [] fr.t = "path_status" -> 4 + v(1) + v(2) + v(3)

-----------------------------------------------------------------------------
(* from_bytes: the frame's name and the kinds of its fields, by type, for  *)
(* the frames that are read field by field                                 *)
Layout(type) ==
  CASE type = 4 -> <<"reset_stream", <<"v", "v", "v">>>>
    [] type = 5 -> <<"stop_sending", <<"v", "v">>>>
    [] type = 6 -> <<"crypto", <<"v", "vb">>>>
    [] type = 7 -> <<"new_token", <<"vb">>>>
    [] type = 16 -> <<"max_data", <<"v">>>>
    [] type = 17 -> <<"max_stream_data", <<"v", "v">>>>
    [] type \in {18, 19} -> <<"max_streams", <<"v">>>>
    [] type = 20 -> <<"data_blocked", <<"v">>>>
    [] type = 21 -> <<"stream_data_blocked", <<"v", "v">>>>
    [] type \in {22, 23} -> <<"streams_blocked", <<"v">>>>
    [] type = 24 -> <<"new_connection_id", <<"v", "v", "ub", "16">>>>
    [] type = 25 -> <<"retire_connection_id", <<"v">>>>
    [] type = 26 -> <<"path_challenge", <<"8">>>>
    [] type = 27 -> <<"path_response", <<"8">>>>
    [] type = 28 -> <<"connection_close", <<"v", "v", "vb">>>>
    [] type = 29 -> <<"application_close", <<"v", "vb">>>>
    [] type \in {1, 30} -> <<IF type = 1 THEN "ping" ELSE "handshake_done", <<>>>>
    [] type = PathAbandonType -> <<"path_abandon", <<"v", "v", "vb">>>>
    [] type = PathStatusType -> <<"path_status", <<"v", "v", "v">>>>
    [] OTHER -> <<"unknown", <<>>>>
Named(type, name, r) ==
  LET bidi == IF type \in {18, 19, 22, 23} THEN <<type % 2 = 0>> ELSE <<>> IN
  [r |-> IF name = "unknown" THEN Failed(r, "FrameEncodingError") ELSE r,
   frame |-> Frame(name, bidi \o r.out)]

(* PADDING takes every zero that follows.                                  *)
PaddingRead(r) ==
  LET run == {n \in 0..Len(r.b) : \A i \in 1..n : r.b[i] = 0} IN
  [r |-> Advance(r, Max(run), <<>>), frame |-> Frame("paddings", <<1 + Max(run)>>)]

(* STREAM: the bits of the type tell whether an offset and a length are    *)
(* there, and the FIN.                                                     *)
StreamRead(type, r) ==
  LET has_off == (type \div 4) % 2 = 1
      has_len == (type \div 2) % 2 = 1
      kinds == <<"v">> \o (IF has_off THEN <<"v">> ELSE <<>>) \o (IF has_len THEN <<"v">> ELSE <<>>)
      body(h, off, len) ==
        IF h.err # NoError THEN [r |-> h, frame |-> <<>>]
        ELSE IF off >= MaxStreamSize - len
        THEN [r |-> Failed(h, "FrameEncodingError"), frame |-> <<>>]
        ELSE LET d == ReadRaw(h, len) IN
             [r |-> d, frame |-> Frame("stream", <<h.out[1], off, type % 2 = 1, Last(d.out)>>)]
      parts(h) == body(h, IF has_off THEN h.out[2] ELSE 0,
                       IF has_len THEN Last(h.out) ELSE Len(h.b))
  IN parts(Reads(r, kinds))

FrameRead(type, r) ==
  CASE type = 0 -> PaddingRead(r)
    [] type \in {2, 3} -> AckRead(Reads(r, <<"v", "v", "v", "v">>), type = 3)
    [] type \in 8..15 -> StreamRead(type, r)
    [] OTHER -> Named(type, Layout(type)[1], Reads(r, Layout(type)[2]))

(* validate_frame: the packets in which a frame may travel                 *)
ValidIn(pkt, name) ==
  CASE name \in {"paddings", "ping"} -> TRUE
    [] name \in {"ack", "crypto", "connection_close"} -> pkt # "zero_rtt"
    [] name \in {"handshake_done", "new_token", "path_response", "retire_connection_id"} ->
         pkt = "one_rtt"
    [] OTHER -> pkt \in {"zero_rtt", "one_rtt"}

(* from_bytes, with the number of bytes it consumed                        *)
FromBytes(b, pkt) ==
  LET result(x) ==
        [err |-> IF x.r.err # NoError THEN x.r.err
                 ELSE IF ~ValidIn(pkt, x.frame.t) THEN "InvalidPacket" ELSE NoError,
         frame |-> x.frame, len |-> Len(b) - Len(x.r.b)]
      typed(r) == IF r.err # NoError THEN [r |-> r, frame |-> <<>>]
                  ELSE FrameRead(r.out[1], [r EXCEPT !.out = <<>>])
  IN result(typed(Reads(Reader(b), <<"v">>)))

(* ack_eliciting, probing                                                  *)
AckEliciting(name) == name \notin {"paddings", "ack", "application_close", "connection_close"}
Probing(name) == name \in {"paddings", "new_connection_id", "path_challenge", "path_response"}
=============================================================================
