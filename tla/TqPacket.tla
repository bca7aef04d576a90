------------------------------ MODULE TqPacket -------------------------------
(***************************************************************************)
(* tquic's packets in bytes: headers written and parsed, packet and header *)
(* protection, Retry, Version Negotiation and stateless reset; and the     *)
(* transport parameters, TransportParams::encode and decode: a record,     *)
(* where an Option is {} or {value}.                                       *)
(***************************************************************************)
EXTENDS TqFrame, TqKeys, Bitwise

LongFormBit == 128   \* HEADER_LONG_FORM_BIT
FixedBit == 64       \* HEADER_FIXED_BIT
KeyPhaseBit == 4     \* HEADER_KEY_PHASE_BIT
MaxCidLen == 20
MaxPktNumLen == 4    \* MAX_PKT_NUM_LEN
SampleLen == 16
MinPayloadLen == 4   \* MIN_PAYLOAD_LEN
MinResetLen == 21    \* MIN_RESET_PACKET_LEN
Version1 == 1

PacketTypes == <<"initial", "zero_rtt", "handshake", "retry">>
(* PacketType::to_level and to_space                                       *)
ToLevel(type) == IF type \in {"initial", "zero_rtt", "handshake", "one_rtt"} THEN type ELSE "InternalError"
ToSpace(type) ==
  CASE type \in {"initial", "handshake"} -> type
    [] type \in {"zero_rtt", "one_rtt"} -> "data"
    [] OTHER -> "InternalError"

(* PacketHeader; a token of None is the empty one, as it is on the wire.   *)
Header(type, version, dcid, scid, pnl, pn, token, phase) ==
  [type |-> type, version |-> version, dcid |-> dcid, scid |-> scid,
   pkt_num_len |-> pnl, pkt_num |-> pn, token |-> token, key_phase |-> phase]
Minus1(n) == IF n = 0 THEN 0 ELSE n - 1
LongHeader(first) == first >= LongFormBit

(* to_bytes, up to the length field of a long header                       *)
LongBytes(h, code) ==
  <<LongFormBit + FixedBit + 16 * code + Minus1(h.pkt_num_len)>> \o BigEndian(h.version, 4)
    \o UB(h.dcid) \o UB(h.scid)
    \o CASE h.type = "initial" -> VB(h.token)
         [] h.type = "retry" -> h.token
         [] OTHER -> <<>>
HeaderBytes(h) ==
  IF h.type = "one_rtt"
  THEN <<FixedBit + (IF h.key_phase THEN KeyPhaseBit ELSE 0) + Minus1(h.pkt_num_len)>> \o h.dcid
  ELSE LongBytes(h, (CHOOSE i \in 1..4 : PacketTypes[i] = h.type) - 1)

(* from_bytes.  The length of a connection ID is limited for the version   *)
(* that is supported, and ConnectionId::new cuts what is longer.           *)
CidRead(r, version) ==
  IF r.err = NoError /\ version = Version1 /\ r.b # <<>> /\ r.b[1] > MaxCidLen
  THEN Failed(r, "InvalidPacket") ELSE ReadField(r, "ub")
CidNew(bytes) == IF Len(bytes) > MaxCidLen THEN SubSeq(bytes, 1, MaxCidLen) ELSE bytes
TokenRead(r, type) ==
  CASE r.err # NoError -> r
    [] type = "initial" -> ReadField(r, "vb")
    [] type = "retry" -> IF Len(r.b) < TagLen THEN Failed(r, "InvalidPacket")
                         ELSE ReadRaw(r, Len(r.b) - TagLen)
    [] OTHER -> [r EXCEPT !.out = Append(@, <<>>)]
TypeRead(first, version) ==
  IF version = 0 THEN "version_negotiation" ELSE PacketTypes[1 + ((first \div 16) % 4)]
LongRead(h, r) ==   \* h: the header up to the version, r: all that follows
  [err |-> r.err, rest |-> r.b,
   hdr |-> IF r.err # NoError THEN <<>>
           ELSE Header(TypeRead(h.out[1], h.out[2]), h.out[2], CidNew(r.out[3]), CidNew(r.out[4]), 0, 0,
                       r.out[5], FALSE)]
ShortRead(r) ==
  [err |-> r.err, rest |-> r.b,
   hdr |-> IF r.err # NoError THEN <<>> ELSE Header("one_rtt", 0, CidNew(r.out[2]), <<>>, 0, 0, <<>>, FALSE)]
HeaderRead(b, dcid_len) ==
  LET long(h) == IF h.err # NoError THEN [err |-> h.err, rest |-> <<>>, hdr |-> <<>>]
                 ELSE LongRead(h, TokenRead(CidRead(CidRead(h, h.out[2]), h.out[2]), TypeRead(h.out[1], h.out[2])))
  IN IF b = <<>> THEN [err |-> Short, rest |-> <<>>, hdr |-> <<>>]
     ELSE IF ~LongHeader(b[1]) THEN ShortRead(ReadRaw(ReadUint(Reader(b), 1), dcid_len))
     ELSE long(Reads(Reader(b), <<"u8", "u32">>))

(* header_info, which routes a datagram: no limit on the length            *)
HeaderInfo(b, dcid_len) ==
  LET info(r, long) ==
        [err |-> r.err,
         info |-> IF r.err # NoError THEN <<>>
                  ELSE <<long, IF long THEN r.out[2] ELSE 0, CidNew(Last(r.out))>>]
  IN IF b = <<>> THEN [err |-> Short, info |-> <<>>]
     ELSE IF ~LongHeader(b[1]) THEN info(ReadRaw(ReadUint(Reader(b), 1), dcid_len), FALSE)
     ELSE info(Reads(Reader(b), <<"u8", "u32", "ub">>), TRUE)

-----------------------------------------------------------------------------
FirstMask(first, mask) == first ^^ (mask[1] % (IF LongHeader(first) THEN 16 ELSE 32))
NumMask(bytes, mask) == [i \in DOMAIN bytes |-> bytes[i] ^^ mask[i + 1]]

(* encrypt_header: the sample is taken as if the number had four bytes.    *)
SampleSent(payload, pnl) ==
  SubSeq(payload, MaxPktNumLen - pnl + 1, MaxPktNumLen - pnl + SampleLen)
Masked(hdr, pnl, mask) ==
  <<FirstMask(hdr[1], mask)>> \o SubSeq(hdr, 2, Len(hdr) - pnl)
    \o NumMask(SubSeq(hdr, Len(hdr) - pnl + 1, Len(hdr)), mask)
(* encrypt_packet: hdr is all before the payload, id the place in sealed.  *)
EncryptPacket(id, key, hdr, pnl, plain) ==
  LET cells == Cells(id, Len(plain) + TagLen) IN
  Masked(hdr, pnl, NewMask(key, SampleSent(cells, pnl))) \o cells

(* decrypt_header: pkt_num_offset bytes precede the number.  The length    *)
(* and the phase are read after the mask is taken off the first byte.      *)
Unmasked(buf, off, hdr, first, mask) ==
  LET pnl == (first % 4) + 1
      num == NumMask(SubSeq(buf, off + 1, off + pnl), mask)
  IN [err |-> NoError,
      buf |-> <<first>> \o SubSeq(buf, 2, off) \o num \o SubSeq(buf, off + pnl + 1, Len(buf)),
      hdr |-> [hdr EXCEPT !.pkt_num_len = pnl, !.pkt_num = Number(num),
                          !.key_phase = hdr.type = "one_rtt" /\ (first \div KeyPhaseBit) % 2 = 1]]
DecryptHeader(buf, off, hdr, key, plaintext) ==
  LET mask == IF plaintext THEN <<0, 0, 0, 0, 0>>
              ELSE NewMask(key, SubSeq(buf, off + MaxPktNumLen + 1, off + MaxPktNumLen + SampleLen))
  IN IF Len(buf) < off + MaxPktNumLen + (IF plaintext THEN 0 ELSE SampleLen)
     THEN [err |-> Short, buf |-> buf, hdr |-> hdr]
     ELSE Unmasked(buf, off, hdr, FirstMask(buf[1], mask), mask)

(* decrypt_payload: the plaintexts it may return, one or none              *)
DecryptPayload(sealed, buf, off, len, cid_seq, pn, key) ==
  IF Len(buf) < off + len THEN {}
  ELSE Open(sealed, SubSeq(buf, off + 1, off + len), key, cid_seq, pn, SubSeq(buf, 1, off))

-----------------------------------------------------------------------------
(* version_negotiation, of a client's cids; first is a random byte         *)
VersionNegotiation(scid, dcid, first) ==
  <<LongFormBit + (first % LongFormBit)>> \o BigEndian(0, 4) \o UB(dcid) \o UB(scid) \o BigEndian(Version1, 4)

(* retry: the tag is that of the original dcid and the header, a MAC under *)
(* a fixed key (the cells of the sealed message tag).                      *)
RetryKey == KeyOf(TlsSecret("retry"))   \* RETRY_INTEGRITY_KEY_V1
RetryBytes(id, scid, dcid, token) ==
  HeaderBytes(Header("retry", Version1, dcid, scid, 0, 0, token, FALSE)) \o Cells(id, TagLen)
RetrySealed(scid, dcid, odcid, token) ==
  Sealed(RetryKey, 0, 0, UB(odcid) \o HeaderBytes(Header("retry", Version1, dcid, scid, 0, 0, token, FALSE)), <<>>)
VerifyRetry(sealed, b, odcid) ==
  /\ Len(b) >= TagLen
  /\ Open(sealed, SubSeq(b, Len(b) - TagLen + 1, Len(b)), RetryKey, 0, 0,
          UB(odcid) \o SubSeq(b, 1, Len(b) - TagLen)) # {}

(* stateless_reset: random bytes that look like a short header, the token  *)
StatelessReset(len, token, random) ==
  IF len < MinResetLen \/ Len(token) # 16 THEN <<>>
  ELSE <<FixedBit + (random % 64)>> \o [i \in 1..(len - 17) |-> random] \o token

-----------------------------------------------------------------------------
(* The transport parameters.                                               *)

MultipathId == 1073741824 + 5     \* 0x0f739bbc1b666d05: a varint of eight bytes too
NoEncryptionId == 47789           \* 0xbaad
MaxStreamsPerType == 268435456    \* MAX_STREAMS_PER_TYPE, 2^60 in the code
ServerOnly == {0, 2, 13, 16}      \* ids a client may not send

(* the parameters that are one number, by their id                         *)
NumberName ==
  [id \in {1} \cup 3..11 \cup {14} |->
     CASE id = 1 -> "max_idle_timeout"
       [] id = 3 -> "max_udp_payload_size"
       [] id = 4 -> "initial_max_data"
       [] id = 5 -> "initial_max_stream_data_bidi_local"
       [] id = 6 -> "initial_max_stream_data_bidi_remote"
       [] id = 7 -> "initial_max_stream_data_uni"
       [] id = 8 -> "initial_max_streams_bidi"
       [] id = 9 -> "initial_max_streams_uni"
       [] id = 10 -> "ack_delay_exponent"
       [] id = 11 -> "max_ack_delay"
       [] id = 14 -> "active_conn_id_limit"]

(* TransportParams::default                                                *)
DefaultParams ==
  [original_destination_connection_id |-> {}, max_idle_timeout |-> 0, stateless_reset_token |-> {},
   max_udp_payload_size |-> 65527, initial_max_data |-> 0, initial_max_stream_data_bidi_local |-> 0,
   initial_max_stream_data_bidi_remote |-> 0, initial_max_stream_data_uni |-> 0,
   initial_max_streams_bidi |-> 0, initial_max_streams_uni |-> 0, ack_delay_exponent |-> 3,
   max_ack_delay |-> 25, disable_active_migration |-> FALSE, preferred_address |-> {},
   active_conn_id_limit |-> 2, initial_source_connection_id |-> {}, retry_source_connection_id |-> {},
   enable_multipath |-> FALSE, disable_encryption |-> FALSE]

-----------------------------------------------------------------------------
(* PreferredAddress: an address is {} or {<<ip, port>>}, and all zeros on  *)
(* the wire when it is missing.                                            *)
PreferredLen(p) == 4 + 2 + 16 + 2 + 1 + Len(p.cid) + 16
AddressBytes(a, n) == IF a = {} THEN Zeros(n + 2) ELSE FlattenSeq([i \in 1..2 |->
  LET x == CHOOSE y \in a : TRUE IN IF i = 1 THEN x[1] ELSE BigEndian(x[2], 2)])
PreferredBytes(p) == AddressBytes(p.v4, 4) \o AddressBytes(p.v6, 16) \o UB(p.cid) \o p.token
AddressRead(ip, port) == IF port = 0 /\ \A i \in DOMAIN ip : ip[i] = 0 THEN {} ELSE {<<ip, port>>}
PreferredRead(r) ==
  [err |-> r.err,
   value |-> IF r.err # NoError THEN {}
             ELSE {[v4 |-> AddressRead(r.out[1], r.out[2]), v6 |-> AddressRead(r.out[3], r.out[4]),
                    cid |-> CidNew(r.out[5]), token |-> r.out[6]]}]

-----------------------------------------------------------------------------
Param(id, bytes) == V(id) \o VB(bytes)
OptionParam(id, option) == FlattenSeq(SetToSeq({Param(id, x) : x \in option}))
FlagParam(id, set) == IF set THEN Param(id, <<>>) ELSE <<>>

(* encode: a number that is 0 is left out, a limit below 2 too.            *)
NumberParam(tp, id) ==
  IF tp[NumberName[id]] = 0 \/ (id = 14 /\ tp[NumberName[id]] < 2) THEN <<>>
  ELSE Param(id, V(tp[NumberName[id]]))
EncodeParams(tp, server) ==
  LET only(bytes) == IF server THEN bytes ELSE <<>> IN
  only(OptionParam(0, tp.original_destination_connection_id))
    \o NumberParam(tp, 1)
    \o only(OptionParam(2, tp.stateless_reset_token))
    \o FlattenSeq([i \in 1..9 |-> NumberParam(tp, i + 2)])
    \o FlagParam(12, tp.disable_active_migration)
    \o FlattenSeq(SetToSeq({V(13) \o V(PreferredLen(p)) \o PreferredBytes(p) : p \in tp.preferred_address}))
    \o NumberParam(tp, 14)
    \o OptionParam(15, tp.initial_source_connection_id)
    \o only(OptionParam(16, tp.retry_source_connection_id))
    \o FlagParam(MultipathId, tp.enable_multipath)
    \o FlagParam(NoEncryptionId, tp.disable_encryption)

-----------------------------------------------------------------------------
(* decode: the values a number may have, and one parameter                 *)
NumberAllowed(id, n) ==
  CASE id = 3 -> n >= 1200
    [] id \in {8, 9} -> n <= MaxStreamsPerType
    [] id = 10 -> n <= 20
    [] id = 11 -> n < 16384
    [] id = 14 -> n >= 2
    [] OTHER -> TRUE

Refuse == [err |-> "TransportParameterError", tp |-> <<>>]
Outcome(err, tp) == [err |-> err, tp |-> IF err = NoError THEN tp ELSE <<>>]
TakeNumber(tp, id, r) ==
  IF r.err # NoError THEN Outcome(r.err, tp)
  ELSE IF ~NumberAllowed(id, r.out[1]) THEN Refuse
  ELSE Outcome(NoError, [tp EXCEPT ![NumberName[id]] = r.out[1]])
TakePreferred(tp, p) == Outcome(p.err, [tp EXCEPT !.preferred_address = p.value])
TakeParam(tp, id, val) ==
  CASE id = 0 -> Outcome(NoError, [tp EXCEPT !.original_destination_connection_id = {CidNew(val)}])
    [] id = 2 -> IF Len(val) < 16 THEN Outcome(Short, tp)
                 ELSE Outcome(NoError, [tp EXCEPT !.stateless_reset_token = {SubSeq(val, 1, 16)}])
    [] id \in DOMAIN NumberName -> TakeNumber(tp, id, ReadVarint(Reader(val)))
    [] id = 12 -> Outcome(NoError, [tp EXCEPT !.disable_active_migration = TRUE])
    [] id = 13 -> TakePreferred(tp, PreferredRead(Reads(Reader(val), <<"4", "u16", "16", "u16", "ub", "16">>)))
    [] id = 15 -> Outcome(NoError, [tp EXCEPT !.initial_source_connection_id = {CidNew(val)}])
    [] id = 16 -> Outcome(NoError, [tp EXCEPT !.retry_source_connection_id = {CidNew(val)}])
    [] id = MultipathId -> Outcome(NoError, [tp EXCEPT !.enable_multipath = TRUE])
    [] id = NoEncryptionId -> Outcome(NoError, [tp EXCEPT !.disable_encryption = TRUE])
    [] OTHER -> Outcome(NoError, tp)

(* The loop of decode: no id twice, and none of a server's from a client.  *)
RECURSIVE DecodeFrom(_, _, _, _)
DecodeFrom(tp, b, found, is_server) ==
  LET next(o, r) == IF o.err # NoError THEN o
                    ELSE DecodeFrom(o.tp, r.b, found \cup {r.out[1]}, is_server)
      param(r) == IF r.err # NoError THEN Outcome(r.err, tp)
                  ELSE IF r.out[1] \in ServerOnly /\ is_server THEN Refuse
                  ELSE next(TakeParam(tp, r.out[1], r.out[2]), r)
      id(r) == IF r.err # NoError THEN Outcome(r.err, tp)
               ELSE IF r.out[1] \in found THEN Refuse ELSE param(ReadField(r, "vb"))
  IN IF b = <<>> THEN Outcome(NoError, tp) ELSE id(ReadVarint(Reader(b)))
DecodeParams(b, is_server) == DecodeFrom(DefaultParams, b, {}, is_server)
=============================================================================
