------------------------------- MODULE TqQpack -------------------------------
(***************************************************************************)
(* tquic's QPACK: prefix integers, the Huffman code, the static table and  *)
(* field sections, which use no dynamic table.  A field is <<name, value>> *)
(* of bytes.                                                               *)
(***************************************************************************)
EXTENDS TqFrame

CONSTANTS
  HuffmanTable,   \* HuffmanTable[byte] is the code of byte, a sequence of bits
  StaticTable     \* entries <<name, value, index>>, as in STATIC_ENCODE_TABLE

Refused == "QpackDecompressionFailed"
Lower(bytes) == [i \in DOMAIN bytes |-> IF bytes[i] \in 65..90 THEN bytes[i] + 32 ELSE bytes[i]]

-----------------------------------------------------------------------------
(* encode_int: first holds the bits before the n of the prefix.            *)
RECURSIVE Continued(_)
Continued(i) == IF i < 128 THEN <<i>> ELSE <<(i % 128) + 128>> \o Continued(i \div 128)
EncodeInt(i, bits, n) ==
  IF i < 2^n - 1 THEN <<bits + i>> ELSE <<bits + 2^n - 1>> \o Continued(i - (2^n - 1))

(* decode_int: the bytes up to the first that is below 128                 *)
DecodeInt(r, n) ==
  LET more == Tail(r.b)
      ends == {i \in DOMAIN more : more[i] < 128}
      value(k) == FoldLeft(LAMBDA v, i : v + (more[i] % 128) * 2^(7 * (i - 1)), 2^n - 1, [i \in 1..k |-> i])
  IN IF r.err # NoError THEN r
     ELSE IF r.b = <<>> THEN Failed(r, Short)
     ELSE IF r.b[1] % 2^n < 2^n - 1 THEN Advance(r, 1, r.b[1] % 2^n)
     ELSE IF ends = {} THEN Failed(r, Refused)
     ELSE Advance(r, 1 + Min(ends), value(Min(ends)))

-----------------------------------------------------------------------------
(* huffman: the bits of the codes, filled up with ones to whole bytes      *)
HuffmanBits(bytes) == FlattenSeq([i \in DOMAIN bytes |-> HuffmanTable[bytes[i]]])
HuffmanLen(bytes) == (Len(HuffmanBits(bytes)) + 7) \div 8
HuffmanEncode(bytes) ==
  LET bits == HuffmanBits(bytes)
      bit(i) == IF i <= Len(bits) THEN bits[i] ELSE 1
  IN [k \in 1..HuffmanLen(bytes) |-> FoldLeft(LAMBDA n, j : 2 * n + bit(8 * (k - 1) + j), 0, [j \in 1..8 |-> j])]

(* The decoder walks the code; what is left over at the end is the start   *)
(* of the code of EOS, less than a byte of ones.                           *)
RECURSIVE HuffmanWalk(_, _)
HuffmanWalk(bits, out) ==
  LET found == {c \in DOMAIN HuffmanTable : IsPrefix(HuffmanTable[c], bits)}
      next(c) == HuffmanWalk(SubSeq(bits, Len(HuffmanTable[c]) + 1, Len(bits)), Append(out, c))
  IN IF found # {} THEN next(CHOOSE c \in found : TRUE)
     ELSE [err |-> IF Len(bits) < 8 /\ \A i \in DOMAIN bits : bits[i] = 1 THEN NoError ELSE Refused, out |-> out]
HuffmanDecode(bytes) ==
  HuffmanWalk(FlattenSeq([k \in DOMAIN bytes |-> [j \in 1..8 |-> (bytes[k] \div 2^(8 - j)) % 2]]), <<>>)

-----------------------------------------------------------------------------
(* find_static_table_range and encode_static: the index of an entry with   *)
(* this name, and whether the value is that of the entry too               *)
StaticRange(name) == SelectSeq(StaticTable, LAMBDA e : e[1] = Lower(name))
EncodeStatic(field) ==
  LET range == StaticRange(field[1])
      stop == {i \in DOMAIN range : range[i][2] = <<>> \/ range[i][2] = field[2]}
      at(i) == <<range[i][3], range[i][2] # <<>>>>
  IN IF range = <<>> THEN <<>>
     ELSE IF stop # {} THEN at(Min(stop))
     ELSE <<range[1][3], FALSE>>
DecodeStatic(index) == {e \in Range(StaticTable) : e[3] = index}

(* encode_str                                                              *)
EncodeStr(bytes) ==
  IF HuffmanLen(bytes) < Len(bytes) THEN EncodeInt(HuffmanLen(bytes), 128, 7) \o HuffmanEncode(bytes)
  ELSE EncodeInt(Len(bytes), 0, 7) \o bytes
EncodeName(name) ==
  IF HuffmanLen(Lower(name)) < Len(name)
  THEN EncodeInt(HuffmanLen(Lower(name)), 32 + 8, 3) \o HuffmanEncode(Lower(name))
  ELSE EncodeInt(Len(name), 32, 3) \o Lower(name)
(* QpackEncoder::encode: an index, a literal with an index for its name,   *)
(* or a literal                                                            *)
EncodeField(field) ==
  LET with(entry) ==
        CASE entry = <<>> -> EncodeName(field[1]) \o EncodeStr(field[2])
          [] entry # <<>> /\ entry[2] -> EncodeInt(entry[1], 128 + 64, 6)
          [] OTHER -> EncodeInt(entry[1], 64 + 16, 4) \o EncodeStr(field[2])
  IN with(EncodeStatic(field))
EncodeFields(fields) ==
  EncodeInt(0, 0, 8) \o EncodeInt(0, 0, 7) \o FlattenSeq([i \in DOMAIN fields |-> EncodeField(fields[i])])

-----------------------------------------------------------------------------
(* The string whose length was just read, and decode_str                   *)
TakeString(r, huff) ==
  LET take(x) == IF x.err # NoError THEN x
                 ELSE IF ~huff THEN x
                 ELSE LET h == HuffmanDecode(Last(x.out)) IN
                      [x EXCEPT !.err = h.err, !.out = Append(Front(x.out), h.out)]
  IN take(TakeAnnounced(r))
DecodeStr(r) ==
  IF r.err # NoError THEN r
  ELSE IF r.b = <<>> THEN Failed(r, Refused)
  ELSE TakeString(DecodeInt(r, 7), r.b[1] >= 128)

(* Representation::from the first byte                                     *)
Representation(first) ==
  CASE first >= 128 -> "indexed"
    [] first \in 64..127 -> "name_ref"
    [] first \in 32..63 -> "literal"
    [] OTHER -> "post_base"

(* QpackDecoder::decode: left is what the limit on the section leaves.     *)
Section(err, fields) == [err |-> err, fields |-> IF err = NoError THEN fields ELSE <<>>]
FieldSize(field) == Len(field[1]) + Len(field[2]) + 32
RefField(r, static, whole) ==
  IF r.err # NoError THEN [r |-> r, field |-> <<>>]
  ELSE IF ~static \/ DecodeStatic(r.out[1]) = {} THEN [r |-> Failed(r, Refused), field |-> <<>>]
  ELSE LET e == CHOOSE e \in DecodeStatic(r.out[1]) : TRUE IN
       [r |-> r, field |-> IF whole THEN <<e[1], e[2]>> ELSE <<e[1], r.out[2]>>]
LiteralField(r) == [r |-> r, field |-> IF r.err # NoError THEN <<>> ELSE r.out]
ReadLine(b, first) ==
  CASE Representation(first) = "indexed" -> RefField(DecodeInt(Reader(b), 6), (first \div 64) % 2 = 1, TRUE)
    [] Representation(first) = "name_ref" ->
         RefField(DecodeStr(DecodeInt(Reader(b), 4)), (first \div 16) % 2 = 1, FALSE)
    [] Representation(first) = "literal" ->
         LiteralField(DecodeStr(TakeString(DecodeInt(Reader(b), 3), (first \div 8) % 2 = 1)))
    [] OTHER -> [r |-> Failed(Reader(b), Refused), field |-> <<>>]
RECURSIVE DecodeLines(_, _, _)
DecodeLines(b, left, fields) ==
  LET next(x) == IF x.r.err # NoError THEN Section(x.r.err, <<>>)
                 ELSE IF FieldSize(x.field) > left THEN Section(Refused, <<>>)
                 ELSE DecodeLines(x.r.b, left - FieldSize(x.field), Append(fields, x.field))
  IN IF b = <<>> THEN Section(NoError, fields) ELSE next(ReadLine(b, b[1]))
DecodeFields(b, max) ==
  LET start(r) == IF r.err # NoError THEN Section(r.err, <<>>) ELSE DecodeLines(r.b, max, <<>>)
  IN start(DecodeInt(DecodeInt(Reader(b), 8), 7))
=============================================================================
