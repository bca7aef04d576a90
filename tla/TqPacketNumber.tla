--------------------------- MODULE TqPacketNumber ---------------------------
(***************************************************************************)
(* The packet numbers of tquic's packets: packet_num_len,                  *)
(* encode_packet_num and decode_packet_num, and what decode_packet_num     *)
(* recovers, for every packet number and every width.                      *)
(***************************************************************************)
EXTENDS Integers, TLAPS

CONSTANTS
  PnWindow,   \* PnWindow[len]: how many numbers len bytes tell apart, 2^(8 * len) in the code
  PnLimit     \* the bound on packet numbers, 2^62 in the code

PnLens == 1..4   \* up to MAX_PKT_NUM_LEN bytes

ASSUME PnAssumption ==
  /\ PnLimit \in Nat
  /\ PnWindow \in [PnLens -> Nat]
  /\ \A len \in PnLens : PnWindow[len] > 0 /\ PnWindow[len] % 2 = 0

NoneAcked == -1   \* largest_acked is None

(* packet_num_len: twice as many numbers as are unacknowledged, that is    *)
(* min_bits = bits of num_unacked + 1, in whole bytes; 5 is too many.      *)
NumUnacked(pn, acked) ==
  IF acked = NoneAcked THEN pn + 1 ELSE IF pn > acked THEN pn - acked ELSE 0
PacketNumLen(pn, acked) ==
  IF 2 * NumUnacked(pn, acked) < PnWindow[1] THEN 1
  ELSE IF 2 * NumUnacked(pn, acked) < PnWindow[2] THEN 2
  ELSE IF 2 * NumUnacked(pn, acked) < PnWindow[3] THEN 3
  ELSE IF 2 * NumUnacked(pn, acked) < PnWindow[4] THEN 4 ELSE 5

(* encode_packet_num: the low bytes                                        *)
Truncate(pn, len) == pn % PnWindow[len]

(* decode_packet_num: the number with these low bytes that is nearest to   *)
(* the one after the largest received                                      *)
Nearest(candidate, expected, win) ==
  IF candidate + (win \div 2) <= expected /\ candidate < PnLimit - win THEN candidate + win
  ELSE IF candidate > expected + (win \div 2) /\ candidate >= win THEN candidate - win
  ELSE candidate
DecodePacketNum(largest, truncated, len) ==
  Nearest((largest + 1) - ((largest + 1) % PnWindow[len]) + truncated, largest + 1, PnWindow[len])

-----------------------------------------------------------------------------
(* A number is its multiple of the window plus its low bytes.              *)
LEMMA Division ==
  ASSUME NEW n \in Nat, NEW w \in Nat, w > 0
  PROVE  /\ n \div w \in Nat
         /\ n % w \in Nat /\ n % w < w
         /\ n = w * (n \div w) + (n % w)
  BY SMT

(* Multiples of a window that differ, differ by at least a window.         *)
LEMMA Multiples ==
  ASSUME NEW w \in Nat, NEW a \in Nat, NEW b \in Nat
  PROVE  /\ w * a \in Nat
         /\ a = b => w * a = w * b
         /\ a = b + 1 => w * a = w * b + w
         /\ a >= b + 2 => w * a >= w * b + 2 * w
  BY SMT

(* decode_packet_num recovers every number that lies within half a window  *)
(* of the one it expects, as the comment on it says (RFC 9000 A.3).        *)
THEOREM NearRecovered ==
  ASSUME NEW len \in PnLens, NEW largest \in Nat, NEW pn \in Nat,
         2 * pn > 2 * (largest + 1) - PnWindow[len],
         2 * pn <= 2 * (largest + 1) + PnWindow[len],
         pn < PnLimit
  PROVE  DecodePacketNum(largest, Truncate(pn, len), len) = pn
<1> DEFINE w == PnWindow[len]
           e == largest + 1
           h == w \div 2
           a == pn \div w
           b == e \div w
           c == e - (e % w) + (pn % w)
<1>1. w \in Nat /\ w > 0 /\ w % 2 = 0
  BY PnAssumption
<1>2. e \in Nat
  OBVIOUS
<1>3. h \in Nat /\ w = 2 * h
  BY <1>1, SMT
<1>4. /\ a \in Nat /\ pn % w \in Nat /\ pn % w < w /\ pn = w * a + (pn % w)
      /\ b \in Nat /\ e % w \in Nat /\ e % w < w /\ e = w * b + (e % w)
  BY <1>1, <1>2, Division
<1>5. /\ w * a \in Nat /\ w * b \in Nat
      /\ a = b => w * a = w * b
      /\ a = b + 1 => w * a = w * b + w
      /\ b = a + 1 => w * b = w * a + w
      /\ a >= b + 2 => w * a >= w * b + 2 * w
      /\ b >= a + 2 => w * b >= w * a + 2 * w
  BY <1>1, <1>4, Multiples, ZenonT(40)
<1>6. PnLimit \in Nat
  BY PnAssumption
<1>7. 2 * pn > 2 * e - w /\ 2 * pn <= 2 * e + w /\ pn < PnLimit
  OBVIOUS
<1>8. DecodePacketNum(largest, Truncate(pn, len), len) = Nearest(c, e, w)
  BY DEF DecodePacketNum, Truncate
<1>9. c = w * b + (pn % w)
  BY <1>1, <1>2, <1>4, <1>5
<1> HIDE DEF w, e, h, a, b, c
<1>10. a = b \/ a = b + 1 \/ b = a + 1
  BY <1>1, <1>2, <1>3, <1>4, <1>5, <1>7
<1>11. w \div 2 = h
  BY DEF h
<1>12. Nearest(c, e, w) = pn
  <2>1. CASE a = b
    <3>1. c = pn
      BY <1>4, <1>5, <1>9, <2>1
    <3> QED
      BY <1>1, <1>2, <1>3, <1>7, <1>11, <3>1 DEF Nearest
  <2>2. CASE a = b + 1
    <3>1. c = pn - w
      BY <1>1, <1>4, <1>5, <1>9, <2>2
    <3> QED
      BY <1>1, <1>2, <1>3, <1>6, <1>7, <1>11, <3>1 DEF Nearest
  <2>3. CASE b = a + 1
    <3>1. c = pn + w
      BY <1>1, <1>4, <1>5, <1>9, <2>3
    <3> QED
      BY <1>1, <1>2, <1>3, <1>7, <1>11, <3>1 DEF Nearest
  <2> QED
    BY <1>10, <2>1, <2>2, <2>3
<1> QED
  BY <1>8, <1>12

(* A packet that is newer than everything received has its number          *)
(* recovered: packet_num_len leaves room for all that is unacknowledged,   *)
(* and what was acknowledged had been received.                            *)
THEOREM InOrderRecovered ==
  ASSUME NEW pn \in Nat, NEW largest \in Nat, NEW acked \in Nat \cup {NoneAcked},
         pn > largest, acked <= largest, pn < PnLimit,
         PacketNumLen(pn, acked) \in PnLens
  PROVE  LET len == PacketNumLen(pn, acked) IN
         DecodePacketNum(largest, Truncate(pn, len), len) = pn
<1> DEFINE len == PacketNumLen(pn, acked)
<1>1. \A l \in PnLens : PnWindow[l] \in Nat /\ PnWindow[l] > 0
  BY PnAssumption
<1>2. NumUnacked(pn, acked) \in Nat /\ NumUnacked(pn, acked) >= pn - largest
  BY DEF NumUnacked, NoneAcked
<1>3. 2 * NumUnacked(pn, acked) < PnWindow[len]
  BY <1>2 DEF PacketNumLen, PnLens
<1> HIDE DEF len
<1>4. len \in PnLens
  BY DEF len
<1>5. 2 * pn > 2 * (largest + 1) - PnWindow[len] /\ 2 * pn <= 2 * (largest + 1) + PnWindow[len]
  BY <1>1, <1>2, <1>3, <1>4
<1>6. DecodePacketNum(largest, Truncate(pn, len), len) = pn
  BY <1>4, <1>5, NearRecovered
<1> QED
  BY <1>6 DEF len
=============================================================================
