------------------------------- MODULE TqKeys --------------------------------
(***************************************************************************)
(* The 1-RTT keys of a confirmed tquic connection and their updates, the   *)
(* packet numbers of the application space and the window that recognises  *)
(* duplicates.  An endpoint is a record k; one path.  Of the numbers that  *)
(* are to be acknowledged the largest is kept.                             *)
(***************************************************************************)
EXTENDS TqPacketNumber, Sequences, FiniteSets, FiniteSetsExt

(* Packet protection.  HKDF makes a term of a secret and a label, so that  *)
(* two keys are equal only when they were derived alike.  What the AEAD    *)
(* produces is opaque: the i-th byte of the ciphertext of sealed[id] is    *)
(* the number 1000 * id + i, and only the operators of this section look   *)
(* at such a number.                                                       *)
TagLen == 16

(* hkdf_expand_label, and the secrets at the root of every derivation      *)
Expand(secret, label) == [secret EXCEPT !.labels = Append(@, label)]
InitialSecret(cid) == [root |-> "initial", cid |-> cid, labels |-> <<>>]
ClientInitial(secret) == Expand(secret, "client in")
ServerInitial(secret) == Expand(secret, "server in")
TlsSecret(who) == [root |-> who, cid |-> <<>>, labels |-> <<>>]

(* derive_pkt_key, derive_pkt_iv, derive_hdr_key and the secret of the next  *)
(* generation                                                               *)
PktKey(secret) == Expand(secret, "quic key")
PktIv(secret) == Expand(secret, "quic iv")
HdrKey(secret) == Expand(secret, "quic hp")
NextSecret(secret) == Expand(secret, "quic ku")

(* Seal::new_with_secret and Open::new_with_secret                         *)
KeyOf(secret) ==
  [secret |-> secret, pkt |-> PktKey(secret), iv |-> PktIv(secret), hp |-> HdrKey(secret)]

(* derive_next_packet_key: the header protection key stays.                *)
DeriveNext(key) == [KeyOf(NextSecret(key.secret)) EXCEPT !.hp = key.hp]

(* derive_initial_secrets: what one side opens with, the other seals with. *)
InitialKeys(cid, is_server) ==
  LET client == KeyOf(ClientInitial(InitialSecret(cid)))
      server == KeyOf(ServerInitial(InitialSecret(cid)))
  IN IF is_server THEN [open |-> client, seal |-> server] ELSE [open |-> server, seal |-> client]

(* build_nonce: the iv, with the sequence number of the destination        *)
(* connection ID and the packet number on it                               *)
BuildNonce(iv, cid_seq, counter) == [iv |-> iv, cid_seq |-> cid_seq, counter |-> counter]

(* Seal::seal and Open::open: a ciphertext opens only whole, with the key, *)
(* the nonce and the header it was sealed with.                            *)
Sealed(key, cid_seq, pn, hdr, plain) ==
  [pkt |-> key.pkt, nonce |-> BuildNonce(key.iv, cid_seq, pn), hdr |-> hdr, plain |-> plain]
Cells(id, n) == [i \in 1..n |-> 1000 * id + i]
Open(sealed, cells, key, cid_seq, pn, hdr) ==
  {m \in {sealed[id] : id \in {i \in DOMAIN sealed : cells = Cells(i, Len(sealed[i].plain) + TagLen)}} :
     m.pkt = key.pkt /\ m.nonce = BuildNonce(key.iv, cid_seq, pn) /\ m.hdr = hdr}

(* new_mask: five bytes of the header protection key and a sample          *)
NewMask(key, sample) ==
  [j \in 1..5 |-> (7 * (sample[1] % 1000) + 29 * (sample[1] \div 1000)
                     + 41 * Len(key.hp.labels) + 53 * j) % 256]

-----------------------------------------------------------------------------
CONSTANT WindowSize   \* SEQ_NUM_WINDOW_SIZE

ASSUME KeysAssumption == WindowSize \in Nat \ {0}

None == -1

-----------------------------------------------------------------------------
(* SeqNumWindow: the numbers of [lower, lower + WindowSize) that were seen *)
WindowNew == [lower |-> 0, seen |-> {}]
Upper(w) == w.lower + WindowSize - 1
(* Mutant: what falls below the window is forgotten.                       *)
WindowContainsRecent(w, seq) == seq \in w.seen
WindowContains(w, seq) == seq <= Upper(w) /\ (seq < w.lower \/ seq \in w.seen)
WindowInsert(w, seq) ==
  LET lower == IF seq > Upper(w) THEN w.lower + (seq - Upper(w)) ELSE w.lower IN
  IF seq < w.lower THEN w
  ELSE [lower |-> lower, seen |-> {s \in w.seen : s >= lower} \cup {seq}]

-----------------------------------------------------------------------------
(* TlsSession once the handshake is confirmed, with what the application   *)
(* space keeps about the key phase                                         *)
OneRttKeys(me, peer) == [open |-> KeyOf(TlsSecret(peer)), seal |-> KeyOf(TlsSecret(me))]
KeysNew(me, peer) ==
  [keys |-> OneRttKeys(me, peer), phase |-> FALSE, prev |-> {}, next |-> {},
   first_recv |-> None, first_sent |-> None, discard |-> FALSE,
   next_pkt |-> 0, largest_acked |-> None, largest_rx |-> 0, need_ack |-> None, win |-> WindowNew]

DeriveKeys(k) == [open |-> DeriveNext(k.keys.open), seal |-> DeriveNext(k.keys.seal)]
NextKeys(k) == IF k.next = {} THEN {DeriveKeys(k)} ELSE k.next

(* select_key: hdr.pkt_num is the number as it is in the packet, cut to    *)
(* its low bytes.  The keys chosen (none: the previous ones are gone), and *)
(* whether they are the next ones.                                         *)
SelectKey(k, phase, truncated) ==
  IF phase = k.phase THEN [keys |-> {k.keys}, update |-> FALSE]
  ELSE IF k.first_recv # None /\ truncated > k.first_recv THEN [keys |-> NextKeys(k), update |-> TRUE]
  ELSE [keys |-> k.prev, update |-> FALSE]

(* update_key                                                              *)
UpdateKey(k) ==
  [k EXCEPT !.phase = ~@, !.prev = {k.keys}, !.next = {},
            !.keys = CHOOSE x \in NextKeys(k) : TRUE, !.first_recv = None, !.first_sent = None]

(* try_update_key, which starts the time after which the previous keys go  *)
FirstInPhase(k, phase, truncated) ==
  IF k.first_recv = None /\ k.phase = phase
  THEN [k EXCEPT !.first_recv = truncated, !.discard = @ \/ k.prev # {}]
  ELSE k
TryUpdateKey(k, update, phase, truncated) ==
  FirstInPhase(IF update THEN UpdateKey(k) ELSE k, phase, truncated)

(* key_update_allowed: largest_acked_pkt is u64::MAX until a packet is     *)
(* acknowledged, and then any number is below it.                          *)
KeyUpdateAllowed(k) ==
  k.first_sent # None /\ (k.largest_acked = None \/ k.first_sent <= k.largest_acked)

(* discard_prev_key, by Timer::KeyDiscard                                  *)
DiscardPrevKey(k) == [k EXCEPT !.prev = {}, !.discard = FALSE]

-----------------------------------------------------------------------------
(* send_packet of a 1-RTT packet with an acknowledgment of what arrived.   *)
(* The number is the one it is sealed with; truncated is what is written.  *)
PacketOf(k, from, len) ==
  [from |-> from, pn |-> k.next_pkt, len |-> len, truncated |-> Truncate(k.next_pkt, len),
   phase |-> k.phase, pkt_key |-> k.keys.seal.pkt, hp |-> k.keys.seal.hp, ack |-> k.need_ack]
SentLen(k) == PacketNumLen(k.next_pkt, k.largest_acked)
AfterSend(k) ==
  [k EXCEPT !.next_pkt = @ + 1, !.first_sent = IF @ = None THEN k.next_pkt ELSE @]

(* recv_packet: the packet is read with the current header protection key, *)
(* its number is decoded, a number seen before is dropped, and the payload *)
(* opens with the key and the number it was sealed with.                   *)
Decoded(k, p) == DecodePacketNum(k.largest_rx, p.truncated, p.len)
Opens(k, p, sel) ==
  /\ k.keys.open.hp = p.hp
  /\ ~WindowContains(k.win, Decoded(k, p))
  /\ \E x \in sel.keys : x.open.pkt = p.pkt_key
  /\ Decoded(k, p) = p.pn
Accepted(k, p) == Opens(k, p, SelectKey(k, p.phase, p.truncated))
(* Err(Done) leaves the next keys that select_key derived.                 *)
AfterSelect(k, sel) == IF sel.update THEN [k EXCEPT !.next = sel.keys] ELSE k
AfterOpen(k, p) ==
  [k EXCEPT !.largest_acked = Max({@, p.ack}),
            !.win = WindowInsert(@, p.pn), !.need_ack = Max({@, p.pn}), !.largest_rx = Max({@, p.pn})]
RecvPacket(k, p) ==
  LET got(sel) ==
        IF Opens(k, p, sel)
        THEN AfterOpen(TryUpdateKey(AfterSelect(k, sel), sel.update, p.phase, p.truncated), p)
        ELSE IF k.keys.open.hp # p.hp \/ WindowContains(k.win, Decoded(k, p)) THEN k
        ELSE AfterSelect(k, sel)
  IN got(SelectKey(k, p.phase, p.truncated))
=============================================================================
