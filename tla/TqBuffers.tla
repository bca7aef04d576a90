------------------------------ MODULE TqBuffers ------------------------------
(***************************************************************************)
(* The buffers of one tquic stream: FlowControl, the receive side RecvBuf  *)
(* and the send side SendBuf, as operators on records.  The byte at offset *)
(* n of a stream is n itself, so a buffer is described by the offsets it   *)
(* holds.  An operation that returns a Result returns a record with the    *)
(* field err, NoError for Ok; None is -1.                                  *)
(***************************************************************************)
EXTENDS TqRanges, Sequences

CONSTANT SendBufferSize     \* SEND_BUFFER_SIZE, 4096 in the code

ASSUME BufferAssumption == SendBufferSize \in Nat \ {0}

None == -1
NoError == "ok"

-----------------------------------------------------------------------------
(* FlowControl.  upd says whether last_updated is set.                     *)
FcNew(window, max_window) ==
  [read |-> 0, recv |-> 0, max |-> window, win |-> window,
   maxwin |-> max_window, upd |-> FALSE]

FcReceived(fc, delta) == [fc EXCEPT !.recv = @ + delta]
FcConsumed(fc, delta) == [fc EXCEPT !.read = @ + delta]

(* should_send_max_data: less than half of the window is left.  The        *)
(* subtraction is in u64: below zero it wraps to a value above any window. *)
FcShouldSend(fc) == fc.read <= fc.max /\ (fc.max - fc.read) * 2 < fc.win

(* max_data_next and update_max_data                                       *)
FcNext(fc) == fc.read + fc.win
(* Mutant: the new limit is announced but not applied.                     *)
FcUpdateForgotten(fc) == [fc EXCEPT !.upd = TRUE]
FcUpdate(fc) == [fc EXCEPT !.max = FcNext(fc), !.upd = TRUE]

(* autotune_window, where soon says that the last update is less than two  *)
(* round trips old, and ensure_window_lower_bound                          *)
FcAutotune(fc, soon) ==
  [fc EXCEPT !.win = IF fc.upd /\ soon THEN Min({@ * 2, fc.maxwin}) ELSE @]
FcAtLeast(fc, window) == [fc EXCEPT !.win = Max({@, window})]

-----------------------------------------------------------------------------
(* RecvBuf.  data holds the offsets buffered and not yet read; mark says   *)
(* that an empty buffer with the FIN flag is stored at the final offset.   *)
RecvNew(max_data, max_window) ==
  [data |-> {}, mark |-> FALSE, read |-> 0, recv |-> 0, fin |-> None, error |-> None,
   shutdown |-> FALSE, fc |-> FcNew(max_data, max_window)]

RecvIsFin(rb) == rb.fin = rb.read

(* ready: the first buffer starts at the read offset.                      *)
RecvReady(rb) ==
  IF rb.data # {} THEN Min(rb.data) = rb.read ELSE rb.mark /\ rb.fin = rb.read

(* The checks that write makes of a frame [off, off + len), its 1 and 2.   *)
RecvRefuses(rb, off, len, fin) ==
  LET max_off == off + len IN
  CASE max_off > rb.fc.max -> "FlowControlError"
    [] rb.fin # None /\ (max_off > rb.fin \/ (fin /\ max_off # rb.fin)) -> "FinalSizeError"
    [] fin /\ max_off < rb.recv -> "FinalSizeError"
    [] OTHER -> NoError

(* Its 4: what is neither read nor stored is stored, in pieces that do not *)
(* overlap.  An empty FIN buffer is stored unless a buffer ends there, and *)
(* gives way to one that does.                                             *)
RecvStore(rb, off, len) ==
  LET fresh == {n \in off..(off + len - 1) : n >= rb.read} \ rb.data
      marks == len = 0 /\ off - 1 \notin rb.data
  IN [rb EXCEPT !.recv = Max({@, off + len}),
                !.data = IF rb.shutdown THEN @ ELSE @ \cup fresh,
                !.mark = /\ ~rb.shutdown
                         /\ (@ \/ marks)
                         /\ rb.fin - 1 \notin rb.data \cup fresh]

(* write(off, data, fin)                                                   *)
RecvWrite(rb, off, len, fin) ==
  LET err == RecvRefuses(rb, off, len, fin)
      sized == IF fin THEN [rb EXCEPT !.fin = off + len] ELSE rb
      useless == \/ ~fin /\ len = 0
                 \/ len > 0 /\ rb.read >= off + len
  IN [err |-> err,
      rb |-> IF err # NoError \/ RecvIsFin(rb) THEN rb
             ELSE IF useless THEN sized ELSE RecvStore(sized, off, len)]

(* read: at most cap of the bytes that are contiguous at the read offset,  *)
(* and whether that was the end.  A reset is reported once.                *)
RecvRead(rb, cap) ==
  LET run == {n \in rb.data : n < rb.read + cap /\ (rb.read..n) \subseteq rb.data}
      len == Cardinality(run)
      done == [rb EXCEPT !.data = @ \ run, !.read = @ + len,
                         !.mark = @ /\ ~(rb.data = run /\ rb.fin = rb.read + len /\ len < cap),
                         !.fc = FcConsumed(@, len)]
  IN CASE ~RecvReady(rb) -> [err |-> "Done", rb |-> rb, len |-> 0, fin |-> FALSE]
       [] RecvReady(rb) /\ rb.error # None ->
            [err |-> "StreamReset", rb |-> [rb EXCEPT !.data = {}, !.mark = FALSE],
             len |-> 0, fin |-> FALSE]
       [] OTHER -> [err |-> NoError, rb |-> done, len |-> len, fin |-> RecvIsFin(done)]

(* reset(error, final_size), with the delta it returns                     *)
RecvReset(rb, error, final) ==
  LET bad == (rb.fin # None /\ rb.fin # final) \/ final < rb.recv
      cleared == [rb EXCEPT !.error = error, !.data = {}, !.mark = FALSE]
      ended == RecvWrite(cleared, final, 0, TRUE)
      delta == final - rb.recv
  IN CASE bad -> [err |-> "FinalSizeError", rb |-> rb, delta |-> 0]
       [] ~bad /\ rb.error # None -> [err |-> NoError, rb |-> rb, delta |-> delta]
       [] OTHER -> [err |-> ended.err, delta |-> delta,
                    rb |-> IF ended.err = NoError THEN [ended.rb EXCEPT !.read = final]
                           ELSE ended.rb]

(* shutdown, with the number of bytes that stay unread                     *)
RecvShutdown(rb) ==
  [err |-> IF rb.shutdown THEN "Done" ELSE NoError, unread |-> rb.recv - rb.read,
   rb |-> IF rb.shutdown THEN rb
          ELSE [rb EXCEPT !.shutdown = TRUE, !.data = {}, !.mark = FALSE, !.read = rb.recv]]

(* should_send_max_data                                                    *)
RecvShouldSend(rb) == rb.fin = None /\ FcShouldSend(rb.fc)

-----------------------------------------------------------------------------
(* SendBuf.  data is the queue of buffers <<off, max_off>>, pos the index  *)
(* in it, from 0, of the buffer to be sent next.  spin says that read's    *)
(* copying loop met an offset that no buffer from pos on holds.            *)
SendNew(max_data) ==
  [data |-> <<>>, pos |-> 0, write |-> 0, unsent |-> 0, unacked |-> 0, max |-> max_data,
   blocked |-> None, fin |-> None, shutdown |-> FALSE, acked |-> {}, retx |-> {},
   error |-> None, spin |-> FALSE]

(* send_off, ready, is_fin, is_complete, ack_off                           *)
SendOff(sb) == IF sb.retx # {} THEN RsMin(sb.retx) ELSE sb.unsent
SendReady(sb) == sb.data # <<>> /\ SendOff(sb) < sb.write
SendIsFin(sb) == sb.fin = sb.write
SendIsComplete(sb) == sb.fin # None /\ (sb.fin = 0 \/ RsIs(sb.acked, <<0, sb.fin>>))
AckOff(sb) == IF sb.acked # {} /\ RsMin(sb.acked) = 0 THEN End(RsFirst(sb.acked)) ELSE 0

(* The buffers that len bytes at the write offset are split into.          *)
SendChunks(sb, len) ==
  [i \in 1..((len + SendBufferSize - 1) \div SendBufferSize) |->
     <<sb.write + (i - 1) * SendBufferSize, sb.write + Min({i * SendBufferSize, len})>>]

(* write(data, fin) of want bytes, with the number written                 *)
SendWrite(sb, want, fin) ==
  LET max_off == sb.write + want
      cap == sb.max - sb.write
      len == Min({want, cap})
      ends == fin /\ want <= cap
      err == CASE sb.error # None -> "StreamStopped"
               [] /\ sb.error = None /\ sb.fin # None
                  /\ (max_off > sb.fin \/ (max_off = sb.fin /\ ~ends)) -> "FinalSizeError"
               [] OTHER -> NoError
  IN [err |-> err, len |-> IF err = NoError THEN len ELSE 0,
      sb |-> IF err # NoError THEN sb
             ELSE [sb EXCEPT !.fin = IF ends THEN max_off ELSE @,
                             !.data = @ \o SendChunks(sb, len),
                             !.write = @ + len, !.unacked = @ + len]]

(* poll_transmit(max_len): the lowest lost range, else new data.           *)
PollTransmit(sb, max_len) ==
  LET lost == RsFirst(sb.retx)
      cut == Min({End(lost), Start(lost) + max_len})
      new == Min({sb.write, sb.unsent + max_len})
  IN IF sb.retx # {}
     THEN [range |-> <<Start(lost), cut>>,
           sb |-> [sb EXCEPT !.retx = RsInsert(@ \ {lost}, <<cut, End(lost)>>)]]
     ELSE [range |-> <<sb.unsent, new>>, sb |-> [sb EXCEPT !.unsent = new]]

(* The read_range calls that copy one range: the scan starts at pos and    *)
(* leaves pos at the buffer of the last byte, or past it at its end.       *)
ReadRange(sb, range) ==
  LET holds(i, n) == n >= Start(sb.data[i]) /\ n < End(sb.data[i])
      from == {i \in (sb.pos + 1)..Len(sb.data) : holds(i, Start(range))}
      to == {i \in (sb.pos + 1)..Len(sb.data) : holds(i, End(range) - 1)}
      j == Min(to)
  IN IF Start(range) = End(range) THEN sb
     ELSE IF from = {} \/ to = {} THEN [sb EXCEPT !.spin = TRUE]
     ELSE [sb EXCEPT !.pos = IF End(range) = End(sb.data[j]) THEN j ELSE j - 1]

(* One round of read's loop, where off is the next offset of the frame.    *)
ReadMore(r, left) ==
  /\ left > 0 /\ SendReady(r.sb)
  /\ SendOff(r.sb) = r.off /\ SendOff(r.sb) < r.sb.max
ReadPolled(r, poll) ==
  [r EXCEPT !.sb = ReadRange(poll.sb, poll.range), !.off = End(poll.range)]
SendReadRound(r, left) ==
  IF ReadMore(r, left) THEN ReadPolled(r, PollTransmit(r.sb, left)) ELSE r

(* read(out) with cap bytes of room: lost ranges are never adjacent, so    *)
(* the loop runs at most twice, once for lost and once for new data.       *)
SendRead(sb, cap) ==
  LET start == [sb |-> sb, start |-> SendOff(sb), off |-> SendOff(sb)]
      again(r) == SendReadRound(r, cap - (r.off - r.start))
      result(r) == [sb |-> r.sb, off |-> r.start, len |-> r.off - r.start, fin |-> sb.fin = r.off]
  IN result(again(SendReadRound(start, cap)))

(* ack_and_drop(off, len): the buffers below the highest offset acked      *)
(* without a hole are dropped, or cut where it falls inside one.           *)
DropBelow(sb, ack) ==
  LET dropped == Cardinality({i \in DOMAIN sb.data : End(sb.data[i]) <= ack})
      cut(b) == <<Max({Start(b), ack}), End(b)>>
  IN [sb EXCEPT !.data = [i \in 1..(Len(@) - dropped) |-> cut(@[i + dropped])],
                !.unacked = sb.write - ack, !.pos = Max({0, @ - dropped})]
AckAndDrop(sb, off, len) ==
  LET drop(next, ack) == IF off > ack THEN next ELSE DropBelow(next, ack)
      acked(next) == drop(next, AckOff(next))
  IN IF sb.data = <<>> THEN [sb EXCEPT !.retx = {}]
     ELSE acked([sb EXCEPT !.acked = RsInsert(@, <<off, off + len>>),
                           !.retx = RsRemove(@, <<off, off + len>>)])

(* retransmit(off, len): what is not acked is queued again; the send       *)
(* position goes back to the start when the lowest offset to send falls.   *)
Retransmit(sb, off, len) ==
  LET lost == (off..(off + len - 1)) \ RsElems(sb.acked)
      next == [sb EXCEPT !.retx = RsOf(RsElems(@) \cup lost)]
  IN IF sb.data = <<>> \/ off + len <= AckOff(sb) THEN sb
     ELSE [next EXCEPT !.pos = IF SendOff(next) < SendOff(sb) THEN 0 ELSE @]

(* reset: the stream ends at what was sent, which counts as acked.         *)
SendReset(sb) ==
  [sb EXCEPT !.fin = sb.unsent, !.data = <<>>, !.pos = 0, !.write = sb.unsent,
             !.acked = RsInsert(@, <<0, sb.unsent>>)]

(* stop(error) on STOP_SENDING and shutdown by the application, with the   *)
(* final size and the number of bytes that stay unsent                     *)
SendStop(sb, error) ==
  [err |-> IF sb.error # None THEN "Done" ELSE NoError,
   final |-> sb.unsent, unsent |-> sb.write - sb.unsent,
   sb |-> IF sb.error # None THEN sb ELSE [SendReset(sb) EXCEPT !.error = error]]
SendShutdown(sb) ==
  [err |-> IF sb.shutdown THEN "Done" ELSE NoError,
   final |-> sb.unsent, unsent |-> sb.write - sb.unsent,
   sb |-> IF sb.shutdown THEN sb ELSE [SendReset(sb) EXCEPT !.shutdown = TRUE]]

(* update_max_data                                                         *)
SendUpdateMax(sb, max_data) == [sb EXCEPT !.max = Max({@, max_data})]
=============================================================================
