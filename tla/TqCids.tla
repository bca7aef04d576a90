------------------------------- MODULE TqCids -------------------------------
(***************************************************************************)
(* The connection-ID manager of a tquic connection (connection/cid.rs).    *)
(* A connection ID is identified by its owner and its sequence number; an  *)
(* item of a queue keeps the number and the path that uses the ID (None    *)
(* when no path does).  A record of ConnectionIdNew holds both queues: the *)
(* scids this endpoint issued and the dcids its peer issued.  An operation *)
(* that can fail returns a record whose field err is None on success.      *)
(***************************************************************************)
EXTENDS Integers, Sequences, SequencesExt, FiniteSets

CONSTANTS None, MaxCidsCount

ASSUME CidsAssumption == MaxCidsCount \in Nat \ {0, 1}

Item(seq, path) == [seq |-> seq, path |-> path]

Seqs(queue) == {queue[i].seq : i \in DOMAIN queue}

GetItem(queue, seq) == queue[CHOOSE i \in DOMAIN queue : queue[i].seq = seq]

\* mark_scid_used and mark_dcid_used: the item of seq now belongs to path.
MarkUsed(queue, seq, path) ==
    [i \in DOMAIN queue |-> IF queue[i].seq = seq THEN Item(seq, path) ELSE queue[i]]

\* insert: a full queue refuses the item.
InsertItem(queue, capacity, item) ==
    IF Len(queue) = capacity
    THEN [err |-> "ConnectionIdLimitError", queue |-> queue]
    ELSE [err |-> None, queue |-> Append(queue, item)]

\* remove: the last connection ID cannot be removed.
RemoveItem(queue, seq) ==
    IF Len(queue) = 0 \/ (Len(queue) = 1 /\ seq \in Seqs(queue))
    THEN [err |-> "InternalError", queue |-> queue]
    ELSE [err |-> None, queue |-> SelectSeq(queue, LAMBDA c : c.seq # seq)]

ConnectionIdNew(dcidLimit, zeroScid, path) ==
    [ scids |-> <<Item(0, path)>>, scidCapacity |-> 3, scidLimit |-> 2,
      dcids |-> <<>>, dcidCapacity |-> 2 * dcidLimit - 1, dcidLimit |-> dcidLimit,
      zeroScid |-> zeroScid, zeroDcid |-> FALSE,
      nextScid |-> 1, retirePriorTo |-> 0, toAdvertise |-> <<>>,
      largestPeerRetire |-> 0, toRetire |-> <<>> ]

SetInitialDcid(m, zero, path) ==
    [m EXCEPT !.zeroDcid = zero, !.dcids = <<Item(0, path)>>]

SetScidLimit(m, limit) ==
    LET capped == IF limit < MaxCidsCount THEN limit ELSE MaxCidsCount
        used   == IF capped < 2 THEN 2 ELSE capped
    IN [m EXCEPT !.scidLimit = used,
                 !.scidCapacity = IF 2 * used - 1 > @ THEN 2 * used - 1 ELSE @]

Lowest(S) == CHOOSE s \in S : \A t \in S : s <= t

LowestUnusedDcid(m) ==
    LET free == {s \in Seqs(m.dcids) : GetItem(m.dcids, s).path = None}
    IN IF free = {} THEN None ELSE Lowest(free)

ActiveScids(m) == {s \in Seqs(m.scids) : s >= m.retirePriorTo}

MarkScidToAdvertise(m, seq, advertise) ==
    [m EXCEPT !.toAdvertise = IF advertise THEN Append(@, seq)
                              ELSE SelectSeq(@, LAMBDA s : s # seq)]

MarkDcidToRetire(m, seq, retire) ==
    [m EXCEPT !.toRetire = IF retire THEN Append(@, seq)
                           ELSE SelectSeq(@, LAMBDA s : s # seq)]

\* add_scid, called with advertise and retire_if_needed set.  At the limit
\* the oldest active ID is asked back, also when the insertion then fails.
AddScid(m) ==
    IF m.zeroScid \/ (Len(m.scids) >= m.scidLimit /\ ActiveScids(m) = {})
    THEN [err |-> "InternalError", m |-> m]
    ELSE LET retired  == IF Len(m.scids) >= m.scidLimit
                         THEN [m EXCEPT !.retirePriorTo = Lowest(ActiveScids(m)) + 1] ELSE m
             inserted == InsertItem(m.scids, m.scidCapacity, Item(m.nextScid, None))
         IN IF inserted.err # None THEN [err |-> inserted.err, m |-> retired]
            ELSE [err |-> None,
                  m |-> MarkScidToAdvertise([retired EXCEPT !.scids = inserted.queue, !.nextScid = @ + 1],
                                            m.nextScid, TRUE)]

\* check_dcids_to_retire.
TooManyToRetire(m) == Len(m.toRetire) > 4 * m.dcidLimit

RemoveLower(m, retirePriorTo) ==
    LET lower == SelectSeq(m.dcids, LAMBDA c : c.seq < retirePriorTo)
    IN [m EXCEPT !.dcids = SelectSeq(@, LAMBDA c : c.seq >= retirePriorTo),
                 !.toRetire = @ \o [i \in DOMAIN lower |-> lower[i].seq],
                 !.largestPeerRetire = retirePriorTo]

\* add_dcid: the pairs (seq, path) of the paths that lost their dcid are out.
AddDcid(m, seq, retirePriorTo) ==
    LET lower  == SelectSeq(m.dcids, LAMBDA c : c.seq < retirePriorTo /\ c.path # None)
        raised == IF retirePriorTo > m.largestPeerRetire THEN RemoveLower(m, retirePriorTo) ELSE m
        placed == InsertItem(raised.dcids, raised.dcidCapacity, Item(seq, None))
        late   == [m EXCEPT !.toRetire = Append(@, seq)]
        Fail(e, n) == [err |-> e, m |-> n, out |-> <<>>]
    IN CASE m.zeroDcid -> Fail("ProtocolViolation", m)
         [] ~m.zeroDcid /\ seq \in Seqs(m.dcids) -> Fail(None, m)
         [] ~m.zeroDcid /\ seq \notin Seqs(m.dcids) /\ retirePriorTo > seq -> Fail("ProtocolViolation", m)
         [] OTHER ->
              IF seq < m.largestPeerRetire /\ seq \notin ToSet(m.toRetire)
              THEN Fail(IF TooManyToRetire(late) THEN "ProtocolViolation" ELSE None, late)
              ELSE IF retirePriorTo > m.largestPeerRetire /\ TooManyToRetire(raised)
              THEN Fail("ProtocolViolation", raised)
              ELSE IF placed.err # None THEN Fail(placed.err, raised)
              ELSE [err |-> None, m |-> [raised EXCEPT !.dcids = placed.queue],
                    out |-> IF retirePriorTo > m.largestPeerRetire THEN lower ELSE <<>>]

\* retire_scid: pktDcid is the ID the packet with the frame was addressed to.
RetireScid(m, seq, pktDcid) ==
    LET removed == RemoveItem(m.scids, seq)
        rest    == [m EXCEPT !.scids = removed.queue]
        Fail(e, n) == [err |-> e, m |-> n, path |-> None]
    IN CASE seq >= m.nextScid -> Fail("ProtocolViolation", m)
         [] seq < m.nextScid /\ removed.err # None -> Fail(removed.err, m)
         [] seq < m.nextScid /\ removed.err = None /\ seq \notin Seqs(m.scids) -> Fail(None, m)
         [] OTHER ->
              IF seq = pktDcid THEN Fail("ProtocolViolation", rest)
              ELSE IF ActiveScids(rest) = {} THEN Fail("InternalError", rest)
              ELSE [err |-> None, m |-> [rest EXCEPT !.retirePriorTo = Lowest(ActiveScids(rest))],
                    path |-> GetItem(m.scids, seq).path]

\* create_new_connection_id_frame: the frame carries today's retire_prior_to.
NewConnectionIdFrame(m, seq) ==
    [type |-> "NewConnectionId", seq |-> seq, retirePriorTo |-> m.retirePriorTo]

NeedSendCidControlFrames(m) == m.toRetire # <<>> \/ m.toAdvertise # <<>>
=============================================================================
