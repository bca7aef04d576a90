------------------------------ MODULE TqH3Apps ------------------------------
(* A client and a server of tquic's HTTP/3 over QUIC streams that deliver  *)
(* in order and whose credit is limited.  An application follows the       *)
(* events: on_stream_readable polls until Done and reads each body until   *)
(* Done.  At any time it sends the parts of its message, trying again when *)
(* the stream is writable, and closes a stream whose two sides are over.   *)
(* The plan says which messages are exchanged and how often streams are    *)
(* cancelled, GOAWAY and PRIORITY_UPDATE sent.                             *)
(*                                                                         *)
(* In the other half of the initial states the peer is another             *)
(* implementation: one stream of frames, of any kind, that an endpoint of  *)
(* tquic reads.                                                            *)
EXTENDS TqH3

CONSTANTS
  Plans,     \* what the applications do
  Scripts,   \* streams of another implementation: [server, type, frames]
  Caps       \* sizes of the buffers given to recv_body

VARIABLES ep, app, left, script

vars == <<ep, app, left, script>>

Ends == {"c", "s"}
Other(e) == IF e = "c" THEN "s" ELSE "c"

Order(x) == SortSeq(SetToSeq(DOMAIN x.in), <)
EmptyApp(todo) ==
  [todo |-> todo, waiting |-> FALSE, blocked |-> FALSE, got |-> <<>>, said |-> <<>>,
   fin |-> 0, reset |-> FALSE, closed |-> FALSE, cut |-> FALSE, blind |-> FALSE, early |-> FALSE]
Idle == [x \in Ends |-> <<>>]

(* All that the endpoints wrote when they were created has been read, but  *)
(* by the one that is fresh.                                               *)
RECURSIVE Drain(_)
Drain(e) == With(Poll(e, Order(e)).e, LAMBDA x : IF x = e THEN e ELSE Drain(x))
Arrived(o) == [NewIn EXCEPT !.buf = o.data, !.got = Len(o.data)]
Met(e, o) == [e EXCEPT !.in = [id \in DOMAIN o.out |-> Arrived(o.out[id])]]
Fresh(plan) ==
  [e \in Ends |-> NewWithQuicConn(e = "s", plan.settings[e])]
Settled(plan) ==
  LET new == Fresh(plan) IN
  [e \in Ends |-> IF e = plan.fresh THEN new[e] ELSE Drain(Met(new[e], new[Other(e)]))]

(* A script: a request stream, or one or two unidirectional ones.          *)
ScriptIds(sc) ==
  IF sc.type = "Request" THEN {0}
  ELSE LET first == IF sc.server THEN 2 ELSE 3 IN IF sc.twice THEN {first, first + 4} ELSE {first}
ScriptData(sc) ==
  (IF sc.type = "Request" THEN <<>>
   ELSE IF sc.type = "Push" THEN <<Unit("Push"), Unit(0)>> ELSE <<Unit(sc.type)>>)
  \o FlattenSeq([n \in DOMAIN sc.frames |-> Encode(sc.frames[n])])
ScriptOut(sc) == [NewOut EXCEPT !.data = ScriptData(sc), !.fin = sc.fin]
Mine(e) == script.on => (e = "s") = script.sc.server

Init ==
  \/ /\ left \in Plans
     /\ script = [on |-> FALSE]
     /\ ep = Settled(left)
     /\ app = Idle
  \/ \E sc \in Scripts :
       LET me == NewWithQuicConn(sc.server, <<>>)
           asks == sc.type = "Request" /\ ~sc.server
       IN /\ script = [on |-> TRUE, sc |-> sc]
          /\ left = [none |-> 0]
          /\ ep = [e \in Ends |->
                IF (e = "s") # sc.server
                THEN [ConnNew(~sc.server, <<>>) EXCEPT !.out = [id \in ScriptIds(sc) |-> ScriptOut(sc)]]
                ELSE IF asks THEN StreamNewRequest(me).e ELSE me]
          /\ app = [Idle EXCEPT !["c"] = IF asks THEN Put(<<>>, 0, EmptyApp(<<>>)) ELSE <<>>]

Set(e, x) == [ep EXCEPT ![e] = x]
SetApp(e, id, a) == [app EXCEPT ![e] = Put(@, id, a)]
Live == \A e \in Ends : ep[e].closed = NoError
Spend(what) == left' = [left EXCEPT ![what] = @ - 1]

-----------------------------------------------------------------------------
(* The network.                                                            *)

Gone(e, id) == id \in ep[e].gone
GotOf(e, id) == IF id \in DOMAIN ep[e].in THEN ep[e].in[id].got ELSE 0

(* The first frame of a stream creates it.                                 *)
WithStream(e, id) ==
  IF id \in DOMAIN ep[e].in THEN ep[e]
  ELSE [ep[e] EXCEPT !.in = Put(@, id, NewIn),
                     !.out = IF IsBidi(id) THEN Put(@, id, NewOut) ELSE @]

(* As many units arrive as the plan says, the units that are left when     *)
(* they are fewer, and the FIN with the last one or after it.              *)
Chunk(d, id) ==
  LET rest == Len(ep[d].out[id].data) - GotOf(Other(d), id)
      cut == IF script.on THEN 1 ELSE left.cut
  IN IF rest < cut THEN rest ELSE cut
CanDeliver(d, id) ==
  LET o == ep[d].out[id] IN
  /\ ~Gone(Other(d), id)
  /\ id \in DOMAIN ep[Other(d)].in => ~ep[Other(d)].in[id].fin /\ ~ep[Other(d)].in[id].reset
  /\ Chunk(d, id) = 0 => o.fin /\ ~o.reset

Deliver(d, id, fin) ==
  LET o == ep[d].out[id]
      r == Other(d)
      x == WithStream(r, id)
      i == x.in[id]
      k == Chunk(d, id)
      end == i.got + k
  IN /\ Live /\ CanDeliver(d, id)
     /\ fin => o.fin /\ ~o.reset /\ end = Len(o.data)
     /\ k = 0 => fin
     /\ ep' = Set(r, [x EXCEPT !.in[id] =
          [i EXCEPT !.buf = IF i.shut THEN @ ELSE @ \o SubSeq(o.data, i.got + 1, end),
                    !.got = end, !.fin = fin,
                    !.mark = fin /\ k = 0 /\ i.buf = <<>> /\ ~i.shut]])
     /\ UNCHANGED <<app, left, script>>

(* RESET_STREAM arrives: what was not read is dropped.                     *)
CanReset(d, id) ==
  /\ ep[d].out[id].reset /\ ~Gone(Other(d), id)
  /\ id \in DOMAIN ep[Other(d)].in => ~IsFin(ep[Other(d)].in[id])
DeliverReset(d, id) ==
  LET x == WithStream(Other(d), id) IN
  /\ Live /\ CanReset(d, id)
  /\ ep' = Set(Other(d), [x EXCEPT !.in[id] =
                            [@ EXCEPT !.reset = TRUE, !.buf = <<>>, !.mark = FALSE]])
  /\ UNCHANGED <<app, left, script>>

(* STOP_SENDING arrives at the sender, which resets the stream.            *)
CanStop(d, id) ==
  LET r == Other(d) IN
  id \in DOMAIN ep[r].in /\ ep[r].in[id].stop /\ ~ep[d].out[id].stopped
DeliverStop(d, id) ==
  /\ Live /\ CanStop(d, id)
  /\ ep' = Set(d, [ep[d] EXCEPT !.out[id].stopped = TRUE, !.out[id].reset = TRUE])
  /\ UNCHANGED <<app, left, script>>

(* MAX_STREAM_DATA, once less than half of the window is left.             *)
CanCredit(d, id) ==
  LET r == Other(d)
      i == ep[r].in[id]
      read == i.got - Len(i.buf)
  IN /\ id \in DOMAIN ep[r].in /\ ~i.fin /\ ~i.reset
     /\ (ep[d].out[id].max - read) * 2 < Win
Credit(d, id) ==
  LET i == ep[Other(d)].in[id] IN
  /\ Live /\ CanCredit(d, id)
  /\ ep' = Set(d, [ep[d] EXCEPT !.out[id].max = i.got - Len(i.buf) + Win])
  /\ UNCHANGED <<app, left, script>>

(* A stream is closed for the transport when its end was read, or a reset  *)
(* arrived, and its own end has been acknowledged.  The                    *)
(* application closes it in on_stream_closed: a reset that arrives last is *)
(* not reported by poll.                                                   *)
CanForget(e, id) ==
  LET o == ep[e].out[id]
      r == Other(e)
  IN /\ IsBidi(id) /\ id \in DOMAIN ep[e].in
     /\ IsFin(ep[e].in[id]) /\ (Readable(ep[e].in[id]) => ep[e].in[id].reset)
     /\ o.fin \/ o.reset
     /\ \/ Gone(r, id)
        \/ id \in DOMAIN ep[r].in /\ (ep[r].in[id].fin \/ ep[r].in[id].reset)
Forget(e, id) ==
  LET x == StreamClose(ep[e], id) IN
  /\ Live /\ CanForget(e, id)
  /\ ep' = Set(e, [x EXCEPT !.in = Drop(@, id), !.out = Drop(@, id), !.gone = @ \cup {id}])
  /\ app' = IF id \notin DOMAIN app[e] THEN app
            ELSE SetApp(e, id, [app[e][id] EXCEPT !.closed = TRUE,
                                                  !.cut = @ \/ ep[e].in[id].reset])
  /\ UNCHANGED <<left, script>>

-----------------------------------------------------------------------------
(* The applications.                                                       *)

Request ==
  LET r == StreamNewRequest(ep["c"]) IN
  /\ ~script.on /\ Live /\ left.requests > 0
  /\ ep' = Set("c", r.e)
  /\ app' = IF r.err = NoError THEN SetApp("c", r.v, EmptyApp(left.req)) ELSE app
  /\ Spend("requests")
  /\ UNCHANGED script

(* h3 has dropped a stream on which the transport still has something to   *)
(* read: the FIN that came alone.                                          *)
Early(x, id) == id \notin DOMAIN x.streams /\ StreamReadable(x, id)

CanSend(e, id) ==
  LET a == app[e][id] IN
  a.todo # <<>> /\ ~a.closed /\ (a.waiting => CheckWritable(ep[e], id))

(* One call of send_headers or send_body for the part that is due.  While  *)
(* a header block waits, send_body is called with the part after it.       *)
SendCall(e, id) ==
  LET a == app[e][id]
      part == Head(a.todo)
      after == IF Len(a.todo) > 1 THEN a.todo[2] ELSE [k |-> "body", tags |-> <<>>, fin |-> part.fin]
  IN IF a.blocked THEN SendBody(ep[e], id, after.tags, after.fin)
     ELSE IF part.k = "headers" THEN SendHeaders(ep[e], id, part.tags, part.fin)
     ELSE SendBody(ep[e], id, part.tags, part.fin)

(* What the application keeps after the call: the part that is left, or    *)
(* the part again once the stream is writable.  After any other error it   *)
(* gives up.                                                               *)
Sent(a, r) ==
  LET part == Head(a.todo)
      rest == SubSeq(part.tags, r.v + 1, Len(part.tags))
      merged == Len(a.todo) > 1 /\ a.todo[2].tags = <<>> /\ a.todo[2].fin
      go(todo, n) == [a EXCEPT !.todo = todo, !.waiting = FALSE, !.blocked = FALSE,
                               !.said = @ \o SubSeq(part.tags, 1, n)]
  IN CASE a.blocked /\ r.err = "NoError" ->
            go(IF merged THEN SubSeq(a.todo, 3, Len(a.todo)) ELSE Tail(a.todo), Len(part.tags))
       [] r.err \in {"StreamBlocked", "Done"} ->
            [a EXCEPT !.waiting = TRUE, !.blocked = r.err = "StreamBlocked"]
       [] r.err = NoError /\ part.k = "headers" -> go(Tail(a.todo), Len(part.tags))
       [] r.err = NoError /\ part.k = "body" ->
            IF rest = <<>> THEN go(Tail(a.todo), r.v)
            ELSE [go(<<[part EXCEPT !.tags = rest]>> \o Tail(a.todo), r.v) EXCEPT !.waiting = TRUE]
       [] OTHER -> [a EXCEPT !.todo = <<>>, !.cut = TRUE]
Send(e, id) ==
  /\ Live /\ CanSend(e, id)
  /\ \E r \in {SendCall(e, id)} :
       /\ ep' = Set(e, r.e)
       /\ app' = SetApp(e, id, [Sent(app[e][id], r) EXCEPT !.early = @ \/ Early(r.e, id),
                                                           !.blind = @ \/ ep[e].peer_settings = <<>>])
  /\ UNCHANGED <<left, script>>

(* recv_body, called until it returns Done                                 *)
RECURSIVE ReadAll(_, _, _, _)
ReadAll(x, id, a, cap) ==
  With(RecvBody(x, id, cap), LAMBDA r :
    IF r.err = NoError THEN ReadAll(r.e, id, [a EXCEPT !.got = @ \o r.v], cap)
    ELSE [e |-> r.e, a |-> [a EXCEPT !.reset = @ \/ r.err = "StreamReset"]])

(* What the application makes of an event: its endpoint and what it holds. *)
AppOf(as, id) == IF id \in DOMAIN as THEN as[id] ELSE EmptyApp(IF script.on THEN <<>> ELSE left.resp)
Handled(x, as, ev, cap) ==
  LET is(f, v) == [e |-> x, as |-> Put(as, ev.id, [AppOf(as, ev.id) EXCEPT ![f] = v])] IN
  CASE ev.ev = "Headers" -> is("got", AppOf(as, ev.id).got \o ev.v.tags)
    [] ev.ev = "Finished" -> is("fin", AppOf(as, ev.id).fin + 1)
    [] ev.ev = "Reset" -> is("reset", TRUE)
    [] ev.ev = "Data" ->
         With(ReadAll(x, ev.id, AppOf(as, ev.id), cap), LAMBDA r :
           [e |-> r.e, as |-> Put(as, ev.id, r.a)])
    [] ev.ev = "PriorityUpdate" -> [e |-> TakePriorityUpdate(x, ev.id).e, as |-> as]
    [] OTHER -> [e |-> x, as |-> as]

RECURSIVE PollAll(_, _, _)
PollAll(x, as, cap) ==
  With(Poll(x, Order(x)), LAMBDA r :
    IF r.err # NoError THEN [e |-> r.e, as |-> as]
    ELSE With(Handled(r.e, as, r.v, cap), LAMBDA h : PollAll(h.e, h.as, cap)))

(* on_stream_readable: poll until Done                                     *)
CanPoll(e) == With(Poll(ep[e], Order(ep[e])), LAMBDA r : r.err # "Done" \/ r.e # ep[e])
OnReadable(e, cap) ==
  /\ Live /\ CanPoll(e)
  /\ \E r \in {PollAll(ep[e], app[e], cap)} :
       /\ ep' = Set(e, r.e)
       /\ app' = [app EXCEPT ![e] = [id \in DOMAIN r.as |-> [r.as[id] EXCEPT !.early = @ \/ Early(r.e, id)]]]
  /\ UNCHANGED <<left, script>>

(* stream_close when the stream is over for the application                *)
CanClose(e, id) ==
  LET a == app[e][id] IN
  ~a.closed /\ (a.reset \/ a.cut \/ (a.fin > 0 /\ a.todo = <<>>))
Close(e, id) ==
  /\ Live /\ CanClose(e, id)
  /\ ep' = Set(e, StreamClose(ep[e], id))
  /\ app' = SetApp(e, id, [app[e][id] EXCEPT !.closed = TRUE, !.early = @ \/ Early(ep'[e], id)])
  /\ UNCHANGED <<left, script>>

(* stream_close before that                                                *)
Cancel(e, id) ==
  /\ Live /\ ~script.on /\ left.cancels > 0 /\ ~app[e][id].closed
  /\ ep' = Set(e, StreamClose(ep[e], id))
  /\ app' = SetApp(e, id, [app[e][id] EXCEPT !.closed = TRUE, !.cut = TRUE, !.todo = <<>>,
                                          !.early = @ \/ Early(ep'[e], id)])
  /\ Spend("cancels")
  /\ UNCHANGED script

GoAway(e, id) ==
  LET r == SendGoAway(ep[e], id) IN
  /\ Live /\ ~script.on /\ left.goaways[e] > 0
  /\ ep' = Set(e, r.e)
  /\ left' = [left EXCEPT !.goaways[e] = @ - 1]
  /\ UNCHANGED <<app, script>>

PriorityUpdate(id) ==
  LET r == SendPriorityUpdate(ep["c"], id, 1) IN
  /\ Live /\ ~script.on /\ left.prios > 0
  /\ ep' = Set("c", r.e)
  /\ Spend("prios")
  /\ UNCHANGED <<app, script>>

-----------------------------------------------------------------------------
(* Nothing is under way: no frame to deliver, no event to poll, nothing    *)
(* that an application would do.                                           *)
Moves(d) == script.on => ~Mine(d)
AtRest ==
  \/ ~Live
  \/ /\ \A e \in Ends :
          /\ Moves(e) => \A id \in DOMAIN ep[e].out :
               /\ ~CanDeliver(e, id) /\ ~CanReset(e, id) /\ ~CanStop(e, id)
               /\ ~CanCredit(e, id) /\ ~CanForget(e, id)
          /\ \A id \in DOMAIN app[e] : ~CanSend(e, id) /\ ~CanClose(e, id)
     /\ \A e \in Ends : Mine(e) => ~CanPoll(e)
Finished == AtRest /\ UNCHANGED vars

Network(d) ==
  /\ Moves(d)
  /\ \E id \in DOMAIN ep[d].out :
       \/ \E fin \in BOOLEAN : Deliver(d, id, fin)
       \/ DeliverReset(d, id) \/ DeliverStop(d, id) \/ Credit(d, id) \/ Forget(d, id)
Application(e) ==
  /\ Mine(e)
  /\ \/ \E cap \in Caps : OnReadable(e, cap)
     \/ \E id \in DOMAIN app[e] : Send(e, id) \/ Close(e, id) \/ Cancel(e, id)
     \/ \E id \in {0, 4} : GoAway(e, id)
Next ==
  \/ \E e \in Ends : Network(e) \/ Application(e)
  \/ Request
  \/ \E id \in {0, 4} : PriorityUpdate(id)
  \/ Finished

Spec == Init /\ [][Next]_vars

-----------------------------------------------------------------------------
(* What an application gets, headers, body and trailers in the order       *)
(* received, is a prefix of what the other one sent, and Finished is       *)
(* raised at most once, when it is all of it (connection.rs:1828           *)
(* process_finished_stream, 633 recv_body).  The last part does not hold   *)
(* when the other one cancelled the stream, since a reset stream counts as *)
(* finished, or has dropped it early: the stream that h3 creates anew for  *)
(* the FIN is reset when the application closes it (connection.rs:320).    *)
Whole(e, id) ==
  id \in DOMAIN app[Other(e)] /\ app[Other(e)][id].todo = <<>> /\ app[e][id].got = app[Other(e)][id].said
MessagesIntact ==
  ~script.on =>
    \A e \in Ends : \A id \in DOMAIN app[e] :
      LET a == app[e][id]
          b == app[Other(e)][id]
      IN /\ id \in DOMAIN app[Other(e)] => IsPrefix(a.got, b.said)
         /\ a.fin <= 1
         /\ a.fin = 1 => Whole(e, id) \/ b.cut \/ b.early

(* Two endpoints of this code never close their connection over what the   *)
(* other one sent (stream.rs:111, 141 the frames in order,                 *)
(* connection.rs:797 and 1186 the IDs of GOAWAY, 1343 the limit on the IDs *)
(* of PRIORITY_UPDATE), with three exceptions.  A reset that is read in    *)
(* the middle of a frame closes the connection (stream.rs:535).  So does   *)
(* the FIN of a request that h3 dropped before it was read: the last write *)
(* or stream_close came first (connection.rs:470, 619, 225).  And so does  *)
(* a header block that is too large for the SETTINGS which had not         *)
(* arrived when it was sent (connection.rs:363, 1122).                     *)
KnownClose(e) ==
  \/ \E id \in DOMAIN ep[e].in : ep[e].in[id].reset
  \/ \E id \in DOMAIN app[e] : app[e][id].early
  \/ ep[e].closed = "ExcessiveLoad" /\ \E id \in DOMAIN app[Other(e)] : app[Other(e)][id].blind
PeersAccept == ~script.on => \A e \in Ends : ep[e].closed # NoError => KnownClose(e)

(* Nothing is left over: when nothing is under way, every application is   *)
(* done with every stream, no HTTP/3 stream outlives its request, and      *)
(* every message arrived whose stream no application cancelled, gave up    *)
(* after an error or saw reset (connection.rs:586 send_body, 519 the       *)
(* header block that waits, 1929 the ended streams).                       *)
Disturbed(id) == \E e \in Ends : id \in DOMAIN app[e] /\ app[e][id].cut
Served ==
  AtRest /\ Live /\ ~script.on =>
    \A e \in Ends :
      /\ \A id \in DOMAIN app[e] :
           app[e][id].closed /\ (Disturbed(id) \/ (app[e][id].fin = 1 /\ Whole(e, id)))
      /\ \A id \in DOMAIN ep[e].streams : ~IsBidi(id)

(* What the rules of HTTP/3 that the code quotes say of a script.          *)
Nums(sc, type) ==
  LET fs == SelectSeq(sc.frames, LAMBDA f : f.type = type) IN [n \in DOMAIN fs |-> fs[n].payload[1].v]
Types(sc) == {sc.frames[n].type : n \in DOMAIN sc.frames}
NonDecreasing(xs) == \A m, n \in DOMAIN xs : m <= n => xs[m] <= xs[n]
KeepsControl(sc) ==
  /\ ~sc.twice /\ ~sc.fin
  /\ sc.frames # <<>> => sc.frames[1].type = "SETTINGS"
  /\ \A n \in 2..Len(sc.frames) :
       sc.frames[n].type \notin {"SETTINGS", "DATA", "HEADERS", "PUSH_PROMISE"}
  /\ NonDecreasing(Reverse(Nums(sc, "GOAWAY"))) /\ NonDecreasing(Nums(sc, "MAX_PUSH_ID"))
  /\ IF sc.server
     THEN \A id \in Range(Nums(sc, "PRIORITY_UPDATE")) : id % 4 = 0 /\ id <= 4 * MaxStreams
     ELSE /\ Types(sc) \cap {"MAX_PUSH_ID", "PRIORITY_UPDATE", "PRIORITY_UPDATE_PUSH"} = {}
          /\ \A id \in Range(Nums(sc, "GOAWAY")) : id % 4 = 0
KeepsRequest(sc) ==
  /\ Types(sc) \subseteq {"HEADERS", "DATA", "Grease"}
  /\ \A n \in DOMAIN sc.frames :
       sc.frames[n].type = "DATA" => \E m \in 1..(n - 1) : sc.frames[m].type = "HEADERS"
Keeps(sc) ==
  CASE sc.type = "Control" -> KeepsControl(sc)
    [] sc.type = "Request" -> KeepsRequest(sc)
    [] sc.type = "Push" -> ~sc.server /\ Types(sc) \subseteq {"HEADERS", "DATA", "Grease"}
    [] sc.type = "Grease" -> TRUE
    [] OTHER -> ~sc.twice /\ ~sc.fin

(* Three rules that the code quotes and does not enforce: no DATA and no   *)
(* HEADERS after the trailing HEADERS (stream.rs:146), no PRIORITY_UPDATE  *)
(* for a push that was not promised (connection.rs:1413) nor for the       *)
(* stream just beyond the limit (connection.rs:1343 compares with >).      *)
AfterTrailers(sc) ==
  \E k, m, n \in DOMAIN sc.frames :
    /\ k < m /\ m < n
    /\ sc.frames[k].type = "HEADERS" /\ sc.frames[m].type = "HEADERS" /\ sc.frames[n].type \in {"HEADERS", "DATA"}
Unenforced(sc) ==
  \/ sc.type = "Request" /\ AfterTrailers(sc)
  \/ /\ sc.type = "Control" /\ sc.server
     /\ "PRIORITY_UPDATE_PUSH" \in Types(sc) \/ 4 * MaxStreams \in Range(Nums(sc, "PRIORITY_UPDATE"))

(* A stream of another implementation closes the connection when it breaks *)
(* a rule other than those of Unenforced, and only when it breaks a rule,  *)
(* wherever its bytes are split (stream.rs:111, 141 and 175, the checks of *)
(* the frames on each kind of stream).  A message that keeps them is read  *)
(* to its end however its DATA frames are cut (h3.rs:80, the data event is *)
(* raised again after Done), unless an empty DATA frame stands before      *)
(* another one: recv_body then returns Done with the event still raised    *)
(* (connection.rs:658, stream.rs:573).  A request that ends with an empty  *)
(* frame may be refused: its FIN comes alone (see PeersAccept).            *)
EndsEmpty(sc) == sc.type = "Request" /\ sc.frames # <<>> /\ Last(sc.frames).payload = <<>>
LosesEvent(sc) ==
  \E m, n \in DOMAIN sc.frames :
    m < n /\ sc.frames[m].type = "DATA" /\ sc.frames[m].payload = <<>> /\ sc.frames[n].type = "DATA"
MessageOf(sc) ==
  FlattenSeq([n \in DOMAIN sc.frames |->
    IF sc.frames[n].type \in {"HEADERS", "DATA"} THEN sc.frames[n].payload ELSE <<>>])
ReadWhole(sc) ==
  sc.type = "Request" /\ sc.frames # <<>> =>
    \E e \in Ends : 0 \in DOMAIN app[e] /\ app[e][0].got = MessageOf(sc)
RulesKept ==
  LET sc == script.sc IN
  script.on /\ AtRest =>
    /\ ~Keeps(sc) => ~Live
    /\ Keeps(sc) /\ ~Unenforced(sc) /\ ~EndsEmpty(sc) => Live
    /\ Live /\ ~LosesEvent(sc) => ReadWhole(sc)

(* What an application reads is what the other wrote, by the rules of the  *)
(* streams' types.                                                         *)
MessagesKept == MessagesIntact /\ RulesKept

(* Two of these endpoints accept each other, and requests are answered.    *)
PeersServed == PeersAccept /\ Served

-----------------------------------------------------------------------------
(* Instances of TqH3Apps for TLC.                                          *)
Tags(xs) == [n \in DOMAIN xs |-> Unit(xs[n])]
H(xs, fin) == [k |-> "headers", tags |-> Tags(xs), fin |-> fin]
B(xs, fin) == [k |-> "body", tags |-> Tags(xs), fin |-> fin]

NoSettings == [e \in Ends |-> <<>>]
SomeSettings == [e \in Ends |-> [max_field_section_size |-> 2, qpack_blocked_streams |-> 0]]
NoGoAways == [e \in Ends |-> 0]
Plan == [cut |-> 1, fresh |-> "none", settings |-> NoSettings, requests |-> 1, cancels |-> 0, goaways |-> NoGoAways,
         prios |-> 0, req |-> <<H(<<"h">>, TRUE)>>, resp |-> <<H(<<"r">>, TRUE)>>]

Long == <<H(<<"h1", "h2", "h3">>, TRUE)>>
Get == <<H(<<"h">>, TRUE)>>
Post == <<H(<<"h">>, FALSE), B(<<"b1", "b2">>, TRUE)>>
Answer == <<H(<<"r1", "r2">>, FALSE), B(<<"c1", "c2", "c3">>, TRUE)>>
Trailers == <<H(<<"r">>, FALSE), B(<<"c1", "c2">>, FALSE), H(<<"t">>, FALSE), B(<<>>, TRUE)>>

ModelPlans ==
  {[Plan EXCEPT !.fresh = "s", !.cut = 8, !.settings = SomeSettings],
   [Plan EXCEPT !.fresh = "c", !.cut = 8, !.settings = SomeSettings],
   [Plan EXCEPT !.fresh = "c", !.cut = 8, !.settings = SomeSettings, !.req = Long],
   [Plan EXCEPT !.req = Post, !.resp = Get],
   [Plan EXCEPT !.resp = Answer],
   [Plan EXCEPT !.resp = Trailers],
   [Plan EXCEPT !.req = Post, !.resp = Get, !.cancels = 1, !.cut = 3],
   [Plan EXCEPT !.requests = 2, !.cut = 6],
   [Plan EXCEPT !.cut = 6, !.goaways = [c |-> 1, s |-> 2]],
   [Plan EXCEPT !.prios = 2]}

F(type, payload) == [type |-> type, payload |-> payload]
Frames ==
  {F("SETTINGS", <<>>), F("GOAWAY", <<Unit(4)>>), F("GOAWAY", <<Unit(0)>>), F("GOAWAY", <<Unit(2)>>),
   F("MAX_PUSH_ID", <<Unit(1)>>), F("MAX_PUSH_ID", <<Unit(0)>>), F("CANCEL_PUSH", <<Unit(0)>>),
   F("PRIORITY_UPDATE", <<Unit(4), Unit(1)>>), F("PRIORITY_UPDATE", <<Unit(8), Unit(1)>>),
   F("PRIORITY_UPDATE", <<Unit(12), Unit(1)>>),
   F("PRIORITY_UPDATE_PUSH", <<Unit(0), Unit(1)>>), F("PUSH_PROMISE", <<Unit(0), Unit("p")>>),
   F("HEADERS", <<Unit("h")>>), F("DATA", <<Unit("d")>>), F("Grease", <<Unit("x")>>)}
Bodies == {F("HEADERS", <<Unit("h")>>), F("DATA", <<Unit("d1"), Unit("d2")>>), F("DATA", <<Unit("d")>>),
           F("DATA", <<>>), F("Grease", <<>>)}
Script(server, type, frames, fin, twice) ==
  [server |-> server, type |-> type, frames |-> frames, fin |-> fin, twice |-> twice]
Few(S, n) == UNION {[1..k -> S] : k \in 0..n}

ControlScripts ==
  {Script(server, "Control", <<F("SETTINGS", <<>>)>> \o fs, FALSE, FALSE) :
     server \in BOOLEAN, fs \in Few(Frames, 2)}
  \cup {Script(server, "Control", fs, fin, twice) :
          server \in BOOLEAN, fs \in Few(Frames, 1), fin \in BOOLEAN, twice \in BOOLEAN}
RequestScripts ==
  {Script(server, "Request", fs, TRUE, FALSE) : server \in BOOLEAN, fs \in Few(Frames, 2) \cup Few(Bodies, 3)}
OtherScripts ==
  {Script(server, type, <<>>, fin, twice) :
     server \in BOOLEAN, type \in {"QpackEncoder", "QpackDecoder", "Grease"}, fin \in {FALSE}, twice \in BOOLEAN}
  \cup {Script(server, "Push", fs, TRUE, FALSE) : server \in BOOLEAN, fs \in Few(Frames, 1)}
ModelScripts == ControlScripts \cup RequestScripts \cup OtherScripts
=============================================================================
