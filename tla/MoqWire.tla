------------------------------- MODULE MoqWire -------------------------------
(***************************************************************************)
(* The encoding of MoQ control messages and object streams (moqt/wire),    *)
(* from one end of a stream to the other.                                  *)
(*                                                                         *)
(* A stream is a sequence of tokens: a variable-length integer or a byte   *)
(* is one natural number, as quicvarint writes and reads it; a string or a *)
(* payload is one token for each of its bytes behind its length.           *)
(***************************************************************************)
EXTENDS Naturals, Sequences, SequencesExt, FiniteSets, TLC

CONSTANTS
  Messages,     \* the control messages that may be written
  Objects,      \* the objects that may be written
  Header,       \* [id, alias, group, order] of an object stream
  MaxItems      \* bound: messages or objects written

SUBSCRIBE == 3
SUBSCRIBE_OK == 4
ANNOUNCE == 6
ANNOUNCE_OK == 7
UNSUBSCRIBE == 10
SUBSCRIBE_DONE == 11
CLIENT_SETUP == 64
SERVER_SETUP == 65
STREAM_HEADER_TRACK == 80
STREAM_HEADER_GROUP == 81
AbsoluteStart == 3
AbsoluteRange == 4
ROLE_PARAM == 0
ROLE_PATH == 1
KnownParams == {ROLE_PARAM, ROLE_PATH}

ASSUME WireAssumption == MaxItems \in Nat

VARIABLES
  kind,         \* of the stream: "control", "group" or "track"
  written,      \* the items written
  wire,         \* tokens written and not yet read
  end,          \* "open", "fin" or "reset": how the stream ended
  header,       \* what ParseMOQTStream returned, or NoHeader
  got,          \* the items handled
  served,       \* whether the reader still loops
  isEOF,        \* IsEOF of an object stream
  astray        \* history: the places in written of the messages that have a
                \* parameter behind an unknown one

wireVars == <<kind, written, wire, end, header, got, served, isEOF, astray>>

-----------------------------------------------------------------------------
(* Writing.  Parameters are a Go map, so their order is any: ps is the     *)
(* sequence of their types.                                                *)

String(s) == <<Len(s)>> \o s

Param(type, value) ==
  IF type = ROLE_PARAM THEN <<type, 1, value>> ELSE <<type>> \o String(value)

Params(params, ps) ==
  <<Len(ps)>> \o FlattenSeq([i \in DOMAIN ps |-> Param(ps[i], params[ps[i]])])

SubscribeBytes(m, ps) ==
  <<SUBSCRIBE, m.id, m.alias>> \o String(m.ns) \o String(m.name) \o <<m.filter>>
    \o (IF m.filter \in {AbsoluteStart, AbsoluteRange}
        THEN <<m.startGroup, m.startObject>> ELSE <<>>)
    \o (IF m.filter = AbsoluteRange THEN <<m.endGroup, m.endObject>> ELSE <<>>)
    \o Params(m.params, ps)

SubscribeOkBytes(m) ==
  <<SUBSCRIBE_OK, m.id, m.expires, m.content>>
    \o (IF m.content = 1 THEN <<m.object, m.group>> ELSE <<>>)

(* Without its type: no session of this code writes a SUBSCRIBE_DONE.      *)
SubscribeDoneBytes(m) ==
  <<m.id, m.status>> \o String(m.reason) \o <<m.content>>
    \o (IF m.content = 1 THEN <<m.finalGroup, m.finalObject>> ELSE <<>>)

GetBytes(m, ps) ==
  CASE m.type = SUBSCRIBE -> SubscribeBytes(m, ps)
    [] m.type = SUBSCRIBE_OK -> SubscribeOkBytes(m)
    [] m.type = SUBSCRIBE_DONE -> SubscribeDoneBytes(m)
    [] m.type = ANNOUNCE -> <<ANNOUNCE>> \o String(m.ns) \o Params(m.params, ps)
    [] m.type = ANNOUNCE_OK -> <<ANNOUNCE_OK>> \o String(m.ns)
    [] m.type = UNSUBSCRIBE -> <<UNSUBSCRIBE, m.id>>
    [] m.type = CLIENT_SETUP ->
         <<CLIENT_SETUP, Len(m.versions)>> \o m.versions \o Params(m.params, ps)
    [] m.type = SERVER_SETUP -> <<SERVER_SETUP, m.version>> \o Params(m.params, ps)

HeaderBytes ==
  IF kind = "group"
  THEN <<STREAM_HEADER_GROUP, Header.id, Header.alias, Header.group, Header.order>>
  ELSE <<STREAM_HEADER_TRACK, Header.id, Header.alias, Header.order>>

(* A track stream writes an object's group before it (Pipe).               *)
ObjectBytes(o) ==
  (IF kind = "track" THEN <<o.group>> ELSE <<>>) \o <<o.id>> \o String(o.payload)

-----------------------------------------------------------------------------
(* Reading.  A reader r has the tokens left, the message so far, whether   *)
(* the tokens ran out, and the error that ends its Parse: "none", "short"  *)
(* or "bad".                                                               *)

Reader(in, msg) == [in |-> in, msg |-> msg, torn |-> FALSE, err |-> "none"]
Short(r) == [r EXCEPT !.in = <<>>, !.torn = TRUE, !.err = "short"]

(* The reader after Op, which does nothing once there is an error.         *)
Then(r0, Op(_)) ==
  CHOOSE y \in {IF r.err = "none" THEN Op(r) ELSE r : r \in {r0}} : TRUE

ReadInt(r0, f) ==
  Then(r0, LAMBDA r : IF r.in = <<>> THEN [Short(r) EXCEPT !.msg[f] = 0]
                      ELSE [r EXCEPT !.in = Tail(@), !.msg[f] = Head(r.in)])

ReadInts(r, fs) == FoldLeft(ReadInt, r, fs)

(* ParseVarIntString: nothing is kept of a string cut short.               *)
ReadString(r0, f) ==
  Then(r0, LAMBDA r :
    IF r.in = <<>> \/ Len(r.in) <= Head(r.in) THEN Short(r)
    ELSE [r EXCEPT !.in = SubSeq(@, Head(r.in) + 2, Len(@)),
                   !.msg[f] = SubSeq(r.in, 2, Head(r.in) + 1)])

(* One parameter.  An unknown one is read and is an error all the same.    *)
ParseParam(r0) ==
  LET Value(r) == IF r.msg.ptype = ROLE_PARAM THEN ReadInts(r, <<"length", "value">>)
                                              ELSE ReadString(r, "value")
      Put(r) == IF r.msg.ptype \in KnownParams
                THEN [r EXCEPT !.msg.params = [t \in {r.msg.ptype} |-> r.msg.value] @@ @]
                ELSE [r EXCEPT !.err = "bad"]
  IN Then(Then(ReadInt(r0, "ptype"), Value), Put)

ParseParams(in) ==
  LET NoParam == [length |-> 0, ptype |-> 0, value |-> 0, params |-> <<>>]
  IN Then(ReadInt(Reader(in, NoParam), "length"), LAMBDA r :
       FoldLeft(LAMBDA q, i : ParseParam(q), r, [i \in 1 .. r.msg.length |-> i]))

(* SUBSCRIBE and ANNOUNCE drop the parameters when their Parse fails; the  *)
(* setup messages keep those read before the error.                        *)
ReadParams(r0, keep) ==
  LET Store(r) == CHOOSE y \in {[p EXCEPT !.msg =
                                  IF p.err = "none" \/ keep
                                  THEN [r.msg EXCEPT !.params = p.msg.params]
                                  ELSE r.msg] : p \in {ParseParams(r.in)}} : TRUE
  IN Then(r0, Store)

(* Mutant: the end of an AbsoluteRange is not read.                        *)
ParseSubscribeNoEnd(r0) ==
  LET Filter(r) == IF r.msg.filter \in {AbsoluteStart, AbsoluteRange}
                   THEN ReadInts(r, <<"startGroup", "startObject">>) ELSE r
      names == ReadString(ReadString(ReadInts(r0, <<"id", "alias">>), "ns"), "name")
  IN ReadParams(Then(ReadInt(names, "filter"), Filter), FALSE)

ParseSubscribe(r0) ==
  LET Filter(r) ==
        CASE r.msg.filter = AbsoluteStart -> ReadInts(r, <<"startGroup", "startObject">>)
          [] r.msg.filter = AbsoluteRange ->
               ReadInts(r, <<"startGroup", "startObject", "endGroup", "endObject">>)
          [] OTHER -> r
      names == ReadString(ReadString(ReadInts(r0, <<"id", "alias">>), "ns"), "name")
  IN ReadParams(Then(ReadInt(names, "filter"), Filter), FALSE)

ParseSubscribeOk(r0) ==
  Then(ReadInts(r0, <<"id", "expires", "content">>), LAMBDA r :
       IF r.msg.content = 1 THEN ReadInts(r, <<"object", "object">>) ELSE r)

ParseSubscribeDone(r0) ==
  Then(ReadInt(ReadString(ReadInts(r0, <<"id", "status">>), "reason"), "content"),
       LAMBDA r : IF r.msg.content = 1
                  THEN ReadInts(r, <<"finalGroup", "finalObject">>) ELSE r)

(* The versions that arrive are kept even when others are missing.         *)
ReadVersions(r0) ==
  Then(r0, LAMBDA r :
    IF r.in = <<>> THEN Short(r)
    ELSE IF Len(r.in) <= Head(r.in) THEN [Short(r) EXCEPT !.msg.versions = Tail(r.in)]
    ELSE [r EXCEPT !.in = SubSeq(@, Head(r.in) + 2, Len(@)),
                   !.msg.versions = SubSeq(r.in, 2, Head(r.in) + 1)])

ParseClientSetup(r0) == ReadParams(ReadVersions(r0), TRUE)

ParseServerSetup(r0) == ReadParams(ReadInt(r0, "version"), TRUE)

(* A message as Go allocates it, before its Parse.                         *)
Zero(t) ==
  CASE t = SUBSCRIBE ->
         [type |-> t, id |-> 0, alias |-> 0, ns |-> <<>>, name |-> <<>>, filter |-> 0,
          startGroup |-> 0, startObject |-> 0, endGroup |-> 0, endObject |-> 0,
          params |-> <<>>]
    [] t = SUBSCRIBE_OK ->
         [type |-> t, id |-> 0, expires |-> 0, content |-> 0, group |-> 0, object |-> 0]
    [] t = SUBSCRIBE_DONE ->
         [type |-> t, id |-> 0, status |-> 0, reason |-> <<>>, content |-> 0,
          finalGroup |-> 0, finalObject |-> 0]
    [] t = ANNOUNCE -> [type |-> t, ns |-> <<>>, params |-> <<>>]
    [] t = ANNOUNCE_OK -> [type |-> t, ns |-> <<>>]
    [] t = UNSUBSCRIBE -> [type |-> t, id |-> 0]
    [] t = CLIENT_SETUP -> [type |-> t, versions |-> <<>>, params |-> <<>>]
    [] t = SERVER_SETUP -> [type |-> t, version |-> 0, params |-> <<>>]

MessageTypes == {SUBSCRIBE, SUBSCRIBE_OK, SUBSCRIBE_DONE, ANNOUNCE, ANNOUNCE_OK,
                 UNSUBSCRIBE, CLIENT_SETUP, SERVER_SETUP}

(* The error of msg.Parse is dropped: only a missing or an unknown type is *)
(* an error of ParseMOQTMessage.                                           *)
ParseMOQTMessage(in) ==
  LET Body(t, r0) ==
        CASE t = SUBSCRIBE -> ParseSubscribe(r0)
          [] t = SUBSCRIBE_OK -> ParseSubscribeOk(r0)
          [] t = SUBSCRIBE_DONE -> ParseSubscribeDone(r0)
          [] t = ANNOUNCE -> ReadParams(ReadString(r0, "ns"), FALSE)
          [] t = ANNOUNCE_OK -> ReadString(r0, "ns")
          [] t = UNSUBSCRIBE -> ReadInt(r0, "id")
          [] t = CLIENT_SETUP -> ParseClientSetup(r0)
          [] t = SERVER_SETUP -> ParseServerSetup(r0)
  IN Then(ReadInt(Reader(in, [type |-> 0]), "type"), LAMBDA r :
       IF r.msg.type \notin MessageTypes THEN [r EXCEPT !.err = "bad"]
       ELSE [Body(r.msg.type, Reader(r.in, Zero(r.msg.type))) EXCEPT !.err = "none"])

(* Mutant: the payload is read with one byte too many.                     *)
ParseObjectOneMore(in) ==
  LET fields == IF kind = "track" THEN <<"group", "id", "length">> ELSE <<"id", "length">>
      Payload(r) ==
        [in |-> SubSeq(r.in, r.msg.length + 2, Len(r.in)),
         msg |-> [group |-> r.msg.group, id |-> r.msg.id,
                  payload |-> [i \in 1 .. r.msg.length |->
                                 IF i <= Len(r.in) THEN r.in[i] ELSE 0]],
         torn |-> Len(r.in) < r.msg.length + 1,
         err |-> "none"]
  IN Then(ReadInts(Reader(in, [group |-> 0, id |-> 0, length |-> 0]), fields), Payload)

(* Object.Parse, behind the group in a track stream.  A payload cut short  *)
(* is no error: the bytes that did not come are zero.                      *)
ParseObject(in) ==
  LET fields == IF kind = "track" THEN <<"group", "id", "length">> ELSE <<"id", "length">>
      Payload(r) ==
        [in |-> SubSeq(r.in, r.msg.length + 1, Len(r.in)),
         msg |-> [group |-> r.msg.group, id |-> r.msg.id,
                  payload |-> [i \in 1 .. r.msg.length |->
                                 IF i <= Len(r.in) THEN r.in[i] ELSE 0]],
         torn |-> Len(r.in) < r.msg.length,
         err |-> "none"]
  IN Then(ReadInts(Reader(in, [group |-> 0, id |-> 0, length |-> 0]), fields), Payload)

ParseMOQTStream(in) ==
  LET Rest(r) ==
        CASE r.msg.type = STREAM_HEADER_GROUP ->
               ReadInts(r, <<"id", "alias", "group", "order">>)
          [] r.msg.type = STREAM_HEADER_TRACK -> ReadInts(r, <<"id", "alias", "order">>)
          [] OTHER -> [r EXCEPT !.err = "bad"]
  IN Then(ReadInt(Reader(in, [type |-> 0, id |-> 0, alias |-> 0, group |-> 0,
                              order |-> 0]), "type"), Rest)

-----------------------------------------------------------------------------
NoHeader == [type |-> 0]

(* Only the objects of a track stream have a group of their own.           *)
Items == IF kind = "control" THEN Messages
         ELSE {o \in Objects : kind = "group" => o.group = 0}

WireInit ==
  /\ kind \in {"control", "group", "track"}
  /\ written = <<>>
  /\ wire = IF kind = "control" THEN <<>> ELSE HeaderBytes
  /\ end = "open"
  /\ header = NoHeader
  /\ got = <<>>
  /\ served = TRUE
  /\ isEOF = FALSE
  /\ astray = {}

(* WriteControlMessage, or Pipe of an object to the stream.                *)
Write ==
  /\ end = "open"
  /\ Len(written) < MaxItems
  /\ \E m \in Items :
       /\ written' = Append(written, m)
       /\ IF kind = "control"
          THEN \E ps \in SetToSeqs(IF "params" \in DOMAIN m THEN DOMAIN m.params ELSE {}) :
                 /\ wire' = wire \o GetBytes(m, ps)
                 /\ astray' = IF \E i \in 1 .. Len(ps) - 1 : ps[i] \notin KnownParams
                              THEN astray \cup {Len(written) + 1} ELSE astray
          ELSE wire' = wire \o ObjectBytes(m) /\ UNCHANGED astray
  /\ UNCHANGED <<kind, end, header, got, served, isEOF>>

(* The writer closes the stream: everything written arrives.               *)
Fin ==
  /\ end = "open"
  /\ end' = "fin"
  /\ UNCHANGED <<kind, written, wire, header, got, served, isEOF, astray>>

(* The connection or the stream dies: what has not arrived is lost.        *)
Reset ==
  /\ end = "open"
  /\ \E k \in 0 .. Len(wire) : wire' = SubSeq(wire, 1, k)
  /\ end' = "reset"
  /\ UNCHANGED <<kind, written, header, got, served, isEOF, astray>>

(* A read of an open stream waits for the tokens it needs.                 *)
Ready(r) == served /\ (r.torn => end # "open")

(* One turn of ServeCS.                                                    *)
ServeCS ==
  LET r == ParseMOQTMessage(wire) IN
  /\ kind = "control"
  /\ Ready(r)
  /\ wire' = r.in
  /\ IF r.err = "none" THEN got' = Append(got, r.msg) /\ UNCHANGED served
                       ELSE served' = FALSE /\ UNCHANGED got
  /\ UNCHANGED <<kind, written, end, header, isEOF, astray>>

(* The header of an object stream; on an error the stream is given up.     *)
ReadHeader ==
  LET r == ParseMOQTStream(wire) IN
  /\ kind # "control" /\ header = NoHeader
  /\ Ready(r)
  /\ wire' = r.in
  /\ IF r.err = "none" THEN header' = r.msg /\ UNCHANGED served
                       ELSE served' = FALSE /\ UNCHANGED header
  /\ UNCHANGED <<kind, written, end, got, isEOF, astray>>

(* ReadObject: at the end of the stream it closes the group.               *)
ReadObjectBytes ==
  LET r == ParseObject(wire) IN
  /\ kind # "control" /\ header # NoHeader
  /\ Ready(r)
  /\ wire' = r.in
  /\ IF r.err = "none"
     THEN got' = Append(got, r.msg) /\ UNCHANGED <<served, isEOF>>
     ELSE served' = FALSE /\ isEOF' = (end = "fin") /\ UNCHANGED got
  /\ UNCHANGED <<kind, written, end, header, astray>>

WireNext == Write \/ Fin \/ Reset \/ ServeCS \/ ReadHeader \/ ReadObjectBytes

(* The reading goroutine runs.                                             *)
WireFairness ==
  WF_wireVars(ServeCS) /\ WF_wireVars(ReadHeader) /\ WF_wireVars(ReadObjectBytes)

WireSpec == WireInit /\ [][WireNext]_wireVars /\ WireFairness

-----------------------------------------------------------------------------
(* What Parse keeps of an item, less than what was written in two cases:   *)
(* with an unknown parameter SUBSCRIBE and ANNOUNCE lose all of theirs;    *)
(* SubscribeOk.Parse reads the largest object and then the largest group   *)
(* into the one field for the object.                                      *)
Kept(m) ==
  CASE kind # "control" -> m
    [] kind = "control" /\ m.type = SUBSCRIBE_OK /\ m.content = 1 ->
         [m EXCEPT !.object = m.group, !.group = 0]
    [] kind = "control" /\ "params" \in DOMAIN m ->
         LET known == (DOMAIN m.params) \cap KnownParams
             lost == m.type \in {SUBSCRIBE, ANNOUNCE} /\ known # DOMAIN m.params
         IN [m EXCEPT !.params = IF lost THEN <<>> ELSE [t \in known |-> m.params[t]]]
    [] OTHER -> m

(* Two messages that are the same but for their parameters.                *)
SameButParams(m, n) ==
  /\ DOMAIN m = DOMAIN n
  /\ \A f \in DOMAIN m \ {"params"} : m[f] = n[f]

(* What a stream's header, read back, is to the one that was written.      *)
SameHeader(h) ==
  /\ h.type = (IF kind = "group" THEN STREAM_HEADER_GROUP ELSE STREAM_HEADER_TRACK)
  /\ \A f \in {"id", "alias", "order"} : h[f] = Header[f]
  /\ kind = "group" => h.group = Header.group

(* ParseMOQTMessage and ReadObject stay in step with GetBytes and Pipe:    *)
(* the i-th item handled is the i-th one written, whatever follows it in   *)
(* the stream, and under the subscription, alias and group of the header.  *)
(* Two cases are left out, in which the code does lose step.  The last     *)
(* item of a stream that was reset may be another than was written         *)
(* (msg.Parse's and io.ReadFull's errors are dropped).  Nothing is said    *)
(* behind a message that has a parameter behind an unknown one, and of     *)
(* that message the parameters are not compared: Parameters.Parse returns  *)
(* at the unknown one, and what is left is taken for the next message.     *)
InStep ==
  /\ header # NoHeader => SameHeader(header)
  /\ astray = {} => Len(got) <= Len(written)
  /\ \A i \in DOMAIN got : (\A j \in astray : i <= j) =>
       \/ i \in astray /\ SameButParams(got[i], written[i])
       \/ i \notin astray /\ got[i] = Kept(written[i])
       \/ end = "reset" /\ i = Len(got)

(* The loops of ServeCS and of ReadObject end only with the stream, never  *)
(* because what one side writes the other cannot read, but for what lies   *)
(* behind a message that led the reader astray.                            *)
StopsOnlyAtEnd == ~served /\ astray = {} => end # "open" /\ wire = <<>>

(* IsEOF, on which a relay finishes its own streams, is set only when      *)
(* every object of the group has been stored as it was written.            *)
EofMeansWhole == isEOF => end = "fin" /\ got = written

(* Every item written is handled, unless the stream is reset or an         *)
(* unknown parameter led its reader astray: again and again the reader has *)
(* caught up, it never waits for tokens its writer does not write.         *)
AllHandled == []<>(Len(got) >= Len(written) \/ end = "reset" \/ astray # {})

(* Reader and writer of a stream agree on what was written and on its end, *)
(* up to the first message with a parameter behind an unknown one; of a    *)
(* SUBSCRIBE_OK with content only what its Parse keeps is compared.        *)
WireInStep == InStep /\ StopsOnlyAtEnd /\ EofMeansWhole
=============================================================================
