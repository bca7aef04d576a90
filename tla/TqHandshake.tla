----------------------------- MODULE TqHandshake -----------------------------
(***************************************************************************)
(* A tquic client and a tquic server that set up a connection, and close   *)
(* it, over a network that reorders, drops and repeats datagrams.          *)
(* Endpoints are BOOLEAN: TRUE is the server, which exists from the first  *)
(* Initial packet that its endpoint accepts.                               *)
(***************************************************************************)
EXTENDS TqConnection

CONSTANTS
  Scenarios,    \* [retry, versions, early, closer, app, reset, timers, room, lengths, faults]
  MaxProbes     \* a bound of the model: probe timeouts of an endpoint

VARIABLES
  scn, conn, born, net,
  faults,       \* datagrams the network may still drop or repeat
  probes,       \* probe timeouts so far
  bytes,        \* that reached the server, that it sent, of these padding, and replayed
  quiet         \* what was sent after a close: nothing is expected

vars == <<scn, conn, born, net, faults, probes, bytes, quiet>>

Client == FALSE
Server == TRUE

Init ==
  /\ scn \in Scenarios
  /\ conn = [e \in BOOLEAN |->
       IF e THEN ConnNew(Server, "s0", NoCid, NoToken, scn.versions[1], scn.early, scn.timers)
       ELSE ConnNew(Client, "c0", "d0", NoToken, scn.versions[1], scn.early, scn.timers)]
  /\ born = FALSE /\ net = {} /\ faults = scn.faults
  /\ probes = [e \in BOOLEAN |-> 0]
  /\ bytes = [in |-> 0, out |-> 0, pad |-> 0, again |-> 0] /\ quiet = TRUE

-----------------------------------------------------------------------------
(* The server's endpoint before the connection exists: it answers with a   *)
(* list of versions or with a Retry, or creates the connection.            *)
Answer(type, p, token) ==
  [to |-> Client, size |-> 1,
   pkts |-> <<[type |-> type, pn |-> 0, frames |-> <<>>, key |-> <<p.dcid, p.ver>>,
               ver |-> scn.versions[Len(scn.versions)], dcid |-> p.scid,
               scid |-> IF type = "Retry" THEN "r0" ELSE p.dcid, token |-> token,
               params |-> [scid |-> NoCid, odcid |-> NoCid, rscid |-> NoCid]]>>]
Unsupported(p) == p.ver # scn.versions[Len(scn.versions)]
NeedsRetry(p) == scn.retry /\ p.token = NoToken
Created(p) ==
  ConnNew(Server, IF p.token = NoToken THEN "s0" ELSE p.token.rscid, NoCid, p.token,
          p.ver, scn.early, scn.timers)

(* recv, of a datagram that leaves the network, or of a copy of it         *)
Recv(e, d, copy) ==
  LET p == d.pkts[1]
      first == e = Server /\ ~born
      before == IF first THEN Created(p) ELSE conn[e]
      after == RecvDatagram(before, d)
      left == IF copy THEN net ELSE net \ {d}
      Waits(c) == Len(c.und["ZeroRTT"]) + Len(c.und["OneRTT"])
  IN IF first /\ p.type # "Initial" THEN UNCHANGED <<conn, born, bytes>> /\ net' = left
     ELSE IF first /\ (Unsupported(p) \/ NeedsRetry(p))
     THEN /\ net' = left \cup
               {IF Unsupported(p) THEN Answer("VersionNegotiation", p, NoToken)
                ELSE Answer("Retry", p, [odcid |-> p.dcid, rscid |-> "r0"])}
          /\ UNCHANGED <<conn, born, bytes>>
     ELSE /\ conn' = [conn EXCEPT ![e] = after]
          /\ born' = (born \/ e = Server) /\ net' = left
          /\ bytes' = IF e = Server
                      THEN [bytes EXCEPT !.in = @ + d.size,
                                         !.again = @ + Max({0, Waits(before) - Waits(after)})]
                      ELSE bytes

Deliver(d) ==
  /\ Recv(d.to, d, FALSE)
  /\ UNCHANGED <<scn, faults, probes, quiet>>

Repeat(d) ==
  /\ faults > 0 /\ faults' = faults - 1
  /\ Recv(d.to, d, TRUE)
  /\ UNCHANGED <<scn, probes, quiet>>

NetDrop(d) ==
  /\ faults > 0 /\ faults' = faults - 1
  /\ net' = net \ {d}
  /\ UNCHANGED <<scn, conn, born, probes, bytes, quiet>>

(* send, of a datagram with room for n packets                             *)
Send(e, n, length) ==
  LET d == SendDatagram(conn[e], n, length) IN
  /\ e = Server => born
  /\ CanSend(conn[e]) /\ d.pkts # <<>>
  /\ conn' = [conn EXCEPT ![e] = d.c]
  /\ net' = net \cup {[to |-> ~e, size |-> d.size, pkts |-> d.pkts]}
  /\ bytes' = IF Limited(conn[e])
              THEN [bytes EXCEPT !.out = @ + d.size, !.pad = @ + (d.size - d.written)] ELSE bytes
  /\ quiet' = (quiet /\ (IsClosing(conn[e]) =>
                 \A i \in DOMAIN d.pkts : \A j \in DOMAIN d.pkts[i].frames :
                   d.pkts[i].frames[j].t \in {"close", "app_close"}))
  /\ UNCHANGED <<scn, born, faults, probes>>

(* A probe timeout is longer than what is on its way takes, and the peer's *)
(* answer; one that comes too early counts as a fault.                     *)
CanSendNow(e) ==
  /\ e = Server => born
  /\ CanSend(conn[e]) /\ \E n \in scn.room : Datagram(conn[e], n).pkts # <<>>
AckDue(e) == conn[e].sp["Data"].ack_timer /\ ~IsDraining(conn[e]) /\ ~IsClosed(conn[e])
Losable(e, s) ==
  {p \in conn[e].sp[s].sent : p.pn < conn[e].sp[s].largest /\ ~IsDraining(conn[e]) /\ ~IsClosed(conn[e])}
Busy ==
  \/ net # {}
  \/ \E e \in BOOLEAN :
       AckDue(e) \/ CanSendNow(e) \/ \E s \in DOMAIN conn[e].sp : Losable(e, s) # {}
Probe(e, s) ==
  /\ e = Server => born
  /\ ~IsDraining(conn[e]) /\ ~IsClosed(conn[e])
  /\ s \in ProbeSpaces(conn[e]) /\ conn[e].sp[s].probes = 0 /\ probes[e] < MaxProbes
  /\ Busy => faults > 0
  /\ faults' = IF Busy THEN faults - 1 ELSE faults
  /\ conn' = [conn EXCEPT ![e] = OnProbe(@, s)]
  /\ probes' = [probes EXCEPT ![e] = @ + 1]
  /\ UNCHANGED <<scn, born, net, bytes, quiet>>

(* A packet is declared lost: a later one was acknowledged.                *)
Lose(e, s, p) ==
  /\ conn' = [conn EXCEPT ![e].sp[s].sent = @ \ {p}, ![e].sp[s].lost = @ \cup Range(p.frames)]
  /\ UNCHANGED <<scn, born, net, faults, probes, bytes, quiet>>

AckTimer(e) ==
  /\ AckDue(e)
  /\ conn' = [conn EXCEPT ![e] = OnAckTimer(@)]
  /\ UNCHANGED <<scn, born, net, faults, probes, bytes, quiet>>

(* The draining period ends; other timers expire when nothing moves.       *)
Expire(e, t) ==
  /\ t \in conn[e].timers /\ ~IsClosed(conn[e])
  /\ IsDraining(conn[e]) => t = "Draining"
  /\ t # "Draining" => ~Busy
  /\ conn' = [conn EXCEPT ![e] = OnTimer(@, t)]
  /\ UNCHANGED <<scn, born, net, faults, probes, bytes, quiet>>

AppClose(e) ==
  /\ e \in scn.closer /\ (e = Server => born)
  /\ Close(conn[e], scn.app) # conn[e]
  /\ conn' = [conn EXCEPT ![e] = Close(@, scn.app)]
  /\ UNCHANGED <<scn, born, net, faults, probes, bytes, quiet>>

StatelessReset ==
  /\ scn.reset /\ Reset(conn[Client]) # conn[Client]
  /\ conn' = [conn EXCEPT ![Client] = Reset(@)]
  /\ UNCHANGED <<scn, born, net, faults, probes, bytes, quiet>>

Next ==
  \/ \E d \in net : Deliver(d) \/ Repeat(d) \/ NetDrop(d)
  \/ \E e \in BOOLEAN :
       \/ \E n \in scn.room, length \in scn.lengths : Send(e, n, length)
       \/ \E s \in {"Initial", "Handshake", "Data"} :
            \/ Probe(e, s)
            \/ \E p \in Losable(e, s) : Lose(e, s, p)
       \/ AckTimer(e)
       \/ \E t \in {"Idle", "Handshake", "Draining"} : Expire(e, t)
       \/ AppClose(e)
  \/ StatelessReset

Spec == Init /\ [][Next]_vars

(* The network delivers what it does not drop, endpoints send what they    *)
(* have and serve their timers: tquic is driven by the loop that calls it. *)
CanProgress ==
  \/ Busy
  \/ \E e \in BOOLEAN :
       /\ e = Server => born
       /\ ~IsClosed(conn[e])
       /\ \/ ~IsDraining(conn[e]) /\ probes[e] < MaxProbes
               /\ \E s \in ProbeSpaces(conn[e]) : conn[e].sp[s].probes = 0
          \/ conn[e].timers # {}
FairSpec == Spec /\ ([]<>~CanProgress \/ []<><<TRUE>>_vars)

-----------------------------------------------------------------------------
(* Both endpoints agree on how the connection came about: no check of      *)
(* recv_frame or process_peer_trans_params fails between two tquic         *)
(* endpoints, whatever the network does, and a client that takes the       *)
(* handshake for confirmed has a server that completed it.                 *)
HandshakeAgrees ==
  /\ \A e \in BOOLEAN :
       conn[e].got \cap {"TransportParameterError", "ProtocolViolation"} = {}
  /\ IsConfirmed(conn[Client]) => IsEstablished(conn[Server])
  /\ IsEstablished(conn[Client]) /\ IsEstablished(conn[Server]) =>
       /\ conn[Client].version = conn[Server].version
       /\ conn[Client].dcid = conn[Server].scid /\ conn[Server].dcid = conn[Client].scid

(* Before it has verified the client's address the server sends, padding   *)
(* aside, at most AmplFactor times what it was given (cmp_anti_ampl_limit, *)
(* dec_anti_ampl_limit); packets that waited for keys are given to it      *)
(* twice.  The padding of a datagram with an Initial is not counted, and   *)
(* with it the server can send more than that.                             *)
AmplificationBounded == bytes.out <= AmplFactor * (bytes.in + bytes.again) + bytes.pad

(* Once an endpoint has closed the connection it sends nothing but one     *)
(* close frame, and an endpoint that got it sends nothing (send,           *)
(* try_write_close_frame).                                                 *)
QuietAfterClose == quiet

(* What a handshake, a limit and a close must never do, in any order of    *)
(* datagrams.                                                              *)
HandshakeSafe == HandshakeAgrees /\ AmplificationBounded /\ QuietAfterClose

(* Unless it is closed, reset or timed out, the handshake is confirmed on  *)
(* both sides and early data arrives, for all that is dropped, repeated or *)
(* undecryptable at first.                                                 *)
Awaited ==
  /\ scn.closer = {} /\ ~scn.reset
  /\ \A e \in BOOLEAN : ~IsClosed(conn[e])
  /\ \/ \E e \in BOOLEAN : ~IsConfirmed(conn[e])
     \/ conn[Client].data \in {"ready", "sent"}
     \/ ~Has(conn[Server], "HandshakeDoneAcked")
HandshakeCompletes == []<>~Awaited

(* A connection that is closed by the transport, by the application once   *)
(* the handshake is confirmed, or by the peer, ends: close, draining,      *)
(* Timer::Draining.                                                        *)
Ending(c) ==
  /\ ~IsClosed(c)
  /\ \/ IsDraining(c)
     \/ c.local_error = "transport" /\ Has(c, "DerivedInitialSecrets")
     \/ c.local_error = "app" /\ IsConfirmed(c)
CloseCompletes == []<>~(\E e \in BOOLEAN : Ending(conn[e]))

-----------------------------------------------------------------------------
(***************************************************************************)
(* Handshakes with a fault of the network: plain, with a Retry, with a     *)
(* version negotiation, with early data, closed at any moment by either    *)
(* endpoint, timed out, and reset.                                         *)
(***************************************************************************)
Plain ==
  [retry |-> FALSE, versions |-> <<1>>, early |-> FALSE, closer |-> {}, app |-> FALSE,
   reset |-> FALSE, timers |-> {}, room |-> {2}, lengths |-> {DatagramSize},
   faults |-> 1]
MCScenarios ==
  {Plain,
   [Plain EXCEPT !.room = {1}, !.lengths = {1}],
   [Plain EXCEPT !.retry = TRUE, !.versions = <<1, 2>>],
   [Plain EXCEPT !.early = TRUE],
   [Plain EXCEPT !.closer = {Client}, !.faults = 0],
   [Plain EXCEPT !.closer = {Server}, !.app = TRUE, !.faults = 0],
   [Plain EXCEPT !.timers = {"Idle", "Handshake"}, !.reset = TRUE, !.faults = 0]}
=============================================================================
