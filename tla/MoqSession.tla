------------------------------ MODULE MoqSession ------------------------------
(***************************************************************************)
(* One MOQTSession with its goroutines, from creation to Close.            *)
(*                                                                         *)
(*   serve   ControlStream.ServeCS: reads the control stream               *)
(*   accept  server mode: handleControlStream                              *)
(*   init    client mode: InitiateHandshake                                *)
(*   dial    client mode: MOQTDialer.Dial waiting for the handshake        *)
(*   app     client mode: the loops over the handler's channels that       *)
(*           MOQPub.Connect and MOQSub.Connect start                       *)
(*   api     client mode: the application in SendAnnounce or Subscribe     *)
(*                                                                         *)
(* The peer is the environment: it may send any message the wire format    *)
(* has, in any order, and lose the connection at any time.  Session.Close  *)
(* is called by several goroutines and is three steps long.                *)
(***************************************************************************)
EXTENDS Integers, Sequences, FiniteSets

CONSTANT MaxOut    \* bound: control messages written
ASSUME SessionAssumption == MaxOut \in Nat \ {0}

Roles == {"publisher", "subscriber", "relay"}
(* What the ROLE parameter of a setup message may hold: any integer.  0,   *)
(* which RemoteRole begins as, is "none", any other that is no role        *)
(* "unknown".                                                              *)
WireRoles == Roles \cup {"none", "unknown"}
AllChans == {"SubscribeChan", "StreamsChan", "AnnounceChan"}

VARIABLES
  local,       \* LocalRole
  conn,        \* the QUIC connection: "open" or "closed"
  registered,  \* the session is in the session manager
  cs,          \* session.CS is set
  hs,          \* ishandshakedone
  role,        \* RemoteRole; "none" is the initial 0
  signal,      \* messages in the buffered channel HandshakeDone
  serve, accept, init, dial, api,
  app,         \* per channel, the loop that receives from it
  known,       \* the application's request is in the handler's map
  sendTo,      \* the channel serve is sending on
  closedChans, \* channels that have been closed
  panic,       \* the process died of a channel closed or used wrongly, or of nil
  raced,       \* the process died of a map read and written at once
  out          \* control messages written to the peer

clientVars == <<init, dial, api, app, known, raced>>
sessionVars == <<local, conn, registered, cs, hs, role, signal, serve, accept, clientVars,
          sendTo, closedChans, panic, out>>

(* MOQPub and MOQSub dial, MOQRelay listens.                               *)
Mode == IF local = "relay" THEN "server" ELSE "client"

(* The unbuffered channels from the control stream to the application.     *)
Chans == CASE local = "publisher"  -> {"SubscribeChan"}
           [] local = "subscriber" -> {"StreamsChan", "AnnounceChan"}
           [] local = "relay"      -> {}

CloseStates == {"close", "handleclose", "remove"}

SessionInit ==
  /\ local \in Roles
  /\ conn = "open"
  /\ registered = TRUE
  /\ cs = FALSE
  /\ hs = FALSE
  /\ role = "none"
  /\ signal = 0
  /\ serve = "none"
  /\ accept = IF Mode = "server" THEN "accept" ELSE "none"
  /\ init = IF Mode = "client" THEN "open" ELSE "none"
  /\ dial = IF Mode = "client" THEN "wait" ELSE "none"
  /\ api = "idle"
  /\ app = [c \in AllChans |-> "none"]
  /\ known = FALSE
  /\ sendTo = "none"
  /\ closedChans = {}
  /\ panic = FALSE
  /\ raced = FALSE
  /\ out = <<>>

-----------------------------------------------------------------------------
(* The network *)

ConnLost ==
  /\ conn = "open"
  /\ conn' = "closed"
  /\ UNCHANGED <<local, registered, cs, hs, role, signal, serve, accept,
                 clientVars, sendTo,
                 closedChans, panic, out>>

(* WriteControlMessage: an error of Write is only logged.                  *)
WriteControlMessage(m) ==
  out' = IF conn = "open" THEN Append(out, m) ELSE out

-----------------------------------------------------------------------------
(* Session.Close, called by the goroutine with program counter pc, which   *)
(* then goes on at `after'.                                                *)

CloseWithError(pc, pcNext) ==
  /\ pc = "close"
  /\ pcNext = "handleclose"
  /\ conn' = "closed"
  /\ UNCHANGED <<registered, closedChans, panic>>

(* The channel a handler's HandleClose closes.  Closing a channel twice,   *)
(* or under a blocked sender, ends the process.  The relay's HandleClose   *)
(* (module MoqRelay) closes none.                                          *)
ClosedBy == Chans \ {"AnnounceChan"}

HandleClose(pc, pcNext) ==
  /\ pc = "handleclose"
  /\ pcNext = "remove"
  /\ closedChans' = closedChans \cup ClosedBy
  /\ panic' = (panic \/ closedChans \cap ClosedBy # {}
                     \/ (serve = "send" /\ sendTo \in ClosedBy))
  /\ UNCHANGED <<conn, registered>>

RemoveSession(pc, pcNext, after) ==
  /\ pc = "remove"
  /\ pcNext = after
  /\ registered' = FALSE
  /\ UNCHANGED <<conn, closedChans, panic>>

SessionClose(pc, pcNext, after) ==
  \/ CloseWithError(pc, pcNext)
  \/ HandleClose(pc, pcNext)
  \/ RemoveSession(pc, pcNext, after)

-----------------------------------------------------------------------------
(* Server mode: handleControlStream *)

(* A stream is accepted: the first becomes the control stream, a second    *)
(* one is a protocol violation.                                            *)
AcceptStream ==
  /\ accept = "accept" /\ conn = "open"
  /\ IF cs
     THEN accept' = "close" /\ UNCHANGED <<cs, serve>>
     ELSE cs' = TRUE /\ serve' = "read" /\ UNCHANGED accept
  /\ UNCHANGED <<local, conn, registered, hs, role, signal, clientVars, sendTo,
                 closedChans, panic, out>>

(* Mutant: the accept loop returns without Close.                          *)
AcceptErrorReturns ==
  /\ accept = "accept" /\ conn = "closed"
  /\ accept' = "done"
  /\ UNCHANGED <<local, conn, registered, cs, hs, role, signal, serve, clientVars,
                 sendTo, closedChans, panic, out>>

(* AcceptStream failed: the connection is gone.                            *)
AcceptError ==
  /\ accept = "accept" /\ conn = "closed"
  /\ accept' = "close"
  /\ UNCHANGED <<local, conn, registered, cs, hs, role, signal, serve, clientVars,
                 sendTo, closedChans, panic, out>>

AcceptClose ==
  /\ SessionClose(accept, accept', "done")
  /\ UNCHANGED <<local, cs, hs, role, signal, serve, clientVars, sendTo, out>>

(* The session manager writes to a subscriber's or relay's control stream  *)
(* when another session announces a namespace (addPublisher); a session    *)
(* without a control stream would be a nil dereference.                    *)
AnnounceToPeer ==
  /\ registered /\ local = "relay"
  /\ role \in {"subscriber", "relay"}
  /\ Len(out) < MaxOut
  /\ panic' = (panic \/ ~cs)
  /\ WriteControlMessage("ANNOUNCE")
  /\ UNCHANGED <<local, conn, registered, cs, hs, role, signal, serve, accept,
                 clientVars, sendTo, closedChans>>

-----------------------------------------------------------------------------
(* Client mode: InitiateHandshake, Dial and the application *)

OpenStream ==
  /\ init = "open"
  /\ \/ conn = "open" /\ init' = "write" /\ cs' = TRUE /\ serve' = "read"
     \/ init' = "close" /\ UNCHANGED <<cs, serve>>
  /\ UNCHANGED <<local, conn, registered, hs, role, signal, accept, dial, api, app,
                 known, sendTo, closedChans, panic, out, raced>>

(* Mutant: a failed write closes the session a second time.                *)
WriteClientSetupOrClose ==
  /\ init = "write"
  /\ init' = IF conn = "open" THEN "done" ELSE "close"
  /\ WriteControlMessage("CLIENT_SETUP")
  /\ UNCHANGED <<local, conn, registered, cs, hs, role, signal, serve, accept,
                 dial, api,
                 app, known, sendTo, closedChans, panic, raced>>

WriteClientSetup ==
  /\ init = "write"
  /\ init' = "done"
  /\ WriteControlMessage("CLIENT_SETUP")
  /\ UNCHANGED <<local, conn, registered, cs, hs, role, signal, serve, accept,
                 dial, api,
                 app, known, sendTo, closedChans, panic, raced>>

InitClose ==
  /\ SessionClose(init, init', "done")
  /\ UNCHANGED <<local, cs, hs, role, signal, serve, accept, dial, api, app, known,
                 sendTo, out, raced>>

(* Dial's select: the handshake is done; Connect starts the loops.         *)
DialDone ==
  /\ dial = "wait" /\ signal > 0
  /\ signal' = signal - 1
  /\ dial' = "ok"
  /\ app' = [c \in AllChans |-> IF c \in Chans THEN "range" ELSE "none"]
  /\ UNCHANGED <<local, conn, registered, cs, hs, role, serve, accept, init, api,
                 known, sendTo, closedChans, panic, out, raced>>

(* ... or five seconds have passed: Dial fails, and the session stays.     *)
DialTimeout ==
  /\ dial = "wait"
  /\ dial' = "timeout"
  /\ UNCHANGED <<local, conn, registered, cs, hs, role, signal, serve, accept,
                 init, api,
                 app, known, sendTo, closedChans, panic, out, raced>>

(* SendAnnounce and Subscribe: the message is written first ...            *)
Request ==
  /\ dial = "ok" /\ api = "idle"
  /\ api' = "register"
  /\ WriteControlMessage("REQUEST")
  /\ UNCHANGED <<local, conn, registered, cs, hs, role, signal, serve, accept,
                 init, dial,
                 app, known, sendTo, closedChans, panic, raced>>

(* ... and the namespace or the SubStream entered in the map afterwards.   *)
Register ==
  /\ api = "register"
  /\ api' = "done"
  /\ known' = TRUE
  /\ UNCHANGED <<local, conn, registered, cs, hs, role, signal, serve, accept,
                 init, dial,
                 app, sendTo, closedChans, panic, out, raced>>

(* A loop's callback returns.                                              *)
Callback(c) ==
  /\ app[c] = "callback"
  /\ app' = [app EXCEPT ![c] = "range"]
  /\ UNCHANGED <<local, conn, registered, cs, hs, role, signal, serve, accept,
                 init, dial,
                 api, known, sendTo, closedChans, panic, out, raced>>

-----------------------------------------------------------------------------
(* ServeCS and handleSetupMessage *)

(* A CLIENT_SETUP or SERVER_SETUP with an unsupported version or no role.  *)
RejectSetup ==
  /\ serve = "read" /\ conn = "open" /\ ~hs
  /\ serve' = "close"
  /\ UNCHANGED <<local, conn, registered, cs, hs, role, signal, accept, clientVars,
                 sendTo, closedChans, panic, out>>

(* SetRemoteRole assigns the role and then checks it: only a peer of the   *)
(* same kind is refused, a value that is no role at all is not.            *)
RoleConflict(r) == local # "relay" /\ r = local

SetRemoteRole(r, m) ==
  /\ role' = r
  /\ serve' = IF RoleConflict(r) THEN "close" ELSE m
  /\ UNCHANGED <<local, conn, registered, cs, hs, signal, accept, clientVars, sendTo,
                 closedChans, panic, out>>

(* Either setup message is taken in either mode.                           *)
SetupMessage(m) ==
  /\ serve = "read" /\ conn = "open" /\ ~hs
  /\ \E r \in WireRoles : SetRemoteRole(r, m)

(* ishandshakedone is set, and HandshakeDone, of capacity one, signalled;  *)
(* a CLIENT_SETUP is then answered.                                        *)
HandshakeDone(m) ==
  /\ serve = m
  /\ hs' = TRUE
  /\ signal < 1
  /\ signal' = signal + 1
  /\ serve' = IF m = "CLIENT_SETUP" THEN "reply" ELSE "read"
  /\ UNCHANGED <<local, conn, registered, cs, role, accept, clientVars, sendTo,
                 closedChans, panic, out>>

WriteServerSetup ==
  /\ serve = "reply"
  /\ serve' = "read"
  /\ WriteControlMessage("SERVER_SETUP")
  /\ UNCHANGED <<local, conn, registered, cs, hs, role, signal, accept, clientVars,
                 sendTo, closedChans, panic>>

ServeClose ==
  /\ SessionClose(serve, serve', "read")
  /\ UNCHANGED <<local, cs, hs, role, signal, accept, clientVars, sendTo, out>>

(* The peer finished the stream, or the connection is gone: ServeCS ends   *)
(* and closes nothing.                                                     *)
ControlReadError ==
  /\ serve = "read"
  /\ serve' = "end"
  /\ UNCHANGED <<local, conn, registered, cs, hs, role, signal, accept, clientVars,
                 sendTo, closedChans, panic, out>>

-----------------------------------------------------------------------------
(* handleControlMessage of a publisher or subscriber; the relay's handlers *)
(* are module MoqRelay.  Messages the handlers ignore change nothing.      *)

SendOn(c) ==
  /\ serve' = "send" /\ sendTo' = c
  /\ panic' = (panic \/ c \in closedChans)

(* A publisher closes the connection, and not the session.                 *)
HandleAnnounce ==
  /\ serve = "read" /\ conn = "open" /\ hs
  /\ \/ /\ local = "publisher"
        /\ conn' = "closed"
        /\ UNCHANGED <<serve, sendTo, panic>>
     \/ local = "subscriber" /\ SendOn("AnnounceChan") /\ UNCHANGED conn
  /\ UNCHANGED <<local, registered, cs, hs, role, signal, accept, clientVars,
                 closedChans, out>>

(* A publisher's HandleSubscribe and a subscriber's HandleSubscribeOk look *)
(* the request up: an unknown one is only logged.                          *)
HandleAnswer ==
  /\ serve = "read" /\ conn = "open" /\ hs
  /\ known
  /\ \/ local = "publisher" /\ SendOn("SubscribeChan")
     \/ local = "subscriber" /\ SendOn("StreamsChan")
  /\ UNCHANGED <<local, conn, registered, cs, hs, role, signal, accept, clientVars,
                 closedChans, out>>

(* HandleSubscribe reads AnnouncedStreams without NamespaceLock.  While    *)
(* SendAnnounce writes it the lookup finds the namespace or does not, or   *)
(* the Go runtime notices the two and ends the process.                    *)
LookupRaces ==
  /\ local = "publisher" /\ api = "register"
  /\ serve = "read" /\ conn = "open" /\ hs
  /\ raced' = TRUE
  /\ UNCHANGED <<local, conn, registered, cs, hs, role, signal, serve, accept, init, dial, api,
                 app, known, sendTo, closedChans, panic, out>>

(* The rendezvous on an unbuffered channel.                                *)
Receive(c) ==
  /\ serve = "send" /\ sendTo = c /\ app[c] = "range"
  /\ serve' = "read"
  /\ sendTo' = "none"
  /\ app' = [app EXCEPT ![c] = "callback"]
  /\ UNCHANGED <<local, conn, registered, cs, hs, role, signal, accept, init, dial,
                 api, known, closedChans, panic, out, raced>>

-----------------------------------------------------------------------------
Server == AcceptStream \/ AcceptError \/ AcceptClose \/ AnnounceToPeer

Client ==
  \/ OpenStream \/ WriteClientSetup \/ InitClose
  \/ DialDone \/ DialTimeout
  \/ Request \/ Register
  \/ \E c \in AllChans : Callback(c) \/ Receive(c)

Serve ==
  \/ RejectSetup \/ ServeClose \/ ControlReadError \/ WriteServerSetup
  \/ \E m \in {"CLIENT_SETUP", "SERVER_SETUP"} : SetupMessage(m) \/ HandshakeDone(m)
  \/ HandleAnnounce \/ HandleAnswer \/ LookupRaces

SessionNext == ~raced /\ (ConnLost \/ Server \/ Client \/ Serve)

SessionSpec == SessionInit /\ [][SessionNext]_sessionVars

(* While the process runs every goroutine that can take a step does, and   *)
(* callbacks return; the peer may stay silent and the connection up for    *)
(* ever.                                                                   *)
SessionFairness ==
  /\ WF_sessionVars(~raced /\ AcceptError) /\ WF_sessionVars(~raced /\ AcceptClose)
  /\ WF_sessionVars(~raced /\ ServeClose) /\ WF_sessionVars(~raced /\ WriteServerSetup)
  /\ \A m \in {"CLIENT_SETUP", "SERVER_SETUP"} :
       WF_sessionVars(~raced /\ HandshakeDone(m))
  /\ WF_sessionVars(~raced /\ DialDone) /\ WF_sessionVars(~raced /\ Register)
  /\ \A c \in AllChans : /\ WF_sessionVars(~raced /\ Callback(c))
                          /\ WF_sessionVars(~raced /\ Receive(c))

SessionFairSpec == SessionSpec /\ SessionFairness

-----------------------------------------------------------------------------
(* The control stream goroutine never blocks on HandshakeDone, whose only  *)
(* reader is Dial: a server has none, and a Dial that timed out has left.  *)
(* One slot is enough because the handshake happens at most once.          *)
HandshakeSignalNeverBlocks ==
  serve \in {"CLIENT_SETUP", "SERVER_SETUP"} => signal = 0

(* Session.Close may be called by two goroutines and channels be sent on   *)
(* and closed by different ones, yet no channel is closed twice, none is   *)
(* sent on once closed, and the session manager never writes to a session  *)
(* that has no control stream.  The process can still die of the map that  *)
(* HandleSubscribe reads unlocked (raced), which is not claimed.           *)
NoPanic == ~panic

(* Once the handshake is done the peer's role is fixed, however many setup *)
(* messages it sends, and so is the set of sessions announces go to.       *)
RoleStable == [][hs => hs' /\ role' = role]_sessionVars

(* A session whose handshake is done, and so every session Dial returns,   *)
(* has no peer of its own kind: no publisher talks to a publisher, no      *)
(* subscriber to a subscriber, whichever setup messages came before.  It   *)
(* may have a peer of no kind at all: SetRemoteRole takes a ROLE parameter *)
(* of 0 or of an unknown value, and the handshake completes.               *)
HandshakeRolesCompatible ==
  (hs \/ dial = "ok") => ~RoleConflict(role)

(* Server mode: a session whose connection ends leaves the session manager *)
(* whichever goroutines notice it, and in whatever state the handshake is. *)
ConnLossRemovesSession ==
  []<>(Mode = "server" /\ conn = "closed" => ~registered)

(* Once Dial has returned the session, a control message for a channel is  *)
(* received, so that the control stream is read again.                     *)
MessagesReachApplication ==
  []<>(dial = "ok" => serve # "send")

(* A session survives every order of setup messages, with any ROLE value,  *)
(* of closes and of losses.  The one death left out is that of a map read  *)
(* and written at once (raced).                                            *)
SessionSafe == HandshakeSignalNeverBlocks /\ NoPanic /\ HandshakeRolesCompatible

(* What the goroutines of a session owe its peers and its application.     *)
SessionServes == RoleStable /\ ConnLossRemovesSession /\ MessagesReachApplication
=============================================================================
