--------------------------- MODULE MoqSessionProofs ---------------------------
(***************************************************************************)
(* Proofs about a MOQTSession: whatever the peer sends and whoever calls   *)
(* Session.Close, no channel is closed twice or sent on once closed, the   *)
(* control stream never blocks on HandshakeDone, and the peer's role is    *)
(* settled by the handshake and is not that of this end.                   *)
(***************************************************************************)
EXTENDS MoqSession, TLAPS

Setups == {"CLIENT_SETUP", "SERVER_SETUP"}
Closing == {"close", "handleclose"}      \* Session.Close before its channels are closed

(* The control stream is served from the moment there is one.              *)
Served ==
  /\ local \in Roles /\ cs \in BOOLEAN
  /\ serve = "none" <=> ~cs
  /\ role # "none" => cs

(* Session.Close reaches HandleClose at most once.  A client calls it from *)
(* InitiateHandshake when there is no control stream, or from the control  *)
(* stream, over a connection that is then gone for good.                   *)
ClosedOnce ==
  /\ panic = FALSE
  /\ local = "relay" => init = "none" /\ closedChans = {}
  /\ local # "relay" => accept = "none"
  /\ init \in {"open"} \cup Closing => serve = "none" /\ closedChans = {}
  /\ serve \in Closing => closedChans = {}
  /\ "handleclose" \in {init, serve} \/ closedChans # {} => conn = "closed"

(* The handshake happens once: setup messages are taken before it, and the *)
(* role that the message in hand carries is not that of this end.          *)
Settled ==
  /\ hs \in BOOLEAN
  /\ signal \in Nat /\ (signal # 0 \/ dial = "ok" => hs)
  /\ serve \in Setups => ~hs
  /\ serve \in Setups \/ hs => ~RoleConflict(role)

SessionInv == Served /\ ClosedOnce /\ Settled

-----------------------------------------------------------------------------
(* A new session satisfies the inductive invariant.                        *)
LEMMA InitInv == SessionInit => SessionInv
<1> SUFFICES ASSUME SessionInit PROVE SessionInv
  OBVIOUS
<1>1. Served
  BY DEF SessionInit, Served
<1>2. ClosedOnce
  BY DEF SessionInit, ClosedOnce, Mode, Closing
<1>3. Settled
  BY DEF SessionInit, Settled, Mode, Setups
<1> QED
  BY <1>1, <1>2, <1>3 DEF SessionInv

(* What the goroutine that calls Session.Close leaves when it is the only  *)
(* one that may: pc is its program counter, and no other is closing.       *)
LEMMA CloseKeeps ==
  ASSUME SessionInv, NEW pc, NEW pcNext, NEW after, SessionClose(pc, pcNext, after),
         local = "relay" \/ pc \notin Closing \/ (closedChans = {} /\ serve # "send"),
         local' = local, pc = "handleclose" => local = "relay" \/ conn = "closed"
  PROVE  /\ panic' = FALSE
         /\ closedChans' # {} => conn' = "closed"
         /\ conn = "closed" => conn' = "closed"
         /\ local = "relay" => closedChans' = {}
         /\ pc # "handleclose" => closedChans' = closedChans
<1>1. panic = FALSE /\ local \in Roles /\ (closedChans # {} => conn = "closed")
      /\ (local = "relay" => closedChans = {})
  BY DEF SessionInv, ClosedOnce, Served
<1>2. local = "relay" => ClosedBy = {}
  BY DEF ClosedBy, Chans
<1>3. CASE CloseWithError(pc, pcNext)
  BY <1>1, <1>3 DEF CloseWithError
<1>4. CASE HandleClose(pc, pcNext)
  <2>1. closedChans \cap ClosedBy = {} /\ ~(serve = "send" /\ sendTo \in ClosedBy)
    BY <1>1, <1>2, <1>4 DEF HandleClose, Closing
  <2>2. closedChans' = closedChans \cup ClosedBy /\ panic' = FALSE /\ pcNext = "remove"
    BY <1>1, <1>4, <2>1 DEF HandleClose
  <2>3. conn' = conn /\ pc = "handleclose"
    BY <1>4 DEF HandleClose
  <2> QED
    BY <1>1, <1>2, <2>2, <2>3 DEF Closing
<1>5. CASE RemoveSession(pc, pcNext, after)
  BY <1>1, <1>5 DEF RemoveSession
<1> QED
  BY <1>3, <1>4, <1>5 DEF SessionClose
-----------------------------------------------------------------------------
(* Every step of the network, of a server, a client or the control stream  *)
(* that is not part of Session.Close.                                      *)
LEMMA ConnLostInv == SessionInv /\ ConnLost => SessionInv'
  BY DEF ConnLost, clientVars, SessionInv, Served, ClosedOnce, Settled,
         Roles, Setups, Closing, RoleConflict

(* A second stream is a protocol violation; the first one is served.       *)
LEMMA AcceptStreamInv == SessionInv /\ AcceptStream => SessionInv'
<1> SUFFICES ASSUME SessionInv, AcceptStream PROVE SessionInv'
  OBVIOUS
<1>1. CASE cs
  BY <1>1 DEF AcceptStream, SessionInv, Served, ClosedOnce, Settled, Roles, Setups, Closing, RoleConflict, clientVars
<1>2. CASE ~cs
  <2>1. cs' = TRUE /\ serve' = "read" /\ accept' = accept /\ serve = "none"
    BY <1>2 DEF AcceptStream, SessionInv, Served
  <2> QED
    BY <1>2, <2>1 DEF AcceptStream, SessionInv, Served, ClosedOnce, Settled, Roles, Setups, Closing, RoleConflict, clientVars
<1> QED
  BY <1>1, <1>2

(* The accept loop notices that the connection is gone.                    *)
LEMMA AcceptErrorInv == SessionInv /\ AcceptError => SessionInv'
  BY DEF AcceptError, clientVars, SessionInv, Served, ClosedOnce, Settled,
         Roles, Setups, Closing, RoleConflict

(* The session manager writes only to a session with a role, and so with a *)
(* control stream.                                                         *)
LEMMA AnnounceToPeerInv == SessionInv /\ AnnounceToPeer => SessionInv'
<1> SUFFICES ASSUME SessionInv, AnnounceToPeer PROVE SessionInv'
  OBVIOUS
<1>1. panic = FALSE /\ cs = TRUE
  BY DEF AnnounceToPeer, SessionInv, Served, ClosedOnce
<1>2. panic' = FALSE
  BY <1>1 DEF AnnounceToPeer
<1>3. UNCHANGED <<local, conn, cs, hs, role, signal, serve, accept, init, dial, closedChans>>
  BY DEF AnnounceToPeer, clientVars
<1> QED
  BY <1>2, <1>3 DEF SessionInv, Served, ClosedOnce, Settled, RoleConflict

(* InitiateHandshake opens the control stream, or closes the session.      *)
LEMMA OpenStreamInv == SessionInv /\ OpenStream => SessionInv'
<1> SUFFICES ASSUME SessionInv, OpenStream PROVE SessionInv'
  OBVIOUS
<1>1. UNCHANGED <<local, conn, hs, role, signal, accept, dial, closedChans, panic>>
  BY DEF OpenStream
<1>2. serve = "none" /\ cs = FALSE /\ closedChans = {} /\ init = "open" /\ role = "none"
  BY DEF OpenStream, SessionInv, Served, ClosedOnce
<1>3. \/ init' = "write" /\ cs' = TRUE /\ serve' = "read"
      \/ init' = "close" /\ cs' = FALSE /\ serve' = "none"
  BY <1>2 DEF OpenStream
<1> QED
  BY <1>1, <1>2, <1>3 DEF SessionInv, Served, ClosedOnce, Settled, RoleConflict, Setups, Closing

(* A failed write of CLIENT_SETUP closes nothing.                          *)
LEMMA WriteClientSetupInv == SessionInv /\ WriteClientSetup => SessionInv'
  BY DEF WriteClientSetup, WriteControlMessage, clientVars, SessionInv, Served, ClosedOnce, Settled,
         Roles, Setups, Closing, RoleConflict

(* Dial returns the session only after the handshake.                      *)
LEMMA DialDoneInv == SessionInv /\ DialDone => SessionInv'
  BY DEF DialDone, clientVars, SessionInv, Served, ClosedOnce, Settled,
         Roles, Setups, Closing, RoleConflict

(* Dial gives up.                                                          *)
LEMMA DialTimeoutInv == SessionInv /\ DialTimeout => SessionInv'
  BY DEF DialTimeout, clientVars, SessionInv, Served, ClosedOnce, Settled,
         Roles, Setups, Closing, RoleConflict

(* The application writes its request ...                                  *)
LEMMA RequestInv == SessionInv /\ Request => SessionInv'
  BY DEF Request, WriteControlMessage, clientVars, SessionInv, Served, ClosedOnce, Settled,
         Roles, Setups, Closing, RoleConflict

(* ... and registers it.                                                   *)
LEMMA RegisterInv == SessionInv /\ Register => SessionInv'
  BY DEF Register, clientVars, SessionInv, Served, ClosedOnce, Settled,
         Roles, Setups, Closing, RoleConflict

(* A setup message is refused before the handshake, over a live            *)
(* connection.                                                             *)
LEMMA RejectSetupInv == SessionInv /\ RejectSetup => SessionInv'
  BY DEF RejectSetup, clientVars, SessionInv, Served, ClosedOnce, Settled,
         Roles, Setups, Closing, RoleConflict

(* CLIENT_SETUP is answered.                                               *)
LEMMA WriteServerSetupInv == SessionInv /\ WriteServerSetup => SessionInv'
  BY DEF WriteServerSetup, WriteControlMessage, clientVars, SessionInv, Served, ClosedOnce, Settled,
         Roles, Setups, Closing, RoleConflict

(* The control stream ends.                                                *)
LEMMA ControlReadErrorInv == SessionInv /\ ControlReadError => SessionInv'
  BY DEF ControlReadError, clientVars, SessionInv, Served, ClosedOnce, Settled,
         Roles, Setups, Closing, RoleConflict

(* An ANNOUNCE is handed to the application over a channel that is open.   *)
LEMMA HandleAnnounceInv == SessionInv /\ HandleAnnounce => SessionInv'
<1> SUFFICES ASSUME SessionInv, HandleAnnounce PROVE SessionInv'
  OBVIOUS
<1>1. closedChans = {} /\ panic = FALSE /\ local \in Roles /\ cs /\ serve = "read"
  BY DEF HandleAnnounce, SessionInv, Served, ClosedOnce
<1>2. panic' = FALSE /\ serve' \in {"read", "send"}
  BY <1>1 DEF HandleAnnounce, SendOn
<1>3. UNCHANGED <<local, cs, role, hs, signal, dial, init, accept, closedChans>>
  BY DEF HandleAnnounce, clientVars
<1>4. Served' /\ ClosedOnce'
  BY <1>1, <1>2, <1>3 DEF SessionInv, Served, ClosedOnce, Closing
<1>5. Settled'
  BY <1>2, <1>3 DEF SessionInv, Settled, Setups, RoleConflict
<1> QED
  BY <1>4, <1>5 DEF SessionInv

(* So is the answer to a request.                                          *)
LEMMA HandleAnswerInv == SessionInv /\ HandleAnswer => SessionInv'
<1> SUFFICES ASSUME SessionInv, HandleAnswer PROVE SessionInv'
  OBVIOUS
<1>1. closedChans = {} /\ panic = FALSE /\ local \in Roles /\ cs /\ serve = "read"
  BY DEF HandleAnswer, SessionInv, Served, ClosedOnce
<1>2. panic' = FALSE /\ serve' \in {"read", "send"}
  BY <1>1 DEF HandleAnswer, SendOn
<1>3. UNCHANGED <<local, cs, role, hs, signal, dial, init, accept, closedChans>>
  BY DEF HandleAnswer, clientVars
<1>4. Served' /\ ClosedOnce'
  BY <1>1, <1>2, <1>3 DEF SessionInv, Served, ClosedOnce, Closing
<1>5. Settled'
  BY <1>2, <1>3 DEF SessionInv, Settled, Setups, RoleConflict
<1> QED
  BY <1>4, <1>5 DEF SessionInv

(* The map that is read and written at once is none of the session's       *)
(* channels.                                                               *)
LEMMA LookupRacesInv == SessionInv /\ LookupRaces => SessionInv'
  BY DEF LookupRaces, SessionInv, Served, ClosedOnce, Settled, Roles, Setups, Closing,
         RoleConflict

(* A loop's callback returns, or receives what the control stream sends.   *)
LEMMA ChannelInv ==
  ASSUME SessionInv, NEW c \in AllChans, Callback(c) \/ Receive(c)
  PROVE  SessionInv'
<1>1. UNCHANGED <<local, conn, cs, hs, role, signal, accept, init, dial, closedChans, panic>>
  BY DEF Callback, Receive
<1>2. serve' = serve \/ (serve = "send" /\ serve' = "read")
  BY DEF Callback, Receive
<1> QED
  BY <1>1, <1>2 DEF SessionInv, Served, ClosedOnce, Settled, RoleConflict, Setups, Closing

(* A setup message: the role is taken before it is checked, and a peer     *)
(* whose role conflicts never gets as far as the handshake.                *)
LEMMA SetupMessageInv ==
  ASSUME SessionInv, NEW m \in Setups, SetupMessage(m)
  PROVE  SessionInv'
<1>1. PICK r \in WireRoles : SetRemoteRole(r, m)
  BY DEF SetupMessage
<1>2. serve = "read" /\ conn = "open" /\ hs = FALSE /\ closedChans = {} /\ cs = TRUE
  BY DEF SetupMessage, SessionInv, ClosedOnce, Settled, Served
<1>3. UNCHANGED <<local, conn, cs, hs, signal, accept, init, dial, closedChans, panic>>
  BY <1>1 DEF SetRemoteRole, clientVars
<1>4. role' = r /\ serve' = IF RoleConflict(r) THEN "close" ELSE m
  BY <1>1 DEF SetRemoteRole
<1>5. Served'
  BY <1>2, <1>3, <1>4 DEF SessionInv, Served, Setups
<1>6. ClosedOnce'
  BY <1>2, <1>3, <1>4 DEF SessionInv, ClosedOnce, Closing, Setups
<1>7. Settled'
  BY <1>2, <1>3, <1>4 DEF SessionInv, Settled, RoleConflict, Setups
<1> QED
  BY <1>5, <1>6, <1>7 DEF SessionInv

(* The handshake completes, for the first time.                            *)
LEMMA HandshakeDoneInv ==
  ASSUME SessionInv, NEW m \in Setups, HandshakeDone(m)
  PROVE  SessionInv'
<1>1. serve \in Setups /\ serve' \in {"reply", "read"} /\ hs' = TRUE /\ signal' \in Nat
  BY DEF HandshakeDone, SessionInv, Settled
<1>2. UNCHANGED <<local, conn, cs, role, accept, init, dial, closedChans, panic>>
  BY DEF HandshakeDone, clientVars
<1>3. Served'
  BY <1>1, <1>2 DEF SessionInv, Served, Setups
<1>4. ClosedOnce'
  BY <1>1, <1>2 DEF SessionInv, ClosedOnce, Closing, Setups
<1>5. Settled'
  BY <1>1, <1>2 DEF SessionInv, Settled, RoleConflict, Setups
<1> QED
  BY <1>3, <1>4, <1>5 DEF SessionInv

-----------------------------------------------------------------------------
(* Session.Close called by the accept loop: only a server has one, and a   *)
(* server's handler closes no channel.                                     *)
LEMMA AcceptCloseInv == SessionInv /\ AcceptClose => SessionInv'
<1> SUFFICES ASSUME SessionInv, AcceptClose PROVE SessionInv'
  OBVIOUS
<1>1. UNCHANGED <<local, cs, hs, role, signal, serve, init, dial>>
  BY DEF AcceptClose, clientVars
<1>2. accept # "none" /\ local = "relay"
  BY DEF AcceptClose, SessionClose, CloseWithError, HandleClose, RemoveSession,
         SessionInv, ClosedOnce
<1>3. panic' = FALSE /\ closedChans' = {} /\ (conn = "closed" => conn' = "closed")
  BY <1>1, <1>2, CloseKeeps DEF AcceptClose
<1> QED
  BY <1>1, <1>2, <1>3 DEF SessionInv, Served, ClosedOnce, Settled, RoleConflict

(* Session.Close called by InitiateHandshake, without a control stream.    *)
LEMMA InitCloseInv == SessionInv /\ InitClose => SessionInv'
<1> SUFFICES ASSUME SessionInv, InitClose PROVE SessionInv'
  OBVIOUS
<1>1. UNCHANGED <<local, cs, hs, role, signal, serve, accept, dial>>
  BY DEF InitClose
<1>2. init \in {"close", "handleclose", "remove"} /\ local # "relay"
  BY DEF InitClose, SessionClose, CloseWithError, HandleClose, RemoveSession,
         SessionInv, ClosedOnce
<1>3. init \in Closing => closedChans = {} /\ serve = "none"
  BY DEF SessionInv, ClosedOnce
<1>4. init = "handleclose" => conn = "closed"
  BY DEF SessionInv, ClosedOnce
<1>5. SessionClose(init, init', "done")
  BY DEF InitClose
<1>6. /\ panic' = FALSE /\ (closedChans' # {} => conn' = "closed")
      /\ (conn = "closed" => conn' = "closed")
      /\ (init # "handleclose" => closedChans' = closedChans)
  BY <1>1, <1>3, <1>4, <1>5, CloseKeeps
<1>7. /\ init = "close" => init' = "handleclose" /\ conn' = "closed"
      /\ init # "close" => init' \in {"remove", "done"}
  BY <1>2, <1>5 DEF SessionClose, CloseWithError, HandleClose, RemoveSession
<1>8. ClosedOnce'
  BY <1>1, <1>2, <1>3, <1>6, <1>7 DEF SessionInv, ClosedOnce, Closing
<1> QED
  BY <1>1, <1>8 DEF SessionInv, Served, Settled, RoleConflict

(* Session.Close called by the control stream, which then reads on: from a *)
(* connection that is closed it gets no message, and it closes no more.    *)
LEMMA ServeCloseInv == SessionInv /\ ServeClose => SessionInv'
<1> SUFFICES ASSUME SessionInv, ServeClose PROVE SessionInv'
  OBVIOUS
<1>1. UNCHANGED <<local, cs, hs, role, signal, accept, init, dial>>
  BY DEF ServeClose, clientVars
<1>2. SessionClose(serve, serve', "read")
  BY DEF ServeClose
<1>3. serve \in {"close", "handleclose", "remove"}
  BY <1>2 DEF SessionClose, CloseWithError, HandleClose, RemoveSession
<1>4. /\ serve \in Closing => closedChans = {}
      /\ serve = "handleclose" => conn = "closed"
      /\ init \notin {"open"} \cup Closing
  BY <1>3 DEF SessionInv, ClosedOnce
<1>5. /\ panic' = FALSE /\ (closedChans' # {} => conn' = "closed")
      /\ (conn = "closed" => conn' = "closed") /\ (local = "relay" => closedChans' = {})
      /\ (serve # "handleclose" => closedChans' = closedChans)
  BY <1>1, <1>2, <1>3, <1>4, CloseKeeps
<1>6. /\ serve = "close" => serve' = "handleclose" /\ conn' = "closed"
      /\ serve # "close" => serve' \in {"remove", "read"}
  BY <1>2, <1>3 DEF SessionClose, CloseWithError, HandleClose, RemoveSession
<1>7. Served'
  BY <1>1, <1>3, <1>6 DEF SessionInv, Served
<1>8. ClosedOnce'
  BY <1>1, <1>3, <1>4, <1>5, <1>6 DEF SessionInv, ClosedOnce, Closing
<1>9. Settled'
  BY <1>1, <1>3, <1>6 DEF SessionInv, Settled, RoleConflict, Setups
<1> QED
  BY <1>7, <1>8, <1>9 DEF SessionInv

-----------------------------------------------------------------------------
(* The inductive invariant holds always.                                   *)
LEMMA SessionInvariant == SessionSpec => []SessionInv
<1>1. SessionInv /\ [SessionNext]_sessionVars => SessionInv'
  <2> SUFFICES ASSUME SessionInv, [SessionNext]_sessionVars PROVE SessionInv'
    OBVIOUS
  <2>1. CASE ConnLost
    BY <2>1, ConnLostInv
  <2>2. CASE Server
    BY <2>2, AcceptStreamInv, AcceptErrorInv, AcceptCloseInv, AnnounceToPeerInv DEF Server
  <2>3. CASE Client
    BY <2>3, OpenStreamInv, WriteClientSetupInv, InitCloseInv, DialDoneInv, DialTimeoutInv,
       RequestInv, RegisterInv, ChannelInv DEF Client
  <2>4. CASE Serve
    BY <2>4, RejectSetupInv, ServeCloseInv, ControlReadErrorInv, WriteServerSetupInv,
       SetupMessageInv, HandshakeDoneInv, HandleAnnounceInv, HandleAnswerInv,
       LookupRacesInv DEF Serve, Setups
  <2>5. CASE UNCHANGED sessionVars
    BY <2>5 DEF sessionVars, clientVars, SessionInv, Served, ClosedOnce, Settled, RoleConflict
  <2> QED
    BY <2>1, <2>2, <2>3, <2>4, <2>5 DEF SessionNext
<1> QED
  BY <1>1, InitInv, PTL DEF SessionSpec

(* In every order of setup messages, with any ROLE value, of closes and of *)
(* losses: no channel is closed twice or sent on once closed,              *)
(* HandshakeDone always has room, and a session whose handshake is done    *)
(* has no peer of its own kind (a peer of no known kind it may have).      *)
THEOREM SessionIsSafe == SessionSpec => []SessionSafe
<1>1. SessionInv => SessionSafe
  <2> SUFFICES ASSUME SessionInv PROVE SessionSafe
    OBVIOUS
  <2>1. HandshakeSignalNeverBlocks
    BY DEF SessionInv, Settled, Setups, HandshakeSignalNeverBlocks
  <2>2. NoPanic
    BY DEF SessionInv, ClosedOnce, NoPanic
  <2>3. HandshakeRolesCompatible
    BY DEF SessionInv, Settled, HandshakeRolesCompatible
  <2> QED
    BY <2>1, <2>2, <2>3 DEF SessionSafe
<1> QED
  BY <1>1, SessionInvariant, PTL

(* Once the handshake is done no message changes the peer's role, and with *)
(* it the set of sessions that announces go to.                            *)
THEOREM SessionRoleStable == SessionSpec => RoleStable
<1>1. [SessionNext]_sessionVars => [hs => hs' /\ role' = role]_sessionVars
  <2> SUFFICES ASSUME [SessionNext]_sessionVars, hs
               PROVE  hs' /\ role' = role
    OBVIOUS
  <2>1. CASE ConnLost
    BY <2>1 DEF ConnLost
  <2>2. CASE Server
    BY <2>2 DEF Server, AcceptStream, AcceptError, AcceptClose, AnnounceToPeer
  <2>3. CASE Client
    BY <2>3 DEF Client, OpenStream, WriteClientSetup, InitClose, DialDone, DialTimeout,
                Request, Register, Callback, Receive
  <2>4. CASE Serve
    BY <2>4 DEF Serve, RejectSetup, ServeClose, ControlReadError, WriteServerSetup,
                SetupMessage, HandshakeDone, HandleAnnounce, HandleAnswer, LookupRaces
  <2>5. CASE UNCHANGED sessionVars
    BY <2>5 DEF sessionVars
  <2> QED
    BY <2>1, <2>2, <2>3, <2>4, <2>5 DEF SessionNext
<1> QED
  BY <1>1, PTL DEF SessionSpec, RoleStable
=============================================================================
