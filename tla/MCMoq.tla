-------------------------------- MODULE MCMoq --------------------------------
(***************************************************************************)
(* The MoQ components side by side for TLC.  A behaviour picks one part    *)
(* and stays in it, the other parts keep the state they begin in: the      *)
(* state space is the sum of the parts', and every property is one of the  *)
(* part it is about.                                                       *)
(***************************************************************************)
EXTENDS MoqObjectStream, MoqRelay, MoqSession, MoqWire

CONSTANTS pub1, pub2, sub1, sub2, video, catalog

VARIABLE part      \* the component this behaviour is about

moqVars == <<part, streamVars, relayVars, sessionVars, wireVars>>

-----------------------------------------------------------------------------
(* The relay: one publisher and two subscribers of a track, one of which   *)
(* may lose its connection; and two publishers of one namespace, the first *)
(* of which may die, and one subscriber that subscribes twice to a track   *)
(* that is never cached.                                                   *)
Relayed ==
  [active |-> {pub1, sub1, sub2}, tracks |-> {video}, maxSubs |-> 1, mayClose |-> {sub1}]
Republished ==
  [active |-> {pub1, pub2, sub1}, tracks |-> {catalog}, maxSubs |-> 2, mayClose |-> {pub1}]
RelayPlans == {Relayed, Republished}

-----------------------------------------------------------------------------
(* What is written to the streams of MoqWire.                              *)

RoleParam == [t \in {ROLE_PARAM} |-> 3]
RolePath == [t \in {ROLE_PARAM, ROLE_PATH} |-> IF t = ROLE_PARAM THEN 1 ELSE <<9, 9>>]
Unknown == [t \in {5} |-> <<9>>]
RoleUnknown == [t \in {ROLE_PARAM, 5} |-> IF t = ROLE_PARAM THEN 3 ELSE <<9>>]
TwoUnknown == [t \in {5, UNSUBSCRIBE} |-> <<9>>]

Sub(f, ps) ==
  [type |-> SUBSCRIBE, id |-> 1, alias |-> 2, ns |-> <<7>>, name |-> <<8, 8>>, filter |-> f,
   startGroup |-> IF f \in {AbsoluteStart, AbsoluteRange} THEN 1 ELSE 0,
   startObject |-> IF f \in {AbsoluteStart, AbsoluteRange} THEN 2 ELSE 0,
   endGroup |-> IF f = AbsoluteRange THEN 3 ELSE 0,
   endObject |-> IF f = AbsoluteRange THEN 4 ELSE 0,
   params |-> ps]

Ok(content, group, object) ==
  [type |-> SUBSCRIBE_OK, id |-> 1, expires |-> 0, content |-> content,
   group |-> group, object |-> object]

ControlItems ==
  { Sub(1, <<>>), Sub(3, <<>>), Sub(4, RolePath), Sub(2, Unknown),
    Sub(1, RoleUnknown), Ok(0, 0, 0), Ok(1, 2, 3), [type |-> UNSUBSCRIBE, id |-> 1],
    [type |-> ANNOUNCE, ns |-> <<>>, params |-> <<>>],
    [type |-> ANNOUNCE, ns |-> <<7>>, params |-> RolePath],
    [type |-> ANNOUNCE, ns |-> <<7>>, params |-> TwoUnknown],
    [type |-> ANNOUNCE_OK, ns |-> <<7, 7>>],
    [type |-> CLIENT_SETUP, versions |-> <<4>>, params |-> RoleParam],
    [type |-> CLIENT_SETUP, versions |-> <<3, 4>>, params |-> RolePath],
    [type |-> CLIENT_SETUP, versions |-> <<4>>, params |-> RoleUnknown],
    [type |-> SERVER_SETUP, version |-> 4, params |-> RoleParam] }

(* A group stream's objects leave their group 0.                           *)
AllObjects == [group : {0, 1}, id : {0, 3}, payload : {<<>>, <<9>>, <<9, 9>>}]

ObjectHeader == [id |-> 1, alias |-> 2, group |-> 3, order |-> 4]

-----------------------------------------------------------------------------
MoqInit ==
  /\ part \in {"stream", "relay", "session", "wire"}
  /\ StreamInit /\ (part # "stream" => side = "relay" /\ subs = {})
  /\ RelayInit /\ (part # "relay" => plan = Relayed)
  /\ SessionInit /\ (part # "session" => local = "relay")
  /\ WireInit /\ (part # "wire" => kind = "control")

MoqNext ==
  /\ UNCHANGED part
  /\ \/ part = "stream" /\ StreamNext /\ UNCHANGED <<relayVars, sessionVars, wireVars>>
     \/ part = "relay" /\ RelayNext /\ UNCHANGED <<streamVars, sessionVars, wireVars>>
     \/ part = "session" /\ SessionNext /\ UNCHANGED <<streamVars, relayVars, wireVars>>
     \/ part = "wire" /\ WireNext /\ UNCHANGED <<streamVars, relayVars, sessionVars>>

(* The fairness of each part, StreamFairness and so on, in the behaviours  *)
(* that are about it.                                                      *)
MoqSpec ==
  /\ MoqInit /\ [][MoqNext]_moqVars
  /\ \A p \in Pipes : WF_streamVars(part = "stream" /\ Pipe(p))
  /\ WF_streamVars(part = "stream" /\ Forwarding)
  /\ \A p \in Publishers : WF_relayVars(part = "relay" /\ ~fatal /\ OkLoop(p))
  /\ \A s \in Subscribers :
       /\ WF_relayVars(part = "relay" /\ ~fatal /\ SubscribeSteps(s))
       /\ WF_relayVars(part = "relay" /\ ~fatal /\ PipeSteps(s))
  /\ \A s \in Sessions : WF_relayVars(part = "relay" /\ ~fatal /\ CloseSteps(s))
  /\ SessionFairness
  /\ WF_wireVars(part = "wire" /\ (ServeCS \/ ReadHeader \/ ReadObjectBytes))
=============================================================================
