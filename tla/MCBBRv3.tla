------------------------------- MODULE MCBBRv3 -------------------------------
(***************************************************************************)
(* quic-go's BBRv3 for TLC: the sender and its statistics, side by side.   *)
(* A behaviour picks one of the two and leaves the other as it begins.     *)
(***************************************************************************)
EXTENDS BBRv3Sender, BBRv3Stats

CONSTANTS a1, a2

VARIABLE part      \* the component this behaviour is about

CalmWork == [apps |-> {a1}, events |-> {}]
OneWork == [apps |-> {a1}, events |-> Events]
BusyWork == [apps |-> {a1, a2}, events |-> Events]
CalmToBusy == {CalmWork, OneWork, BusyWork}

(* One packet of the handshake, whose number the first 1-RTT packet takes  *)
(* again, and what the two filters need to expire one after the other.     *)
PacketBounds == [s \in Spaces |-> IF s = "app" THEN 3 ELSE 1]

BBRv3Init ==
  /\ part \in {"sender", "stats"}
  /\ SenderInit
  /\ StatsInit /\ (part # "stats" => work = CalmWork)

BBRv3Next ==
  /\ UNCHANGED part
  /\ \/ part = "sender" /\ SenderNext /\ UNCHANGED statsVars
     \/ part = "stats" /\ StatsNext /\ UNCHANGED senderVars

(* The fairness of StatsFairSpec, for the behaviours of the statistics.    *)
BBRv3Spec ==
  /\ BBRv3Init /\ [][BBRv3Next]_<<part, senderVars, statsVars>>
  /\ \A c \in Collectors :
       /\ WF_statsVars(part = "stats" /\ fatal = "none" /\ LoggerPrinted(c))
       /\ SF_statsVars(part = "stats" /\ fatal = "none" /\ LoggerStop(c))
  /\ \A a \in Apps : SF_statsVars(part = "stats" /\ fatal = "none" /\ Finish(a))
=============================================================================
