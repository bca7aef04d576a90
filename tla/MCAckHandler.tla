----------------------------- MODULE MCAckHandler -----------------------------
(***************************************************************************)
(* quic-go's sent packet history and sent packet handler for TLC, side by  *)
(* side: a behaviour picks one of the two and leaves the other as it       *)
(* begins.                                                                 *)
(***************************************************************************)
EXTENDS SentPacketHistory, SentPacketHandler, SequencesExt

VARIABLE part      \* the component this behaviour is about

(* An established connection with MTU probes and two RTT estimates.        *)
Data ==
  [perspective |-> "client", established |-> TRUE, kinds |-> {"data", "mtuProbe"},
   maxRTT |-> 2, maxPto |-> 6, cwnd |-> 3, maxNumber |-> 4, maxTime |-> 3,
   maxBytes |-> 0, maxMigrations |-> 0, maxPTOCount |-> 2]

(* A server that also sends ACK-only packets and path probes.              *)
Probing ==
  [perspective |-> "server", established |-> TRUE, kinds |-> {"data", "ack", "pathProbe"},
   maxRTT |-> 1, maxPto |-> 4, cwnd |-> 3, maxNumber |-> 3, maxTime |-> 3,
   maxBytes |-> 0, maxMigrations |-> 1, maxPTOCount |-> 2]

(* The handshake of a server and of a client, which may use 0-RTT.         *)
ServerHandshake ==
  [perspective |-> "server", established |-> FALSE, kinds |-> {"data"},
   maxRTT |-> 1, maxPto |-> 4, cwnd |-> 2, maxNumber |-> 1, maxTime |-> 2,
   maxBytes |-> 2, maxMigrations |-> 0, maxPTOCount |-> 1]

ClientHandshake ==
  [perspective |-> "client", established |-> FALSE, kinds |-> {"data", "zeroRTT"},
   maxRTT |-> 1, maxPto |-> 4, cwnd |-> 2, maxNumber |-> 1, maxTime |-> 2,
   maxBytes |-> 1, maxMigrations |-> 0, maxPTOCount |-> 1]

AllScenarios == {Data, Probing, ServerHandshake, ClientHandshake}

(* The loop over PathProbes, call by call, on an array of n probes: array  *)
(* is what is under the slice, len the length of the slice that is left.   *)
RemovePathProbes(n) ==
  LET Call(st, i) ==
        LET at == {k \in 1..st.len : st.array[k] = st.array[i]}
        IN IF at = {} THEN st
           ELSE [array |-> [k \in 1..n |->
                    IF Min(at) <= k /\ k < st.len THEN st.array[k + 1] ELSE st.array[k]],
                 len |-> st.len - 1]
      numbers == [i \in 1..n |-> i]
      end == FoldLeft(Call, [array |-> numbers, len |-> n], numbers)
  IN {end.array[k] : k \in 1..end.len}

ASSUME RemoveWhileIteratingLeaves ==
  \A n \in 0..8 : RemovePathProbes(n) = (1..n) \ RemoveWhileIterating([i \in 1..n |-> 0])

-----------------------------------------------------------------------------
AckInit ==
  /\ part \in {"history", "handler"}
  /\ HistoryInit
  /\ HandlerInit /\ (part # "handler" => conf = Probing)

AckNext ==
  /\ UNCHANGED part
  /\ \/ part = "history" /\ HistoryNext /\ UNCHANGED handlerVars
     \/ part = "handler" /\ HandlerNext /\ UNCHANGED historyVars

AckSpec == AckInit /\ [][AckNext]_<<part, historyVars, handlerVars>>
=============================================================================
