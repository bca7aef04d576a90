---------------------------- MODULE TrackedPackets ----------------------------
(***************************************************************************)
(* What a sent packet history promises its caller: a finite map from       *)
(* packet numbers to packets, with numbers used once, in order.            *)
(***************************************************************************)
EXTENDS Integers, FiniteSets

CONSTANTS Kinds, MaxPacketNumber

VARIABLES
  tracked,   \* packet number -> kind of packet
  highest    \* highest packet number sent or skipped, -1 before the first

vars == <<tracked, highest>>

Init == tracked = [n \in {} |-> ""] /\ highest = -1

(* A history may start at any number; after that none is left out.         *)
Send(n, kind) ==
  /\ highest = -1 \/ n = highest + 1
  /\ highest' = n
  /\ tracked' = [m \in DOMAIN tracked \cup {n} |-> IF m = n THEN kind ELSE tracked[m]]

Skip(n) ==
  /\ highest = -1 \/ n = highest + 1
  /\ highest' = n
  /\ UNCHANGED tracked

Forget(n) ==
  /\ n \in DOMAIN tracked
  /\ tracked' = [m \in DOMAIN tracked \ {n} |-> tracked[m]]
  /\ UNCHANGED highest

Next ==
  \/ \E n \in 0..MaxPacketNumber : Skip(n) \/ \E kind \in Kinds : Send(n, kind)
  \/ \E n \in DOMAIN tracked : Forget(n)

Spec == Init /\ [][Next]_vars
===============================================================================
