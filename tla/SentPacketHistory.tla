-------------------------- MODULE SentPacketHistory --------------------------
(***************************************************************************)
(* quic-go's sentPacketHistory: the packets of one packet number space in  *)
(* a slice that starts at the oldest tracked packet and has holes, the     *)
(* path probes in a slice of their own, and the count of outstanding       *)
(* packets.  The slices are sequences, a hole is Hole.                     *)
(***************************************************************************)
EXTENDS Integers, Sequences, FiniteSets, Functions

CONSTANTS
  MaxPacketNumber,    \* bound: packet numbers are 0..MaxPacketNumber
  MaxSkippedPackets   \* maxSkippedPackets, 4 in the code

ASSUME HistoryAssumption ==
  MaxPacketNumber \in Nat /\ MaxSkippedPackets \in Nat \ {0}

(* What the history tells apart: an ack-eliciting packet, one that only    *)
(* acks, a path MTU probe, and the placeholder of a path probe.            *)
Kinds == {"data", "ack", "mtuProbe", "pathProbe"}
Hole == "nil"
Invalid == -1         \* protocol.InvalidPacketNumber

VARIABLES
  packets, firstPacketNumber, highestPacketNumber, numOutstanding,
  skippedPackets,
  pathProbePackets,
  panic,              \* a panic of the package was reached
  allSkipped          \* history: every packet number skipped so far

historyVars == <<packets, firstPacketNumber, highestPacketNumber, numOutstanding,
          skippedPackets, pathProbePackets, panic, allSkipped>>

Outstanding(kind) == kind = "data"

HistoryInit ==
  /\ packets = <<>>
  /\ firstPacketNumber = Invalid /\ highestPacketNumber = Invalid
  /\ numOutstanding = 0
  /\ skippedPackets = <<>> /\ pathProbePackets = <<>>
  /\ panic = FALSE /\ allSkipped = {}

-----------------------------------------------------------------------------
(* The packets that Packets() yields, by packet number.                    *)
Tracked ==
  [n \in {firstPacketNumber + i - 1 : i \in {j \in DOMAIN packets : packets[j] # Hole}} |->
     packets[n - firstPacketNumber + 1]]

(* getIndex, counted from 1; 0 when the number is not in the slice.        *)
GetIndex(n) ==
  IF n < firstPacketNumber \/ n - firstPacketNumber + 1 > Len(packets)
  THEN 0 ELSE n - firstPacketNumber + 1

(* checkSequentialPacketNumberUse(n), with the slice it leaves.            *)
UseNumber(n) ==
  /\ panic' = (highestPacketNumber # Invalid /\ n # highestPacketNumber + 1)
  /\ highestPacketNumber' = n
  /\ firstPacketNumber' = IF packets = <<>> THEN n ELSE firstPacketNumber

(* The next number of the packet number generator, any at the start.       *)
NextNumbers ==
  {n \in 0..MaxPacketNumber : highestPacketNumber = Invalid \/ n = highestPacketNumber + 1}

(* Mutant: a skipped number leaves no hole.                                *)
SkippedPacketNoHole(n) ==
  /\ UseNumber(n)
  /\ skippedPackets' = Append(skippedPackets, n)
  /\ allSkipped' = allSkipped \cup {n}
  /\ UNCHANGED <<packets, numOutstanding, pathProbePackets>>

(* Only the last MaxSkippedPackets skipped numbers are remembered.         *)
SkippedPacket(n) ==
  /\ UseNumber(n)
  /\ packets' = IF packets = <<>> THEN packets ELSE Append(packets, Hole)
  /\ skippedPackets' =
       Append(IF Len(skippedPackets) = MaxSkippedPackets THEN Tail(skippedPackets)
                                                         ELSE skippedPackets, n)
  /\ allSkipped' = allSkipped \cup {n}
  /\ UNCHANGED <<numOutstanding, pathProbePackets>>

SentPacket(n, kind) ==
  /\ UseNumber(n)
  /\ packets' = Append(packets, kind)
  /\ numOutstanding' = numOutstanding + (IF Outstanding(kind) THEN 1 ELSE 0)
  /\ UNCHANGED <<skippedPackets, pathProbePackets, allSkipped>>

SentPathProbePacket(n) ==
  /\ UseNumber(n)
  /\ packets' = Append(packets, "pathProbe")
  /\ pathProbePackets' = Append(pathProbePackets, n)
  /\ UNCHANGED <<numOutstanding, skippedPackets, allSkipped>>

(* cleanupStart on the slice s: no hole is left at its start.              *)
FirstLive(s) == CHOOSE i \in DOMAIN s : s[i] # Hole /\ \A j \in 1..(i - 1) : s[j] = Hole

CleanupStart(s) ==
  IF \E i \in DOMAIN s : s[i] # Hole
  THEN /\ packets' = SubSeq(s, FirstLive(s), Len(s))
       /\ firstPacketNumber' = firstPacketNumber + FirstLive(s) - 1
  ELSE packets' = <<>> /\ firstPacketNumber' = Invalid

Leave(i) ==
  /\ numOutstanding' = numOutstanding - (IF Outstanding(packets[i]) THEN 1 ELSE 0)
  /\ UNCHANGED <<highestPacketNumber, skippedPackets, pathProbePackets, allSkipped>>

(* Mutant: holes next to a removed packet stay.                            *)
RemoveFirstOnly(n) ==
  LET i == GetIndex(n)
      s == [packets EXCEPT ![i] = Hole]
  IN /\ i # 0 /\ packets[i] # Hole
     /\ Leave(i)
     /\ IF i = 1
        THEN packets' = Tail(s) /\ firstPacketNumber' = firstPacketNumber + 1
        ELSE packets' = s /\ UNCHANGED firstPacketNumber
     /\ panic' = (numOutstanding' < 0 \/ (packets' # <<>> /\ packets'[1] = Hole))

(* Remove: holes directly before the packet go when nothing is before them. *)
RemovePacket(n) ==
  LET i == GetIndex(n)
      s == [packets EXCEPT ![i] = Hole]
  IN /\ i # 0 /\ packets[i] # Hole
     /\ Leave(i)
     /\ IF \E j \in 1..(i - 1) : packets[j] # Hole
        THEN packets' = s /\ UNCHANGED firstPacketNumber
        ELSE CleanupStart(s)
     /\ panic' = (numOutstanding' < 0 \/ (packets' # <<>> /\ packets'[1] = Hole))

DeclareLost(n) ==
  LET i == GetIndex(n)
      s == [packets EXCEPT ![i] = Hole]
  IN /\ i # 0 /\ packets[i] # Hole
     /\ Leave(i)
     /\ IF i = 1 THEN CleanupStart(s) ELSE packets' = s /\ UNCHANGED firstPacketNumber
     /\ panic' = (numOutstanding' < 0)

RemovePathProbe(n) ==
  /\ n \in Range(pathProbePackets)
  /\ pathProbePackets' = SelectSeq(pathProbePackets, LAMBDA m : m # n)
  /\ UNCHANGED <<packets, firstPacketNumber, highestPacketNumber, numOutstanding,
                 skippedPackets, panic, allSkipped>>

(* Difference(a, b): numbers between b and a, skipped ones left out.       *)
Difference(a, b) ==
  IF \/ skippedPackets = <<>>
     \/ a < Head(skippedPackets)
     \/ b > skippedPackets[Len(skippedPackets)]
  THEN a - b
  ELSE (a - b) - Cardinality({i \in DOMAIN skippedPackets :
                                b < skippedPackets[i] /\ skippedPackets[i] < a})

HistoryNext ==
  \/ \E n \in NextNumbers :
       \/ SkippedPacket(n) \/ SentPathProbePacket(n)
       \/ \E kind \in Kinds \ {"pathProbe"} : SentPacket(n, kind)
  \/ \E n \in DOMAIN Tracked : RemovePacket(n) \/ DeclareLost(n)
  \/ \E n \in Range(pathProbePackets) : RemovePathProbe(n)

HistorySpec == HistoryInit /\ [][HistoryNext]_historyVars

-----------------------------------------------------------------------------
(* The types of the variables; the skipped numbers remembered are bounded. *)
HistoryTypeOK ==
  /\ packets \in Seq(Kinds \cup {Hole})
  /\ firstPacketNumber \in {Invalid} \cup (0..MaxPacketNumber)
  /\ highestPacketNumber \in {Invalid} \cup (0..MaxPacketNumber)
  /\ numOutstanding \in Nat
  /\ skippedPackets \in Seq(0..MaxPacketNumber)
  /\ Len(skippedPackets) <= MaxSkippedPackets
  /\ pathProbePackets \in Seq(0..MaxPacketNumber)
  /\ panic \in BOOLEAN
  /\ allSkipped \subseteq 0..MaxPacketNumber

(* None of the package's panics is reached: numbers are used in order, the *)
(* count of outstanding packets stays natural, and Remove leaves no hole   *)
(* at the start.                                                           *)
HistoryNoPanic == ~panic

(* numOutstanding counts the outstanding packets of the slice, over any    *)
(* order of sends, losses and removals.                                    *)
OutstandingCounted ==
  numOutstanding = Cardinality({i \in DOMAIN packets : Outstanding(packets[i])})

(* The distance of two tracked packets counts the numbers really sent      *)
(* after the older one, as long as no number skipped after it has been     *)
(* forgotten (Difference, the packet threshold of loss detection).         *)
DifferenceExact ==
  \A a, b \in DOMAIN Tracked :
    b < a /\ (\A n \in allSkipped \ Range(skippedPackets) : n < b) =>
      Difference(a, b) = Cardinality(((b + 1)..a) \ allSkipped)

(* What loss detection relies on, after any order of sends, skips, losses  *)
(* and removals: no panic, the count of outstanding packets, distances.    *)
HistoryExact == HistoryNoPanic /\ OutstandingCounted /\ DifferenceExact

(* The history is a map from the numbers of its packets to the packets.    *)
Abstract == INSTANCE TrackedPackets WITH
  tracked <- Tracked, highest <- highestPacketNumber

ImplementsTracked == Abstract!Spec
=============================================================================
