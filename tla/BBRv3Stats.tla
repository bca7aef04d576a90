------------------------------ MODULE BBRv3Stats ------------------------------
(***************************************************************************)
(* The statistics of quic-go's BBRv3Sender: the connection's goroutine     *)
(* updates them, application goroutines read, stop and replace them, and   *)
(* each collector has a logger goroutine that its Stop ends.               *)
(*                                                                         *)
(* A section under the write lock is one step, taken while no reader holds *)
(* the lock; LogStats holds the read lock over two steps.  b.stats is read *)
(* without a lock, once in a nil check and again in every call after it.   *)
(* Of the counters the model keeps the bytes sent and acked, in packets.   *)
(***************************************************************************)
EXTENDS Naturals

CONSTANTS
  Apps,            \* application goroutines that hold the sender
  Workloads,       \* what may happen: [apps, events]
  MaxCollectors,   \* bound: collectors created
  MaxSent          \* bound: packets sent

Events == {"loss", "migration", "disabling"}

ASSUME WorkloadsAssumption == Workloads \subseteq [apps : SUBSET Apps, events : SUBSET Events]
ASSUME BoundsAssumption == MaxCollectors \in Nat \ {0} /\ MaxSent \in Nat

Collectors == 1..MaxCollectors   \* in the order of their creation

VARIABLES
  work,        \* the workload, chosen at the start: the goroutines that call
               \* StopStats and SetStatsConfig, and the events that happen
  stats,       \* b.stats: a collector, or 0 for nil
  created,     \* collectors made so far
  running,     \* collectors with loggerRunning
  closed,      \* collectors whose stopLogger channel is closed
  logger,      \* logger goroutine: "none", "select", "logging", "done"
  totalSent, totalAcked,   \* counters, by collector
  sent, flight,   \* packets the connection has sent, and has in flight
  conn,        \* the connection's goroutine
  app,         \* application goroutines: what each does, on which collector
  stopped,     \* the last application call to return was StopStats
  fatal        \* the error that ended the process

counters == <<totalSent, totalAcked>>
statsVars == <<work, stats, created, running, closed, logger, counters, sent, flight,
          conn, app, stopped, fatal>>

Idle == [op |-> "idle", on |-> 0]

(* NewBBRv3SenderWithStats: the first collector exists and logs.           *)
StatsInit ==
  /\ work \in Workloads
  /\ stats = 1 /\ created = 1
  /\ running = {1} /\ closed = {}
  /\ logger = [c \in Collectors |-> IF c = 1 THEN "select" ELSE "none"]
  /\ totalSent = [c \in Collectors |-> 0] /\ totalAcked = [c \in Collectors |-> 0]
  /\ sent = 0 /\ flight = 0
  /\ conn = "idle" /\ app = [a \in Apps |-> Idle]
  /\ stopped = FALSE /\ fatal = "none"

(* No reader holds the collector's lock.                                   *)
Lockable(c) == logger[c] # "logging"

Die(error) ==
  /\ fatal' = error
  /\ UNCHANGED <<work, stats, created, running, closed, logger, counters, sent,
                 flight, conn, app, stopped>>

-----------------------------------------------------------------------------
(* The connection's goroutine.                                             *)

Report(call) ==
  /\ conn' = IF stats = 0 THEN "idle" ELSE call
  /\ UNCHANGED <<work, stats, created, running, closed, logger, counters, app,
                 stopped, fatal>>

StatsOnPacketSent ==
  /\ conn = "idle" /\ sent < MaxSent
  /\ sent' = sent + 1 /\ flight' = flight + 1
  /\ Report("sent")

StatsOnPacketAcked ==
  /\ conn = "idle" /\ flight > 0
  /\ flight' = flight - 1
  /\ Report("acked") /\ UNCHANGED sent

StatsOnCongestionEvent ==
  /\ "loss" \in work.events /\ conn = "idle" /\ flight > 0
  /\ flight' = flight - 1
  /\ Report("lost") /\ UNCHANGED sent

(* The first update of a call: OnPacketSent or OnPacketAcked.              *)
CountUpdate ==
  /\ conn \in {"sent", "acked"} /\ stats # 0 /\ Lockable(stats)
  /\ totalSent' = [totalSent EXCEPT ![stats] = @ + IF conn = "sent" THEN 1 ELSE 0]
  /\ totalAcked' = [totalAcked EXCEPT ![stats] = @ + IF conn = "acked" THEN 1 ELSE 0]
  /\ conn' = "rest"
  /\ UNCHANGED <<work, stats, created, running, closed, logger, sent, flight,
                 app, stopped, fatal>>

(* OnBytesLost unlocks a mutex that its goroutine does not hold.           *)
OnBytesLost ==
  /\ conn = "lost" /\ stats # 0
  /\ Die("unlock of unlocked RWMutex")

(* The updates after the first, each of which reads b.stats again.         *)
RestOfUpdates ==
  /\ conn = "rest" /\ stats # 0 /\ Lockable(stats)
  /\ conn' = "idle"
  /\ UNCHANGED <<work, stats, created, running, closed, logger, counters, sent,
                 flight, app, stopped, fatal>>

UpdateOfNil ==
  /\ conn # "idle" /\ stats = 0
  /\ Die("nil statistics")

(* A migration replaces the controller by one without statistics; no       *)
(* packet of the old path is in flight any more.                           *)
StatsOnRetransmissionTimeout ==
  /\ "migration" \in work.events /\ conn = "idle" /\ stats # 0 /\ Lockable(stats)
  /\ stats' = 0
  /\ flight' = 0
  /\ UNCHANGED <<work, created, running, closed, logger, counters, sent, conn,
                 app, stopped, fatal>>

-----------------------------------------------------------------------------
(* The logger goroutine of collector c.                                    *)

LoggerTick(c) ==
  /\ logger[c] = "select"
  /\ logger' = [logger EXCEPT ![c] = "logging"]
  /\ UNCHANGED <<work, stats, created, running, closed, counters, sent, flight,
                 conn, app, stopped, fatal>>

LoggerPrinted(c) ==
  /\ logger[c] = "logging"
  /\ logger' = [logger EXCEPT ![c] = "select"]
  /\ UNCHANGED <<work, stats, created, running, closed, counters, sent, flight,
                 conn, app, stopped, fatal>>

LoggerStop(c) ==
  /\ logger[c] = "select" /\ c \in closed
  /\ logger' = [logger EXCEPT ![c] = "done"]
  /\ UNCHANGED <<work, stats, created, running, closed, counters, sent, flight,
                 conn, app, stopped, fatal>>

-----------------------------------------------------------------------------
(* An application goroutine a.  Its calls check b.stats and read it again. *)

Do(a, op, c) == app' = [app EXCEPT ![a] = [op |-> op, on |-> c]]

(* StopStats, or the Stop that SetStatsConfig begins with.                 *)
CallStop(a, op) ==
  /\ app[a].op = "idle" /\ stats # 0
  /\ Do(a, op, 0)
  /\ stopped' = FALSE
  /\ UNCHANGED <<work, stats, created, running, closed, logger, counters, sent,
                 flight, conn, fatal>>

(* StopStats on a sender without statistics returns at once.               *)
CallStopNil(a) ==
  /\ app[a].op = "idle" /\ stats = 0
  /\ stopped' = TRUE
  /\ UNCHANGED <<work, stats, created, running, closed, logger, counters, sent,
                 flight, conn, app, fatal>>

(* SetStatsConfig on a sender without statistics has nothing to stop.      *)
CallReplace(a) ==
  /\ app[a].op = "idle" /\ stats = 0
  /\ Do(a, "replace", 0)
  /\ stopped' = FALSE
  /\ UNCHANGED <<work, stats, created, running, closed, logger, counters, sent,
                 flight, conn, fatal>>

After(op) == IF op = "replaceStop" THEN "replace" ELSE "idle"

(* Mutant: loggerRunning is not tested.                                    *)
StopCheckAlways(a) ==
  /\ app[a].op \in {"stop", "replaceStop"} /\ stats # 0 /\ Lockable(stats)
  /\ Do(a, IF app[a].op = "stop" THEN "close" ELSE "replaceClose", stats)
  /\ UNCHANGED <<work, stats, created, running, closed, logger, counters, sent,
                 flight, conn, stopped, fatal>>

(* Stop, first locked section: return unless the logger runs.              *)
StopCheck(a) ==
  LET op == app[a].op IN
  /\ op \in {"stop", "replaceStop"} /\ stats # 0 /\ Lockable(stats)
  /\ IF stats \in running
     THEN Do(a, IF op = "stop" THEN "close" ELSE "replaceClose", stats) /\ UNCHANGED stopped
     ELSE Do(a, After(op), 0) /\ stopped' = (op = "stop")
  /\ UNCHANGED <<work, stats, created, running, closed, logger, counters, sent,
                 flight, conn, fatal>>

StopOfNil(a) ==
  /\ app[a].op \in {"stop", "replaceStop", "start"} /\ stats = 0
  /\ Die("nil statistics")

(* Mutant: the stop channel is not closed.                                 *)
StopCloseForgotten(a) ==
  /\ app[a].op \in {"close", "replaceClose"}
  /\ Do(a, IF app[a].op = "close" THEN "mark" ELSE "replaceMark", app[a].on)
  /\ UNCHANGED <<work, stats, created, running, closed, logger, counters, sent,
                 flight, conn, stopped, fatal>>

(* close(s.stopLogger), outside the lock.                                  *)
StopClose(a) ==
  /\ app[a].op \in {"close", "replaceClose"} /\ app[a].on \notin closed
  /\ closed' = closed \cup {app[a].on}
  /\ Do(a, IF app[a].op = "close" THEN "mark" ELSE "replaceMark", app[a].on)
  /\ UNCHANGED <<work, stats, created, running, logger, counters, sent, flight,
                 conn, stopped, fatal>>

StopCloseClosed(a) ==
  /\ app[a].op \in {"close", "replaceClose"} /\ app[a].on \in closed
  /\ Die("close of closed channel")

(* Stop, second locked section.                                            *)
StopMark(a) ==
  LET op == app[a].op IN
  /\ op \in {"mark", "replaceMark"} /\ Lockable(app[a].on)
  /\ running' = running \ {app[a].on}
  /\ Do(a, IF op = "mark" THEN "idle" ELSE "replace", 0)
  /\ stopped' = (op = "mark")
  /\ UNCHANGED <<work, stats, created, closed, logger, counters, sent, flight,
                 conn, fatal>>

(* SetStatsConfig with an enabled configuration: a new collector.          *)
Replace(a) ==
  /\ app[a].op = "replace" /\ created + 1 \in Collectors
  /\ created' = created + 1
  /\ stats' = created + 1
  /\ Do(a, "start", 0)
  /\ UNCHANGED <<work, running, closed, logger, counters, sent, flight, conn,
                 stopped, fatal>>

(* SetStatsConfig without one.                                             *)
Disable(a) ==
  /\ "disabling" \in work.events /\ app[a].op = "replace"
  /\ stats' = 0
  /\ Do(a, "idle", 0)
  /\ UNCHANGED <<work, created, running, closed, logger, counters, sent, flight,
                 conn, stopped, fatal>>

(* Start: the new collector's logger.                                      *)
Start(a) ==
  /\ app[a].op = "start" /\ stats # 0 /\ Lockable(stats)
  /\ IF stats \in running
     THEN UNCHANGED <<running, logger>>
     ELSE /\ running' = running \cup {stats}
          /\ logger' = [logger EXCEPT ![stats] = "select"]
  /\ Do(a, "idle", 0)
  /\ UNCHANGED <<work, stats, created, closed, counters, sent, flight, conn,
                 stopped, fatal>>

-----------------------------------------------------------------------------
Conn ==
  \/ StatsOnPacketSent \/ StatsOnPacketAcked \/ StatsOnCongestionEvent
  \/ CountUpdate \/ OnBytesLost \/ RestOfUpdates \/ UpdateOfNil
  \/ StatsOnRetransmissionTimeout

Logger(c) == LoggerTick(c) \/ LoggerPrinted(c) \/ LoggerStop(c)

Finish(a) ==
  \/ StopCheck(a) \/ StopOfNil(a) \/ StopClose(a) \/ StopCloseClosed(a)
  \/ StopMark(a) \/ Replace(a) \/ Start(a)

App(a) ==
  \/ \E op \in {"stop", "replaceStop"} : CallStop(a, op)
  \/ CallStopNil(a) \/ CallReplace(a) \/ Disable(a) \/ Finish(a)

StatsNext ==
  /\ fatal = "none"
  /\ \/ Conn
     \/ \E c \in Collectors : Logger(c)
     \/ \E a \in work.apps : App(a)

StatsSpec == StatsInit /\ [][StatsNext]_statsVars

(* Goroutines run.  A writer waits at most for the readers it found, and a *)
(* select takes a closed channel before long, hence strong fairness.       *)
StatsFairSpec ==
  /\ StatsSpec
  /\ \A c \in Collectors :
       /\ WF_statsVars(fatal = "none" /\ LoggerPrinted(c))
       /\ SF_statsVars(fatal = "none" /\ LoggerStop(c))
  /\ \A a \in Apps : SF_statsVars(fatal = "none" /\ Finish(a))

-----------------------------------------------------------------------------
(* The statistics never end the process: no unlock of a free mutex         *)
(* (OnBytesLost), no second close of stopLogger (Stop) and no call on a    *)
(* nil collector after the check for nil.                                  *)
NoFatal == fatal = "none"

OneApp == \A a, b \in work.apps : a = b

(* One application goroutine, and none of the other events.                *)
Calm == work.events = {} /\ OneApp

(* In a calm connection the statistics do not end the process, whenever    *)
(* the application stops and replaces them between the connection's own    *)
(* reads of b.stats.                                                       *)
CalmNoFatal == Calm => NoFatal

(* With one goroutine that stops and replaces the statistics, a logger     *)
(* that nobody has told to stop belongs to the collector the sender holds, *)
(* so that a later StopStats or SetStatsConfig ends it.                    *)
NoOrphanLogger ==
  Calm =>
    \A c \in Collectors :
      logger[c] \in {"select", "logging"} /\ c \notin closed => c = stats

(* Until the statistics are replaced, the totals a snapshot or the log     *)
(* shows never have more acked than sent, though each is updated in a      *)
(* locked section of its own.                                              *)
AckedWithinSent == created = 1 => totalAcked[1] <= totalSent[1]

(* With one such goroutine, a collector that says its logger runs has a    *)
(* logger goroutine, or its channel is closed and a Stop is under way      *)
(* (Start, Stop), also across migrations and a disabled configuration.     *)
RunningHasLogger ==
  OneApp =>
    \A c \in running :
      \/ logger[c] \in {"select", "logging"}
      \/ c \in closed /\ \E a \in work.apps : app[a].on = c

(* The collector, its logger goroutine and the calls that stop and replace *)
(* them stay consistent, up to the error that ends a busy process.         *)
StatsConsistent == CalmNoFatal /\ NoOrphanLogger /\ AckedWithinSent /\ RunningHasLogger

(* Once StopStats has returned in a calm connection, logging ends unless   *)
(* the application configures the statistics again (Stop, statsLogger).    *)
StopEndsLogging ==
  []<>(Calm /\ stopped => \A c \in Collectors : logger[c] \in {"none", "done"})

===============================================================================
