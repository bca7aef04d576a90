------------------------------- MODULE MoqRelay -------------------------------
(***************************************************************************)
(* The relay between its sessions: the announced namespace, the            *)
(* subscriptions in each session's StreamsMap, one RelayStream per         *)
(* upstream subscription, and the SUBSCRIBE_OK messages and object streams *)
(* that go back to the subscribers.                                        *)
(*                                                                         *)
(* Every session has a control goroutine (ServeCS) that handles one        *)
(* message at a time, a goroutine that accepts its streams, and one that   *)
(* closes it.  A step is what a goroutine does between two lock operations *)
(* or writes.  There is one namespace.  A stream ID is namespace and track *)
(* name: GetStreamID leaves out the track alias, and so does the model.    *)
(* The random upstream subscribe IDs are fresh: a RelayStream's ID is its  *)
(* place in rss.  What happens to the objects of a stream once its header  *)
(* is out is the subject of MoqObjectStream.                               *)
(***************************************************************************)
EXTENDS Integers, Sequences, FiniteSets

CONSTANTS
  Publishers, Subscribers,   \* sessions by remote role
  Tracks,                    \* track names
  FreshTracks,               \* the ".catalog" and ".mp4" ones, never cached
  Plans,                     \* bound: what the peers may do
  MaxStreams,                \* bound: object streams publishers open
  None

(* In a plan the sessions `active' announce and subscribe, subscribers ask *)
(* for `tracks', each at most maxSubs times, and the sessions mayClose can *)
(* lose their connection.                                                  *)
PlanType == [active : SUBSET (Publishers \cup Subscribers), tracks : SUBSET Tracks,
             maxSubs : Nat, mayClose : SUBSET (Publishers \cup Subscribers)]

ASSUME SessionsAssumption == Publishers \cap Subscribers = {} /\ None \notin Publishers
ASSUME TracksAssumption == FreshTracks \subseteq Tracks
ASSUME PlansAssumption == Plans \subseteq PlanType /\ MaxStreams \in Nat

Sessions == Publishers \cup Subscribers

VARIABLES
  plan,        \* chosen at the start
  owner,       \* sm.namespaces[ns]
  sessions,  \* sm.sessions
  announced,   \* subscribers an ANNOUNCE of the namespace was written to
  closed,      \* sessions whose connection is closed
  closing,     \* HandleClose: RelayStreams each closing session has still to leave
  asked,       \* SUBSCRIBEs sent by each subscriber: [subid, track]
  rss,         \* the RelayStreams: [pub, track, subs]
  subscribed,  \* SubscribedStreams of each subscriber: [subid, rs]
  upstream,    \* RelayStreams whose SUBSCRIBE was written to the publisher
  accepted,    \* RelayStreams the publisher has answered
  ctl,         \* the control goroutine of each session
  cachedOk,    \* goroutines about to write a SUBSCRIBE_OK for a cached stream
  oks,         \* SUBSCRIBE_OKs written to each subscriber: [subid, rs]
  streams,     \* object streams: [rs, want, pend, heads]; want records for
               \* the properties who had finished subscribing on arrival
  fatal        \* the Go runtime stopped the process on a concurrent map access

relayVars == <<plan, owner, sessions, announced, closed, closing, asked, rss, subscribed,
          upstream, accepted, ctl, cachedOk, oks, streams, fatal>>

Idle == [at |-> "idle"]

RelayInit ==
  /\ plan \in Plans
  /\ owner = None
  /\ sessions = Sessions
  /\ announced = {}
  /\ closed = {}
  /\ closing = [s \in Sessions |-> None]
  /\ asked = [s \in Subscribers |-> {}]
  /\ rss = <<>>
  /\ subscribed = [s \in Subscribers |-> {}]
  /\ upstream = {}
  /\ accepted = {}
  /\ ctl = [s \in Sessions |-> Idle]
  /\ cachedOk = {}
  /\ oks = [s \in Subscribers |-> {}]
  /\ streams = <<>>
  /\ fatal = FALSE

-----------------------------------------------------------------------------
(* StreamsMap and locks *)

(* GetSubID: the map is searched by stream ID (namespace and track name);  *)
(* map order is arbitrary, so any matching entry may be found.             *)
GetSubIDs(s, r) == {e.subid : e \in {x \in subscribed[s] : rss[x.rs].track = rss[r].track}}

(* StreamIDGetStream on the publisher's IncomingStreams.                   *)
StreamIDGetStreams(p, t) == {r \in 1..Len(rss) : rss[r].pub = p /\ rss[r].track = t}

(* ForwardStream holds the read lock of Subscribers until every pipe has   *)
(* called WgDone; AddSubscriber and RemoveSubscriber need the write lock.  *)
WriteLockFree(r) == \A i \in 1..Len(streams) : streams[i].rs = r => streams[i].pend = {}

(* A map that some goroutine iterates over without the lock is written:    *)
(* Go's runtime may notice and stop the process.                           *)
RacyWrite(isRace) == fatal' \in (IF isRace THEN {TRUE, FALSE} ELSE {fatal})

Leaving(s) == closing[s] # None /\ s \in sessions

Iterating(r) == {p \in Publishers : ctl[p].at = "okiter" /\ ctl[p].rs = r}

-----------------------------------------------------------------------------
(* Publisher sessions *)

(* HandleAnnounce: addPublisher writes ANNOUNCE to the subscribers the     *)
(* manager knows (each in a goroutine of its own), then ANNOUNCE_OK.       *)
RelayHandleAnnounce(p) ==
  /\ ctl[p] = Idle /\ p \in plan.active \ closed
  /\ owner' = p
  /\ announced' = announced \cup ((sessions \cap Subscribers) \ closed)
  /\ UNCHANGED <<plan, sessions, closed, closing, asked, rss, subscribed, upstream,
                 accepted, ctl, cachedOk, oks, streams, fatal>>

(* HandleSubscribeOk found the RelayStream: ForwardSubscribeOk starts to   *)
(* iterate over Subscribers, without the lock.                             *)
HandleSubscribeOk(p, r) ==
  /\ ctl[p] = Idle /\ p \notin closed
  /\ r \in upstream \ accepted /\ rss[r].pub = p
  /\ accepted' = accepted \cup {r}
  /\ ctl' = [ctl EXCEPT ![p] = [at |-> "okiter", rs |-> r, todo |-> rss[r].subs]]
  /\ UNCHANGED <<plan, owner, sessions, announced, closed, closing, asked, rss, subscribed,
                 upstream, cachedOk, oks, streams, fatal>>

(* The loop body: SendSubscribeOk puts in the subscriber's own subscribe   *)
(* ID, or does nothing when SubscribedStreams has no entry for the stream. *)
SendSubscribeOk(p, s) ==
  /\ ctl[p].at = "okiter" /\ s \in ctl[p].todo
  /\ ctl' = [ctl EXCEPT ![p].todo = @ \ {s}]
  /\ LET ids == GetSubIDs(s, ctl[p].rs) IN
       IF ids = {} \/ s \in closed
       THEN UNCHANGED oks
       ELSE \E id \in ids :
              oks' = [oks EXCEPT ![s] = @ \cup {[subid |-> id, rs |-> ctl[p].rs]}]
  /\ UNCHANGED <<plan, owner, sessions, announced, closed, closing, asked, rss, subscribed,
                 upstream, accepted, cachedOk, streams, fatal>>

OkForwarded(p) ==
  /\ ctl[p].at = "okiter" /\ ctl[p].todo = {}
  /\ ctl' = [ctl EXCEPT ![p] = Idle]
  /\ UNCHANGED <<plan, owner, sessions, announced, closed, closing, asked, rss, subscribed,
                 upstream, accepted, cachedOk, oks, streams, fatal>>

(* DoHandle accepted a stream of a known subscription and ProcessObjects   *)
(* entered ForwardStream: one pipe per current subscriber.                 *)
ForwardStream(r) ==
  /\ r \in upstream /\ rss[r].pub \notin closed
  /\ Len(streams) < MaxStreams
  /\ LET done == {s \in rss[r].subs : ~(ctl[s].at = "register" /\ ctl[s].rs = r)} IN
       streams' = Append(streams, [rs |-> r, want |-> done,
                                   pend |-> rss[r].subs, heads |-> {}])
  /\ UNCHANGED <<plan, owner, sessions, announced, closed, closing, asked, rss, subscribed,
                 upstream, accepted, ctl, cachedOk, oks, fatal>>

(* Mutant: a pipe whose lookup fails returns without WgDone; None stands   *)
(* for its count, which nobody takes back.                                 *)
PipeNoWgDone(i, s) ==
  /\ s \in streams[i].pend
  /\ LET ids == GetSubIDs(s, streams[i].rs) IN
       \/ /\ ids = {}
          /\ streams' = [streams EXCEPT ![i].pend = (@ \ {s}) \cup {None}]
       \/ /\ s \in closed /\ ids # {}
          /\ streams' = [streams EXCEPT ![i].pend = @ \ {s}]
       \/ /\ s \notin closed
          /\ \E id \in ids :
               streams' = [streams EXCEPT ![i].pend = @ \ {s},
                                          ![i].heads = @ \cup {[sub |-> s, subid |-> id]}]
  /\ UNCHANGED <<plan, owner, sessions, announced, closed, closing, asked, rss, subscribed,
                 upstream, accepted, ctl, cachedOk, oks, fatal>>

(* ProcessMOQTStream up to WgDone: the header goes out with the            *)
(* subscriber's own subscribe ID, or the lookup or the open failed.        *)
PipeHeader(i, s) ==
  /\ s \in streams[i].pend
  /\ LET ids == GetSubIDs(s, streams[i].rs) IN
       IF ids = {} \/ s \in closed
       THEN streams' = [streams EXCEPT ![i].pend = @ \ {s}]
       ELSE \E id \in ids :
              streams' = [streams EXCEPT ![i].pend = @ \ {s},
                                         ![i].heads = @ \cup {[sub |-> s, subid |-> id]}]
  /\ UNCHANGED <<plan, owner, sessions, announced, closed, closing, asked, rss, subscribed,
                 upstream, accepted, ctl, cachedOk, oks, fatal>>
-----------------------------------------------------------------------------
(* Subscriber sessions *)

(* SUBSCRIBE arrives from a subscriber that saw the announcement; without  *)
(* a publisher HandleSubscribe drops it.                                   *)
HandleSubscribe(s, t) ==
  /\ ctl[s] = Idle /\ s \in (plan.active \cap announced) \ closed
  /\ Cardinality(asked[s]) < plan.maxSubs
  /\ LET id == Cardinality(asked[s]) + 1 IN
       /\ asked' = [asked EXCEPT ![s] = @ \cup {[subid |-> id, track |-> t]}]
       /\ ctl' = IF owner = None THEN ctl
                 ELSE [ctl EXCEPT ![s] = [at |-> "lookup", pub |-> owner, subid |-> id,
                                          track |-> t]]
  /\ UNCHANGED <<plan, owner, sessions, announced, closed, closing, rss, subscribed, upstream,
                 accepted, cachedOk, oks, streams, fatal>>

(* GetObjectStream: use the stream the publisher's map holds, and answer   *)
(* from a goroutine, or go on to SendSubscribe.                            *)
GetObjectStream(s) ==
  /\ ctl[s].at = "lookup"
  /\ LET found == StreamIDGetStreams(ctl[s].pub, ctl[s].track) IN
       IF found = {} \/ ctl[s].track \in FreshTracks
       THEN /\ ctl' = [ctl EXCEPT ![s].at = "create"]
            /\ UNCHANGED cachedOk
       ELSE \E r \in found :
              /\ ctl' = [ctl EXCEPT ![s] = [at |-> "add", subid |-> ctl[s].subid, rs |-> r]]
              /\ cachedOk' = cachedOk \cup {[sub |-> s, subid |-> ctl[s].subid, rs |-> r]}
  /\ UNCHANGED <<plan, owner, sessions, announced, closed, closing, asked, rss, subscribed,
                 upstream, accepted, oks, streams, fatal>>

(* SendSubscribe: a new RelayStream enters the publisher's IncomingStreams. *)
NewRelayStream(s) ==
  /\ ctl[s].at = "create"
  /\ rss' = Append(rss, [pub |-> ctl[s].pub, track |-> ctl[s].track, subs |-> {}])
  /\ ctl' = [ctl EXCEPT ![s] = [at |-> "send", subid |-> ctl[s].subid, rs |-> Len(rss) + 1]]
  /\ UNCHANGED <<plan, owner, sessions, announced, closed, closing, asked, subscribed, upstream,
                 accepted, cachedOk, oks, streams, fatal>>

(* ... and the SUBSCRIBE is written to the publisher, which a closed one   *)
(* never gets (WriteControlMessage only logs the error).                   *)
SendSubscribe(s) ==
  /\ ctl[s].at = "send"
  /\ upstream' = IF rss[ctl[s].rs].pub \in closed THEN upstream ELSE upstream \cup {ctl[s].rs}
  /\ ctl' = [ctl EXCEPT ![s].at = "add"]
  /\ UNCHANGED <<plan, owner, sessions, announced, closed, closing, asked, rss, subscribed,
                 accepted, cachedOk, oks, streams, fatal>>

(* AddSubscriber, under the write lock; a ForwardSubscribeOk that iterates *)
(* over the map meanwhile may or may not come to the new entry.            *)
AddSubscriber(s) ==
  /\ ctl[s].at = "add"
  /\ LET r == ctl[s].rs IN
       /\ WriteLockFree(r)
       /\ rss' = [rss EXCEPT ![r].subs = @ \cup {s}]
       /\ \E seen \in SUBSET Iterating(r) :
            ctl' = [x \in Sessions |->
                      IF x = s THEN [ctl[s] EXCEPT !.at = "register"]
                      ELSE IF x \in seen THEN [ctl[x] EXCEPT !.todo = @ \cup {s}]
                      ELSE ctl[x]]
       /\ RacyWrite(Iterating(r) # {})
  /\ UNCHANGED <<plan, owner, sessions, announced, closed, closing, asked, subscribed, upstream,
                 accepted, cachedOk, oks, streams>>

(* SubscribedStreams.AddStream; HandleClose iterates over that map without *)
(* its lock.                                                               *)
RegisterStream(s) ==
  /\ ctl[s].at = "register"
  /\ subscribed' = [subscribed EXCEPT ![s] =
                      {e \in @ : e.subid # ctl[s].subid}
                        \cup {[subid |-> ctl[s].subid, rs |-> ctl[s].rs]}]
  /\ ctl' = [ctl EXCEPT ![s] = Idle]
  /\ \/ UNCHANGED closing
     \/ Leaving(s) /\ closing' = [closing EXCEPT ![s] = @ \cup {ctl[s].rs}]
  /\ RacyWrite(Leaving(s))
  /\ UNCHANGED <<plan, owner, sessions, announced, closed, asked, rss, upstream, accepted,
                 cachedOk, oks, streams>>

(* The goroutine of HandleSubscribe that answers for a cached stream.      *)
SendCachedOk(k) ==
  /\ k \in cachedOk
  /\ cachedOk' = cachedOk \ {k}
  /\ oks' = IF k.sub \in closed THEN oks
            ELSE [oks EXCEPT ![k.sub] = @ \cup {[subid |-> k.subid, rs |-> k.rs]}]
  /\ UNCHANGED <<plan, owner, sessions, announced, closed, closing, asked, rss, subscribed,
                 upstream, accepted, ctl, streams, fatal>>

(* Mutant: the entry goes before the session leaves Subscribers.           *)
HandleUnsubscribeEntryFirst(s, e) ==
  /\ ctl[s] = Idle /\ s \notin closed
  /\ e \in subscribed[s]
  /\ subscribed' = [subscribed EXCEPT ![s] = @ \ {e}]
  /\ ctl' = [ctl EXCEPT ![s] = [at |-> "remove", rs |-> e.rs]]
  /\ UNCHANGED <<plan, owner, sessions, announced, closed, closing, asked, rss,
                 upstream, accepted, cachedOk, oks, streams, fatal>>

(* HandleUnsubscribe found the stream; RemoveSubscriber is the next step.  *)
(* Neither SubscribedStreams nor the publisher hears of it.                *)
HandleUnsubscribe(s, e) ==
  /\ ctl[s] = Idle /\ s \notin closed
  /\ e \in subscribed[s]
  /\ ctl' = [ctl EXCEPT ![s] = [at |-> "remove", rs |-> e.rs]]
  /\ UNCHANGED <<plan, owner, sessions, announced, closed, closing, asked, rss, subscribed,
                 upstream, accepted, cachedOk, oks, streams, fatal>>

(* RemoveSubscriber under the write lock, for UNSUBSCRIBE or HandleClose.  *)
RemoveSub(s, r) ==
  /\ WriteLockFree(r)
  /\ rss' = [rss EXCEPT ![r].subs = @ \ {s}]
  /\ RacyWrite(Iterating(r) # {})

(* Subscribers that ForwardSubscribeOk has not come to are not visited     *)
(* once removed.                                                           *)
Unvisit(c, s, r) ==
  [x \in Sessions |-> IF x \in Iterating(r) THEN [c[x] EXCEPT !.todo = @ \ {s}] ELSE c[x]]

RemoveSubscriber(s) ==
  /\ ctl[s].at = "remove"
  /\ RemoveSub(s, ctl[s].rs)
  /\ ctl' = [Unvisit(ctl, s, ctl[s].rs) EXCEPT ![s] = Idle]
  /\ UNCHANGED <<plan, owner, sessions, announced, closed, closing, asked, subscribed, upstream,
                 accepted, cachedOk, oks, streams>>

-----------------------------------------------------------------------------
(* Any session: the connection is lost or closed, AcceptStream fails and   *)
(* Close runs.  sm.namespaces keeps a closed publisher.                    *)
ConnClosed(s) ==
  /\ s \in plan.mayClose \ closed
  /\ closed' = closed \cup {s}
  /\ UNCHANGED <<plan, owner, sessions, announced, closing, asked, rss, subscribed, upstream,
                 accepted, ctl, cachedOk, oks, streams, fatal>>

RelayHandleClose(s) ==
  /\ s \in closed /\ closing[s] = None
  /\ closing' = [closing EXCEPT ![s] =
                   IF s \in Subscribers THEN {e.rs : e \in subscribed[s]} ELSE {}]
  /\ UNCHANGED <<plan, owner, sessions, announced, closed, asked, rss, subscribed, upstream,
                 accepted, ctl, cachedOk, oks, streams, fatal>>

LeaveStream(s, r) ==
  /\ Leaving(s) /\ r \in closing[s]
  /\ RemoveSub(s, r)
  /\ ctl' = Unvisit(ctl, s, r)
  /\ closing' = [closing EXCEPT ![s] = @ \ {r}]
  /\ UNCHANGED <<plan, owner, sessions, announced, closed, asked, subscribed, upstream,
                 accepted, cachedOk, oks, streams>>

RelayRemoveSession(s) ==
  /\ Leaving(s) /\ closing[s] = {}
  /\ sessions' = sessions \ {s}
  /\ UNCHANGED <<plan, owner, announced, closed, closing, asked, rss, subscribed, upstream,
                 accepted, ctl, cachedOk, oks, streams, fatal>>

-----------------------------------------------------------------------------
(* What the peers and the network do, and what the relay's goroutines do.  *)
Peers ==
  \/ \E p \in Publishers : RelayHandleAnnounce(p) \/ \E r \in upstream : HandleSubscribeOk(p, r)
  \/ \E r \in upstream : ForwardStream(r)
  \/ \E s \in Subscribers :
       \/ \E t \in plan.tracks : HandleSubscribe(s, t)
       \/ \E e \in subscribed[s] : HandleUnsubscribe(s, e)
  \/ \E s \in Sessions : ConnClosed(s)

OkLoop(p) == OkForwarded(p) \/ \E s \in Subscribers : SendSubscribeOk(p, s)

SubscribeSteps(s) ==
  \/ GetObjectStream(s) \/ NewRelayStream(s) \/ SendSubscribe(s)
  \/ AddSubscriber(s) \/ RegisterStream(s) \/ RemoveSubscriber(s)

PipeSteps(s) == \E i \in 1..Len(streams) : PipeHeader(i, s)

CloseSteps(s) ==
  \/ RelayHandleClose(s) \/ RelayRemoveSession(s)
  \/ closing[s] # None /\ \E r \in closing[s] : LeaveStream(s, r)

RelayNext ==
  /\ ~fatal
  /\ \/ Peers
     \/ \E p \in Publishers : OkLoop(p)
     \/ \E s \in Subscribers : SubscribeSteps(s) \/ PipeSteps(s)
     \/ \E s \in Sessions : CloseSteps(s)
     \/ \E k \in cachedOk : SendCachedOk(k)

RelaySpec == RelayInit /\ [][RelayNext]_relayVars

(* The Go scheduler runs every goroutine that can go on, and a write of a  *)
(* stream header returns.                                                  *)
RelayFairness ==
  /\ \A p \in Publishers : WF_relayVars(~fatal /\ OkLoop(p))
  /\ \A s \in Subscribers : WF_relayVars(~fatal /\ SubscribeSteps(s)) /\ WF_relayVars(~fatal /\ PipeSteps(s))
  /\ \A s \in Sessions : WF_relayVars(~fatal /\ CloseSteps(s))

RelayFairSpec == RelaySpec /\ RelayFairness

-----------------------------------------------------------------------------
(* Properties *)

Requests == [subid : 1..plan.maxSubs, track : Tracks]
Entries == [subid : 1..plan.maxSubs, rs : 1..Len(rss)]

(* Types; every reference to a RelayStream is to one that exists.          *)
RelayTypeOK ==
  /\ plan \in Plans
  /\ owner \in Publishers \cup {None}
  /\ sessions \subseteq Sessions /\ announced \subseteq Subscribers /\ closed \subseteq Sessions
  /\ \A s \in Sessions : closing[s] = None \/ closing[s] \subseteq 1..Len(rss)
  /\ \A s \in Subscribers :
       asked[s] \subseteq Requests /\ subscribed[s] \subseteq Entries /\ oks[s] \subseteq Entries
  /\ \A r \in 1..Len(rss) :
       rss[r] \in [pub : Publishers, track : Tracks, subs : SUBSET Subscribers]
  /\ upstream \subseteq 1..Len(rss) /\ accepted \subseteq upstream
  /\ \A s \in Sessions : "rs" \in DOMAIN ctl[s] => ctl[s].rs \in 1..Len(rss)
  /\ \A k \in cachedOk : [subid |-> k.subid, rs |-> k.rs] \in Entries
  /\ \A i \in 1..Len(streams) : streams[i].rs \in 1..Len(rss)
  /\ fatal \in BOOLEAN

(* The relay translates subscribe IDs, although two streams may have one   *)
(* stream ID: a SUBSCRIBE_OK written to a subscriber (SendSubscribeOk,     *)
(* HandleSubscribe), and the header a pipe writes to it                    *)
(* (ProcessMOQTStream), carry an ID that this subscriber used, and used    *)
(* for the track that the answer or the stream is about.                   *)
AnswersMatchRequests ==
  LET Asked(s, id, r) == \E q \in asked[s] : q.subid = id /\ q.track = rss[r].track
  IN /\ \A s \in Subscribers : \A o \in oks[s] : Asked(s, o.subid, o.rs)
     /\ \A i \in 1..Len(streams) : \A h \in streams[i].heads :
          Asked(h.sub, h.subid, streams[i].rs)

(* Nobody waits for ever, although ForwardStream keeps the subscribers'    *)
(* lock while it waits for the pipes: a control goroutine that handles a   *)
(* SUBSCRIBE, UNSUBSCRIBE or SUBSCRIBE_OK gets back to its control stream, *)
(* and a session whose connection is gone leaves the session manager       *)
(* (unless the runtime stopped the process).                               *)
HandlersReturn ==
  \A s \in Sessions :
    /\ []<>(ctl[s] = Idle \/ fatal)
    /\ []<>(s \notin closed \/ s \notin sessions \/ fatal)

(* A stream goes to all: once the pipes have let go of ForwardStream, each *)
(* subscriber whose SUBSCRIBE was handled when the stream arrived, and     *)
(* whose connection still stands, has its header, whatever UNSUBSCRIBEs,   *)
(* SUBSCRIBEs and closes its session handled meanwhile (ForwardStream,     *)
(* HandleSubscribe's two map updates, HandleUnsubscribe).                  *)
ForwardedToAllSubscribers ==
  \A i \in 1..Len(streams) :
    streams[i].pend = {} =>
      \A s \in streams[i].want \ closed : \E h \in streams[i].heads : h.sub = s

(* What a relay owes its subscribers: every stream, and every answer and   *)
(* header under their own subscribe IDs.                                   *)
RelayServes == AnswersMatchRequests /\ ForwardedToAllSubscribers
=============================================================================
