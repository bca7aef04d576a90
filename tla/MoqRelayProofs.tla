---------------------------- MODULE MoqRelayProofs ----------------------------
(***************************************************************************)
(* Proofs about MoqRelay, for any sessions, tracks, plans and number of    *)
(* streams: RelayServes holds in every reachable state.                    *)
(*                                                                         *)
(* AskedInv carries the request behind every entry, pending answer, answer *)
(* and header.  FreshInv says that a subscribe ID in the hands of a        *)
(* control goroutine is in no entry yet, so that RegisterStream replaces   *)
(* none; ListedInv that a member of Subscribers has an entry, or is just   *)
(* about to get it.  Together they are inductive.                          *)
(***************************************************************************)
EXTENDS MoqRelay, FiniteSetTheorems, SequenceTheorems, TLAPS

(* The states of a control goroutine.                                      *)
Looping == [at : {"okiter"}, rs : Nat, todo : SUBSET Subscribers]
LookingUp == [at : {"lookup", "create"}, pub : Publishers, subid : Nat, track : Tracks]
Joining == [at : {"send", "add", "register"}, subid : Nat, rs : Nat]
Quitting == [at : {"remove"}, rs : Nat]
CtlStates == {Idle} \cup Looping \cup LookingUp \cup Joining \cup Quitting

RelayStreams == [pub : Publishers, track : Tracks, subs : SUBSET Subscribers]
ObjectStreams == [rs : Nat, want : SUBSET Subscribers, pend : SUBSET Subscribers,
                  heads : SUBSET [sub : Subscribers, subid : Nat]]
EntrySets == SUBSET [subid : Nat, rs : Nat]

Types ==
  /\ plan \in PlanType
  /\ owner \in Publishers \cup {None}
  /\ rss \in Seq(RelayStreams)
  /\ asked \in [Subscribers -> SUBSET [subid : Nat, track : Tracks]]
  /\ subscribed \in [Subscribers -> EntrySets] /\ oks \in [Subscribers -> EntrySets]
  /\ cachedOk \subseteq [sub : Subscribers, subid : Nat, rs : Nat]
  /\ streams \in Seq(ObjectStreams)
  /\ ctl \in [Sessions -> CtlStates]

(* Every reference is to a RelayStream that exists.                        *)
RefsInv ==
  /\ \A s \in Subscribers : \A e \in subscribed[s] \cup oks[s] : e.rs \in 1..Len(rss)
  /\ \A k \in cachedOk : k.rs \in 1..Len(rss)
  /\ \A i \in 1..Len(streams) : streams[i].rs \in 1..Len(rss)
  /\ \A s \in Sessions : ctl[s].at \in {"okiter", "send", "add", "register"} =>
                           ctl[s].rs \in 1..Len(rss)
  /\ upstream \subseteq 1..Len(rss)

(* Subscriber s has sent a SUBSCRIBE for track t under the ID.             *)
Has(requests, id, t) == \E q \in requests : q.subid = id /\ q.track = t
Request(s, id, t) == Has(asked[s], id, t)

AskedInv ==
  /\ \A s \in Subscribers : \A e \in subscribed[s] \cup oks[s] :
       Request(s, e.subid, rss[e.rs].track)
  /\ \A k \in cachedOk : Request(k.sub, k.subid, rss[k.rs].track)
  /\ \A i \in 1..Len(streams) : \A h \in streams[i].heads :
       Request(h.sub, h.subid, rss[streams[i].rs].track)
  /\ \A s \in Subscribers :
       /\ ctl[s].at \in {"lookup", "create"} => Request(s, ctl[s].subid, ctl[s].track)
       /\ ctl[s].at \in {"send", "add", "register"} =>
            Request(s, ctl[s].subid, rss[ctl[s].rs].track)

FreshInv ==
  \A s \in Subscribers :
    /\ IsFiniteSet(asked[s]) /\ \A q \in asked[s] : q.subid <= Cardinality(asked[s])
    /\ ctl[s].at \in {"lookup", "create", "send", "add", "register"} =>
         \A e \in subscribed[s] : e.subid # ctl[s].subid

Entered(s, r) == \E e \in subscribed[s] : e.rs = r

ListedInv ==
  /\ \A r \in 1..Len(rss) : \A s \in rss[r].subs :
       Entered(s, r) \/ (ctl[s].at = "register" /\ ctl[s].rs = r)
  /\ \A i \in 1..Len(streams) : \A s \in streams[i].want :
       /\ Entered(s, streams[i].rs)
       /\ \/ s \in closed \/ s \in streams[i].pend
          \/ \E h \in streams[i].heads : h.sub = s

IInv == Types /\ RefsInv /\ AskedInv /\ FreshInv /\ ListedInv

-----------------------------------------------------------------------------
(* Where a goroutine is tells which fields its state has.                  *)
LEMMA CtlShapes ==
  ASSUME NEW c \in CtlStates
  PROVE  /\ c.at \in {"idle", "okiter", "lookup", "create", "send", "add", "register", "remove"}
         /\ c.at = "idle" <=> c = Idle
         /\ c.at = "okiter" <=> c \in Looping
         /\ c.at \in {"lookup", "create"} <=> c \in LookingUp
         /\ c.at \in {"send", "add", "register"} <=> c \in Joining
         /\ c.at = "remove" <=> c \in Quitting
  BY DEF CtlStates, Idle, Looping, LookingUp, Joining, Quitting

(* The relay starts in the invariant.                                      *)
LEMMA InitIInv == RelayInit => IInv
<1> SUFFICES ASSUME RelayInit PROVE IInv
  OBVIOUS
<1>1. Types
  BY PlansAssumption DEF RelayInit, Types, CtlStates, EntrySets
<1>2. RefsInv
  BY DEF RelayInit, RefsInv, Idle, Sessions
<1>3. AskedInv
  BY DEF RelayInit, AskedInv, Idle, Sessions
<1>4. FreshInv
  BY FS_EmptySet DEF RelayInit, FreshInv, Idle, Sessions
<1>5. ListedInv
  BY DEF RelayInit, ListedInv
<1> QED
  BY <1>1, <1>2, <1>3, <1>4, <1>5 DEF IInv

-----------------------------------------------------------------------------
(* Steps that leave what the invariant is about alone, or close a          *)
(* connection.                                                             *)
LEMMA QuietStep ==
  ASSUME IInv, owner' \in Publishers \cup {None}, closed \subseteq closed',
         UNCHANGED <<plan, asked, rss, subscribed, upstream, ctl, cachedOk, oks, streams>>
  PROVE  IInv'
<1> USE DEF IInv
<1>1. Types'
  BY DEF Types
<1>2. RefsInv'
  BY DEF RefsInv
<1>3. AskedInv'
  BY DEF AskedInv, Request, Has
<1>4. FreshInv'
  BY DEF FreshInv
<1>5. ListedInv'
  BY DEF ListedInv, Entered
<1> QED
  BY <1>1, <1>2, <1>3, <1>4, <1>5

(* Types, for one element.                                                 *)
LEMMA TypeFacts ==
  ASSUME Types
  PROVE  /\ Len(rss) \in Nat /\ Len(streams) \in Nat
         /\ \A r \in 1..Len(rss) :
              /\ rss[r] \in RelayStreams /\ rss[r].pub \in Publishers
              /\ rss[r].track \in Tracks /\ rss[r].subs \subseteq Subscribers
         /\ \A i \in 1..Len(streams) :
              /\ streams[i] \in ObjectStreams /\ streams[i].rs \in Nat
              /\ streams[i].want \subseteq Subscribers /\ streams[i].pend \subseteq Subscribers
              /\ streams[i].heads \subseteq [sub : Subscribers, subid : Nat]
         /\ \A s \in Sessions : ctl[s] \in CtlStates
<1>1. \A r \in 1..Len(rss) : rss[r] \in RelayStreams
  BY DEF Types
<1>2. \A i \in 1..Len(streams) : streams[i] \in ObjectStreams
  BY DEF Types
<1> QED
  BY <1>1, <1>2 DEF Types, RelayStreams, ObjectStreams

(* An ID that GetSubID may find was used for the track.                    *)
LEMMA FoundIDs ==
  ASSUME IInv, NEW s \in Subscribers, NEW r \in 1..Len(rss), NEW id \in GetSubIDs(s, r)
  PROVE  id \in Nat /\ Request(s, id, rss[r].track)
  BY DEF IInv, Types, EntrySets, AskedInv, GetSubIDs

(* Control goroutines of publishers, and answers written to subscribers.   *)
LEMMA AnswerStep ==
  ASSUME IInv,
         \/ UNCHANGED ctl
         \/ \E p \in Publishers, c \in {Idle} \cup Looping :
              /\ ctl' = [ctl EXCEPT ![p] = c]
              /\ c.at = "okiter" => c.rs \in 1..Len(rss),
         oks' \in [Subscribers -> EntrySets],
         \A s \in Subscribers : \A e \in oks'[s] :
           e \in oks[s] \/ (e.rs \in 1..Len(rss) /\ Request(s, e.subid, rss[e.rs].track)),
         cachedOk' \subseteq cachedOk,
         UNCHANGED <<plan, owner, closed, asked, rss, subscribed, upstream, streams>>
  PROVE  IInv'
<1> USE DEF IInv
<1>1. \A s \in Subscribers : ctl'[s] = ctl[s] /\ s \in Sessions
  BY SessionsAssumption DEF Types, Sessions
<1>2. /\ ctl' \in [Sessions -> CtlStates]
      /\ \A s \in Sessions : ctl'[s].at \in {"okiter", "send", "add", "register"} =>
                               ctl'[s].rs \in 1..Len(rss)
  <2>1. CASE UNCHANGED ctl
    BY <2>1 DEF Types, RefsInv
  <2>2. ASSUME NEW p \in Publishers, NEW c \in {Idle} \cup Looping,
               ctl' = [ctl EXCEPT ![p] = c], c.at = "okiter" => c.rs \in 1..Len(rss)
        PROVE  <1>2!1 /\ <1>2!2
    <3>1. c \in CtlStates /\ c.at \in {"idle", "okiter"} /\ p \in Sessions
      BY DEF CtlStates, Idle, Looping, Sessions
    <3> QED
      BY <2>2, <3>1 DEF Types, RefsInv
  <2> QED
    BY <2>1, <2>2
<1>3. Types'
  BY <1>2 DEF Types
<1>4. RefsInv'
  BY <1>2 DEF RefsInv
<1>5. AskedInv'
  BY <1>1 DEF AskedInv, Request, Has
<1>6. FreshInv'
  BY <1>1 DEF FreshInv
<1>7. ListedInv'
  BY <1>1, TypeFacts DEF ListedInv, Entered
<1> QED
  BY <1>3, <1>4, <1>5, <1>6, <1>7

(* HandleSubscribeOk keeps the invariant.                                  *)
LEMMA HandleSubscribeOkStep ==
  ASSUME IInv, NEW p \in Publishers, NEW r \in upstream, HandleSubscribeOk(p, r)
  PROVE  IInv'
<1> DEFINE c == [at |-> "okiter", rs |-> r, todo |-> rss[r].subs]
<1>1. r \in 1..Len(rss) /\ rss[r].subs \subseteq Subscribers
  BY TypeFacts DEF IInv, RefsInv
<1>2. c \in Looping /\ c.rs \in 1..Len(rss)
  BY <1>1 DEF Looping
<1>3. /\ ctl' = [ctl EXCEPT ![p] = c]
      /\ UNCHANGED <<plan, owner, closed, asked, rss, subscribed, upstream, cachedOk, oks, streams>>
  BY DEF HandleSubscribeOk
<1>4. oks' \in [Subscribers -> EntrySets]
  BY <1>3 DEF IInv, Types
<1> HIDE DEF c
<1> QED
  BY <1>2, <1>3, <1>4, AnswerStep

(* SendSubscribeOk keeps the invariant.                                    *)
LEMMA SendSubscribeOkStep ==
  ASSUME IInv, NEW p \in Publishers, NEW s \in Subscribers, SendSubscribeOk(p, s)
  PROVE  IInv'
<1> DEFINE c == [ctl[p] EXCEPT !.todo = @ \ {s}]
<1>1. p \in Sessions /\ ctl[p] \in CtlStates
  BY TypeFacts DEF IInv, Sessions
<1>2. ctl[p] \in Looping /\ ctl[p].rs \in 1..Len(rss)
  BY <1>1, CtlShapes DEF SendSubscribeOk, IInv, RefsInv
<1>3. c \in Looping /\ c.rs \in 1..Len(rss)
  BY <1>2 DEF Looping
<1>4. ctl' = [ctl EXCEPT ![p] = c]
  BY <1>1 DEF SendSubscribeOk
<1>5. UNCHANGED <<plan, owner, closed, asked, rss, subscribed, upstream, cachedOk, streams>>
  BY DEF SendSubscribeOk
<1>6. /\ oks' \in [Subscribers -> EntrySets]
      /\ \A t \in Subscribers : \A e \in oks'[t] :
           e \in oks[t] \/ (e.rs \in 1..Len(rss) /\ Request(t, e.subid, rss[e.rs].track))
  <2>1. oks \in [Subscribers -> EntrySets]
    BY DEF IInv, Types
  <2>2. CASE UNCHANGED oks
    BY <2>1, <2>2
  <2>3. ASSUME NEW id \in GetSubIDs(s, ctl[p].rs),
               oks' = [oks EXCEPT ![s] = @ \cup {[subid |-> id, rs |-> ctl[p].rs]}]
        PROVE  <1>6!1 /\ <1>6!2
    <3>1. id \in Nat /\ Request(s, id, rss[ctl[p].rs].track)
      BY <1>2, FoundIDs
    <3>2. oks[s] \cup {[subid |-> id, rs |-> ctl[p].rs]} \in EntrySets
      BY <1>2, <2>1, <3>1 DEF EntrySets
    <3> QED
      BY <1>2, <2>1, <2>3, <3>1, <3>2
  <2> QED
    BY <2>2, <2>3 DEF SendSubscribeOk
<1> HIDE DEF c
<1> QED
  BY <1>3, <1>4, <1>5, <1>6, AnswerStep

(* OkForwarded keeps the invariant.                                        *)
LEMMA OkForwardedStep ==
  ASSUME IInv, NEW p \in Publishers, OkForwarded(p)
  PROVE  IInv'
<1>1. /\ ctl' = [ctl EXCEPT ![p] = Idle] /\ Idle.at # "okiter"
      /\ UNCHANGED <<plan, owner, closed, asked, rss, subscribed, upstream, cachedOk, oks, streams>>
  BY DEF OkForwarded, Idle
<1>2. oks' \in [Subscribers -> EntrySets]
  BY <1>1 DEF IInv, Types
<1> QED
  BY <1>1, <1>2, AnswerStep

(* SendCachedOk keeps the invariant.                                       *)
LEMMA SendCachedOkStep ==
  ASSUME IInv, NEW k \in cachedOk, SendCachedOk(k)
  PROVE  IInv'
<1>1. /\ cachedOk' \subseteq cachedOk
      /\ UNCHANGED <<plan, owner, closed, asked, rss, subscribed, upstream, ctl, streams>>
  BY DEF SendCachedOk
<1>2. /\ k.sub \in Subscribers /\ k.subid \in Nat /\ k.rs \in 1..Len(rss)
      /\ Request(k.sub, k.subid, rss[k.rs].track)
      /\ oks \in [Subscribers -> EntrySets]
  BY DEF IInv, Types, RefsInv, AskedInv
<1>3. oks[k.sub] \cup {[subid |-> k.subid, rs |-> k.rs]} \in EntrySets
  BY <1>2 DEF EntrySets
<1>4. /\ oks' \in [Subscribers -> EntrySets]
      /\ \A t \in Subscribers : \A e \in oks'[t] :
           e \in oks[t] \/ (e.rs \in 1..Len(rss) /\ Request(t, e.subid, rss[e.rs].track))
  BY <1>2, <1>3 DEF SendCachedOk
<1> QED
  BY <1>1, <1>4, AnswerStep

(* Object streams: one is accepted, or a pipe writes a header.             *)
LEMMA StreamStep ==
  ASSUME IInv, streams' \in Seq(ObjectStreams),
         \A i \in 1..Len(streams') :
           /\ streams'[i].rs \in 1..Len(rss)
           /\ \A h \in streams'[i].heads : Request(h.sub, h.subid, rss[streams'[i].rs].track)
           /\ \A s \in streams'[i].want :
                /\ Entered(s, streams'[i].rs)
                /\ \/ s \in closed \/ s \in streams'[i].pend
                   \/ \E h \in streams'[i].heads : h.sub = s,
         UNCHANGED <<plan, owner, closed, asked, rss, subscribed, upstream, ctl, cachedOk, oks>>
  PROVE  IInv'
<1> USE DEF IInv
<1>1. Types'
  BY DEF Types
<1>2. RefsInv'
  BY DEF RefsInv
<1>3. AskedInv'
  BY DEF AskedInv, Request, Has
<1>4. FreshInv'
  BY DEF FreshInv
<1>5. ListedInv'
  BY DEF ListedInv, Entered
<1> QED
  BY <1>1, <1>2, <1>3, <1>4, <1>5

(* ForwardStream keeps the invariant.                                      *)
LEMMA ForwardStreamStep ==
  ASSUME IInv, NEW r \in upstream, ForwardStream(r)
  PROVE  IInv'
<1> DEFINE done == {s \in rss[r].subs : ~(ctl[s].at = "register" /\ ctl[s].rs = r)}
           x == [rs |-> r, want |-> done, pend |-> rss[r].subs, heads |-> {}]
<1>1. r \in 1..Len(rss) /\ rss[r].subs \subseteq Subscribers /\ Len(rss) \in Nat
  BY TypeFacts DEF IInv, RefsInv
<1>2. x \in ObjectStreams
  BY <1>1 DEF ObjectStreams
<1>3. \A s \in done : Entered(s, r)
  BY <1>1 DEF IInv, ListedInv
<1>4. /\ streams' = Append(streams, x)
      /\ UNCHANGED <<plan, owner, closed, asked, rss, subscribed, upstream, ctl, cachedOk, oks>>
  BY DEF ForwardStream
<1>5. /\ x.rs = r /\ x.heads = {} /\ x.want = done /\ x.pend = rss[r].subs
      /\ done \subseteq rss[r].subs
  OBVIOUS
<1> HIDE DEF x, done
<1>6. /\ streams' \in Seq(ObjectStreams) /\ Len(streams') = Len(streams) + 1
      /\ \A i \in 1..Len(streams) : streams'[i] = streams[i]
      /\ streams'[Len(streams) + 1] = x /\ Len(streams) \in Nat
  BY <1>2, <1>4 DEF IInv, Types
<1>7. ASSUME NEW i \in 1..Len(streams')
      PROVE  /\ streams'[i].rs \in 1..Len(rss)
             /\ \A h \in streams'[i].heads : Request(h.sub, h.subid, rss[streams'[i].rs].track)
             /\ \A s \in streams'[i].want :
                  /\ Entered(s, streams'[i].rs)
                  /\ \/ s \in closed \/ s \in streams'[i].pend
                     \/ \E h \in streams'[i].heads : h.sub = s
  <2>1. CASE i \in 1..Len(streams)
    BY <1>6, <2>1 DEF IInv, RefsInv, AskedInv, ListedInv
  <2>2. CASE i = Len(streams) + 1
    BY <1>1, <1>3, <1>5, <1>6, <2>2
  <2> QED
    BY <1>6, <2>1, <2>2
<1> QED
  BY <1>4, <1>6, <1>7, StreamStep

(* PipeHeader keeps the invariant.                                         *)
LEMMA PipeHeaderStep ==
  ASSUME IInv, NEW s \in Subscribers, NEW i \in 1..Len(streams), PipeHeader(i, s)
  PROVE  IInv'
<1> DEFINE old == streams[i]
           r == old.rs
           gone == [old EXCEPT !.pend = @ \ {s}]
<1>1. /\ old \in ObjectStreams /\ r \in 1..Len(rss) /\ Len(rss) \in Nat
      /\ streams \in Seq(ObjectStreams)
  BY TypeFacts DEF IInv, RefsInv, Types
<1>2. UNCHANGED <<plan, owner, closed, asked, rss, subscribed, upstream, ctl, cachedOk, oks>>
  BY DEF PipeHeader
<1>3. ASSUME NEW x \in ObjectStreams, streams' = [streams EXCEPT ![i] = x],
             x.rs = r, x.want = old.want, x.pend = old.pend \ {s},
             \A h \in x.heads : h \in old.heads \/ Request(h.sub, h.subid, rss[r].track),
             old.heads \subseteq x.heads,
             s \in closed \/ s \notin old.want \/ \E h \in x.heads : h.sub = s
      PROVE  IInv'
  <2>1. /\ streams' \in Seq(ObjectStreams) /\ Len(streams') = Len(streams)
        /\ \A j \in 1..Len(streams) : streams'[j] = IF j = i THEN x ELSE streams[j]
    BY <1>1, <1>3
  <2>2. ASSUME NEW j \in 1..Len(streams')
        PROVE  /\ streams'[j].rs \in 1..Len(rss)
               /\ \A h \in streams'[j].heads : Request(h.sub, h.subid, rss[streams'[j].rs].track)
               /\ \A t \in streams'[j].want :
                    /\ Entered(t, streams'[j].rs)
                    /\ \/ t \in closed \/ t \in streams'[j].pend
                       \/ \E h \in streams'[j].heads : h.sub = t
    <3>1. CASE j # i
      BY <2>1, <3>1 DEF IInv, RefsInv, AskedInv, ListedInv
    <3>2. CASE j = i
      <4>1. streams'[j] = x
        BY <2>1, <3>2
      <4>2. /\ \A h \in old.heads : Request(h.sub, h.subid, rss[r].track)
            /\ \A t \in old.want :
                 /\ Entered(t, r)
                 /\ \/ t \in closed \/ t \in old.pend \/ \E h \in old.heads : h.sub = t
        BY DEF IInv, AskedInv, ListedInv
      <4> HIDE DEF old, r
      <4> QED
        BY <1>1, <1>3, <4>1, <4>2
    <3> QED
      BY <3>1, <3>2
  <2> QED
    BY <1>2, <2>1, <2>2, StreamStep
<1>4. CASE GetSubIDs(s, r) = {} \/ s \in closed
  <2>1. streams' = [streams EXCEPT ![i] = gone]
    BY <1>4 DEF PipeHeader
  <2>2. /\ gone \in ObjectStreams /\ gone.rs = r /\ gone.want = old.want
        /\ gone.pend = old.pend \ {s} /\ gone.heads = old.heads
    BY <1>1 DEF ObjectStreams
  <2>3. s \in closed \/ s \notin old.want
    <3>1. s \in old.want => \E e \in subscribed[s] : e.rs = r
      BY DEF IInv, ListedInv, Entered
    <3> QED
      BY <1>4, <3>1 DEF GetSubIDs
  <2> HIDE DEF gone, old, r
  <2> QED
    BY <1>3, <2>1, <2>2, <2>3
<1>5. ASSUME NEW id \in GetSubIDs(s, r),
             streams' = [streams EXCEPT ![i].pend = @ \ {s},
                                        ![i].heads = @ \cup {[sub |-> s, subid |-> id]}]
      PROVE  IInv'
  <2> DEFINE head == [sub |-> s, subid |-> id]
             x == [gone EXCEPT !.heads = @ \cup {head}]
  <2>1. id \in Nat /\ Request(s, id, rss[r].track)
    BY <1>1, FoundIDs
  <2>2. streams' = [streams EXCEPT ![i] = x]
    BY <1>1, <1>5
  <2>3. head \in [sub : Subscribers, subid : Nat] /\ head.sub = s /\ head.subid = id
    BY <2>1
  <2> HIDE DEF head
  <2>4. /\ gone \in ObjectStreams /\ gone.rs = r /\ gone.want = old.want
        /\ gone.pend = old.pend \ {s} /\ gone.heads = old.heads
    BY <1>1 DEF ObjectStreams
  <2> HIDE DEF gone, old, r
  <2>5. /\ x \in ObjectStreams /\ x.rs = r /\ x.want = old.want /\ x.pend = old.pend \ {s}
        /\ x.heads = old.heads \cup {head}
    BY <2>3, <2>4 DEF ObjectStreams
  <2> HIDE DEF x
  <2>6. \A h \in x.heads : h \in old.heads \/ Request(h.sub, h.subid, rss[r].track)
    BY <2>1, <2>3, <2>5
  <2> QED
    BY <1>3, <2>2, <2>3, <2>5, <2>6
<1> QED
  BY <1>4, <1>5 DEF PipeHeader

(* Steps that change only who is about to be registered keep ListedInv.    *)
LEMMA ListedKept ==
  ASSUME ListedInv, UNCHANGED <<rss, streams, subscribed, closed>>,
         \A r \in 1..Len(rss) : \A t \in rss[r].subs :
           Entered(t, r) \/ (ctl'[t].at = "register" /\ ctl'[t].rs = r)
  PROVE  ListedInv'
  BY DEF ListedInv, Entered

(* A subscriber's control goroutine goes on to the state c, and nothing    *)
(* else changes but who has asked for what and which answers are pending.  *)
LEMMA JoinStep ==
  ASSUME IInv, NEW s \in Subscribers, NEW c \in CtlStates,
         ctl' = [ctl EXCEPT ![s] = c],
         ctl[s].at # "register",
         asked' \in [Subscribers -> SUBSET [subid : Nat, track : Tracks]],
         \A t \in Subscribers :
           /\ asked[t] \subseteq asked'[t]
           /\ IsFiniteSet(asked'[t]) /\ \A q \in asked'[t] : q.subid <= Cardinality(asked'[t]),
         c.at \in {"okiter", "send", "add", "register"} => c.rs \in 1..Len(rss),
         c.at \in {"lookup", "create"} => Has(asked'[s], c.subid, c.track),
         c.at \in {"send", "add", "register"} => Has(asked'[s], c.subid, rss[c.rs].track),
         c.at \in {"lookup", "create", "send", "add", "register"} =>
           \A e \in subscribed[s] : e.subid # c.subid,
         \A k \in cachedOk' : \/ k \in cachedOk
                              \/ /\ k \in [sub : Subscribers, subid : Nat, rs : Nat]
                                 /\ k.rs \in 1..Len(rss)
                                 /\ Has(asked'[k.sub], k.subid, rss[k.rs].track),
         upstream' \subseteq 1..Len(rss),
         UNCHANGED <<plan, owner, closed, rss, subscribed, oks, streams>>
  PROVE  IInv'
<1> USE DEF IInv
<1>1. /\ ctl' \in [Sessions -> CtlStates] /\ ctl'[s] = c
      /\ \A t \in Sessions : t # s => ctl'[t] = ctl[t]
      /\ Subscribers \subseteq Sessions
  BY DEF Types, Sessions
<1>2. \A t \in Subscribers : \A id, tr : Request(t, id, tr) => Has(asked'[t], id, tr)
  BY DEF Request, Has
<1>3. Types'
  BY <1>1 DEF Types
<1>4. RefsInv'
  BY <1>1 DEF RefsInv
<1>5. AskedInv'
  <2>1. \A t \in Subscribers : \A e \in subscribed[t] \cup oks[t] :
          Has(asked'[t], e.subid, rss[e.rs].track)
    BY <1>2 DEF AskedInv
  <2>2. \A k \in cachedOk' : Has(asked'[k.sub], k.subid, rss[k.rs].track)
    BY <1>2 DEF AskedInv, Types
  <2>3. \A i \in 1..Len(streams) : \A h \in streams[i].heads :
          Has(asked'[h.sub], h.subid, rss[streams[i].rs].track)
    BY <1>2, TypeFacts DEF AskedInv
  <2>4. \A t \in Subscribers :
          /\ ctl'[t].at \in {"lookup", "create"} => Has(asked'[t], ctl'[t].subid, ctl'[t].track)
          /\ ctl'[t].at \in {"send", "add", "register"} =>
               Has(asked'[t], ctl'[t].subid, rss[ctl'[t].rs].track)
    <3> TAKE t \in Subscribers
    <3>1. CASE t = s
      BY <1>1, <3>1
    <3>2. CASE t # s
      BY <1>1, <1>2, <3>2 DEF AskedInv
    <3> QED
      BY <3>1, <3>2
  <2> QED
    BY <2>1, <2>2, <2>3, <2>4 DEF AskedInv, Request
<1>6. FreshInv'
  BY <1>1 DEF FreshInv
<1>7. ListedInv'
  <2>1. ListedInv /\ UNCHANGED <<rss, streams, subscribed, closed>>
    OBVIOUS
  <2>2. ASSUME NEW r \in 1..Len(rss), NEW t \in rss[r].subs
        PROVE  Entered(t, r) \/ (ctl'[t].at = "register" /\ ctl'[t].rs = r)
    <3>1. Entered(t, r) \/ (ctl[t].at = "register" /\ ctl[t].rs = r)
      BY <2>1 DEF ListedInv
    <3>2. t \in Sessions
      BY <1>1, TypeFacts
    <3>3. ctl[t].at = "register" => ctl'[t] = ctl[t]
      BY <1>1, <3>2
    <3> QED
      BY <3>1, <3>3
  <2> QED
    BY <2>1, <2>2, ListedKept
<1> QED
  BY <1>3, <1>4, <1>5, <1>6, <1>7

(* HandleSubscribe keeps the invariant.                                    *)
LEMMA HandleSubscribeStep ==
  ASSUME IInv, NEW s \in Subscribers, NEW t \in plan.tracks, HandleSubscribe(s, t)
  PROVE  IInv'
<1> DEFINE id == Cardinality(asked[s]) + 1
           q == [subid |-> id, track |-> t]
           c == IF owner = None THEN Idle
                ELSE [at |-> "lookup", pub |-> owner, subid |-> id, track |-> t]
<1>1. /\ asked \in [Subscribers -> SUBSET [subid : Nat, track : Tracks]]
      /\ IsFiniteSet(asked[s]) /\ \A x \in asked[s] : x.subid <= Cardinality(asked[s])
      /\ s \in Sessions /\ ctl \in [Sessions -> CtlStates] /\ t \in Tracks
      /\ owner \in Publishers \cup {None}
  BY DEF IInv, Types, FreshInv, Sessions, PlanType
<1>2. id \in Nat /\ Cardinality(asked[s]) \in Nat /\ q \in [subid : Nat, track : Tracks]
      /\ q.subid = id /\ q.track = t
  BY <1>1, FS_CardinalityType
<1>3. /\ ctl[s] = Idle /\ asked' = [asked EXCEPT ![s] = @ \cup {q}]
      /\ ctl' = [ctl EXCEPT ![s] = c]
      /\ UNCHANGED <<plan, owner, closed, rss, subscribed, upstream, cachedOk, oks, streams>>
  BY <1>1 DEF HandleSubscribe
<1>4. /\ c \in CtlStates /\ c.at \in {"idle", "lookup"}
      /\ c.at = "lookup" => c.subid = id /\ c.track = t
  BY <1>1, <1>2 DEF CtlStates, LookingUp, Idle
<1>5. q \notin asked[s] /\ \A e \in subscribed[s] : e.subid # id
  <2>1. PICK n : n = Cardinality(asked[s])
    OBVIOUS
  <2>2. asked[s] \subseteq [subid : Nat, track : Tracks]
    BY <1>1
  <2>3. n \in Nat /\ \A x \in asked[s] : x.subid <= n
    BY <1>1, <1>2, <2>1
  <2>4. ASSUME NEW x \in asked[s] PROVE x.subid # n + 1
    <3>1. x.subid \in Nat
      BY <2>2
    <3> QED
      BY <2>3, <3>1
  <2>5. id = n + 1 /\ q.subid = n + 1
    BY <1>2, <2>1
  <2> HIDE DEF id, q
  <2>6. q \notin asked[s]
    BY <2>4, <2>5
  <2>7. ASSUME NEW e \in subscribed[s] PROVE e.subid # id
    <3>1. Request(s, e.subid, rss[e.rs].track)
      BY DEF IInv, AskedInv
    <3>2. PICK x \in asked[s] : x.subid = e.subid
      BY <3>1 DEF Request, Has
    <3> QED
      BY <2>4, <2>5, <3>2
  <2> QED
    BY <2>6, <2>7
<1>6. /\ asked' \in [Subscribers -> SUBSET [subid : Nat, track : Tracks]]
      /\ asked'[s] = asked[s] \cup {q}
      /\ \A x \in Subscribers : x # s => asked'[x] = asked[x]
  BY <1>1, <1>2, <1>3
<1>7. IsFiniteSet(asked[s] \cup {q}) /\ Cardinality(asked[s] \cup {q}) = id
  BY <1>1, <1>5, FS_AddElement
<1> HIDE DEF c, q, id
<1>8. \A x \in Subscribers :
        /\ asked[x] \subseteq asked'[x]
        /\ IsFiniteSet(asked'[x]) /\ \A y \in asked'[x] : y.subid <= Cardinality(asked'[x])
  <2> TAKE x \in Subscribers
  <2>1. CASE x = s
    <3>1. \A y \in asked[s] : y.subid <= id
      BY <1>1, <1>2 DEF id
    <3> QED
      BY <1>2, <1>6, <1>7, <2>1, <3>1
  <2>2. CASE x # s
    BY <1>6, <2>2 DEF IInv, FreshInv
  <2> QED
    BY <2>1, <2>2
<1>9. Has(asked'[s], id, t)
  BY <1>2, <1>6 DEF Has
<1>10. ctl[s].at # "register" /\ upstream' \subseteq 1..Len(rss)
  BY <1>3 DEF Idle, IInv, RefsInv
<1> QED
  BY <1>3, <1>4, <1>5, <1>6, <1>8, <1>9, <1>10, JoinStep

(* Steps of JoinStep's kind that leave the requests alone.                 *)
LEMMA SameRequests ==
  ASSUME IInv, UNCHANGED asked
  PROVE  /\ asked' \in [Subscribers -> SUBSET [subid : Nat, track : Tracks]]
         /\ \A t \in Subscribers :
              /\ asked[t] \subseteq asked'[t]
              /\ IsFiniteSet(asked'[t]) /\ \A q \in asked'[t] : q.subid <= Cardinality(asked'[t])
  BY DEF IInv, Types, FreshInv

(* GetObjectStream keeps the invariant.                                    *)
LEMMA GetObjectStreamStep ==
  ASSUME IInv, NEW s \in Subscribers, GetObjectStream(s)
  PROVE  IInv'
<1>1. /\ s \in Sessions /\ ctl \in [Sessions -> CtlStates] /\ ctl[s].at = "lookup"
      /\ UNCHANGED <<plan, owner, closed, asked, rss, subscribed, upstream, oks, streams>>
  BY DEF IInv, Types, Sessions, GetObjectStream
<1>2. ctl[s] \in LookingUp
  BY <1>1, CtlShapes
<1>3. /\ Request(s, ctl[s].subid, ctl[s].track)
      /\ \A e \in subscribed[s] : e.subid # ctl[s].subid
      /\ upstream' \subseteq 1..Len(rss)
  BY <1>1 DEF IInv, AskedInv, FreshInv, RefsInv
<1>4. CASE ctl' = [ctl EXCEPT ![s].at = "create"] /\ UNCHANGED cachedOk
  <2> DEFINE c == [ctl[s] EXCEPT !.at = "create"]
  <2>1. c \in LookingUp /\ c.at = "create" /\ c.subid = ctl[s].subid /\ c.track = ctl[s].track
    BY <1>2 DEF LookingUp
  <2>2. ctl' = [ctl EXCEPT ![s] = c] /\ c \in CtlStates
    BY <1>1, <1>4, <2>1 DEF CtlStates
  <2> HIDE DEF c
  <2>3. Has(asked'[s], c.subid, c.track)
    BY <1>1, <1>3, <2>1 DEF Request
  <2>4. /\ ctl[s].at # "register" /\ c.at \notin {"okiter", "send", "add", "register"}
        /\ \A e \in subscribed[s] : e.subid # c.subid
    BY <1>1, <1>3, <2>1
  <2>5. \A k \in cachedOk' : k \in cachedOk
    BY <1>4
  <2>6. /\ asked' \in [Subscribers -> SUBSET [subid : Nat, track : Tracks]]
        /\ \A t \in Subscribers :
              /\ asked[t] \subseteq asked'[t]
              /\ IsFiniteSet(asked'[t]) /\ \A q \in asked'[t] : q.subid <= Cardinality(asked'[t])
    BY <1>1, SameRequests
  <2> QED
    BY <1>1, <1>3, <2>2, <2>3, <2>4, <2>5, <2>6, JoinStep
<1>5. ASSUME NEW r \in StreamIDGetStreams(ctl[s].pub, ctl[s].track),
             ctl' = [ctl EXCEPT ![s] = [at |-> "add", subid |-> ctl[s].subid, rs |-> r]],
             cachedOk' = cachedOk \cup {[sub |-> s, subid |-> ctl[s].subid, rs |-> r]}
      PROVE  IInv'
  <2> DEFINE c == [at |-> "add", subid |-> ctl[s].subid, rs |-> r]
             k == [sub |-> s, subid |-> ctl[s].subid, rs |-> r]
  <2>1. r \in 1..Len(rss) /\ r \in Nat /\ rss[r].track = ctl[s].track
    <3>1. r \in 1..Len(rss) /\ rss[r].track = ctl[s].track
      BY DEF StreamIDGetStreams
    <3>2. Len(rss) \in Nat
      BY TypeFacts DEF IInv
    <3> QED
      BY <3>1, <3>2
  <2>2. /\ c \in CtlStates /\ c.at = "add" /\ c.rs = r /\ c.subid = ctl[s].subid
        /\ k \in [sub : Subscribers, subid : Nat, rs : Nat]
        /\ k.sub = s /\ k.rs = r /\ k.subid = ctl[s].subid
    BY <1>2, <2>1 DEF CtlStates, Joining, LookingUp
  <2>3. ctl' = [ctl EXCEPT ![s] = c] /\ cachedOk' = cachedOk \cup {k}
    BY <1>5
  <2> HIDE DEF c, k
  <2>4. Has(asked'[s], c.subid, rss[c.rs].track) /\ Has(asked'[k.sub], k.subid, rss[k.rs].track)
    BY <1>1, <1>3, <2>1, <2>2 DEF Request
  <2>5. /\ asked' \in [Subscribers -> SUBSET [subid : Nat, track : Tracks]]
        /\ \A t \in Subscribers :
              /\ asked[t] \subseteq asked'[t]
              /\ IsFiniteSet(asked'[t]) /\ \A q \in asked'[t] : q.subid <= Cardinality(asked'[t])
    BY <1>1, SameRequests
  <2>6. \A e \in subscribed[s] : e.subid # c.subid
    BY <1>3, <2>2
  <2>7. \A j \in cachedOk' : \/ j \in cachedOk
                             \/ /\ j \in [sub : Subscribers, subid : Nat, rs : Nat]
                                /\ j.rs \in 1..Len(rss)
                                /\ Has(asked'[j.sub], j.subid, rss[j.rs].track)
    BY <2>1, <2>2, <2>3, <2>4
  <2>8. c.at \notin {"okiter", "lookup", "create"} /\ c.rs \in 1..Len(rss)
    BY <2>1, <2>2
  <2> QED
    BY <1>1, <1>3, <2>2, <2>3, <2>4, <2>5, <2>6, <2>7, <2>8, JoinStep
<1> QED
  BY <1>4, <1>5 DEF GetObjectStream

(* SendSubscribe keeps the invariant.                                      *)
LEMMA SendSubscribeStep ==
  ASSUME IInv, NEW s \in Subscribers, SendSubscribe(s)
  PROVE  IInv'
<1> DEFINE c == [ctl[s] EXCEPT !.at = "add"]
<1>1. /\ s \in Sessions /\ ctl \in [Sessions -> CtlStates] /\ ctl[s].at = "send"
      /\ UNCHANGED <<plan, owner, closed, asked, rss, subscribed, cachedOk, oks, streams>>
  BY DEF IInv, Types, Sessions, SendSubscribe
<1>2. ctl[s] \in Joining
  BY <1>1, CtlShapes
<1>3. /\ Request(s, ctl[s].subid, rss[ctl[s].rs].track) /\ ctl[s].rs \in 1..Len(rss)
      /\ \A e \in subscribed[s] : e.subid # ctl[s].subid
      /\ upstream' \subseteq 1..Len(rss)
  BY <1>1 DEF IInv, AskedInv, FreshInv, RefsInv, SendSubscribe
<1>4. c \in Joining /\ c.at = "add" /\ c.subid = ctl[s].subid /\ c.rs = ctl[s].rs
  BY <1>2 DEF Joining
<1>5. ctl' = [ctl EXCEPT ![s] = c] /\ c \in CtlStates
  BY <1>1, <1>4 DEF SendSubscribe, CtlStates
<1> HIDE DEF c
<1>6. Has(asked'[s], c.subid, rss[c.rs].track)
  BY <1>1, <1>3, <1>4 DEF Request
<1> QED
  BY <1>1, <1>3, <1>4, <1>5, <1>6, SameRequests, JoinStep

(* HandleUnsubscribe keeps the invariant.                                  *)
LEMMA HandleUnsubscribeStep ==
  ASSUME IInv, NEW s \in Subscribers, NEW e \in subscribed[s], HandleUnsubscribe(s, e)
  PROVE  IInv'
<1> DEFINE c == [at |-> "remove", rs |-> e.rs]
<1>1. /\ ctl[s] = Idle /\ ctl' = [ctl EXCEPT ![s] = c]
      /\ UNCHANGED <<plan, owner, closed, asked, rss, subscribed, upstream, cachedOk, oks, streams>>
  BY DEF HandleUnsubscribe
<1>2. c \in CtlStates /\ c.at = "remove"
  BY DEF IInv, Types, EntrySets, CtlStates, Quitting
<1>3. ctl[s].at # "register" /\ upstream' \subseteq 1..Len(rss)
  BY <1>1 DEF Idle, IInv, RefsInv
<1> HIDE DEF c
<1> QED
  BY <1>1, <1>2, <1>3, SameRequests, JoinStep

(* Steps that only add RelayStreams, or change who subscribes to them, and *)
(* the goroutines that go with that.                                       *)
LEMMA RelayStreamStep ==
  ASSUME IInv, rss' \in Seq(RelayStreams), Len(rss) <= Len(rss'),
         \A r \in 1..Len(rss) : rss'[r].track = rss[r].track,
         ctl' \in [Sessions -> CtlStates],
         \A s \in Sessions :
           ctl'[s].at \in {"okiter", "send", "add", "register"} => ctl'[s].rs \in 1..Len(rss'),
         \A s \in Subscribers :
           /\ ctl'[s].at \notin {"lookup", "create"} \/ ctl'[s] = ctl[s]
           /\ ctl'[s].at \in {"send", "add", "register"} =>
                /\ Request(s, ctl'[s].subid, rss'[ctl'[s].rs].track)
                /\ \A e \in subscribed[s] : e.subid # ctl'[s].subid,
         \A r \in 1..Len(rss') : \A s \in rss'[r].subs :
           Entered(s, r) \/ (ctl'[s].at = "register" /\ ctl'[s].rs = r),
         UNCHANGED <<plan, owner, closed, asked, subscribed, upstream, cachedOk, oks, streams>>
  PROVE  IInv'
<1> USE DEF IInv
<1>1. Len(rss) \in Nat /\ Len(rss') \in Nat /\ 1..Len(rss) \subseteq 1..Len(rss')
  BY TypeFacts
<1>2. Types'
  BY DEF Types
<1>3. RefsInv'
  BY <1>1 DEF RefsInv
<1>4. AskedInv'
  <2>1. \A t \in Subscribers : \A e \in subscribed[t] \cup oks[t] :
          Has(asked[t], e.subid, rss'[e.rs].track)
    BY DEF AskedInv, RefsInv, Request
  <2>2. \A k \in cachedOk : Has(asked[k.sub], k.subid, rss'[k.rs].track)
    BY DEF AskedInv, RefsInv, Request
  <2>3. \A i \in 1..Len(streams) : \A h \in streams[i].heads :
          Has(asked[h.sub], h.subid, rss'[streams[i].rs].track)
    BY DEF AskedInv, RefsInv, Request
  <2>4. \A t \in Subscribers :
          /\ ctl'[t].at \in {"lookup", "create"} => Has(asked[t], ctl'[t].subid, ctl'[t].track)
          /\ ctl'[t].at \in {"send", "add", "register"} =>
               Has(asked[t], ctl'[t].subid, rss'[ctl'[t].rs].track)
    BY DEF AskedInv, Request
  <2> QED
    BY <2>1, <2>2, <2>3, <2>4 DEF AskedInv, Request
<1>5. FreshInv'
  <2>1. FreshInv /\ asked' = asked /\ subscribed' = subscribed
    OBVIOUS
  <2>2. ASSUME NEW s \in Subscribers,
               ctl'[s].at \in {"lookup", "create", "send", "add", "register"}
        PROVE  \A e \in subscribed[s] : e.subid # ctl'[s].subid
    <3>1. CASE ctl'[s].at \in {"send", "add", "register"}
      BY <3>1
    <3>2. CASE ctl'[s].at \in {"lookup", "create"}
      <4>1. ctl'[s] = ctl[s]
        BY <3>2
      <4> QED
        BY <2>1, <3>2, <4>1 DEF FreshInv
    <3> QED
      BY <2>2, <3>1, <3>2
  <2> QED
    BY <2>1, <2>2 DEF FreshInv
<1>6. ListedInv'
  BY DEF ListedInv, Entered
<1> QED
  BY <1>2, <1>3, <1>4, <1>5, <1>6

(* NewRelayStream keeps the invariant.                                     *)
LEMMA NewRelayStreamStep ==
  ASSUME IInv, NEW s \in Subscribers, NewRelayStream(s)
  PROVE  IInv'
<1> DEFINE x == [pub |-> ctl[s].pub, track |-> ctl[s].track, subs |-> {}]
           c == [at |-> "send", subid |-> ctl[s].subid, rs |-> Len(rss) + 1]
<1>1. /\ s \in Sessions /\ ctl \in [Sessions -> CtlStates] /\ ctl[s].at = "create"
      /\ rss \in Seq(RelayStreams) /\ Len(rss) \in Nat
      /\ rss' = Append(rss, x) /\ ctl' = [ctl EXCEPT ![s] = c]
      /\ UNCHANGED <<plan, owner, closed, asked, subscribed, upstream, cachedOk, oks, streams>>
  BY DEF IInv, Types, Sessions, NewRelayStream
<1>2. ctl[s] \in LookingUp
  BY <1>1, CtlShapes
<1>3. /\ x \in RelayStreams /\ x.subs = {} /\ x.track = ctl[s].track
      /\ c \in CtlStates /\ c.at = "send" /\ c.subid = ctl[s].subid /\ c.rs = Len(rss) + 1
  BY <1>1, <1>2 DEF RelayStreams, CtlStates, Joining, LookingUp
<1>4. /\ Request(s, ctl[s].subid, ctl[s].track)
      /\ \A e \in subscribed[s] : e.subid # ctl[s].subid
  BY <1>1 DEF IInv, AskedInv, FreshInv
<1> HIDE DEF x, c
<1>5. /\ rss' \in Seq(RelayStreams) /\ Len(rss') = Len(rss) + 1
      /\ \A r \in 1..Len(rss) : rss'[r] = rss[r]
      /\ rss'[Len(rss) + 1] = x
  BY <1>1, <1>3
<1>6. /\ ctl' \in [Sessions -> CtlStates] /\ ctl'[s] = c
      /\ \A t \in Sessions : t # s => ctl'[t] = ctl[t]
  BY <1>1, <1>3
<1>7. \A t \in Sessions :
        ctl'[t].at \in {"okiter", "send", "add", "register"} => ctl'[t].rs \in 1..Len(rss')
  <2>1. \A t \in Sessions \ {s} :
          ctl'[t].at \in {"okiter", "send", "add", "register"} => ctl'[t].rs \in 1..Len(rss)
    BY <1>6 DEF IInv, RefsInv
  <2>2. ctl'[s].rs \in 1..Len(rss')
    BY <1>1, <1>3, <1>5, <1>6
  <2>3. 1..Len(rss) \subseteq 1..Len(rss')
    BY <1>1, <1>5
  <2> QED
    BY <2>1, <2>2, <2>3
<1>8. ASSUME NEW t \in Subscribers
      PROVE  /\ ctl'[t].at \notin {"lookup", "create"} \/ ctl'[t] = ctl[t]
             /\ ctl'[t].at \in {"send", "add", "register"} =>
                  /\ Request(t, ctl'[t].subid, rss'[ctl'[t].rs].track)
                  /\ \A e \in subscribed[t] : e.subid # ctl'[t].subid
  <2>1. CASE t = s
    BY <1>3, <1>4, <1>5, <1>6, <2>1
  <2>2. CASE t # s
    <3>1. ctl'[t] = ctl[t] /\ t \in Sessions
      BY <1>6, <2>2 DEF Sessions
    <3> QED
      BY <1>5, <3>1 DEF IInv, AskedInv, FreshInv, RefsInv
  <2> QED
    BY <2>1, <2>2
<1>9. ASSUME NEW r \in 1..Len(rss'), NEW t \in rss'[r].subs
      PROVE  Entered(t, r) \/ (ctl'[t].at = "register" /\ ctl'[t].rs = r)
  <2>1. r \in 1..Len(rss) /\ t \in rss[r].subs /\ t \in Sessions
    <3>1. r # Len(rss) + 1
      BY <1>3, <1>5
    <3>2. r \in 1..Len(rss)
      BY <1>1, <1>5, <3>1
    <3> QED
      BY <1>5, <3>2, TypeFacts DEF IInv, Sessions
  <2>2. ctl[t].at = "register" => ctl'[t] = ctl[t]
    BY <1>1, <1>6, <2>1
  <2> QED
    BY <2>1, <2>2 DEF IInv, ListedInv
<1>10. Len(rss) <= Len(rss') /\ \A r \in 1..Len(rss) : rss'[r].track = rss[r].track
  BY <1>1, <1>5
<1>11. rss' \in Seq(RelayStreams) /\ ctl' \in [Sessions -> CtlStates]
  BY <1>5, <1>6
<1>12. UNCHANGED <<plan, owner, closed, asked, subscribed, upstream, cachedOk, oks, streams>>
  BY <1>1
<1> QED
  BY <1>7, <1>8, <1>9, <1>10, <1>11, <1>12, RelayStreamStep

(* A step that changes the Subscribers of one RelayStream only.            *)
SubsBecome(r, S) == rss' = [rss EXCEPT ![r].subs = S]

(* Replacing the subscribers of one RelayStream leaves the others alone.   *)
LEMMA SubsChange ==
  ASSUME IInv, NEW r, NEW S, S \subseteq Subscribers,
         SubsBecome(r, S)
  PROVE  /\ rss' \in Seq(RelayStreams) /\ Len(rss') = Len(rss)
         /\ \A q \in 1..Len(rss) : /\ rss'[q].track = rss[q].track
                                   /\ rss'[q].subs = IF q = r THEN S ELSE rss[q].subs
<1>1. rss \in Seq(RelayStreams)
  BY DEF IInv, Types
<1>2. CASE r \in 1..Len(rss)
  <2> DEFINE x == [rss[r] EXCEPT !.subs = S]
  <2>1. rss[r] \in RelayStreams
    BY <1>1, <1>2
  <2>2. x \in RelayStreams /\ x.track = rss[r].track /\ x.subs = S
    BY <2>1 DEF RelayStreams
  <2>3. rss' = [rss EXCEPT ![r] = x]
    BY DEF SubsBecome
  <2> HIDE DEF x
  <2> QED
    BY <1>1, <1>2, <2>2, <2>3
<1>3. CASE r \notin 1..Len(rss)
  <2>1. rss' = rss
    BY <1>1, <1>3 DEF SubsBecome
  <2> QED
    BY <1>1, <1>3, <2>1
<1> QED
  BY <1>2, <1>3

(* AddSubscriber keeps the invariant.                                      *)
LEMMA AddSubscriberStep ==
  ASSUME IInv, NEW s \in Subscribers, AddSubscriber(s)
  PROVE  IInv'
<1>0. PICK r : r = ctl[s].rs
  OBVIOUS
<1>1. /\ s \in Sessions /\ ctl \in [Sessions -> CtlStates] /\ ctl[s].at = "add"
      /\ Subscribers \subseteq Sessions
      /\ UNCHANGED <<plan, owner, closed, asked, subscribed, upstream, cachedOk, oks, streams>>
  BY DEF IInv, Types, Sessions, AddSubscriber
<1>2. ctl[s] \in Joining
  BY <1>1, CtlShapes
<1>3. /\ r \in 1..Len(rss) /\ Request(s, ctl[s].subid, rss[r].track)
      /\ \A e \in subscribed[s] : e.subid # ctl[s].subid
  BY <1>0, <1>1 DEF IInv, AskedInv, FreshInv, RefsInv
<1>4. /\ rss' \in Seq(RelayStreams) /\ Len(rss') = Len(rss)
      /\ \A q \in 1..Len(rss) :
           /\ rss'[q].track = rss[q].track
           /\ rss'[q].subs = IF q = r THEN rss[r].subs \cup {s} ELSE rss[q].subs
  <2>1. PICK S : S = rss[r].subs \cup {s}
    OBVIOUS
  <2>2. S \subseteq Subscribers
    BY <1>3, <2>1, TypeFacts DEF IInv
  <2>3. SubsBecome(r, S)
    BY <1>0, <2>1 DEF AddSubscriber, SubsBecome
  <2>4. /\ rss' \in Seq(RelayStreams) /\ Len(rss') = Len(rss)
        /\ \A q \in 1..Len(rss) : /\ rss'[q].track = rss[q].track
                                  /\ rss'[q].subs = IF q = r THEN S ELSE rss[q].subs
    BY <2>2, <2>3, SubsChange
  <2> QED
    BY <2>1, <2>4
<1>5. PICK seen \in SUBSET Iterating(r) :
        ctl' = [x \in Sessions |->
                  IF x = s THEN [ctl[s] EXCEPT !.at = "register"]
                  ELSE IF x \in seen THEN [ctl[x] EXCEPT !.todo = @ \cup {s}]
                  ELSE ctl[x]]
  BY <1>0 DEF AddSubscriber
<1>6. /\ ctl'[s] \in Joining /\ ctl'[s].at = "register" /\ ctl'[s].rs = r
      /\ ctl'[s].subid = ctl[s].subid
  <2>1. ctl'[s] = [ctl[s] EXCEPT !.at = "register"]
    BY <1>1, <1>5
  <2> QED
    BY <1>0, <1>2, <2>1 DEF Joining
<1>7. ASSUME NEW t \in Sessions, t # s
      PROVE  /\ ctl'[t] \in CtlStates /\ ctl'[t].at = ctl[t].at
             /\ t \in Subscribers => ctl'[t] = ctl[t]
             /\ ctl'[t].at \in {"okiter", "send", "add", "register"} => ctl'[t].rs = ctl[t].rs
  <2>1. CASE t \notin seen
    BY <1>1, <1>5, <1>7, <2>1
  <2>2. CASE t \in seen
    <3>1. t \in Publishers /\ ctl[t].at = "okiter"
      BY <2>2 DEF Iterating
    <3>2. ctl[t] \in Looping
      BY <1>1, <3>1, CtlShapes
    <3>3. ctl'[t] = [ctl[t] EXCEPT !.todo = @ \cup {s}]
      BY <1>5, <1>7, <2>2
    <3>4. ctl'[t] \in Looping /\ ctl'[t].at = ctl[t].at /\ ctl'[t].rs = ctl[t].rs
      BY <3>2, <3>3 DEF Looping
    <3> QED
      BY <3>1, <3>4, SessionsAssumption DEF CtlStates
  <2> QED
    BY <2>1, <2>2
<1>8. /\ ctl' \in [Sessions -> CtlStates]
      /\ \A t \in Sessions :
           ctl'[t].at \in {"okiter", "send", "add", "register"} => ctl'[t].rs \in 1..Len(rss')
  <2>1. ctl'[s] \in CtlStates
    BY <1>6 DEF CtlStates
  <2>2. \A t \in Sessions : ctl'[t] \in CtlStates
    BY <1>7, <2>1
  <2>3. ASSUME NEW t \in Sessions, ctl'[t].at \in {"okiter", "send", "add", "register"}
        PROVE  ctl'[t].rs \in 1..Len(rss')
    BY <1>3, <1>4, <1>6, <1>7, <2>3 DEF IInv, RefsInv
  <2> QED
    BY <1>5, <2>2, <2>3
<1>9. ASSUME NEW t \in Subscribers
      PROVE  /\ ctl'[t].at \notin {"lookup", "create"} \/ ctl'[t] = ctl[t]
             /\ ctl'[t].at \in {"send", "add", "register"} =>
                  /\ Request(t, ctl'[t].subid, rss'[ctl'[t].rs].track)
                  /\ \A e \in subscribed[t] : e.subid # ctl'[t].subid
  <2>1. CASE t = s
    BY <1>3, <1>4, <1>6, <2>1
  <2>2. CASE t # s
    <3>1. ctl'[t] = ctl[t] /\ t \in Sessions
      BY <1>1, <1>7, <2>2
    <3> QED
      BY <1>4, <3>1 DEF IInv, AskedInv, FreshInv, RefsInv
  <2> QED
    BY <2>1, <2>2
<1>10. ASSUME NEW q \in 1..Len(rss'), NEW t \in rss'[q].subs
       PROVE  Entered(t, q) \/ (ctl'[t].at = "register" /\ ctl'[t].rs = q)
  <2>1. q \in 1..Len(rss)
    BY <1>3, <1>4
  <2>4. t \in rss[q].subs \/ (t = s /\ q = r)
    BY <1>3, <1>4, <2>1
  <2>2. CASE t \in rss[q].subs
    <3>1. t \in Subscribers
      BY <2>1, <2>2, TypeFacts DEF IInv
    <3>2. ctl[t].at = "register" => ctl'[t] = ctl[t]
      BY <1>1, <1>7, <3>1
    <3>3. Entered(t, q) \/ (ctl[t].at = "register" /\ ctl[t].rs = q)
      BY <2>1, <2>2 DEF IInv, ListedInv
    <3> QED
      BY <3>2, <3>3
  <2>3. CASE t = s /\ q = r
    BY <1>6, <2>3
  <2> QED
    BY <2>2, <2>3, <2>4
<1>11. Len(rss) <= Len(rss') /\ Len(rss) \in Nat
  BY <1>4, TypeFacts DEF IInv
<1>12. \A q \in 1..Len(rss) : rss'[q].track = rss[q].track
  BY <1>4
<1>13. rss' \in Seq(RelayStreams)
  BY <1>4
<1>14. UNCHANGED <<plan, owner, closed, asked, subscribed, upstream, cachedOk, oks, streams>>
  BY <1>1
<1> QED
  BY <1>8, <1>9, <1>10, <1>11, <1>12, <1>13, <1>14, RelayStreamStep

(* FreshInv makes the new entry one that replaces none.                    *)
LEMMA RegisterStreamStep ==
  ASSUME IInv, NEW s \in Subscribers, RegisterStream(s)
  PROVE  IInv'
<1> DEFINE new == [subid |-> ctl[s].subid, rs |-> ctl[s].rs]
<1>1. /\ s \in Sessions /\ ctl \in [Sessions -> CtlStates] /\ ctl[s].at = "register"
      /\ Subscribers \subseteq Sessions
      /\ UNCHANGED <<plan, owner, closed, asked, rss, upstream, cachedOk, oks, streams>>
      /\ ctl' = [ctl EXCEPT ![s] = Idle]
  BY DEF IInv, Types, Sessions, RegisterStream
<1>2. new \in [subid : Nat, rs : Nat]
  <2>1. ctl[s] \in Joining
    BY <1>1, CtlShapes
  <2> QED
    BY <2>1 DEF Joining
<1>3. /\ new.rs \in 1..Len(rss) /\ Request(s, new.subid, rss[new.rs].track)
      /\ \A e \in subscribed[s] : e.subid # ctl[s].subid
  BY <1>1 DEF IInv, AskedInv, FreshInv, RefsInv
<1>4. /\ subscribed' \in [Subscribers -> EntrySets]
      /\ subscribed'[s] = subscribed[s] \cup {new}
      /\ \A t \in Subscribers \ {s} : subscribed'[t] = subscribed[t]
  <2>1. subscribed' = [subscribed EXCEPT ![s] = {e \in @ : e.subid # ctl[s].subid} \cup {new}]
    BY DEF RegisterStream
  <2>2. {e \in subscribed[s] : e.subid # ctl[s].subid} = subscribed[s]
    BY <1>3
  <2>3. subscribed' = [subscribed EXCEPT ![s] = subscribed[s] \cup {new}]
    BY <2>1, <2>2
  <2>4. subscribed \in [Subscribers -> EntrySets]
    BY DEF IInv, Types
  <2> HIDE DEF new
  <2>5. subscribed[s] \cup {new} \in EntrySets
    BY <1>2, <2>4 DEF EntrySets
  <2> QED
    BY <2>3, <2>4, <2>5
<1>5. new.rs = ctl[s].rs
  OBVIOUS
<1> HIDE DEF new
<1>6. /\ ctl' \in [Sessions -> CtlStates] /\ ctl'[s].at = "idle"
      /\ \A t \in Sessions \ {s} : ctl'[t] = ctl[t]
  BY <1>1 DEF CtlStates, Idle
<1>7. Types'
  BY <1>1, <1>4, <1>6 DEF IInv, Types
<1>8. RefsInv'
  BY <1>1, <1>3, <1>4, <1>6 DEF IInv, RefsInv
<1>9. AskedInv'
  <2>1. ASSUME NEW t \in Subscribers, NEW e \in subscribed'[t] \cup oks[t]
        PROVE  Has(asked[t], e.subid, rss[e.rs].track)
    <3>1. e \in subscribed[t] \cup oks[t] \/ (t = s /\ e = new)
      BY <1>4
    <3> QED
      BY <1>3, <3>1 DEF IInv, AskedInv, Request
  <2>2. \A t \in Subscribers :
          /\ ctl'[t].at \in {"lookup", "create"} => Has(asked[t], ctl'[t].subid, ctl'[t].track)
          /\ ctl'[t].at \in {"send", "add", "register"} =>
               Has(asked[t], ctl'[t].subid, rss[ctl'[t].rs].track)
    BY <1>1, <1>6 DEF IInv, AskedInv, Request
  <2>3. /\ \A k \in cachedOk : Has(asked[k.sub], k.subid, rss[k.rs].track)
        /\ \A i \in 1..Len(streams) : \A h \in streams[i].heads :
             Has(asked[h.sub], h.subid, rss[streams[i].rs].track)
    BY DEF IInv, AskedInv, Request
  <2> QED
    BY <1>1, <2>1, <2>2, <2>3 DEF AskedInv, Request
<1>10. FreshInv'
  <2>1. \A t \in Subscribers :
          ctl'[t].at \in {"lookup", "create", "send", "add", "register"} =>
            \A e \in subscribed'[t] : e.subid # ctl'[t].subid
    BY <1>1, <1>4, <1>6 DEF IInv, FreshInv
  <2> QED
    BY <1>1, <2>1 DEF IInv, FreshInv
<1>11. ListedInv'
  <2>1. \A t \in Subscribers : \A r : Entered(t, r) => \E e \in subscribed'[t] : e.rs = r
    BY <1>4 DEF Entered
  <2>2. ASSUME NEW r \in 1..Len(rss), NEW t \in rss[r].subs
        PROVE  (\E e \in subscribed'[t] : e.rs = r) \/ (ctl'[t].at = "register" /\ ctl'[t].rs = r)
    <3>1. t \in Subscribers
      BY TypeFacts DEF IInv
    <3>2. Entered(t, r) \/ (ctl[t].at = "register" /\ ctl[t].rs = r)
      BY DEF IInv, ListedInv
    <3>3. CASE t = s
      <4>1. CASE Entered(t, r)
        BY <2>1, <3>1, <4>1
      <4>2. CASE ctl[t].rs = r
        BY <1>4, <1>5, <3>3, <4>2
      <4> QED
        BY <3>2, <4>1, <4>2
    <3>4. CASE t # s
      BY <1>1, <1>6, <2>1, <3>1, <3>2, <3>4
    <3> QED
      BY <3>3, <3>4
  <2>3. ASSUME NEW i \in 1..Len(streams), NEW t \in streams[i].want
        PROVE  /\ \E e \in subscribed'[t] : e.rs = streams[i].rs
               /\ \/ t \in closed \/ t \in streams[i].pend
                  \/ \E h \in streams[i].heads : h.sub = t
    BY <2>1, TypeFacts DEF IInv, ListedInv
  <2> QED
    BY <1>1, <2>2, <2>3 DEF ListedInv, Entered
<1> QED
  BY <1>7, <1>8, <1>9, <1>10, <1>11 DEF IInv

(* Unvisit touches the loops of publishers only.                           *)
LEMMA UnvisitFacts ==
  ASSUME IInv, NEW s, NEW r
  PROVE  /\ Unvisit(ctl, s, r) \in [Sessions -> CtlStates]
         /\ \A t \in Sessions :
              /\ Unvisit(ctl, s, r)[t].at = ctl[t].at
              /\ Unvisit(ctl, s, r)[t].at \in {"okiter", "send", "add", "register"} =>
                   Unvisit(ctl, s, r)[t].rs = ctl[t].rs
              /\ t \in Subscribers => Unvisit(ctl, s, r)[t] = ctl[t]
<1> DEFINE u == Unvisit(ctl, s, r)
<1>1. u = [x \in Sessions |-> IF x \in Iterating(r) THEN [ctl[x] EXCEPT !.todo = @ \ {s}] ELSE ctl[x]]
  BY DEF Unvisit
<1>2. ctl \in [Sessions -> CtlStates]
  BY DEF IInv, Types
<1> HIDE DEF u
<1>3. ASSUME NEW t \in Sessions
      PROVE  /\ u[t] \in CtlStates /\ u[t].at = ctl[t].at
             /\ u[t].at \in {"okiter", "send", "add", "register"} => u[t].rs = ctl[t].rs
             /\ t \in Subscribers => u[t] = ctl[t]
  <2>1. CASE t \notin Iterating(r)
    BY <1>1, <1>2, <2>1
  <2>2. CASE t \in Iterating(r)
    <3>1. t \in Publishers /\ ctl[t].at = "okiter"
      BY <2>2 DEF Iterating
    <3>2. ctl[t] \in Looping
      BY <1>2, <3>1, CtlShapes
    <3>3. u[t] = [ctl[t] EXCEPT !.todo = @ \ {s}]
      BY <1>1, <2>2
    <3>4. u[t] \in Looping /\ u[t].at = ctl[t].at /\ u[t].rs = ctl[t].rs
      BY <3>2, <3>3 DEF Looping
    <3> QED
      BY <3>1, <3>4, SessionsAssumption DEF CtlStates
  <2> QED
    BY <2>1, <2>2
<1>4. u \in [Sessions -> CtlStates]
  BY <1>1, <1>3
<1> QED
  BY <1>3, <1>4 DEF u

(* RemoveSubscriber, whoever calls it: the subscriber's own goroutine      *)
(* becomes idle or stays as it is.                                         *)
LEMMA RemoveStep ==
  ASSUME IInv, NEW s \in Sessions, NEW r, RemoveSub(s, r),
         \/ ctl' = Unvisit(ctl, s, r)
         \/ ctl[s].at = "remove" /\ ctl' = [Unvisit(ctl, s, r) EXCEPT ![s] = Idle],
         UNCHANGED <<plan, owner, closed, asked, subscribed, upstream, cachedOk, oks, streams>>
  PROVE  IInv'
<1> DEFINE u == Unvisit(ctl, s, r)
<1>1. /\ u \in [Sessions -> CtlStates]
      /\ \A t \in Sessions :
           /\ u[t].at = ctl[t].at
           /\ u[t].at \in {"okiter", "send", "add", "register"} => u[t].rs = ctl[t].rs
           /\ t \in Subscribers => u[t] = ctl[t]
  BY UnvisitFacts
<1>2. ctl' = u \/ (ctl[s].at = "remove" /\ ctl' = [u EXCEPT ![s] = Idle])
  OBVIOUS
<1> HIDE DEF u
<1>3. /\ ctl' \in [Sessions -> CtlStates]
      /\ \A t \in Sessions :
           /\ ctl'[t].at \in {"okiter", "send", "add", "register"} =>
                ctl'[t].at = ctl[t].at /\ ctl'[t].rs = ctl[t].rs
           /\ t \in Subscribers /\ ctl'[t].at # "idle" => ctl'[t] = ctl[t]
           /\ t \in Subscribers /\ ctl[t].at = "register" => ctl'[t] = ctl[t]
  <2>1. Idle \in CtlStates /\ Idle.at = "idle"
    BY DEF CtlStates, Idle
  <2>2. ctl' \in [Sessions -> CtlStates]
    BY <1>1, <1>2, <2>1
  <2>3. \A t \in Sessions : ctl'[t] = u[t] \/ (ctl'[t] = Idle /\ ctl[t].at = "remove")
    BY <1>1, <1>2
  <2> QED
    BY <1>1, <2>1, <2>2, <2>3
<1>4. /\ rss' \in Seq(RelayStreams) /\ Len(rss') = Len(rss)
      /\ \A q \in 1..Len(rss) :
           rss'[q].track = rss[q].track /\ rss'[q].subs \subseteq rss[q].subs
  <2>1. CASE r \in 1..Len(rss)
    <3>1. PICK S : S = rss[r].subs \ {s}
      OBVIOUS
    <3>2. S \subseteq Subscribers
      BY <2>1, <3>1, TypeFacts DEF IInv
    <3>3. SubsBecome(r, S)
      BY <3>1 DEF RemoveSub, SubsBecome
    <3>4. /\ rss' \in Seq(RelayStreams) /\ Len(rss') = Len(rss)
          /\ \A q \in 1..Len(rss) : /\ rss'[q].track = rss[q].track
                                    /\ rss'[q].subs = IF q = r THEN S ELSE rss[q].subs
      BY <3>2, <3>3, SubsChange
    <3> QED
      BY <3>1, <3>4
  <2>2. CASE r \notin 1..Len(rss)
    <3>1. rss \in Seq(RelayStreams)
      BY DEF IInv, Types
    <3>2. rss' = rss
      BY <2>2, <3>1 DEF RemoveSub
    <3> QED
      BY <3>1, <3>2
  <2> QED
    BY <2>1, <2>2
<1>5. \A t \in Sessions :
        ctl'[t].at \in {"okiter", "send", "add", "register"} => ctl'[t].rs \in 1..Len(rss')
  BY <1>3, <1>4 DEF IInv, RefsInv
<1>6. Subscribers \subseteq Sessions
  BY DEF Sessions
<1>7. ASSUME NEW t \in Subscribers
      PROVE  /\ ctl'[t].at \notin {"lookup", "create"} \/ ctl'[t] = ctl[t]
             /\ ctl'[t].at \in {"send", "add", "register"} =>
                  /\ Request(t, ctl'[t].subid, rss'[ctl'[t].rs].track)
                  /\ \A e \in subscribed[t] : e.subid # ctl'[t].subid
  <2>1. ctl'[t].at \in {"lookup", "create", "send", "add", "register"} => ctl'[t] = ctl[t]
    BY <1>3, <1>6
  <2> QED
    BY <1>4, <1>6, <2>1 DEF IInv, AskedInv, FreshInv, RefsInv
<1>8. ASSUME NEW q \in 1..Len(rss'), NEW t \in rss'[q].subs
      PROVE  Entered(t, q) \/ (ctl'[t].at = "register" /\ ctl'[t].rs = q)
  <2>5. q \in 1..Len(rss)
    BY <1>4
  <2>1. q \in 1..Len(rss) /\ t \in rss[q].subs
    BY <1>4, <2>5
  <2>2. t \in Subscribers
    BY <2>1, TypeFacts DEF IInv
  <2>3. Entered(t, q) \/ (ctl[t].at = "register" /\ ctl[t].rs = q)
    BY <2>1 DEF IInv, ListedInv
  <2>4. ctl[t].at = "register" => ctl'[t] = ctl[t]
    BY <1>3, <1>6, <2>2
  <2> QED
    BY <2>3, <2>4
<1>9. Len(rss) <= Len(rss') /\ Len(rss) \in Nat
  BY <1>4, TypeFacts DEF IInv
<1>10. rss' \in Seq(RelayStreams) /\ \A q \in 1..Len(rss) : rss'[q].track = rss[q].track
  BY <1>4
<1>11. ctl' \in [Sessions -> CtlStates]
  BY <1>3
<1> QED
  BY <1>5, <1>7, <1>8, <1>9, <1>10, <1>11, RelayStreamStep

-----------------------------------------------------------------------------
(* The inductive invariant, one step per handler.                          *)
LEMMA NextIInv == IInv /\ [RelayNext]_relayVars => IInv'
<1> SUFFICES ASSUME IInv, [RelayNext]_relayVars PROVE IInv'
  OBVIOUS
<1>0. Publishers \subseteq Sessions /\ Subscribers \subseteq Sessions
  BY DEF Sessions
<1>1. CASE Peers
  <2>1. ASSUME NEW p \in Publishers, RelayHandleAnnounce(p) PROVE IInv'
    BY <2>1, QuietStep DEF RelayHandleAnnounce
  <2>2. ASSUME NEW p \in Publishers, NEW r \in upstream, HandleSubscribeOk(p, r) PROVE IInv'
    BY <2>2, HandleSubscribeOkStep
  <2>3. ASSUME NEW r \in upstream, ForwardStream(r) PROVE IInv'
    BY <2>3, ForwardStreamStep
  <2>4. ASSUME NEW s \in Subscribers, NEW t \in plan.tracks, HandleSubscribe(s, t) PROVE IInv'
    BY <2>4, HandleSubscribeStep
  <2>5. ASSUME NEW s \in Subscribers, NEW e \in subscribed[s], HandleUnsubscribe(s, e) PROVE IInv'
    BY <2>5, HandleUnsubscribeStep
  <2>6. ASSUME NEW s \in Sessions, ConnClosed(s) PROVE IInv'
    <3>1. owner' \in Publishers \cup {None} /\ closed \subseteq closed'
      BY <2>6 DEF ConnClosed, IInv, Types
    <3> QED
      BY <2>6, <3>1, QuietStep DEF ConnClosed
  <2> QED
    BY <1>1, <2>1, <2>2, <2>3, <2>4, <2>5, <2>6 DEF Peers
<1>2. ASSUME NEW p \in Publishers, OkLoop(p) PROVE IInv'
  BY <1>2, OkForwardedStep, SendSubscribeOkStep DEF OkLoop
<1>3. ASSUME NEW s \in Subscribers, SubscribeSteps(s) PROVE IInv'
  <2>1. CASE RemoveSubscriber(s)
    <3>1. PICK r : r = ctl[s].rs
      OBVIOUS
    <3>2. /\ RemoveSub(s, r) /\ ctl[s].at = "remove" /\ s \in Sessions
          /\ ctl' = [Unvisit(ctl, s, r) EXCEPT ![s] = Idle]
          /\ UNCHANGED <<plan, owner, closed, asked, subscribed, upstream, cachedOk, oks, streams>>
      BY <1>0, <2>1, <3>1 DEF RemoveSubscriber
    <3> QED
      BY <3>2, RemoveStep
  <2> QED
    BY <1>3, <2>1, GetObjectStreamStep, NewRelayStreamStep, SendSubscribeStep,
       AddSubscriberStep, RegisterStreamStep DEF SubscribeSteps
<1>4. ASSUME NEW s \in Subscribers, PipeSteps(s) PROVE IInv'
  BY <1>4, PipeHeaderStep DEF PipeSteps
<1>5. ASSUME NEW s \in Sessions, CloseSteps(s) PROVE IInv'
  <2>1. owner \in Publishers \cup {None}
    BY DEF IInv, Types
  <2>2. CASE RelayHandleClose(s)
    BY <2>1, <2>2, QuietStep DEF RelayHandleClose
  <2>3. CASE RelayRemoveSession(s)
    BY <2>1, <2>3, QuietStep DEF RelayRemoveSession
  <2>4. ASSUME NEW r \in closing[s], LeaveStream(s, r) PROVE IInv'
    <3>1. /\ RemoveSub(s, r) /\ ctl' = Unvisit(ctl, s, r)
          /\ UNCHANGED <<plan, owner, closed, asked, subscribed, upstream, cachedOk, oks, streams>>
      BY <2>4 DEF LeaveStream
    <3> QED
      BY <3>1, RemoveStep
  <2> QED
    BY <1>5, <2>2, <2>3, <2>4 DEF CloseSteps
<1>6. ASSUME NEW k \in cachedOk, SendCachedOk(k) PROVE IInv'
  BY <1>6, SendCachedOkStep
<1>7. CASE UNCHANGED relayVars
  <2>1. owner \in Publishers \cup {None}
    BY DEF IInv, Types
  <2> QED
    BY <1>7, <2>1, QuietStep DEF relayVars
<1> QED
  BY <1>1, <1>2, <1>3, <1>4, <1>5, <1>6, <1>7 DEF RelayNext

(* The inductive invariant holds in every reachable state.                 *)
THEOREM Inductive == RelaySpec => []IInv
  BY InitIInv, NextIInv, PTL DEF RelaySpec

(* The invariant implies what the run checks.                              *)
LEMMA IInvServes == IInv => RelayServes
<1> SUFFICES ASSUME IInv PROVE RelayServes
  OBVIOUS
<1>1. AnswersMatchRequests
  <2>1. /\ \A s \in Subscribers : \A o \in oks[s] : Request(s, o.subid, rss[o.rs].track)
        /\ \A i \in 1..Len(streams) : \A h \in streams[i].heads :
             Request(h.sub, h.subid, rss[streams[i].rs].track)
    BY DEF IInv, AskedInv
  <2> QED
    BY <2>1 DEF Request, Has, AnswersMatchRequests
<1>2. ForwardedToAllSubscribers
  BY DEF IInv, ListedInv, ForwardedToAllSubscribers
<1> QED
  BY <1>1, <1>2 DEF RelayServes

(* The relay serves its subscribers, however SUBSCRIBE, UNSUBSCRIBE, new   *)
(* object streams, SUBSCRIBE_OKs and closing connections interleave: each  *)
(* SUBSCRIBE_OK and each stream header goes out under an ID which that     *)
(* subscriber used for that track, and a stream whose pipes have let go of *)
(* ForwardStream has reached every subscriber that had finished            *)
(* subscribing when it arrived and is still connected.                     *)
THEOREM Serves == RelaySpec => []RelayServes
  BY Inductive, IInvServes, PTL
===============================================================================
