--------------------------- MODULE MoqObjectStream ---------------------------
(***************************************************************************)
(* One MoQ object stream on its way through a relay (or out of a           *)
(* publisher): a single producer goroutine fills the object array of a     *)
(* wire.GroupStream / wire.TrackStream and one goroutine per subscriber    *)
(* (a "pipe") copies it to that subscriber's unidirectional QUIC stream.   *)
(*                                                                         *)
(* The two stream types have the same control: an array under a mutex, a   *)
(* condition variable, the unsynchronised flag IsEOF and a WaitGroup.  An  *)
(* object is the place it has in the array, 1, 2, ...: the code never      *)
(* looks inside one.  Lines held under ObjectLock are one step.  IsEOF is  *)
(* read outside the lock, in a step of its own; the calls around that read *)
(* keep the compiler from moving it, so it returns the flag's value at     *)
(* that instant.                                                           *)
(***************************************************************************)
EXTENDS Integers, Sequences, FiniteSets

CONSTANTS
  Pipes,          \* the sessions that may subscribe
  MaxObjects      \* bound: objects the producer can read

ASSUME PipesAssumption == IsFiniteSet(Pipes)
ASSUME MaxObjectsAssumption == MaxObjects \in Nat

VARIABLES
  side,     \* "publisher": the stream of PubStream.NewStream, with one pipe;
            \* "relay": a stream RelayStream.ProcessObjects forwards
  subs,     \* the sessions in rs.Subscribers when the stream arrives
  prod,     \* where the producer goroutine is
  objs,     \* len(ObjectsArr)
  eof,      \* IsEOF
  wg,       \* the WaitGroup's counter
  pc,       \* where each pipe goroutine is
  index,    \* itr: the array index each pipe has copied up to
  batch,    \* data: objects copied under the lock, not yet written
  sent,     \* objects written to each subscriber's QUIC stream
  broken,   \* the pipes whose QUIC stream has failed: every later Write fails
  fin,      \* the pipes that closed the subscriber's stream with a FIN
  overtaken \* history: the pipes that have not looked at the array since an
            \* object was stored behind their last copy, while they were
            \* writing that copy or about to read IsEOF

streamVars ==
  <<side, subs, prod, objs, eof, wg, pc, index, batch, sent, broken, fin, overtaken>>

ProdStates == {"forward", "wgwait", "refused", "read", "done", "failed"}
PipeStates == {"none", "lookup", "header", "pipe", "parked", "woken",
               "write", "check", "close", "gone"}

StreamInit ==
  /\ side \in {"publisher", "relay"}
  /\ subs \in SUBSET Pipes
  /\ side = "publisher" => Cardinality(subs) = 1
  /\ prod = "forward"
  /\ objs = 0
  /\ eof = FALSE
  /\ wg = 0
  /\ pc = [p \in Pipes |-> "none"]
  /\ index = [p \in Pipes |-> 0]
  /\ batch = [p \in Pipes |-> <<>>]
  /\ sent = [p \in Pipes |-> <<>>]
  /\ broken = {}
  /\ fin = {}
  /\ overtaken = {}

(* sync.Cond.Broadcast: every goroutine parked in Wait is made runnable.   *)
Broadcast == pc' = [p \in Pipes |-> IF pc[p] = "parked" THEN "woken" ELSE pc[p]]

-----------------------------------------------------------------------------
(* The producer: RelayStream.ProcessObjects, which is ForwardStream and    *)
(* then the ReadObject loop.                                               *)

(* ForwardStream's loop body: WgAdd, then the goroutine is started.        *)
Spawn(p) ==
  /\ prod = "forward"
  /\ p \in subs
  /\ pc[p] = "none"
  /\ wg' = wg + 1
  /\ pc' = [pc EXCEPT ![p] = "lookup"]
  /\ UNCHANGED <<side, subs, prod, objs, eof, index, batch, sent, broken,
                 fin, overtaken>>

(* The loop has covered every subscriber: the producer enters WgWait.      *)
Forwarded ==
  /\ prod = "forward"
  /\ \A p \in subs : pc[p] # "none"
  /\ prod' = "wgwait"
  /\ UNCHANGED <<side, subs, objs, eof, wg, pc, index, batch, sent, broken,
                 fin, overtaken>>

WgWait ==
  /\ prod = "wgwait"
  /\ wg = 0
  /\ prod' = "read"
  /\ UNCHANGED <<side, subs, objs, eof, wg, pc, index, batch, sent, broken,
                 fin, overtaken>>

(* ReadObject got an object (or the publisher called WriteObject).         *)
ReadObject ==
  /\ prod = "read"
  /\ objs < MaxObjects
  /\ objs' = objs + 1
  /\ Broadcast
  /\ overtaken' = overtaken \cup {p \in Pipes : pc[p] \in {"write", "check"}}
  /\ UNCHANGED <<side, subs, prod, eof, wg, index, batch, sent, broken,
                 fin>>

(* ReadObject met io.EOF (or the publisher called Close).                  *)
Close ==
  /\ prod = "read"
  /\ eof' = TRUE
  /\ Broadcast
  /\ prod' = "done"
  /\ UNCHANGED <<side, subs, objs, wg, index, batch, sent, broken,
                 fin, overtaken>>

(* ReadObject met any other error: ProcessObjects returns, Close is never  *)
(* called.                                                                 *)
ReadError ==
  /\ prod = "read"
  /\ prod' = "failed"
  /\ UNCHANGED <<side, subs, objs, eof, wg, pc, index, batch, sent, broken,
                 fin, overtaken>>

-----------------------------------------------------------------------------
(* A pipe: RelayHandler.ProcessMOQTStream and the Pipe method it loops on. *)

(* GetSubID failed or OpenUniStream failed.  The relay's goroutine calls   *)
(* WgDone and returns; NewStream returns the error with the counter up.    *)
OpenFailed(p) ==
  /\ pc[p] = "lookup"
  /\ pc' = [pc EXCEPT ![p] = "gone"]
  /\ \/ side = "publisher" /\ prod' = "refused" /\ UNCHANGED wg
     \/ side = "relay" /\ wg' = wg - 1 /\ UNCHANGED prod
  /\ UNCHANGED <<side, subs, objs, eof, index, batch, sent, broken,
                 fin, overtaken>>

(* The stream is open and the header written (its error is ignored, so the *)
(* stream may already be broken).                                          *)
WriteHeader(p) ==
  /\ pc[p] = "lookup"
  /\ pc' = [pc EXCEPT ![p] = "header"]
  /\ broken' \in {broken, broken \cup {p}}
  /\ UNCHANGED <<side, subs, prod, objs, eof, wg, index, batch, sent, fin, overtaken>>

WgDone(p) ==
  /\ pc[p] = "header"
  /\ wg' = wg - 1
  /\ pc' = [pc EXCEPT ![p] = "pipe"]
  /\ UNCHANGED <<side, subs, prod, objs, eof, index, batch, sent, broken,
                 fin, overtaken>>

(* Pipe: take the lock and Wait, whatever the array and IsEOF hold.        *)
Park(p) ==
  /\ pc[p] = "pipe"
  /\ pc' = [pc EXCEPT ![p] = "parked"]
  /\ UNCHANGED <<side, subs, prod, objs, eof, wg, index, batch, sent,
                 broken,
                 fin, overtaken>>

(* Mutant: the caller drops the new value of itr.                          *)
CopyNoAdvance(p) ==
  /\ pc[p] = "woken"
  /\ batch' = [batch EXCEPT ![p] = [i \in 1..(objs - index[p]) |-> index[p] + i]]
  /\ pc' = [pc EXCEPT ![p] = "write"]
  /\ UNCHANGED <<side, subs, prod, objs, eof, wg, index, sent, broken,
                 fin, overtaken>>

(* Mutant: the copy stops one object short and counts it as copied.        *)
CopyOffByOne(p) ==
  /\ pc[p] = "woken"
  /\ batch' = [batch EXCEPT ![p] = [i \in 1..(objs - 1 - index[p]) |-> index[p] + i]]
  /\ index' = [index EXCEPT ![p] = objs]
  /\ pc' = [pc EXCEPT ![p] = "write"]
  /\ UNCHANGED <<side, subs, prod, objs, eof, wg, sent, broken,
                 fin, overtaken>>

(* Wait returned with the lock held: copy what is new, release the lock.   *)
Copy(p) ==
  /\ pc[p] = "woken"
  /\ batch' = [batch EXCEPT ![p] = [i \in 1..(objs - index[p]) |-> index[p] + i]]
  /\ index' = [index EXCEPT ![p] = objs]
  /\ overtaken' = overtaken \ {p}
  /\ pc' = [pc EXCEPT ![p] = "write"]
  /\ UNCHANGED <<side, subs, prod, objs, eof, wg, sent, broken, fin>>

WriteOk(p) ==
  /\ pc[p] = "write"
  /\ p \notin broken
  /\ sent' = [sent EXCEPT ![p] = @ \o batch[p]]
  /\ batch' = [batch EXCEPT ![p] = <<>>]
  /\ pc' = [pc EXCEPT ![p] = "check"]
  /\ UNCHANGED <<side, subs, prod, objs, eof, wg, index, broken,
                 fin, overtaken>>

(* Write failed; k objects of the batch had already gone out.  The relay   *)
(* leaves its loop, the publisher logs the error and calls Pipe again.     *)
WriteFailed(p) ==
  /\ pc[p] = "write"
  /\ \E k \in 0..Len(batch[p]) :
       /\ p \in broken => k = 0
       /\ sent' = [sent EXCEPT ![p] = @ \o SubSeq(batch[p], 1, k)]
  /\ broken' = broken \cup {p}
  /\ batch' = [batch EXCEPT ![p] = <<>>]
  /\ pc' = [pc EXCEPT ![p] = IF side = "publisher" THEN "pipe" ELSE "close"]
  /\ UNCHANGED <<side, subs, prod, objs, eof, wg, index, fin, overtaken>>

(* The read of IsEOF after the write.                                      *)
CheckEOF(p) ==
  /\ pc[p] = "check"
  /\ pc' = [pc EXCEPT ![p] = IF eof THEN "close" ELSE "pipe"]
  /\ UNCHANGED <<side, subs, prod, objs, eof, wg, index, batch, sent,
                 broken,
                 fin, overtaken>>

CloseUnistream(p) ==
  /\ pc[p] = "close"
  /\ fin' = IF p \in broken THEN fin ELSE fin \cup {p}
  /\ pc' = [pc EXCEPT ![p] = "gone"]
  /\ UNCHANGED <<side, subs, prod, objs, eof, wg, index, batch, sent, broken,
                 overtaken>>

Producer == Forwarded \/ WgWait \/ ReadObject \/ Close \/ ReadError
              \/ \E p \in Pipes : Spawn(p)

Pipe(p) == OpenFailed(p) \/ WriteHeader(p) \/ WgDone(p) \/ Park(p) \/ Copy(p)
             \/ WriteOk(p) \/ WriteFailed(p) \/ CheckEOF(p) \/ CloseUnistream(p)

StreamNext == Producer \/ \E p \in Pipes : Pipe(p)

StreamSpec == StreamInit /\ [][StreamNext]_streamVars

Forwarding == Forwarded \/ WgWait \/ \E p \in Pipes : Spawn(p)

(* The Go scheduler runs every runnable goroutine, and a QUIC Write        *)
(* returns or fails; whether the publisher sends is its own affair.        *)
StreamFairness ==
  /\ \A p \in Pipes : WF_streamVars(Pipe(p))
  /\ WF_streamVars(Forwarding)

StreamFairSpec == StreamSpec /\ StreamFairness

-----------------------------------------------------------------------------
(* Properties *)

(* The types; that wg is a natural number says that no WgDone is called    *)
(* without its WgAdd (the WaitGroup panics when it goes negative).         *)
StreamTypeOK ==
  /\ side \in {"publisher", "relay"}
  /\ subs \subseteq Pipes
  /\ prod \in ProdStates
  /\ objs \in Nat
  /\ eof \in BOOLEAN
  /\ wg \in Nat
  /\ pc \in [Pipes -> PipeStates]
  /\ index \in [Pipes -> Nat]
  /\ batch \in [Pipes -> Seq(Nat)]
  /\ sent \in [Pipes -> Seq(Nat)]
  /\ broken \subseteq Pipes
  /\ fin \subseteq Pipes
  /\ overtaken \subseteq Pipes

(* What a subscriber has received is a prefix of what the publisher sent:  *)
(* no object is skipped, repeated or reordered, however the pipe's copy    *)
(* under the lock, its write outside it and the producer interleave, and   *)
(* also when a write fails half way (Pipe, ProcessMOQTStream).             *)
SubscriberSeesPrefix ==
  \A p \in Pipes :
    /\ Len(sent[p]) <= objs
    /\ \A i \in 1..Len(sent[p]) : sent[p][i] = i

(* The WaitGroup hand-over of ForwardStream: from the moment the producer  *)
(* reads its first object no pipe still has its stream header to write, so *)
(* no object can overtake the header; WgDone is called once per WgAdd.     *)
HeaderBeforeObjects ==
  prod \in {"read", "done", "failed"} =>
    /\ wg = 0
    /\ \A p \in subs : pc[p] \notin {"none", "lookup", "header"}

(* A stream ends with a FIN only when the publisher ended it: a subscriber *)
(* never takes a read error of the relay for the end of the group.         *)
FinOnlyAfterEOF ==
  fin # {} => eof /\ prod = "done"

(* A stream that is ended with a FIN carries every object of the group,    *)
(* but for one case the code does not handle: Pipe reads IsEOF after it    *)
(* has released the lock, so an object stored behind its last copy while   *)
(* that copy was being written (overtaken) is left out when Close comes    *)
(* before the read.  The FIN then truncates the group without a sign.      *)
FinIsWholeUnlessOvertaken ==
  \A p \in fin \ overtaken : Len(sent[p]) = objs

(* What a subscriber gets is what the publisher sent: its prefix, behind   *)
(* the header, ended only when the publisher has ended the group and whole *)
(* when it is ended, unless an object and Close overtook the pipe's last   *)
(* write: the code then ends the stream without that object, and nothing   *)
(* is claimed of its end.                                                  *)
StreamIntact ==
  /\ SubscriberSeesPrefix
  /\ HeaderBeforeObjects
  /\ FinOnlyAfterEOF
  /\ FinIsWholeUnlessOvertaken

(* An object stored while a pipe is parked reaches that pipe's subscriber  *)
(* or the subscriber's stream is broken: again and again a pipe that was   *)
(* woken has copied the array (index only grows) and has written all that  *)
(* it copied, so the broadcast, the copy and the write lose nothing.  An   *)
(* object stored while a pipe is not parked is not promised: Pipe calls    *)
(* Wait without testing the array, so its broadcast is lost on that pipe   *)
(* and the object waits for the next one, or for ever.                     *)
WokenPipeDelivers ==
  \A p \in Pipes : []<>(pc[p] # "woken" /\ (Len(sent[p]) = index[p] \/ p \in broken))

=============================================================================
