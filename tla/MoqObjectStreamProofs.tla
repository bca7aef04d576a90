------------------------ MODULE MoqObjectStreamProofs ------------------------
(***************************************************************************)
(* Proofs about MoqObjectStream, for any finite set of pipes and any       *)
(* number of objects.                                                      *)
(*                                                                         *)
(* PipeInv relates, for one pipe, the array index it has copied up to, the *)
(* batch it holds outside the lock and what it has written.  WgInv says    *)
(* what the WaitGroup counts.  EofInv ties the unlocked read of IsEOF to   *)
(* the producer, WholeInv says which pipes are up to date with the array   *)
(* when they read it.  Together they are inductive.                        *)
(***************************************************************************)
EXTENDS MoqObjectStream, FiniteSetTheorems, SequenceTheorems, TLAPS

(* The pipes ForwardStream has counted and that have not called WgDone.    *)
Pending == {p \in Pipes : pc[p] \in {"lookup", "header"}}

(* A pipe never runs ahead of the array, has written the objects 1, 2, ... *)
(* in order, and holds the ones that come next in its batch.               *)
PipeOK(p) ==
  /\ index[p] <= objs
  /\ Len(sent[p]) <= index[p]
  /\ \A i \in 1..Len(sent[p]) : sent[p][i] = i
  /\ p \notin broken => Len(sent[p]) + Len(batch[p]) = index[p]
  /\ p \notin broken => \A i \in 1..Len(batch[p]) : batch[p][i] = Len(sent[p]) + i
  /\ pc[p] # "write" => batch[p] = <<>>

PipeInv == \A p \in Pipes : PipeOK(p)

WgInv ==
  /\ wg >= Cardinality(Pending)
  /\ prod # "refused" => wg = Cardinality(Pending)
  /\ prod \notin {"forward", "refused"} => \A p \in subs : pc[p] # "none"
  /\ prod \in {"read", "done", "failed"} => Pending = {}

EofInv ==
  /\ eof <=> prod = "done"
  /\ fin # {} => eof
  /\ \A p \in Pipes : pc[p] = "close" /\ p \notin broken => eof

(* Between its copy and its FIN a pipe that was not overtaken has copied   *)
(* the whole array; behind its FIN it has written it.                      *)
WholeOK(p) ==
  /\ p \in fin => pc[p] = "gone"
  /\ pc[p] \in {"write", "check", "close"} /\ p \notin broken \cup overtaken =>
       index[p] = objs
  /\ p \in fin \ overtaken => Len(sent[p]) = objs

WholeInv == \A p \in Pipes : WholeOK(p)

IInv == StreamTypeOK /\ PipeInv /\ WgInv /\ EofInv /\ WholeInv

-----------------------------------------------------------------------------
(* The batch Copy builds: a sequence of the given length.                  *)
LEMMA BatchSeq ==
  ASSUME NEW m \in Nat, NEW n \in Nat, m <= n
  PROVE  /\ [i \in 1..(n - m) |-> m + i] \in Seq(Nat)
         /\ Len([i \in 1..(n - m) |-> m + i]) = n - m
  OBVIOUS

(* The objects that come next, written behind the first ones, are again the *)
(* first ones.                                                             *)
LEMMA ExtendPrefix ==
  ASSUME NEW s \in Seq(Nat), NEW t \in Seq(Nat),
         \A i \in 1..Len(s) : s[i] = i,
         \A i \in 1..Len(t) : t[i] = Len(s) + i
  PROVE  /\ s \o t \in Seq(Nat)
         /\ Len(s \o t) = Len(s) + Len(t)
         /\ \A i \in 1..Len(s \o t) : (s \o t)[i] = i
<1>1. /\ s \o t \in Seq(Nat)
      /\ Len(s \o t) = Len(s) + Len(t)
      /\ \A i \in 1..Len(s) + Len(t) :
            (s \o t)[i] = IF i <= Len(s) THEN s[i] ELSE t[i - Len(s)]
  BY ConcatProperties
<1>2. ASSUME NEW i \in 1..Len(s) + Len(t) PROVE (s \o t)[i] = i
  <2>1. CASE i <= Len(s)
    BY <1>1, <2>1
  <2>2. CASE i > Len(s)
    <3>1. i - Len(s) \in 1..Len(t)
      BY <2>2
    <3>2. t[i - Len(s)] = Len(s) + (i - Len(s))
      BY <3>1
    <3> QED
      BY <1>1, <2>2, <3>2
  <2> QED
    BY <2>1, <2>2
<1> QED
  BY <1>1, <1>2

(* One pipe leaves Pending: the counter goes down by one.                  *)
LEMMA PendingRemove ==
  ASSUME StreamTypeOK, NEW p \in Pending, NEW s \in PipeStates,
         s \notin {"lookup", "header"},
         pc' = [pc EXCEPT ![p] = s]
  PROVE  Pending' = Pending \ {p} /\ Cardinality(Pending') = Cardinality(Pending) - 1
<1>1. Pending' = Pending \ {p}
  BY DEF Pending, StreamTypeOK
<1>2. IsFiniteSet(Pending)
  BY PipesAssumption, FS_Subset DEF Pending
<1> QED
  BY <1>1, <1>2, FS_RemoveElement

(* One pipe enters Pending: the counter goes up by one.                    *)
LEMMA PendingAdd ==
  ASSUME StreamTypeOK, NEW p \in Pipes, p \notin Pending,
         pc' = [pc EXCEPT ![p] = "lookup"]
  PROVE  Pending' = Pending \cup {p} /\ Cardinality(Pending') = Cardinality(Pending) + 1
<1>1. Pending' = Pending \cup {p}
  BY DEF Pending, StreamTypeOK
<1>2. IsFiniteSet(Pending)
  BY PipesAssumption, FS_Subset DEF Pending
<1> QED
  BY <1>1, <1>2, FS_AddElement

(* While a pipe is pending the counter is positive.                        *)
LEMMA PendingPositive ==
  ASSUME StreamTypeOK, WgInv, NEW p \in Pipes, pc[p] \in {"lookup", "header"}
  PROVE  wg - 1 \in Nat
<1>1. IsFiniteSet(Pending) /\ Pending # {}
  BY PipesAssumption, FS_Subset DEF Pending
<1>2. Cardinality(Pending) \in Nat /\ Cardinality(Pending) # 0
  BY <1>1, FS_CardinalityType, FS_EmptySet
<1> QED
  BY <1>2 DEF StreamTypeOK, WgInv

-----------------------------------------------------------------------------
(* A new stream satisfies the invariant.                                   *)
LEMMA InitIInv == StreamInit => IInv
<1> SUFFICES ASSUME StreamInit PROVE IInv
  OBVIOUS
<1>1. StreamTypeOK
  <2>1. <<>> \in Seq(Nat)
    OBVIOUS
  <2>2. batch \in [Pipes -> Seq(Nat)]
    BY <2>1 DEF StreamInit
  <2>3. sent \in [Pipes -> Seq(Nat)]
    BY <2>1 DEF StreamInit
  <2>4. pc \in [Pipes -> PipeStates]
    BY DEF StreamInit, PipeStates
  <2>5. index \in [Pipes -> Nat]
    BY DEF StreamInit
  <2>6. eof \in BOOLEAN
    BY Zenon DEF StreamInit
  <2> QED
    BY <2>2, <2>3, <2>4, <2>5, <2>6 DEF StreamInit, StreamTypeOK, ProdStates
<1>2. PipeInv
  <2> SUFFICES ASSUME NEW p \in Pipes PROVE PipeOK(p)
    BY DEF PipeInv
  <2>1. index[p] = 0 /\ sent[p] = <<>> /\ batch[p] = <<>> /\ objs = 0
    BY DEF StreamInit
  <2> QED
    BY <2>1 DEF PipeOK
<1>3. Pending = {}
  BY DEF StreamInit, Pending
<1>4. WgInv
  BY <1>3, FS_EmptySet DEF StreamInit, WgInv
<1>5. EofInv
  BY DEF StreamInit, EofInv
<1>6. WholeInv
  BY DEF StreamInit, WholeInv, WholeOK
<1> QED
  BY <1>1, <1>2, <1>4, <1>5, <1>6 DEF IInv

(* Every step keeps the types.                                             *)
LEMMA TypeStep == IInv /\ [StreamNext]_streamVars => StreamTypeOK'
<1> SUFFICES ASSUME IInv, [StreamNext]_streamVars PROVE StreamTypeOK'
  OBVIOUS
<1> USE DEF IInv, StreamTypeOK, ProdStates, PipeStates
<1>1. CASE UNCHANGED streamVars
  BY <1>1 DEF streamVars
<1>2. CASE Producer
  <2>1. CASE \E p \in Pipes : Spawn(p)
    BY <2>1 DEF Spawn
  <2>2. CASE Forwarded \/ WgWait \/ ReadError
    BY <2>2 DEF Forwarded, WgWait, ReadError
  <2>3. CASE ReadObject
    BY <2>3 DEF ReadObject, Broadcast
  <2>4. CASE Close
    BY <2>4 DEF Close, Broadcast
  <2> QED
    BY <1>2, <2>1, <2>2, <2>3, <2>4 DEF Producer
<1>3. ASSUME NEW p \in Pipes, Pipe(p) PROVE StreamTypeOK'
  <2>1. CASE OpenFailed(p)
    <3>1. wg - 1 \in Nat
      BY <2>1, PendingPositive DEF OpenFailed
    <3> QED
      BY <2>1, <3>1 DEF OpenFailed
  <2>2. CASE WriteHeader(p)
    BY <2>2 DEF WriteHeader
  <2>6. CASE WgDone(p)
    <3>1. wg - 1 \in Nat
      BY <2>6, PendingPositive DEF WgDone
    <3> QED
      BY <2>6, <3>1 DEF WgDone
  <2>9. CASE Park(p)
    BY <2>9 DEF Park
  <2>7. CASE CheckEOF(p)
    BY <2>7 DEF CheckEOF
  <2>8. CASE CloseUnistream(p)
    BY <2>8 DEF CloseUnistream
  <2>3. CASE Copy(p)
    <3>1. [i \in 1..(objs - index[p]) |-> index[p] + i] \in Seq(Nat)
      BY BatchSeq DEF PipeInv, PipeOK
    <3> QED
      BY <2>3, <3>1 DEF Copy
  <2>4. CASE WriteOk(p)
    <3>1. sent[p] \o batch[p] \in Seq(Nat)
      BY ConcatProperties
    <3> QED
      BY <2>4, <3>1 DEF WriteOk
  <2>5. CASE WriteFailed(p)
    <3>1. PICK k \in 0..Len(batch[p]) : sent' = [sent EXCEPT ![p] = @ \o SubSeq(batch[p], 1, k)]
      BY <2>5 DEF WriteFailed
    <3>2. SubSeq(batch[p], 1, k) \in Seq(Nat)
      BY SubSeqProperties
    <3>3. sent[p] \o SubSeq(batch[p], 1, k) \in Seq(Nat)
      BY <3>2, ConcatProperties
    <3> QED
      BY <2>5, <3>1, <3>3 DEF WriteFailed
  <2> QED
    BY <1>3, <2>1, <2>2, <2>3, <2>4, <2>5, <2>6, <2>7, <2>8, <2>9 DEF Pipe
<1> QED
  BY <1>1, <1>2, <1>3 DEF StreamNext

(* Only Copy, WriteOk and WriteFailed touch what PipeInv relates; the      *)
(* producer only makes the array longer.                                   *)
LEMMA PipeStep == IInv /\ [StreamNext]_streamVars => PipeInv'
<1> SUFFICES ASSUME IInv, [StreamNext]_streamVars, NEW q \in Pipes PROVE PipeOK(q)'
  BY DEF PipeInv
<1>0. StreamTypeOK /\ PipeOK(q)
  BY DEF IInv, PipeInv
<1>t. StreamTypeOK'
  BY TypeStep
<1>f. ASSUME index'[q] = index[q], sent'[q] = sent[q], batch'[q] = batch[q],
             broken \subseteq broken', objs <= objs',
             pc[q] = "write" => pc'[q] = "write"
      PROVE  PipeOK(q)'
  BY <1>0, <1>t, <1>f DEF PipeOK, StreamTypeOK
<1>1. CASE UNCHANGED streamVars
  BY <1>0, <1>1, <1>f DEF streamVars, StreamTypeOK
<1>2. CASE \E p \in Pipes : Spawn(p)
  BY <1>0, <1>2, <1>f DEF Spawn, StreamTypeOK
<1>3. CASE Forwarded \/ WgWait \/ ReadError
  BY <1>0, <1>3, <1>f DEF Forwarded, WgWait, ReadError, StreamTypeOK
<1>4. CASE ReadObject
  BY <1>0, <1>4, <1>f DEF ReadObject, Broadcast, StreamTypeOK
<1>5. CASE Close
  BY <1>0, <1>5, <1>f DEF Close, Broadcast, StreamTypeOK
<1>6. ASSUME NEW p \in Pipes, Pipe(p) PROVE PipeOK(q)'
  <2>1. CASE OpenFailed(p)
    BY <1>0, <1>f, <2>1 DEF OpenFailed, StreamTypeOK
  <2>2. CASE WriteHeader(p)
    BY <1>0, <1>f, <2>2 DEF WriteHeader, StreamTypeOK
  <2>3. CASE WgDone(p)
    BY <1>0, <1>f, <2>3 DEF WgDone, StreamTypeOK
  <2>4. CASE Park(p)
    BY <1>0, <1>f, <2>4 DEF Park, StreamTypeOK
  <2>5. CASE CheckEOF(p)
    BY <1>0, <1>f, <2>5 DEF CheckEOF, StreamTypeOK
  <2>6. CASE CloseUnistream(p)
    BY <1>0, <1>f, <2>6 DEF CloseUnistream, StreamTypeOK
  <2>7. CASE Copy(p)
    <3>1. CASE q # p
      BY <1>0, <1>f, <2>7, <3>1 DEF Copy, StreamTypeOK
    <3>2. CASE q = p
      <4> DEFINE new == [i \in 1..(objs - index[p]) |-> index[p] + i]
      <4>1. new \in Seq(Nat) /\ Len(new) = objs - index[p]
        BY <1>0, <3>2, BatchSeq DEF PipeOK, StreamTypeOK
      <4>2. /\ batch'[p] = new /\ index'[p] = objs /\ objs' = objs
            /\ sent' = sent /\ broken' = broken /\ pc'[p] = "write"
        BY <1>0, <2>7 DEF Copy, StreamTypeOK
      <4>3. batch[p] = <<>>
        BY <1>0, <2>7, <3>2 DEF Copy, PipeOK
      <4>4. p \notin broken => Len(sent[p]) = index[p]
        BY <1>0, <3>2, <4>3 DEF PipeOK, StreamTypeOK
      <4>5. \A i \in 1..(objs - index[p]) : new[i] = index[p] + i
        OBVIOUS
      <4> HIDE DEF new
      <4>6. p \notin broken => \A i \in 1..Len(new) : new[i] = Len(sent[p]) + i
        BY <4>1, <4>4, <4>5
      <4>7. p \notin broken => Len(sent[p]) + Len(new) = objs
        BY <1>0, <4>1, <4>4 DEF StreamTypeOK
      <4> QED
        BY <1>0, <3>2, <4>2, <4>6, <4>7 DEF PipeOK, StreamTypeOK
    <3> QED
      BY <3>1, <3>2
  <2>8. CASE WriteOk(p)
    <3>1. CASE q # p
      BY <1>0, <1>f, <2>8, <3>1 DEF WriteOk, StreamTypeOK
    <3>2. CASE q = p
      <4> DEFINE all == sent[p] \o batch[p]
      <4>1. sent[p] \in Seq(Nat) /\ batch[p] \in Seq(Nat)
        BY <1>0 DEF StreamTypeOK
      <4>2. /\ Len(sent[p]) + Len(batch[p]) = index[p]
            /\ \A i \in 1..Len(sent[p]) : sent[p][i] = i
            /\ \A i \in 1..Len(batch[p]) : batch[p][i] = Len(sent[p]) + i
        BY <1>0, <2>8, <3>2 DEF WriteOk, PipeOK
      <4>3. Len(all) = index[p] /\ \A i \in 1..Len(all) : all[i] = i
        BY <4>1, <4>2, ExtendPrefix
      <4> HIDE DEF all
      <4>4. /\ sent'[p] = all /\ batch'[p] = <<>> /\ index' = index
            /\ objs' = objs /\ broken' = broken
        BY <1>0, <2>8 DEF WriteOk, StreamTypeOK, all
      <4> QED
        BY <1>0, <3>2, <4>3, <4>4 DEF PipeOK, StreamTypeOK
    <3> QED
      BY <3>1, <3>2
  <2>9. CASE WriteFailed(p)
    <3>1. CASE q # p
      BY <1>0, <1>f, <2>9, <3>1 DEF WriteFailed, StreamTypeOK
    <3>2. CASE q = p
      <4>1. PICK k \in 0..Len(batch[p]) :
              /\ p \in broken => k = 0
              /\ sent' = [sent EXCEPT ![p] = @ \o SubSeq(batch[p], 1, k)]
        BY <2>9 DEF WriteFailed
      <4> DEFINE part == SubSeq(batch[p], 1, k)
                 all == sent[p] \o part
      <4>2. sent[p] \in Seq(Nat) /\ batch[p] \in Seq(Nat)
        BY <1>0 DEF StreamTypeOK
      <4>3. part \in Seq(Nat) /\ Len(part) = k /\ \A i \in 1..k : part[i] = batch[p][i]
        BY <4>2, SubSeqProperties
      <4>4. sent'[p] = all
        BY <1>0, <4>1 DEF StreamTypeOK
      <4>5. /\ \A i \in 1..Len(sent[p]) : sent[p][i] = i
            /\ \A i \in 1..Len(part) : part[i] = Len(sent[p]) + i
            /\ Len(sent[p]) + Len(part) <= index[p]
        <5>1. CASE p \in broken
          BY <1>0, <3>2, <4>1, <4>2, <4>3, <5>1 DEF PipeOK, StreamTypeOK
        <5>2. CASE p \notin broken
          BY <1>0, <3>2, <4>1, <4>2, <4>3, <5>2 DEF PipeOK, StreamTypeOK
        <5> QED
          BY <5>1, <5>2
      <4> HIDE DEF part
      <4>6. Len(all) <= index[p] /\ \A i \in 1..Len(all) : all[i] = i
        BY <4>2, <4>3, <4>5, ExtendPrefix
      <4> HIDE DEF all
      <4> QED
        BY <1>0, <2>9, <3>2, <4>4, <4>6 DEF PipeOK, StreamTypeOK, WriteFailed
    <3> QED
      BY <3>1, <3>2
  <2> QED
    BY <1>6, <2>1, <2>2, <2>3, <2>4, <2>5, <2>6, <2>7, <2>8, <2>9 DEF Pipe
<1> QED
  BY <1>1, <1>2, <1>3, <1>4, <1>5, <1>6 DEF StreamNext, Producer

(* Spawn enters Pending, OpenFailed and WgDone leave it, nothing else      *)
(* changes membership.                                                     *)
LEMMA WgStep == IInv /\ [StreamNext]_streamVars => WgInv'
<1> SUFFICES ASSUME IInv, [StreamNext]_streamVars PROVE WgInv'
  OBVIOUS
<1>0. StreamTypeOK /\ WgInv
  BY DEF IInv
<1>a. IsFiniteSet(Pending)
  BY PipesAssumption, FS_Subset DEF Pending
<1>c. Cardinality(Pending) \in Nat
  BY <1>a, FS_CardinalityType
<1>s. subs \subseteq Pipes
  BY <1>0 DEF StreamTypeOK
<1>b. ASSUME UNCHANGED <<subs, prod, wg, Pending>>,
             \A p \in Pipes : pc[p] # "none" => pc'[p] # "none"
      PROVE  WgInv'
  BY <1>0, <1>s, <1>b DEF WgInv
<1>1. CASE UNCHANGED streamVars
  BY <1>0, <1>1, <1>b DEF streamVars, Pending
<1>2. ASSUME NEW p \in Pipes, Spawn(p) PROVE WgInv'
  <2>1. p \notin Pending /\ pc' = [pc EXCEPT ![p] = "lookup"] /\ wg' = wg + 1
    BY <1>2 DEF Spawn, Pending
  <2>2. Cardinality(Pending') = Cardinality(Pending) + 1
    BY <2>1, <1>0, PendingAdd
  <2> QED
    BY <1>0, <1>2, <2>1, <2>2 DEF WgInv, Spawn
<1>3. CASE Forwarded
  BY <1>0, <1>3 DEF Forwarded, WgInv, Pending
<1>4. CASE WgWait
  <2>1. Pending' = Pending /\ Pending = {}
    BY <1>0, <1>4, <1>a, FS_EmptySet DEF WgWait, WgInv, Pending
  <2> QED
    BY <1>0, <1>4, <2>1 DEF WgWait, WgInv
<1>5. ASSUME ReadObject \/ Close \/ ReadError PROVE WgInv'
  <2>1. Pending' = Pending /\ \A p \in Pipes : pc[p] # "none" => pc'[p] # "none"
    BY <1>0, <1>5 DEF ReadObject, Close, ReadError, Broadcast, Pending, StreamTypeOK
  <2> QED
    BY <1>0, <1>5, <1>s, <2>1 DEF WgInv, ReadObject, Close, ReadError
<1>6. ASSUME NEW p \in Pipes, Pipe(p) PROVE WgInv'
  <2>1. CASE OpenFailed(p)
    <3>1. p \in Pending /\ pc' = [pc EXCEPT ![p] = "gone"] /\ "gone" \in PipeStates
      BY <2>1 DEF OpenFailed, Pending, PipeStates
    <3>2. Pending' = Pending \ {p} /\ Cardinality(Pending') = Cardinality(Pending) - 1
      BY <3>1, <1>0, PendingRemove
    <3> QED
      BY <1>0, <1>c, <2>1, <3>1, <3>2 DEF WgInv, OpenFailed, StreamTypeOK
  <2>2. CASE WgDone(p)
    <3>1. p \in Pending /\ pc' = [pc EXCEPT ![p] = "pipe"] /\ "pipe" \in PipeStates
      BY <2>2 DEF WgDone, Pending, PipeStates
    <3>2. Pending' = Pending \ {p} /\ Cardinality(Pending') = Cardinality(Pending) - 1
      BY <3>1, <1>0, PendingRemove
    <3> QED
      BY <1>0, <1>c, <2>2, <3>1, <3>2 DEF WgInv, WgDone, StreamTypeOK
  <2>3. CASE WriteHeader(p)
    BY <1>0, <1>b, <2>3 DEF WriteHeader, Pending, StreamTypeOK
  <2>4. CASE Park(p)
    BY <1>0, <1>b, <2>4 DEF Park, Pending, StreamTypeOK
  <2>5. CASE Copy(p)
    BY <1>0, <1>b, <2>5 DEF Copy, Pending, StreamTypeOK
  <2>6. CASE WriteOk(p)
    BY <1>0, <1>b, <2>6 DEF WriteOk, Pending, StreamTypeOK
  <2>7. CASE WriteFailed(p)
    BY <1>0, <1>b, <2>7 DEF WriteFailed, Pending, StreamTypeOK
  <2>8. CASE CheckEOF(p)
    BY <1>0, <1>b, <2>8 DEF CheckEOF, Pending, StreamTypeOK
  <2>9. CASE CloseUnistream(p)
    BY <1>0, <1>b, <2>9 DEF CloseUnistream, Pending, StreamTypeOK
  <2> QED
    BY <1>6, <2>1, <2>2, <2>3, <2>4, <2>5, <2>6, <2>7, <2>8, <2>9 DEF Pipe
<1> QED
  BY <1>1, <1>2, <1>3, <1>4, <1>5, <1>6 DEF StreamNext, Producer

(* IsEOF is set by Close only, and a pipe with a working stream leaves its *)
(* loop only after it has read IsEOF set.                                  *)
LEMMA EofStep == IInv /\ [StreamNext]_streamVars => EofInv'
<1> SUFFICES ASSUME IInv, [StreamNext]_streamVars PROVE EofInv'
  OBVIOUS
<1>0. StreamTypeOK /\ EofInv
  BY DEF IInv
<1> USE DEF EofInv
<1>1. CASE UNCHANGED streamVars
  BY <1>0, <1>1 DEF streamVars
<1>2. CASE \E p \in Pipes : Spawn(p)
  BY <1>0, <1>2 DEF Spawn, StreamTypeOK
<1>3. CASE Forwarded
  BY <1>0, <1>3 DEF Forwarded
<1>4. CASE WgWait
  BY <1>0, <1>4 DEF WgWait
<1>5. CASE ReadError
  BY <1>0, <1>5 DEF ReadError
<1>6. CASE ReadObject
  BY <1>0, <1>6 DEF ReadObject, Broadcast, StreamTypeOK
<1>7. CASE Close
  BY <1>0, <1>7 DEF Close
<1>8. ASSUME NEW p \in Pipes, Pipe(p) PROVE EofInv'
  <2>1. CASE OpenFailed(p)
    <3>1. prod # "done"
      BY <1>0, <2>1 DEF OpenFailed, IInv, WgInv, Pending
    <3> QED
      BY <1>0, <2>1, <3>1 DEF OpenFailed, StreamTypeOK
  <2>2. CASE WriteHeader(p)
    BY <1>0, <2>2 DEF WriteHeader, StreamTypeOK
  <2>3. CASE WgDone(p)
    BY <1>0, <2>3 DEF WgDone, StreamTypeOK
  <2>4. CASE Park(p)
    BY <1>0, <2>4 DEF Park, StreamTypeOK
  <2>5. CASE Copy(p)
    BY <1>0, <2>5 DEF Copy, StreamTypeOK
  <2>6. CASE WriteOk(p)
    BY <1>0, <2>6 DEF WriteOk, StreamTypeOK
  <2>7. CASE WriteFailed(p)
    BY <1>0, <2>7 DEF WriteFailed, StreamTypeOK
  <2>8. CASE CheckEOF(p)
    BY <1>0, <2>8 DEF CheckEOF, StreamTypeOK
  <2>9. CASE CloseUnistream(p)
    BY <1>0, <2>9 DEF CloseUnistream, StreamTypeOK
  <2> QED
    BY <1>8, <2>1, <2>2, <2>3, <2>4, <2>5, <2>6, <2>7, <2>8, <2>9 DEF Pipe
<1> QED
  BY <1>1, <1>2, <1>3, <1>4, <1>5, <1>6, <1>7, <1>8 DEF StreamNext, Producer

(* An object is stored only before IsEOF is set, and marks every pipe that *)
(* is past its copy as overtaken; only Copy takes the mark away, and it    *)
(* takes the whole array.                                                  *)
LEMMA WholeStep == IInv /\ [StreamNext]_streamVars => WholeInv'
<1> SUFFICES ASSUME IInv, [StreamNext]_streamVars, NEW q \in Pipes PROVE WholeOK(q)'
  BY DEF WholeInv
<1>0. StreamTypeOK /\ PipeOK(q) /\ EofInv /\ WholeOK(q)
  BY DEF IInv, PipeInv, WholeInv
<1>f. ASSUME UNCHANGED <<objs, index, sent, fin>>, broken \subseteq broken',
             overtaken' = overtaken, q \in fin => pc'[q] = pc[q],
             pc'[q] \in {"write", "check", "close"} =>
               pc[q] \in {"write", "check", "close"} \/ q \in broken'
      PROVE  WholeOK(q)'
  BY <1>0, <1>f DEF WholeOK
<1>1. CASE UNCHANGED streamVars
  BY <1>f, <1>1 DEF streamVars
<1>2. ASSUME NEW p \in Pipes, Spawn(p) PROVE WholeOK(q)'
  BY <1>0, <1>2, <1>f DEF Spawn, StreamTypeOK, WholeOK
<1>3. CASE Forwarded \/ WgWait \/ ReadError
  BY <1>3, <1>f DEF Forwarded, WgWait, ReadError
<1>4. CASE ReadObject
  <2>1. q \notin fin /\ q \notin fin'
    BY <1>0, <1>4 DEF ReadObject, EofInv
  <2>2. pc'[q] \in {"write", "check", "close"} => pc[q] = pc'[q]
    BY <1>0, <1>4 DEF ReadObject, Broadcast, StreamTypeOK
  <2>3. pc[q] = "close" => q \in broken
    BY <1>0, <1>4 DEF ReadObject, EofInv
  <2> QED
    BY <1>4, <2>1, <2>2, <2>3 DEF ReadObject, WholeOK
<1>5. CASE Close
  <2>1. pc'[q] = pc[q] \/ (pc[q] = "parked" /\ pc'[q] = "woken")
    BY <1>0, <1>5 DEF Close, Broadcast, StreamTypeOK
  <2> QED
    BY <1>0, <1>5, <1>f, <2>1 DEF Close, WholeOK
<1>6. ASSUME NEW p \in Pipes, Pipe(p) PROVE WholeOK(q)'
  <2>1. CASE OpenFailed(p)
    BY <1>0, <1>f, <2>1 DEF OpenFailed, StreamTypeOK, WholeOK
  <2>2. CASE WriteHeader(p)
    BY <1>0, <1>f, <2>2 DEF WriteHeader, StreamTypeOK, WholeOK
  <2>3. CASE WgDone(p)
    BY <1>0, <1>f, <2>3 DEF WgDone, StreamTypeOK, WholeOK
  <2>4. CASE Park(p)
    BY <1>0, <1>f, <2>4 DEF Park, StreamTypeOK, WholeOK
  <2>5. CASE Copy(p)
    BY <1>0, <2>5 DEF Copy, StreamTypeOK, WholeOK
  <2>6. CASE WriteOk(p)
    BY <1>0, <2>6 DEF WriteOk, StreamTypeOK, WholeOK
  <2>7. CASE WriteFailed(p)
    <3>1. CASE q = p
      BY <1>0, <2>7, <3>1 DEF WriteFailed, StreamTypeOK, WholeOK
    <3>2. CASE q # p
      BY <1>0, <2>7, <3>2 DEF WriteFailed, StreamTypeOK, WholeOK
    <3> QED
      BY <3>1, <3>2
  <2>8. CASE CheckEOF(p)
    BY <1>0, <1>f, <2>8 DEF CheckEOF, StreamTypeOK, WholeOK
  <2>9. CASE CloseUnistream(p)
    <3>1. CASE q = p
      <4>1. p \notin broken => Len(sent[p]) = index[p]
        BY <1>0, <2>9, <3>1 DEF CloseUnistream, PipeOK, StreamTypeOK
      <4> QED
        BY <1>0, <2>9, <3>1, <4>1 DEF CloseUnistream, StreamTypeOK, WholeOK
    <3>2. CASE q # p
      BY <1>0, <2>9, <3>2 DEF CloseUnistream, StreamTypeOK, WholeOK
    <3> QED
      BY <3>1, <3>2
  <2> QED
    BY <1>6, <2>1, <2>2, <2>3, <2>4, <2>5, <2>6, <2>7, <2>8, <2>9 DEF Pipe
<1> QED
  BY <1>1, <1>2, <1>3, <1>4, <1>5, <1>6 DEF StreamNext, Producer

-----------------------------------------------------------------------------
(* The inductive invariant holds in every reachable state.                 *)
THEOREM Invariance == StreamSpec => []IInv
<1>1. IInv /\ [StreamNext]_streamVars => IInv'
  BY TypeStep, PipeStep, WgStep, EofStep, WholeStep DEF IInv
<1> QED
  BY InitIInv, <1>1, PTL DEF StreamSpec

(* Type correctness of the object stream's state.                          *)
THEOREM TypeCorrect == StreamSpec => []StreamTypeOK
<1>1. IInv => StreamTypeOK
  BY DEF IInv
<1> QED
  BY Invariance, <1>1, PTL

(* For any number of subscribers and objects, what Pipe has written to a   *)
(* subscriber is a prefix of the object array.                             *)
THEOREM PrefixDelivery == StreamSpec => []SubscriberSeesPrefix
<1>1. IInv => SubscriberSeesPrefix
  BY DEF IInv, StreamTypeOK, PipeInv, PipeOK, SubscriberSeesPrefix
<1> QED
  BY Invariance, <1>1, PTL

(* For any number of subscribers, ProcessObjects reads its first object    *)
(* only when every pipe has written its header or given up.                *)
THEOREM HeadersFirst == StreamSpec => []HeaderBeforeObjects
<1>1. IInv => HeaderBeforeObjects
  BY FS_EmptySet DEF IInv, StreamTypeOK, WgInv, Pending, HeaderBeforeObjects
<1> QED
  BY Invariance, <1>1, PTL

(* For any number of subscribers, a FIN is sent only for a group that its  *)
(* publisher ended.                                                        *)
THEOREM FinIsEndOfGroup == StreamSpec => []FinOnlyAfterEOF
<1>1. IInv => FinOnlyAfterEOF
  BY DEF IInv, EofInv, FinOnlyAfterEOF
<1> QED
  BY Invariance, <1>1, PTL

(* For any number of subscribers and objects, a group that is ended with a *)
(* FIN is whole unless an object and Close overtook Pipe between its copy  *)
(* under the lock and its read of IsEOF.                                   *)
THEOREM FinIsWhole == StreamSpec => []FinIsWholeUnlessOvertaken
<1>1. IInv => FinIsWholeUnlessOvertaken
  BY DEF IInv, StreamTypeOK, WholeInv, WholeOK, FinIsWholeUnlessOvertaken
<1> QED
  BY Invariance, <1>1, PTL

(* What Pipe, ForwardStream and Close promise together: each subscriber is *)
(* sent a prefix of the objects, behind its header, a FIN only when the    *)
(* group has ended, and with it the whole group unless the pipe was        *)
(* overtaken on its way to the FIN.                                        *)
THEOREM Delivery == StreamSpec => []StreamIntact
  BY PrefixDelivery, HeadersFirst, FinIsEndOfGroup, FinIsWhole, PTL DEF StreamIntact

=============================================================================
