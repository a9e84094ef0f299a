------------------------- MODULE AdapterSyncProofs -------------------------
(***************************************************************************)
(* Theorems about AdapterSync, for every number of chunks, versions,       *)
(* trainer runs, policies, faults, restarts and kept directories.          *)
(*                                                                         *)
(* Part 1 holds for any number of handler threads: type correctness and    *)
(* what the critical section under _adapter_lock gives.  Part 2 holds when *)
(* one thread calls fetch(), as the class comment of AdapterClient asks.   *)
(***************************************************************************)
EXTENDS AdapterSync, SequenceTheorems, TLAPS

-----------------------------------------------------------------------------
(* Lemmas about the wire format.                                           *)

SliceSet == [of : KnownAdapters, index : 1 .. NChunks]

\* A slice of a known adapter is a known slice.
LEMMA SliceType ==
  ASSUME NEW a \in KnownAdapters, NEW k \in 1 .. NChunks
  PROVE  Slice(a, k) \in SliceSet
BY DEF Slice, SliceSet

\* NoAdapter is not one of the adapters.
LEMMA NoAdapterUnknown == NoAdapter \notin KnownAdapters
BY DEF NoAdapter, KnownAdapters

\* The first k slices of an adapter are k bytes of it.
LEMMA PrefixType ==
  ASSUME NEW a \in KnownAdapters, NEW k \in 0 .. NChunks
  PROVE  /\ Prefix(a, k) \in Bytes
         /\ Len(Prefix(a, k)) = k
         /\ \A i \in 1 .. k : Prefix(a, k)[i] = Slice(a, i)
<1>1. k \in Nat
  BY NChunksAssumption
<1>2. \A i \in 1 .. k : Slice(a, i) \in SliceSet
  BY SliceType, NChunksAssumption
<1>3. Prefix(a, k) \in [1 .. k -> SliceSet]
  BY <1>2 DEF Prefix
<1>4. Prefix(a, k) \in Seq(SliceSet)
  BY <1>1, <1>3, SeqDef
<1>5. Len(Prefix(a, k)) = k
  BY <1>1, <1>3, <1>4, LenProperties
<1> QED
  BY <1>4, <1>5 DEF Bytes, SliceSet, Prefix

\* The next slice of the same adapter makes a longer prefix of it.
LEMMA PrefixGrows ==
  ASSUME NEW a \in KnownAdapters, NEW k \in 1 .. NChunks
  PROVE  Append(Prefix(a, k - 1), Slice(a, k)) = Prefix(a, k)
<1> DEFINE s == Append(Prefix(a, k - 1), Slice(a, k))
<1>0. k \in 0 .. NChunks /\ k - 1 \in 0 .. NChunks
  BY NChunksAssumption
<1>1. /\ Prefix(a, k - 1) \in Seq(SliceSet)
      /\ Len(Prefix(a, k - 1)) = k - 1
      /\ \A i \in 1 .. k - 1 : Prefix(a, k - 1)[i] = Slice(a, i)
  BY PrefixType, <1>0 DEF Bytes, SliceSet
<1>2. /\ Prefix(a, k) \in Seq(SliceSet)
      /\ Len(Prefix(a, k)) = k
      /\ \A i \in 1 .. k : Prefix(a, k)[i] = Slice(a, i)
  BY PrefixType, <1>0 DEF Bytes, SliceSet
<1>3. Slice(a, k) \in SliceSet
  BY SliceType
<1>4. /\ s \in Seq(SliceSet)
      /\ Len(s) = k
      /\ \A i \in 1 .. k : s[i] = Slice(a, i)
  BY <1>1, <1>3
<1> QED
  BY <1>2, <1>4, SeqEqual

\* An adapter's bytes are its NChunks slices.
LEMMA WeightsType ==
  ASSUME NEW a \in KnownAdapters
  PROVE  /\ Weights(a) \in Bytes
         /\ Len(Weights(a)) = NChunks
         /\ \A i \in 1 .. NChunks : Weights(a)[i] = Slice(a, i)
BY PrefixType, NChunksAssumption DEF Weights

\* An adapter's own bytes are whole, and never no bytes.
LEMMA WeightsWhole ==
  ASSUME NEW a \in KnownAdapters
  PROVE  Whole(Weights(a)) /\ Weights(a) # <<>>
<1>1. Len(Weights(a)) # 0 /\ Weights(a)[1] = Slice(a, 1)
  BY WeightsType, NChunksAssumption
<1> QED
  BY <1>1 DEF Whole, Slice

\* What the k-th chunk of adapter a holds.
LEMMA ChunkOf ==
  ASSUME NEW a \in KnownAdapters, NEW k \in 1 .. NChunks
  PROVE  LET c == Chunk(a, Weights(a), k)
         IN  /\ c.meta = IF k = 1 THEN a ELSE NoAdapter
             /\ c.weights = Slice(a, k)
             /\ c.last = (k = NChunks)
BY WeightsType DEF Chunk

-----------------------------------------------------------------------------
(* Part 1: any number of handler threads.                                  *)

\* Where a handler is in _sync_adapter says what it holds.
Progress ==
  /\ up => run # 0
  /\ served.meta # NoAdapter => served.weights = Weights(served.meta)
  /\ \A t \in Threads :
       /\ pc[t] # "idle" => policy # 0
       /\ pc[t] = "stream" =>
            /\ stream[t].meta # NoAdapter
            /\ stream[t].weights = Weights(stream[t].meta)
            /\ stream[t].next \in 1 .. NChunks
       /\ pc[t] \in {"fetched", "reporting"} => got[t] # NoAdapter

TypeInv == TypeOK /\ Progress

\* The empty records and buffers have their types.
LEMMA EmptyTypes ==
  /\ <<>> \in Bytes /\ <<>> \in Seq(Versions)
  /\ NoAdapter \in MaybeAdapter
  /\ NotServing \in [meta : MaybeAdapter, weights : Bytes]
  /\ EmptyAssembler \in [meta : MaybeAdapter, buf : Bytes]
  /\ NoStream \in [meta : MaybeAdapter, weights : Bytes, next : 1 .. NChunks + 1]
<1>1. <<>> \in Bytes /\ <<>> \in Seq(Versions)
  BY EmptySeq DEF Bytes
<1>2. NoAdapter \in MaybeAdapter
  BY DEF MaybeAdapter
<1>3. 1 \in 1 .. NChunks + 1
  BY NChunksAssumption
<1> QED
  BY <1>1, <1>2, <1>3 DEF NotServing, EmptyAssembler, NoStream

\* Everything is empty and typed at first.
LEMMA TypeInit == Init => TypeInv
<1> SUFFICES ASSUME Init PROVE TypeInv
  OBVIOUS
<1> USE EmptyTypes, BoundsAssumption DEF Init, NoCalls
<1>1. TrainerTypeOK
  <2>1. up \in BOOLEAN
    BY Zenon
  <2>2. run \in 0 .. MaxRuns /\ version \in 0 .. MaxVersion /\ newest \in 0 .. MaxVersion
    OBVIOUS
  <2> QED
    BY <2>1, <2>2 DEF TrainerTypeOK
<1>2. ClientTypeOK
  BY DEF ClientTypeOK
<1>3. ServerTypeOK
  BY DEF ServerTypeOK
<1>4. HandlerTypeOK
  BY DEF HandlerTypeOK
<1>5. Progress
  BY DEF Progress, NotServing
<1> QED
  BY <1>1, <1>2, <1>3, <1>4, <1>5 DEF TypeInv, TypeOK

\* What one received chunk does to the assembler, whatever it held before.
LEMMA AddType ==
  ASSUME NEW a \in KnownAdapters, NEW k \in 1 .. NChunks,
         NEW m \in MaybeAdapter, NEW b \in Bytes
  PROVE  LET c == Chunk(a, Weights(a), k)
             x == [meta |-> m, buf |-> b]
         IN  /\ Extend(x, c) \in [meta : MaybeAdapter, buf : Bytes]
             /\ Add(x, c) \in [meta : MaybeAdapter, buf : Bytes]
             /\ Completes(x, c) \in MaybeAdapter
<1> DEFINE c == Chunk(a, Weights(a), k)
           x == [meta |-> m, buf |-> b]
<1>1. /\ c.meta \in MaybeAdapter
      /\ c.weights \in SliceSet
      /\ c.last \in BOOLEAN
  BY ChunkOf, SliceType DEF MaybeAdapter
<1> HIDE DEF c
<1>2. Begin(x, c) \in [meta : MaybeAdapter, buf : Bytes]
  BY <1>1, EmptySeq DEF Begin, Bytes
<1>3. Append(Begin(x, c).buf, c.weights) \in Bytes
  BY <1>1, <1>2 DEF Bytes, SliceSet
<1>4. Extend(x, c) \in [meta : MaybeAdapter, buf : Bytes]
  BY <1>2, <1>3 DEF Extend
<1>5. EmptyAssembler \in [meta : MaybeAdapter, buf : Bytes]
  BY EmptySeq DEF EmptyAssembler, MaybeAdapter, Bytes
<1>6. /\ Add(x, c) \in [meta : MaybeAdapter, buf : Bytes]
      /\ Completes(x, c) \in MaybeAdapter
  BY <1>1, <1>4, <1>5 DEF Add, Completes, MaybeAdapter
<1> QED
  BY <1>4, <1>6 DEF c

\* A beginning of a file is bytes.
LEMMA CutType ==
  ASSUME NEW b \in Bytes, NEW k \in 0 .. Len(b) - 1
  PROVE  SubSeq(b, 1, k) \in Bytes
<1>1. b \in Seq(SliceSet)
  BY DEF Bytes, SliceSet
<1>2. Len(b) \in Nat /\ \A i \in 1 .. Len(b) : b[i] \in SliceSet
  BY <1>1
<1>3. 1 \in Int /\ k \in Int /\ \A i \in 1 .. k : b[i] \in SliceSet
  BY <1>2
<1>4. SubSeq(b, 1, k) \in Seq(SliceSet)
  BY <1>3, SubSeqProperties
<1> QED
  BY <1>4 DEF Bytes, SliceSet

\* cleanup keeps what it keeps.
LEMMA KeptType ==
  ASSUME NEW d \in Seq(Versions)
  PROVE  Kept(d) \in Seq(Versions)
<1>1. CASE Len(d) > KeepLast
  <2> DEFINE m == Len(d) - KeepLast + 1
  <2>1. m \in 1 .. Len(d)
    BY <1>1, KeepLastAssumption
  <2>2. \A i \in m .. Len(d) : d[i] \in Versions
    BY <2>1
  <2>3. SubSeq(d, m, Len(d)) \in Seq(Versions)
    BY <2>1, <2>2, SubSeqProperties
  <2> QED
    BY <1>1, <2>3 DEF Kept
<1>2. CASE ~(Len(d) > KeepLast)
  BY <1>2 DEF Kept
<1> QED
  BY <1>1, <1>2

\* Types, and what each handler holds where, through every step.
LEMMA TypeStep == TypeInv /\ [Next]_vars => TypeInv'
<1> SUFFICES ASSUME TypeInv, [Next]_vars
             PROVE  TypeInv'
  OBVIOUS
<1> USE BoundsAssumption, NChunksAssumption, NoThreadAssumption
<1> USE DEF TypeInv, TypeOK, TrainerTypeOK, ClientTypeOK, ServerTypeOK, HandlerTypeOK
<1>1. CASE TrainerStart
  <2>1. TrainerTypeOK'
    BY <1>1, EmptyTypes DEF TrainerStart
  <2>2. Progress'
    BY <1>1 DEF TrainerStart, Progress, NotServing, serverVars, threadVars
  <2> QED
    BY <1>1, <2>1, <2>2 DEF TrainerStart, clientVars, serverVars, threadVars
<1>2. CASE Publish
  <2> DEFINE a == [run |-> run, version |-> version + 1]
  <2>1. a \in KnownAdapters /\ Weights(a) \in Bytes
    <3>1. a \in KnownAdapters
      BY <1>2 DEF Publish, KnownAdapters, Versions, Progress
    <3> QED
      BY <3>1, WeightsType
  <2>2. /\ served' = [meta |-> a, weights |-> Weights(a)] /\ version' \in 0 .. MaxVersion
        /\ newest' \in 0 .. MaxVersion
    BY <1>2 DEF Publish
  <2> QED
    BY <1>2, <2>1, <2>2 DEF Publish, Progress, MaybeAdapter, clientVars, serverVars, threadVars
<1>3. CASE TrainerCrash
  <2>1. TrainerTypeOK' /\ faults' \in 0 .. MaxFaults
    <3>1. up' \in BOOLEAN
      BY <1>3, Zenon DEF TrainerCrash
    <3> QED
      BY <1>3, <3>1, EmptyTypes DEF TrainerCrash, Fault
  <2>2. Progress'
    BY <1>3 DEF TrainerCrash, Progress, NotServing, serverVars, threadVars
  <2> QED
    BY <1>3, <2>1, <2>2 DEF TrainerCrash, clientVars, serverVars, threadVars
<1>4. ASSUME NEW t \in Threads, Handshake(t)
      PROVE  TypeInv'
  BY <1>4 DEF Handshake, Progress, trainerVars, clientVars
<1>5. ASSUME NEW t \in Threads, PredictChunk(t)
      PROVE  TypeInv'
  BY <1>5 DEF PredictChunk, Progress, trainerVars, clientVars, serverVars
<1>6. ASSUME NEW t \in Threads, BeginForward(t)
      PROVE  TypeInv'
  <2>1. policy \in Policies
    BY <1>6 DEF BeginForward, Progress, Policies
  <2> QED
    BY <1>6, <2>1 DEF BeginForward, Progress, trainerVars, clientVars, serverVars
<1>7. ASSUME NEW t \in Threads, EndForward(t)
      PROVE  TypeInv'
  BY <1>7, EmptyTypes DEF EndForward, Progress, trainerVars, clientVars, serverVars
<1>8. ASSUME NEW t \in Threads, Fetch(t)
      PROVE  TypeInv'
  <2>1. NewerThan(loaded) => served.meta # NoAdapter
    BY DEF NewerThan
  <2>2. CASE NewerThan(loaded)
    <3>1. /\ served.meta # NoAdapter
          /\ served.weights = Weights(served.meta)
          /\ 1 \in 1 .. NChunks /\ 1 \in 1 .. NChunks + 1
      BY <2>1, <2>2 DEF Progress
    <3>2. /\ pc[t] = "sync"
          /\ pc' = [pc EXCEPT ![t] = "stream"]
          /\ stream' = [stream EXCEPT ![t] =
               [meta |-> served.meta, weights |-> served.weights, next |-> 1]]
          /\ UNCHANGED <<up, run, served, policy, got>>
      BY <1>8, <2>2 DEF Fetch, trainerVars, serverVars
    <3>3. HandlerTypeOK'
      BY <1>8, <3>1, <3>2 DEF Fetch
    <3>4. Progress'
      BY <3>1, <3>2 DEF Progress
    <3> QED
      BY <1>8, <3>3, <3>4 DEF Fetch, trainerVars, clientVars, serverVars
  <2>3. CASE ~NewerThan(loaded)
    BY <1>8, <2>3 DEF Fetch, After, Progress, trainerVars, clientVars, serverVars
  <2> QED
    BY <2>2, <2>3
<1>9. ASSUME NEW t \in Threads, Receive(t)
      PROVE  TypeInv'
  <2> DEFINE s == stream[t]
             c == StreamChunk(t)
  <2>1. /\ s.meta \in KnownAdapters
        /\ s.weights = Weights(s.meta)
        /\ s.next \in 1 .. NChunks
        /\ asm \in [meta : MaybeAdapter, buf : Bytes]
    BY <1>9 DEF Receive, Progress, MaybeAdapter
  <2>2. asm = [meta |-> asm.meta, buf |-> asm.buf] /\ asm.meta \in MaybeAdapter /\ asm.buf \in Bytes
    BY <2>1
  <2>3. /\ Extend(asm, c) \in [meta : MaybeAdapter, buf : Bytes]
        /\ Add(asm, c) \in [meta : MaybeAdapter, buf : Bytes]
        /\ Completes(asm, c) \in MaybeAdapter
    BY <2>1, <2>2, AddType DEF StreamChunk
  <2>4. c.last = (s.next = NChunks)
    BY <2>1, ChunkOf DEF StreamChunk
  <2> DEFINE done == Completes(asm, c)
  <2>5. ClientTypeOK'
    <3>1. CASE done = NoAdapter
      BY <1>9, <2>3, <3>1 DEF Receive
    <3>2. CASE done # NoAdapter
      <4>1. done.version \in Versions
        BY <2>3, <3>2 DEF MaybeAdapter, KnownAdapters
      <4>2. disk' \in [Versions -> Bytes]
        BY <1>9, <2>3, <3>2, <4>1 DEF Receive, Materialize
      <4>3. dirs' \in Seq(Versions)
        <5>1. dirs' = Append(dirs, done.version)
          BY <1>9, <3>2 DEF Receive
        <5>2. dirs \in Seq(Versions)
          OBVIOUS
        <5> HIDE DEF done
        <5> QED
          BY <4>1, <5>1, <5>2
      <4>4. asm' \in [meta : MaybeAdapter, buf : Bytes]
        BY <1>9, <2>3 DEF Receive
      <4>5. loaded' \in 0 .. MaxVersion
        BY <1>9 DEF Receive
      <4> QED
        BY <4>2, <4>3, <4>4, <4>5
    <3> QED
      BY <3>1, <3>2
  <2>6. /\ pc' = [pc EXCEPT ![t] = IF s.next = NChunks THEN "drained" ELSE "stream"]
        /\ stream' = [stream EXCEPT ![t].next = @ + 1]
        /\ got' = [got EXCEPT ![t] = done]
        /\ UNCHANGED call
    BY <1>9, <2>4 DEF Receive
  <2> HIDE DEF done
  <2>7. HandlerTypeOK'
    <3>1. done \in MaybeAdapter /\ s.next + 1 \in 1 .. NChunks + 1
      BY <2>1, <2>3 DEF done
    <3>2. [s EXCEPT !.next = @ + 1] \in
            [meta : MaybeAdapter, weights : Bytes, next : 1 .. NChunks + 1]
      <4>1. s \in [meta : MaybeAdapter, weights : Bytes, next : 1 .. NChunks + 1]
        OBVIOUS
      <4> HIDE DEF s
      <4> QED
        BY <3>1, <4>1
    <3>3. stream' = [stream EXCEPT ![t] = [s EXCEPT !.next = @ + 1]]
      BY <2>6
    <3>4. stream' \in [Threads -> [meta : MaybeAdapter, weights : Bytes, next : 1 .. NChunks + 1]]
      BY <3>2, <3>3
    <3> QED
      BY <2>6, <3>1, <3>4
  <2>8. Progress'
    <3>1. /\ pc[t] = "stream"
          /\ UNCHANGED <<up, run, served, policy>>
      BY <1>9 DEF Receive, trainerVars, serverVars
    <3>2. pc'[t] = "stream" => stream'[t].next \in 1 .. NChunks
      <4>1. pc'[t] = IF s.next = NChunks THEN "drained" ELSE "stream"
        BY <2>6
      <4>2. stream'[t].next = s.next + 1
        BY <2>6
      <4>3. s.next # NChunks => s.next + 1 \in 1 .. NChunks
        <5> HIDE DEF TypeInv, s, c
        <5> QED
          BY ONLY <2>1, NChunksAssumption
      <4> HIDE DEF TypeInv, s, c
      <4> QED
        BY ONLY <4>1, <4>2, <4>3
    <3>3. /\ pc'[t] \in {"stream", "drained"}
          /\ stream'[t].meta = s.meta /\ stream'[t].weights = s.weights
      BY <2>6
    <3>4. \A u \in Threads \ {t} :
            pc'[u] = pc[u] /\ stream'[u] = stream[u] /\ got'[u] = got[u]
      BY <2>6
    <3>5. s.meta # NoAdapter
      BY <2>1, NoAdapterUnknown
    <3> QED
      BY <2>1, <3>1, <3>2, <3>3, <3>4, <3>5 DEF Progress
  <2> QED
    BY <1>9, <2>5, <2>7, <2>8 DEF Receive, trainerVars, serverVars
<1>17. ASSUME NEW t \in Threads, ReceiveError(t)
       PROVE  TypeInv'
  <2> DEFINE s == stream[t]
             x == Extend(asm, StreamChunk(t))
  <2>1. /\ s.meta \in KnownAdapters
        /\ s.weights = Weights(s.meta)
        /\ s.next \in 1 .. NChunks
        /\ asm \in [meta : MaybeAdapter, buf : Bytes]
    BY <1>17 DEF ReceiveError, Progress, MaybeAdapter
  <2>2. asm = [meta |-> asm.meta, buf |-> asm.buf] /\ asm.meta \in MaybeAdapter /\ asm.buf \in Bytes
    BY <2>1
  <2>3. x \in [meta : MaybeAdapter, buf : Bytes]
    BY <2>1, <2>2, AddType DEF StreamChunk
  <2>4. Completes(asm, StreamChunk(t)) # NoAdapter => x.meta # NoAdapter
    BY DEF Completes
  <2>5. /\ asm' = x /\ x.meta # NoAdapter
        /\ disk' \in {disk} \cup {Materialize(disk, x.meta.version, SubSeq(x.buf, 1, k)) :
                                  k \in 0 .. Len(x.buf) - 1}
    BY <1>17, <2>4 DEF ReceiveError
  <2> HIDE DEF x
  <2>6. x.meta.version \in Versions
    BY <2>3, <2>5 DEF MaybeAdapter, KnownAdapters
  <2>7. ASSUME NEW k \in 0 .. Len(x.buf) - 1
        PROVE  Materialize(disk, x.meta.version, SubSeq(x.buf, 1, k)) \in [Versions -> Bytes]
    <3>1. SubSeq(x.buf, 1, k) \in Bytes
      BY <2>3, CutType
    <3> QED
      BY <2>6, <3>1 DEF Materialize
  <2>8. disk' \in [Versions -> Bytes]
    BY <2>5, <2>7
  <2>9. ClientTypeOK'
    BY <1>17, <2>3, <2>5, <2>8 DEF ReceiveError
  <2>10. HandlerTypeOK' /\ faults' \in 0 .. MaxFaults
    BY <1>17, EmptyTypes DEF ReceiveError, Fault
  <2>11. Progress'
    BY <1>17 DEF ReceiveError, Progress, trainerVars, serverVars
  <2> QED
    BY <1>17, <2>9, <2>10, <2>11 DEF ReceiveError, trainerVars, serverVars
<1>10. ASSUME NEW t \in Threads, FinishFetch(t)
       PROVE  TypeInv'
  <2>1. Cleanup(disk, dirs) \in [Versions -> Bytes] /\ Kept(dirs) \in Seq(Versions)
    BY EmptyTypes, KeptType DEF Cleanup
  <2>2. ClientTypeOK'
    BY <1>10, <2>1 DEF FinishFetch
  <2>3. HandlerTypeOK'
    BY <1>10, EmptyTypes DEF FinishFetch, After
  <2>4. Progress'
    BY <1>10 DEF FinishFetch, After, Progress, trainerVars, serverVars
  <2> QED
    BY <1>10, <2>2, <2>3, <2>4 DEF FinishFetch, trainerVars, serverVars
<1>11. ASSUME NEW t \in Threads, StreamFail(t)
       PROVE  TypeInv'
  <2>1. faults' \in 0 .. MaxFaults
    BY <1>11 DEF StreamFail, Fault
  <2>2. HandlerTypeOK'
    BY <1>11, EmptyTypes DEF StreamFail, After
  <2>3. Progress'
    BY <1>11 DEF StreamFail, After, Progress, trainerVars, serverVars
  <2> QED
    BY <1>11, <2>1, <2>2, <2>3 DEF StreamFail, trainerVars, clientVars, serverVars
<1>12. ASSUME NEW t \in Threads, ApplyOk(t)
       PROVE  TypeInv'
  <2>1. got[t] \in KnownAdapters /\ got[t].version \in Versions
    BY <1>12 DEF ApplyOk, Progress, MaybeAdapter, KnownAdapters
  <2>2. Target \in Policies
    BY <1>12 DEF ApplyOk, Progress, Target, Policies
  <2>3. ServerTypeOK'
    BY <1>12, <2>1, <2>2 DEF ApplyOk, MaybeAdapter, Policies
  <2>4. ClientTypeOK'
    BY <1>12, <2>1 DEF ApplyOk, Versions
  <2>5. HandlerTypeOK'
    BY <1>12 DEF ApplyOk
  <2>6. Progress'
    BY <1>12 DEF ApplyOk, Progress, trainerVars
  <2> QED
    BY <1>12, <2>3, <2>4, <2>5, <2>6 DEF ApplyOk, trainerVars
<1>13. ASSUME NEW t \in Threads, ApplyError(t)
       PROVE  TypeInv'
  <2>1. faults' \in 0 .. MaxFaults
    BY <1>13 DEF ApplyError, Fault
  <2>2. HandlerTypeOK'
    BY <1>13, EmptyTypes DEF ApplyError, After
  <2>3. Progress'
    BY <1>13 DEF ApplyError, After, Progress, trainerVars, serverVars
  <2> QED
    BY <1>13, <2>1, <2>2, <2>3 DEF ApplyError, trainerVars, clientVars, serverVars
<1>14. ASSUME NEW t \in Threads, WriteStatus(t)
       PROVE  TypeInv'
  <2>1. got[t].version \in 0 .. MaxVersion
    BY <1>14 DEF WriteStatus, Progress, MaybeAdapter, KnownAdapters, Versions
  <2>2. ServerTypeOK' /\ faults' \in 0 .. MaxFaults
    BY <1>14, <2>1 DEF WriteStatus, Fault
  <2>3. HandlerTypeOK'
    BY <1>14, EmptyTypes DEF WriteStatus, After
  <2>4. Progress'
    BY <1>14 DEF WriteStatus, After, Progress, trainerVars
  <2> QED
    BY <1>14, <2>2, <2>3, <2>4 DEF WriteStatus, trainerVars, clientVars
<1>15. CASE Reboot
  <2> USE <1>15 DEF Reboot, NoCalls
  <2>1. ClientTypeOK' /\ ServerTypeOK'
    BY EmptyTypes
  <2>2. HandlerTypeOK'
    BY EmptyTypes
  <2>3. Progress'
    BY DEF Progress, trainerVars
  <2> QED
    BY <2>1, <2>2, <2>3 DEF trainerVars
<1>16. CASE UNCHANGED vars
  BY <1>16 DEF vars, Progress, trainerVars, clientVars, serverVars, threadVars
<1> QED
  BY <1>1, <1>2, <1>3, <1>4, <1>5, <1>6, <1>7, <1>8, <1>9, <1>10, <1>11, <1>12, <1>13,
     <1>14, <1>15, <1>16, <1>17 DEF Next, Trainer, Handler, Sync

\* Type correctness: the trainer, the client, the server and every handler
\* only ever hold versions, slices and adapters that were published.
THEOREM TypeCorrect == Spec => []TypeOK
<1>1. Init => TypeInv
  BY TypeInit
<1>2. TypeInv /\ [Next]_vars => TypeInv'
  BY TypeStep
<1>3. TypeInv => TypeOK
  BY DEF TypeInv
<1> QED
  BY <1>1, <1>2, <1>3, PTL DEF Spec

\* The handler that holds _adapter_lock is the one that is writing the status
\* file, for the adapter that was just marked loaded.
LockInv ==
  /\ \A t \in Threads : pc[t] = "reporting" <=> lock = t
  /\ \A t \in Threads : lock = t => loaded = got[t].version
  /\ StatusAgrees

\* The critical section through every step.
LEMMA LockStep == TypeInv /\ LockInv /\ [Next]_vars => LockInv'
<1> SUFFICES ASSUME TypeInv, LockInv, [Next]_vars
             PROVE  LockInv'
  OBVIOUS
<1> USE NoThreadAssumption DEF LockInv, StatusAgrees
<1>0. faults \in Nat /\ HandlerTypeOK
  BY BoundsAssumption DEF TypeInv, TypeOK
<1> USE DEF HandlerTypeOK
<1>1. CASE Trainer
  BY <1>0, <1>1 DEF Trainer, TrainerStart, Publish, TrainerCrash, Fault,
     clientVars, serverVars, threadVars
<1>2. ASSUME NEW t \in Threads, Handshake(t) \/ PredictChunk(t) \/ BeginForward(t) \/ EndForward(t)
      PROVE  LockInv'
  BY <1>0, <1>2 DEF Handshake, PredictChunk, BeginForward, EndForward,
     clientVars, serverVars
<1>3. ASSUME NEW t \in Threads, Fetch(t)
      PROVE  LockInv'
  BY <1>0, <1>3 DEF Fetch, After, clientVars, serverVars
<1>4. ASSUME NEW t \in Threads, Receive(t)
      PROVE  LockInv'
  <2>1. /\ pc[t] = "stream" /\ pc'[t] # "reporting"
        /\ \A u \in Threads \ {t} : pc'[u] = pc[u] /\ got'[u] = got[u]
        /\ UNCHANGED <<loaded, lock, status, faults>>
    BY <1>0, <1>4 DEF Receive, serverVars
  <2> QED
    BY <2>1
<1>5. ASSUME NEW t \in Threads, FinishFetch(t)
      PROVE  LockInv'
  BY <1>0, <1>5 DEF FinishFetch, After, serverVars
<1>6. ASSUME NEW t \in Threads, ReceiveError(t) \/ StreamFail(t) \/ ApplyError(t)
      PROVE  LockInv'
  <2>1. /\ pc[t] # "reporting" /\ pc'[t] # "reporting"
        /\ \A u \in Threads \ {t} : pc'[u] = pc[u] /\ got'[u] = got[u]
        /\ UNCHANGED <<loaded, lock, status>>
    BY <1>0, <1>6 DEF ReceiveError, StreamFail, ApplyError, After, clientVars, serverVars
  <2>2. faults' = 0 => faults = 0
    BY <1>0, <1>6 DEF ReceiveError, StreamFail, ApplyError, Fault
  <2> QED
    BY <2>1, <2>2
<1>7. ASSUME NEW t \in Threads, ApplyOk(t)
      PROVE  LockInv'
  BY <1>0, <1>7 DEF ApplyOk, LockIsFree
<1>8. ASSUME NEW t \in Threads, WriteStatus(t)
      PROVE  LockInv'
  BY <1>0, <1>8 DEF WriteStatus, Fault, After, clientVars
<1>9. CASE Reboot
  BY <1>9 DEF Reboot, NoCalls
<1>10. CASE UNCHANGED vars
  BY <1>10 DEF vars, clientVars, serverVars, threadVars
<1> QED
  BY <1>1, <1>2, <1>3, <1>4, <1>5, <1>6, <1>7, <1>8, <1>9, <1>10 DEF Next, Handler, Sync

\* However many handler threads pull adapters at once, no error means that
\* the status file shows the loaded version whenever the lock is free.
THEOREM StatusCorrect == Spec => []StatusAgrees
<1>1. Init => LockInv
  BY NoThreadAssumption DEF Init, NoCalls, LockInv, StatusAgrees
<1>2. TypeInv /\ LockInv /\ [Next]_vars => LockInv'
  BY LockStep
<1>3. LockInv => StatusAgrees
  BY DEF LockInv
<1> QED
  BY <1>1, <1>2, <1>3, TypeInit, TypeStep, PTL DEF Spec

-----------------------------------------------------------------------------
(* Part 2: one thread calls fetch().                                       *)

SingleHandler == \A s, t \in Threads : s = t

\* While its own stream runs, the assembler holds the chunks received so far
\* and nothing else; what was materialized is the adapter or has been pruned.
StreamInv(t) ==
  /\ pc[t] = "stream" =>
       /\ stream[t].next > 1 =>
            asm = [meta |-> stream[t].meta, buf |-> Prefix(stream[t].meta, stream[t].next - 1)]
       /\ stream[t].meta.version > loaded
  /\ (pc[t] \in {"drained", "fetched"} /\ got[t] # NoAdapter) =>
       /\ disk[got[t].version] \in {<<>>, Weights(got[t])}
       /\ got[t].version > loaded

\* The model that was injected carries the reported adapter.
InjectedInv ==
  /\ injected <= policy
  /\ adapterVersion # NoAdapter =>
       injected # 0 /\ weights[injected] = Weights(adapterVersion)

WholeInv == AppliedIsWhole /\ InjectedInv /\ \A t \in Threads : StreamInv(t)

\* An empty file is not loadable.
LEMMA LoadableNotEmpty == ~Loadable(<<>>)
BY NChunksAssumption DEF Loadable

\* A chunk of adapter a extends the chunks before it to a longer prefix of a.
LEMMA ExtendOwn ==
  ASSUME NEW a \in KnownAdapters, NEW k \in 1 .. NChunks,
         NEW x \in [meta : MaybeAdapter, buf : Bytes],
         k > 1 => x = [meta |-> a, buf |-> Prefix(a, k - 1)]
  PROVE  Extend(x, Chunk(a, Weights(a), k)) = [meta |-> a, buf |-> Prefix(a, k)]
<1> DEFINE c == Chunk(a, Weights(a), k)
<1>1. c.meta = (IF k = 1 THEN a ELSE NoAdapter) /\ c.weights = Slice(a, k)
  BY ChunkOf
<1>2. Append(Prefix(a, k - 1), Slice(a, k)) = Prefix(a, k)
  BY PrefixGrows
<1>3. Begin(x, c) = [meta |-> a, buf |-> Prefix(a, k - 1)]
  <2>1. CASE k = 1
    <3>1. 0 \in 0 .. NChunks
      BY NChunksAssumption
    <3>2. Prefix(a, 0) \in Seq(SliceSet) /\ Len(Prefix(a, 0)) = 0
      BY <3>1, PrefixType DEF Bytes, SliceSet
    <3>3. Prefix(a, 0) = <<>>
      BY <3>2, EmptySeq
    <3> QED
      BY <1>1, <2>1, <3>3, NoAdapterUnknown DEF Begin
  <2>2. CASE k # 1
    BY <1>1, <2>2, NChunksAssumption DEF Begin
  <2> QED
    BY <2>1, <2>2
<1> QED
  BY <1>1, <1>2, <1>3 DEF Extend

\* No policy object runs on an adapter at first.
LEMMA WholeInit == Init => WholeInv
BY DEF Init, NoCalls, WholeInv, AppliedIsWhole, InjectedInv, StreamInv

\* Steps that touch neither the client nor the applied weights.
LEMMA WholeQuiet ==
  ASSUME TypeInv, WholeInv, UNCHANGED clientVars,
         UNCHANGED <<injected, weights, adapterVersion>>,
         policy' \in Nat, policy' >= policy,
         \A t \in Threads : \/ pc'[t] \notin {"stream", "drained", "fetched"}
                            \/ /\ pc'[t] = pc[t] /\ stream'[t] = stream[t]
                               /\ got'[t] = got[t]
  PROVE  WholeInv'
<1>2. AppliedIsWhole'
  BY DEF WholeInv, AppliedIsWhole
<1>3. \A t \in Threads : StreamInv(t)'
  BY DEF WholeInv, StreamInv, clientVars
<1> QED
  BY <1>2, <1>3 DEF WholeInv, InjectedInv, TypeInv, TypeOK, ServerTypeOK

\* Whole adapters through every step of the one handler.
LEMMA WholeStep ==
  ASSUME SingleHandler, TypeInv, TypeInv', WholeInv, [Next]_vars
  PROVE  WholeInv'
<1> USE NChunksAssumption, BoundsAssumption
<1>1. CASE Trainer
  <2>1. UNCHANGED <<clientVars, serverVars, threadVars>>
    BY <1>1 DEF Trainer, TrainerStart, Publish, TrainerCrash
  <2>2. policy' \in Nat /\ policy' >= policy
    BY <2>1 DEF serverVars, TypeInv, TypeOK, ServerTypeOK
  <2> QED
    BY <2>1, <2>2, WholeQuiet DEF serverVars, threadVars
<1>2. ASSUME NEW t \in Threads,
             Handshake(t) \/ PredictChunk(t) \/ BeginForward(t) \/ EndForward(t)
      PROVE  WholeInv'
  <2>1. policy' \in Nat /\ policy' >= policy /\ UNCHANGED clientVars
    BY <1>2 DEF Handshake, PredictChunk, BeginForward, EndForward, serverVars,
       TypeInv, TypeOK, ServerTypeOK
  <2>2. UNCHANGED <<injected, weights, adapterVersion, stream, got>>
    BY <1>2 DEF Handshake, PredictChunk, BeginForward, EndForward, serverVars
  <2>3. /\ pc'[t] \notin {"stream", "drained", "fetched"}
        /\ \A u \in Threads \ {t} : pc'[u] = pc[u]
    BY <1>2 DEF Handshake, PredictChunk, BeginForward, EndForward, TypeInv, TypeOK, HandlerTypeOK
  <2> QED
    BY <2>1, <2>2, <2>3, WholeQuiet
<1>3. ASSUME NEW t \in Threads, StreamFail(t) \/ ApplyError(t) \/ WriteStatus(t)
      PROVE  WholeInv'
  <2>1. /\ UNCHANGED clientVars
        /\ UNCHANGED <<policy, injected, weights, adapterVersion>>
    BY <1>3 DEF StreamFail, ApplyError, WriteStatus, serverVars
  <2>2. /\ pc'[t] \notin {"stream", "drained", "fetched"}
        /\ \A u \in Threads \ {t} :
             pc'[u] = pc[u] /\ stream'[u] = stream[u] /\ got'[u] = got[u]
    BY <1>3 DEF StreamFail, ApplyError, WriteStatus, After, TypeInv, TypeOK, HandlerTypeOK
  <2>3. policy' \in Nat /\ policy' >= policy
    BY <2>1 DEF TypeInv, TypeOK, ServerTypeOK
  <2> QED
    BY <2>1, <2>2, <2>3, WholeQuiet
<1>4. ASSUME NEW t \in Threads, Fetch(t)
      PROVE  WholeInv'
  <2>1. /\ UNCHANGED clientVars
        /\ UNCHANGED <<policy, injected, weights, adapterVersion>>
    BY <1>4 DEF Fetch, serverVars
  <2>2. CASE ~NewerThan(loaded)
    <3>1. /\ pc'[t] \notin {"stream", "drained", "fetched"}
          /\ \A u \in Threads \ {t} :
               pc'[u] = pc[u] /\ stream'[u] = stream[u] /\ got'[u] = got[u]
      BY <1>4, <2>2 DEF Fetch, After, TypeInv, TypeOK, HandlerTypeOK
    <3>2. policy' \in Nat /\ policy' >= policy
      BY <2>1 DEF TypeInv, TypeOK, ServerTypeOK
    <3> QED
      BY <2>1, <3>1, <3>2, WholeQuiet
  <2>3. CASE NewerThan(loaded)
    <3>1. served.meta.version > loaded
      BY <2>3 DEF NewerThan
    <3>2. /\ pc'[t] = "stream"
          /\ stream'[t] = [meta |-> served.meta, weights |-> served.weights, next |-> 1]
      BY <1>4, <2>3 DEF Fetch, TypeInv, TypeOK, HandlerTypeOK
    <3>3. StreamInv(t)'
      BY <2>1, <3>1, <3>2 DEF StreamInv, clientVars
    <3>4. AppliedIsWhole' /\ InjectedInv'
      BY <2>1 DEF WholeInv, AppliedIsWhole, InjectedInv
    <3> QED
      BY <3>3, <3>4 DEF WholeInv, SingleHandler
  <2> QED
    BY <2>2, <2>3
<1>5. ASSUME NEW t \in Threads, Receive(t)
      PROVE  WholeInv'
  <2> DEFINE s == stream[t]
             c == StreamChunk(t)
             done == Completes(asm, c)
  <2>1. /\ s.meta \in KnownAdapters
        /\ s.weights = Weights(s.meta)
        /\ s.next \in 1 .. NChunks
        /\ asm \in [meta : MaybeAdapter, buf : Bytes]
    BY <1>5 DEF Receive, Progress, MaybeAdapter, TypeInv, TypeOK, HandlerTypeOK, ClientTypeOK
  <2>2. /\ s.next > 1 => asm = [meta |-> s.meta, buf |-> Prefix(s.meta, s.next - 1)]
        /\ s.meta.version > loaded
    BY <1>5 DEF Receive, WholeInv, StreamInv
  <2>3. Extend(asm, c) = [meta |-> s.meta, buf |-> Prefix(s.meta, s.next)]
    BY <2>1, <2>2, ExtendOwn DEF StreamChunk
  <2>4. c.last = (s.next = NChunks)
    BY <2>1, ChunkOf DEF StreamChunk
  <2>5. stream'[t] = [s EXCEPT !.next = @ + 1]
    BY <1>5 DEF Receive, TypeInv, TypeOK, HandlerTypeOK
  <2>6. AppliedIsWhole' /\ InjectedInv' /\ UNCHANGED loaded
    BY <1>5 DEF Receive, WholeInv, AppliedIsWhole, InjectedInv, serverVars
  <2>7. CASE s.next = NChunks
    <3>1. done = s.meta
      <4>1. c.last
        BY <2>4, <2>7
      <4>2. done = Extend(asm, c).meta
        BY <4>1 DEF Completes
      <4> QED
        BY <2>3, <4>2
    <3>2. pc'[t] = "drained" /\ got'[t] = s.meta
      BY <1>5, <2>4, <2>7, <3>1 DEF Receive, TypeInv, TypeOK, HandlerTypeOK
    <3>3. disk' = Materialize(disk, s.meta.version, Weights(s.meta))
      BY <1>5, <2>1, <2>3, <2>7, <3>1, NoAdapterUnknown DEF Receive, Weights
    <3>4. s.meta.version \in Versions
      BY <2>1 DEF KnownAdapters
    <3>5. disk'[s.meta.version] = Weights(s.meta)
      BY <3>3, <3>4 DEF Materialize, TypeInv, TypeOK, ClientTypeOK
    <3>6. StreamInv(t)'
      BY <2>2, <2>6, <3>2, <3>5 DEF StreamInv
    <3> QED
      BY <2>6, <3>6 DEF WholeInv, SingleHandler
  <2>8. CASE s.next # NChunks
    <3>1. pc'[t] = "stream"
      BY <1>5, <2>4, <2>8 DEF Receive, TypeInv, TypeOK, HandlerTypeOK
    <3>2. asm' = [meta |-> s.meta, buf |-> Prefix(s.meta, s.next)]
      BY <1>5, <2>3, <2>4, <2>8 DEF Receive, Add
    <3>3. /\ stream'[t].meta = s.meta
          /\ stream'[t].next - 1 = s.next
      BY <2>1, <2>5, <1>5 DEF Receive, TypeInv, TypeOK, HandlerTypeOK
    <3>4. StreamInv(t)'
      BY <2>2, <2>6, <3>1, <3>2, <3>3 DEF StreamInv
    <3> QED
      BY <2>6, <3>4 DEF WholeInv, SingleHandler
  <2> QED
    BY <2>7, <2>8
<1>6. ASSUME NEW t \in Threads, FinishFetch(t)
      PROVE  WholeInv'
  <2>1. UNCHANGED <<loaded, policy, injected, weights, adapterVersion, got>>
    BY <1>6 DEF FinishFetch, serverVars
  <2>2. AppliedIsWhole' /\ InjectedInv'
    BY <2>1 DEF WholeInv, AppliedIsWhole, InjectedInv
  <2>3. pc[t] = "drained" /\ pc'[t] # "stream"
    BY <1>6 DEF FinishFetch, After, TypeInv, TypeOK, HandlerTypeOK
  <2>4. ASSUME got[t] # NoAdapter
        PROVE  /\ disk'[got[t].version] \in {<<>>, Weights(got[t])}
               /\ got[t].version > loaded
    <3>1. got[t].version \in Versions
      BY <2>4 DEF MaybeAdapter, KnownAdapters, TypeInv, TypeOK, HandlerTypeOK
    <3>2. /\ disk[got[t].version] \in {<<>>, Weights(got[t])}
          /\ got[t].version > loaded
      BY <2>3, <2>4 DEF WholeInv, StreamInv
    <3>3. disk' = Cleanup(disk, dirs)
      BY <1>6, <2>4 DEF FinishFetch
    <3>4. disk'[got[t].version] \in {<<>>, disk[got[t].version]}
      BY <3>1, <3>3 DEF Cleanup, TypeInv, TypeOK, ClientTypeOK
    <3> QED
      BY <3>2, <3>4
  <2>5. StreamInv(t)'
    BY <2>1, <2>3, <2>4 DEF StreamInv
  <2> QED
    BY <2>2, <2>5 DEF WholeInv, SingleHandler
<1>7. ASSUME NEW t \in Threads, ApplyOk(t)
      PROVE  WholeInv'
  <2>1. got[t] \in KnownAdapters
    BY <1>7 DEF ApplyOk, Progress, MaybeAdapter, TypeInv, TypeOK, HandlerTypeOK
  <2>2. disk[got[t].version] = Weights(got[t])
    BY <1>7, <2>1, LoadableNotEmpty, NoAdapterUnknown DEF ApplyOk, WholeInv, StreamInv
  <2>3. /\ weights' = [weights EXCEPT ![Target] = Weights(got[t])]
        /\ injected' = Target /\ adapterVersion' = got[t] /\ pc'[t] = "reporting"
        /\ UNCHANGED policy
    BY <1>7, <2>2 DEF ApplyOk, TypeInv, TypeOK, HandlerTypeOK
  <2>4. Target \in Policies /\ Target <= policy
    BY <1>7 DEF ApplyOk, Progress, Target, Policies, WholeInv, InjectedInv,
       TypeInv, TypeOK, ServerTypeOK
  <2>5. weights'[Target] = Weights(got[t]) /\ \A p \in Policies \ {Target} : weights'[p] = weights[p]
    BY <2>3, <2>4 DEF TypeInv, TypeOK, ServerTypeOK
  <2>6. AppliedIsWhole'
    BY <2>1, <2>5, WeightsWhole DEF WholeInv, AppliedIsWhole
  <2>7. InjectedInv'
    BY <2>3, <2>4, <2>5 DEF InjectedInv, Policies
  <2>8. StreamInv(t)'
    BY <2>3 DEF StreamInv
  <2> QED
    BY <2>6, <2>7, <2>8 DEF WholeInv, SingleHandler
<1>10. ASSUME NEW t \in Threads, ReceiveError(t)
      PROVE  WholeInv'
  <2>1. pc'[t] = "idle" /\ UNCHANGED <<policy, injected, weights, adapterVersion>>
    BY <1>10 DEF ReceiveError, serverVars, TypeInv, TypeOK, HandlerTypeOK
  <2>2. AppliedIsWhole' /\ InjectedInv'
    BY <2>1 DEF WholeInv, AppliedIsWhole, InjectedInv
  <2>3. StreamInv(t)'
    BY <2>1 DEF StreamInv
  <2> QED
    BY <2>2, <2>3 DEF WholeInv, SingleHandler
<1>8. CASE Reboot
  BY <1>8 DEF Reboot, NoCalls, WholeInv, AppliedIsWhole, InjectedInv, StreamInv
<1>9. CASE UNCHANGED vars
  <2>1. policy' \in Nat /\ policy' >= policy
    BY <1>9 DEF vars, serverVars, TypeInv, TypeOK, ServerTypeOK
  <2> QED
    BY <1>9, <2>1, WholeQuiet DEF vars, serverVars, threadVars
<1> QED
  BY <1>1, <1>2, <1>3, <1>4, <1>5, <1>6, <1>7, <1>8, <1>9, <1>10 DEF Next, Handler, Sync

\* With one handler thread, whatever streams are cut short, whatever fails to
\* load and however often the trainer or the server restarts, no policy object
\* ever runs on anything but the base weights or one whole published adapter.
THEOREM WholeCorrect ==
  ASSUME SingleHandler
  PROVE  Spec => []AppliedIsWhole
<1>1. TypeInv /\ WholeInv /\ TypeInv' /\ [Next]_vars => WholeInv'
  BY WholeStep
<1>2. WholeInv => AppliedIsWhole
  BY DEF WholeInv
<1> QED
  BY <1>1, <1>2, WholeInit, TypeInit, TypeStep, PTL DEF Spec

\* With one handler thread, every swap is to a newer version, and is recorded.
THEOREM NewerCorrect ==
  ASSUME SingleHandler
  PROVE  Spec => SwapOnlyNewer
<1>1. TypeInv /\ WholeInv /\ TypeInv' /\ [Next]_vars => WholeInv'
  BY WholeStep
<1>2. TypeInv /\ WholeInv /\ [Next]_vars =>
        [(weights' # weights /\ ~Reboot) => loaded' > loaded]_vars
  <2> SUFFICES ASSUME TypeInv, WholeInv, Next, weights' # weights, ~Reboot
               PROVE  loaded' > loaded
    OBVIOUS
  <2>1. PICK t \in Threads : ApplyOk(t)
    <3>1. ~Trainer
      BY DEF Trainer, TrainerStart, Publish, TrainerCrash, serverVars
    <3>2. PICK t \in Threads : Handler(t)
      BY <3>1 DEF Next
    <3>3. ~(Handshake(t) \/ PredictChunk(t) \/ BeginForward(t) \/ EndForward(t))
      BY DEF Handshake, PredictChunk, BeginForward, EndForward, serverVars
    <3>4. ~(\/ Fetch(t) \/ Receive(t) \/ ReceiveError(t) \/ FinishFetch(t) \/ StreamFail(t)
            \/ ApplyError(t) \/ WriteStatus(t))
      BY DEF Fetch, Receive, ReceiveError, FinishFetch, StreamFail, ApplyError, WriteStatus, serverVars
    <3> QED
      BY <3>2, <3>3, <3>4 DEF Handler, Sync
  <2>2. got[t] # NoAdapter
    BY <2>1 DEF ApplyOk, TypeInv, Progress
  <2> QED
    BY <2>1, <2>2 DEF ApplyOk, WholeInv, StreamInv
<1> QED
  BY <1>1, <1>2, WholeInit, TypeInit, TypeStep, PTL DEF Spec, SwapOnlyNewer

\* With one handler thread and one handshake, the policy always runs on the
\* adapter the server reports.
THEOREM ServesCorrect ==
  ASSUME SingleHandler, MaxPolicies = 1
  PROVE  Spec => []ServesWhatItReports
<1>1. TypeInv /\ WholeInv /\ TypeInv' /\ [Next]_vars => WholeInv'
  BY WholeStep
<1>2. TypeInv /\ WholeInv => ServesWhatItReports
  BY DEF TypeInv, TypeOK, ServerTypeOK, WholeInv, InjectedInv, ServesWhatItReports
<1> QED
  BY <1>1, <1>2, WholeInit, TypeInit, TypeStep, PTL DEF Spec

=============================================================================
