------------------------ MODULE AdapterHandOffProofs ------------------------
(***************************************************************************)
(* More theorems about AdapterSync, for one handler thread: the whole       *)
(* implements AdapterHandOff, and what fetch() returns is on disk as long  *)
(* as fewer than KeepLast errors were met.                                 *)
(*                                                                         *)
(* The proofs rest on the invariants of AdapterSyncProofs; the first       *)
(* lemmas say what each step does to the handler t in terms of its own     *)
(* state, so that the invariants below need not look inside the actions.   *)
(***************************************************************************)
EXTENDS AdapterSyncProofs

-----------------------------------------------------------------------------
(* What the steps do, seen from one handler.                               *)

\* The adapter a handler has received and not yet applied.
Holding(t) == pc[t] \in {"drained", "fetched"} /\ got[t] # NoAdapter

\* A handler between two calls of fetch().
Away(t) == pc[t] \in {"idle", "sync", "ready", "forward"}

\* A call begins, or a forward pass begins or ends: nothing is received.
LEMMA CallEffect ==
  ASSUME TypeInv, NEW t \in Threads,
         Handshake(t) \/ PredictChunk(t) \/ BeginForward(t) \/ EndForward(t)
  PROVE  /\ UNCHANGED <<trainerVars, clientVars, status, faults, lock, reboots>>
         /\ UNCHANGED <<injected, weights, adapterVersion>>
         /\ Away(t) /\ Away(t)'
BY DEF Handshake, PredictChunk, BeginForward, EndForward, Away, serverVars,
   TypeInv, TypeOK, HandlerTypeOK

\* A request: a stream of what is served, or back to the caller.
LEMMA FetchEffect ==
  ASSUME TypeInv, NEW t \in Threads, Fetch(t)
  PROVE  /\ UNCHANGED <<trainerVars, clientVars, serverVars, faults>>
         /\ Away(t)
         /\ \/ Away(t)'
            \/ /\ pc'[t] = "stream" /\ stream'[t].meta = served.meta
               /\ up /\ served.meta # NoAdapter
<1>1. UNCHANGED <<trainerVars, clientVars, serverVars, faults>> /\ Away(t)
  BY DEF Fetch, Away
<1>2. CASE NewerThan(loaded)
  BY <1>1, <1>2 DEF Fetch, NewerThan, TypeInv, TypeOK, HandlerTypeOK
<1>3. CASE ~NewerThan(loaded)
  BY <1>1, <1>3 DEF Fetch, After, Away, TypeInv, TypeOK, HandlerTypeOK
<1> QED
  BY <1>1, <1>2, <1>3

\* A chunk: the stream goes on, or its adapter is complete and on disk.
LEMMA ReceiveEffect ==
  ASSUME TypeInv, WholeInv, NEW t \in Threads, Receive(t)
  PROVE  LET a == stream[t].meta
         IN  /\ UNCHANGED <<trainerVars, loaded, serverVars, faults>>
             /\ pc[t] = "stream" /\ a \in KnownAdapters /\ stream'[t].meta = a
             /\ \/ pc'[t] = "stream" /\ UNCHANGED <<dirs, disk>>
                \/ /\ pc'[t] = "drained" /\ got'[t] = a
                   /\ dirs' = Append(dirs, a.version)
                   /\ disk' = [disk EXCEPT ![a.version] = Weights(a)]
<1> DEFINE s == stream[t]
           c == StreamChunk(t)
           done == Completes(asm, c)
<1>1. /\ s.meta \in KnownAdapters
      /\ s.weights = Weights(s.meta)
      /\ s.next \in 1 .. NChunks
      /\ asm \in [meta : MaybeAdapter, buf : Bytes]
  BY DEF Receive, Progress, MaybeAdapter, TypeInv, TypeOK, HandlerTypeOK, ClientTypeOK
<1>2. s.next > 1 => asm = [meta |-> s.meta, buf |-> Prefix(s.meta, s.next - 1)]
  BY DEF Receive, WholeInv, StreamInv
<1>3. Extend(asm, c) = [meta |-> s.meta, buf |-> Prefix(s.meta, s.next)]
  BY <1>1, <1>2, ExtendOwn DEF StreamChunk
<1>4. c.last = (s.next = NChunks)
  BY <1>1, ChunkOf DEF StreamChunk
<1>5. stream'[t].meta = s.meta /\ pc[t] = "stream"
  BY DEF Receive, TypeInv, TypeOK, HandlerTypeOK
<1>6. UNCHANGED <<trainerVars, loaded, serverVars, faults>>
  BY DEF Receive
<1>7. CASE s.next = NChunks
  <2>1. done = s.meta
    <3>1. c.last
      BY <1>4, <1>7
    <3>2. done = Extend(asm, c).meta
      BY <3>1 DEF Completes
    <3> QED
      BY <1>3, <3>2
  <2>2. pc'[t] = "drained" /\ got'[t] = s.meta
    BY <1>4, <1>7, <2>1 DEF Receive, TypeInv, TypeOK, HandlerTypeOK
  <2>3. /\ dirs' = Append(dirs, s.meta.version)
        /\ disk' = Materialize(disk, s.meta.version, Weights(s.meta))
    BY <1>1, <1>3, <1>7, <2>1, NoAdapterUnknown DEF Receive, Weights
  <2> QED
    BY <1>1, <1>5, <1>6, <2>2, <2>3 DEF Materialize
<1>8. CASE s.next # NChunks
  <2>1. done = NoAdapter
    BY <1>4, <1>8 DEF Completes
  <2>2. pc'[t] = "stream"
    BY <1>4, <1>8 DEF Receive, TypeInv, TypeOK, HandlerTypeOK
  <2>3. UNCHANGED <<dirs, disk>>
    BY <2>1 DEF Receive
  <2> QED
    BY <1>1, <1>5, <1>6, <2>2, <2>3
<1> QED
  BY <1>7, <1>8

\* An adapter that could not be written: an error, and the call is over.
LEMMA ReceiveErrorEffect ==
  ASSUME TypeInv, NEW t \in Threads, ReceiveError(t)
  PROVE  /\ UNCHANGED <<trainerVars, dirs, loaded, serverVars>>
         /\ pc[t] = "stream" /\ Away(t)' /\ faults' = faults + 1
BY DEF ReceiveError, Fault, Away, TypeInv, TypeOK, HandlerTypeOK

\* The end of a stream: old directories are pruned when there is an adapter.
LEMMA FinishEffect ==
  ASSUME TypeInv, NEW t \in Threads, FinishFetch(t)
  PROVE  /\ UNCHANGED <<trainerVars, loaded, serverVars, faults>>
         /\ pc[t] = "drained" /\ got'[t] = got[t]
         /\ \/ /\ got[t] # NoAdapter /\ pc'[t] = "fetched"
               /\ dirs' = Kept(dirs) /\ disk' = Cleanup(disk, dirs)
            \/ got[t] = NoAdapter /\ Away(t)' /\ UNCHANGED <<dirs, disk>>
BY DEF FinishFetch, After, Away, TypeInv, TypeOK, HandlerTypeOK

\* A stream or a load that failed: an error, unless the trainer is gone or the
\* file was not loadable.
LEMMA FailEffect ==
  ASSUME TypeInv, NEW t \in Threads, StreamFail(t) \/ ApplyError(t)
  PROVE  /\ UNCHANGED <<trainerVars, clientVars, serverVars>> /\ Away(t)'
         /\ faults' \in {faults, faults + 1}
         /\ \/ /\ pc[t] \in {"stream", "drained"}
               /\ (up /\ stream[t].meta.run = run) => faults' = faults + 1
            \/ /\ pc[t] = "fetched"
               /\ Loadable(disk[got[t].version]) => faults' = faults + 1
<1>1. UNCHANGED <<trainerVars, clientVars, serverVars>> /\ Away(t)'
  BY DEF StreamFail, ApplyError, After, Away, TypeInv, TypeOK, HandlerTypeOK
<1>2. faults' \in {faults, faults + 1}
  BY DEF StreamFail, ApplyError, Fault
<1>3. CASE StreamFail(t)
  BY <1>1, <1>2, <1>3 DEF StreamFail, Fault
<1>4. CASE ApplyError(t)
  BY <1>1, <1>2, <1>4 DEF ApplyError, Fault
<1> QED
  BY <1>3, <1>4

\* A swap: the adapter is loaded, reported and run by the injected model.
LEMMA ApplyEffect ==
  ASSUME TypeInv, WholeInv, NEW t \in Threads, ApplyOk(t)
  PROVE  /\ UNCHANGED <<trainerVars, dirs, disk, policy, status, faults, reboots>>
         /\ pc[t] = "fetched" /\ pc'[t] = "reporting" /\ got'[t] = got[t]
         /\ got[t] \in KnownAdapters /\ got[t].version > loaded
         /\ loaded' = got[t].version /\ adapterVersion' = got[t]
         /\ Target \in Policies /\ injected' = Target
         /\ weights' = [weights EXCEPT ![Target] = Weights(got[t])]
<1>1. got[t] \in KnownAdapters
  BY DEF ApplyOk, Progress, MaybeAdapter, TypeInv, TypeOK, HandlerTypeOK
<1>2. /\ disk[got[t].version] = Weights(got[t])
      /\ got[t].version > loaded
  BY <1>1, LoadableNotEmpty, NoAdapterUnknown DEF ApplyOk, WholeInv, StreamInv
<1>3. Target \in Policies
  BY BoundsAssumption DEF ApplyOk, Progress, Target, Policies, WholeInv, InjectedInv,
     TypeInv, TypeOK, ServerTypeOK
<1>4. pc'[t] = "reporting" /\ pc[t] = "fetched"
  BY DEF ApplyOk, TypeInv, TypeOK, HandlerTypeOK
<1>5. weights' = [weights EXCEPT ![Target] = Weights(got[t])]
  BY <1>2 DEF ApplyOk
<1> QED
  BY <1>1, <1>2, <1>3, <1>4, <1>5 DEF ApplyOk

\* The status is written, or cannot be.
LEMMA StatusEffect ==
  ASSUME TypeInv, NEW t \in Threads, WriteStatus(t)
  PROVE  /\ UNCHANGED <<trainerVars, clientVars, injected, weights, adapterVersion,
                        policy, reboots>>
         /\ pc[t] = "reporting" /\ Away(t)'
         /\ \/ status' = got[t].version /\ faults' = faults
            \/ status' = status /\ faults' = faults + 1
BY DEF WriteStatus, Fault, After, Away, TypeInv, TypeOK, HandlerTypeOK

\* A restart of the server: everything in memory is gone.
LEMMA RebootEffect ==
  ASSUME Reboot
  PROVE  /\ UNCHANGED <<trainerVars, disk, status, faults>>
         /\ dirs' = <<>> /\ loaded' = 0 /\ adapterVersion' = NoAdapter /\ injected' = 0
         /\ policy' = 0 /\ \A t \in Threads : Away(t)'
         /\ \A p \in Policies : weights'[p] = <<>>
         /\ reboots' = reboots + 1
BY DEF Reboot, NoCalls, Away

-----------------------------------------------------------------------------
(* What is loaded is what is reported and run.                             *)

ReportInv ==
  /\ adapterVersion.version = loaded
  /\ \A p \in Policies : weights[p] # <<>> => p = injected
  /\ adapterVersion = NoAdapter => \A p \in Policies : weights[p] = <<>>

\* Only a swap and a restart change what is loaded, reported and run.
LEMMA ReportStep ==
  ASSUME TypeInv, WholeInv, ReportInv, [Next]_vars
  PROVE  ReportInv'
<1>1. CASE UNCHANGED <<loaded, injected, weights, adapterVersion>>
  BY <1>1 DEF ReportInv
<1>2. CASE Trainer
  BY <1>1, <1>2 DEF Trainer, TrainerStart, Publish, TrainerCrash, clientVars, serverVars
<1>3. ASSUME NEW t \in Threads, Handler(t)
      PROVE  ReportInv'
  <2>1. CASE Handshake(t) \/ PredictChunk(t) \/ BeginForward(t) \/ EndForward(t)
    BY <1>1, <2>1 DEF Handshake, PredictChunk, BeginForward, EndForward, clientVars, serverVars
  <2>2. CASE \/ Fetch(t) \/ Receive(t) \/ ReceiveError(t) \/ FinishFetch(t)
             \/ StreamFail(t) \/ ApplyError(t) \/ WriteStatus(t)
    BY <1>1, <2>2 DEF Fetch, Receive, ReceiveError, FinishFetch, StreamFail, ApplyError, WriteStatus,
       clientVars, serverVars
  <2>3. CASE ApplyOk(t)
    <3>1. /\ got[t] \in KnownAdapters /\ Target \in Policies
          /\ loaded' = got[t].version /\ adapterVersion' = got[t] /\ injected' = Target
          /\ weights' = [weights EXCEPT ![Target] = Weights(got[t])]
      BY <2>3, ApplyEffect
    <3>2. \A p \in Policies : weights'[p] # <<>> => p = injected'
      BY <3>1 DEF ReportInv, Target, Policies, TypeInv, TypeOK, ServerTypeOK
    <3>3. adapterVersion' # NoAdapter
      BY <3>1, NoAdapterUnknown
    <3> QED
      BY <3>1, <3>2, <3>3 DEF ReportInv
  <2> QED
    BY <1>3, <2>1, <2>2, <2>3 DEF Handler, Sync
<1>4. CASE Reboot
  BY <1>4, RebootEffect DEF ReportInv, NoAdapter
<1>5. CASE UNCHANGED vars
  BY <1>1, <1>5 DEF vars, clientVars, serverVars
<1> QED
  BY <1>2, <1>3, <1>4, <1>5 DEF Next

\* A policy object runs on the loaded adapter when it is the injected one, and
\* else on the base weights.
LEMMA ServingLoaded ==
  ASSUME TypeInv, WholeInv, ReportInv
  PROVE  Serving = IF policy # 0 /\ policy = injected THEN loaded ELSE 0
<1>1. CASE adapterVersion = NoAdapter
  <2>1. loaded = 0
    BY <1>1 DEF ReportInv, NoAdapter
  <2>2. policy # 0 => weights[policy] = <<>>
    BY <1>1 DEF ReportInv, Policies, TypeInv, TypeOK, ServerTypeOK
  <2> QED
    BY <2>1, <2>2 DEF Serving
<1>2. CASE adapterVersion # NoAdapter
  <2> DEFINE a == adapterVersion
  <2>1. a \in KnownAdapters /\ a.version = loaded
    BY <1>2 DEF ReportInv, MaybeAdapter, TypeInv, TypeOK, ServerTypeOK
  <2>2. injected # 0 /\ injected <= policy /\ weights[injected] = Weights(a)
    BY <1>2 DEF WholeInv, InjectedInv
  <2>3. Whole(Weights(a)) /\ Weights(a) # <<>> /\ Weights(a)[1] = Slice(a, 1)
    BY <2>1, WeightsWhole, WeightsType, NChunksAssumption
  <2>4. Weights(a)[1].of = a
    BY <2>3 DEF Slice
  <2>5. CASE policy = injected
    BY <2>1, <2>2, <2>3, <2>4, <2>5 DEF Serving
  <2>6. CASE policy # injected
    <3>1. policy \in 0 .. MaxPolicies /\ MaxPolicies \in Nat
      BY BoundsAssumption DEF TypeInv, TypeOK, ServerTypeOK
    <3>2. policy # 0 => weights[policy] = <<>>
      BY <2>6, <3>1 DEF ReportInv, Policies
    <3> QED
      BY <2>6, <3>2 DEF Serving
  <2> QED
    BY <2>5, <2>6
<1> QED
  BY <1>1, <1>2

-----------------------------------------------------------------------------
(* As long as the trainer was not restarted, versions only grow: from what *)
(* the status file shows over what is received to what is served.          *)

\* Nothing is published before the first start.
RunInv == run = 0 => version = 0

VersionInv(t) ==
  /\ status <= version
  /\ served.meta # NoAdapter => served.meta.version = version /\ served.meta.run = run
  /\ pc[t] \in {"stream", "drained"} => stream[t].meta.run <= run
  /\ pc[t] = "stream" => stream[t].meta.version \in status .. version
  /\ Holding(t) \/ pc[t] = "reporting" => got[t].version \in status .. version

\* The numbers that the steps below compare.
LEMMA Numbers ==
  ASSUME TypeInv
  PROVE  /\ loaded \in Nat /\ version \in Nat /\ faults \in Nat /\ faults <= MaxFaults
         /\ status \in Nat
         /\ dirs \in Seq(Versions) /\ Len(dirs) \in Nat
         /\ \A i \in 1 .. Len(dirs) : dirs[i] \in Nat \ {0}
<1>1. dirs \in Seq(Versions) /\ faults \in 0 .. MaxFaults
  BY DEF TypeInv, TypeOK, ClientTypeOK
<1>2. loaded \in Nat /\ version \in Nat /\ status \in Nat
  BY BoundsAssumption DEF TypeInv, TypeOK, ClientTypeOK, TrainerTypeOK, ServerTypeOK
<1>3. Len(dirs) \in Nat /\ \A i \in 1 .. Len(dirs) : dirs[i] \in Versions
  BY <1>1
<1> QED
  BY <1>1, <1>2, <1>3, BoundsAssumption DEF Versions

\* Trainer processes and errors are counted one by one.
LEMMA Counts ==
  ASSUME TypeInv, [Next]_vars
  PROVE  /\ run \in Nat /\ run' \in {run, run + 1}
         /\ faults \in Nat /\ faults' \in {faults, faults + 1}
<1>1. run \in Nat /\ faults \in Nat
  BY BoundsAssumption DEF TypeInv, TypeOK, TrainerTypeOK
<1>2. run' \in {run, run + 1}
  <2>1. CASE Trainer
    BY <2>1 DEF Trainer, TrainerStart, Publish, TrainerCrash
  <2>2. CASE ~Trainer
    BY <2>2 DEF Next, Reboot, Handler, Sync, Handshake, PredictChunk, BeginForward, EndForward,
       Fetch, Receive, ReceiveError, FinishFetch, StreamFail, ApplyOk, ApplyError, WriteStatus,
       vars, trainerVars
  <2> QED
    BY <2>1, <2>2
<1>3. faults' \in {faults, faults + 1}
  BY DEF Next, Trainer, TrainerStart, Publish, TrainerCrash, Reboot, Handler, Sync, Handshake,
     PredictChunk, BeginForward, EndForward, Fetch, Receive, ReceiveError, FinishFetch, StreamFail,
     ApplyOk, ApplyError, WriteStatus, Fault, vars
<1> QED
  BY <1>1, <1>2, <1>3

\* A trainer that publishes has been started.
LEMMA RunStep == TypeInv /\ RunInv /\ [Next]_vars => RunInv'
<1> SUFFICES ASSUME TypeInv, RunInv, [Next]_vars
             PROVE  RunInv'
  OBVIOUS
<1>1. CASE Trainer
  BY <1>1 DEF Trainer, TrainerStart, Publish, TrainerCrash, RunInv, TypeInv, Progress
<1>2. CASE ~Trainer
  <2>1. UNCHANGED trainerVars
    BY <1>2 DEF Next, Reboot, Handler, Sync, Handshake, PredictChunk, BeginForward, EndForward,
       Fetch, Receive, ReceiveError, FinishFetch, StreamFail, ApplyOk, ApplyError, WriteStatus, vars
  <2> QED
    BY <2>1 DEF RunInv, trainerVars
<1> QED
  BY <1>1, <1>2

\* Nothing is published, shown or held at first.
LEMMA VersionInit ==
  ASSUME Init, NEW t \in Threads
  PROVE  VersionInv(t)
<1>1. version = 0 /\ status = 0 /\ served.meta = NoAdapter /\ pc[t] = "idle"
  BY DEF Init, NotServing, NoCalls
<1> QED
  BY <1>1 DEF VersionInv, Holding

\* Steps of the handler after which it holds nothing.
LEMMA VersionQuiet ==
  ASSUME NEW t \in Threads, VersionInv(t), UNCHANGED <<run, version, served>>,
         status' <= version,
         \/ status' = status /\ UNCHANGED <<pc[t], stream[t], got[t]>>
         \/ Away(t)'
  PROVE  VersionInv(t)'
BY DEF VersionInv, Holding, Away

\* The order of the versions through every step.
LEMMA VersionStep ==
  ASSUME SingleHandler, TypeInv, WholeInv, RunInv,
         NEW t \in Threads, VersionInv(t), [Next]_vars, run' <= 1
  PROVE  VersionInv(t)'
<1>1. /\ version \in Nat /\ status \in Nat /\ run \in 0 .. 1 /\ status <= version
      /\ pc[t] = "stream" => stream[t].meta.version \in Nat
      /\ got[t].version \in Nat
  <2>1. \A x \in MaybeAdapter : x.version \in Nat
    BY BoundsAssumption DEF MaybeAdapter, KnownAdapters, Versions, NoAdapter
  <2>2. stream[t].meta \in MaybeAdapter /\ got[t] \in MaybeAdapter
    BY DEF TypeInv, TypeOK, HandlerTypeOK
  <2>3. run \in 0 .. 1
    BY Counts
  <2> QED
    BY <2>1, <2>2, <2>3, Numbers DEF VersionInv
<1>2. CASE Trainer
  <2>1. UNCHANGED <<status, pc[t], stream[t], got[t]>>
    BY <1>2 DEF Trainer, TrainerStart, Publish, TrainerCrash, serverVars, threadVars
  <2>2. CASE TrainerStart
    <3>1. version' = version /\ served'.meta = NoAdapter /\ run' = run + 1
      BY <1>1, <2>2 DEF TrainerStart, NotServing, RunInv
    <3>2. pc[t] \in {"stream", "drained"} => stream[t].meta.run <= run'
      <4>1. \A x \in MaybeAdapter : x.run \in Nat
        BY BoundsAssumption DEF MaybeAdapter, KnownAdapters, NoAdapter
      <4>2. stream[t].meta.run \in Nat
        BY <4>1 DEF TypeInv, TypeOK, HandlerTypeOK
      <4> QED
        BY <1>1, <3>1, <4>2 DEF VersionInv
    <3> QED
      BY <2>1, <3>1, <3>2 DEF VersionInv, Holding
  <2>3. CASE Publish
    <3>1. /\ version' = version + 1 /\ served'.meta.version = version'
          /\ served'.meta.run = run /\ run' = run /\ run # 0
      BY <2>3 DEF Publish, TypeInv, Progress
    <3>2. status .. version \subseteq status .. version + 1
      BY <1>1
    <3> QED
      BY <1>1, <2>1, <3>1, <3>2 DEF VersionInv, Holding
  <2>4. CASE TrainerCrash
    <3>1. UNCHANGED <<run, version>> /\ served'.meta = NoAdapter
      BY <2>4 DEF TrainerCrash, NotServing
    <3> QED
      BY <2>1, <3>1 DEF VersionInv, Holding
  <2> QED
    BY <1>2, <2>2, <2>3, <2>4 DEF Trainer
<1>3. CASE Handshake(t) \/ PredictChunk(t) \/ BeginForward(t) \/ EndForward(t)
  <2>1. UNCHANGED <<run, version, served, status>> /\ Away(t)'
    BY <1>3, CallEffect DEF trainerVars
  <2> QED
    BY <1>1, <2>1, VersionQuiet
<1>4. CASE Fetch(t)
  <2>1. UNCHANGED <<run, version, served, status>>
    BY <1>4, FetchEffect DEF trainerVars, serverVars
  <2>2. CASE Away(t)'
    BY <1>1, <2>1, <2>2, VersionQuiet
  <2>3. CASE pc'[t] = "stream" /\ stream'[t].meta = served.meta /\ served.meta # NoAdapter
    <3>1. served.meta.version \in status .. version /\ served.meta.run <= run
      BY <1>1, <2>3 DEF VersionInv
    <3> QED
      BY <2>1, <2>3, <3>1 DEF VersionInv, Holding
  <2> QED
    BY <1>4, <2>2, <2>3, FetchEffect
<1>5. CASE Receive(t)
  <2>1. /\ UNCHANGED <<run, version, served, status>>
        /\ stream[t].meta.version \in status .. version /\ stream[t].meta.run <= run
        /\ stream'[t].meta = stream[t].meta /\ pc[t] = "stream"
        /\ pc'[t] = "stream" \/ (pc'[t] = "drained" /\ got'[t] = stream[t].meta)
    BY <1>5, ReceiveEffect DEF trainerVars, serverVars, VersionInv
  <2> QED
    BY <2>1 DEF VersionInv, Holding
<1>6. CASE FinishFetch(t)
  <2>1. UNCHANGED <<run, version, served, status>> /\ pc[t] = "drained" /\ got'[t] = got[t]
    BY <1>6, FinishEffect DEF trainerVars, serverVars
  <2>2. CASE Away(t)'
    BY <1>1, <2>1, <2>2, VersionQuiet
  <2>3. CASE got[t] # NoAdapter /\ pc'[t] = "fetched"
    BY <2>1, <2>3 DEF VersionInv, Holding
  <2> QED
    BY <1>6, <2>2, <2>3, FinishEffect
<1>7. CASE ReceiveError(t) \/ StreamFail(t) \/ ApplyError(t)
  <2>1. UNCHANGED <<run, version, served, status>> /\ Away(t)'
    BY <1>7, ReceiveErrorEffect, FailEffect DEF trainerVars, serverVars
  <2> QED
    BY <1>1, <2>1, VersionQuiet
<1>8. CASE ApplyOk(t)
  <2>1. /\ UNCHANGED <<run, version, served, status>>
        /\ pc[t] = "fetched" /\ pc'[t] = "reporting" /\ got'[t] = got[t] /\ got[t] # NoAdapter
    BY <1>8, ApplyEffect, NoAdapterUnknown DEF trainerVars
  <2> QED
    BY <2>1 DEF VersionInv, Holding
<1>9. CASE WriteStatus(t)
  <2>1. /\ UNCHANGED <<run, version, served>> /\ pc[t] = "reporting" /\ Away(t)'
        /\ status' \in {status, got[t].version}
    BY <1>9, StatusEffect DEF trainerVars
  <2>2. status' <= version
    BY <1>1, <2>1 DEF VersionInv
  <2> QED
    BY <2>1, <2>2, VersionQuiet
<1>10. CASE Reboot
  <2>1. UNCHANGED <<run, version, served, status>> /\ Away(t)'
    BY <1>10, RebootEffect DEF trainerVars
  <2> QED
    BY <1>1, <2>1, VersionQuiet
<1>11. CASE UNCHANGED vars
  <2>1. UNCHANGED <<run, version, served, status, pc[t], stream[t], got[t]>>
    BY <1>11 DEF vars, trainerVars, serverVars, threadVars
  <2> QED
    BY <1>1, <2>1, VersionQuiet
<1>12. Next => Trainer \/ Reboot \/ Handler(t)
  BY DEF Next, SingleHandler
<1> QED
  BY <1>2, <1>3, <1>4, <1>5, <1>6, <1>7, <1>8, <1>9, <1>10, <1>11, <1>12 DEF Handler, Sync
-----------------------------------------------------------------------------
(* cleanup() prunes the front of the list of directories, which grows with *)
(* every fetch; what keeps the adapter just fetched out of its reach is a  *)
(* count.  A fetch is for something newer than what is loaded, so a        *)
(* directory behind it in the list that is above the loaded version has    *)
(* been fetched and not applied, and each of these cost an error.          *)

DirInv(t) ==
  /\ (~up /\ run # 0) => faults >= 1
  /\ \A i \in 1 .. Len(dirs) : dirs[i] <= version
  /\ \A i, j \in 1 .. Len(dirs) : i <= j => dirs[i] <= dirs[j]
  /\ pc[t] = "stream" => \A i \in 1 .. Len(dirs) : dirs[i] <= stream[t].meta.version
  /\ pc[t] \in {"stream", "drained"} => stream[t].meta # NoAdapter
  /\ Holding(t) =>
       /\ Len(dirs) # 0 /\ dirs[Len(dirs)] = got[t].version
       /\ disk[got[t].version] = Weights(got[t])

\* A stream that its trainer will not finish is an error already counted; an
\* adapter that can still be applied is no error yet.
Owed(t) == IF pc[t] = "stream" /\ ~up THEN 1 ELSE 0
Spare(t) == IF Holding(t) /\ (pc[t] = "fetched" \/ up) THEN 1 ELSE 0

\* The directories from the first version above the loaded one on are no more
\* than the errors met, and the one adapter that is being handed over.
UnappliedInv(t) ==
  \A i \in 1 .. Len(dirs) :
    dirs[i] > loaded => (Len(dirs) - i + 1) + Owed(t) <= faults + Spare(t)

ListInv(t) == DirInv(t) /\ UnappliedInv(t)

\* What cleanup keeps is the end of the list, its last entry included.
LEMMA KeptIndex ==
  ASSUME NEW d \in Seq(Versions)
  PROVE  LET o == Len(d) - Len(Kept(d))
         IN  /\ o \in Nat /\ Len(Kept(d)) \in Nat
             /\ \A i \in 1 .. Len(Kept(d)) : i + o \in 1 .. Len(d) /\ Kept(d)[i] = d[i + o]
             /\ Len(d) # 0 => Len(Kept(d)) # 0
<1>1. CASE Len(d) > KeepLast
  <2> DEFINE m == Len(d) - KeepLast + 1
  <2>1. m \in 1 .. Len(d) /\ Len(d) \in Nat
    BY <1>1, KeepLastAssumption
  <2>2. \A i \in m .. Len(d) : d[i] \in Versions
    BY <2>1
  <2>3. /\ Len(SubSeq(d, m, Len(d))) = Len(d) - m + 1
        /\ \A i \in 1 .. Len(d) - m + 1 : SubSeq(d, m, Len(d))[i] = d[m + i - 1]
    BY <2>1, <2>2, SubSeqProperties
  <2>4. Kept(d) = SubSeq(d, m, Len(d))
    BY <1>1 DEF Kept
  <2> HIDE DEF m
  <2>5. Len(Kept(d)) = Len(d) - m + 1 /\ Len(Kept(d)) \in Nat /\ Len(Kept(d)) # 0
    BY <2>1, <2>3, <2>4
  <2>6. Len(d) - Len(Kept(d)) = m - 1
    BY <2>1, <2>5
  <2>7. \A i \in 1 .. Len(Kept(d)) : i + (m - 1) \in 1 .. Len(d) /\ Kept(d)[i] = d[i + (m - 1)]
    BY <2>1, <2>3, <2>4, <2>5
  <2> QED
    BY <2>1, <2>5, <2>6, <2>7
<1>2. CASE ~(Len(d) > KeepLast)
  BY <1>2 DEF Kept
<1> QED
  BY <1>1, <1>2

\* An adapter's own file can be loaded.
LEMMA WeightsLoadable ==
  ASSUME NEW a \in KnownAdapters
  PROVE  Loadable(Weights(a))
<1>1. 1 \in 1 .. NChunks /\ NChunks \in 1 .. NChunks
  BY NChunksAssumption
<1>2. /\ Len(Weights(a)) = NChunks
      /\ Weights(a)[1] = Slice(a, 1) /\ Weights(a)[NChunks] = Slice(a, NChunks)
  BY <1>1, WeightsType
<1> QED
  BY <1>2 DEF Loadable, Slice

\* The list of directories is empty at first.
LEMMA ListInit ==
  ASSUME Init, NEW t \in Threads
  PROVE  ListInv(t)
<1>1. run = 0 /\ version = 0 /\ served.meta = NoAdapter /\ Len(dirs) = 0
  BY DEF Init, NotServing
<1>2. pc[t] = "idle"
  BY DEF Init, NoCalls
<1> QED
  BY <1>1, <1>2 DEF ListInv, DirInv, UnappliedInv, Holding

\* Steps of the handler that leave the client alone and receive nothing: what
\* it held must be paid for.
LEMMA ListQuiet ==
  ASSUME TypeInv, NEW t \in Threads, ListInv(t),
         UNCHANGED <<trainerVars, dirs, loaded>>, faults' \in Nat,
         \/ UNCHANGED <<disk, pc[t], stream[t], got[t]>> /\ faults' >= faults
         \/ Away(t)' /\ faults' >= faults + Spare(t)
  PROVE  ListInv(t)'
<1>1. UNCHANGED <<up, run, version, served, dirs, loaded>>
  BY DEF trainerVars
<1>2. faults \in Nat /\ Spare(t) \in {0, 1} /\ Len(dirs) \in Nat
  BY Numbers DEF Spare
<1>3. CASE UNCHANGED <<disk, pc[t], stream[t], got[t]>> /\ faults' >= faults
  <2>1. DirInv(t)'
    BY <1>1, <1>2, <1>3 DEF ListInv, DirInv, Holding
  <2>2. Owed(t)' = Owed(t) /\ Spare(t)' = Spare(t) /\ Owed(t) \in {0, 1}
    BY <1>1, <1>3 DEF Owed, Spare, Holding
  <2>3. UnappliedInv(t)'
    <3> SUFFICES ASSUME NEW i \in 1 .. Len(dirs), dirs[i] > loaded
                 PROVE  (Len(dirs) - i + 1) + Owed(t) <= faults' + Spare(t)
      BY <1>1, <2>2 DEF UnappliedInv
    <3>1. (Len(dirs) - i + 1) + Owed(t) <= faults + Spare(t)
      BY DEF ListInv, UnappliedInv
    <3> QED
      BY <1>2, <1>3, <2>2, <3>1
  <2> QED
    BY <2>1, <2>3 DEF ListInv
<1>4. CASE Away(t)' /\ faults' >= faults + Spare(t)
  <2>1. pc'[t] \notin {"stream", "drained", "fetched"}
    BY <1>4 DEF Away
  <2>2. DirInv(t)'
    BY <1>1, <1>2, <1>4, <2>1 DEF ListInv, DirInv, Holding
  <2>3. Owed(t)' = 0 /\ Spare(t)' = 0 /\ Owed(t) \in {0, 1}
    BY <2>1 DEF Owed, Spare, Holding
  <2>4. UnappliedInv(t)'
    <3> SUFFICES ASSUME NEW i \in 1 .. Len(dirs), dirs[i] > loaded
                 PROVE  (Len(dirs) - i + 1) + 0 <= faults' + 0
      BY <1>1, <2>3 DEF UnappliedInv
    <3>1. (Len(dirs) - i + 1) + Owed(t) <= faults + Spare(t)
      BY DEF ListInv, UnappliedInv
    <3> QED
      BY <1>2, <1>4, <2>3, <3>1
  <2> QED
    BY <2>2, <2>4 DEF ListInv
<1> QED
  BY <1>3, <1>4

\* A chunk, or the chunk that completes an adapter.
LEMMA ListReceive ==
  ASSUME TypeInv, TypeInv', WholeInv, RunInv, NEW t \in Threads,
         VersionInv(t), ListInv(t), Receive(t)
  PROVE  ListInv(t)'
<1> DEFINE a == stream[t].meta
<1>1. /\ UNCHANGED <<up, run, version, served, loaded, faults>>
      /\ pc[t] = "stream" /\ a \in KnownAdapters /\ stream'[t].meta = a
  BY ReceiveEffect DEF trainerVars
<1>2. a.version \in Versions /\ a.version \in Nat \ {0} /\ a # NoAdapter
  BY <1>1, NoAdapterUnknown, BoundsAssumption DEF KnownAdapters, Versions
<1>3. /\ faults \in Nat /\ version \in Nat /\ loaded \in Nat
      /\ dirs \in Seq(Versions) /\ Len(dirs) \in Nat
      /\ \A i \in 1 .. Len(dirs) : dirs[i] \in Nat \ {0}
  BY Numbers
<1>4. /\ a.version <= version
      /\ \A i \in 1 .. Len(dirs) : dirs[i] <= a.version
      /\ \A i, j \in 1 .. Len(dirs) : i <= j => dirs[i] <= dirs[j]
  <2>1. a.version \in status .. version /\ status \in Nat
    BY <1>1, Numbers DEF VersionInv
  <2> QED
    BY <1>1, <1>3, <2>1 DEF ListInv, DirInv
<1>5. Owed(t) = (IF up THEN 0 ELSE 1) /\ Spare(t) = 0
  BY <1>1 DEF Owed, Spare, Holding
<1>6. CASE pc'[t] = "stream" /\ UNCHANGED <<dirs, disk>>
  <2>1. DirInv(t)'
    BY <1>1, <1>2, <1>6 DEF ListInv, DirInv, Holding
  <2>2. Owed(t)' = Owed(t) /\ Spare(t)' = Spare(t)
    BY <1>1, <1>6 DEF Owed, Spare, Holding
  <2>3. UnappliedInv(t)'
    BY <1>1, <1>6, <2>2 DEF ListInv, UnappliedInv
  <2> QED
    BY <2>1, <2>3 DEF ListInv
<1>7. CASE /\ pc'[t] = "drained" /\ got'[t] = a
           /\ dirs' = Append(dirs, a.version)
           /\ disk' = [disk EXCEPT ![a.version] = Weights(a)]
  <2> HIDE DEF a
  <2>1. /\ Len(dirs') = Len(dirs) + 1 /\ dirs'[Len(dirs) + 1] = a.version
        /\ \A i \in 1 .. Len(dirs) : dirs'[i] = dirs[i]
    BY <1>2, <1>3, <1>7
  <2>2. disk'[a.version] = Weights(a)
    <3>1. disk \in [Versions -> Bytes]
      BY DEF TypeInv, TypeOK, ClientTypeOK
    <3> QED
      BY <1>2, <1>7, <3>1
  <2>3. \A i \in 1 .. Len(dirs') : dirs'[i] <= a.version
    BY <1>2, <1>3, <1>4, <2>1
  <2>4. \A i \in 1 .. Len(dirs') : dirs'[i] <= version
    BY <1>2, <1>3, <1>4, <2>1
  <2>5. DirInv(t)'
    <3>1. \A i, j \in 1 .. Len(dirs') : i <= j => dirs'[i] <= dirs'[j]
      <4> SUFFICES ASSUME NEW i \in 1 .. Len(dirs'), NEW j \in 1 .. Len(dirs'), i <= j
                   PROVE  dirs'[i] <= dirs'[j]
        OBVIOUS
      <4>1. CASE j = Len(dirs) + 1
        BY <2>1, <2>3, <4>1
      <4>2. CASE j # Len(dirs) + 1
        <5>1. i \in 1 .. Len(dirs) /\ j \in 1 .. Len(dirs)
          BY <1>3, <2>1, <4>2
        <5> QED
          BY <1>4, <2>1, <5>1
      <4> QED
        BY <4>1, <4>2
    <3>2. Len(dirs') # 0 /\ dirs'[Len(dirs')] = a.version
      BY <1>3, <2>1
    <3> QED
      BY <1>1, <1>2, <1>7, <2>2, <2>4, <3>1, <3>2 DEF ListInv, DirInv, a
  <2>6. Owed(t)' = 0 /\ Spare(t)' = IF up THEN 1 ELSE 0
    BY <1>1, <1>2, <1>7 DEF Owed, Spare, Holding
  <2>7. ~up => faults >= 1
    BY <1>2, <1>3, <1>4 DEF ListInv, DirInv, RunInv
  <2>8. UnappliedInv(t)'
    <3> SUFFICES ASSUME NEW i \in 1 .. Len(dirs'), dirs'[i] > loaded
                 PROVE  (Len(dirs) + 1 - i + 1) + 0 <= faults + (IF up THEN 1 ELSE 0)
      BY <1>1, <2>1, <2>6 DEF UnappliedInv
    <3>1. CASE i = Len(dirs) + 1
      BY <1>3, <2>7, <3>1
    <3>2. CASE i # Len(dirs) + 1
      <4>1. i \in 1 .. Len(dirs)
        BY <1>3, <2>1, <3>2
      <4>2. dirs[i] > loaded
        BY <2>1, <4>1
      <4>3. (Len(dirs) - i + 1) + Owed(t) <= faults + Spare(t)
        BY <4>1, <4>2 DEF ListInv, UnappliedInv
      <4> QED
        BY <1>3, <1>5, <4>1, <4>3
    <3> QED
      BY <3>1, <3>2
  <2> QED
    BY <2>5, <2>8 DEF ListInv
<1> QED
  BY <1>6, <1>7, ReceiveEffect

\* cleanup(): the adapter just fetched is not among the directories removed.
LEMMA ListFinish ==
  ASSUME faults < KeepLast, TypeInv, WholeInv, NEW t \in Threads, ListInv(t), FinishFetch(t)
  PROVE  ListInv(t)'
<1> DEFINE v == got[t].version
           o == Len(dirs) - Len(Kept(dirs))
<1>1. /\ UNCHANGED <<trainerVars, up, run, version, served, loaded, faults>>
      /\ pc[t] = "drained" /\ got'[t] = got[t]
  BY FinishEffect DEF trainerVars
<1>2. /\ faults \in Nat /\ version \in Nat /\ loaded \in Nat /\ faults <= MaxFaults
      /\ dirs \in Seq(Versions) /\ Len(dirs) \in Nat
      /\ \A i \in 1 .. Len(dirs) : dirs[i] \in Nat \ {0}
  BY Numbers
<1>3. CASE got[t] = NoAdapter /\ Away(t)' /\ UNCHANGED <<dirs, disk>>
  <2>1. Spare(t) = 0
    BY <1>3 DEF Spare, Holding
  <2>2. faults' \in Nat /\ faults' >= faults + Spare(t)
    BY <1>1, <1>2, <2>1
  <2> QED
    BY <1>1, <1>3, <2>2, ListQuiet
<1>4. CASE /\ got[t] # NoAdapter /\ pc'[t] = "fetched"
           /\ dirs' = Kept(dirs) /\ disk' = Cleanup(disk, dirs)
  <2>1. Holding(t) /\ Holding(t)'
    BY <1>1, <1>4 DEF Holding
  <2>2. /\ Len(dirs) # 0 /\ dirs[Len(dirs)] = v
        /\ disk[v] = Weights(got[t])
        /\ \A i \in 1 .. Len(dirs) : dirs[i] <= version
        /\ \A i, j \in 1 .. Len(dirs) : i <= j => dirs[i] <= dirs[j]
    BY <2>1 DEF ListInv, DirInv
  <2>3. v > loaded /\ v \in Versions
    BY <1>1, <1>4 DEF WholeInv, StreamInv, MaybeAdapter, KnownAdapters,
       TypeInv, TypeOK, HandlerTypeOK
  <2>4. Owed(t) = 0 /\ Spare(t) = (IF up THEN 1 ELSE 0) /\ Owed(t)' = 0 /\ Spare(t)' = 1
    BY <1>1, <1>4, <2>1 DEF Owed, Spare
  <2> HIDE DEF v
  <2>5. v \notin Popped(dirs)
    <3> SUFFICES ASSUME NEW j \in 1 .. Len(dirs), j + KeepLast <= Len(dirs), dirs[j] = v
                 PROVE  FALSE
      BY <1>2 DEF Popped
    <3>1. (Len(dirs) - j + 1) + Owed(t) <= faults + Spare(t)
      BY <2>3 DEF ListInv, UnappliedInv
    <3> QED
      BY <1>2, <2>4, <3>1, KeepLastAssumption, BoundsAssumption
  <2>6. disk'[v] = Weights(got[t])
    <3>1. disk \in [Versions -> Bytes]
      BY DEF TypeInv, TypeOK, ClientTypeOK
    <3> QED
      BY <1>4, <2>2, <2>3, <2>5, <3>1 DEF Cleanup
  <2>7. /\ o \in Nat /\ Len(dirs') \in Nat /\ Len(dirs') # 0
        /\ \A i \in 1 .. Len(dirs') : i + o \in 1 .. Len(dirs) /\ dirs'[i] = dirs[i + o]
        /\ o = Len(dirs) - Len(dirs')
    BY <1>2, <1>4, <2>2, KeptIndex
  <2> HIDE DEF o
  <2>8. dirs'[Len(dirs')] = v
    <3>1. Len(dirs') \in 1 .. Len(dirs') /\ Len(dirs') + o = Len(dirs)
      BY <1>2, <2>7
    <3> QED
      BY <2>2, <2>7, <3>1
  <2>9. \A i \in 1 .. Len(dirs') : dirs'[i] <= version
    BY <2>2, <2>7
  <2>10. DirInv(t)'
    <3>1. ASSUME NEW i \in 1 .. Len(dirs'), NEW j \in 1 .. Len(dirs'), i <= j
          PROVE  dirs'[i] <= dirs'[j]
      <4>1. i + o \in 1 .. Len(dirs) /\ j + o \in 1 .. Len(dirs) /\ i + o <= j + o
        BY <2>7, <3>1
      <4> QED
        BY <2>2, <2>7, <4>1
    <3> QED
      BY <1>1, <1>4, <2>6, <2>7, <2>8, <2>9, <3>1 DEF ListInv, DirInv, v
  <2>11. UnappliedInv(t)'
    <3> SUFFICES ASSUME NEW i \in 1 .. Len(dirs'), dirs'[i] > loaded
                 PROVE  (Len(dirs') - i + 1) + 0 <= faults + 1
      BY <1>1, <2>4 DEF UnappliedInv
    <3>1. i + o \in 1 .. Len(dirs) /\ dirs[i + o] > loaded
      BY <2>7
    <3>2. (Len(dirs) - (i + o) + 1) + Owed(t) <= faults + Spare(t)
      BY <3>1 DEF ListInv, UnappliedInv
    <3> QED
      BY <1>2, <2>4, <2>7, <3>2
  <2> QED
    BY <2>10, <2>11 DEF ListInv
<1> QED
  BY <1>3, <1>4, FinishEffect

\* The trainer starts, publishes or crashes.
LEMMA ListTrainer ==
  ASSUME TypeInv, RunInv, NEW t \in Threads, ListInv(t), Trainer, run' <= 1
  PROVE  ListInv(t)'
<1>1. UNCHANGED <<dirs, disk, loaded, pc[t], stream[t], got[t]>>
  BY DEF Trainer, TrainerStart, Publish, TrainerCrash, clientVars, threadVars
<1>2. /\ faults \in Nat /\ version \in Nat /\ loaded \in Nat
      /\ dirs \in Seq(Versions) /\ Len(dirs) \in Nat
      /\ \A i \in 1 .. Len(dirs) : dirs[i] \in Nat \ {0}
  BY Numbers
<1>5. CASE TrainerStart
  <2>1. run = 0 /\ version = 0 /\ up'
    BY <1>5, BoundsAssumption DEF TrainerStart, RunInv, TypeInv, TypeOK, TrainerTypeOK
  <2>2. Len(dirs) = 0
    BY <1>2, <2>1 DEF ListInv, DirInv
  <2>3. DirInv(t)'
    BY <1>1, <2>1, <2>2 DEF ListInv, DirInv, Holding
  <2>4. UnappliedInv(t)'
    BY <1>1, <2>2 DEF UnappliedInv
  <2> QED
    BY <2>3, <2>4 DEF ListInv
<1>6. CASE Publish
  <2>1. version' = version + 1 /\ UNCHANGED <<up, run, faults>> /\ up
    BY <1>6 DEF Publish
  <2>2. DirInv(t)'
    <3>1. \A i \in 1 .. Len(dirs) : dirs[i] <= version + 1
      BY <1>2 DEF ListInv, DirInv
    <3> QED
      BY <1>1, <2>1, <3>1 DEF ListInv, DirInv, Holding
  <2>3. Owed(t)' = Owed(t) /\ Spare(t)' = Spare(t)
    BY <1>1, <2>1 DEF Owed, Spare, Holding
  <2>4. UnappliedInv(t)'
    BY <1>1, <2>1, <2>3 DEF ListInv, UnappliedInv
  <2> QED
    BY <2>2, <2>4 DEF ListInv
<1>7. CASE TrainerCrash
  <2>1. up /\ ~up' /\ UNCHANGED version /\ faults' = faults + 1
    BY <1>7 DEF TrainerCrash, Fault
  <2>2. DirInv(t)'
    BY <1>1, <1>2, <2>1 DEF ListInv, DirInv, Holding
  <2>3. Owed(t)' + Spare(t) <= 1 + Spare(t)' /\ Owed(t) = 0
        /\ Owed(t)' \in {0, 1} /\ Spare(t) \in {0, 1} /\ Spare(t)' \in {0, 1}
    BY <1>1, <2>1 DEF Owed, Spare, Holding
  <2>4. UnappliedInv(t)'
    <3> SUFFICES ASSUME NEW i \in 1 .. Len(dirs), dirs[i] > loaded
                 PROVE  (Len(dirs) - i + 1) + Owed(t)' <= faults + 1 + Spare(t)'
      BY <1>1, <2>1 DEF UnappliedInv
    <3>1. (Len(dirs) - i + 1) + Owed(t) <= faults + Spare(t)
      BY DEF ListInv, UnappliedInv
    <3> QED
      BY <1>2, <2>3, <3>1
  <2> QED
    BY <2>2, <2>4 DEF ListInv
<1> QED
  BY <1>5, <1>6, <1>7 DEF Trainer

\* The list of directories through every step.
LEMMA ListStep ==
  ASSUME SingleHandler, faults < KeepLast,
         TypeInv, TypeInv', WholeInv, RunInv, NEW t \in Threads,
         VersionInv(t), ListInv(t), [Next]_vars, run' <= 1
  PROVE  ListInv(t)'
<1>1. /\ faults \in Nat /\ version \in Nat /\ loaded \in Nat
      /\ dirs \in Seq(Versions) /\ Len(dirs) \in Nat
      /\ \A i \in 1 .. Len(dirs) : dirs[i] \in Nat \ {0}
  BY Numbers
<1>2. Away(t) \/ pc[t] = "reporting" => Spare(t) = 0 /\ ~Holding(t)
  BY DEF Away, Spare, Holding
<1>3. CASE Handshake(t) \/ PredictChunk(t) \/ BeginForward(t) \/ EndForward(t)
  <2>1. UNCHANGED <<trainerVars, dirs, disk, loaded, faults>> /\ Away(t) /\ Away(t)'
    BY <1>3, CallEffect DEF clientVars
  <2>2. faults' \in Nat /\ faults' >= faults + Spare(t)
    BY <1>1, <1>2, <2>1
  <2> QED
    BY <2>1, <2>2, ListQuiet
<1>4. CASE Fetch(t)
  <2>1. UNCHANGED <<trainerVars, dirs, disk, loaded, faults>> /\ Away(t)
    BY <1>4, FetchEffect DEF clientVars
  <2>2. CASE Away(t)'
    <3>1. faults' \in Nat /\ faults' >= faults + Spare(t)
      BY <1>1, <1>2, <2>1
    <3> QED
      BY <2>1, <2>2, <3>1, ListQuiet
  <2>3. CASE pc'[t] = "stream" /\ stream'[t].meta = served.meta /\ up /\ served.meta # NoAdapter
    <3>1. UNCHANGED <<up, run, version, served>>
      BY <2>1 DEF trainerVars
    <3>2. served.meta.version = version
      BY <2>3 DEF VersionInv
    <3>3. DirInv(t)'
      BY <1>1, <2>1, <2>3, <3>1, <3>2 DEF ListInv, DirInv, Holding
    <3>4. Owed(t)' = 0 /\ Owed(t) = 0 /\ Spare(t)' = 0 /\ Spare(t) = 0
      BY <1>2, <2>1, <2>3, <3>1 DEF Owed, Spare, Holding, Away
    <3>5. UnappliedInv(t)'
      BY <2>1, <3>4 DEF ListInv, UnappliedInv
    <3> QED
      BY <3>3, <3>5 DEF ListInv
  <2> QED
    BY <1>4, <2>2, <2>3, FetchEffect
<1>5. CASE Receive(t)
  BY <1>5, ListReceive
<1>6. CASE FinishFetch(t)
  BY <1>6, ListFinish
<1>7. CASE StreamFail(t) \/ ApplyError(t)
  <2>1. /\ UNCHANGED <<trainerVars, dirs, disk, loaded>> /\ Away(t)'
        /\ faults' \in {faults, faults + 1}
    BY <1>7, FailEffect DEF clientVars
  <2>2. Spare(t) = 1 => faults' = faults + 1
    <3> SUFFICES ASSUME Holding(t), pc[t] = "fetched" \/ up
                 PROVE  faults' = faults + 1
      BY DEF Spare
    <3>1. CASE pc[t] = "fetched"
      <4>1. got[t] \in KnownAdapters /\ disk[got[t].version] = Weights(got[t])
        BY DEF Holding, ListInv, DirInv, MaybeAdapter, TypeInv, TypeOK, HandlerTypeOK
      <4>2. Loadable(disk[got[t].version])
        BY <4>1, WeightsLoadable
      <4> QED
        BY <1>7, <3>1, <4>2, FailEffect
    <3>2. CASE pc[t] # "fetched"
      <4>1. up /\ pc[t] = "drained"
        BY <3>2 DEF Holding
      <4>2. run = 1
        <5>1. run # 0
          BY <4>1 DEF TypeInv, Progress
        <5> QED
          BY <5>1, Counts
      <4>3. stream[t].meta \in KnownAdapters
        BY <4>1 DEF ListInv, DirInv, MaybeAdapter, TypeInv, TypeOK, HandlerTypeOK
      <4>4. stream[t].meta.run = 1
        <5>1. stream[t].meta.run <= run
          BY <4>1 DEF VersionInv
        <5> QED
          BY <4>2, <4>3, <5>1, BoundsAssumption DEF KnownAdapters
      <4> QED
        BY <1>7, <3>2, <4>1, <4>2, <4>4, FailEffect
    <3> QED
      BY <3>1, <3>2
  <2>3. faults' \in Nat /\ faults' >= faults + Spare(t)
    BY <1>1, <2>1, <2>2 DEF Spare
  <2> QED
    BY <2>1, <2>3, ListQuiet
<1>13. CASE ReceiveError(t)
  <2>1. /\ UNCHANGED <<trainerVars, dirs, loaded>> /\ pc[t] = "stream" /\ Away(t)'
        /\ faults' = faults + 1
    BY <1>13, ReceiveErrorEffect
  <2>2. Spare(t) = 0
    BY <2>1 DEF Spare, Holding
  <2>3. faults' \in Nat /\ faults' >= faults + Spare(t)
    BY <1>1, <2>1, <2>2
  <2> QED
    BY <2>1, <2>3, ListQuiet
<1>8. CASE ApplyOk(t)
  <2>1. /\ UNCHANGED <<up, run, version, served, dirs, disk, faults>>
        /\ pc[t] = "fetched" /\ pc'[t] = "reporting" /\ loaded' = got[t].version
        /\ got[t] # NoAdapter
    BY <1>8, ApplyEffect, NoAdapterUnknown DEF trainerVars
  <2>2. /\ \A i, j \in 1 .. Len(dirs) : i <= j => dirs[i] <= dirs[j]
        /\ Len(dirs) # 0 /\ dirs[Len(dirs)] = loaded'
    BY <2>1 DEF ListInv, DirInv, Holding
  <2>3. DirInv(t)'
    BY <2>1, <2>2 DEF ListInv, DirInv, Holding
  <2>4. \A i \in 1 .. Len(dirs) : dirs[i] <= loaded'
    <3>1. Len(dirs) \in 1 .. Len(dirs)
      BY <1>1, <2>2
    <3> QED
      BY <2>2, <3>1
  <2>5. UnappliedInv(t)'
    <3>1. \A i \in 1 .. Len(dirs) : ~(dirs[i] > loaded')
      <4>1. loaded' \in Nat
        BY <1>1, <2>2
      <4> QED
        BY <1>1, <2>4, <4>1
    <3> QED
      BY <2>1, <3>1 DEF UnappliedInv
  <2> QED
    BY <2>3, <2>5 DEF ListInv
<1>9. CASE WriteStatus(t)
  <2>1. /\ UNCHANGED <<trainerVars, dirs, disk, loaded>> /\ pc[t] = "reporting" /\ Away(t)'
        /\ faults' \in {faults, faults + 1}
    BY <1>9, StatusEffect DEF clientVars
  <2>2. faults' \in Nat /\ faults' >= faults + Spare(t)
    BY <1>1, <1>2, <2>1
  <2> QED
    BY <2>1, <2>2, ListQuiet
<1>10. CASE Reboot
  <2>1. /\ UNCHANGED <<up, run, version, served, faults>> /\ Len(dirs') = 0
        /\ pc'[t] \notin {"stream", "drained", "fetched"}
    BY <1>10, RebootEffect DEF trainerVars, Away
  <2>2. DirInv(t)' /\ UnappliedInv(t)'
    BY <2>1 DEF ListInv, DirInv, UnappliedInv, Holding
  <2> QED
    BY <2>2 DEF ListInv
<1>11. CASE UNCHANGED vars
  <2>1. /\ UNCHANGED <<trainerVars, dirs, disk, loaded, faults>>
        /\ UNCHANGED <<pc[t], stream[t], got[t]>>
    BY <1>11 DEF vars, clientVars, threadVars
  <2>2. faults' \in Nat /\ faults' >= faults
    BY <1>1, <2>1
  <2> QED
    BY <2>1, <2>2, ListQuiet
<1>12. Next => Trainer \/ Reboot \/ Handler(t)
  BY DEF Next, SingleHandler
<1> QED
  BY <1>3, <1>4, <1>5, <1>6, <1>7, <1>8, <1>9, <1>10, <1>11, <1>12, <1>13, ListTrainer
     DEF Handler, Sync

\* With one handler thread, and as long as the trainer was not restarted and
\* fewer errors than kept directories were met, the directory that fetch()
\* returns holds the adapter it is named after: cleanup() did not prune it and
\* nothing overwrote it.
THEOREM OnDiskCorrect ==
  ASSUME SingleHandler
  PROVE  Spec => []PrunedOnlyAfterErrors
<1> DEFINE V == run <= 1 => \A t \in Threads : VersionInv(t)
           L == (run <= 1 /\ faults < KeepLast) => \A t \in Threads : ListInv(t)
<1>1. Init => RunInv /\ V /\ L
  <2>1. Init => RunInv
    BY DEF Init, RunInv
  <2> QED
    BY <2>1, ListInit, VersionInit
<1>2. TypeInv /\ TypeInv' /\ WholeInv /\ RunInv /\ V /\ L /\ [Next]_vars => V' /\ L'
  <2> SUFFICES ASSUME TypeInv, TypeInv', WholeInv, RunInv, V, L, [Next]_vars
               PROVE  V' /\ L'
    OBVIOUS
  <2>1. run' <= 1 => run <= 1
    BY Counts
  <2>2. faults' < KeepLast => faults < KeepLast
    BY Counts, KeepLastAssumption
  <2>3. ASSUME run' <= 1, NEW t \in Threads
        PROVE  VersionInv(t)'
    BY <2>1, <2>3, VersionStep
  <2>4. ASSUME run' <= 1, faults' < KeepLast, NEW t \in Threads
        PROVE  ListInv(t)'
    BY <2>1, <2>2, <2>4, ListStep
  <2> QED
    BY <2>3, <2>4
<1>3. TypeInv /\ L => PrunedOnlyAfterErrors
  BY DEF PrunedOnlyAfterErrors, FetchedIsOnDisk, ListInv, DirInv, Holding, TypeInv, Progress
<1>4. TypeInv /\ WholeInv /\ TypeInv' /\ [Next]_vars => WholeInv'
  BY WholeStep
<1> HIDE DEF V, L
<1> QED
  BY <1>1, <1>2, <1>3, <1>4, WholeInit, TypeInit, TypeStep, RunStep, PTL DEF Spec

-----------------------------------------------------------------------------
(* The abstract hand-off.                                                  *)

\* The highest version published bounds what is served, received and held.
PublishedInv == version <= newest

NewestInv(t) ==
  /\ served.meta # NoAdapter => served.meta.version <= newest
  /\ pc[t] = "stream" => stream[t].meta.version <= newest
  /\ Holding(t) => got[t].version <= newest

\* Nothing is published or held at first.
LEMMA NewestInit ==
  ASSUME Init, NEW t \in Threads
  PROVE  NewestInv(t)
<1>1. newest = 0 /\ served.meta = NoAdapter /\ pc[t] = "idle"
  BY DEF Init, NotServing, NoCalls
<1> QED
  BY <1>1 DEF NewestInv, Holding

\* Steps of the handler after which it receives and holds nothing new.
LEMMA NewestQuiet ==
  ASSUME NEW t \in Threads, NewestInv(t), UNCHANGED trainerVars,
         \/ UNCHANGED <<pc[t], stream[t], got[t]>>
         \/ Away(t)'
         \/ pc[t] = "drained" /\ pc'[t] = "fetched" /\ got'[t] = got[t]
         \/ pc'[t] = "reporting"
  PROVE  NewestInv(t)'
BY DEF NewestInv, Holding, Away, trainerVars

\* A publication may raise the bound, and never lowers it.
LEMMA PublishedStep ==
  ASSUME TypeInv, PublishedInv, [Next]_vars
  PROVE  PublishedInv' /\ newest' \in {newest, newest + 1}
<1>1. version \in Nat /\ newest \in Nat
  BY BoundsAssumption DEF TypeInv, TypeOK, TrainerTypeOK
<1>2. CASE Publish
  <2>1. version' = version + 1 /\ newest' = IF version + 1 > newest THEN version + 1 ELSE newest
    BY <1>2 DEF Publish
  <2> QED
    BY <1>1, <2>1 DEF PublishedInv
<1>3. CASE TrainerStart \/ TrainerCrash
  <2>1. newest' = newest /\ version' \in {0, version}
    BY <1>3 DEF TrainerStart, TrainerCrash
  <2> QED
    BY <1>1, <2>1 DEF PublishedInv
<1>4. CASE ~Trainer
  <2>1. UNCHANGED trainerVars
    BY <1>4 DEF Next, Reboot, Handler, Sync, Handshake, PredictChunk, BeginForward, EndForward,
       Fetch, Receive, ReceiveError, FinishFetch, StreamFail, ApplyOk, ApplyError, WriteStatus, vars
  <2> QED
    BY <2>1 DEF PublishedInv, trainerVars
<1> QED
  BY <1>2, <1>3, <1>4 DEF Trainer

\* What is served, received and held stays below the highest version.
LEMMA NewestTrainer ==
  ASSUME TypeInv, PublishedInv, NEW t \in Threads, NewestInv(t), Trainer
  PROVE  NewestInv(t)'
<1>1. UNCHANGED <<pc[t], stream[t], got[t]>>
  BY DEF Trainer, TrainerStart, Publish, TrainerCrash, threadVars
<1>2. /\ version \in Nat /\ newest \in Nat
      /\ stream[t].meta.version \in Nat /\ got[t].version \in Nat
  <2>1. \A x \in MaybeAdapter : x.version \in Nat
    BY BoundsAssumption DEF MaybeAdapter, KnownAdapters, Versions, NoAdapter
  <2>2. stream[t].meta \in MaybeAdapter /\ got[t] \in MaybeAdapter
    BY DEF TypeInv, TypeOK, HandlerTypeOK
  <2>3. version \in Nat /\ newest \in Nat
    BY BoundsAssumption DEF TypeInv, TypeOK, TrainerTypeOK
  <2> QED
    BY <2>1, <2>2, <2>3
<1>3. newest' \in {newest, newest + 1}
  <2>1. [Next]_vars
    BY DEF Next
  <2> QED
    BY <2>1, PublishedStep
<1>4. served'.meta = NoAdapter \/ served'.meta.version <= newest'
  <2>1. CASE Publish
    <3>1. /\ served'.meta.version = version + 1
          /\ newest' = IF version + 1 > newest THEN version + 1 ELSE newest
      BY <2>1 DEF Publish
    <3> QED
      BY <1>2, <3>1
  <2>2. CASE TrainerStart \/ TrainerCrash
    BY <2>2 DEF TrainerStart, TrainerCrash, NotServing
  <2> QED
    BY <2>1, <2>2 DEF Trainer
<1> QED
  BY <1>1, <1>2, <1>3, <1>4 DEF NewestInv, Holding

\* What is received was served, so it was published.
LEMMA NewestStep ==
  ASSUME SingleHandler, TypeInv, WholeInv, PublishedInv,
         NEW t \in Threads, NewestInv(t), [Next]_vars
  PROVE  NewestInv(t)'
<1>1. CASE Trainer
  BY <1>1, NewestTrainer
<1>2. CASE Handshake(t) \/ PredictChunk(t) \/ BeginForward(t) \/ EndForward(t)
  BY <1>2, CallEffect, NewestQuiet
<1>3. CASE Fetch(t)
  <2>1. UNCHANGED trainerVars
    BY <1>3, FetchEffect
  <2>2. CASE Away(t)'
    BY <2>1, <2>2, NewestQuiet
  <2>3. CASE pc'[t] = "stream" /\ stream'[t].meta = served.meta /\ served.meta # NoAdapter
    BY <2>1, <2>3 DEF NewestInv, Holding, trainerVars
  <2> QED
    BY <1>3, <2>2, <2>3, FetchEffect
<1>4. CASE Receive(t)
  <2>1. /\ UNCHANGED trainerVars /\ pc[t] = "stream" /\ stream'[t].meta = stream[t].meta
        /\ pc'[t] = "stream" \/ (pc'[t] = "drained" /\ got'[t] = stream[t].meta)
    BY <1>4, ReceiveEffect
  <2> QED
    BY <2>1 DEF NewestInv, Holding, trainerVars
<1>5. CASE FinishFetch(t)
  <2>1. /\ UNCHANGED trainerVars /\ pc[t] = "drained" /\ got'[t] = got[t]
        /\ pc'[t] = "fetched" \/ Away(t)'
    BY <1>5, FinishEffect
  <2> QED
    BY <2>1, NewestQuiet
<1>6. CASE ReceiveError(t) \/ StreamFail(t) \/ ApplyError(t)
  <2>1. UNCHANGED trainerVars /\ Away(t)'
    BY <1>6, ReceiveErrorEffect, FailEffect
  <2> QED
    BY <2>1, NewestQuiet
<1>7. CASE ApplyOk(t)
  <2>1. UNCHANGED trainerVars /\ pc'[t] = "reporting"
    BY <1>7, ApplyEffect
  <2> QED
    BY <2>1, NewestQuiet
<1>8. CASE WriteStatus(t)
  <2>1. UNCHANGED trainerVars /\ Away(t)'
    BY <1>8, StatusEffect
  <2> QED
    BY <2>1, NewestQuiet
<1>9. CASE Reboot
  <2>1. UNCHANGED trainerVars /\ Away(t)'
    BY <1>9, RebootEffect
  <2> QED
    BY <2>1, NewestQuiet
<1>10. CASE UNCHANGED vars
  <2>1. UNCHANGED trainerVars /\ UNCHANGED <<pc[t], stream[t], got[t]>>
    BY <1>10 DEF vars, threadVars
  <2> QED
    BY <2>1, NewestQuiet
<1>11. Next => Trainer \/ Reboot \/ Handler(t)
  BY DEF Next, SingleHandler
<1> QED
  BY <1>1, <1>2, <1>3, <1>4, <1>5, <1>6, <1>7, <1>8, <1>9, <1>10, <1>11 DEF Handler, Sync

\* The version the current policy runs on, by what is loaded.
Served == IF policy # 0 /\ policy = injected THEN loaded ELSE 0

\* The system starts where the abstract hand-off does.
LEMMA HandOffInit == Init => HandOff!Init
BY DEF Init, HandOff!Init, Serving

\* A step is a publication, a swap to a newer published version, a handshake, a
\* restart of the server, or invisible.
LEMMA HandOffStep ==
  ASSUME SingleHandler, TypeInv, WholeInv, PublishedInv, \A t \in Threads : NewestInv(t),
         [Next]_vars, Serving = Served, Serving' = Served'
  PROVE  [HandOff!Next]_(HandOff!vars)
<1>1. Serving = Served /\ Serving' = Served'
  OBVIOUS
<1>2. CASE UNCHANGED <<newest, loaded, injected, policy, reboots>>
  BY <1>1, <1>2 DEF HandOff!vars, Served
<1>3. CASE Trainer
  <2>1. UNCHANGED <<loaded, injected, policy, reboots>>
    BY <1>3 DEF Trainer, TrainerStart, Publish, TrainerCrash, clientVars, serverVars
  <2>2. CASE newest' = newest
    BY <1>2, <2>1, <2>2
  <2>3. CASE newest' = newest + 1
    BY <1>1, <2>1, <2>3 DEF HandOff!Next, HandOff!Publish, Served
  <2>4. newest' \in {newest, newest + 1}
    BY PublishedStep
  <2> QED
    BY <2>2, <2>3, <2>4
<1>4. ASSUME NEW t \in Threads, Handler(t)
      PROVE  [HandOff!Next]_(HandOff!vars)
  <2>1. CASE PredictChunk(t) \/ BeginForward(t) \/ EndForward(t)
    BY <1>2, <2>1 DEF PredictChunk, BeginForward, EndForward, trainerVars, clientVars, serverVars
  <2>2. CASE Handshake(t)
    <3>1. /\ UNCHANGED <<newest, injected, reboots>> /\ policy' = policy + 1
      BY <2>2 DEF Handshake, trainerVars
    <3>2. injected <= policy /\ injected \in Nat /\ policy \in Nat
      BY BoundsAssumption DEF WholeInv, InjectedInv, TypeInv, TypeOK, ServerTypeOK
    <3>3. Served' = 0
      BY <3>1, <3>2 DEF Served
    <3> QED
      BY <1>1, <3>1, <3>3 DEF HandOff!Next, HandOff!Reconnect
  <2>3. CASE Fetch(t)
    BY <1>2, <2>3, FetchEffect DEF trainerVars, clientVars, serverVars
  <2>4. CASE Receive(t) \/ ReceiveError(t)
    BY <1>2, <2>4, ReceiveEffect, ReceiveErrorEffect DEF trainerVars, serverVars
  <2>5. CASE FinishFetch(t)
    BY <1>2, <2>5, FinishEffect DEF trainerVars, serverVars
  <2>6. CASE StreamFail(t) \/ ApplyError(t)
    BY <1>2, <2>6, FailEffect DEF trainerVars, clientVars, serverVars
  <2>7. CASE WriteStatus(t)
    BY <1>2, <2>7, StatusEffect DEF trainerVars, clientVars
  <2>8. CASE ApplyOk(t)
    <3>1. /\ UNCHANGED <<newest, policy, reboots>> /\ loaded' = got[t].version
          /\ got[t].version > loaded /\ got[t] \in KnownAdapters /\ pc[t] = "fetched"
          /\ injected' = Target /\ Target \in Policies
      BY <2>8, ApplyEffect DEF trainerVars
    <3>2. got[t].version <= newest
      BY <3>1, NoAdapterUnknown DEF NewestInv, Holding
    <3>3. loaded \in Nat /\ newest \in Nat /\ got[t].version \in Nat
      BY <3>1, BoundsAssumption DEF TypeInv, TypeOK, ClientTypeOK, TrainerTypeOK, KnownAdapters,
         Versions
    <3>4. CASE policy = Target
      <4>1. Served' = got[t].version
        BY <3>1, <3>4 DEF Served, Policies
      <4>2. Served \in {0, loaded}
        BY DEF Served
      <4>3. Served' \in Served + 1 .. newest
        BY <3>1, <3>2, <3>3, <4>1, <4>2
      <4> QED
        BY <1>1, <3>1, <4>3 DEF HandOff!Next, HandOff!Swap
    <3>5. CASE policy # Target
      <4>1. injected # 0 /\ injected' = injected
        BY <3>1, <3>5 DEF Target
      <4>2. Served = 0 /\ Served' = 0
        BY <3>1, <3>5, <4>1 DEF Served, Target
      <4> QED
        BY <1>1, <3>1, <4>2 DEF HandOff!vars
    <3> QED
      BY <3>4, <3>5
  <2> QED
    BY <1>4, <2>1, <2>2, <2>3, <2>4, <2>5, <2>6, <2>7, <2>8 DEF Handler, Sync
<1>5. CASE Reboot
  <2>1. UNCHANGED newest /\ policy' = 0 /\ reboots' = reboots + 1
    BY <1>5, RebootEffect DEF trainerVars
  <2>2. Served' = 0
    BY <2>1 DEF Served
  <2> QED
    BY <1>1, <2>1, <2>2 DEF HandOff!Next, HandOff!Restart
<1>6. CASE UNCHANGED vars
  BY <1>2, <1>6 DEF vars, trainerVars, clientVars, serverVars
<1> QED
  BY <1>3, <1>4, <1>5, <1>6 DEF Next

\* With one handler thread, however fetches and loads fail, the robot connects
\* again and either process restarts, the system implements the abstract
\* hand-off: the policy runs on one published adapter and, from one handshake
\* to the next, only moves forward.
THEOREM HandOffImplemented ==
  ASSUME SingleHandler
  PROVE  Spec => ImplementsHandOff
<1> DEFINE Inv == \A t \in Threads : NewestInv(t)
           Run == Serving = Served
<1>1. Init => PublishedInv /\ Inv /\ ReportInv
  <2>1. Init => ReportInv
    BY DEF Init, ReportInv, NoAdapter
  <2>2. Init => PublishedInv
    BY DEF Init, PublishedInv
  <2> QED
    BY <2>1, <2>2, NewestInit
<1>2. TypeInv /\ WholeInv /\ PublishedInv /\ Inv /\ [Next]_vars => Inv'
  <2> SUFFICES ASSUME TypeInv, WholeInv, PublishedInv, Inv, [Next]_vars
               PROVE  \A t \in Threads : NewestInv(t)'
    OBVIOUS
  <2> QED
    BY NewestStep
<1>3. TypeInv /\ WholeInv /\ ReportInv => Run
  BY ServingLoaded DEF Served
<1>4. TypeInv /\ WholeInv /\ ReportInv /\ [Next]_vars => ReportInv'
  BY ReportStep
<1>5. TypeInv /\ WholeInv /\ TypeInv' /\ [Next]_vars => WholeInv'
  BY WholeStep
<1>7. TypeInv /\ PublishedInv /\ [Next]_vars => PublishedInv'
  BY PublishedStep
<1>6. TypeInv /\ WholeInv /\ PublishedInv /\ Inv /\ Run /\ Run' /\ [Next]_vars
        => [HandOff!Next]_(HandOff!vars)
  BY HandOffStep
<1> HIDE DEF Inv, Run
<1> QED
  BY <1>1, <1>2, <1>3, <1>4, <1>5, <1>6, <1>7, HandOffInit, WholeInit, TypeInit, TypeStep, PTL
     DEF Spec, ImplementsHandOff, HandOff!Spec
=============================================================================
