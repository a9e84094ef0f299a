---------------------------- MODULE AdapterSync ----------------------------
(***************************************************************************)
(* The adapter hand-off between the trainer and the robot's policy server  *)
(* (common/transport/*, common/policy_server.py).                          *)
(*                                                                         *)
(* The trainer keeps one "latest" adapter in memory and answers            *)
(* GetLatestAdapter.  The policy server runs its RPCs on a thread pool:    *)
(* each handler thread that serves a handshake or an action chunk pulls    *)
(* the latest adapter through the one shared AdapterClient and swaps it    *)
(* into the policy that its forward passes run on.                         *)
(*                                                                         *)
(* A step is what one thread does between two points at which another      *)
(* thread, or the other process, can act on the same state.                *)
(***************************************************************************)
EXTENDS AdapterWire

CONSTANTS
  Threads,      \* gRPC handler threads of the policy server
  NoThread,     \* the holder of a free _adapter_lock
  ReloadOn,     \* config.reload_on
  MaxRuns,      \* bound: trainer processes, one after the other
  MaxVersion,   \* bound: adapters one trainer process publishes
  MaxPolicies,  \* bound: handshakes, each of which loads a base policy
  MaxFaults,    \* bound: trainer crashes and errors in one behaviour
  MaxReboots    \* bound: crashes of the policy server

ASSUME NoThreadAssumption == NoThread \notin Threads
ASSUME ReloadOnAssumption == ReloadOn \in {"chunk", "handshake"}
ASSUME BoundsAssumption ==
  /\ MaxRuns \in Nat
  /\ MaxVersion \in Nat
  /\ MaxPolicies \in Nat
  /\ MaxFaults \in Nat
  /\ MaxReboots \in Nat

VARIABLES
  \* the trainer process
  up,              \* is it serving?
  run,             \* which trainer process this is
  version,         \* adapters it has published
  served,          \* _AdapterServicer: _latest and _weights
  newest,          \* history: the highest version any process published
  \* AdapterClient and its AdapterAssembler
  asm,             \* _meta and _buf
  dirs,            \* _dirs, by version number
  disk,            \* the weights file in each version's directory
  loaded,          \* _loaded_version, 0 for None
  \* LoRAPolicyServer and AdapterApplier
  policy,          \* which policy object self.policy is, 0 for None
  injected,        \* the policy object peft_model wraps, 0 for None
  weights,         \* the LoRA weights each policy object runs with
  adapterVersion,  \* self.adapter_version
  status,          \* the version in the status file, 0 when there is none
  lock,            \* _adapter_lock
  reboots,         \* policy server processes before this one
  \* the handler threads
  pc, call, stream, got,
  faults           \* trainer crashes and errors so far

trainerVars == <<up, run, version, served, newest>>
clientVars == <<asm, dirs, disk, loaded>>
serverVars == <<policy, injected, weights, adapterVersion, status, lock, reboots>>
threadVars == <<pc, call, stream, got>>
vars == <<trainerVars, clientVars, serverVars, threadVars, faults>>

Versions == 1 .. MaxVersion
Policies == 1 .. MaxPolicies

NotServing == [meta |-> NoAdapter, weights |-> <<>>]
NoStream == [meta |-> NoAdapter, weights |-> <<>>, next |-> 1]

\* No handler of the pool is serving a call.
NoCalls(where, kind, streams, fetched) ==
  /\ where = [t \in Threads |-> "idle"]
  /\ kind = [t \in Threads |-> "chunk"]
  /\ streams = [t \in Threads |-> NoStream]
  /\ fetched = [t \in Threads |-> NoAdapter]

Init ==
  /\ up = FALSE /\ run = 0 /\ version = 0 /\ served = NotServing /\ newest = 0
  /\ asm = EmptyAssembler /\ dirs = <<>> /\ loaded = 0
  /\ disk = [v \in Versions |-> <<>>]
  /\ policy = 0 /\ injected = 0 /\ adapterVersion = NoAdapter
  /\ weights = [p \in Policies |-> <<>>]
  /\ status = 0 /\ lock = NoThread /\ reboots = 0
  /\ NoCalls(pc, call, stream, got)
  /\ faults = 0

Fault == faults < MaxFaults /\ faults' = faults + 1

-----------------------------------------------------------------------------
(* The trainer.                                                            *)

\* A trainer process starts: its publisher serves nothing yet, and versions
\* start again from 1.
TrainerStart ==
  /\ ~up /\ run < MaxRuns
  /\ up' = TRUE /\ run' = run + 1 /\ version' = 0 /\ served' = NotServing
  /\ UNCHANGED <<newest, clientVars, serverVars, threadVars, faults>>

\* Mutant: the version is incremented before the adapter is published, too.
PublishSkips ==
  /\ up /\ version < MaxVersion
  /\ version' = version + 1
  /\ LET a == [run |-> run, version |-> version + 2]
     IN  /\ served' = [meta |-> a, weights |-> Weights(a)]
         /\ newest' = IF a.version > newest THEN a.version ELSE newest
  /\ UNCHANGED <<up, run, clientVars, serverVars, threadVars, faults>>

\* publish: serialize the adapter, then swap the served one under the lock.
Publish ==
  /\ up /\ version < MaxVersion
  /\ version' = version + 1
  /\ LET a == [run |-> run, version |-> version + 1]
     IN  /\ served' = [meta |-> a, weights |-> Weights(a)]
         /\ newest' = IF a.version > newest THEN a.version ELSE newest
  /\ UNCHANGED <<up, run, clientVars, serverVars, threadVars, faults>>

TrainerCrash ==
  /\ up /\ Fault
  /\ up' = FALSE /\ served' = NotServing
  /\ UNCHANGED <<run, version, newest, clientVars, serverVars, threadVars>>

-----------------------------------------------------------------------------
(* The policy server's RPCs.                                               *)

\* SendPolicyInstructions, up to _sync_adapter: the stock handler loads a
\* fresh base policy.
Handshake(t) ==
  /\ pc[t] = "idle" /\ policy < MaxPolicies
  /\ policy' = policy + 1
  /\ call' = [call EXCEPT ![t] = "handshake"]
  /\ pc' = [pc EXCEPT ![t] = "sync"]
  /\ UNCHANGED <<trainerVars, clientVars, injected, weights, adapterVersion,
                 status, lock, reboots, stream, got, faults>>

\* _predict_action_chunk, up to _sync_adapter when that is called.
PredictChunk(t) ==
  /\ pc[t] = "idle" /\ policy # 0
  /\ call' = [call EXCEPT ![t] = "chunk"]
  /\ pc' = [pc EXCEPT ![t] = IF ReloadOn = "chunk" THEN "sync" ELSE "ready"]
  /\ UNCHANGED <<trainerVars, clientVars, serverVars, stream, got, faults>>

\* Where a handler goes when _sync_adapter returns.
After(t) == IF call[t] = "chunk" THEN "ready" ELSE "idle"

\* The forward pass of the stock _predict_action_chunk.
BeginForward(t) ==
  /\ pc[t] = "ready"
  /\ pc' = [pc EXCEPT ![t] = "forward"]
  /\ UNCHANGED <<trainerVars, clientVars, serverVars, call, stream, got, faults>>

EndForward(t) ==
  /\ pc[t] = "forward"
  /\ pc' = [pc EXCEPT ![t] = "idle"]
  /\ UNCHANGED <<trainerVars, clientVars, serverVars, call, stream, got, faults>>

-----------------------------------------------------------------------------
(* AdapterClient.fetch.                                                    *)

\* Mutant: the version comparison of GetLatestAdapter is off by one.
NotOlderThan(have) == up /\ served.meta # NoAdapter /\ served.meta.version >= have

\* GetLatestAdapter with have_version = have streams what is served now.
NewerThan(have) == up /\ served.meta # NoAdapter /\ served.meta.version > have

\* The request.  A trainer that is down answers with an RpcError, one with
\* nothing newer with an empty stream: fetch returns None either way.
Fetch(t) ==
  /\ pc[t] = "sync"
  /\ IF NewerThan(loaded)
       THEN /\ pc' = [pc EXCEPT ![t] = "stream"]
            /\ stream' = [stream EXCEPT ![t] =
                 [meta |-> served.meta, weights |-> served.weights, next |-> 1]]
       ELSE /\ pc' = [pc EXCEPT ![t] = After(t)]
            /\ UNCHANGED stream
  /\ UNCHANGED <<trainerVars, clientVars, serverVars, call, got, faults>>

\* Mutant: the chunks are cut from the weights being served at the moment.
LiveChunk(t) ==
  LET s == stream[t]
      w == IF served.weights = <<>> THEN s.weights ELSE served.weights
  IN  Chunk(s.meta, w, s.next)

\* The next chunk is cut from the snapshot that the request took.
StreamChunk(t) == Chunk(stream[t].meta, stream[t].weights, stream[t].next)

\* One chunk of the stream goes through the assembler.
Receive(t) ==
  /\ pc[t] = "stream"
  /\ LET c    == StreamChunk(t)
         done == Completes(asm, c)
     IN  /\ asm' = Add(asm, c)
         /\ stream' = [stream EXCEPT ![t].next = @ + 1]
         /\ got' = [got EXCEPT ![t] = done]
         /\ IF done # NoAdapter
              THEN /\ disk' = Materialize(disk, done.version, Extend(asm, c).buf)
                   /\ dirs' = Append(dirs, done.version)
              ELSE UNCHANGED <<disk, dirs>>
         /\ pc' = [pc EXCEPT ![t] = IF c.last THEN "drained" ELSE "stream"]
  /\ UNCHANGED <<trainerVars, loaded, serverVars, call, faults>>

\* An OSError while the completed adapter is written: its directory, its
\* config or a part of its weights may be there.  Neither fetch nor
\* _sync_adapter catches it, so the call fails; the assembler keeps what it
\* received, and a handshake has replaced the policy already.
ReceiveError(t) ==
  /\ pc[t] = "stream" /\ Completes(asm, StreamChunk(t)) # NoAdapter /\ Fault
  /\ LET x == Extend(asm, StreamChunk(t))
     IN  /\ asm' = x
         /\ disk' \in {disk} \cup {Materialize(disk, x.meta.version, SubSeq(x.buf, 1, k)) :
                                   k \in 0 .. Len(x.buf) - 1}
  /\ stream' = [stream EXCEPT ![t] = NoStream]
  /\ got' = [got EXCEPT ![t] = NoAdapter]
  /\ pc' = [pc EXCEPT ![t] = "idle"]
  /\ UNCHANGED <<trainerVars, dirs, loaded, serverVars, call>>

\* The stream ended well: prune old directories, return what was received.
FinishFetch(t) ==
  /\ pc[t] = "drained"
  /\ stream' = [stream EXCEPT ![t] = NoStream]
  /\ IF got[t] # NoAdapter
       THEN /\ disk' = Cleanup(disk, dirs)
            /\ dirs' = Kept(dirs)
            /\ pc' = [pc EXCEPT ![t] = "fetched"]
       ELSE /\ pc' = [pc EXCEPT ![t] = After(t)]
            /\ UNCHANGED <<disk, dirs>>
  /\ UNCHANGED <<trainerVars, asm, loaded, serverVars, call, got, faults>>

\* An RpcError, before the end of the stream or in place of it: fetch returns
\* None, and the assembler and its directories stay as they are.  The crash
\* of the trainer that was streaming has been counted already.
StreamFail(t) ==
  /\ pc[t] \in {"stream", "drained"}
  /\ IF up /\ stream[t].meta.run = run THEN Fault ELSE UNCHANGED faults
  /\ pc' = [pc EXCEPT ![t] = After(t)]
  /\ stream' = [stream EXCEPT ![t] = NoStream]
  /\ got' = [got EXCEPT ![t] = NoAdapter]
  /\ UNCHANGED <<trainerVars, clientVars, serverVars, call>>

-----------------------------------------------------------------------------
(* The rest of _sync_adapter, under _adapter_lock.                         *)

\* The policy object AdapterApplier.apply writes to: the first adapter is
\* injected into self.policy, later ones go to the model injected then.
Target == IF injected = 0 THEN policy ELSE injected

\* Mutant: no lock is taken.
LockIgnored == TRUE

LockIsFree == lock = NoThread

ApplyOk(t) ==
  /\ pc[t] = "fetched" /\ LockIsFree
  /\ Loadable(disk[got[t].version])
  /\ weights' = [weights EXCEPT ![Target] = disk[got[t].version]]
  /\ injected' = Target
  /\ loaded' = got[t].version
  /\ adapterVersion' = got[t]
  /\ lock' = t
  /\ pc' = [pc EXCEPT ![t] = "reporting"]
  /\ UNCHANGED <<trainerVars, asm, dirs, disk, policy, status, reboots, call, stream,
                 got, faults>>

\* Mutant: mark_loaded does not depend on the load.
ApplyErrorMarks(t) ==
  /\ pc[t] = "fetched" /\ LockIsFree
  /\ IF Loadable(disk[got[t].version]) THEN Fault ELSE UNCHANGED faults
  /\ loaded' = got[t].version /\ adapterVersion' = got[t]
  /\ pc' = [pc EXCEPT ![t] = After(t)]
  /\ got' = [got EXCEPT ![t] = NoAdapter]
  /\ UNCHANGED <<trainerVars, asm, dirs, disk, policy, injected, weights, status,
                 lock, reboots, call, stream>>

\* An exception while the adapter is loaded: always when its files are not
\* there or not readable, and possibly for reasons of its own.
ApplyError(t) ==
  /\ pc[t] = "fetched" /\ LockIsFree
  /\ IF Loadable(disk[got[t].version]) THEN Fault ELSE UNCHANGED faults
  /\ pc' = [pc EXCEPT ![t] = After(t)]
  /\ got' = [got EXCEPT ![t] = NoAdapter]
  /\ UNCHANGED <<trainerVars, clientVars, serverVars, call, stream>>

\* The status file is replaced as a whole, or an OSError met; then the lock is
\* released.
WriteStatus(t) ==
  /\ pc[t] = "reporting"
  /\ \/ status' = got[t].version /\ UNCHANGED faults
     \/ UNCHANGED status /\ Fault
  /\ lock' = NoThread
  /\ pc' = [pc EXCEPT ![t] = After(t)]
  /\ got' = [got EXCEPT ![t] = NoAdapter]
  /\ UNCHANGED <<trainerVars, clientVars, policy, injected, weights, adapterVersion,
                 reboots, call, stream>>

-----------------------------------------------------------------------------
(* The policy server ends and is started again.                            *)

\* Mutant: a status is written at the start, as if the numbering began there.
RebootAnnounces ==
  /\ reboots < MaxReboots /\ reboots' = reboots + 1
  /\ asm' = EmptyAssembler /\ dirs' = <<>> /\ loaded' = 0
  /\ policy' = 0 /\ injected' = 0 /\ adapterVersion' = NoAdapter
  /\ weights' = [p \in Policies |-> <<>>]
  /\ lock' = NoThread /\ status' = 1
  /\ NoCalls(pc', call', stream', got')
  /\ UNCHANGED <<trainerVars, disk, faults>>

\* All that was in memory is gone, and the calls being served with it.  The
\* directories of received adapters (their root is a fixed path) and the
\* status file stay as they are.
Reboot ==
  /\ reboots < MaxReboots /\ reboots' = reboots + 1
  /\ asm' = EmptyAssembler /\ dirs' = <<>> /\ loaded' = 0
  /\ policy' = 0 /\ injected' = 0 /\ adapterVersion' = NoAdapter
  /\ weights' = [p \in Policies |-> <<>>]
  /\ lock' = NoThread
  /\ NoCalls(pc', call', stream', got')
  /\ UNCHANGED <<trainerVars, disk, status, faults>>

-----------------------------------------------------------------------------
Sync(t) ==
  \/ Fetch(t) \/ Receive(t) \/ ReceiveError(t) \/ FinishFetch(t) \/ StreamFail(t)
  \/ ApplyOk(t) \/ ApplyError(t) \/ WriteStatus(t)

Handler(t) ==
  \/ Handshake(t) \/ PredictChunk(t) \/ BeginForward(t) \/ EndForward(t)
  \/ Sync(t)

Trainer == TrainerStart \/ Publish \/ TrainerCrash

Next == Trainer \/ Reboot \/ \E t \in Threads : Handler(t)

Spec == Init /\ [][Next]_vars

\* A handler thread that can run does, and the robot keeps asking for action
\* chunks.  Nothing makes the trainer start, publish or restart.
Fairness == \A t \in Threads : WF_vars(Handler(t))

FairSpec == Spec /\ Fairness

-----------------------------------------------------------------------------
(* Properties.                                                             *)

KnownAdapters == [run : 1 .. MaxRuns, version : Versions]
MaybeAdapter == KnownAdapters \cup {NoAdapter}
Bytes == Seq([of : KnownAdapters, index : 1 .. NChunks])

TrainerTypeOK ==
  /\ up \in BOOLEAN /\ run \in 0 .. MaxRuns /\ version \in 0 .. MaxVersion
  /\ served \in [meta : MaybeAdapter, weights : Bytes]
  /\ newest \in 0 .. MaxVersion

ClientTypeOK ==
  /\ asm \in [meta : MaybeAdapter, buf : Bytes]
  /\ dirs \in Seq(Versions) /\ disk \in [Versions -> Bytes]
  /\ loaded \in 0 .. MaxVersion

ServerTypeOK ==
  /\ policy \in 0 .. MaxPolicies /\ injected \in 0 .. MaxPolicies
  /\ weights \in [Policies -> Bytes]
  /\ adapterVersion \in MaybeAdapter
  /\ status \in 0 .. MaxVersion /\ lock \in Threads \cup {NoThread}
  /\ reboots \in 0 .. MaxReboots

HandlerTypeOK ==
  /\ pc \in [Threads -> {"idle", "sync", "stream", "drained", "fetched",
                         "reporting", "ready", "forward"}]
  /\ call \in [Threads -> {"handshake", "chunk"}]
  /\ stream \in [Threads -> [meta : MaybeAdapter, weights : Bytes,
                             next : 1 .. NChunks + 1]]
  /\ got \in [Threads -> MaybeAdapter]

\* The type invariant: every adapter, version number and byte that the
\* trainer, the client and the server hold is one that was published.
TypeOK ==
  /\ TrainerTypeOK /\ ClientTypeOK /\ ServerTypeOK /\ HandlerTypeOK
  /\ faults \in 0 .. MaxFaults

\* "A partial adapter is never applied" (policy_server.py:13): the LoRA
\* weights of every policy object are none or all of one published adapter,
\* whatever streams were cut short before.
AppliedIsWhole == \A p \in Policies : weights[p] = <<>> \/ Whole(weights[p])

\* "Each completed adapter gets its own temp dir; cleanup prunes old ones"
\* (wire.py:106): what fetch returns is on disk, neither pruned by cleanup nor
\* overwritten.  (The directory is named after the version, so a version that
\* was received KeepLast times before is pruned at its next reception.)
FetchedIsOnDisk ==
  \A t \in Threads : pc[t] = "fetched" => disk[got[t].version] = Weights(got[t])

\* It takes KeepLast errors to get there: with fewer, whatever they were, what
\* the one handler fetches from the one trainer process is on disk.
PrunedOnlyAfterErrors == (run <= 1 /\ faults < KeepLast) => FetchedIsOnDisk

Syncing(t) == pc[t] \in {"sync", "stream", "drained", "fetched", "reporting"}

\* The adapter the server reports (self.adapter_version) is the one the
\* current policy object runs with, whenever no handler is inside
\* _sync_adapter: SendPolicyInstructions "load[s] the base policy, then
\* attach[es] the current adapter" (policy_server.py:75).
ServesWhatItReports ==
  (adapterVersion # NoAdapter /\ \A t \in Threads : ~Syncing(t)) =>
    weights[policy] = Weights(adapterVersion)

\* "Apply it if the trainer has a newer one" (policy_server.py:87): no swap
\* goes back to an adapter the server had already moved past, and none
\* happens without being recorded in _loaded_version, in the life of one
\* server process.
SwapOnlyNewer == [][(weights' # weights /\ ~Reboot) => loaded' > loaded]_vars

\* The status file shows the loaded version whenever no swap is in progress,
\* as long as no error was met: swap, mark_loaded and write_policy_status are
\* one critical section, so two handlers cannot leave an older version behind.
\* A restarted server that has loaded nothing yet leaves the file of the
\* process before it.
StatusAgrees == (lock = NoThread /\ faults = 0 /\ loaded # 0) => status = loaded

\* The robot ends up on the newest adapter: once publishing has stopped, with
\* the trainer still serving, the current policy runs the last adapter
\* published, in spite of failed fetches, failed loads, restarts of the policy
\* server and chunk requests that found nothing new.
EventuallyServesLatest ==
  <>[]((up /\ served.meta # NoAdapter) => (policy # 0 /\ weights[policy] = served.weights))

\* The version the current policy runs on; out of range if it runs on bytes
\* of no single adapter.
Serving ==
  IF policy = 0 \/ weights[policy] = <<>> THEN 0
  ELSE IF Whole(weights[policy]) THEN weights[policy][1].of.version
  ELSE MaxVersion + 1

HandOff == INSTANCE AdapterHandOff WITH
  latest <- newest, serving <- Serving, sessions <- policy, restarts <- reboots

\* Chunks, directories, retries, locks and restarts of either process
\* implement the abstract hand-off: the robot's policy is always one published
\* adapter and, from one handshake to the next, never an older one than before
\* (one handler thread).
ImplementsHandOff == HandOff!Spec
=============================================================================
