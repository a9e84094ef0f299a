-------------------------- MODULE ProvenanceProofs --------------------------
(***************************************************************************)
(* Theorems about Provenance, for one handler thread, for every number of  *)
(* episodes, rows, versions, handshakes, faults and restarts of the        *)
(* server, as long as the trainer was not restarted.                       *)
(*                                                                         *)
(* Every behaviour with episodes is a behaviour of AdapterSync, so its     *)
(* invariants are at hand.  What is added: the status file only grows, so  *)
(* it bounds the rows written from it, in order; and without an error it   *)
(* bounds what every forward pass so far ran on.                           *)
(***************************************************************************)
EXTENDS Provenance, AdapterHandOffProofs

-----------------------------------------------------------------------------
(* The server under the episodes.                                          *)

\* A step of the composition is a step of the server and trainer, or theirs to ignore.
LEMMA ServerStep == [EpisodeNext]_allVars => [Next]_vars
<1>1. ASSUME NEW t \in Threads, Forward(t)
      PROVE  Next
  BY <1>1 DEF Forward, Next, Handler
<1>2. ServerOnly => Next
  BY DEF ServerOnly, Next, Handler
<1>3. BeginEpisode \/ EndEpisode \/ (\E i \in DOMAIN episodes : Convert(i)) => UNCHANGED vars
  BY DEF BeginEpisode, EndEpisode, Convert
<1>4. UNCHANGED allVars => UNCHANGED vars
  BY DEF allVars
<1> QED
  BY <1>1, <1>2, <1>3, <1>4 DEF EpisodeNext

\* With episodes or without, the server behaves as AdapterSync says.
LEMMA ServerSpec == EpisodeSpec => Spec
<1>1. EpisodeInit => Init
  BY DEF EpisodeInit
<1> QED
  BY <1>1, ServerStep, PTL DEF EpisodeSpec, Spec

\* The invariants of AdapterSync that the theorems below need.
ServerInv ==
  /\ TypeInv /\ WholeInv /\ LockInv /\ ReportInv /\ RunInv
  /\ run <= 1 => \A t \in Threads : VersionInv(t)

\* The invariants of AdapterSync together, for one handler.
LEMMA ServerInvariant ==
  ASSUME SingleHandler
  PROVE  Spec => []ServerInv
<1>1. Init => ServerInv
  <2> SUFFICES ASSUME Init PROVE ServerInv
    OBVIOUS
  <2>1. LockInv
    BY NoThreadAssumption DEF Init, NoCalls, LockInv, StatusAgrees
  <2>2. ReportInv /\ RunInv
    BY DEF Init, ReportInv, RunInv, NoAdapter
  <2> QED
    BY <2>1, <2>2, TypeInit, WholeInit, VersionInit DEF ServerInv
<1>2. ServerInv /\ [Next]_vars => ServerInv'
  <2> SUFFICES ASSUME ServerInv, [Next]_vars
               PROVE  ServerInv'
    OBVIOUS
  <2> USE DEF ServerInv
  <2>1. TypeInv'
    BY TypeStep
  <2>2. WholeInv'
    BY <2>1, WholeStep
  <2>3. LockInv' /\ RunInv'
    BY LockStep, RunStep
  <2>4. ReportInv'
    BY ReportStep
  <2>5. run' <= 1 => \A t \in Threads : VersionInv(t)'
    <3>1. run' <= 1 => run <= 1
      BY Counts
    <3> QED
      BY <3>1, VersionStep
  <2> QED
    BY <2>1, <2>2, <2>3, <2>4, <2>5
<1> QED
  BY <1>1, <1>2, PTL DEF Spec

\* The status file only goes up, and errors are counted.
LEMMA StatusGrows ==
  ASSUME SingleHandler, ServerInv, [Next]_vars, run' <= 1
  PROVE  /\ status \in Nat /\ faults \in Nat
         /\ status' \in Nat /\ status' >= status /\ (faults' = 0 => faults = 0)
<1>1. status \in Nat /\ faults \in Nat /\ version \in Nat
  BY Numbers DEF ServerInv
<1>2. CASE status' = status /\ faults' \in {faults, faults + 1}
  BY <1>1, <1>2
<1>3. CASE Trainer
  BY <1>2, <1>3 DEF Trainer, TrainerStart, Publish, TrainerCrash, Fault, serverVars
<1>4. CASE Reboot \/ UNCHANGED vars
  BY <1>2, <1>4 DEF Reboot, vars, serverVars
<1>5. ASSUME NEW t \in Threads, Handler(t)
      PROVE  /\ status' \in Nat /\ status' >= status /\ (faults' = 0 => faults = 0)
  <2>1. CASE WriteStatus(t)
    <3>1. /\ pc[t] = "reporting"
          /\ \/ status' = got[t].version /\ faults' = faults
             \/ status' = status /\ faults' = faults + 1
      BY <2>1, StatusEffect DEF ServerInv
    <3>2. got[t].version \in status .. version
      <4>1. run <= 1
        BY Counts DEF ServerInv
      <4> QED
        BY <3>1, <4>1 DEF ServerInv, VersionInv
    <3> QED
      BY <1>1, <3>1, <3>2
  <2>2. CASE ~WriteStatus(t)
    <3>1. status' = status
      BY <1>5, <2>2 DEF Handler, Sync, Handshake, PredictChunk, BeginForward, EndForward,
         Fetch, Receive, ReceiveError, FinishFetch, StreamFail, ApplyOk, ApplyError, serverVars
    <3>2. faults' \in {faults, faults + 1}
      BY <1>5, <2>2 DEF Handler, Sync, Handshake, PredictChunk, BeginForward, EndForward,
         Fetch, Receive, ReceiveError, FinishFetch, StreamFail, ApplyOk, ApplyError, Fault
    <3> QED
      BY <1>2, <3>1, <3>2
  <2> QED
    BY <2>1, <2>2
<1> QED
  BY <1>1, <1>3, <1>4, <1>5 DEF Next

\* A forward pass runs on the base weights or, without an error so far, on the
\* version that the status file shows.
LEMMA ForwardVersion ==
  ASSUME SingleHandler, ServerInv, NEW t \in Threads, BeginForward(t)
  PROVE  /\ Serving \in Nat
         /\ faults = 0 => Serving <= status
<1>1. Serving \in {0, loaded} /\ loaded \in Nat /\ status \in Nat
  <2>1. Serving \in {0, loaded}
    BY ServingLoaded DEF ServerInv
  <2> QED
    BY <2>1, Numbers DEF ServerInv
<1>2. pc[t] = "ready"
  BY DEF BeginForward
<1>3. lock = NoThread
  <2>1. lock \in Threads \cup {NoThread}
    BY DEF ServerInv, TypeInv, TypeOK, ServerTypeOK
  <2>2. lock # t
    BY <1>2 DEF ServerInv, LockInv
  <2> QED
    BY <2>1, <2>2 DEF SingleHandler
<1>4. (faults = 0 /\ loaded # 0) => status = loaded
  BY <1>3 DEF ServerInv, LockInv, StatusAgrees
<1> QED
  BY <1>1, <1>4

-----------------------------------------------------------------------------
(* Episodes and rows.                                                      *)

Episode == [ran : SUBSET Nat, tag : Nat]
Row == [episode : Nat, version : Nat]

EpisodeTypes ==
  /\ ran \in SUBSET Nat
  /\ episodes \in Seq(Episode)
  /\ rows \in Seq(Row)
  /\ \A i \in DOMAIN rows : rows[i].episode \in DOMAIN episodes

\* What an episode and a row hold.
LEMMA Elements ==
  ASSUME EpisodeTypes
  PROVE  /\ \A k \in DOMAIN episodes : episodes[k].ran \in SUBSET Nat /\ episodes[k].tag \in Nat
         /\ \A k \in DOMAIN rows : rows[k].version \in Nat
         /\ DOMAIN episodes = 1 .. Len(episodes) /\ Len(episodes) \in Nat
<1>1. /\ DOMAIN episodes = 1 .. Len(episodes) /\ Len(episodes) \in Nat
      /\ DOMAIN rows = 1 .. Len(rows)
  BY DEF EpisodeTypes
<1>2. \A k \in DOMAIN episodes : episodes[k] \in Episode
  BY <1>1, ElementOfSeq DEF EpisodeTypes
<1>3. \A k \in DOMAIN rows : rows[k] \in Row
  BY <1>1, ElementOfSeq DEF EpisodeTypes
<1> QED
  BY <1>1, <1>2, <1>3 DEF Episode, Row

\* Rows with the status file's version are in order, and not above it.
RowsInv ==
  /\ \A i \in DOMAIN rows : FromStatus(rows[i]) => rows[i].version <= status
  /\ RowsInVersionOrder

\* Without an error, no forward pass of an episode went above the status file.
RanInv ==
  faults = 0 =>
    /\ \A v \in ran : v <= status
    /\ \A k \in DOMAIN episodes : \A v \in episodes[k].ran : v <= status

\* What holds as long as the trainer was not restarted.
RecordInv == RowsInv /\ RanInv /\ RowNeverOlder

EpisodeInv == EpisodeTypes /\ (run <= 1 => RecordInv)

\* There are no episodes and no rows at first.
LEMMA EpisodeInvInit == EpisodeInit => EpisodeInv
BY DEF EpisodeInit, EpisodeInv, EpisodeTypes, RecordInv, RowsInv, RanInv, RowNeverOlder,
   RowsInVersionOrder

\* A step that writes no row and ends no episode.
LEMMA EpisodeQuiet ==
  ASSUME EpisodeTypes, run <= 1, RecordInv, UNCHANGED <<episodes, rows>>, ran' \in SUBSET Nat,
         status \in Nat, status' \in Nat, status' >= status, faults' = 0 => faults = 0,
         faults' = 0 => \A v \in ran' : v <= status'
  PROVE  RecordInv'
<1> USE DEF RecordInv
<1>1. \A i \in DOMAIN rows : rows[i].version \in Nat
  BY Elements
<1>2. \A k \in DOMAIN episodes : episodes[k].ran \in SUBSET Nat
  BY Elements
<1>3. RowsInVersionOrder' /\ RowNeverOlder'
  BY DEF RowsInv, RowsInVersionOrder, RowNeverOlder, FromStatus
<1>4. RowsInv'
  BY <1>1, <1>3 DEF RowsInv, FromStatus
<1>5. RanInv'
  BY <1>2 DEF RanInv
<1> QED
  BY <1>3, <1>4, <1>5

\* What an ending episode adds.
LEMMA EndEpisodeEffect ==
  ASSUME EpisodeTypes, EndEpisode
  PROVE  LET n == Len(episodes)
         IN  /\ UNCHANGED <<vars, rows>> /\ ran' = {}
             /\ episodes' \in Seq(Episode) /\ n \in Nat
             /\ DOMAIN episodes = 1 .. n /\ DOMAIN episodes' = 1 .. n + 1
             /\ \A k \in 1 .. n : episodes'[k] = episodes[k]
             /\ episodes'[n + 1].ran = ran
<1>1. PICK tag \in ran \cup {0} : episodes' = Append(episodes, [ran |-> ran, tag |-> tag])
  BY DEF EndEpisode
<1> DEFINE e == [ran |-> ran, tag |-> tag]
<1>2. e \in Episode /\ e.ran = ran
  BY DEF EpisodeTypes, Episode
<1>3. UNCHANGED <<vars, rows>> /\ ran' = {}
  BY DEF EndEpisode
<1> HIDE DEF e
<1> QED
  BY <1>1, <1>2, <1>3 DEF EpisodeTypes, e

\* An episode ends: no row names it yet.
LEMMA EndEpisodeStep ==
  ASSUME EpisodeTypes, run <= 1, RecordInv, EndEpisode
  PROVE  RecordInv'
<1> USE DEF RecordInv
<1>1. UNCHANGED <<rows, status, faults, run>> /\ ran' = {}
  BY EndEpisodeEffect DEF vars, serverVars, trainerVars
<1>2. \A i \in DOMAIN rows : episodes'[rows[i].episode] = episodes[rows[i].episode]
  BY EndEpisodeEffect DEF EpisodeTypes
<1>3. RowsInVersionOrder' /\ RowNeverOlder'
  BY <1>1, <1>2 DEF RowsInv, RowsInVersionOrder, RowNeverOlder, FromStatus
<1>4. RowsInv'
  BY <1>1, <1>2, <1>3 DEF RowsInv, FromStatus
<1>5. RanInv'
  BY <1>1, EndEpisodeEffect DEF RanInv
<1> QED
  BY <1>3, <1>4, <1>5

\* What a conversion adds: a row with the recorder's tag, the status file's
\* version, or none.
LEMMA ConvertEffect ==
  ASSUME EpisodeTypes, status \in Nat, NEW i \in DOMAIN episodes, Convert(i)
  PROVE  LET m == Len(rows)
         IN  /\ UNCHANGED <<vars, episodes, ran>>
             /\ rows' \in Seq(Row) /\ m \in Nat
             /\ DOMAIN rows = 1 .. m /\ DOMAIN rows' = 1 .. m + 1
             /\ \A k \in 1 .. m : rows'[k] = rows[k]
             /\ rows'[m + 1].episode = i
             /\ FromStatus(rows'[m + 1]) => rows'[m + 1].version = status
<1>1. PICK v \in RowVersions(episodes[i]) : rows' = Append(rows, [episode |-> i, version |-> v])
  BY DEF Convert
<1> DEFINE r == [episode |-> i, version |-> v]
<1>2. i \in Nat /\ episodes[i].tag \in Nat
  BY Elements
<1>3. v \in Nat /\ (episodes[i].tag = 0 => v \in {status, 0})
  BY <1>2 DEF RowVersions, ReadStatus
<1>4. r \in Row /\ r.episode = i /\ (FromStatus(r) => r.version = status)
  BY <1>2, <1>3 DEF Row, FromStatus
<1>5. UNCHANGED <<vars, episodes, ran>>
  BY DEF Convert
<1> HIDE DEF r
<1>6. rows' = Append(rows, r)
  BY <1>1 DEF r
<1> QED
  BY <1>4, <1>5, <1>6 DEF EpisodeTypes

\* A row is written: no earlier one that names the status file's version is
\* above it.
LEMMA ConvertStep ==
  ASSUME EpisodeTypes, run <= 1, RecordInv, status \in Nat, NEW i \in DOMAIN episodes, Convert(i)
  PROVE  RecordInv'
<1> USE DEF RecordInv
<1> DEFINE m == Len(rows)
<1>1. /\ UNCHANGED <<episodes, ran, status, faults, run>>
      /\ m \in Nat /\ DOMAIN rows = 1 .. m /\ DOMAIN rows' = 1 .. m + 1
      /\ \A k \in 1 .. m : rows'[k] = rows[k]
      /\ rows'[m + 1].episode = i
      /\ FromStatus(rows'[m + 1]) => rows'[m + 1].version = status
  BY ConvertEffect DEF vars, serverVars, trainerVars
<1> HIDE DEF m
<1>2. \A k \in DOMAIN rows' : FromStatus(rows'[k]) => rows'[k].version <= status
  <2> SUFFICES ASSUME NEW k \in DOMAIN rows', FromStatus(rows'[k])
               PROVE  rows'[k].version <= status
    OBVIOUS
  <2>1. CASE k = m + 1
    BY <1>1, <2>1
  <2>2. CASE k # m + 1
    <3>1. k \in DOMAIN rows /\ rows'[k] = rows[k]
      BY <1>1, <2>2
    <3> QED
      BY <3>1 DEF RowsInv
  <2> QED
    BY <2>1, <2>2
<1>3. RowsInVersionOrder'
  <2> SUFFICES ASSUME NEW j \in DOMAIN rows', NEW k \in DOMAIN rows', j < k,
                      FromStatus(rows'[j]), FromStatus(rows'[k])
               PROVE  rows'[j].version <= rows'[k].version
    BY <1>1 DEF RowsInVersionOrder, FromStatus
  <2>1. CASE k = m + 1
    BY <1>1, <1>2, <2>1
  <2>2. CASE k # m + 1
    <3>1. j \in DOMAIN rows /\ k \in DOMAIN rows /\ rows'[j] = rows[j] /\ rows'[k] = rows[k]
      BY <1>1, <2>2
    <3> QED
      BY <3>1 DEF RowsInv, RowsInVersionOrder
  <2> QED
    BY <2>1, <2>2
<1>4. RowsInv'
  BY <1>1, <1>2, <1>3 DEF RowsInv, FromStatus
<1>5. RanInv'
  BY <1>1 DEF RanInv
<1>6. RowNeverOlder'
  <2> SUFFICES ASSUME faults = 0, NEW k \in DOMAIN rows', FromStatus(rows'[k]),
                      NEW v \in episodes[rows'[k].episode].ran
               PROVE  rows'[k].version >= v
    BY <1>1 DEF RowNeverOlder, FromStatus
  <2>1. CASE k = m + 1
    <3>1. v \in episodes[i].ran /\ v \in Nat /\ rows'[k].version = status
      <4>1. rows'[k].episode = i /\ rows'[k].version = status
        BY <1>1, <2>1
      <4>2. episodes[i].ran \in SUBSET Nat
        BY Elements
      <4> QED
        BY <4>1, <4>2
    <3>2. v <= status
      BY <3>1 DEF RanInv
    <3> QED
      BY <3>1, <3>2
  <2>2. CASE k # m + 1
    <3>1. k \in DOMAIN rows /\ rows'[k] = rows[k]
      BY <1>1, <2>2
    <3> QED
      BY <3>1 DEF RowNeverOlder
  <2> QED
    BY <2>1, <2>2
<1> QED
  BY <1>4, <1>5, <1>6

\* A forward pass adds a version number to what the episode ran on.
LEMMA ForwardEffect ==
  ASSUME SingleHandler, ServerInv, NEW t \in Threads, Forward(t)
  PROVE  /\ UNCHANGED <<episodes, rows, status, faults>>
         /\ ran' \in {ran, ran \cup {Serving}}
         /\ Serving \in Nat /\ (faults = 0 => Serving <= status)
<1>1. BeginForward(t) /\ UNCHANGED <<episodes, rows>> /\ ran' \in {ran, ran \cup {Serving}}
  BY DEF Forward
<1>2. UNCHANGED <<status, faults>>
  BY <1>1 DEF BeginForward, serverVars
<1> QED
  BY <1>1, <1>2, ForwardVersion

\* The types of episodes and rows through every step.
LEMMA EpisodeTypesStep ==
  ASSUME SingleHandler, ServerInv, EpisodeTypes, [EpisodeNext]_allVars
  PROVE  EpisodeTypes'
<1>1. CASE BeginEpisode
  BY <1>1 DEF BeginEpisode, EpisodeTypes
<1>2. CASE EndEpisode
  BY <1>2, EndEpisodeEffect DEF EpisodeTypes
<1>3. ASSUME NEW t \in Threads, Forward(t)
      PROVE  EpisodeTypes'
  BY <1>3, ForwardEffect DEF EpisodeTypes
<1>4. ASSUME NEW i \in DOMAIN episodes, Convert(i)
      PROVE  EpisodeTypes'
  <2>1. status \in Nat
    BY Numbers DEF ServerInv
  <2> DEFINE m == Len(rows)
  <2>2. /\ UNCHANGED <<episodes, ran>> /\ rows' \in Seq(Row)
        /\ DOMAIN rows = 1 .. m /\ DOMAIN rows' = 1 .. m + 1 /\ m \in Nat
        /\ \A k \in 1 .. m : rows'[k] = rows[k]
        /\ rows'[m + 1].episode = i
    BY <1>4, <2>1, ConvertEffect
  <2> HIDE DEF m
  <2>3. \A k \in DOMAIN rows' : rows'[k].episode \in DOMAIN episodes
    <3> SUFFICES ASSUME NEW k \in DOMAIN rows' PROVE rows'[k].episode \in DOMAIN episodes
      OBVIOUS
    <3>1. CASE k = m + 1
      BY <2>2, <3>1
    <3>2. CASE k # m + 1
      BY <2>2, <3>2 DEF EpisodeTypes
    <3> QED
      BY <3>1, <3>2
  <2> QED
    BY <2>2, <2>3 DEF EpisodeTypes
<1>5. CASE ServerOnly \/ UNCHANGED allVars
  BY <1>5 DEF ServerOnly, allVars, episodeVars, EpisodeTypes
<1> QED
  BY <1>1, <1>2, <1>3, <1>4, <1>5 DEF EpisodeNext

\* Episodes and rows through every step of the composition.
LEMMA EpisodeInvStep ==
  ASSUME SingleHandler, ServerInv, EpisodeInv, [EpisodeNext]_allVars
  PROVE  EpisodeInv'
<1> USE DEF EpisodeInv
<1> SUFFICES ASSUME run' <= 1
             PROVE  RecordInv'
  BY EpisodeTypesStep
<1>1. /\ status \in Nat /\ faults \in Nat
      /\ status' \in Nat /\ status' >= status /\ (faults' = 0 => faults = 0)
      /\ run <= 1
  <2>1. [Next]_vars
    BY ServerStep
  <2> QED
    BY <2>1, StatusGrows, Counts DEF ServerInv
<1>2. ran \in SUBSET Nat /\ (faults = 0 => \A v \in ran : v <= status) /\ RecordInv
  BY <1>1 DEF EpisodeTypes, RecordInv, RanInv
<1>3. faults' = 0 => \A v \in ran : v <= status'
  BY <1>1, <1>2
<1>4. CASE BeginEpisode
  <2>1. ran' = {} /\ UNCHANGED <<episodes, rows>>
    BY <1>4 DEF BeginEpisode
  <2> QED
    BY <1>1, <1>2, <2>1, EpisodeQuiet
<1>5. CASE EndEpisode
  BY <1>1, <1>2, <1>5, EndEpisodeStep
<1>6. ASSUME NEW t \in Threads, Forward(t)
      PROVE  RecordInv'
  <2>1. ran' \in SUBSET Nat /\ (faults' = 0 => \A v \in ran' : v <= status')
    BY <1>2, <1>6, ForwardEffect
  <2> QED
    BY <1>1, <1>2, <1>6, <2>1, ForwardEffect, EpisodeQuiet
<1>7. ASSUME NEW i \in DOMAIN episodes, Convert(i)
      PROVE  RecordInv'
  BY <1>1, <1>2, <1>7, ConvertStep
<1>8. CASE ServerOnly \/ UNCHANGED allVars
  <2>1. UNCHANGED <<ran, episodes, rows>>
    BY <1>8 DEF ServerOnly, allVars, episodeVars
  <2> QED
    BY <1>1, <1>2, <1>3, <2>1, EpisodeQuiet
<1> QED
  BY <1>4, <1>5, <1>6, <1>7, <1>8 DEF EpisodeNext

-----------------------------------------------------------------------------
(* The theorems.                                                           *)

\* The invariant on episodes and rows holds in every behaviour with episodes.
LEMMA EpisodeInvariant ==
  ASSUME SingleHandler
  PROVE  EpisodeSpec => []EpisodeInv
<1>1. ServerInv /\ EpisodeInv /\ [EpisodeNext]_allVars => EpisodeInv'
  BY EpisodeInvStep
<1>2. EpisodeSpec => []ServerInv
  <2>1. Spec => []ServerInv
    BY ServerInvariant
  <2> QED
    BY <2>1, ServerSpec, PTL
<1> QED
  BY <1>1, <1>2, EpisodeInvInit, PTL DEF EpisodeSpec

\* Rows that name the status file's version are in the order of versions, as
\* long as the trainer was not restarted: whatever statuses could not be written
\* or read and however often the server was restarted between two conversions.
THEOREM RowOrderCorrect ==
  ASSUME SingleHandler
  PROVE  EpisodeSpec => []RowsInVersionOrder
<1>1. EpisodeInv => RowsInVersionOrder
  BY DEF EpisodeInv, RecordInv, RowsInv, RowsInVersionOrder
<1>2. EpisodeSpec => []EpisodeInv
  BY EpisodeInvariant
<1> QED
  BY <1>1, <1>2, PTL

\* As long as the trainer was not restarted and no error was met, a row that
\* names the status file's version is at least as new as every forward pass of
\* its episode, across reconnects and restarts of the server.
THEOREM RowAgeCorrect ==
  ASSUME SingleHandler
  PROVE  EpisodeSpec => []RowNeverOlder
<1>1. EpisodeInv => RowNeverOlder
  BY DEF EpisodeInv, RecordInv, RowNeverOlder
<1>2. EpisodeSpec => []EpisodeInv
  BY EpisodeInvariant
<1> QED
  BY <1>1, <1>2, PTL
=============================================================================
