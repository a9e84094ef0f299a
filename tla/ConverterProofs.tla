-------------------------- MODULE ConverterProofs --------------------------
(***************************************************************************)
(* What Converter promises, proved for any number of files, crashes and    *)
(* I/O errors, any configuration that __post_init__ accepts and any        *)
(* machine.  The runs of Converter check the same on small instances.      *)
(***************************************************************************)
EXTENDS Converter, SetFacts, FiniteSetTheorems, SequenceTheorems

\* There are finitely many files and rounds, numbered in Nat.
LEMMA FileFacts == Files \subseteq Nat /\ IsFiniteSet(Files) /\ Rounds \subseteq Nat /\ IsFiniteSet(Rounds)
BY FS_Interval, NFilesAssumption, RoundsAssumption DEF Files, Rounds

\* The for loop of run() takes a file of the scan as long as there is one.
LEMMA CurrentIn ==
  ASSUME batch \in SUBSET Files, batch # {}
  PROVE  Current \in batch
<1>1. PICK f \in batch : \A g \in batch : f <= g
  BY FileFacts, Least
<1> QED
  BY <1>1 DEF Current

\* Datasets are sequences of files.
LEMMA DatasetType ==
  ASSUME TypeOK, NEW r \in Rounds
  PROVE  /\ datasets[r] \in Seq(Files)
         /\ Len(datasets[r]) \in Nat
         /\ datasets[r] # <<>> <=> Len(datasets[r]) >= 1
         /\ \A i \in 1 .. Len(datasets[r]) : datasets[r][i] \in Files
BY DEF TypeOK

\* An episode is a place in a dataset.
LEMMA EpisodeMember ==
  ASSUME TypeOK
  PROVE  \A e : e \in Episodes <=> \E r \in Rounds : \E i \in 1 .. Len(datasets[r]) : e = <<r, i>>
<1>1. \A r \in Rounds : DOMAIN datasets[r] = 1 .. Len(datasets[r])
  BY LenProperties DEF TypeOK
<1> QED
  BY <1>1 DEF Episodes

\* A finalize adds one episode, at the end of its dataset, and moves none.
LEMMA NewEpisode ==
  ASSUME TypeOK, NEW r \in Rounds, NEW f \in Files,
         datasets' = [datasets EXCEPT ![r] = Append(@, f)]
  PROVE  LET new == <<r, Len(datasets[r]) + 1>>
         IN  /\ new \notin Episodes
             /\ Episodes' = Episodes \cup {new}
             /\ \A e \in Episodes : datasets'[e[1]][e[2]] = datasets[e[1]][e[2]]
             /\ datasets'[r][Len(datasets[r]) + 1] = f
<1> DEFINE n == Len(datasets[r])
<1>1. /\ datasets[r] \in Seq(Files) /\ n \in Nat
      /\ datasets' \in [Rounds -> Seq(Files)]
      /\ datasets'[r] = Append(datasets[r], f)
      /\ \A q \in Rounds \ {r} : datasets'[q] = datasets[q]
  BY DEF TypeOK
<1>2. /\ Len(datasets'[r]) = n + 1
      /\ \A i \in 1 .. n : datasets'[r][i] = datasets[r][i]
      /\ datasets'[r][n + 1] = f
  BY <1>1, AppendProperties
<1>3. \A e : e \in Episodes <=> \E q \in Rounds : \E i \in 1 .. Len(datasets[q]) : e = <<q, i>>
  BY EpisodeMember
<1>4. \A e : e \in Episodes' <=> \E q \in Rounds : \E i \in 1 .. Len(datasets'[q]) : e = <<q, i>>
  <2>1. \A q \in Rounds : DOMAIN datasets'[q] = 1 .. Len(datasets'[q])
    BY <1>1, LenProperties
  <2> QED
    BY <2>1 DEF Episodes
<1>5. <<r, n + 1>> \notin Episodes
  BY <1>1, <1>3
<1>6. Episodes' = Episodes \cup {<<r, n + 1>>}
  <2>1. ASSUME NEW e \in Episodes' PROVE e \in Episodes \cup {<<r, n + 1>>}
    BY <1>1, <1>2, <1>3, <1>4
  <2>2. ASSUME NEW e \in Episodes PROVE e \in Episodes'
    <3>0. PICK q \in Rounds : \E i \in 1 .. Len(datasets[q]) : e = <<q, i>>
      BY <1>3
    <3>1. PICK i \in 1 .. Len(datasets[q]) : e = <<q, i>>
      BY <3>0
    <3>2. i \in 1 .. Len(datasets'[q])
      BY <1>1, <1>2
    <3> QED
      BY <1>4, <3>1, <3>2
  <2>3. <<r, n + 1>> \in Episodes'
    BY <1>1, <1>2, <1>4
  <2> QED
    BY <2>1, <2>2, <2>3
<1>7. ASSUME NEW e \in Episodes PROVE datasets'[e[1]][e[2]] = datasets[e[1]][e[2]]
  BY <1>1, <1>2, <1>3
<1> QED
  BY <1>2, <1>5, <1>6, <1>7
-----------------------------------------------------------------------------
(* The inductive invariant.                                                *)

\* Files whose episode may be stored: those that have left the queue, and the
\* one whose conversion has come to a result.
Handled == IF proc \in {"finalized", "recorded", "quarantine"} THEN {Current} ELSE {}
Spent == {f \in Files : place[f] \in {"done", "failed"}} \cup Handled

AtFile == {"throttle", "convert", "finalized", "recorded", "disposed", "quarantine"}

\* The process has a file in hand.
AtWork == proc \in AtFile => batch # {}

\* What the process is doing with the files of this scan.
Progress ==
  /\ AtWork
  /\ \A f \in batch : place[f] = "ready" \/ (proc = "disposed" /\ f = Current)

From(F) == {e \in Episodes : datasets[e[1]][e[2]] \in F}

CountInv ==
  /\ IsFiniteSet(Episodes)
  /\ \A F \in SUBSET Files : Cardinality(From(F)) <= Cardinality(F \cap Spent) + crashes

OrderInv ==
  /\ RoundsInOrder
  /\ cfg.rounds /\ proc # "down" => \A q \in 1 .. round - 1 : Full(q)
  /\ ~cfg.rounds => round = 1

\* The episode that was just finalized has the row that names it, or the line
\* that a failed append has spoilt.
Written(r) == HasRow(r, Len(datasets[r])) \/ Spoilt(r)

StoreInv ==
  /\ NoEpisodeLost
  /\ proc \in {"finalized", "recorded"} =>
       datasets[round] # <<>> /\ datasets[round][Len(datasets[round])] = Current
  /\ proc = "recorded" => Written(round)

\* What a round may hold.
Room == cfg.numDemos + rowFaults + countFaults

\* The round that is open, and those that a rollover may get to, have room for
\* one more.
RoomInv ==
  /\ RoundsNotOverfull
  /\ cfg.capped /\ proc \in {"scan", "next", "throttle", "convert", "quarantine"} =>
       Len(datasets[round]) < Room
  /\ cfg.rounds /\ proc # "down" => \A r \in Rounds : r > round => Len(datasets[r]) < Room

ConfigFacts ==
  /\ cfg.rounds \in BOOLEAN /\ cfg.capped \in BOOLEAN /\ cfg.numDemos \in Int
  /\ cfg.pause \in Int /\ cfg.resume \in Int /\ cfg.resume <= cfg.pause
  /\ cfg.capped => cfg.numDemos >= 1
  /\ cfg.rounds => cfg.capped

\* What __post_init__ of the configuration has checked.
LEMMA ConfigType == TypeOK => ConfigFacts
BY ConfigAssumption DEF TypeOK, Accepted, ConfigFacts

\* A full round holds an episode, since num_demos is at least 1.
LEMMA FullIsLong ==
  ASSUME TypeOK, NEW r \in Rounds
  PROVE  Full(r) => datasets[r] # <<>>
BY ConfigType, DatasetType DEF Full, ConfigFacts

\* So many rounds with an episode mean so many episodes.
LEMMA FilledRounds ==
  ASSUME TypeOK, IsFiniteSet(Episodes), NEW k \in Nat,
         \A q \in 1 .. k : q \in Rounds /\ datasets[q] # <<>>
  PROVE  k <= Cardinality(Episodes)
<1> DEFINE firsts == [q \in 1 .. k |-> <<q, 1>>]
<1>1. \A q \in 1 .. k : <<q, 1>> \in Episodes
  <2> SUFFICES ASSUME NEW q \in 1 .. k PROVE <<q, 1>> \in Episodes
    OBVIOUS
  <2>1. q \in Rounds /\ 1 \in 1 .. Len(datasets[q])
    BY DatasetType
  <2> QED
    BY <2>1, EpisodeMember
<1>2. firsts \in Injection(1 .. k, Episodes)
  BY <1>1 DEF Injection, IsInjective
<1> HIDE DEF firsts
<1>3. Cardinality(1 .. k) <= Cardinality(Episodes)
  BY <1>2, FS_Injection
<1> QED
  BY <1>3, FS_Interval

\* There are fewer episodes than rounds.
Enough == IsFiniteSet(Episodes) /\ Cardinality(Episodes) < NRounds

\* There are never more episodes than files and crashes, hence always a round
\* without one.
LEMMA EnoughRounds ==
  ASSUME TypeOK, CountInv
  PROVE  Enough
<1>1. From(Files) = Episodes
  BY EpisodeMember, DatasetType DEF From
<1>2. Cardinality(Episodes) <= Cardinality(Files \cap Spent) + crashes
  BY <1>1 DEF CountInv
<1>3. Cardinality(Files \cap Spent) <= Cardinality(Files) /\ Cardinality(Files \cap Spent) \in Nat
  BY FileFacts, FS_Subset, FS_CardinalityType
<1>4. Cardinality(Files) = NFiles
  BY FS_Interval, NFilesAssumption DEF Files
<1>5. Cardinality(Episodes) \in Nat
  BY FS_CardinalityType DEF CountInv
<1> QED
  BY <1>2, <1>3, <1>4, <1>5, NFilesAssumption, BoundsAssumption, RoundsAssumption DEF TypeOK, CountInv, Enough

\* _initial_round gets to a round that exists.
LEMMA CandidatesAreRounds == Candidates \subseteq Rounds
BY RoundsAssumption, NFilesAssumption, BoundsAssumption DEF Candidates, Rounds

-----------------------------------------------------------------------------
(* Types.                                                                  *)

RowSet == [index : Nat, source : 0 .. NFiles]

\* One more line keeps a manifest a sequence of lines.
LEMMA AppendLineType ==
  ASSUME NEW rows \in Seq(RowSet), NEW line \in RowSet
  PROVE  AppendLine(rows, line) \in Seq(RowSet)
<1>1. Fragment \in RowSet /\ Garbled \in RowSet
  BY NFilesAssumption DEF Fragment, Garbled, RowSet
<1>2. CASE rows # <<>> /\ rows[Len(rows)] = Fragment
  <2>1. Len(rows) \in 1 .. Len(rows)
    BY <1>2, EmptySeq
  <2> QED
    BY <1>1, <1>2, <2>1, ExceptSeq DEF AppendLine
<1>3. CASE ~(rows # <<>> /\ rows[Len(rows)] = Fragment)
  BY <1>3, AppendProperties DEF AppendLine
<1> QED
  BY <1>2, <1>3

\* The first state is well typed.
LEMMA TypeInit == Init => TypeOK
<1> SUFFICES ASSUME Init PROVE TypeOK
  OBVIOUS
<1>1. 1 \in Rounds
  BY RoundsAssumption, NFilesAssumption, BoundsAssumption DEF Rounds
<1>2. <<>> \in Seq(Files) /\ <<>> \in Seq(RowSet)
  BY EmptySeq
<1>3. stop \in BOOLEAN /\ gpuPaused \in BOOLEAN
  BY Zenon DEF Init
<1>4. /\ cfg \in {c \in Configs : Accepted(c)}
      /\ place \in [Files -> {"robot", "fresh", "ready", "done", "failed"}]
      /\ round \in Rounds /\ batch \in SUBSET Files
  BY <1>1 DEF Init
<1>5. datasets \in [Rounds -> Seq(Files)] /\ manifest \in [Rounds -> Seq(RowSet)]
  BY <1>2 DEF Init
<1>6. /\ crashes \in 0 .. MaxCrashes
      /\ rowFaults \in 0 .. MaxRowFaults /\ countFaults \in 0 .. MaxCountFaults
      /\ stops \in 0 .. MaxStops
  BY BoundsAssumption DEF Init
<1> QED
  BY <1>3, <1>4, <1>5, <1>6 DEF Init, TypeOK, RowSet

\* A step keeps the types; that round_idx stays in Rounds takes the whole
\* invariant.
LEMMA TypeStep ==
  ASSUME TypeOK, AtWork, Enough, OrderInv, StoreInv, Next
  PROVE  TypeOK'
<1> USE BoundsAssumption
<1>1. ASSUME NEW f \in Files, Arrive(f) \/ Settle(f)
      PROVE  TypeOK'
  BY <1>1 DEF TypeOK, Arrive, Settle, process, kept, counters
<1>2. CASE MachineChanges \/ RequestStop \/ Crash \/ Scan \/ NextFile \/ Hold \/ Clear \/ Escape
  <2>1. GpuPaused \in BOOLEAN
    BY DEF TypeOK, GpuPaused, GpuBusy
  <2>2. stop' \in BOOLEAN
    BY <1>2, Zenon DEF TypeOK, MachineChanges, RequestStop, Crash, Scan, NextFile, Hold, Clear,
       Escape, Gone, process, kept
  <2>3. gpuPaused' \in BOOLEAN
    BY <1>2, <2>1, Zenon DEF TypeOK, MachineChanges, RequestStop, Crash, Scan, NextFile, Hold, Clear,
       Escape, Gone, process, kept
  <2>4. UNCHANGED <<cfg, place, datasets, manifest, round>>
    BY <1>2 DEF MachineChanges, RequestStop, Crash, Scan, NextFile, Hold, Clear, Escape,
       disk, process, kept
  <2>5. machine' \in Machines
    BY <1>2 DEF TypeOK, MachineChanges, RequestStop, Crash, Scan, NextFile, Hold, Clear, Escape
  <2>6. /\ crashes' \in 0 .. MaxCrashes
        /\ rowFaults' \in 0 .. MaxRowFaults /\ countFaults' \in 0 .. MaxCountFaults
        /\ stops' \in 0 .. MaxStops
    BY <1>2 DEF TypeOK, MachineChanges, RequestStop, Crash, Scan, NextFile, Hold, Clear, Escape,
       counters
  <2>7. proc' \in {"down", "scan", "next", "throttle", "convert", "finalized",
                   "recorded", "disposed", "quarantine"}
    BY <1>2 DEF TypeOK, MachineChanges, RequestStop, Crash, Scan, NextFile, Hold, Clear, Escape,
       Gone, process
  <2>8. batch' \in SUBSET Files
    BY <1>2 DEF TypeOK, MachineChanges, RequestStop, Crash, Scan, NextFile, Hold, Clear, Escape,
       Gone, Ready, process, kept
  <2> QED
    BY <2>2, <2>3, <2>4, <2>5, <2>6, <2>7, <2>8 DEF TypeOK
<1>3. CASE Start
  <2>1. round' \in Rounds
    BY <1>3, CandidatesAreRounds DEF Start
  <2>2. countFaults' \in 0 .. MaxCountFaults
    BY <1>3 DEF TypeOK, Start, SeenOpen
  <2> QED
    BY <1>3, <2>1, <2>2 DEF TypeOK, Start, disk
<1>4. CASE Finalize
  <2>1. Current \in Files
    BY <1>4, CurrentIn DEF Finalize, AtWork, AtFile, TypeOK
  <2>2. datasets' \in [Rounds -> Seq(Files)]
    <3>1. Append(datasets[round], Current) \in Seq(Files)
      BY <2>1, AppendProperties DEF TypeOK
    <3> QED
      BY <1>4, <3>1 DEF Finalize, TypeOK
  <2> QED
    BY <1>4, <2>2 DEF TypeOK, Finalize, kept, counters
<1>5. CASE Reject
  BY <1>5 DEF TypeOK, Reject, disk, kept, counters
<1>6. CASE Record \/ RecordError
  <2>1. Current \in Files /\ Row \in RowSet /\ Fragment \in RowSet
    <3>1. Current \in Files
      BY <1>6, CurrentIn DEF Record, RecordError, AtWork, AtFile, TypeOK
    <3>2. Len(datasets[round]) - 1 \in Nat
      BY <1>6, DatasetType DEF Record, RecordError, StoreInv, TypeOK
    <3> QED
      BY <3>1, <3>2, NFilesAssumption DEF Row, Fragment, RowSet, Files
  <2>2. \A line \in {Fragment, Row} : AppendLine(manifest[round], line) \in Seq(RowSet)
    BY <2>1, AppendLineType DEF TypeOK, RowSet
  <2>3. manifest' \in [Rounds -> Seq(RowSet)]
    <3>1. manifest \in [Rounds -> Seq(RowSet)] /\ round \in Rounds
      BY DEF TypeOK, RowSet
    <3>2. \/ manifest' = manifest
          \/ \E line \in {Fragment, Row} :
               manifest' = [manifest EXCEPT ![round] = AppendLine(manifest[round], line)]
      BY <1>6 DEF Record, RecordError
    <3> QED
      BY <2>2, <3>1, <3>2
  <2>4. /\ UNCHANGED <<cfg, place, datasets, kept, machine, crashes, countFaults, stops>>
        /\ rowFaults' \in 0 .. MaxRowFaults /\ proc' \in {"recorded", "quarantine"}
    BY <1>6 DEF TypeOK, Record, RecordError, counters
  <2> QED
    BY <2>3, <2>4 DEF TypeOK, RowSet, kept
<1>7. CASE Dispose \/ Quarantine
  <2>1. stop' \in BOOLEAN /\ gpuPaused' \in BOOLEAN
    BY <1>7, Zenon DEF TypeOK, Dispose, Quarantine, GoOn, kept
  <2>2. place' \in [Files -> {"robot", "fresh", "ready", "done", "failed"}]
    BY <1>7 DEF TypeOK, Dispose, Quarantine
  <2>3. batch' \in SUBSET Files /\ proc' \in {"disposed", "next"}
    BY <1>7 DEF TypeOK, Dispose, Quarantine, GoOn, kept
  <2>4. UNCHANGED <<cfg, datasets, manifest, round, machine, counters>>
    BY <1>7 DEF Dispose, Quarantine, kept
  <2> QED
    BY <2>1, <2>2, <2>3, <2>4 DEF TypeOK, counters
<1>8. CASE Rollover
  <2>1. round' \in Rounds
    <3>1. CASE Full(round) /\ cfg.rounds
      <4>1. \A q \in 1 .. round : q \in Rounds /\ Full(q)
        <5>1. round \in Rounds /\ \A q \in 1 .. round - 1 : Full(q)
          BY <1>8, <3>1 DEF OrderInv, Rollover, TypeOK
        <5>2. \A q \in 1 .. round : q \in Rounds /\ (q = round \/ q \in 1 .. round - 1)
          BY <5>1, RoundsAssumption DEF Rounds
        <5> QED
          BY <3>1, <5>1, <5>2
      <4>2. round \in Nat
        BY DEF TypeOK, Rounds
      <4>3. round <= Cardinality(Episodes)
        BY <4>1, <4>2, FullIsLong, FilledRounds DEF Enough
      <4>4. Cardinality(Episodes) \in Nat
        BY FS_CardinalityType DEF Enough
      <4>5. round' = round \/ round' = round + 1
        BY <1>8, <3>1 DEF Rollover
      <4> QED
        BY <4>2, <4>3, <4>4, <4>5, RoundsAssumption DEF TypeOK, Rounds, Enough
    <3>2. CASE ~(Full(round) /\ cfg.rounds)
      BY <1>8, <3>2 DEF Rollover, TypeOK
    <3> QED
      BY <3>1, <3>2
  <2>2. stop' \in BOOLEAN /\ gpuPaused' \in BOOLEAN
    BY <1>8, Zenon DEF TypeOK, Rollover, GoOn, Gone
  <2>3. batch' \in SUBSET Files /\ proc' \in {"down", "next"}
    BY <1>8 DEF TypeOK, Rollover, GoOn, Gone
  <2>4. /\ UNCHANGED <<cfg, disk, machine, crashes, rowFaults, stops>>
        /\ countFaults' \in 0 .. MaxCountFaults
    BY <1>8 DEF TypeOK, Rollover, SeenOpen
  <2> QED
    BY <2>1, <2>2, <2>3, <2>4 DEF TypeOK, disk
<1> QED
  BY <1>1, <1>2, <1>3, <1>4, <1>5, <1>6, <1>7, <1>8 DEF Next, Run, Environment

-----------------------------------------------------------------------------
(* What the steps do to the datasets and to the files.                     *)

\* Only a finalize adds an episode, and only an append writes a row.
LEMMA OtherSteps ==
  ASSUME TypeOK, Next, ~Finalize, ~Record, ~RecordError
  PROVE  /\ UNCHANGED <<cfg, datasets, manifest, rowFaults>>
         /\ proc' = "finalized" => proc = "finalized"
         /\ crashes' = crashes \/ crashes' = crashes + 1
         /\ proc = "finalized" /\ proc' # "finalized" => crashes' = crashes + 1
BY DEF Next, Run, Environment, Start, Scan, NextFile, Hold, Clear, Reject, Escape, Dispose,
   Rollover, Quarantine, GoOn, Arrive, Settle, MachineChanges, RequestStop, Crash, Gone,
   disk, kept, process, counters

\* The file at hand is taken from the batch.
LEMMA CurrentIsFile ==
  ASSUME TypeOK, AtWork, proc \in AtFile
  PROVE  Current \in batch /\ Current \in Files
BY CurrentIn DEF TypeOK, AtWork

\* The process always has a file in hand when it needs one.
LEMMA AtWorkStep ==
  ASSUME TypeOK, AtWork, Next
  PROVE  AtWork'
BY DEF Next, Run, Environment, Start, Scan, NextFile, Hold, Clear, Finalize, Reject, Escape, Record,
   RecordError, Dispose, Rollover, Quarantine, GoOn, Arrive, Settle, MachineChanges, RequestStop, Crash,
   Gone, disk, kept, process, AtWork, AtFile

\* It is still in the queue.
LEMMA CurrentFile ==
  ASSUME TypeOK, Progress, proc \in AtFile
  PROVE  /\ Current \in batch /\ Current \in Files
         /\ proc # "disposed" => place[Current] = "ready"
BY CurrentIn DEF TypeOK, Progress, AtWork

\* Whatever the step, the scan only lists files that are still in the queue:
\* nothing but run() takes them out.
LEMMA ProgressStep ==
  ASSUME TypeOK, Progress, Next
  PROVE  Progress'
<1>1. ASSUME NEW f \in Files, Arrive(f) \/ Settle(f)
      PROVE  Progress'
  BY <1>1 DEF Progress, AtWork, TypeOK, Arrive, Settle, process, kept, AtFile, Current
<1>2. CASE MachineChanges \/ RequestStop \/ Start \/ Crash \/ Escape \/ Scan
  BY <1>2 DEF Progress, AtWork, TypeOK, MachineChanges, RequestStop, Start, Crash, Escape, Scan, Gone,
     Ready, process, kept, disk, AtFile, Current
<1>3. CASE NextFile \/ Hold \/ Clear \/ Finalize \/ Reject \/ Record \/ RecordError
  BY <1>3 DEF Progress, AtWork, TypeOK, NextFile, Hold, Clear, Finalize, Reject, Record, RecordError,
     Gone, process, kept, disk, AtFile, Current
<1>4. CASE Dispose
  BY <1>4, CurrentFile DEF Progress, AtWork, TypeOK, Dispose, kept, AtFile, Current
<1>5. CASE Rollover
  BY <1>5 DEF Progress, AtWork, TypeOK, Rollover, GoOn, Gone, disk, AtFile
<1>6. CASE Quarantine
  BY <1>6, CurrentFile DEF Progress, AtWork, TypeOK, Quarantine, GoOn, AtFile
<1> QED
  BY <1>1, <1>2, <1>3, <1>4, <1>5, <1>6 DEF Next, Run, Environment

-----------------------------------------------------------------------------
(* Counting.                                                               *)

\* A step that stores nothing and forgets no result keeps the count.
LEMMA CountFrame ==
  ASSUME TypeOK, CountInv, UNCHANGED datasets, Spent \subseteq Spent', crashes' = crashes
  PROVE  CountInv'
<1>1. Episodes' = Episodes
  BY DEF Episodes
<1>2. ASSUME NEW F \in SUBSET Files
      PROVE  Cardinality(From(F)') <= Cardinality(F \cap Spent') + crashes'
  <2>1. From(F)' = From(F)
    BY <1>1 DEF From
  <2>2. IsFiniteSet(F \cap Spent') /\ F \cap Spent \subseteq F \cap Spent'
    BY FileFacts, FS_Subset
  <2>3. /\ Cardinality(F \cap Spent) <= Cardinality(F \cap Spent')
        /\ Cardinality(F \cap Spent) \in Nat /\ Cardinality(F \cap Spent') \in Nat
    BY <2>2, FS_Subset, FS_CardinalityType
  <2>4. IsFiniteSet(From(F))
    BY FS_Subset DEF CountInv, From
  <2>5. Cardinality(From(F)) \in Nat /\ Cardinality(From(F)) <= Cardinality(F \cap Spent) + crashes
    BY <2>4, FS_CardinalityType DEF CountInv
  <2> QED
    BY <2>1, <2>3, <2>5 DEF TypeOK
<1> QED
  BY <1>1, <1>2 DEF CountInv

\* A crash forgets the result of one file at most.
LEMMA CountCrash ==
  ASSUME TypeOK, Progress, CountInv, Crash
  PROVE  CountInv'
<1>1. Episodes' = Episodes
  BY DEF Crash, disk, Episodes
<1>2. ASSUME NEW F \in SUBSET Files
      PROVE  Cardinality(From(F)') <= Cardinality(F \cap Spent') + crashes'
  <2>1. From(F)' = From(F)
    BY <1>1 DEF From, Crash, disk
  <2>2. F \cap Spent \subseteq (F \cap Spent') \cup {Current}
    BY DEF Spent, Handled, Crash, Gone, disk
  <2>3. IsFiniteSet(F \cap Spent')
    BY FileFacts, FS_Subset
  <2>4. /\ IsFiniteSet((F \cap Spent') \cup {Current})
        /\ Cardinality((F \cap Spent') \cup {Current}) <= Cardinality(F \cap Spent') + 1
        /\ Cardinality(F \cap Spent') \in Nat
    BY <2>3, FS_AddElement, FS_CardinalityType
  <2>5. /\ Cardinality(F \cap Spent) <= Cardinality((F \cap Spent') \cup {Current})
        /\ Cardinality(F \cap Spent) \in Nat
        /\ Cardinality((F \cap Spent') \cup {Current}) \in Nat
    BY <2>2, <2>4, FS_Subset, FS_CardinalityType
  <2>6. Cardinality(From(F)) <= Cardinality(F \cap Spent) + crashes
    BY DEF CountInv
  <2>7. Cardinality(From(F)) \in Nat
    BY FS_Subset, FS_CardinalityType DEF CountInv, From
  <2>8. crashes' = crashes + 1 /\ crashes \in Nat
    BY DEF Crash, TypeOK
  <2> QED
    BY <2>1, <2>4, <2>5, <2>6, <2>7, <2>8
<1> QED
  BY <1>1, <1>2 DEF CountInv

\* A finalize adds one episode of the file at hand.
LEMMA OneMoreEpisode ==
  ASSUME TypeOK, AtWork, IsFiniteSet(Episodes), Finalize, NEW F \in SUBSET Files
  PROVE  Cardinality(From(F)') = Cardinality(From(F)) + (IF Current \in F THEN 1 ELSE 0)
<1> DEFINE new == <<round, Len(datasets[round]) + 1>>
<1>1. Current \in Files
  BY CurrentIsFile DEF Finalize, AtFile
<1>2. /\ new \notin Episodes /\ Episodes' = Episodes \cup {new}
      /\ \A e \in Episodes : datasets'[e[1]][e[2]] = datasets[e[1]][e[2]]
      /\ datasets'[round][Len(datasets[round]) + 1] = Current
  <2>1. round \in Rounds /\ datasets' = [datasets EXCEPT ![round] = Append(@, Current)]
    BY DEF TypeOK, Finalize
  <2> QED
    BY <1>1, <2>1, NewEpisode
<1>3. IsFiniteSet(From(F)) /\ Cardinality(From(F)) \in Nat
  BY FS_Subset, FS_CardinalityType DEF From
<1>4. \A e \in Episodes : e \in From(F)' <=> e \in From(F)
  BY <1>2 DEF From
<1>5. new \in From(F)' <=> Current \in F
  BY <1>2 DEF From
<1>6. From(F)' \subseteq Episodes \cup {new} /\ From(F) \subseteq Episodes
  BY <1>2 DEF From
<1>7. CASE Current \in F
  <2>1. From(F)' = From(F) \cup {new} /\ new \notin From(F)
    BY <1>2, <1>4, <1>5, <1>6, <1>7
  <2>2. Cardinality(From(F)') = Cardinality(From(F)) + 1
    BY <1>3, <2>1, FS_AddElement
  <2> QED
    BY <1>7, <2>2
<1>8. CASE Current \notin F
  <2>1. From(F)' = From(F)
    BY <1>2, <1>4, <1>5, <1>6, <1>8
  <2> QED
    BY <1>3, <1>8, <2>1
<1> QED
  BY <1>7, <1>8

\* A finalize keeps the count: its file was not spent before.
LEMMA CountFinalize ==
  ASSUME TypeOK, Progress, CountInv, Finalize
  PROVE  CountInv'
<1>1. Current \in Files /\ Current \notin Spent
  BY CurrentFile DEF Finalize, AtFile, Spent, Handled
<1>2. Spent' = Spent \cup {Current}
  BY <1>1 DEF Finalize, kept, Spent, Handled, Current
<1>3. ASSUME NEW F \in SUBSET Files
      PROVE  Cardinality(From(F)') <= Cardinality(F \cap Spent') + crashes'
  <2>1. /\ Cardinality(From(F)') = Cardinality(From(F)) + (IF Current \in F THEN 1 ELSE 0)
        /\ Cardinality(From(F)) \in Nat
    BY OneMoreEpisode, FS_Subset, FS_CardinalityType DEF CountInv, From, Progress
  <2>2. IsFiniteSet(F \cap Spent) /\ Cardinality(F \cap Spent) \in Nat
    BY FileFacts, FS_Subset, FS_CardinalityType
  <2>3. /\ Cardinality(From(F)) <= Cardinality(F \cap Spent) + crashes
        /\ crashes' = crashes /\ crashes \in Nat
    <3>1. crashes' = crashes /\ crashes \in Nat
      BY DEF Finalize, TypeOK, counters
    <3> QED
      BY <3>1 DEF CountInv
  <2>4. CASE Current \in F
    <3>1. F \cap Spent' = (F \cap Spent) \cup {Current} /\ Current \notin F \cap Spent
      BY <1>1, <1>2, <2>4
    <3>2. Cardinality(F \cap Spent') = Cardinality(F \cap Spent) + 1
      BY <2>2, <3>1, FS_AddElement
    <3> QED
      BY <2>1, <2>2, <2>3, <2>4, <3>2
  <2>5. CASE Current \notin F
    <3>1. F \cap Spent' = F \cap Spent
      BY <1>2, <2>5
    <3>2. Cardinality(From(F)') = Cardinality(From(F))
      BY <2>1, <2>5
    <3> QED
      BY <2>3, <3>1, <3>2
  <2> QED
    BY <2>4, <2>5
<1>4. IsFiniteSet(Episodes')
  <2>1. round \in Rounds /\ datasets' = [datasets EXCEPT ![round] = Append(@, Current)]
    BY DEF TypeOK, Finalize
  <2>2. Episodes' = Episodes \cup {<<round, Len(datasets[round]) + 1>>}
    BY <1>1, <2>1, NewEpisode
  <2> QED
    BY <2>2, FS_AddElement DEF CountInv
<1> QED
  BY <1>3, <1>4 DEF CountInv

\* Every step keeps the count of episodes per file.
LEMMA CountStep ==
  ASSUME TypeOK, Progress, CountInv, Next
  PROVE  CountInv'
<1>1. CASE ~Crash /\ ~Finalize
  <2>1. UNCHANGED datasets /\ crashes' = crashes
    BY <1>1 DEF Next, Run, Environment, Start, Scan, NextFile, Hold, Clear, Reject, Escape,
       Record, RecordError, Dispose, Rollover, Quarantine, GoOn, Arrive, Settle, MachineChanges,
       RequestStop, disk, counters
  <2>2. Spent \subseteq Spent'
    <3>1. ASSUME NEW f \in Files, Arrive(f) \/ Settle(f)
          PROVE  Spent \subseteq Spent'
      BY <3>1 DEF Spent, Handled, TypeOK, Arrive, Settle, process, kept, Current
    <3>2. CASE Dispose \/ Quarantine
      BY <3>2, CurrentFile DEF Spent, Handled, TypeOK, Dispose, Quarantine, GoOn, AtFile
    <3>3. CASE Start \/ Scan \/ NextFile \/ Hold \/ Clear \/ Reject \/ Escape \/ Record
               \/ RecordError \/ Rollover \/ MachineChanges \/ RequestStop
      BY <3>3 DEF Spent, Handled, Start, Scan, NextFile, Hold, Clear, Reject, Escape, Record,
         RecordError, Rollover, MachineChanges, RequestStop, disk, process, kept, Current
    <3> QED
      BY <1>1, <3>1, <3>2, <3>3 DEF Next, Run, Environment
  <2> QED
    BY <2>1, <2>2, CountFrame
<1> QED
  BY <1>1, CountCrash, CountFinalize

-----------------------------------------------------------------------------
(* The rounds.                                                             *)

\* Appending an episode leaves a full round full, and fills no earlier one.
LEMMA Longer ==
  ASSUME TypeOK, NEW r \in Rounds, NEW f \in Files, UNCHANGED cfg,
         datasets' = [datasets EXCEPT ![r] = Append(@, f)]
  PROVE  /\ \A q \in Rounds : Full(q) => Full(q)'
         /\ \A q \in Rounds \ {r} : datasets'[q] = datasets[q]
         /\ datasets'[r] = Append(datasets[r], f) /\ Len(datasets'[r]) = Len(datasets[r]) + 1
<1>1. /\ \A q \in Rounds \ {r} : datasets'[q] = datasets[q]
      /\ datasets'[r] = Append(datasets[r], f)
  BY DEF TypeOK
<1>2. /\ Len(datasets'[r]) = Len(datasets[r]) + 1
      /\ Len(datasets[r]) \in Nat
  BY <1>1, DatasetType, AppendProperties
<1>3. cfg.numDemos \in Int
  BY ConfigType DEF ConfigFacts
<1> QED
  BY <1>1, <1>2, <1>3 DEF Full

\* Every step keeps the rounds in order: a restart goes back to the first round
\* that is not full, a rollover on to an empty one.
LEMMA OrderStep ==
  ASSUME TypeOK, TypeOK', AtWork, Enough, OrderInv, Next
  PROVE  OrderInv'
<1> USE FileFacts
<1>1. CASE Finalize
  <2>1. /\ round \in Rounds /\ Current \in Files /\ UNCHANGED <<cfg, round>> /\ proc # "down"
        /\ datasets' = [datasets EXCEPT ![round] = Append(@, Current)]
    BY <1>1, CurrentIsFile DEF Finalize, TypeOK, AtFile, kept
  <2>2. /\ \A q \in Rounds : Full(q) => Full(q)'
        /\ \A q \in Rounds \ {round} : datasets'[q] = datasets[q]
    BY <2>1, Longer
  <2>3. \A r \in Rounds : \A q \in 1 .. r - 1 : q \in Rounds
    BY RoundsAssumption DEF Rounds
  <2> QED
    BY <2>1, <2>2, <2>3 DEF OrderInv, RoundsInOrder
<1>2. CASE Start
  <2>1. UNCHANGED <<cfg, datasets>> /\ round' \in Candidates
    BY <1>2 DEF Start, disk
  <2> QED
    BY <2>1 DEF OrderInv, RoundsInOrder, Full, Candidates
<1>3. CASE Rollover
  <2>1. UNCHANGED <<cfg, datasets>> /\ proc # "down"
    BY <1>3 DEF Rollover, disk
  <2>2. \/ round' = round
        \/ Full(round) /\ cfg.rounds /\ round' = round + 1
    BY <1>3 DEF Rollover
  <2>3. round \in Nat
    BY DEF TypeOK
  <2>4. \A q \in 1 .. round : q = round \/ q \in 1 .. round - 1
    BY <2>3
  <2> QED
    BY <2>1, <2>2, <2>3, <2>4 DEF OrderInv, RoundsInOrder, Full
<1>4. CASE ~Finalize /\ ~Start /\ ~Rollover
  <2>1. UNCHANGED <<cfg, datasets, round>> /\ (proc' # "down" => proc # "down")
    BY <1>4 DEF Next, Run, Environment, Scan, NextFile, Hold, Clear, Reject, Escape,
       Record, RecordError, Dispose, Quarantine, GoOn, Arrive, Settle, MachineChanges,
       RequestStop, Crash, Gone, disk, process, kept
  <2> QED
    BY <2>1 DEF OrderInv, RoundsInOrder, Full
<1> QED
  BY <1>1, <1>2, <1>3, <1>4

\* A fault gives every round room for one more.
LEMMA RoomGrows ==
  ASSUME TypeOK, TypeOK', RoomInv, UNCHANGED <<cfg, datasets>>,
         rowFaults' >= rowFaults, countFaults' >= countFaults
  PROVE  /\ RoundsNotOverfull'
         /\ \A r \in Rounds : Len(datasets[r]) < Room => Len(datasets[r]) < Room'
         /\ Room' > Room /\ cfg.capped => \A r \in Rounds : Len(datasets[r]) < Room'
<1>1. /\ cfg.numDemos \in Int /\ rowFaults \in Nat /\ countFaults \in Nat
      /\ rowFaults' \in Nat /\ countFaults' \in Nat
  <2>1. cfg.numDemos \in Int
    BY ConfigType DEF ConfigFacts
  <2>2. rowFaults \in Nat /\ countFaults \in Nat /\ rowFaults' \in Nat /\ countFaults' \in Nat
    BY DEF TypeOK
  <2> QED
    BY <2>1, <2>2
<1>2. \A r \in Rounds : Len(datasets[r]) \in Nat
  BY DatasetType
<1>3. cfg.capped => \A r \in Rounds : Len(datasets[r]) <= Room
  BY DEF RoomInv, RoundsNotOverfull, Room
<1>4. Room \in Int /\ Room' \in Int /\ Room' >= Room
  BY <1>1 DEF Room
<1>5. cfg.capped => \A r \in Rounds : Len(datasets[r]) <= Room'
  BY <1>2, <1>3, <1>4
<1>6. RoundsNotOverfull'
  BY <1>5 DEF RoundsNotOverfull, Room
<1> QED
  BY <1>2, <1>3, <1>4, <1>6

\* Where an info.json was not read, a fault has been counted.
LEMMA OpenHasRoom ==
  ASSUME TypeOK, TypeOK', RoomInv, NEW r \in Rounds, SeenOpen(r), cfg.capped,
         UNCHANGED <<cfg, datasets, rowFaults>>
  PROVE  /\ countFaults' >= countFaults
         /\ Len(datasets[r]) < Room'
<1>1. /\ cfg.numDemos \in Int /\ rowFaults \in Nat /\ countFaults \in Nat
      /\ rowFaults' \in Nat /\ countFaults' \in Nat
  <2>1. cfg.numDemos \in Int
    BY ConfigType DEF ConfigFacts
  <2>2. rowFaults \in Nat /\ countFaults \in Nat /\ rowFaults' \in Nat /\ countFaults' \in Nat
    BY DEF TypeOK
  <2> QED
    BY <2>1, <2>2
<1>2. Len(datasets[r]) \in Nat
  BY DatasetType
<1>3. CASE ~Full(r) /\ countFaults' = countFaults
  BY <1>1, <1>2, <1>3 DEF Full, Room
<1>4. CASE Full(r) /\ countFaults' = countFaults + 1
  BY <1>1, <1>2, <1>4, RoomGrows DEF Room
<1> QED
  BY <1>3, <1>4 DEF SeenOpen

\* Every step leaves room in the round that is open for the episode at hand,
\* and in those after it.
LEMMA RoomStep ==
  ASSUME TypeOK, TypeOK', AtWork, OrderInv, RoomInv, Next
  PROVE  RoomInv'
<1> DEFINE open == {"scan", "next", "throttle", "convert", "quarantine"}
<1>1. cfg.numDemos \in Int /\ (cfg.capped => cfg.numDemos >= 1)
      /\ (cfg.rounds => cfg.capped)
  BY ConfigType DEF ConfigFacts
<1>2. /\ round \in Rounds /\ round' \in Rounds /\ \A r \in Rounds : Len(datasets[r]) \in Nat
      /\ rowFaults \in Nat /\ countFaults \in Nat /\ rowFaults' \in Nat /\ countFaults' \in Nat
  <2>1. rowFaults \in Nat /\ countFaults \in Nat /\ rowFaults' \in Nat /\ countFaults' \in Nat
    BY DEF TypeOK
  <2> QED
    BY <2>1, DatasetType DEF TypeOK
<1>3. CASE Finalize
  <2>1. /\ Current \in Files /\ UNCHANGED <<cfg, round, rowFaults, countFaults>>
        /\ proc = "convert" /\ proc' = "finalized"
        /\ datasets' = [datasets EXCEPT ![round] = Append(@, Current)]
    BY <1>3, CurrentIsFile DEF Finalize, AtFile, counters, kept
  <2>2. /\ \A q \in Rounds \ {round} : datasets'[q] = datasets[q]
        /\ Len(datasets'[round]) = Len(datasets[round]) + 1
    BY <1>2, <2>1, Longer
  <2>3. Room' = Room /\ Room \in Int
    BY <1>1, <1>2, <2>1 DEF Room
  <2>4. cfg.capped => \A r \in Rounds : Len(datasets[r]) <= Room
    BY DEF RoomInv, RoundsNotOverfull, Room
  <2>5. cfg.capped => Len(datasets[round]) < Room
    BY <2>1 DEF RoomInv
  <2>6. cfg.capped => \A r \in Rounds : Len(datasets'[r]) <= Room
    BY <1>2, <2>2, <2>3, <2>4, <2>5
  <2>7. RoundsNotOverfull'
    BY <2>1, <2>3, <2>6 DEF RoundsNotOverfull, Room
  <2>8. cfg.rounds => \A r \in Rounds : r > round => Len(datasets'[r]) < Room
    BY <1>2, <2>1, <2>2, FileFacts DEF RoomInv
  <2> QED
    BY <2>1, <2>3, <2>7, <2>8 DEF RoomInv
<1>4. CASE Start
  <2>1. UNCHANGED <<cfg, datasets, rowFaults>>
    BY <1>4 DEF Start, disk
  <2>2. PICK r \in Candidates : SeenOpen(r) /\ round' = r
    BY <1>4 DEF Start
  <2>3. r \in Rounds /\ countFaults' >= countFaults
    BY <1>2, <2>2, CandidatesAreRounds DEF SeenOpen
  <2>4. cfg.capped => Len(datasets[r]) < Room'
    BY <2>1, <2>2, <2>3, OpenHasRoom
  <2>5. RoundsNotOverfull'
    BY <1>2, <2>1, <2>3, RoomGrows
  <2>6. ASSUME cfg.rounds, NEW q \in Rounds, q > r
        PROVE  Len(datasets[q]) < Room'
    <3>1. CASE Full(r)
      <4>1. countFaults' = countFaults + 1
        BY <2>2, <3>1 DEF SeenOpen
      <4>2. Room' > Room
        BY <1>1, <1>2, <2>1, <4>1 DEF Room
      <4> QED
        BY <1>1, <1>2, <2>1, <2>3, <2>6, <4>2, RoomGrows
    <3>2. CASE ~Full(r)
      <4>1. r \in 1 .. q - 1
        BY <2>3, <2>6 DEF Rounds
      <4>2. datasets[q] = <<>>
        BY <2>6, <3>2, <4>1 DEF OrderInv, RoundsInOrder
      <4>3. Len(datasets[q]) = 0
        BY <4>2
      <4>4. Room' >= 1
        BY <1>1, <1>2, <2>1, <2>6 DEF Room
      <4> QED
        BY <1>1, <1>2, <2>1, <4>3, <4>4 DEF Room
    <3> QED
      BY <3>1, <3>2
  <2> QED
    BY <2>1, <2>2, <2>4, <2>5, <2>6 DEF RoomInv
<1>5. CASE Rollover
  <2>1. UNCHANGED <<cfg, datasets, rowFaults>> /\ proc # "down"
    BY <1>5 DEF Rollover, disk
  <2>2. countFaults' >= countFaults
    BY <1>2, <1>5 DEF Rollover, SeenOpen
  <2>3. RoundsNotOverfull'
    BY <1>2, <2>1, <2>2, RoomGrows
  <2>4. cfg.rounds => \A r \in Rounds : r > round => Len(datasets[r]) < Room'
    BY <1>2, <2>1, <2>2, RoomGrows DEF RoomInv
  <2>5. CASE SeenOpen(round) /\ round' = round
    BY <1>2, <2>1, <2>3, <2>4, <2>5, OpenHasRoom DEF RoomInv
  <2>6. CASE cfg.rounds /\ round' = round + 1
    <3>1. \A r \in Rounds : r > round' => r > round
      BY <1>2, <2>6, FileFacts
    <3>2. Len(datasets[round']) < Room'
      BY <1>2, <2>4, <2>6, FileFacts
    <3> QED
      BY <2>1, <2>3, <2>4, <3>1, <3>2 DEF RoomInv
  <2>7. CASE ~cfg.rounds /\ Gone
    BY <2>1, <2>3, <2>7 DEF RoomInv, Gone
  <2> QED
    BY <1>5, <2>5, <2>6, <2>7 DEF Rollover
<1>6. CASE Record \/ RecordError
  <2>1. UNCHANGED <<cfg, datasets, round, countFaults>> /\ proc # "down" /\ proc' # "down"
    BY <1>6 DEF Record, RecordError, kept, counters
  <2>2. \/ proc' = "recorded" /\ rowFaults' = rowFaults
        \/ rowFaults' = rowFaults + 1
    BY <1>6 DEF Record, RecordError, counters
  <2>3. rowFaults' >= rowFaults /\ countFaults' >= countFaults
    BY <1>2, <2>1, <2>2
  <2>4. RoundsNotOverfull'
    BY <2>1, <2>3, RoomGrows
  <2>5. cfg.rounds => \A r \in Rounds : r > round => Len(datasets[r]) < Room'
    BY <2>1, <2>3, RoomGrows DEF RoomInv
  <2>6. CASE rowFaults' = rowFaults + 1
    <3>1. Room' > Room
      BY <1>1, <1>2, <2>1, <2>6 DEF Room
    <3>2. cfg.capped => Len(datasets[round]) < Room'
      BY <1>2, <2>1, <2>3, <3>1, RoomGrows
    <3> QED
      BY <2>1, <2>4, <2>5, <3>2 DEF RoomInv
  <2>7. CASE proc' = "recorded"
    BY <2>1, <2>4, <2>5, <2>7 DEF RoomInv
  <2> QED
    BY <2>2, <2>6, <2>7
<1>7. CASE ~Finalize /\ ~Start /\ ~Rollover /\ ~Record /\ ~RecordError
  <2>1. /\ UNCHANGED <<cfg, datasets, round, rowFaults, countFaults>>
        /\ (proc' \in open => proc \in open) /\ (proc = "down" => proc' = "down")
    BY <1>7 DEF Next, Run, Environment, Scan, NextFile, Hold, Clear, Reject, Escape,
       Dispose, Quarantine, GoOn, Arrive, Settle, MachineChanges,
       RequestStop, Crash, Gone, disk, process, kept, counters
  <2> QED
    BY <2>1 DEF RoomInv, RoundsNotOverfull, Room
<1> QED
  BY <1>3, <1>4, <1>5, <1>6, <1>7

-----------------------------------------------------------------------------
(* The manifests.                                                          *)

\* What one more line does to the lines of a manifest: it goes after them, or
\* on the same line as the fragment they end in.
OneMoreLine(rows, line, after) ==
  \/ /\ ~(rows # <<>> /\ rows[Len(rows)] = Fragment)
     /\ Len(after) = Len(rows) + 1 /\ after[Len(rows) + 1] = line
     /\ \A n \in 1 .. Len(rows) : after[n] = rows[n]
  \/ /\ rows # <<>> /\ Len(rows) >= 1 /\ rows[Len(rows)] = Fragment
     /\ Len(after) = Len(rows)
     /\ after[Len(rows)] = IF line = Fragment THEN Fragment ELSE Garbled
     /\ \A n \in 1 .. Len(rows) - 1 : after[n] = rows[n]

\* AppendLine does that.
LEMMA AppendLineEffect ==
  ASSUME NEW rows \in Seq(RowSet), NEW line \in RowSet
  PROVE  OneMoreLine(rows, line, AppendLine(rows, line))
<1>1. Fragment \in RowSet /\ Garbled \in RowSet
  BY NFilesAssumption DEF Fragment, Garbled, RowSet
<1>2. CASE rows # <<>> /\ rows[Len(rows)] = Fragment
  <2>1. Len(rows) \in 1 .. Len(rows) /\ Len(rows) \in Nat
    BY <1>2, EmptySeq
  <2> DEFINE last == IF line = Fragment THEN Fragment ELSE Garbled
  <2>2. last \in RowSet /\ AppendLine(rows, line) = [rows EXCEPT ![Len(rows)] = last]
    BY <1>1, <1>2 DEF AppendLine
  <2> HIDE DEF last
  <2>3. /\ Len([rows EXCEPT ![Len(rows)] = last]) = Len(rows)
        /\ [rows EXCEPT ![Len(rows)] = last][Len(rows)] = last
        /\ \A n \in 1 .. Len(rows) - 1 : [rows EXCEPT ![Len(rows)] = last][n] = rows[n]
    BY <2>1, <2>2, ExceptSeq
  <2>4. /\ Len(AppendLine(rows, line)) = Len(rows)
        /\ AppendLine(rows, line)[Len(rows)] = last
        /\ \A n \in 1 .. Len(rows) - 1 : AppendLine(rows, line)[n] = rows[n]
    BY <2>2, <2>3
  <2>5. rows # <<>> /\ Len(rows) >= 1 /\ rows[Len(rows)] = Fragment
    BY <1>2, <2>1
  <2> QED
    BY <2>4, <2>5 DEF last, OneMoreLine
<1>3. CASE ~(rows # <<>> /\ rows[Len(rows)] = Fragment)
  <2>1. AppendLine(rows, line) = Append(rows, line)
    BY <1>3 DEF AppendLine
  <2>2. /\ Len(Append(rows, line)) = Len(rows) + 1
        /\ Append(rows, line)[Len(rows) + 1] = line
        /\ \A n \in 1 .. Len(rows) : Append(rows, line)[n] = rows[n]
    BY AppendProperties
  <2> QED
    BY <1>3, <2>1, <2>2 DEF OneMoreLine
<1> QED
  BY <1>2, <1>3

\* Manifests are sequences of lines.
LEMMA ManifestType ==
  ASSUME TypeOK, NEW r \in Rounds
  PROVE  /\ manifest[r] \in Seq(RowSet) /\ Len(manifest[r]) \in Nat
         /\ DOMAIN manifest[r] = 1 .. Len(manifest[r])
         /\ \A n \in 1 .. Len(manifest[r]) : manifest[r][n] \in RowSet
<1>1. manifest[r] \in Seq(RowSet)
  BY DEF TypeOK, RowSet
<1> QED
  BY <1>1, LenProperties, ElementOfSeq

\* The line that a step appends, if any, goes to the manifest of this round.
Appends(line) ==
  /\ round \in Rounds /\ line \in RowSet
  /\ manifest' = [manifest EXCEPT ![round] = AppendLine(manifest[round], line)]

\* The other manifests stay as they are.
LEMMA AppendsEffect ==
  ASSUME TypeOK, NEW line, Appends(line)
  PROVE  /\ \A r \in Rounds \ {round} : manifest'[r] = manifest[r]
         /\ OneMoreLine(manifest[round], line, manifest'[round])
<1>1. manifest \in [Rounds -> Seq(RowSet)]
  BY DEF TypeOK, RowSet
<1>2. /\ manifest'[round] = AppendLine(manifest[round], line)
      /\ \A r \in Rounds \ {round} : manifest'[r] = manifest[r]
      /\ manifest[round] \in Seq(RowSet) /\ line \in RowSet
  BY <1>1 DEF Appends
<1> QED
  BY <1>2, AppendLineEffect

\* An append keeps every row of an episode, and every spoilt line.
LEMMA AppendsKeeps ==
  ASSUME TypeOK, NEW line, Appends(line)
  PROVE  /\ \A r \in Rounds : \A n \in 1 .. Len(manifest[r]) :
              /\ n \in 1 .. Len(manifest'[r])
              /\ manifest[r][n] # Fragment => manifest'[r][n] = manifest[r][n]
         /\ line # Fragment =>
              \E n \in 1 .. Len(manifest'[round]) : manifest'[round][n] \in {line, Garbled}
<1>1. \A r \in Rounds : Len(manifest[r]) \in Nat
  BY ManifestType
<1>2. round \in Rounds
  BY DEF Appends
<1> QED
  BY <1>1, <1>2, AppendsEffect DEF OneMoreLine

\* manifest.append writes the row of the last episode, a part of it, or nothing.
LEMMA RecordAppends ==
  ASSUME TypeOK, AtWork, StoreInv, Record \/ RecordError
  PROVE  /\ Row \in RowSet /\ Row.source # 0 /\ Row # Fragment /\ Fragment \in RowSet
         /\ datasets[round] # <<>> /\ round \in Rounds
         /\ Row = [index |-> Len(datasets[round]) - 1,
                   source |-> datasets[round][Len(datasets[round])]]
         /\ Record => Appends(Row)
         /\ RecordError => \/ UNCHANGED manifest
                           \/ Appends(Row)
                           \/ Appends(Fragment)
<1>1. round \in Rounds /\ proc = "finalized"
  BY DEF TypeOK, Record, RecordError
<1>2. Current \in Files
  BY <1>1, CurrentIsFile DEF AtFile
<1>3. /\ datasets[round] # <<>> /\ datasets[round][Len(datasets[round])] = Current
      /\ Len(datasets[round]) - 1 \in Nat
  BY <1>1, DatasetType DEF StoreInv
<1>4. /\ Row \in RowSet /\ Row.source # 0 /\ Row # Fragment /\ Fragment \in RowSet
  BY <1>2, <1>3, NFilesAssumption DEF Row, RowSet, Fragment, Files
<1> QED
  BY <1>1, <1>3, <1>4 DEF Row, Record, RecordError, Appends

\* Episodes keep their place, their file and their row.
LEMMA RowsKept ==
  ASSUME TypeOK, TypeOK', AtWork, StoreInv, Next
  PROVE  /\ \A r \in Rounds : \A i \in 1 .. Len(datasets[r]) :
              /\ i \in 1 .. Len(datasets'[r]) /\ datasets'[r][i] = datasets[r][i]
              /\ HasRow(r, i) => HasRow(r, i)'
         /\ \A r \in Rounds : Spoilt(r) => Spoilt(r)'
<1>1. \A r \in Rounds : Len(datasets[r]) \in Nat /\ \A i \in 1 .. Len(datasets[r]) : datasets[r][i] # 0
  BY DatasetType DEF Files
<1>2. \A r \in Rounds : /\ DOMAIN manifest[r] = 1 .. Len(manifest[r])
                        /\ DOMAIN manifest'[r] = 1 .. Len(manifest'[r])
  <2>1. \A r \in Rounds : DOMAIN manifest[r] = 1 .. Len(manifest[r])
    BY ManifestType
  <2>2. \A r \in Rounds : DOMAIN manifest'[r] = 1 .. Len(manifest'[r])
    BY DEF TypeOK
  <2> QED
    BY <2>1, <2>2
<1>3. CASE Finalize
  <2>1. /\ UNCHANGED <<cfg, manifest>> /\ round \in Rounds /\ Current \in Files
        /\ datasets' = [datasets EXCEPT ![round] = Append(@, Current)]
    BY <1>3, CurrentIsFile DEF Finalize, TypeOK, AtFile
  <2>2. \A r \in Rounds : \A i \in 1 .. Len(datasets[r]) :
          i \in 1 .. Len(datasets'[r]) /\ datasets'[r][i] = datasets[r][i]
    <3>1. datasets[round] \in Seq(Files)
      BY <2>1, DatasetType
    <3> QED
      BY <1>1, <2>1, <3>1, Longer, AppendProperties
  <2> QED
    BY <2>1, <2>2 DEF HasRow, Spoilt
<1>4. ASSUME NEW line, Appends(line), UNCHANGED datasets
      PROVE  /\ \A r \in Rounds : \A i \in 1 .. Len(datasets[r]) : HasRow(r, i) => HasRow(r, i)'
             /\ \A r \in Rounds : Spoilt(r) => Spoilt(r)'
  <2>1. \A r \in Rounds : \A n \in DOMAIN manifest[r] :
          manifest[r][n] # Fragment =>
            n \in DOMAIN manifest'[r] /\ manifest'[r][n] = manifest[r][n]
    BY <1>2, <1>4, AppendsKeeps
  <2>2. \A r \in Rounds : \A i \in 1 .. Len(datasets[r]) :
          [index |-> i - 1, source |-> datasets[r][i]] # Fragment
    BY <1>1 DEF Fragment
  <2>3. Garbled # Fragment
    BY DEF Garbled, Fragment
  <2> QED
    BY <1>4, <2>1, <2>2, <2>3 DEF HasRow, Spoilt
<1>5. CASE Record \/ RecordError
  <2>1. UNCHANGED datasets
    BY <1>5 DEF Record, RecordError
  <2>2. CASE UNCHANGED manifest
    BY <2>1, <2>2 DEF HasRow, Spoilt
  <2>3. CASE \E line : Appends(line)
    BY <1>4, <2>1, <2>3
  <2> QED
    BY <1>5, <2>1, <2>2, <2>3, RecordAppends
<1>6. CASE ~Finalize /\ ~Record /\ ~RecordError
  BY <1>6, OtherSteps DEF HasRow, Spoilt
<1> QED
  BY <1>3, <1>5, <1>6

\* Every step keeps stored what has left the queue for good.
LEMMA StoreStep ==
  ASSUME TypeOK, TypeOK', AtWork, StoreInv, Next
  PROVE  StoreInv'
<1>1. \A e : e \in Episodes <=> \E r \in Rounds : \E i \in 1 .. Len(datasets[r]) : e = <<r, i>>
  BY EpisodeMember
<1>2. \A r \in Rounds : \A i \in 1 .. Len(datasets'[r]) : <<r, i>> \in Episodes'
  <2>1. \A r \in Rounds : DOMAIN datasets'[r] = 1 .. Len(datasets'[r])
    BY DEF TypeOK
  <2> QED
    BY <2>1 DEF Episodes
<1>3. \A f \in Files : Stored(f) => Stored(f)'
  <2> SUFFICES ASSUME NEW f \in Files, Stored(f) PROVE Stored(f)'
    OBVIOUS
  <2>1. PICK e \in Episodes : /\ datasets[e[1]][e[2]] = f
                              /\ HasRow(e[1], e[2]) \/ Spoilt(e[1])
    BY DEF Stored
  <2>2. e[1] \in Rounds /\ e[2] \in 1 .. Len(datasets[e[1]]) /\ e = <<e[1], e[2]>>
    BY <1>1
  <2>3. e \in Episodes'
    BY <1>2, <2>2, RowsKept
  <2>4. datasets'[e[1]][e[2]] = f /\ (HasRow(e[1], e[2])' \/ Spoilt(e[1])')
    BY <2>1, <2>2, RowsKept
  <2> QED
    BY <2>3, <2>4 DEF Stored
<1>4. CASE Finalize
  <2>1. /\ UNCHANGED <<cfg, place, round, batch>> /\ round \in Rounds /\ Current \in Files
        /\ datasets' = [datasets EXCEPT ![round] = Append(@, Current)] /\ proc' = "finalized"
    BY <1>4, CurrentIsFile DEF Finalize, TypeOK, AtFile, kept
  <2>2. Current' = Current
    BY <2>1 DEF Current
  <2>3. datasets'[round] # <<>> /\ datasets'[round][Len(datasets'[round])] = Current
    <3>1. datasets[round] \in Seq(Files) /\ datasets'[round] = Append(datasets[round], Current)
      BY <2>1, DatasetType, Longer
    <3> QED
      BY <2>1, <3>1, AppendProperties
  <2> QED
    BY <1>3, <2>1, <2>2, <2>3 DEF StoreInv, NoEpisodeLost
<1>5. CASE Record \/ RecordError
  <2>1. UNCHANGED <<place, datasets, round, batch>> /\ proc = "finalized"
    BY <1>5 DEF Record, RecordError, kept
  <2>2. Current' = Current
    BY <2>1 DEF Current
  <2>3. proc' # "finalized" /\ (proc' = "recorded" => Record)
    BY <1>5 DEF Record, RecordError
  <2>4. ASSUME Record PROVE Written(round)'
    <3>1. \E n \in 1 .. Len(manifest'[round]) : manifest'[round][n] \in {Row, Garbled}
      BY <2>4, RecordAppends, AppendsKeeps
    <3>2. DOMAIN manifest'[round] = 1 .. Len(manifest'[round])
      <4>1. round \in Rounds
        BY DEF TypeOK
      <4> QED
        BY <4>1 DEF TypeOK
    <3>3. Row = [index |-> Len(datasets[round]) - 1,
                 source |-> datasets[round][Len(datasets[round])]]
      BY <2>4, RecordAppends
    <3> QED
      BY <2>1, <3>1, <3>2, <3>3 DEF Written, HasRow, Spoilt
  <2> QED
    BY <1>3, <2>1, <2>2, <2>3, <2>4 DEF StoreInv, NoEpisodeLost
<1>6. CASE Dispose
  <2>1. /\ place' = [place EXCEPT ![Current] = "done"] /\ UNCHANGED <<datasets, manifest, round>>
        /\ proc = "recorded" /\ proc' = "disposed" /\ round \in Rounds
        /\ place \in [Files -> {"robot", "fresh", "ready", "done", "failed"}]
    BY <1>6 DEF Dispose, kept, TypeOK
  <2>2. \A f \in Files : place'[f] = "done" => f = Current \/ place[f] = "done"
    BY <2>1
  <2>3. Stored(Current)
    <3>1. Len(datasets[round]) \in 1 .. Len(datasets[round])
      BY <2>1, DatasetType DEF StoreInv
    <3>2. <<round, Len(datasets[round])>> \in Episodes
      BY <1>1, <2>1, <3>1
    <3> QED
      BY <2>1, <3>2 DEF StoreInv, Stored, Written
  <2>4. Current \in Files
    BY <2>1, CurrentIsFile DEF AtFile
  <2> QED
    BY <1>3, <2>1, <2>2, <2>3, <2>4 DEF StoreInv, NoEpisodeLost
<1>7. CASE ~Finalize /\ ~Record /\ ~RecordError /\ ~Dispose
  <2>1. \A f \in Files : place'[f] = "done" => place[f] = "done"
    <3>1. place \in [Files -> {"robot", "fresh", "ready", "done", "failed"}]
      BY DEF TypeOK
    <3>2. \/ UNCHANGED place
          \/ \E f \in Files : place' = [place EXCEPT ![f] = "fresh"]
          \/ \E f \in Files : place' = [place EXCEPT ![f] = "ready"]
          \/ place' = [place EXCEPT ![Current] = "failed"]
      BY <1>7 DEF Next, Run, Environment, Start, Scan, NextFile, Hold, Clear, Reject, Escape,
         Rollover, Quarantine, GoOn, Arrive, Settle, MachineChanges, RequestStop, Crash, disk
    <3> QED
      BY <3>1, <3>2
  <2>2. /\ UNCHANGED <<datasets, manifest>>
        /\ \/ proc' \notin {"finalized", "recorded"}
           \/ UNCHANGED <<proc, round, batch>>
    BY <1>7 DEF Next, Run, Environment, Start, Scan, NextFile, Hold, Clear, Reject, Escape,
       Rollover, Quarantine, GoOn, Arrive, Settle, MachineChanges, RequestStop, Crash, Gone,
       disk, process, kept
  <2> QED
    BY <1>3, <2>1, <2>2 DEF StoreInv, NoEpisodeLost, Written, HasRow, Spoilt, Current
<1> QED
  BY <1>4, <1>5, <1>6, <1>7

-----------------------------------------------------------------------------
(* What the rows say, and how many there are.                              *)

\* Every row is true, and before the row of a finalized episode is written all
\* rows are of earlier ones.
TrueInv ==
  /\ RowsTrue
  /\ proc = "finalized" =>
       \A n \in DOMAIN manifest[round] :
         manifest[round][n].source # 0 =>
           manifest[round][n].index < Len(datasets[round]) - 1

\* Every step keeps the rows true.
LEMMA TrueStep ==
  ASSUME TypeOK, TypeOK', AtWork, StoreInv, TrueInv, Next
  PROVE  TrueInv'
<1> DEFINE Rows(r) == 1 .. Len(manifest[r])
<1>1. \A r \in Rounds : /\ DOMAIN manifest[r] = Rows(r) /\ Len(manifest[r]) \in Nat
                        /\ \A n \in Rows(r) : manifest[r][n] \in RowSet
  BY ManifestType
<1>2. \A r \in Rounds : DOMAIN datasets[r] = 1 .. Len(datasets[r]) /\ Len(datasets[r]) \in Nat
  BY DatasetType, LenProperties
<1>3. /\ \A r \in Rounds : DOMAIN manifest'[r] = 1 .. Len(manifest'[r])
      /\ \A r \in Rounds : DOMAIN datasets'[r] = 1 .. Len(datasets'[r])
      /\ round \in Rounds
  <2>1. manifest' \in [Rounds -> Seq([index : Nat, source : 0 .. NFiles])]
    BY DEF TypeOK
  <2>2. datasets' \in [Rounds -> Seq(Files)] /\ round \in Rounds
    BY DEF TypeOK
  <2> QED
    BY <2>1, <2>2
<1>4. CASE Finalize
  <2>1. /\ UNCHANGED <<cfg, manifest, round>> /\ Current \in Files
        /\ datasets' = [datasets EXCEPT ![round] = Append(@, Current)]
    BY <1>4, CurrentIsFile DEF Finalize, AtFile, kept
  <2>2. \A r \in Rounds : \A i \in 1 .. Len(datasets[r]) :
          i \in 1 .. Len(datasets'[r]) /\ datasets'[r][i] = datasets[r][i]
    BY RowsKept
  <2>3. Len(datasets'[round]) = Len(datasets[round]) + 1
    BY <1>3, <2>1, Longer
  <2>4. \A r \in Rounds : \A n \in Rows(r) :
          manifest[r][n].source # 0 =>
            /\ manifest[r][n].index + 1 \in 1 .. Len(datasets[r])
            /\ manifest[r][n].index \in Nat
    BY <1>1, <1>2 DEF TrueInv, RowsTrue, RowSet
  <2>5. RowsTrue'
    BY <1>1, <1>2, <1>3, <2>1, <2>2 DEF TrueInv, RowsTrue
  <2>6. \A n \in DOMAIN manifest[round] :
          manifest[round][n].source # 0 =>
            manifest[round][n].index < Len(datasets'[round]) - 1
    BY <1>1, <1>2, <1>3, <2>3, <2>4
  <2> QED
    BY <2>1, <2>5, <2>6 DEF TrueInv
<1>5. ASSUME NEW line, Appends(line), line \in {Row, Fragment}, UNCHANGED datasets,
             Record \/ RecordError
      PROVE  RowsTrue'
  <2> DEFINE rows == manifest[round]
             after == manifest'[round]
             last == Len(datasets[round])
  <2>1. /\ \A r \in Rounds \ {round} : manifest'[r] = manifest[r]
        /\ OneMoreLine(rows, line, after)
    BY <1>5, AppendsEffect
  <2>2. /\ Row = [index |-> last - 1, source |-> datasets[round][last]]
        /\ last \in DOMAIN datasets[round] /\ last \in Nat
    <3>1. last \in 1 .. last
      BY <1>3, <1>5, RecordAppends, DatasetType
    <3> QED
      BY <1>2, <1>3, <1>5, <3>1, RecordAppends
  <2>3. \A n \in 1 .. Len(rows) : rows[n].source # 0 => rows[n].index < last - 1
    BY <1>1, <1>3, <1>5 DEF TrueInv, Record, RecordError
  <2>4. Fragment.source = 0 /\ Garbled.source = 0
    BY DEF Fragment, Garbled
  <2>5. ASSUME NEW n \in 1 .. Len(after), after[n].source # 0
        PROVE  /\ after[n].index + 1 \in DOMAIN datasets[round]
               /\ datasets[round][after[n].index + 1] = after[n].source
               /\ \A m \in 1 .. n - 1 : after[m].source # 0 => after[m].index < after[n].index
    <3>1. CASE n \in 1 .. Len(rows) /\ after[n] = rows[n]
      <4>1. \A m \in 1 .. n - 1 : after[m] = rows[m]
        BY <1>1, <1>3, <2>1, <3>1 DEF OneMoreLine
      <4>2. /\ rows[n].index + 1 \in DOMAIN datasets[round]
            /\ datasets[round][rows[n].index + 1] = rows[n].source
            /\ \A m \in 1 .. n - 1 : rows[m].source # 0 => rows[m].index < rows[n].index
        BY <1>1, <1>3, <2>5, <3>1 DEF TrueInv, RowsTrue
      <4> QED
        BY <3>1, <4>1, <4>2
    <3>2. CASE n = Len(rows) + 1 /\ after[n] = line /\ \A m \in 1 .. Len(rows) : after[m] = rows[m]
      <4>1. line = Row
        BY <1>5, <2>4, <2>5, <3>2
      <4>2. \A m \in 1 .. n - 1 : m \in 1 .. Len(rows)
        BY <1>1, <1>3, <3>2
      <4>3. after[n].index = last - 1 /\ after[n].source = datasets[round][last]
        BY <2>2, <3>2, <4>1
      <4> QED
        BY <2>2, <2>3, <3>2, <4>2, <4>3
    <3> QED
      BY <1>1, <1>3, <2>1, <2>4, <2>5, <3>1, <3>2 DEF OneMoreLine
  <2> HIDE DEF rows, after, last
  <2>6. \A r \in Rounds \ {round} : \A n \in DOMAIN manifest'[r] :
          LET row == manifest'[r][n]
          IN  row.source # 0 =>
                /\ row.index + 1 \in DOMAIN datasets[r]
                /\ datasets[r][row.index + 1] = row.source
                /\ \A m \in 1 .. n - 1 : manifest'[r][m].source # 0 => manifest'[r][m].index < row.index
    BY <2>1 DEF TrueInv, RowsTrue
  <2> QED
    BY <1>3, <1>5, <2>5, <2>6 DEF RowsTrue, after
<1>6. CASE Record \/ RecordError
  <2>1. UNCHANGED <<datasets, round>> /\ proc' # "finalized"
    BY <1>6 DEF Record, RecordError, kept
  <2>2. \/ UNCHANGED manifest
        \/ \E line \in {Row, Fragment} : Appends(line)
    BY <1>6, RecordAppends
  <2>3. UNCHANGED manifest => RowsTrue'
    BY <2>1 DEF TrueInv, RowsTrue
  <2> QED
    BY <1>5, <1>6, <2>1, <2>2, <2>3 DEF TrueInv
<1>7. CASE ~Finalize /\ ~Record /\ ~RecordError
  <2>1. UNCHANGED <<datasets, manifest>>
        /\ (proc' = "finalized" => proc = "finalized" /\ round' = round)
    BY <1>7 DEF Next, Run, Environment, Start, Scan, NextFile, Hold, Clear, Reject, Escape, Dispose,
       Rollover, Quarantine, GoOn, Arrive, Settle, MachineChanges, RequestStop, Crash, Gone,
       disk, kept, process
  <2> QED
    BY <2>1 DEF TrueInv, RowsTrue
<1> QED
  BY <1>4, <1>6, <1>7

\* Episodes without a row, and manifests that end in a fragment.
NoRow == {e \in Episodes : ~HasRow(e[1], e[2])}
Torn == {r \in Rounds : manifest[r] # <<>> /\ manifest[r][Len(manifest[r])] = Fragment}

\* A manifest that ends in a fragment is a row that is still to be lost.
RowInv ==
  Cardinality(NoRow) + Cardinality(Torn)
    <= crashes + 2 * rowFaults + (IF proc = "finalized" THEN 1 ELSE 0)

\* The sets that are counted are finite.
LEMMA NoRowSets ==
  ASSUME IsFiniteSet(Episodes)
  PROVE  /\ IsFiniteSet(NoRow) /\ Cardinality(NoRow) \in Nat
         /\ IsFiniteSet(Torn) /\ Cardinality(Torn) \in Nat
BY FileFacts, FS_Subset, FS_CardinalityType DEF NoRow, Torn

\* An episode that has its row keeps it: only a new episode can be without.
LEMMA NoRowGrows ==
  ASSUME TypeOK, TypeOK', AtWork, StoreInv, Next
  PROVE  NoRow' \subseteq NoRow \cup (Episodes' \ Episodes)
<1>1. \A e \in Episodes : \E r \in Rounds : \E i \in 1 .. Len(datasets[r]) : e = <<r, i>>
  BY EpisodeMember
<1>2. \A e \in Episodes : HasRow(e[1], e[2]) => HasRow(e[1], e[2])'
  BY <1>1, RowsKept
<1> QED
  BY <1>2 DEF NoRow

\* Every step keeps the count of episodes without a row.
LEMMA RowStep ==
  ASSUME TypeOK, TypeOK', AtWork, IsFiniteSet(Episodes), IsFiniteSet(Episodes'),
         StoreInv, TrueInv, RowInv, Next
  PROVE  RowInv'
<1>1. /\ IsFiniteSet(NoRow) /\ Cardinality(NoRow) \in Nat
      /\ IsFiniteSet(Torn) /\ Cardinality(Torn) \in Nat
  BY NoRowSets
<1>2. /\ IsFiniteSet(NoRow') /\ Cardinality(NoRow') \in Nat
      /\ IsFiniteSet(Torn') /\ Cardinality(Torn') \in Nat
  BY FileFacts, FS_Subset, FS_CardinalityType DEF NoRow, Torn
<1>3. crashes \in Nat /\ rowFaults \in Nat
  BY DEF TypeOK
<1>4. NoRow' \subseteq NoRow \cup (Episodes' \ Episodes)
  BY NoRowGrows
<1>5. round \in Rounds
  BY DEF TypeOK
<1>6. CASE Finalize
  <2>1. /\ UNCHANGED <<manifest, crashes, rowFaults>> /\ proc = "convert" /\ proc' = "finalized"
        /\ Current \in Files /\ datasets' = [datasets EXCEPT ![round] = Append(@, Current)]
    BY <1>6, CurrentIsFile DEF Finalize, AtFile, counters
  <2> DEFINE new == <<round, Len(datasets[round]) + 1>>
  <2>2. Episodes' = Episodes \cup {new}
    BY <1>5, <2>1, NewEpisode
  <2>3. NoRow' \subseteq NoRow \cup {new}
    BY <1>4, <2>2
  <2>4. /\ IsFiniteSet(NoRow \cup {new}) /\ Cardinality(NoRow \cup {new}) \in Nat
        /\ Cardinality(NoRow \cup {new}) <= Cardinality(NoRow) + 1
    <3>1. /\ IsFiniteSet(NoRow \cup {new})
          /\ \/ Cardinality(NoRow \cup {new}) = Cardinality(NoRow)
             \/ Cardinality(NoRow \cup {new}) = Cardinality(NoRow) + 1
      BY <1>1, FS_AddElement
    <3> QED
      BY <1>1, <3>1
  <2>5. Cardinality(NoRow') <= Cardinality(NoRow \cup {new})
    BY <2>3, <2>4, FS_Subset
  <2>6. Torn' = Torn
    BY <2>1 DEF Torn
  <2> QED
    BY <1>1, <1>2, <1>3, <2>1, <2>4, <2>5, <2>6 DEF RowInv
<1>7. ASSUME UNCHANGED datasets PROVE NoRow' \subseteq NoRow /\ Cardinality(NoRow') <= Cardinality(NoRow)
  <2>1. Episodes' = Episodes
    BY <1>7 DEF Episodes
  <2>2. NoRow' \subseteq NoRow
    BY <1>4, <2>1
  <2> QED
    BY <1>1, <2>2, FS_Subset
<1>8. CASE Record
  <2>1. /\ UNCHANGED <<datasets, crashes, rowFaults>> /\ proc = "finalized" /\ proc' = "recorded"
    BY <1>8 DEF Record, counters
  <2>2. Appends(Row) /\ Row # Fragment /\ Row.source # 0 /\ datasets[round] # <<>>
        /\ Row = [index |-> Len(datasets[round]) - 1,
                  source |-> datasets[round][Len(datasets[round])]]
    BY <1>8, RecordAppends
  <2>3. Garbled # Fragment
    BY DEF Garbled, Fragment
  <2>4. /\ \A r \in Rounds \ {round} : manifest'[r] = manifest[r]
        /\ OneMoreLine(manifest[round], Row, manifest'[round])
        /\ Len(manifest[round]) \in Nat
    BY <1>5, <2>2, AppendsEffect, ManifestType
  <2>5. round \notin Torn'
    BY <2>2, <2>3, <2>4 DEF Torn, OneMoreLine
  <2>6. Torn' \subseteq Torn
    BY <2>4, <2>5 DEF Torn
  <2>7. CASE round \in Torn
    <3>1. Torn' \subseteq Torn \ {round}
      BY <2>5, <2>6
    <3>2. /\ Cardinality(Torn \ {round}) = Cardinality(Torn) - 1 /\ IsFiniteSet(Torn \ {round})
      BY <1>1, <2>7, FS_RemoveElement
    <3>3. Cardinality(Torn') <= Cardinality(Torn) - 1
      BY <3>1, <3>2, FS_Subset
    <3> QED
      BY <1>1, <1>2, <1>3, <1>7, <2>1, <3>3 DEF RowInv
  <2>8. CASE round \notin Torn
    <3> DEFINE e == <<round, Len(datasets[round])>>
    <3>1. ~(manifest[round] # <<>> /\ manifest[round][Len(manifest[round])] = Fragment)
      BY <1>5, <2>8 DEF Torn
    <3>2. /\ manifest'[round][Len(manifest[round]) + 1] = Row
          /\ Len(manifest'[round]) = Len(manifest[round]) + 1
      BY <2>4, <3>1 DEF OneMoreLine
    <3>3. DOMAIN manifest'[round] = 1 .. Len(manifest'[round])
      BY <1>5 DEF TypeOK
    <3>4. HasRow(round, Len(datasets[round]))'
      <4>1. Len(manifest[round]) + 1 \in DOMAIN manifest'[round]
        BY <2>4, <3>2, <3>3
      <4>2. \E n \in DOMAIN manifest'[round] : manifest'[round][n] = Row
        BY <3>2, <4>1
      <4>3. HasRow(round, Len(datasets[round]))' =
              \E n \in DOMAIN manifest'[round'] :
                manifest'[round'][n] = [index |-> Len(datasets'[round']) - 1,
                                        source |-> datasets'[round'][Len(datasets'[round'])]]
        BY DEF HasRow
      <4>4. round' = round
        BY <1>8 DEF Record, kept
      <4> QED
        BY <2>1, <2>2, <4>2, <4>3, <4>4
    <3>5. e \notin NoRow'
      <4>1. round' = round
        BY <1>8 DEF Record, kept
      <4> QED
        BY <2>1, <3>4, <4>1 DEF NoRow
    <3>6. e \in NoRow
      <4>1. Len(datasets[round]) \in 1 .. Len(datasets[round])
        BY <1>5, <2>2, DatasetType
      <4>2. e \in Episodes
        BY <1>5, <4>1, EpisodeMember
      <4>3. ~HasRow(round, Len(datasets[round]))
        <5> SUFFICES ASSUME NEW n \in DOMAIN manifest[round], manifest[round][n] = Row PROVE FALSE
          BY <2>2 DEF HasRow
        <5>1. manifest[round][n].index < Len(datasets[round]) - 1
          BY <2>1, <2>2 DEF TrueInv
        <5>2. manifest[round][n].index = Len(datasets[round]) - 1
          BY <2>2
        <5> QED
          BY <4>1, <5>1, <5>2
      <4> QED
        BY <4>2, <4>3 DEF NoRow
    <3>7. NoRow' \subseteq NoRow \ {e}
      BY <1>7, <2>1, <3>5
    <3>8. IsFiniteSet(NoRow \ {e}) /\ Cardinality(NoRow \ {e}) = Cardinality(NoRow) - 1
      BY <1>1, <3>6, FS_RemoveElement
    <3>9. Cardinality(NoRow') <= Cardinality(NoRow) - 1
      BY <3>7, <3>8, FS_Subset
    <3>10. Cardinality(Torn') <= Cardinality(Torn)
      BY <1>1, <2>6, FS_Subset
    <3> QED
      BY <1>1, <1>2, <1>3, <2>1, <3>9, <3>10 DEF RowInv
  <2> QED
    BY <2>7, <2>8
<1>9. CASE RecordError
  <2>1. /\ UNCHANGED <<datasets, crashes>> /\ rowFaults' = rowFaults + 1 /\ proc = "finalized"
    BY <1>9 DEF RecordError
  <2>2. \A r \in Rounds \ {round} : manifest'[r] = manifest[r]
    BY <1>9, RecordAppends, AppendsEffect
  <2>3. Torn' \subseteq Torn \cup {round}
    BY <2>2 DEF Torn
  <2>4. /\ IsFiniteSet(Torn \cup {round}) /\ Cardinality(Torn \cup {round}) \in Nat
        /\ Cardinality(Torn \cup {round}) <= Cardinality(Torn) + 1
    <3>1. /\ IsFiniteSet(Torn \cup {round})
          /\ \/ Cardinality(Torn \cup {round}) = Cardinality(Torn)
             \/ Cardinality(Torn \cup {round}) = Cardinality(Torn) + 1
      BY <1>1, FS_AddElement
    <3> QED
      BY <1>1, <3>1
  <2>5. Cardinality(Torn') <= Cardinality(Torn \cup {round})
    BY <2>3, <2>4, FS_Subset
  <2> QED
    BY <1>1, <1>2, <1>3, <1>7, <2>1, <2>4, <2>5 DEF RowInv
<1>10. CASE ~Finalize /\ ~Record /\ ~RecordError
  <2>1. /\ UNCHANGED <<datasets, manifest, rowFaults>>
        /\ proc' = "finalized" => proc = "finalized"
        /\ crashes' = crashes \/ crashes' = crashes + 1
        /\ proc = "finalized" /\ proc' # "finalized" => crashes' = crashes + 1
    BY <1>10, OtherSteps
  <2>2. Torn' = Torn
    BY <2>1 DEF Torn
  <2> QED
    BY <1>1, <1>2, <1>3, <1>7, <2>1, <2>2 DEF RowInv
<1> QED
  BY <1>6, <1>8, <1>9, <1>10

-----------------------------------------------------------------------------
(* The invariant, and what follows from it.                                *)

IInv ==
  /\ TypeOK /\ Progress /\ CountInv /\ OrderInv /\ RoomInv /\ StoreInv /\ TrueInv /\ RowInv

\* The invariant holds at the first start.
LEMMA InitInv == Init => IInv
<1> SUFFICES ASSUME Init PROVE IInv
  OBVIOUS
<1>1. TypeOK
  BY TypeInit
<1>2. Progress
  BY DEF Init, Progress, AtWork, AtFile
<1>3. \A r \in Rounds : datasets[r] = <<>> /\ manifest[r] = <<>>
  BY DEF Init
<1>4. Episodes = {}
  BY <1>1, <1>3, EpisodeMember
<1>5. CountInv
  <2>1. \A F \in SUBSET Files : From(F) = {}
    BY <1>4 DEF From
  <2>2. IsFiniteSet({}) /\ Cardinality({}) = 0
    BY FS_EmptySet
  <2>3. \A F \in SUBSET Files : Cardinality(F \cap Spent) \in Nat
    BY FileFacts, FS_Subset, FS_CardinalityType
  <2>4. crashes = 0
    BY DEF Init
  <2>5. ASSUME NEW F \in SUBSET Files
        PROVE  Cardinality(From(F)) <= Cardinality(F \cap Spent) + crashes
    <3>1. From(F) = {}
      BY <2>1
    <3>2. Cardinality(From(F)) = 0
      BY <2>2, <3>1
    <3> DEFINE spent == Cardinality(F \cap Spent)
               stored == Cardinality(From(F))
    <3>3. spent \in Nat /\ stored = 0
      BY <2>3, <3>2
    <3> HIDE DEF spent, stored
    <3>4. stored <= spent + crashes
      BY <2>4, <3>3
    <3> QED
      BY <3>4 DEF spent, stored
  <2> QED
    BY <1>4, <2>2, <2>5 DEF CountInv
<1>6. OrderInv
  BY <1>3 DEF OrderInv, RoundsInOrder, Init
<1>7. RoomInv
  <2>1. proc = "down" /\ rowFaults = 0 /\ countFaults = 0
    BY DEF Init
  <2>2. cfg.numDemos \in Int /\ (cfg.capped => cfg.numDemos >= 1)
    BY <1>1, ConfigType DEF ConfigFacts
  <2>3. \A r \in Rounds : Len(datasets[r]) = 0
    BY <1>3
  <2> QED
    BY <2>1, <2>2, <2>3 DEF RoomInv, RoundsNotOverfull
<1>8. StoreInv
  BY DEF Init, StoreInv, NoEpisodeLost
<1>9. TrueInv
  BY <1>3 DEF Init, TrueInv, RowsTrue
<1>10. RowInv
  <2>1. NoRow = {} /\ Torn = {}
    BY <1>3, <1>4 DEF NoRow, Torn
  <2>2. crashes = 0 /\ rowFaults = 0 /\ proc = "down" /\ Cardinality({}) = 0
    BY FS_EmptySet DEF Init
  <2> QED
    BY <2>1, <2>2 DEF RowInv
<1> QED
  BY <1>1, <1>2, <1>5, <1>6, <1>7, <1>8, <1>9, <1>10 DEF IInv

\* Stuttering keeps the invariant.
LEMMA StutterInv ==
  ASSUME IInv, UNCHANGED vars
  PROVE  IInv'
<1>1. /\ UNCHANGED <<cfg, place, datasets, manifest, proc, round, batch, stop, gpuPaused, machine>>
      /\ UNCHANGED <<crashes, rowFaults, countFaults, stops>>
  BY DEF vars, disk, process, kept, counters
<1>2. TypeOK'
  BY <1>1 DEF IInv, TypeOK
<1>3. Progress'
  BY <1>1 DEF IInv, Progress, AtWork, Current
<1>4. Episodes' = Episodes /\ Spent' = Spent /\ \A F \in SUBSET Files : From(F)' = From(F)
  BY <1>1 DEF Episodes, Spent, Handled, Current, From
<1>5. CountInv'
  BY <1>1, <1>4 DEF IInv, CountInv
<1>6. OrderInv' /\ RoomInv'
  BY <1>1 DEF IInv, OrderInv, RoomInv, Room, RoundsInOrder, RoundsNotOverfull, Full
<1>7. \A r, i : HasRow(r, i)' = HasRow(r, i) /\ Spoilt(r)' = Spoilt(r)
  BY <1>1 DEF HasRow, Spoilt
<1>8. StoreInv'
  BY <1>1, <1>4, <1>7 DEF IInv, StoreInv, NoEpisodeLost, Stored, Written, Current
<1>9. TrueInv'
  BY <1>1 DEF IInv, TrueInv, RowsTrue
<1>10. NoRow' = NoRow /\ Torn' = Torn
  BY <1>1, <1>4, <1>7 DEF NoRow, Torn
<1>11. RowInv'
  BY <1>1, <1>10 DEF IInv, RowInv
<1> QED
  BY <1>2, <1>3, <1>5, <1>6, <1>8, <1>9, <1>11 DEF IInv

\* Every step keeps the invariant.
LEMMA InductiveInv == IInv /\ [Next]_vars => IInv'
<1>1. ASSUME IInv, Next PROVE IInv'
  <2>0. AtWork /\ Enough
    BY <1>1, EnoughRounds DEF IInv, Progress
  <2>1. TypeOK'
    BY <1>1, <2>0, TypeStep DEF IInv
  <2>2. Progress' /\ CountInv'
    BY <1>1, ProgressStep, CountStep DEF IInv
  <2>3. OrderInv' /\ RoomInv'
    BY <1>1, <2>0, <2>1, OrderStep, RoomStep DEF IInv
  <2>4. StoreInv' /\ TrueInv'
    BY <1>1, <2>0, <2>1, StoreStep, TrueStep DEF IInv
  <2>5. RowInv'
    BY <1>1, <2>0, <2>1, <2>2, RowStep DEF IInv, CountInv
  <2> QED
    BY <2>1, <2>2, <2>3, <2>4, <2>5 DEF IInv
<1> QED
  BY <1>1, StutterInv

\* The invariant holds always.
LEMMA Invariance == Spec => []IInv
BY InitInv, InductiveInv, PTL DEF Spec

\* The converter's state is always well typed; that the round number never
\* leaves Rounds says that the rounds of this model never run out.
THEOREM TypeCorrect == Spec => []TypeOK
<1>1. IInv => TypeOK
  BY DEF IInv
<1> QED
  BY <1>1, Invariance, PTL

\* "Only then is the source deleted" (realtime_converter.py:19): whatever
\* crashes, restarts and I/O errors happen, a file leaves the queue for good only
\* when its episode is in a dataset and accounted for in its manifest.
THEOREM LossCorrect == Spec => []NoEpisodeLost
<1>1. IInv => NoEpisodeLost
  BY DEF IInv, StoreInv
<1> QED
  BY <1>1, Invariance, PTL

\* "A crash between finalize and delete re-appends one duplicate episode"
\* (realtime_converter.py:23): n crashes make n duplicates at most, counted over
\* any set of files and all rounds.
THEOREM DuplicatesCorrect == Spec => []DuplicatesNeedCrashes
<1>1. IInv => DuplicatesNeedCrashes
  <2> SUFFICES ASSUME IInv, NEW F \in SUBSET Files
               PROVE  Cardinality(From(F)) <= Cardinality(F) + crashes
    BY DEF DuplicatesNeedCrashes, From
  <2>1. IsFiniteSet(F)
    BY FileFacts, FS_Subset
  <2>2. /\ Cardinality(F \cap Spent) <= Cardinality(F)
        /\ Cardinality(F \cap Spent) \in Nat /\ Cardinality(F) \in Nat
    BY <2>1, FS_Subset, FS_CardinalityType
  <2>3. Cardinality(From(F)) <= Cardinality(F \cap Spent) + crashes /\ Cardinality(From(F)) \in Nat
    BY FS_Subset, FS_CardinalityType DEF IInv, CountInv, From
  <2>4. crashes \in Nat
    BY DEF IInv, TypeOK
  <2> QED
    BY <2>2, <2>3, <2>4
<1> QED
  BY <1>1, Invariance, PTL

\* Rounds fill up in order over all restarts, so that _initial_round finds the
\* one that was being filled.
THEOREM OrderCorrect == Spec => []RoundsInOrder
<1>1. IInv => RoundsInOrder
  BY DEF IInv, OrderInv
<1> QED
  BY <1>1, Invariance, PTL

\* No round, and no capped dataset, gets more than num_demos episodes, but for
\* one per I/O error on a manifest row and one per unreadable info.json.
THEOREM RoomCorrect == Spec => []RoundsNotOverfull
<1>1. IInv => RoundsNotOverfull
  BY DEF IInv, RoomInv
<1> QED
  BY <1>1, Invariance, PTL

\* Every manifest row that can be read names the file of the episode at its
\* episode_index, and rows are in the order of the conversions.
THEOREM RowsCorrect == Spec => []RowsTrue
<1>1. IInv => RowsTrue
  BY DEF IInv, TrueInv
<1> QED
  BY <1>1, Invariance, PTL

\* "A crash mid-run never corrupts earlier rows" (manifest.py:11): a crash
\* costs one row, and a failed append two.
THEOREM AccountCorrect == Spec => []RowsAccounted
<1>1. IInv => RowsAccounted
  <2> SUFFICES ASSUME IInv PROVE RowsAccounted
    OBVIOUS
  <2>1. Cardinality(NoRow) \in Nat /\ Cardinality(Torn) \in Nat
    BY NoRowSets DEF IInv, CountInv
  <2>2. crashes \in Nat /\ rowFaults \in Nat
    BY DEF IInv, TypeOK
  <2>3. Cardinality(NoRow)
          <= crashes + 2 * rowFaults + (IF proc = "finalized" THEN 1 ELSE 0)
    BY <2>1, <2>2 DEF IInv, RowInv
  <2> QED
    BY <2>3 DEF RowsAccounted, NoRow
<1> QED
  BY <1>1, Invariance, PTL

-----------------------------------------------------------------------------
(* Refinement.                                                             *)

\* Where the queue has the file of each place.
WhereIs(p) == CASE p = "robot" -> "away"
                [] p \in {"fresh", "ready"} -> "queued"
                [] p = "done" -> "done"
                [] p = "failed" -> "aside"

\* An empty directory is an empty queue.
LEMMA QueueInit == Init => Queue!Init
<1> SUFFICES ASSUME Init PROVE Queue!Init
  OBVIOUS
<1>1. Episodes = {}
  <2>1. \A r \in Rounds : datasets[r] = <<>>
    BY DEF Init
  <2> QED
    BY <2>1, TypeInit, EpisodeMember
<1>2. \A f \in Files : Copies(f) = 0
  BY <1>1, FS_EmptySet DEF Copies
<1>3. \A f \in Files : place[f] = "robot"
  BY DEF Init
<1> QED
  BY <1>2, <1>3 DEF Queue!Init

\* Every step of the converter is one of the queue, or nothing to it: a finalize
\* stores, the disposition finishes or sets aside, and no crash is visible.
LEMMA QueueStep == IInv /\ [Next]_vars => [Queue!Next]_(Queue!vars)
<1> SUFFICES ASSUME IInv, [Next]_vars PROVE Queue!Next \/ UNCHANGED Queue!vars
  OBVIOUS
<1> DEFINE where == [f \in Files |-> WhereIs(place[f])]
           copies == [f \in Files |-> Copies(f)]
<1>1. where' = where /\ copies' = copies => UNCHANGED Queue!vars
  BY DEF Queue!vars, WhereIs
<1>2. UNCHANGED datasets => copies' = copies
  BY DEF Copies, Episodes
<1>3. /\ TypeOK /\ Progress /\ CountInv /\ StoreInv
      /\ place \in [Files -> {"robot", "fresh", "ready", "done", "failed"}]
  BY DEF IInv, TypeOK
<1>4. ASSUME NEW f \in Files, where[f] = "away", where' = [where EXCEPT ![f] = "queued"],
             copies' = copies
      PROVE  Queue!Next
  BY <1>4 DEF Queue!Next, Queue!Arrive, Queue!Moves, WhereIs
<1>5. ASSUME NEW f \in Files, where[f] = "queued", where' = where,
             copies' = [copies EXCEPT ![f] = @ + 1]
      PROVE  Queue!Next
  BY <1>5 DEF Queue!Next, Queue!Store, WhereIs
<1>6. ASSUME NEW f \in Files, where[f] = "queued", copies[f] > 0,
             where' = [where EXCEPT ![f] = "done"], copies' = copies
      PROVE  Queue!Next
  BY <1>6 DEF Queue!Next, Queue!Finish, Queue!Moves, WhereIs
<1>7. ASSUME NEW f \in Files, where[f] = "queued",
             where' = [where EXCEPT ![f] = "aside"], copies' = copies
      PROVE  Queue!Next
  BY <1>7 DEF Queue!Next, Queue!SetAside, Queue!Moves, WhereIs
<1>8. CASE UNCHANGED <<place, datasets>>
  BY <1>1, <1>2, <1>8
<1>9. ASSUME NEW f \in Files, Settle(f)
      PROVE  UNCHANGED Queue!vars
  <2>1. /\ place[f] = "fresh" /\ place' = [place EXCEPT ![f] = "ready"] /\ UNCHANGED datasets
    BY <1>9 DEF Settle
  <2>2. \A g \in Files : WhereIs(place'[g]) = WhereIs(place[g])
    BY <1>3, <2>1 DEF WhereIs
  <2> QED
    BY <1>1, <1>2, <2>1, <2>2
<1>10. ASSUME NEW f \in Files, Arrive(f)
       PROVE  Queue!Next
  <2>1. /\ place[f] = "robot" /\ place' = [place EXCEPT ![f] = "fresh"] /\ UNCHANGED datasets
    BY <1>10 DEF Arrive
  <2>2. where[f] = "away" /\ where' = [where EXCEPT ![f] = "queued"]
    BY <1>3, <2>1 DEF WhereIs
  <2> QED
    BY <1>2, <1>4, <2>1, <2>2
<1>11. CASE Finalize
  <2>1. UNCHANGED place /\ Current \in Files /\ place[Current] = "ready"
    BY <1>3, <1>11, CurrentFile DEF Finalize, AtFile
  <2>2. where[Current] = "queued" /\ where' = where
    BY <2>1 DEF WhereIs
  <2>3. ASSUME NEW f \in Files
        PROVE  Copies(f)' = IF f = Current THEN Copies(f) + 1 ELSE Copies(f)
    <3>1. Copies(f) = Cardinality(From({f})) /\ Copies(f)' = Cardinality(From({f})')
      BY DEF Copies, From
    <3>2. Cardinality(From({f})') = Cardinality(From({f})) + (IF Current \in {f} THEN 1 ELSE 0)
      BY <1>3, <1>11, OneMoreEpisode DEF CountInv, Progress
    <3>3. Cardinality(From({f})) \in Nat
      BY <1>3, FS_Subset, FS_CardinalityType DEF CountInv, From
    <3> QED
      BY <3>1, <3>2, <3>3
  <2>4. copies' = [copies EXCEPT ![Current] = @ + 1]
    BY <2>1, <2>3
  <2> QED
    BY <1>5, <2>1, <2>2, <2>4
<1>12. CASE Dispose
  <2>1. /\ place' = [place EXCEPT ![Current] = "done"] /\ UNCHANGED datasets
        /\ Current \in Files /\ place[Current] = "ready" /\ proc = "recorded"
    BY <1>3, <1>12, CurrentFile DEF Dispose, AtFile
  <2>2. where[Current] = "queued" /\ where' = [where EXCEPT ![Current] = "done"]
    BY <1>3, <2>1 DEF WhereIs
  <2>3. copies[Current] > 0
    <3> DEFINE e == <<round, Len(datasets[round])>>
               from == {d \in Episodes : datasets[d[1]][d[2]] = Current}
    <3>1. /\ round \in Rounds /\ datasets[round] # <<>>
          /\ datasets[round][Len(datasets[round])] = Current
      BY <1>3, <2>1 DEF StoreInv, TypeOK
    <3>2. Len(datasets[round]) \in 1 .. Len(datasets[round])
      BY <1>3, <3>1, DatasetType
    <3>3. e \in Episodes
      BY <1>3, <3>1, <3>2, EpisodeMember
    <3>4. e \in from
      BY <3>1, <3>3
    <3>5. IsFiniteSet(from) /\ Cardinality(from) \in Nat
      BY <1>3, FS_Subset, FS_CardinalityType DEF CountInv
    <3>6. Cardinality(from) # 0
      BY <3>4, <3>5, FS_EmptySet
    <3>7. copies[Current] = Cardinality(from)
      BY <2>1 DEF Copies
    <3> QED
      BY <3>5, <3>6, <3>7
  <2> QED
    BY <1>2, <1>6, <2>1, <2>2, <2>3
<1>13. CASE Quarantine
  <2>1. /\ place' = [place EXCEPT ![Current] = "failed"] /\ UNCHANGED datasets
        /\ Current \in Files /\ place[Current] = "ready"
    BY <1>3, <1>13, CurrentFile DEF Quarantine, GoOn, AtFile
  <2>2. where[Current] = "queued" /\ where' = [where EXCEPT ![Current] = "aside"]
    BY <1>3, <2>1 DEF WhereIs
  <2> QED
    BY <1>2, <1>7, <2>1, <2>2
<1> QED
  BY <1>8, <1>9, <1>10, <1>11, <1>12, <1>13 DEF Next, Run, Environment, Start, Scan, NextFile,
     Hold, Clear, Reject, Escape, Record, RecordError, Rollover, MachineChanges, RequestStop,
     Crash, disk, vars

\* The converter implements the ingest queue: each file is stored at least once
\* or set aside, is stored only while it is queued, and is done only when stored.
THEOREM QueueImplemented == Spec => ImplementsQueue
BY QueueInit, QueueStep, Invariance, PTL DEF Spec, ImplementsQueue, Queue!Spec
=============================================================================
