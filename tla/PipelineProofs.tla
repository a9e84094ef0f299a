--------------------------- MODULE PipelineProofs ---------------------------
(***************************************************************************)
(* Delivery from the robot to the datasets, proved for any number of       *)
(* recordings, crashes of either daemon and failed commands.  The facts of *)
(* ConverterProofs about the converter's steps are used as they are.       *)
(***************************************************************************)
EXTENDS Pipeline, ConverterProofs

Busy == {"sidecar", "body", "reveal", "reclaim"}
Sending == Sender!Sending

\* Both sides number the files in the same way.
LEMMA SameFiles == Sender!Files = Files
BY DEF Files, Sender!Files

-----------------------------------------------------------------------------
(* The inductive invariant.                                                *)

\* The types of the sender's variables, without what it knows of the file at
\* hand.
SenderTypes ==
  /\ local \in [Files -> {"recording", "pending", "sent"}]
  /\ phase \in {"down", "scan", "next"} \cup Busy
  /\ queue \in SUBSET Files
  /\ sidecar \in [Files -> {"none", "part", "whole"}]
  /\ staged \in [Files -> {"none", "part", "whole"}]
  /\ place \in [Files -> {"robot", "fresh", "ready", "done", "failed"}]
  /\ sendFaults \in 0 .. MaxSendFaults /\ sendCrashes \in 0 .. MaxSendCrashes
  /\ sendStops \in 0 .. MaxSendStops

\* What the sender has sent is on the robot still, and what it has done for
\* the file at hand.
SendInv ==
  /\ \A f \in queue : local[f] = "pending"
  /\ phase \in Busy => queue # {}
  /\ phase = "reveal" => staged[Sending] = "whole"
  /\ phase = "reclaim" => place[Sending] # "robot"
  /\ phase \in {"body", "reveal"} /\ Checksum /\ place[Sending] = "robot" => sidecar[Sending] = "whole"
  /\ \A f \in Files : local[f] = "sent" => place[f] # "robot"

\* What a scan has listed has arrived, and the converter alone takes it away.
BatchInv ==
  /\ AtWork
  /\ \A f \in batch : place[f] \in {"fresh", "ready"} \/ (proc = "disposed" /\ f = Current)

\* The files of which one more copy may be delivered, or converted, without a
\* fault: the robot has them and does not know of a delivery, or they are in
\* the ingest directory and not converted.
ToDeliver == {f \in Files : local[f] # "sent" /\ ~(phase = "reclaim" /\ f = Sending)}
ToConvert == {f \in Files : place[f] \in {"fresh", "ready"}} \ Handled

Faults == crashes + sendFaults + sendCrashes

CreditInv ==
  /\ IsFiniteSet(Episodes)
  /\ \A F \in SUBSET Files :
       Cardinality(From(F)) + Cardinality(F \cap ToDeliver) + Cardinality(F \cap ToConvert)
         <= Cardinality(F) + Faults

\* What ConverterProofs knows of the datasets and manifests, arrivals apart.
StoredInv == OrderInv /\ RoomInv /\ StoreInv /\ TrueInv /\ RowInv

AllInv ==
  TypeOK /\ SenderTypes /\ SendInv /\ BatchInv /\ CreditInv /\ StoredInv

-----------------------------------------------------------------------------
(* The sender's types.                                                     *)

\* The file being sent is in the queue.
LEMMA SendingIn ==
  ASSUME queue \in SUBSET Files, queue # {}
  PROVE  Sending \in queue /\ Sending \in Files
<1>1. PICK f \in queue : \A g \in queue : f <= g
  BY FileFacts, Least
<1> QED
  BY <1>1 DEF Sending, Sender!Sending

\* They are the sender's type invariant, for SendInv tells the rest.
LEMMA SenderTypeParts ==
  /\ Sender!SenderTypeOK => SenderTypes
  /\ SenderTypes /\ SendInv => Sender!SenderTypeOK
<1>1. Sender!SenderTypeOK => SenderTypes
  BY SameFiles DEF Sender!SenderTypeOK, SenderTypes, Busy
<1>2. ASSUME SenderTypes, SendInv PROVE Sender!SenderTypeOK
  <2>1. phase \in Busy => queue # {} /\ local[Sending] = "pending"
    BY <1>2, SendingIn DEF SendInv, SenderTypes
  <2> QED
    BY <1>2, <2>1, SameFiles DEF SenderTypes, Sender!SenderTypeOK, Busy, Sending
<1> QED
  BY <1>1, <1>2

-----------------------------------------------------------------------------
(* The sender's steps.                                                     *)

\* A remote command, whether it went through or not, makes a sidecar, a staged
\* body, or, as the last of the three, the file itself in the ingest directory.
LEMMA RemoteEffect ==
  ASSUME SenderTypes, SendInv, phase \in Busy, Sending \in Files,
         Sender!PerhapsEffect \/ UNCHANGED <<sidecar, staged, place>>
  PROVE  /\ sidecar' \in [Files -> {"none", "part", "whole"}] /\ staged' \in [Files -> {"none", "part", "whole"}]
         /\ place' \in [Files -> {"robot", "fresh", "ready", "done", "failed"}]
         /\ \/ place' = place
            \/ phase = "reveal" /\ place' = [place EXCEPT ![Sending] = "fresh"]
<1>1. \/ UNCHANGED <<sidecar, staged, place>>
      \/ (\E how \in {"part", "whole"} : sidecar' = [sidecar EXCEPT ![Sending] = how])
           /\ UNCHANGED <<staged, place>>
      \/ (\E how \in {"part", "whole"} : staged' = [staged EXCEPT ![Sending] = how])
           /\ UNCHANGED <<sidecar, place>>
      \/ /\ phase = "reveal" /\ place' = [place EXCEPT ![Sending] = "fresh"]
         /\ staged' = [staged EXCEPT ![Sending] = "none"] /\ UNCHANGED sidecar
  BY DEF Sender!PerhapsEffect, Sender!Effect, Sender!SidecarSent, Sender!BodySent, Sender!Revealed,
     Sender!remote, Sending
<1>2. CASE UNCHANGED <<sidecar, staged, place>>
  BY <1>2 DEF SenderTypes
<1>3. CASE /\ \E how \in {"part", "whole"} : sidecar' = [sidecar EXCEPT ![Sending] = how]
           /\ UNCHANGED <<staged, place>>
  BY <1>3 DEF SenderTypes
<1>4. CASE /\ \E how \in {"part", "whole"} : staged' = [staged EXCEPT ![Sending] = how]
           /\ UNCHANGED <<sidecar, place>>
  BY <1>4 DEF SenderTypes
<1>5. CASE /\ phase = "reveal" /\ place' = [place EXCEPT ![Sending] = "fresh"]
           /\ staged' = [staged EXCEPT ![Sending] = "none"] /\ UNCHANGED sidecar
  BY <1>5 DEF SenderTypes
<1> QED
  BY <1>1, <1>2, <1>3, <1>4, <1>5

\* The six ways in which a step of the sender changes what the invariant sees.
NewRecording ==
  /\ UNCHANGED <<phase, queue, sidecar, staged, place, sendFaults, sendCrashes, sendStops>>
  /\ \E f \in Files : local[f] = "recording" /\ local' = [local EXCEPT ![f] = "pending"]

Idle ==
  /\ UNCHANGED <<local, sidecar, staged, place, sendFaults, sendCrashes>>
  /\ phase \notin Busy /\ sendStops' \in 0 .. MaxSendStops
  /\ phase' \in {"down", "scan", "next", "sidecar", "body"}
  /\ queue' \in SUBSET Files /\ \A f \in queue' : local[f] = "pending"
  /\ phase' \in {"sidecar", "body"} => queue' # {}
  /\ phase' = "body" => ~Checksum

CommandEffect ==
  /\ UNCHANGED <<local, queue, sendFaults, sendCrashes, sendStops>>
  /\ \/ /\ phase = "sidecar" /\ phase' = "body" /\ UNCHANGED <<staged, place>>
        /\ sidecar' = [sidecar EXCEPT ![Sending] = "whole"]
     \/ /\ phase = "body" /\ phase' = "reveal" /\ UNCHANGED <<sidecar, place>>
        /\ staged' = [staged EXCEPT ![Sending] = "whole"]
     \/ /\ phase = "reveal" /\ phase' = "reclaim" /\ UNCHANGED sidecar
        /\ place' = [place EXCEPT ![Sending] = "fresh"]
        /\ staged' = [staged EXCEPT ![Sending] = "none"]

FailedAtFile ==
  /\ phase \in Busy /\ phase' \in {"down", "next"} /\ queue' \subseteq queue
  /\ UNCHANGED <<local, sendStops>>
  /\ Sender!PerhapsEffect \/ UNCHANGED <<sidecar, staged, place>>
  /\ \/ UNCHANGED sendCrashes /\ sendFaults' = sendFaults + 1 /\ sendFaults < MaxSendFaults
     \/ UNCHANGED sendFaults /\ sendCrashes' = sendCrashes + 1 /\ sendCrashes < MaxSendCrashes

KilledBetween ==
  /\ phase \notin Busy /\ phase' = "down" /\ queue' = {}
  /\ UNCHANGED <<local, sidecar, staged, place, sendStops, sendFaults>>
  /\ sendCrashes' = sendCrashes + 1 /\ sendCrashes < MaxSendCrashes

Reclaimed ==
  /\ phase = "reclaim" /\ phase' = "next" /\ queue' = queue \ {Sending}
  /\ local' = [local EXCEPT ![Sending] = "sent"]
  /\ UNCHANGED <<sidecar, staged, place, sendFaults, sendCrashes, sendStops>>

\* Each step of the sender is one of the six.
LEMMA SenderEffect ==
  ASSUME SenderTypes, SendInv, Sender!SenderNext
  PROVE  NewRecording \/ Idle \/ CommandEffect \/ FailedAtFile \/ KilledBetween \/ Reclaimed
<1>1. ASSUME NEW f \in Sender!Files, Sender!Recorded(f) PROVE NewRecording
  BY <1>1, SameFiles DEF Sender!Recorded, Sender!sender, Sender!remote, Sender!sendCounters, NewRecording
<1>2. Sender!Pending \in SUBSET Files /\ \A f \in Sender!Pending : local[f] = "pending"
  BY SameFiles DEF Sender!Pending
<1>3. ASSUME Sender!SenderStart PROVE Idle
  BY <1>3 DEF Sender!SenderStart, Sender!remote, Sender!sendCounters, Busy, SenderTypes, SendInv, Idle
<1>4. ASSUME Sender!ScanLocal PROVE Idle
  BY <1>4, <1>2 DEF Sender!ScanLocal, Sender!SenderGone, Sender!remote, Sender!sendCounters, Busy,
     SenderTypes, SendInv, Idle
<1>5. ASSUME Sender!NextEpisode PROVE Idle
  BY <1>5 DEF Sender!NextEpisode, Sender!SenderGone, Sender!remote, Sender!sendCounters, Busy,
     SenderTypes, SendInv, Idle
<1>6. ASSUME Sender!StopNow PROVE Idle
  <2>1. sendStops' \in 0 .. MaxSendStops
    BY <1>6, SendBoundsAssumption DEF Sender!StopNow, SenderTypes
  <2> QED
    BY <1>6, <2>1 DEF Sender!StopNow, Sender!SenderGone, Sender!remote, Busy, Idle
<1>7. ASSUME Sender!Command PROVE CommandEffect
  BY <1>7 DEF Sender!Command, Sender!Effect, Sender!SidecarSent, Sender!BodySent, Sender!Revealed,
     Sender!Following, Sender!sendCounters, CommandEffect, Sending
<1>8. ASSUME Sender!CommandFails PROVE FailedAtFile
  <2>1. phase \in Busy
    BY <1>8 DEF Sender!CommandFails, Sender!PerhapsEffect, Sender!Effect, Sender!SidecarSent,
       Sender!BodySent, Sender!Revealed, Sender!Following, Busy
  <2> QED
    BY <1>8, <2>1 DEF Sender!CommandFails, Sender!SendFault, Sender!AfterError, Sender!LeaveFile,
       FailedAtFile
<1>9. ASSUME Sender!Reclaim PROVE Reclaimed
  BY <1>9 DEF Sender!Reclaim, Sender!LeaveFile, Sender!remote, Sender!sendCounters, Sending, Reclaimed
<1>10. ASSUME Sender!ReclaimFails PROVE FailedAtFile
  BY <1>10 DEF Sender!ReclaimFails, Sender!SendFault, Sender!LeaveFile, Sender!remote, Busy, FailedAtFile
<1>11. ASSUME Sender!SenderCrash PROVE FailedAtFile \/ KilledBetween
  <2>1. CASE phase \in Busy
    BY <1>11, <2>1 DEF Sender!SenderCrash, Sender!SenderGone, Sender!remote, FailedAtFile
  <2>2. CASE phase \notin Busy
    <3>1. UNCHANGED <<sidecar, staged, place>>
      BY <1>11, <2>2 DEF Sender!SenderCrash, Sender!PerhapsEffect, Sender!Effect, Sender!SidecarSent,
         Sender!BodySent, Sender!Revealed, Sender!Following, Sender!remote, Busy
    <3> QED
      BY <1>11, <2>2, <3>1 DEF Sender!SenderCrash, Sender!SenderGone, KilledBetween
  <2> QED
    BY <2>1, <2>2
<1> QED
  BY <1>1, <1>3, <1>4, <1>5, <1>6, <1>7, <1>8, <1>9, <1>10, <1>11 DEF Sender!SenderNext, Sender!SendLoop

-----------------------------------------------------------------------------
(* The sender's side.                                                      *)

\* The sender's steps keep its types and SendInv.
LEMMA SenderKeeps ==
  ASSUME SenderTypes, SendInv, Sender!SenderNext
  PROVE  SenderTypes' /\ SendInv'
<1> USE DEF Busy
<1>1. phase \in Busy => Sending \in queue /\ Sending \in Files
  BY SendingIn DEF SenderTypes, SendInv
<1>2. queue' = queue => Sending' = Sending
  BY DEF Sending, Sender!Sending
<1>3. CASE NewRecording
  BY <1>2, <1>3 DEF NewRecording, SenderTypes, SendInv
<1>4. CASE Idle
  BY <1>4 DEF Idle, SenderTypes, SendInv
<1>5. CASE CommandEffect
  <2>1. SenderTypes'
    BY <1>1, <1>5 DEF CommandEffect, SenderTypes
  <2> QED
    BY <1>1, <1>2, <1>5, <2>1 DEF CommandEffect, SenderTypes, SendInv
<1>6. CASE FailedAtFile
  <2>1. /\ phase \in Busy /\ phase' \in {"down", "next"} /\ queue' \subseteq queue
        /\ UNCHANGED <<local, sendStops>>
        /\ Sender!PerhapsEffect \/ UNCHANGED <<sidecar, staged, place>>
    BY <1>6 DEF FailedAtFile
  <2>2. sendFaults' \in 0 .. MaxSendFaults /\ sendCrashes' \in 0 .. MaxSendCrashes
    BY <1>6, SendBoundsAssumption DEF FailedAtFile, SenderTypes
  <2>3. /\ sidecar' \in [Files -> {"none", "part", "whole"}] /\ staged' \in [Files -> {"none", "part", "whole"}]
        /\ place' \in [Files -> {"robot", "fresh", "ready", "done", "failed"}]
        /\ place' = place \/ place' = [place EXCEPT ![Sending] = "fresh"]
    BY <1>1, <2>1, RemoteEffect
  <2>4. \A f \in Files : place[f] # "robot" => place'[f] # "robot"
    BY <1>1, <2>1, <2>3 DEF SenderTypes
  <2>5. SenderTypes'
    BY <2>1, <2>2, <2>3 DEF SenderTypes
  <2> QED
    BY <2>1, <2>4, <2>5 DEF SendInv
<1>7. CASE KilledBetween
  <2>1. sendCrashes' \in 0 .. MaxSendCrashes
    BY <1>7, SendBoundsAssumption DEF KilledBetween, SenderTypes
  <2> QED
    BY <1>7, <2>1 DEF KilledBetween, SenderTypes, SendInv
<1>8. CASE Reclaimed
  BY <1>1, <1>8 DEF Reclaimed, SenderTypes, SendInv
<1> QED
  BY <1>3, <1>4, <1>5, <1>6, <1>7, <1>8, SenderEffect

\* The sender makes files and nothing else in the ingest directory.
LEMMA SenderPlaces ==
  ASSUME SenderTypes, SendInv, Sender!SenderNext
  PROVE  \/ place' = place
         \/ /\ phase = "reveal" /\ Sending \in Files
            /\ place' = [place EXCEPT ![Sending] = "fresh"]
<1>1. phase \in Busy => Sending \in Files
  BY SendingIn DEF SenderTypes, SendInv
<1>2. CASE FailedAtFile
  BY <1>1, <1>2, RemoteEffect DEF FailedAtFile
<1>3. CASE NewRecording \/ Idle \/ CommandEffect \/ KilledBetween \/ Reclaimed
  BY <1>1, <1>3 DEF NewRecording, Idle, CommandEffect, KilledBetween, Reclaimed, Busy
<1> QED
  BY <1>2, <1>3, SenderEffect

-----------------------------------------------------------------------------
(* The converter's side.                                                   *)

\* A file that is being worked on has arrived.
LEMMA CurrentArrived ==
  ASSUME TypeOK, BatchInv, proc \in AtFile
  PROVE  /\ Current \in batch /\ Current \in Files
         /\ proc # "disposed" => place[Current] \in {"fresh", "ready"}
BY CurrentIsFile DEF BatchInv

\* What the converter and its surroundings do to the directory: files grow
\* old, and the one at hand is taken out, its sidecar with it.
LEMMA ConverterPlaces ==
  ASSUME TypeOK, BatchInv, ConverterLoop \/ ConverterAround
  PROVE  /\ Next /\ UNCHANGED senderOwn
         /\ \/ UNCHANGED <<place, sidecar>> /\ ~Dispose /\ ~Quarantine
            \/ \E f \in Files : /\ Settle(f) /\ UNCHANGED sidecar
            \/ /\ Dispose \/ Quarantine
               /\ Current \in Files /\ place[Current] \in {"fresh", "ready"}
               /\ sidecar' = [sidecar EXCEPT ![Current] = "none"]
<1>1. CASE TakeAway /\ UNCHANGED senderOwn
  <2>1. Dispose \/ Quarantine
    BY <1>1 DEF TakeAway
  <2>2. proc \in AtFile /\ proc # "disposed"
    BY <2>1 DEF Dispose, Quarantine, AtFile
  <2> QED
    BY <1>1, <2>1, <2>2, CurrentArrived DEF TakeAway, Next, Run
<1>2. CASE ConvertOnly /\ UNCHANGED senderOwn
  BY <1>2 DEF ConvertOnly, Next, Run, Scan, NextFile, Hold, Clear, Finalize, Reject, Escape, Record,
     RecordError, Rollover, Dispose, Quarantine, disk
<1>3. CASE ConverterAround
  <2>1. CASE Start \/ Crash \/ MachineChanges \/ RequestStop
    <3>1. Next /\ UNCHANGED <<senderOwn, sidecar>>
      BY <1>3, <2>1 DEF ConverterAround, Next, Environment, TypeOK, Settle, Start, Crash, MachineChanges,
         RequestStop, Gone, disk, process
    <3>2. UNCHANGED place
      BY <2>1 DEF Start, Crash, MachineChanges, RequestStop, disk
    <3>3. ~Dispose /\ ~Quarantine
      BY <2>1 DEF Start, Crash, MachineChanges, RequestStop, Dispose, Quarantine, GoOn, Gone, process
    <3> QED
      BY <3>1, <3>2, <3>3
  <2>2. ASSUME NEW f \in Files, Settle(f)
        PROVE  Next
    BY <2>2 DEF Next, Environment
  <2> QED
    BY <1>3, <2>1, <2>2 DEF ConverterAround
<1> QED
  BY <1>1, <1>2, <1>3 DEF ConverterLoop

\* A step of the converter keeps the sender's types and SendInv: it does not put
\* back what has arrived, nor take a sidecar that is yet to be followed by its
\* episode.
LEMMA ConverterKeeps ==
  ASSUME TypeOK, TypeOK', SenderTypes, SendInv, BatchInv, ConverterLoop \/ ConverterAround
  PROVE  SenderTypes' /\ SendInv'
<1>1. UNCHANGED senderOwn /\ Sending' = Sending
  BY ConverterPlaces DEF senderOwn, Sending, Sender!Sending
<1>2. /\ sidecar' \in [Files -> {"none", "part", "whole"}]
      /\ \A f \in Files : (place[f] = "robot" <=> place'[f] = "robot")
                            /\ (place[f] = "robot" => sidecar'[f] = sidecar[f])
  <2>1. CASE UNCHANGED <<place, sidecar>>
    BY <2>1 DEF SenderTypes
  <2>2. ASSUME NEW f \in Files, Settle(f), UNCHANGED sidecar
        PROVE  <1>2!:
    BY <2>2 DEF SenderTypes, Settle
  <2>3. CASE /\ Dispose \/ Quarantine
             /\ Current \in Files /\ place[Current] \in {"fresh", "ready"}
             /\ sidecar' = [sidecar EXCEPT ![Current] = "none"]
    BY <2>3 DEF SenderTypes, Dispose, Quarantine
  <2> QED
    BY <2>1, <2>2, <2>3, ConverterPlaces
<1>3. SenderTypes'
  BY <1>1, <1>2 DEF SenderTypes, senderOwn, TypeOK
<1>4. phase \in Busy => Sending \in Files
  BY SendingIn DEF SenderTypes, SendInv
<1> QED
  BY <1>1, <1>2, <1>3, <1>4 DEF SendInv, senderOwn, Busy

\* Every step keeps what has been scanned in the directory.
LEMMA BatchStep ==
  ASSUME TypeOK, BatchInv, ConverterLoop \/ ConverterAround
  PROVE  BatchInv'
<1>1. Next /\ AtWork'
  BY ConverterPlaces, AtWorkStep DEF BatchInv
<1>2. ASSUME NEW f \in Files, Settle(f)
      PROVE  BatchInv'
  BY <1>1, <1>2 DEF BatchInv, TypeOK, Settle, process, kept, Current
<1>3. CASE MachineChanges \/ RequestStop \/ Start \/ Crash \/ Escape \/ Scan
  BY <1>1, <1>3 DEF BatchInv, AtWork, TypeOK, MachineChanges, RequestStop, Start, Crash, Escape, Scan,
     Gone, Ready, process, kept, disk, AtFile, Current
<1>4. CASE NextFile \/ Hold \/ Clear \/ Finalize \/ Reject \/ Record \/ RecordError
  BY <1>1, <1>4 DEF BatchInv, TypeOK, NextFile, Hold, Clear, Finalize, Reject, Record, RecordError,
     Gone, process, kept, disk, Current
<1>5. CASE Dispose
  BY <1>1, <1>5 DEF BatchInv, TypeOK, Dispose, kept, Current
<1>6. CASE Rollover
  BY <1>1, <1>6 DEF BatchInv, TypeOK, Rollover, GoOn, Gone, disk
<1>7. CASE Quarantine
  BY <1>1, <1>7 DEF BatchInv, TypeOK, Quarantine, GoOn
<1> QED
  BY <1>2, <1>3, <1>4, <1>5, <1>6, <1>7 DEF ConverterLoop, TakeAway, ConvertOnly, ConverterAround

-----------------------------------------------------------------------------
(* The account of deliveries.                                              *)

\* What a set that loses or gains one element counts within another set.
LEMMA OneElement ==
  ASSUME NEW F, IsFiniteSet(F), NEW A, NEW B, NEW x
  PROVE  /\ Cardinality(F \cap A) \in Nat /\ Cardinality(F \cap B) \in Nat
         /\ B \subseteq A => Cardinality(F \cap B) <= Cardinality(F \cap A)
         /\ B \subseteq A \cup {x} =>
              Cardinality(F \cap B) <= Cardinality(F \cap A) + (IF x \in F THEN 1 ELSE 0)
         /\ x \in A /\ B \subseteq A \ {x} =>
              Cardinality(F \cap B) + (IF x \in F THEN 1 ELSE 0) <= Cardinality(F \cap A)
<1>1. IsFiniteSet(F \cap A) /\ IsFiniteSet(F \cap B)
  BY FS_Subset
<1>2. Cardinality(F \cap A) \in Nat /\ Cardinality(F \cap B) \in Nat
  BY <1>1, FS_CardinalityType
<1>3. ASSUME B \subseteq A PROVE Cardinality(F \cap B) <= Cardinality(F \cap A)
  <2>1. F \cap B \subseteq F \cap A
    BY <1>3
  <2> QED
    BY <1>1, <2>1, FS_Subset
<1>4. ASSUME B \subseteq A \cup {x}
      PROVE  Cardinality(F \cap B) <= Cardinality(F \cap A) + (IF x \in F THEN 1 ELSE 0)
  <2>1. CASE x \in F
    <3>1. F \cap B \subseteq (F \cap A) \cup {x}
      BY <1>4
    <3>2. /\ IsFiniteSet((F \cap A) \cup {x})
          /\ \/ Cardinality((F \cap A) \cup {x}) = Cardinality(F \cap A)
             \/ Cardinality((F \cap A) \cup {x}) = Cardinality(F \cap A) + 1
      BY <1>1, FS_AddElement
    <3>3. Cardinality(F \cap B) <= Cardinality((F \cap A) \cup {x})
          /\ Cardinality((F \cap A) \cup {x}) \in Nat
      BY <3>1, <3>2, FS_Subset, FS_CardinalityType
    <3> QED
      BY <1>2, <2>1, <3>2, <3>3
  <2>2. CASE x \notin F
    <3>1. F \cap B \subseteq F \cap A
      BY <1>4, <2>2
    <3>2. Cardinality(F \cap B) <= Cardinality(F \cap A)
      BY <1>1, <3>1, FS_Subset
    <3> QED
      BY <1>2, <2>2, <3>2
  <2> QED
    BY <2>1, <2>2
<1>5. ASSUME x \in A, B \subseteq A \ {x}
      PROVE  Cardinality(F \cap B) + (IF x \in F THEN 1 ELSE 0) <= Cardinality(F \cap A)
  <2>1. CASE x \in F
    <3>1. x \notin F \cap B /\ (F \cap B) \cup {x} \subseteq F \cap A
      BY <1>5, <2>1
    <3>2. Cardinality((F \cap B) \cup {x}) = Cardinality(F \cap B) + 1
      BY <1>1, <3>1, FS_AddElement
    <3>3. Cardinality((F \cap B) \cup {x}) <= Cardinality(F \cap A)
      BY <1>1, <3>1, FS_Subset
    <3> QED
      BY <1>2, <2>1, <3>2, <3>3
  <2>2. CASE x \notin F
    <3>1. F \cap B \subseteq F \cap A
      BY <1>5
    <3>2. Cardinality(F \cap B) <= Cardinality(F \cap A)
      BY <1>1, <3>1, FS_Subset
    <3> QED
      BY <1>2, <2>2, <3>2
  <2> QED
    BY <2>1, <2>2
<1> QED
  BY <1>2, <1>3, <1>4, <1>5

\* The account with a file x that moves in it.
Moved(x) ==
  \/ ToDeliver' \subseteq ToDeliver /\ ToConvert' \subseteq ToConvert /\ Faults' >= Faults
  \/ /\ x \in ToDeliver /\ ToDeliver' \subseteq ToDeliver \ {x}
     /\ ToConvert' \subseteq ToConvert \cup {x} /\ Faults' >= Faults
  \/ /\ ToDeliver' \subseteq ToDeliver /\ ToConvert' \subseteq ToConvert \cup {x}
     /\ Faults' >= Faults + 1
  \/ /\ ToDeliver' \subseteq ToDeliver \cup {x} /\ ToConvert' \subseteq ToConvert
     /\ Faults' >= Faults + 1

\* A step that stores nothing keeps the account, if what it gives back to be
\* delivered or to be converted is paid for by a delivery or a fault.
LEMMA CreditMoves ==
  ASSUME CreditInv, UNCHANGED datasets, Faults \in Nat, Faults' \in Nat, NEW x, Moved(x)
  PROVE  CreditInv'
<1>1. Episodes' = Episodes
  BY DEF Episodes
<1>2. ASSUME NEW F \in SUBSET Files
      PROVE  Cardinality(From(F)') + Cardinality(F \cap ToDeliver') + Cardinality(F \cap ToConvert')
               <= Cardinality(F) + Faults'
  <2> DEFINE one == IF x \in F THEN 1 ELSE 0
             stored == Cardinality(From(F))
             deliver == Cardinality(F \cap ToDeliver)
             convert == Cardinality(F \cap ToConvert)
             deliver2 == Cardinality(F \cap ToDeliver')
             convert2 == Cardinality(F \cap ToConvert')
             size == Cardinality(F)
  <2>1. From(F)' = From(F)
    BY <1>1 DEF From
  <2>2. stored \in Nat
    BY FS_Subset, FS_CardinalityType DEF CreditInv, From
  <2>3. IsFiniteSet(F) /\ size \in Nat
    BY FileFacts, FS_Subset, FS_CardinalityType
  <2>4. /\ deliver \in Nat /\ deliver2 \in Nat
        /\ ToDeliver' \subseteq ToDeliver => deliver2 <= deliver
        /\ ToDeliver' \subseteq ToDeliver \cup {x} => deliver2 <= deliver + one
        /\ x \in ToDeliver /\ ToDeliver' \subseteq ToDeliver \ {x} => deliver2 + one <= deliver
    BY <2>3, OneElement
  <2>5. /\ convert \in Nat /\ convert2 \in Nat
        /\ ToConvert' \subseteq ToConvert => convert2 <= convert
        /\ ToConvert' \subseteq ToConvert \cup {x} => convert2 <= convert + one
    BY <2>3, OneElement
  <2>6. stored + deliver + convert <= size + Faults
    BY DEF CreditInv
  <2>7. one \in {0, 1}
    OBVIOUS
  <2> HIDE DEF one, stored, deliver, convert, deliver2, convert2, size
  <2>8. \/ deliver2 <= deliver /\ convert2 <= convert /\ Faults' >= Faults
        \/ deliver2 + one <= deliver /\ convert2 <= convert + one /\ Faults' >= Faults
        \/ deliver2 <= deliver /\ convert2 <= convert + one /\ Faults' >= Faults + 1
        \/ deliver2 <= deliver + one /\ convert2 <= convert /\ Faults' >= Faults + 1
    BY <2>4, <2>5 DEF Moved
  <2>9. stored + deliver2 + convert2 <= size + Faults'
    <3>1. \A m, n \in Nat, d, c, d2, c2, e \in Nat :
            /\ stored + d + c <= size + m
            /\ e \in {0, 1}
            /\ \/ d2 <= d /\ c2 <= c /\ n >= m
               \/ d2 + e <= d /\ c2 <= c + e /\ n >= m
               \/ d2 <= d /\ c2 <= c + e /\ n >= m + 1
               \/ d2 <= d + e /\ c2 <= c /\ n >= m + 1
            => stored + d2 + c2 <= size + n
      BY <2>2, <2>3
    <3> QED
      BY <2>4, <2>5, <2>6, <2>7, <2>8, <3>1
  <2> QED
    BY <2>1, <2>9 DEF stored, deliver2, convert2, size
<1> QED
  BY <1>1, <1>2 DEF CreditInv

\* The faults are counted by natural numbers.
LEMMA FaultsType == TypeOK /\ SenderTypes => Faults \in Nat
BY BoundsAssumption, SendBoundsAssumption DEF TypeOK, SenderTypes, Faults

\* The sender's steps keep the account: a confirmed delivery uses up the one of
\* its file, and a second one takes a fault.
LEMMA SenderCredit ==
  ASSUME TypeOK, SenderTypes, SendInv, CreditInv, SenderStep
  PROVE  CreditInv'
<1>1. /\ UNCHANGED <<datasets, Handled, crashes, converterOwn>>
      /\ Sender!SenderNext
  BY DEF SenderStep, converterOwn, Handled, Current, process, kept, counters
<1>3. crashes \in Nat /\ sendFaults \in Nat /\ sendCrashes \in Nat
  BY BoundsAssumption, SendBoundsAssumption DEF TypeOK, SenderTypes
<1>2. Faults \in Nat /\ Faults' \in Nat
  <2>1. SenderTypes'
    BY <1>1, SenderKeeps
  <2>2. sendFaults' \in Nat /\ sendCrashes' \in Nat
    BY <2>1, SendBoundsAssumption DEF SenderTypes
  <2>3. crashes' \in Nat
    BY <1>1, <1>3
  <2>4. Faults' = crashes' + sendFaults' + sendCrashes'
    BY DEF Faults
  <2>5. Faults \in Nat
    BY <1>3 DEF Faults
  <2>6. \A a, b, c \in Nat : a + b + c \in Nat
    OBVIOUS
  <2> QED
    BY <2>2, <2>3, <2>4, <2>5, <2>6
<1>4. queue' = queue => Sending' = Sending
  BY DEF Sending, Sender!Sending
<1>5. phase \in Busy => Sending \in Files /\ local[Sending] = "pending"
  BY SendingIn DEF SenderTypes, SendInv
<1>6. place' = place => ToConvert' = ToConvert
  BY <1>1 DEF ToConvert
<1>7. place' = [place EXCEPT ![Sending] = "fresh"] => ToConvert' \subseteq ToConvert \cup {Sending}
  BY <1>1 DEF ToConvert, SenderTypes
<1>8. CASE NewRecording \/ Idle \/ KilledBetween
  <2>1. ToDeliver' \subseteq ToDeliver
    BY <1>4, <1>8 DEF NewRecording, Idle, KilledBetween, ToDeliver, Busy, SenderTypes
  <2>2. place' = place /\ Faults' >= Faults
    BY <1>1, <1>3, <1>8 DEF NewRecording, Idle, KilledBetween, Faults
  <2>3. Moved(Sending)
    BY <1>6, <2>1, <2>2 DEF Moved
  <2> QED
    BY <1>1, <1>2, <2>3, CreditMoves DEF converterOwn
<1>9. CASE CommandEffect
  <2>1. /\ phase \in Busy /\ UNCHANGED <<local, queue, sendFaults, sendCrashes>>
        /\ \/ phase # "reclaim" /\ phase' # "reclaim" /\ place' = place
           \/ phase = "reveal" /\ phase' = "reclaim" /\ place' = [place EXCEPT ![Sending] = "fresh"]
    BY <1>9 DEF CommandEffect, Busy
  <2>2. Faults' >= Faults
    BY <1>1, <1>3, <2>1 DEF Faults
  <2>3. ASSUME phase # "reclaim", phase' # "reclaim", place' = place
        PROVE  Moved(Sending)
    <3>1. ToDeliver' \subseteq ToDeliver
      BY <2>1, <2>3 DEF ToDeliver
    <3> QED
      BY <1>6, <2>2, <2>3, <3>1 DEF Moved
  <2>4. ASSUME phase = "reveal", phase' = "reclaim", place' = [place EXCEPT ![Sending] = "fresh"]
        PROVE  Moved(Sending)
    <3>1. Sending \in ToDeliver /\ ToDeliver' \subseteq ToDeliver \ {Sending}
      BY <1>4, <1>5, <2>1, <2>4 DEF ToDeliver
    <3> QED
      BY <1>7, <2>2, <2>4, <3>1 DEF Moved
  <2>5. Moved(Sending)
    BY <2>1, <2>3, <2>4
  <2> QED
    BY <1>1, <1>2, <2>5, CreditMoves DEF converterOwn
<1>10. CASE FailedAtFile
  <2>1. /\ phase \in Busy /\ phase' \in {"down", "next"} /\ UNCHANGED local
        /\ \/ place' = place
           \/ phase = "reveal" /\ place' = [place EXCEPT ![Sending] = "fresh"]
    BY <1>5, <1>10, RemoteEffect DEF FailedAtFile
  <2>2. Faults' >= Faults + 1
    BY <1>1, <1>3, <1>10 DEF FailedAtFile, Faults
  <2>3. ASSUME place' = place
        PROVE  Moved(Sending)
    <3>1. ToDeliver' \subseteq ToDeliver \cup {Sending}
      BY <2>1 DEF ToDeliver
    <3> QED
      BY <1>6, <2>2, <2>3, <3>1 DEF Moved
  <2>4. ASSUME phase = "reveal", place' = [place EXCEPT ![Sending] = "fresh"]
        PROVE  Moved(Sending)
    <3>1. ToDeliver' \subseteq ToDeliver
      BY <2>1, <2>4 DEF ToDeliver
    <3> QED
      BY <1>7, <2>2, <2>4, <3>1 DEF Moved
  <2>5. Moved(Sending)
    BY <2>1, <2>3, <2>4
  <2> QED
    BY <1>1, <1>2, <2>5, CreditMoves DEF converterOwn
<1>11. CASE Reclaimed
  <2>1. ToDeliver' \subseteq ToDeliver
    BY <1>5, <1>11 DEF Reclaimed, ToDeliver, Busy, SenderTypes
  <2>2. place' = place /\ Faults' >= Faults
    BY <1>1, <1>3, <1>11 DEF Reclaimed, Faults
  <2>3. Moved(Sending)
    BY <1>6, <2>1, <2>2 DEF Moved
  <2> QED
    BY <1>1, <1>2, <2>3, CreditMoves DEF converterOwn
<1> QED
  BY <1>1, <1>8, <1>9, <1>10, <1>11, SenderEffect

\* The converter's steps keep the account: what it stores is no longer to be
\* converted, unless it crashes.
LEMMA ConverterCredit ==
  ASSUME TypeOK, TypeOK', SenderTypes, BatchInv, CreditInv, ConverterLoop \/ ConverterAround
  PROVE  CreditInv'
<1>1. Next /\ UNCHANGED senderOwn
  BY ConverterPlaces
<1>2. ToDeliver' = ToDeliver
  BY <1>1 DEF senderOwn, ToDeliver, Sending, Sender!Sending
<1>3. crashes \in Nat /\ crashes' \in Nat /\ sendFaults \in Nat /\ sendCrashes \in Nat
  BY BoundsAssumption, SendBoundsAssumption DEF TypeOK, SenderTypes
<1>4. Faults \in Nat /\ Faults' \in Nat
  <2>1. sendFaults' \in Nat /\ sendCrashes' \in Nat
    BY <1>1, <1>3 DEF senderOwn
  <2>2. Faults' = crashes' + sendFaults' + sendCrashes'
    BY DEF Faults
  <2>3. Faults \in Nat
    BY <1>3 DEF Faults
  <2>4. \A a, b, c \in Nat : a + b + c \in Nat
    OBVIOUS
  <2> QED
    BY <1>3, <2>1, <2>2, <2>3, <2>4
<1>5. CASE Crash
  <2>1. ToConvert' \subseteq ToConvert \cup {Current} /\ UNCHANGED datasets
    BY <1>5 DEF Crash, Gone, disk, ToConvert, Handled
  <2>2. Faults' >= Faults + 1
    BY <1>1, <1>3, <1>5 DEF Crash, Faults, senderOwn
  <2>3. Moved(Current)
    BY <1>2, <2>1, <2>2 DEF Moved
  <2> QED
    BY <1>4, <2>1, <2>3, CreditMoves
<1>6. CASE ~Crash /\ ~Finalize
  <2>1. UNCHANGED <<datasets, crashes>>
    BY <1>1, <1>6 DEF Next, Run, Environment, Start, Scan, NextFile, Hold, Clear, Reject, Escape,
       Record, RecordError, Dispose, Rollover, Quarantine, GoOn, Arrive, Settle, MachineChanges,
       RequestStop, disk, counters
  <2>2. ToConvert' \subseteq ToConvert
    <3>1. ASSUME NEW f \in Files, Settle(f)
          PROVE  ToConvert' \subseteq ToConvert
      BY <3>1 DEF ToConvert, Handled, TypeOK, Settle, process, kept, Current
    <3>2. CASE Dispose \/ Quarantine
      BY <3>2, CurrentArrived DEF ToConvert, Handled, TypeOK, Dispose, Quarantine, AtFile
    <3>3. CASE Start \/ Scan \/ NextFile \/ Hold \/ Clear \/ Reject \/ Escape \/ Record
               \/ RecordError \/ Rollover \/ MachineChanges \/ RequestStop
      BY <3>3 DEF ToConvert, Handled, Start, Scan, NextFile, Hold, Clear, Reject, Escape, Record,
         RecordError, Rollover, MachineChanges, RequestStop, disk, process, kept, Current
    <3> QED
      BY <1>6, <3>1, <3>2, <3>3 DEF ConverterLoop, TakeAway, ConvertOnly, ConverterAround
  <2>3. Faults' >= Faults
    BY <1>1, <1>3, <2>1 DEF Faults, senderOwn
  <2>4. Moved(Current)
    BY <1>2, <2>2, <2>3 DEF Moved
  <2> QED
    BY <1>4, <2>1, <2>4, CreditMoves
<1>7. CASE Finalize
  <2>1. /\ Current \in Files /\ place[Current] \in {"fresh", "ready"} /\ proc = "convert"
        /\ proc' = "finalized" /\ UNCHANGED <<place, batch, crashes>>
    BY <1>7, CurrentArrived DEF Finalize, AtFile, kept, counters
  <2>2. Current \in ToConvert /\ ToConvert' \subseteq ToConvert \ {Current}
    BY <2>1 DEF ToConvert, Handled, Current
  <2>3. Faults' = Faults
    BY <1>1, <2>1 DEF Faults, senderOwn
  <2>4. IsFiniteSet(Episodes')
    <3>1. round \in Rounds /\ datasets' = [datasets EXCEPT ![round] = Append(@, Current)]
      BY <1>7 DEF TypeOK, Finalize
    <3>2. Episodes' = Episodes \cup {<<round, Len(datasets[round]) + 1>>}
      BY <2>1, <3>1, NewEpisode
    <3> QED
      BY <3>2, FS_AddElement DEF CreditInv
  <2>5. ASSUME NEW F \in SUBSET Files
        PROVE  Cardinality(From(F)') + Cardinality(F \cap ToDeliver')
                 + Cardinality(F \cap ToConvert') <= Cardinality(F) + Faults'
    <3> DEFINE one == IF Current \in F THEN 1 ELSE 0
               stored == Cardinality(From(F))
               deliver == Cardinality(F \cap ToDeliver)
               convert == Cardinality(F \cap ToConvert)
               convert2 == Cardinality(F \cap ToConvert')
               size == Cardinality(F)
    <3>1. Cardinality(From(F)') = stored + one
      BY <1>7, OneMoreEpisode DEF BatchInv, CreditInv
    <3>2. stored \in Nat
      BY FS_Subset, FS_CardinalityType DEF CreditInv, From
    <3>3. IsFiniteSet(F) /\ size \in Nat
      BY FileFacts, FS_Subset, FS_CardinalityType
    <3>4. deliver \in Nat /\ convert \in Nat /\ convert2 \in Nat /\ convert2 + one <= convert
      BY <2>2, <3>3, OneElement
    <3>5. stored + deliver + convert <= size + Faults
      BY DEF CreditInv
    <3>6. one \in {0, 1}
      OBVIOUS
    <3> HIDE DEF one, stored, deliver, convert, convert2, size
    <3>7. (stored + one) + deliver + convert2 <= size + Faults
      BY <1>4, <3>2, <3>3, <3>4, <3>5, <3>6
    <3> QED
      BY <1>2, <2>3, <3>1, <3>7 DEF deliver, convert2, size
  <2> QED
    BY <2>4, <2>5 DEF CreditInv
<1> QED
  BY <1>5, <1>6, <1>7

\* The rounds never run out: every copy in them has been paid for.
LEMMA EnoughForAll ==
  ASSUME TypeOK, SenderTypes, CreditInv
  PROVE  Enough
<1> DEFINE stored == Cardinality(Episodes)
           deliver == Cardinality(Files \cap ToDeliver)
           convert == Cardinality(Files \cap ToConvert)
<1>1. From(Files) = Episodes
  BY EpisodeMember, DatasetType DEF From
<1>2. stored + deliver + convert <= Cardinality(Files) + Faults
  BY <1>1 DEF CreditInv
<1>3. deliver \in Nat /\ convert \in Nat
  BY FileFacts, OneElement
<1>4. Cardinality(Files) = NFiles
  BY FS_Interval, NFilesAssumption DEF Files
<1>5. stored \in Nat
  BY FS_CardinalityType DEF CreditInv
<1>6. Faults <= MaxCrashes + MaxSendFaults + MaxSendCrashes /\ Faults \in Nat
  <2>1. /\ crashes \in Nat /\ crashes <= MaxCrashes
        /\ sendFaults \in Nat /\ sendFaults <= MaxSendFaults
        /\ sendCrashes \in Nat /\ sendCrashes <= MaxSendCrashes
    BY BoundsAssumption, SendBoundsAssumption DEF TypeOK, SenderTypes
  <2> QED
    BY <2>1, BoundsAssumption, SendBoundsAssumption DEF Faults
<1> HIDE DEF stored, deliver, convert
<1>7. stored < NRounds
  <2>1. stored <= NFiles + Faults
    BY <1>2, <1>3, <1>4, <1>5, <1>6, NFilesAssumption
  <2> QED
    BY <2>1, <1>5, <1>6, NFilesAssumption, BoundsAssumption, SendBoundsAssumption, RoundsAssumption,
       DeliveriesAssumption
<1> QED
  BY <1>7 DEF stored, Enough, CreditInv

-----------------------------------------------------------------------------
(* The whole.                                                              *)

\* A step that leaves the datasets, the manifests and the converter alone, and
\* takes no file out of the directory, keeps what is known of them.
LEMMA StoredFrame ==
  ASSUME StoredInv, UNCHANGED <<cfg, datasets, manifest, proc, round, batch, crashes, rowFaults, countFaults>>,
         \A f \in Files : place'[f] = "done" => place[f] = "done"
  PROVE  StoredInv'
<1>1. Current' = Current
  BY DEF Current
<1>2. Episodes' = Episodes /\ \A r, i : HasRow(r, i)' = HasRow(r, i) /\ Spoilt(r)' = Spoilt(r)
  BY DEF Episodes, HasRow, Spoilt
<1>3. OrderInv' /\ RoomInv'
  BY DEF StoredInv, OrderInv, RoomInv, Room, RoundsInOrder, RoundsNotOverfull, Full
<1>4. StoreInv'
  BY <1>1, <1>2 DEF StoredInv, StoreInv, NoEpisodeLost, Stored, Written
<1>5. TrueInv'
  BY DEF StoredInv, TrueInv, RowsTrue
<1>6. RowInv'
  <2>1. NoRow' = NoRow /\ Torn' = Torn
    BY <1>2 DEF NoRow, Torn
  <2> QED
    BY <2>1 DEF StoredInv, RowInv
<1> QED
  BY <1>3, <1>4, <1>5, <1>6 DEF StoredInv

\* The sender's steps leave what the converter knows and has stored alone.
LEMMA SenderApart ==
  ASSUME TypeOK, SenderTypes, SendInv, BatchInv, StoredInv, SenderStep
  PROVE  TypeOK' /\ BatchInv' /\ StoredInv'
<1>1. /\ UNCHANGED <<cfg, datasets, manifest, proc, round, batch, stop, gpuPaused, machine>>
      /\ UNCHANGED <<crashes, rowFaults, countFaults, stops>>
      /\ Sender!SenderNext
  BY DEF SenderStep, converterOwn, process, kept, counters
<1>2. place' \in [Files -> {"robot", "fresh", "ready", "done", "failed"}]
  BY <1>1, SenderKeeps DEF SenderTypes
<1>3. \A f \in Files : place'[f] = place[f] \/ place'[f] = "fresh"
  <2>1. place' = place \/ (Sending \in Files /\ place' = [place EXCEPT ![Sending] = "fresh"])
    BY <1>1, SenderPlaces
  <2> QED
    BY <2>1 DEF TypeOK
<1>4. TypeOK'
  BY <1>1, <1>2 DEF TypeOK
<1>5. Current' = Current
  BY <1>1 DEF Current
<1>6. BatchInv'
  BY <1>1, <1>3, <1>5 DEF BatchInv, AtWork, TypeOK
<1>7. StoredInv'
  <2>1. \A f \in Files : place'[f] = "done" => place[f] = "done"
    BY <1>3
  <2> QED
    BY <1>1, <2>1, StoredFrame
<1> QED
  BY <1>4, <1>6, <1>7

\* The invariant holds at the first start of both daemons.
LEMMA AllInitInv == AllInit => AllInv
<1> SUFFICES ASSUME AllInit PROVE AllInv
  OBVIOUS
<1>1. Init /\ Sender!SenderInit
  BY DEF AllInit
<1>2. TypeOK /\ AtWork /\ StoredInv
  BY <1>1, InitInv DEF IInv, Progress, StoredInv
<1>3. SenderTypes
  BY <1>1, SameFiles, SendBoundsAssumption DEF Sender!SenderInit, SenderTypes
<1>4. SendInv
  BY <1>1, SameFiles DEF Sender!SenderInit, SendInv, Busy
<1>5. BatchInv
  BY <1>1, <1>2 DEF Init, BatchInv
<1>6. CreditInv
  <2>1. Episodes = {} /\ \A F \in SUBSET Files : From(F) = {}
    <3>1. \A r \in Rounds : datasets[r] = <<>>
      BY <1>1 DEF Init
    <3>2. Episodes = {}
      BY <1>2, <3>1, EpisodeMember
    <3> QED
      BY <3>2 DEF From
  <2>2. ToConvert = {}
    BY <1>1 DEF Init, ToConvert
  <2>3. IsFiniteSet({}) /\ Cardinality({}) = 0
    BY FS_EmptySet
  <2>4. Faults \in Nat
    BY <1>2, <1>3, FaultsType
  <2>5. ASSUME NEW F \in SUBSET Files
        PROVE  Cardinality(From(F)) + Cardinality(F \cap ToDeliver) + Cardinality(F \cap ToConvert)
                 <= Cardinality(F) + Faults
    <3>1. Cardinality(From(F)) = 0 /\ Cardinality(F \cap ToConvert) = 0
      <4>1. From(F) = {} /\ F \cap ToConvert = {}
        BY <2>1, <2>2
      <4> QED
        BY <2>3, <4>1
    <3>2. IsFiniteSet(F) /\ Cardinality(F) \in Nat
      BY FileFacts, FS_Subset, FS_CardinalityType
    <3>3. Cardinality(F \cap ToDeliver) <= Cardinality(F) /\ Cardinality(F \cap ToDeliver) \in Nat
      <4>1. F \cap ToDeliver \subseteq F
        OBVIOUS
      <4> QED
        BY <3>2, <4>1, FS_Subset, FS_CardinalityType
    <3> DEFINE stored == Cardinality(From(F))
               deliver == Cardinality(F \cap ToDeliver)
               convert == Cardinality(F \cap ToConvert)
               size == Cardinality(F)
    <3>4. stored = 0 /\ convert = 0 /\ size \in Nat /\ deliver \in Nat /\ deliver <= size
      BY <3>1, <3>2, <3>3
    <3> HIDE DEF stored, deliver, convert, size
    <3>5. stored + deliver + convert <= size + Faults
      BY <2>4, <3>4
    <3> QED
      BY <3>5 DEF stored, deliver, convert, size
  <2> QED
    BY <2>1, <2>3, <2>5 DEF CreditInv
<1> QED
  BY <1>2, <1>3, <1>4, <1>5, <1>6 DEF AllInv

\* Stuttering keeps the invariant.
LEMMA AllStutterInv ==
  ASSUME AllInv, UNCHANGED allVars
  PROVE  AllInv'
<1>1. /\ UNCHANGED <<cfg, place, datasets, manifest, proc, round, batch, stop, gpuPaused, machine>>
      /\ UNCHANGED <<crashes, rowFaults, countFaults, stops>>
      /\ UNCHANGED <<local, phase, queue, sidecar, staged, sendFaults, sendCrashes, sendStops>>
  BY DEF allVars, vars, senderOwn, disk, process, kept, counters
<1>2. TypeOK' /\ SenderTypes'
  BY <1>1 DEF AllInv, TypeOK, SenderTypes
<1>3. Sending' = Sending /\ Current' = Current
  BY <1>1 DEF Sending, Sender!Sending, Current
<1>4. SendInv' /\ BatchInv'
  BY <1>1, <1>3 DEF AllInv, SendInv, BatchInv, AtWork
<1>5. CreditInv'
  <2>1. Episodes' = Episodes /\ \A F \in SUBSET Files : From(F)' = From(F)
    BY <1>1 DEF Episodes, From
  <2>2. ToDeliver' = ToDeliver /\ ToConvert' = ToConvert /\ Faults' = Faults
    BY <1>1, <1>3 DEF ToDeliver, ToConvert, Handled, Faults
  <2> QED
    BY <2>1, <2>2 DEF AllInv, CreditInv
<1>6. StoredInv'
  BY <1>1, StoredFrame DEF AllInv
<1> QED
  BY <1>2, <1>4, <1>5, <1>6 DEF AllInv

\* Every step of either side keeps the invariant.
LEMMA AllInductiveInv == AllInv /\ [AllNext]_allVars => AllInv'
<1> SUFFICES ASSUME AllInv, [AllNext]_allVars PROVE AllInv'
  OBVIOUS
<1>1. /\ TypeOK /\ SenderTypes /\ SendInv /\ BatchInv /\ CreditInv /\ StoredInv
      /\ OrderInv /\ RoomInv /\ StoreInv /\ TrueInv /\ RowInv
  BY DEF AllInv, StoredInv
<1>2. CASE SenderStep
  <2>1. SenderTypes' /\ SendInv'
    BY <1>1, <1>2, SenderKeeps DEF SenderStep
  <2>2. TypeOK' /\ BatchInv' /\ StoredInv'
    BY <1>1, <1>2, SenderApart
  <2>3. CreditInv'
    BY <1>1, <1>2, SenderCredit
  <2> QED
    BY <2>1, <2>2, <2>3 DEF AllInv
<1>3. CASE ConverterLoop \/ ConverterAround
  <2>1. Next /\ AtWork /\ Enough
    BY <1>1, <1>3, ConverterPlaces, EnoughForAll DEF BatchInv
  <2>2. TypeOK'
    BY <1>1, <2>1, TypeStep
  <2>3. SenderTypes' /\ SendInv' /\ BatchInv'
    BY <1>1, <1>3, <2>2, ConverterKeeps, BatchStep
  <2>4. CreditInv'
    BY <1>1, <1>3, <2>2, ConverterCredit
  <2>5. OrderInv' /\ RoomInv'
    BY <1>1, <2>1, <2>2, OrderStep, RoomStep
  <2>6. StoreInv' /\ TrueInv'
    BY <1>1, <2>1, <2>2, StoreStep, TrueStep
  <2>7. RowInv'
    BY <1>1, <2>1, <2>2, <2>4, RowStep DEF CreditInv
  <2> QED
    BY <2>2, <2>3, <2>4, <2>5, <2>6, <2>7 DEF AllInv, StoredInv
<1> QED
  BY <1>2, <1>3, AllStutterInv DEF AllNext

\* The invariant holds always.
LEMMA AllInvariance == AllSpec => []AllInv
BY AllInitInv, AllInductiveInv, PTL DEF AllSpec

-----------------------------------------------------------------------------
(* What it is for.                                                         *)

\* Both sides of the ingest directory are always well typed, and whatever the
\* sender is sending is on the robot still.
THEOREM AllTypesCorrect == AllSpec => []AllTypeOK
<1>1. AllInv => AllTypeOK
  BY SenderTypeParts DEF AllInv, AllTypeOK
<1> QED
  BY <1>1, AllInvariance, PTL

\* "Once the remote rename confirms delivery the local .h5 is deleted"
\* (demo_sender.py:9): an episode the robot has given up waits in the ingest
\* directory, is set aside there, or is stored and accounted for, whatever
\* failed on either machine.
THEOREM KeptCorrect == AllSpec => []RecordedIsKept
<1>1. AllInv => RecordedIsKept
  <2> SUFFICES ASSUME AllInv, NEW f \in Files, local[f] = "sent"
               PROVE  place[f] \in {"fresh", "ready", "failed"} \/ Stored(f)
    BY DEF RecordedIsKept
  <2>1. place[f] \in {"fresh", "ready", "done", "failed"}
    BY DEF AllInv, SendInv, SenderTypes
  <2>2. place[f] = "done" => Stored(f)
    BY DEF AllInv, StoredInv, StoreInv, NoEpisodeLost
  <2> QED
    BY <2>1, <2>2
<1> QED
  BY <1>1, AllInvariance, PTL

\* Delivery is at least once: n failed commands and crashes of either daemon
\* make n further copies at most, counted over any set of files and all rounds.
THEOREM DeliveriesCorrect == AllSpec => []DuplicatesAccounted
<1>1. AllInv => DuplicatesAccounted
  <2> SUFFICES ASSUME AllInv, NEW F \in SUBSET Files
               PROVE  Cardinality(From(F)) <= Cardinality(F) + crashes + sendFaults + sendCrashes
    BY DEF DuplicatesAccounted, From
  <2> DEFINE stored == Cardinality(From(F))
             deliver == Cardinality(F \cap ToDeliver)
             convert == Cardinality(F \cap ToConvert)
             size == Cardinality(F)
  <2>1. stored + deliver + convert <= size + Faults
    BY DEF AllInv, CreditInv
  <2>2. IsFiniteSet(F) /\ size \in Nat
    BY FileFacts, FS_Subset, FS_CardinalityType
  <2>3. deliver \in Nat /\ convert \in Nat
    BY <2>2, OneElement
  <2>4. stored \in Nat
    BY FS_Subset, FS_CardinalityType DEF AllInv, CreditInv, From
  <2>5. crashes \in Nat /\ sendFaults \in Nat /\ sendCrashes \in Nat
    BY BoundsAssumption, SendBoundsAssumption DEF AllInv, TypeOK, SenderTypes
  <2> HIDE DEF stored, deliver, convert, size
  <2>6. stored <= size + crashes + sendFaults + sendCrashes
    BY <2>1, <2>2, <2>3, <2>4, <2>5 DEF Faults
  <2> QED
    BY <2>6 DEF stored, size
<1> QED
  BY <1>1, AllInvariance, PTL

\* What ConverterProofs proves of the datasets and manifests when files arrive
\* once holds as well when the robot delivers them again, before, after or while
\* they are converted.
THEOREM PromisesKept ==
  AllSpec => [](NoEpisodeLost /\ RoundsInOrder /\ RoundsNotOverfull /\ RowsTrue /\ RowsAccounted)
<1>1. AllInv => NoEpisodeLost /\ RoundsInOrder /\ RoundsNotOverfull /\ RowsTrue
  BY DEF AllInv, StoredInv, StoreInv, OrderInv, RoomInv, TrueInv
<1>2. AllInv => RowsAccounted
  <2> SUFFICES ASSUME AllInv PROVE RowsAccounted
    OBVIOUS
  <2>1. RowInv /\ Cardinality(NoRow) \in Nat /\ Cardinality(Torn) \in Nat
    BY NoRowSets DEF AllInv, StoredInv, CreditInv
  <2>2. crashes \in Nat /\ rowFaults \in Nat
    BY DEF AllInv, TypeOK
  <2>3. Cardinality(NoRow) <= crashes + 2 * rowFaults + (IF proc = "finalized" THEN 1 ELSE 0)
    BY <2>1, <2>2 DEF RowInv
  <2> QED
    BY <2>3 DEF RowsAccounted, NoRow
<1> QED
  BY <1>1, <1>2, AllInvariance, PTL

\* "Atomic delivery, so the converter never sees a half-uploaded file"
\* (demo_sender.py:12): an episode appears with a complete body, and the first
\* time after its sidecar.
THEOREM WholeDeliveries == AllSpec => NeverHalfUploaded
<1>1. AllInv /\ [AllNext]_allVars =>
        [\A f \in Files : (place[f] # "fresh" /\ place'[f] = "fresh") =>
           /\ staged[f] = "whole"
           /\ (place[f] = "robot" /\ Checksum) => sidecar[f] = "whole"]_allVars
  <2> SUFFICES ASSUME AllInv, AllNext, NEW f \in Files, place[f] # "fresh", place'[f] = "fresh"
               PROVE  staged[f] = "whole" /\ ((place[f] = "robot" /\ Checksum) => sidecar[f] = "whole")
    OBVIOUS
  <2>1. TypeOK /\ SenderTypes /\ SendInv /\ BatchInv
    BY DEF AllInv
  <2>2. CASE SenderStep
    <3>1. phase = "reveal" /\ f = Sending
      BY <2>1, <2>2, SenderPlaces DEF SenderStep, SenderTypes
    <3> QED
      BY <2>1, <3>1 DEF SendInv
  <2>3. CASE ConverterLoop \/ ConverterAround
    <3>1. \/ place' = place
          \/ \E g \in Files : place' = [place EXCEPT ![g] = "ready"]
          \/ \E to \in {"done", "failed"} : place' = [place EXCEPT ![Current] = to]
      BY <2>1, <2>3, ConverterPlaces DEF Settle, Dispose, Quarantine
    <3> QED
      BY <2>1, <3>1 DEF SenderTypes
  <2> QED
    BY <2>2, <2>3 DEF AllNext
<1> QED
  BY <1>1, AllInvariance, PTL DEF AllSpec, NeverHalfUploaded
=============================================================================
