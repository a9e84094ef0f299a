------------------------------ MODULE Pipeline ------------------------------
(***************************************************************************)
(* From the robot's recording to the round datasets: DemoSender composed   *)
(* with Converter.  The ingest directory is all they share: the sender     *)
(* creates the files in it (`place', `sidecar'), the converter removes     *)
(* them.  Revealed takes the place of the converter's Arrive, so a file    *)
(* can arrive again after it was converted.                                *)
(***************************************************************************)
EXTENDS Converter

CONSTANTS Checksum, SendOnce, MaxSendFaults, MaxSendCrashes, MaxSendStops

VARIABLES local, phase, queue, sidecar, staged, sendFaults, sendCrashes, sendStops

Sender == INSTANCE DemoSender

ASSUME SendBoundsAssumption ==
  MaxSendFaults \in Nat /\ MaxSendCrashes \in Nat /\ MaxSendStops \in Nat
\* A fault of the sender delivers one episode again at most.
ASSUME DeliveriesAssumption == NRounds > NFiles + MaxCrashes + MaxSendFaults + MaxSendCrashes

converterOwn == <<cfg, datasets, manifest, process, machine, counters>>

\* The sender's variables that the converter does not touch.
senderOwn == <<local, phase, queue, staged, sendFaults, sendCrashes, sendStops>>

allVars == <<vars, senderOwn, sidecar>>

AllInit == Sender!SenderInit /\ Init

\* The converter moves or deletes an episode's sidecar with it.
TakeAway ==
  /\ Dispose \/ Quarantine
  /\ sidecar' = [sidecar EXCEPT ![Current] = "none"]

\* With a sidecar that is there but not whole, _verify raises (verify_checksum,
\* the default).
ConvertOnly ==
  /\ \/ Scan \/ NextFile \/ Hold \/ Clear
     \/ Finalize /\ sidecar[Current] # "part"
     \/ Reject \/ Escape \/ Record \/ RecordError
     \/ Rollover
  /\ UNCHANGED sidecar

ConverterLoop == (TakeAway \/ ConvertOnly) /\ UNCHANGED senderOwn

\* External: the machine around the converter.
ConverterAround ==
  /\ \/ Start \/ Crash \/ MachineChanges \/ RequestStop
     \/ \E f \in Files : Settle(f)
  /\ UNCHANGED <<senderOwn, sidecar>>

SenderStep == Sender!SenderNext /\ UNCHANGED converterOwn

AllNext == SenderStep \/ ConverterLoop \/ ConverterAround

AllSpec == AllInit /\ [][AllNext]_allVars

\* Both daemons run, both are started again, and files grow old.
AllFairness ==
  /\ WF_allVars(Sender!SendLoop /\ UNCHANGED converterOwn)
  /\ WF_allVars(Sender!SenderStart /\ UNCHANGED converterOwn)
  /\ WF_allVars(ConverterLoop)
  /\ WF_allVars(Start /\ UNCHANGED <<senderOwn, sidecar, countFaults>>)
  /\ \A f \in Files : WF_allVars(Settle(f) /\ UNCHANGED <<senderOwn, sidecar>>)

AllFairSpec == AllSpec /\ AllFairness

-----------------------------------------------------------------------------
(* Properties.                                                             *)

\* The type invariant of both sides of the ingest directory.
AllTypeOK == TypeOK /\ Sender!SenderTypeOK

\* "Once the remote rename confirms delivery the local .h5 is deleted"
\* (demo_sender.py:9): an episode that the robot has given up is waiting in
\* the ingest directory, set aside there, or stored in a dataset together with
\* its manifest row, whatever failed on either machine.
RecordedIsKept ==
  \A f \in Files : local[f] = "sent" =>
    place[f] \in {"fresh", "ready", "failed"} \/ Stored(f)

\* Delivery is at least once: an episode is stored again only on account of a
\* failed command, a failed reclaim or a crash of either process, and each of
\* these accounts for one copy at most.
DuplicatesAccounted ==
  \A F \in SUBSET Files :
    Cardinality({e \in Episodes : datasets[e[1]][e[2]] \in F})
      <= Cardinality(F) + crashes + sendFaults + sendCrashes

\* "Atomic delivery, so the converter never sees a half-uploaded file"
\* (demo_sender.py:12): the rename reveals a complete body, and the first time
\* an episode appears its whole sidecar is already there.  (A later delivery may
\* lose its sidecar to the converter, which is still removing the one before.)
NeverHalfUploaded ==
  [][\A f \in Files : (place[f] # "fresh" /\ place'[f] = "fresh") =>
       /\ staged[f] = "whole"
       /\ (place[f] = "robot" /\ Checksum) => sidecar[f] = "whole"]_allVars

\* "A failed push leaves the local file in place to retry next scan"
\* (demo_sender.py:23): every recorded episode gets to a dataset, or is set
\* aside by the converter, in spite of the failures on the way.
EveryRecordingLands ==
  \A f \in Files :
    local[f] = "pending" ~> (Copies(f) > 0 \/ place[f] = "failed")
=============================================================================
