----------------------------- MODULE DemoSender -----------------------------
(***************************************************************************)
(* The demo sender (robot_pc/demo_sender.py): a daemon on the robot that   *)
(* pushes each recorded episode into the workstation's ingest directory,   *)
(* sidecar first, then the body under a staging name, then one rename.     *)
(*                                                                         *)
(* It talks to the workstation by commands only (rsync, ssh mv).  A        *)
(* command that fails may have had its effect, because an exit status can  *)
(* be lost with the connection; the same holds for a sender that is        *)
(* killed while a command runs.  Pipeline composes the sender with the     *)
(* converter through `place' and `sidecar'.                                *)
(***************************************************************************)
EXTENDS Naturals

CONSTANTS
  NFiles,         \* bound: episodes recorded, numbered in the order of names
  Checksum,       \* --checksum
  SendOnce,       \* --run_once
  MaxSendFaults,  \* bound: commands that fail
  MaxSendCrashes, \* bound: crashes of the sender
  MaxSendStops    \* bound: SIGINT or SIGTERM

Files == 1 .. NFiles

VARIABLES
  local,        \* each episode on the robot
  phase,        \* what the sender is doing, "down" when it is not running
  queue,        \* what is left of this scan
  sidecar,      \* the episode's .sha256 in the ingest directory
  staged,       \* its <name>.h5.partial there
  place,        \* its <name>.h5 there: see Converter
  sendFaults, sendCrashes, sendStops

sender == <<phase, queue>>
remote == <<sidecar, staged, place>>
sendCounters == <<sendFaults, sendCrashes, sendStops>>
senderVars == <<local, sender, remote, sendCounters>>

SenderInit ==
  /\ local = [f \in Files |-> "recording"]
  /\ phase = "down" /\ queue = {}
  /\ sidecar = [f \in Files |-> "none"]
  /\ staged = [f \in Files |-> "none"]
  /\ place = [f \in Files |-> "robot"]
  /\ sendFaults = 0 /\ sendCrashes = 0 /\ sendStops = 0

SendFault == sendFaults < MaxSendFaults /\ sendFaults' = sendFaults + 1

\* The recorder renames a finished episode into the directory.
Recorded(f) ==
  /\ local[f] = "recording"
  /\ local' = [local EXCEPT ![f] = "pending"]
  /\ UNCHANGED <<sender, remote, sendCounters>>

SenderStart ==
  /\ phase = "down"
  /\ phase' = "scan"
  /\ UNCHANGED <<local, queue, remote, sendCounters>>

SenderGone == phase' = "down" /\ queue' = {}

-----------------------------------------------------------------------------
(* run().                                                                  *)

Pending == {f \in Files : local[f] = "pending"}

ScanLocal ==
  /\ phase = "scan"
  /\ IF Pending = {} /\ SendOnce
       THEN SenderGone
       ELSE /\ queue' = Pending
            /\ phase' = IF Pending = {} THEN "scan" ELSE "next"
  /\ UNCHANGED <<local, remote, sendCounters>>

NextEpisode ==
  /\ phase = "next"
  /\ IF queue = {} /\ SendOnce /\ Pending = {}
       THEN SenderGone
       ELSE /\ phase' = IF queue = {} THEN "scan"
                        ELSE IF Checksum THEN "sidecar" ELSE "body"
            /\ UNCHANGED queue
  /\ UNCHANGED <<local, remote, sendCounters>>

\* A stop has been requested.  request_stop sets a flag that the loop reads
\* at these two points only.
StopNow ==
  /\ phase \in {"scan", "next"} /\ sendStops < MaxSendStops
  /\ sendStops' = sendStops + 1
  /\ SenderGone
  /\ UNCHANGED <<local, remote, sendFaults, sendCrashes>>

-----------------------------------------------------------------------------
(* _send_one.                                                              *)

\* The file being sent.
Sending == CHOOSE f \in queue : \A g \in queue : f <= g

Following == [sidecar |-> "body", body |-> "reveal", reveal |-> "reclaim"]

\* rsync --partial leaves what it has under the name it was sent to.
SidecarSent(how) ==
  /\ phase = "sidecar"
  /\ sidecar' = [sidecar EXCEPT ![Sending] = how]
  /\ UNCHANGED <<staged, place>>

BodySent(how) ==
  /\ phase = "body"
  /\ staged' = [staged EXCEPT ![Sending] = how]
  /\ UNCHANGED <<sidecar, place>>

\* mv: it replaces the file if it is there.
Revealed ==
  /\ phase = "reveal" /\ staged[Sending] # "none"
  /\ place' = [place EXCEPT ![Sending] = "fresh"]
  /\ staged' = [staged EXCEPT ![Sending] = "none"]
  /\ UNCHANGED sidecar

Effect == SidecarSent("whole") \/ BodySent("whole") \/ Revealed

\* A command that did not succeed, whatever the robot was told.
PerhapsEffect ==
  \/ phase \in DOMAIN Following /\ UNCHANGED remote
  \/ SidecarSent("part") \/ BodySent("part")
  \/ Effect

Command ==
  /\ Effect
  /\ phase' = Following[phase]
  /\ UNCHANGED <<local, queue, sendCounters>>

\* Mutant: the file is tried again at once.
TryAgain == phase' = "next" /\ UNCHANGED queue

\* run() logs the error and goes on with the next file.
LeaveFile == phase' = "next" /\ queue' = queue \ {Sending}

\* Mutant: the exit status of a command is not looked at.
GoOn == phase' = Following[phase] /\ UNCHANGED queue

AfterError == LeaveFile

CommandFails ==
  /\ SendFault /\ PerhapsEffect
  /\ AfterError
  /\ UNCHANGED <<local, sendCrashes, sendStops>>

\* Mutant: the local file stays where it is.
ReclaimKeeps ==
  /\ phase = "reclaim"
  /\ LeaveFile
  /\ UNCHANGED <<local, remote, sendCounters>>

\* Delivery is confirmed: delete the local file or move it to sent/.
Reclaim ==
  /\ phase = "reclaim"
  /\ local' = [local EXCEPT ![Sending] = "sent"]
  /\ LeaveFile
  /\ UNCHANGED <<remote, sendCounters>>

\* An OSError instead.
ReclaimFails ==
  /\ phase = "reclaim" /\ SendFault
  /\ LeaveFile
  /\ UNCHANGED <<local, remote, sendCrashes, sendStops>>

\* The sender is killed; the command it was running may go through.
SenderCrash ==
  /\ phase # "down" /\ sendCrashes < MaxSendCrashes
  /\ sendCrashes' = sendCrashes + 1
  /\ PerhapsEffect \/ UNCHANGED remote
  /\ SenderGone
  /\ UNCHANGED <<local, sendFaults, sendStops>>

SendLoop == ScanLocal \/ NextEpisode \/ Command \/ CommandFails \/ Reclaim \/ ReclaimFails

SenderNext ==
  \/ \E f \in Files : Recorded(f)
  \/ SenderStart \/ StopNow \/ SenderCrash \/ SendLoop

-----------------------------------------------------------------------------
\* The type invariant of the sender and the ingest directory; what is being
\* sent is on the robot still.
SenderTypeOK ==
  /\ local \in [Files -> {"recording", "pending", "sent"}]
  /\ phase \in {"down", "scan", "next", "sidecar", "body", "reveal", "reclaim"}
  /\ queue \in SUBSET Files
  /\ sidecar \in [Files -> {"none", "part", "whole"}]
  /\ staged \in [Files -> {"none", "part", "whole"}]
  /\ place \in [Files -> {"robot", "fresh", "ready", "done", "failed"}]
  /\ sendFaults \in 0 .. MaxSendFaults /\ sendCrashes \in 0 .. MaxSendCrashes
  /\ sendStops \in 0 .. MaxSendStops
  /\ phase \in {"sidecar", "body", "reveal", "reclaim"} =>
       queue # {} /\ local[Sending] = "pending"
=============================================================================
