---------------------------- MODULE Provenance -----------------------------
(***************************************************************************)
(* Which adapter a manifest row names, against the ones the episode ran    *)
(* on.  The robot collects an episode on forward passes of the policy      *)
(* server (AdapterSync); later, and perhaps twice, the converter stores it *)
(* and writes a row (_convert_one, the provenance part): the episode's own *)
(* tag if the recorder set one, else whatever the status file shows then.  *)
(* Server, recorder and converter share the status file and nothing else.  *)
(***************************************************************************)
EXTENDS AdapterSync

CONSTANTS
  MaxEpisodes,  \* bound: episodes collected
  MaxRows       \* bound: conversions, with repetitions after a crash

VARIABLES
  collecting,   \* is an episode being recorded?
  ran,          \* the versions its forward passes ran on so far, 0 for none
  episodes,     \* the finished ones: ran, and the recorder's tag, 0 for none
  rows          \* the manifest: episode and adapter_version, 0 for None

episodeVars == <<collecting, ran, episodes, rows>>
allVars == <<vars, episodeVars>>

EpisodeInit == Init /\ collecting = FALSE /\ ran = {} /\ episodes = <<>> /\ rows = <<>>

-----------------------------------------------------------------------------
\* The recorder (external).
BeginEpisode ==
  /\ ~collecting /\ Len(episodes) < MaxEpisodes
  /\ collecting' = TRUE /\ ran' = {}
  /\ UNCHANGED <<vars, episodes, rows>>

\* Its tag, if it sets one, is a version the episode ran on.
EndEpisode ==
  /\ collecting /\ ran # {}
  /\ \E tag \in ran \cup {0} :
       episodes' = Append(episodes, [ran |-> ran, tag |-> tag])
  /\ collecting' = FALSE /\ ran' = {}
  /\ UNCHANGED <<vars, rows>>

\* A forward pass for an action of this episode.
Forward(t) ==
  /\ BeginForward(t)
  /\ ran' = IF collecting THEN ran \cup {Serving} ELSE ran
  /\ UNCHANGED <<collecting, episodes, rows>>

-----------------------------------------------------------------------------
\* read_policy_status: what the file shows, never half of it; None (0) when
\* there is none yet, or when it cannot be read.
ReadStatus == {status, 0}

\* The recorder's tag is authoritative.
RowVersions(e) == IF e.tag # 0 THEN {e.tag} ELSE ReadStatus

\* The converter writes the row of an episode.  A crash may make it convert
\* any episode again.
Convert(i) ==
  /\ Len(rows) < MaxRows
  /\ \E v \in RowVersions(episodes[i]) : rows' = Append(rows, [episode |-> i, version |-> v])
  /\ UNCHANGED <<vars, collecting, ran, episodes>>

-----------------------------------------------------------------------------
\* Whatever the server does but begin a forward pass.
ServerOnly ==
  /\ \/ Trainer \/ Reboot
     \/ \E t \in Threads : Handshake(t) \/ PredictChunk(t) \/ EndForward(t) \/ Sync(t)
  /\ UNCHANGED episodeVars

EpisodeNext ==
  \/ BeginEpisode \/ EndEpisode
  \/ \E t \in Threads : Forward(t)
  \/ \E i \in DOMAIN episodes : Convert(i)
  \/ ServerOnly

EpisodeSpec == EpisodeInit /\ [][EpisodeNext]_allVars

-----------------------------------------------------------------------------
(* Properties.                                                             *)

\* The row names the version that the status file showed.
FromStatus(row) == episodes[row.episode].tag = 0 /\ row.version # 0

\* "A co-located converter can tag which policy version each dagger episode
\* was collected under" (policy_server.py:117).  It can name a version swapped
\* in after the episode, but as long as the trainer has not been restarted and
\* no error was met, never one that the episode had already gone past: a row is
\* at least as new as every forward pass of its episode, across reconnects and
\* restarts of the server, of which some run on the base policy.
RowNeverOlder ==
  (run <= 1 /\ faults = 0) =>
    \A i \in DOMAIN rows : FromStatus(rows[i]) =>
      \A v \in episodes[rows[i].episode].ran : rows[i].version >= v

\* The rows that name the status file's version are in the order of versions,
\* even when a status could not be written or read or the server was restarted
\* in between, as long as the trainer was not.
RowsInVersionOrder ==
  run <= 1 =>
    \A i, j \in DOMAIN rows :
      (i < j /\ FromStatus(rows[i]) /\ FromStatus(rows[j])) =>
        rows[i].version <= rows[j].version
=============================================================================
