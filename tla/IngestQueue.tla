----------------------------- MODULE IngestQueue -----------------------------
(***************************************************************************)
(* What the realtime converter promises: an ingest directory is a queue of *)
(* which each file is stored at least once, or set aside.  A file may be   *)
(* stored again while it is still queued, and no other; it is done only    *)
(* when it has been stored, and never comes back.                          *)
(***************************************************************************)
EXTENDS Naturals

CONSTANT Files

VARIABLES
  where,   \* "away", "queued", "done" or "aside", for each file
  copies   \* how often it was stored

vars == <<where, copies>>

Init == where = [f \in Files |-> "away"] /\ copies = [f \in Files |-> 0]

Moves(f, from, to) == where[f] = from /\ where' = [where EXCEPT ![f] = to]

Arrive(f) == Moves(f, "away", "queued") /\ UNCHANGED copies

Store(f) ==
  /\ where[f] = "queued"
  /\ copies' = [copies EXCEPT ![f] = @ + 1]
  /\ UNCHANGED where

Finish(f) == copies[f] > 0 /\ Moves(f, "queued", "done") /\ UNCHANGED copies

SetAside(f) == Moves(f, "queued", "aside") /\ UNCHANGED copies

Next == \E f \in Files : Arrive(f) \/ Store(f) \/ Finish(f) \/ SetAside(f)

Spec == Init /\ [][Next]_vars
=============================================================================
