--------------------------- MODULE AdapterHandOff ---------------------------
(***************************************************************************)
(* What the adapter hand-off promises, in terms of version numbers only:   *)
(* the trainer publishes versions, and the policy the robot runs on is     *)
(* always exactly one adapter published so far, and only moves forward.    *)
(* It may skip versions (the pull model hands over the latest only).  Only *)
(* a handshake, which loads a new base policy, and a restart of the policy *)
(* server take it back to the base weights.  That it ever moves on is not  *)
(* promised here.  AdapterSync implements this with one handler thread:    *)
(* see ImplementsHandOff there.                                            *)
(***************************************************************************)
EXTENDS Naturals

VARIABLES
  latest,   \* the highest version published, 0 before the first
  serving,  \* the version the robot's policy runs on, 0 for the base policy
  sessions, \* handshakes in the life of the policy server
  restarts  \* of the policy server

vars == <<latest, serving, sessions, restarts>>

Init == latest = 0 /\ serving = 0 /\ sessions = 0 /\ restarts = 0

Publish == latest' = latest + 1 /\ UNCHANGED <<serving, sessions, restarts>>

Swap ==
  /\ serving' \in serving + 1 .. latest
  /\ UNCHANGED <<latest, sessions, restarts>>

Reconnect ==
  /\ serving' = 0 /\ sessions' = sessions + 1
  /\ UNCHANGED <<latest, restarts>>

Restart ==
  /\ serving' = 0 /\ sessions' = 0 /\ restarts' = restarts + 1
  /\ UNCHANGED latest

Next == Publish \/ Swap \/ Reconnect \/ Restart

Spec == Init /\ [][Next]_vars
=============================================================================
