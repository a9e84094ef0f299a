----------------------------- MODULE MCPipeline -----------------------------
(* Pipeline on a small instance: see README.md for the bounds.             *)
EXTENDS Pipeline

AllGood == [f \in Files |-> "good"]
RoundsOfTwo == {[rounds |-> TRUE, capped |-> TRUE, numDemos |-> 2, once |-> FALSE, mode |-> TRUE,
                 task |-> TRUE, target |-> FALSE, pause |-> 60, resume |-> 40]}
Idle == {[pauseFile |-> FALSE, util |-> 0]}
=============================================================================
