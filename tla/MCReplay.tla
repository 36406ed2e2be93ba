------------------------------ MODULE MCReplay ------------------------------
(* The instances of MCSupervisor with the journal and its replay.            *)
EXTENDS MCSupervisor, Replay

\* Stops are requested in session mode only, where they meet milestones, pauses
\* and exits; there a session has one reply at most.
JournaledHistories ==
  /\ TurnsOrLineage
  /\ IF \A w \in Workflow : workflows[w] \in OrNone({SessionMode(1, 1)})
     THEN activities[a3] = None
     ELSE \A k \in Request : controls[k] = None
=============================================================================
