----------------------------- MODULE RunContract -----------------------------
(***************************************************************************)
(* What an import run promises, without workers, queues or records: stages  *)
(* are worked in pipeline order, by one worker at a time, and complete at   *)
(* most once; once the run is stopped no stage is begun any more, and only  *)
(* a stage that was already being worked may still complete.                *)
(***************************************************************************)
EXTENDS Naturals

CONSTANTS
    Runs,       \* run numbers
    LastStage,  \* stages are 1 .. LastStage
    Optional    \* stages that may be skipped

Jobs == Runs \X (1 .. LastStage)

VARIABLES
    completed,  \* the stages that have been completed
    working,    \* the stages being worked
    stopped     \* the runs that have been cancelled

vars == <<completed, working, stopped>>

Init ==
    /\ completed = {}
    /\ working = {}
    /\ stopped = {}

\* A run begins with stage 1; any other stage follows a completed one, with at
\* most an optional stage left out between them.
Reachable(j) ==
    \/ j[2] = 1
    \/ <<j[1], j[2] - 1>> \in completed
    \/ j[2] - 1 \in Optional /\ <<j[1], j[2] - 2>> \in completed

Begin(j) ==
    /\ j[1] \notin stopped
    /\ j \notin working \cup completed
    /\ Reachable(j)
    /\ working' = working \cup {j}
    /\ UNCHANGED <<completed, stopped>>

Complete(j) ==
    /\ j \in working
    /\ completed' = completed \cup {j}
    /\ working' = working \ {j}
    /\ UNCHANGED stopped

\* Delayed, failed, stopped or lost to a crash.
GiveUp(j) ==
    /\ j \in working
    /\ working' = working \ {j}
    /\ UNCHANGED <<completed, stopped>>

Stop(r) ==
    /\ stopped' = stopped \cup {r}
    /\ UNCHANGED <<completed, working>>

Next ==
    \/ \E j \in Jobs : Begin(j) \/ Complete(j) \/ GiveUp(j)
    \/ \E r \in Runs : Stop(r)

Spec == Init /\ [][Next]_vars

=============================================================================
