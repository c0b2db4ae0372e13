---------------------------- MODULE MCEnforcement ----------------------------
(***************************************************************************)
(* Instances of Enforcement for TLC.                                       *)
(***************************************************************************)
EXTENDS Enforcement, TLC

CONSTANTS s1, s2, c1, c2, project, storage

\* Every session's sentinel goes to the project directory, whoever found it.
InProject == [s \in Session |-> project]

\* inferSessionInfo falls back on the directory of the log file.
InStorage == [s \in Session |-> storage]

\* No action reads the history, so states that differ in it alone have the same
\* future; the safety properties of the runs that use this view do not read it.
WithoutHistory == <<up, session, paused, alerts, frame, reapTodo, found, sentinel, agent>>

SymmetricRequests == Permutations(Client)
=============================================================================
