-------------------------- MODULE MCMonitorSession --------------------------
(* Model-checking instances of MonitorSession: the .cfg files give the     *)
(* constants; session ids are interchangeable.                             *)
EXTENDS MonitorSession, TLC

SessionSymmetry == Permutations(Session)
=============================================================================
