--------------------------- MODULE MCControlPlane ---------------------------
(***************************************************************************)
(* Instances of ControlPlane for TLC: which commands the operators issue.  *)
(***************************************************************************)
EXTENDS ControlPlane

\* Every command but cancel-all, which is the same as pause in all that is modelled here.
AllActions == (StopActions \ {"cancel-all"}) \cup RecoveryActions

\* A kill and the two commands that undo it.
RecoveryCycle == {"kill", "resume", "reset-kill"}
=============================================================================
