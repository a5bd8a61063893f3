------------------------------- MODULE Requests -------------------------------
(***************************************************************************)
(* The two ways a user's wish reaches the controller: a manual action over *)
(* the signed channel of Handover, and a job over the table of Jobs.  They *)
(* share the controller: one death takes the nonces, the handlers and the  *)
(* job that is being executed, and one start puts the old jobs back.       *)
(***************************************************************************)
EXTENDS Handover, Jobs

vars == <<handoverVars, jobVars>>

Init == HandoverInit /\ JobsInit

Restart == HandoverRestart /\ JobsRestart

\* processJobs; a statement may be lost, and the round may be over.
Process ==
  /\ \E j \in Jobs, well \in BOOLEAN : ClaimJob(j, well) \/ EndJob(well)
  /\ UNCHANGED handoverVars

AskForJob ==
  /\ \E j \in Jobs : Enqueue(j) \/ AgeJob(j)
  /\ UNCHANGED handoverVars

Next ==
  \/ HandoverStep /\ UNCHANGED jobVars
  \/ AskForJob
  \/ Process
  \/ Restart

Spec == Init /\ [][Next]_vars

TypeOK == HandoverTypeOK /\ JobsTypeOK
=============================================================================
