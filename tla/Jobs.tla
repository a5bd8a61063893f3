--------------------------------- MODULE Jobs ---------------------------------
(***************************************************************************)
(* The jobs a user may ask for (a diagnosis now, a test mail, a test of    *)
(* the diagnosis service): inserted by the read API, claimed and executed  *)
(* one at a time by the controller's loop in what its round has left of 45 *)
(* seconds, and put back at a start by the age of their creation.          *)
(***************************************************************************)
EXTENDS Integers, Sequences

CONSTANT Jobs

VARIABLES
  job,          \* jobs: the status per id
  created,      \* the ids in the order of created_at
  old,          \* jobs created more than 15 minutes ago
  working,      \* the job processJobs executes, or NoJob
  lost          \* history: running jobs only a later start will look at

jobVars == <<job, created, old, working, lost>>

NoJob == [none |-> TRUE]

ASSUME JobsAssumption == NoJob \notin Jobs

JobStatuses == {"none", "pending", "running", "completed", "failed"}

JobsInit ==
  /\ job = [j \in Jobs |-> "none"] /\ created = <<>> /\ old = {}
  /\ working = NoJob
  /\ lost = {}

\* diagnose and enqueueTest of the API.
Enqueue(j) ==
  /\ job[j] = "none"
  /\ job' = [job EXCEPT ![j] = "pending"]
  /\ created' = Append(created, j)
  /\ UNCHANGED <<old, working, lost>>

AgeJob(j) ==
  /\ job[j] \in {"pending", "running"}
  /\ old' = old \cup {j}
  /\ UNCHANGED <<job, created, working, lost>>

Waits == {i \in 1..Len(created) : job[created[i]] = "pending"}
First(j) == \E i \in Waits : created[i] = j /\ \A k \in Waits : i <= k

\* The claim of processJobs; its reply may be lost.
ClaimJob(j, replied) ==
  /\ working = NoJob /\ First(j)
  /\ job' = [job EXCEPT ![j] = "running"]
  /\ working' = IF replied THEN j ELSE NoJob
  /\ lost' = IF replied THEN lost ELSE lost \cup {j}
  /\ UNCHANGED <<created, old>>

\* Mutant of Closed: the status of a failed job is not written.
ClosedIfCompleted == {"completed", "running"}

Closed == {"completed", "failed"}

\* The job ends, and its status is written, unless the round's time is over or
\* the statement is lost.
EndJob(written) ==
  /\ working # NoJob /\ working' = NoJob
  /\ IF written
     THEN (\E status \in Closed : job' = [job EXCEPT ![working] = status]) /\ UNCHANGED lost
     ELSE lost' = lost \cup {working} /\ UNCHANGED job
  /\ UNCHANGED <<created, old>>

RunningJobs == {j \in Jobs : job[j] = "running"}

\* Mutant of RequeuedJobs: nothing is put back.
RequeuedNone == {}

\* main() puts running jobs back by the age of their creation.
RequeuedJobs == RunningJobs \cap old

\* The error of that statement is ignored; all running jobs wait then for a later start.
JobsRestart ==
  /\ \/ /\ job' = [j \in Jobs |-> IF j \in RequeuedJobs THEN "pending" ELSE job[j]]
        /\ lost' = RunningJobs \ old
     \/ lost' = RunningJobs /\ UNCHANGED job
  /\ working' = NoJob
  /\ UNCHANGED <<created, old>>

JobsTypeOK ==
  /\ job \in [Jobs -> JobStatuses] /\ created \in Seq(Jobs)
  /\ old \subseteq Jobs /\ lost \subseteq Jobs
  /\ working \in Jobs \cup {NoJob}

\* No job runs in name only, however often the controller dies while it is at
\* one, unless a statement was lost (the one that puts it back at a start
\* included) or the controller was back within fifteen minutes of its creation:
\* such a job waits for a later start, which a job without a processor must be
\* known to do.
NoJobForgotten == \A j \in Jobs : job[j] = "running" /\ working # j => j \in lost
=============================================================================
