---------------------------- MODULE RestartGuard ----------------------------
(***************************************************************************)
(* The restart handler of the host agent.  One request at a time (the      *)
(* handler holds a mutex from its first to its last line) is checked       *)
(* against guard.json, recorded there, executed through the fixed restart  *)
(* wrapper, verified, and recorded again.  The agent may die between any   *)
(* two of these steps; what it promises across such deaths rests on the    *)
(* file alone, and the file may be unreadable when it is loaded, refused   *)
(* when it is written, and torn or out of date when the host has gone      *)
(* down: it is not synced, and the handler ignores all of these errors.    *)
(***************************************************************************)
EXTENDS Integers, FiniteSets, Sequences

CONSTANTS
  Ids,             \* action identifiers
  Limit,           \* launches allowed per day (2)
  Hour,            \* the cooldown, in ticks
  Day,             \* the period of the limit, in ticks
  MaxFaults,       \* bound: failed reads and writes of guard.json, and losses of the host
  MaxTime,         \* bound of the clock
  MaxLaunches,     \* bound: how often the wrapper is run
  MaxHeight        \* bound of the node's finalized block

ASSUME GuardAssumption ==
  /\ {Limit, Hour, Day, MaxHeight} \subseteq Nat \ {0}
  /\ Hour <= Day
  /\ {MaxFaults, MaxTime, MaxLaunches} \subseteq Nat

Statuses == {"none", "running", "succeeded", "failed"}
Guards == [attempts : SUBSET Nat, processed : [Ids -> Statuses], failed : BOOLEAN]
Codes == {0, 200, 400, 500}   \* 0: no answer yet; 400: any refusal
Replies == [id : Ids, code : Codes, status : Statuses]
Launched == [id : Ids, at : Nat, read : BOOLEAN, kept : BOOLEAN, measured : BOOLEAN,
             verified : BOOLEAN, progressed : BOOLEAN]

VARIABLES
  now, height, locked,   \* clock, the node's finalized block, the stop file
  disk,                  \* guard.json
  unsynced,              \* the versions of it that were replaced since the last tick: the
                         \* host may lose what replaced them
  faults,                \* how many reads and writes of it failed, or were lost
  pc, action, guard, baseline, result,   \* the handler and its locals
  reply,                 \* the last HTTP answer, and for which action
  launches,              \* history: the wrapper runs, in order, each with whether the guard
                         \* could be read before it, the attempt was written and is still
                         \* on disk, the baseline was read, the recovery was seen, and the
                         \* node had then a higher block
  read, kept, before     \* history: whether guard.json could be read, whether the attempt
                         \* was written, and the node's block just before the restart

envVars == <<now, height, locked>>
handlerVars == <<pc, action, guard, baseline, result>>
histVars == <<launches, read, kept, before>>
fileVars == <<disk, unsynced, faults>>
vars == <<envVars, fileVars, handlerVars, reply, histVars>>

\* Mutant of EmptyGuard: loadGuard leaves the nil map of a missing file.
GuardWithoutMap == [attempts |-> {}, processed |-> [id \in {} |-> "none"], failed |-> FALSE]

EmptyGuard == [attempts |-> {}, processed |-> [id \in Ids |-> "none"], failed |-> FALSE]

Init ==
  /\ now = 0 /\ height = 1 /\ locked = FALSE
  /\ disk = EmptyGuard /\ unsynced = {} /\ faults = 0
  /\ pc = "idle" /\ action \in Ids /\ guard = EmptyGuard /\ baseline = 0 /\ result = "none"
  /\ reply \in [id : Ids, code : {0}, status : {"none"}]
  /\ launches = <<>> /\ read = TRUE /\ kept = FALSE /\ before = 0

----------------------------------------------------------------------------
(* The environment.                                                        *)

\* A tick is long against the steps between the admission and the launch
\* (a file write and a 4-second metrics read) and against the kernel's write-back,
\* short against the cooldown.
Tick ==
  /\ now < MaxTime /\ pc \in {"idle", "verify"}
  /\ now' = now + 1 /\ unsynced' = {}
  /\ UNCHANGED <<height, locked, disk, faults, handlerVars, reply, histVars>>

NodeFinalizes ==
  /\ height < MaxHeight
  /\ height' = height + 1
  /\ UNCHANGED <<now, locked, fileVars, handlerVars, reply, histVars>>

\* root creates or removes /etc/shiden-guardian/automation-disabled.
SwitchLock ==
  /\ locked' = ~locked
  /\ UNCHANGED <<now, height, fileVars, handlerVars, reply, histVars>>

----------------------------------------------------------------------------
(* guard.json.                                                             *)

Fault == faults < MaxFaults /\ faults' = faults + 1

\* saveGuard: write a temporary file and rename it, without a sync, so the running
\* system sees the old or the new file; the caller ignores the error.
Save(g) ==
  \/ disk' = g /\ unsynced' = unsynced \cup {disk} /\ UNCHANGED faults
  \/ Fault /\ UNCHANGED <<disk, unsynced>>

\* Mutant of Loaded: the action is marked failed, the failure is not.
LoadedWithoutFailure ==
  [disk EXCEPT !.processed = [id \in Ids |->
    IF disk.processed[id] = "running" THEN "failed" ELSE disk.processed[id]]]

\* loadGuard of a readable file: an action found running was cut off by a restart of
\* the agent.  An unreadable one is loaded as EmptyGuard (AdmitUnread).
Loaded ==
  IF \E id \in Ids : disk.processed[id] = "running"
  THEN [disk EXCEPT !.failed = TRUE,
                    !.processed = [id \in Ids |->
                      IF disk.processed[id] = "running" THEN "failed" ELSE disk.processed[id]]]
  ELSE disk

Recent(g) == {at \in g.attempts : at > now - Day}
\* Mutant of TooMany: the limit is compared off by one.
MoreThanLimit(g) == Cardinality(Recent(g)) > Limit

TooMany(g) == Cardinality(Recent(g)) >= Limit
\* Mutant of Cooling: the cooldown is over one tick early.
CoolingShort(g) == \E at \in Recent(g) : now - at < Hour - 1

Cooling(g) == \E at \in Recent(g) : now - at < Hour

----------------------------------------------------------------------------
(* The handler.                                                            *)

Answer(id, code, status) == reply' = [id |-> id, code |-> code, status |-> status]

\* A malformed action id or a reason of less than 10 or more than 500 bytes.
RefuseInvalid(id) ==
  /\ pc = "idle"
  /\ Answer(id, 400, "none")
  /\ UNCHANGED <<envVars, fileVars, handlerVars, histVars>>

RefuseLocked(id) ==
  /\ pc = "idle" /\ locked
  /\ Answer(id, 400, "none")
  /\ UNCHANGED <<envVars, fileVars, handlerVars, histVars>>

\* The guard is read, and written back when it had to be repaired.
Read(id) ==
  /\ pc = "idle" /\ ~locked
  /\ IF Loaded = disk THEN UNCHANGED fileVars ELSE Save(Loaded)

\* An action that was processed before is answered from the file, with HTTP
\* status 200 whatever its outcome was.
Replay(id) ==
  /\ Read(id)
  /\ Loaded.processed[id] # "none"
  /\ Answer(id, 200, Loaded.processed[id])
  /\ UNCHANGED <<envVars, handlerVars, histVars>>

Refuse(id) ==
  /\ Read(id)
  /\ Loaded.processed[id] = "none"
  /\ TooMany(Loaded) \/ Cooling(Loaded) \/ Loaded.failed
  /\ Answer(id, 400, "none")
  /\ UNCHANGED <<envVars, handlerVars, histVars>>

AdmitFrom(id, g) ==
  /\ guard' = [g EXCEPT !.attempts = Recent(g) \cup {now},
                        !.processed = [@ EXCEPT ![id] = "running"]]
  /\ action' = id
  /\ pc' = "record"
  /\ UNCHANGED <<envVars, baseline, result, reply, launches, kept, before>>

Admit(id) ==
  /\ Read(id)
  /\ Loaded.processed[id] = "none"
  /\ ~TooMany(Loaded) /\ ~Cooling(Loaded) /\ ~Loaded.failed
  /\ AdmitFrom(id, Loaded)
  /\ UNCHANGED read

\* The error of ReadFile or Unmarshal is ignored: the handler goes on with an empty
\* guard, against which nothing speaks.
AdmitUnread(id) ==
  /\ pc = "idle" /\ ~locked
  /\ Fault /\ UNCHANGED <<disk, unsynced>>
  /\ AdmitFrom(id, EmptyGuard)
  /\ read' = FALSE

\* The history once a guard that was not read has replaced the file.
Forgotten == [i \in DOMAIN launches |-> [launches[i] EXCEPT !.kept = FALSE]]

\* Mutant of RecordAttempt: the attempt is written with the result only.
RecordAttemptLater ==
  /\ pc = "record" /\ kept' = TRUE
  /\ baseline' \in {height, 0} /\ before' = height
  /\ pc' = "launch"
  /\ Answer(action, 0, "none")
  /\ UNCHANGED <<envVars, fileVars, action, guard, result, launches, read>>

\* The attempt is written before anything is restarted; the baseline is 0 when the
\* metrics cannot be read.  From here on the last answer is no longer looked at.
RecordAttempt ==
  /\ pc = "record"
  /\ Save(guard) /\ kept' = (disk' = guard)
  /\ launches' = IF read \/ ~kept' THEN launches ELSE Forgotten
  /\ baseline' \in {height, 0} /\ before' = height
  /\ pc' = "launch"
  /\ Answer(action, 0, "none")
  /\ UNCHANGED <<envVars, action, guard, result, read>>

\* The wrapper restarts the unit; its exit status may still be an error.
Launch ==
  /\ pc = "launch" /\ Len(launches) < MaxLaunches
  /\ launches' = Append(launches,
       [id |-> action, at |-> now, read |-> read, kept |-> kept,
        measured |-> baseline > 0, verified |-> FALSE, progressed |-> FALSE])
  /\ \/ pc' = "verify" /\ UNCHANGED result
     \/ pc' = "result" /\ result' = "failed"
  /\ UNCHANGED <<envVars, fileVars, action, guard, baseline, reply, read, kept, before>>

\* sudo or the wrapper could not be run, or the request was cancelled before.
LaunchFails ==
  /\ pc = "launch"
  /\ pc' = "result" /\ result' = "failed"
  /\ UNCHANGED <<envVars, fileVars, action, guard, baseline, reply, histVars>>

\* The recovery of the restart under way was seen.
Recovered ==
  /\ pc' = "result" /\ result' = "succeeded"
  /\ launches' = [launches EXCEPT ![Len(launches)].verified = TRUE,
                                  ![Len(launches)].progressed = height > before]
  /\ UNCHANGED <<envVars, fileVars, action, guard, baseline, reply, read, kept, before>>

\* Mutant of Verify: the block the node had is progress enough.
VerifySameBlock == pc = "verify" /\ height >= baseline /\ Recovered

\* waitActive and waitBlockProgress both returned nil.
Verify == pc = "verify" /\ height > baseline /\ Recovered

\* The 12-minute context ended, or the client went away.
VerifyFails ==
  /\ pc = "verify"
  /\ pc' = "result" /\ result' = "failed"
  /\ UNCHANGED <<envVars, fileVars, action, guard, baseline, reply, histVars>>

\* Mutant of Outcome: a failed recovery is recorded, the stop is not.
OutcomeWithoutFailure == [guard EXCEPT !.processed = [@ EXCEPT ![action] = result]]

Outcome == [guard EXCEPT !.failed = @ \/ result = "failed",
                         !.processed = [@ EXCEPT ![action] = result]]

\* Forget the locals of a finished or killed handler.
Leave ==
  /\ pc' = "idle" /\ guard' = EmptyGuard /\ baseline' = 0 /\ result' = "none"
  /\ read' = TRUE /\ kept' = FALSE /\ before' = 0
  /\ UNCHANGED action

RecordResult ==
  /\ pc = "result"
  /\ Save(Outcome)
  /\ launches' = IF read \/ kept \/ disk' # Outcome THEN launches ELSE Forgotten
  /\ Answer(action, IF result = "succeeded" THEN 200 ELSE 500, result)
  /\ Leave
  /\ UNCHANGED envVars

\* The agent is killed, or the host goes down with its disk in order.
Crash ==
  /\ pc # "idle"
  /\ Leave
  /\ UNCHANGED <<envVars, fileVars, reply, launches>>

\* The host goes down before the last writes of guard.json are on the disk: an earlier
\* version is back, or the file is torn, which is loaded like an empty one.
HostLoss ==
  /\ unsynced # {} /\ Fault
  /\ disk' \in unsynced \cup {EmptyGuard} /\ unsynced' = {}
  /\ launches' = [i \in DOMAIN launches |->
       [launches[i] EXCEPT !.kept = @ /\ disk' # EmptyGuard /\ launches[i].at < now]]
  /\ Leave
  /\ UNCHANGED <<envVars, reply>>

Request(id) ==
  \/ RefuseInvalid(id) \/ RefuseLocked(id) \/ Replay(id) \/ Refuse(id)
  \/ Admit(id) \/ AdmitUnread(id)

Run == RecordAttempt \/ Launch \/ LaunchFails \/ Verify \/ VerifyFails \/ RecordResult

Next ==
  \/ Tick \/ NodeFinalizes \/ SwitchLock
  \/ \E id \in Ids : Request(id)
  \/ Run \/ Crash \/ HostLoss

Spec == Init /\ [][Next]_vars

----------------------------------------------------------------------------
(* Properties.                                                             *)

TypeOK ==
  /\ now \in Nat /\ height \in Nat /\ locked \in BOOLEAN
  /\ {disk, guard} \cup unsynced \subseteq Guards /\ faults \in Nat
  /\ pc \in {"idle", "record", "launch", "verify", "result"}
  /\ action \in Ids /\ baseline \in Nat /\ result \in {"none", "succeeded", "failed"}
  /\ reply \in Replies
  /\ launches \in Seq(Launched) /\ {read, kept} \subseteq BOOLEAN /\ before \in Nat

\* The limits bind a restart to the earlier ones whose attempt is in guard.json when the
\* handler reads it: the code goes on when the file cannot be read or written, and it
\* forgets what a write after a failed read, or a loss of the host, took from the file.
Binds(i, j) == i < j /\ launches[i].kept /\ launches[j].read

\* A recorded restart is the last of its action, whatever crashes happen in between.
LaunchedOnce ==
  \A i, j \in DOMAIN launches : Binds(i, j) => launches[i].id # launches[j].id

\* No restart follows a recorded one within the cooldown.
CooldownKept ==
  \A i, j \in DOMAIN launches : Binds(i, j) => launches[j].at - launches[i].at >= Hour

RecordedBefore(j) ==
  {i \in DOMAIN launches : Binds(i, j) /\ launches[i].at > launches[j].at - Day}

\* On the day before a restart there were fewer recorded ones than the limit.
DailyLimitKept == \A j \in DOMAIN launches : Cardinality(RecordedBefore(j)) < Limit

\* After a recorded restart whose recovery was not seen (it failed, or the agent died
\* before it knew) nothing is restarted again, also when later writes fail.
StopsAfterFailure == \A i, j \in DOMAIN launches : Binds(i, j) => launches[i].verified

\* "succeeded" is only ever answered for an action after a restart whose recovery was
\* seen, also when the answer comes from the file after a crash; and, if the metrics
\* could be read before it, the node has then finalized a block above the one it had.
AnswersHonest ==
  reply.status = "succeeded" =>
    \E i \in DOMAIN launches :
      /\ launches[i].id = reply.id /\ launches[i].verified
      /\ launches[i].measured => launches[i].progressed

\* What guard.json and the running handler say of each action: the file counts
\* from the moment the attempt is recorded, and a dead handler's action failed.
Known == IF pc \in {"idle", "record"} THEN Loaded ELSE guard

Service == INSTANCE RestartService WITH outcome <- Known.processed

\* Until a read or write of guard.json fails or the host loses one, the handler and its
\* file implement the service the controller relies on: one execution per action, one at
\* a time, none after a failure.
ImplementsService == Service!Init /\ [][faults' = 0 => Service!Next]_(Service!vars)
=============================================================================
