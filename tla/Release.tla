------------------------------ MODULE Release ------------------------------
(* The two activation scripts of a host that already runs one release:     *)
(* scripts/activate-release.sh, which changes every password of the        *)
(* database (cmd/dbmigrate) and recreates every service, and               *)
(* scripts/activate-controller-release.sh, which replaces the controller   *)
(* only.  A release is a directory with its secrets; `current` is the      *)
(* link to the active one; an image tag is shared by all releases, since   *)
(* they are one compose project.  A password is named by the release whose *)
(* configuration generated it.                                             *)
(* One script runs at a time.  Every command of it may fail, a signal may  *)
(* arrive between two commands (Fail), and a power loss or kill -9 takes   *)
(* the script away without its trap (Kill).                                *)
EXTENDS Naturals

CONSTANTS
  Releases,       \* the release directories of one host
  Base,           \* the one that is active at first
  Nobody          \* no migration_database_url

ASSUME ReleaseAssumption == Base \in Releases /\ Nobody \notin Releases

Service == {"controller", "others"}   \* others: api, auth-broker, caddy, ...

VARIABLES
  secrets,   \* release -> whose runtime passwords it holds, or Nobody
  url,       \* release -> whose admin password migration_database_url has
  dbRole, dbAdmin,          \* the passwords PostgreSQL accepts
  current,   \* the link
  tag,       \* service -> the release whose build the image tag names
  running,   \* service -> its container
  queue,     \* the row of remediation_actions that is open, if any
  script,    \* the activation that runs
  ended      \* how the last one ended (history)

vars == <<secrets, url, dbRole, dbAdmin, current, tag, running, queue,
          script, ended>>

Container == [from: Releases, image: Releases, up: BOOLEAN]
FullStep == {"build", "gate", "stop", "dryrun", "apply", "verify", "rotate",
             "mark", "up", "check", "link", "rmurl", "finish"}
OneStep  == {"cbuild", "cstop", "cup", "ccheck", "clink", "cwait"}
BackStep == {"cleanup", "back", "relink"}
Untrapped == {"idle", "build", "cbuild", "back", "relink"}

Script == [pc: {"idle"} \cup FullStep \cup OneStep \cup BackStep,
           full: BOOLEAN, rel: Releases, prev: Releases, rotated: BOOLEAN,
           saved: Releases, tagged: BOOLEAN, upOK: BOOLEAN,
           \* history of this activation
           before: [Service -> Container], refused: BOOLEAN, broke: BOOLEAN]

TypeOK ==
  /\ secrets \in [Releases -> Releases \cup {Nobody}]
  /\ url \in [Releases -> Releases \cup {Nobody}]
  /\ dbRole \in Releases /\ dbAdmin \in Releases
  /\ current \in Releases
  /\ tag \in [Service -> Releases]
  /\ running \in [Service -> Container]
  /\ queue \in {"none", "pending", "running", "held"}
  /\ script \in Script
  /\ ended \in {"none", "early", "activated", "rolledback", "forward", "killed"}

Init ==
  /\ secrets = [r \in Releases |-> IF r = Base THEN Base ELSE Nobody]
  /\ url = [r \in Releases |-> Nobody]
  /\ dbRole = Base /\ dbAdmin = Base
  /\ current = Base
  /\ tag = [s \in Service |-> Base]
  /\ running = [s \in Service |-> [from |-> Base, image |-> Base, up |-> TRUE]]
  /\ queue = "none"
  /\ script = [pc |-> "idle", full |-> FALSE, rel |-> Base, prev |-> Base,
               rotated |-> FALSE, saved |-> Base, tagged |-> FALSE, upOK |-> FALSE,
               before |-> running, refused |-> FALSE, broke |-> FALSE]
  /\ ended = "none"

At(p) == script.pc = p
Goto(p) == script' = [script EXCEPT !.pc = p]
rel == script.rel

\* A container can open the database with the passwords it was started with.
LogsIn(s) == running[s].up /\ secrets[running[s].from] = dbRole

\* The containers are replaced by `next`: an action the controller was working
\* on is cut off when its container is another one afterwards.
Replace(next) ==
  /\ running' = next
  /\ queue' = IF queue = "running" /\ next["controller"] # running["controller"]
              THEN "held" ELSE queue
Cuts(next) == queue = "running" /\ next["controller"] # running["controller"]

Started(S, dir) ==
  [s \in Service |-> IF s \in S
                     THEN [from |-> dir, image |-> tag[s], up |-> TRUE]
                     ELSE running[s]]

database == <<dbRole, dbAdmin>>
disk == <<secrets, url, current>>
host == <<tag, running, queue>>
-----------------------------------------------------------------------------
(* The operator prepares a release, and the actions go on meanwhile.       *)

\* migrate-release-config.sh: new passwords, and the way in is the password
\* of the release it is migrated from.
Migrate(r, src) ==
  /\ secrets[r] = Nobody /\ secrets[src] # Nobody
  /\ secrets' = [secrets EXCEPT ![r] = r]
  /\ url' = [url EXCEPT ![r] = secrets[src]]
  /\ UNCHANGED <<database, current, host, script, ended>>

\* copy-runtime-config.sh: the same passwords, and no way in.
Copy(r, src) ==
  /\ secrets[r] = Nobody /\ secrets[src] # Nobody /\ url[src] = Nobody
  /\ secrets' = [secrets EXCEPT ![r] = secrets[src]]
  /\ UNCHANGED <<url, database, current, host, script, ended>>

\* A row is inserted, claimed and closed; a row whose controller went away is
\* put back, or closed as too old, by the next controller that starts.
Request ==
  /\ queue = "none" /\ \A s \in Service : LogsIn(s)
  /\ queue' = "pending"
  /\ UNCHANGED <<disk, database, tag, running, script, ended>>

Work ==
  /\ \/ queue = "pending" /\ LogsIn("controller") /\ queue' = "running"
     \/ queue = "running" /\ queue' = "none"
     \/ queue = "held" /\ LogsIn("controller") /\ queue' \in {"pending", "none"}
  /\ UNCHANGED <<disk, database, tag, running, script, ended>>
-----------------------------------------------------------------------------
(* activate-release.sh                                                     *)
\* Mutant: the link is not read, so there is no release to go back to.
BeginUnlinked(p, full, r) ==
  script' = [pc |-> p, full |-> full, rel |-> r, prev |-> Nobody,
             rotated |-> FALSE, saved |-> running["controller"].image,
             tagged |-> FALSE, upOK |-> FALSE, before |-> running,
             refused |-> FALSE, broke |-> FALSE]

Begin(p, full, r) ==
  script' = [pc |-> p, full |-> full, rel |-> r, prev |-> current,
             rotated |-> FALSE, saved |-> running["controller"].image,
             tagged |-> FALSE, upOK |-> FALSE, before |-> running,
             refused |-> FALSE, broke |-> FALSE]

StartFull(r) ==
  /\ At("idle") /\ secrets[r] # Nobody /\ url[r] # Nobody
  /\ Begin("build", TRUE, r)
  /\ UNCHANGED <<disk, database, host, ended>>

\* `docker compose build` moves the tags; a failed build may have moved some.
Build ==
  /\ At("build")
  /\ \E S \in SUBSET Service :
       /\ tag' = [s \in Service |-> IF s \in S THEN rel ELSE tag[s]]
       /\ IF S = Service THEN Goto("gate") /\ UNCHANGED ended
          ELSE Goto("idle") /\ ended' = "early"
  /\ UNCHANGED <<disk, database, running, queue>>

\* Lines 89-93: refuse while a row is pending or running.
Gate ==
  /\ At("gate")
  /\ script' = IF queue = "none" THEN [script EXCEPT !.pc = "stop"]
               ELSE [script EXCEPT !.pc = "cleanup", !.refused = TRUE]
  /\ UNCHANGED <<disk, database, host, ended>>

\* `docker compose stop ... || true`
Stop ==
  /\ At("stop")
  /\ \E S \in SUBSET Service :
       LET next == [s \in Service |->
                      IF s \in S THEN [running[s] EXCEPT !.up = FALSE]
                      ELSE running[s]]
       IN /\ Replace(next)
          /\ script' = [script EXCEPT !.pc = "dryrun", !.broke = @ \/ Cuts(next)]
  /\ UNCHANGED <<disk, database, tag, ended>>

DryRun ==
  /\ At("dryrun") /\ url[rel] = dbAdmin
  /\ Goto("apply")
  /\ UNCHANGED <<disk, database, host, ended>>

\* One transaction sets the passwords of all runtime roles.
Apply ==
  /\ At("apply") /\ url[rel] = dbAdmin
  /\ dbRole' = secrets[rel]
  /\ Goto("verify")
  /\ UNCHANGED <<disk, dbAdmin, host, ended>>

Verify ==
  /\ At("verify") /\ secrets[rel] = dbRole
  /\ Goto("rotate")
  /\ UNCHANGED <<disk, database, host, ended>>
\* Mutant: the URL that is dead now is removed at once.
RotateAdminRemoves ==
  /\ At("rotate") /\ url[rel] = dbAdmin
  /\ dbAdmin' = secrets[rel] /\ url' = [url EXCEPT ![rel] = Nobody]
  /\ Goto("mark")
  /\ UNCHANGED <<secrets, current, dbRole, host, ended>>

RotateAdmin ==
  /\ At("rotate") /\ url[rel] = dbAdmin
  /\ dbAdmin' = secrets[rel]
  /\ Goto("mark")
  /\ UNCHANGED <<disk, dbRole, host, ended>>

\* credentials_rotated=1
Mark ==
  /\ At("mark")
  /\ script' = [script EXCEPT !.pc = "up", !.rotated = TRUE]
  /\ UNCHANGED <<disk, database, host, ended>>

Up ==
  /\ At("up")
  /\ \E S \in SUBSET Service :
       LET next == Started(S, rel) IN
       /\ Replace(next)
       /\ script' = [script EXCEPT
                       !.pc = IF S = Service THEN "check" ELSE "cleanup",
                       !.broke = @ \/ Cuts(next)]
  /\ UNCHANGED <<disk, database, tag, ended>>

Check ==
  /\ At("check") /\ \A s \in Service : LogsIn(s)
  /\ Goto("link")
  /\ UNCHANGED <<disk, database, host, ended>>

Link ==
  /\ At("link")
  /\ current' = rel
  /\ Goto("rmurl")
  /\ UNCHANGED <<secrets, url, database, host, ended>>

RemoveUrl ==
  /\ At("rmurl")
  /\ url' = [url EXCEPT ![rel] = Nobody]
  /\ Goto("finish")
  /\ UNCHANGED <<secrets, current, database, host, ended>>

Finish ==
  /\ At("finish")
  /\ Goto("idle") /\ ended' = "activated"
  /\ UNCHANGED <<disk, database, host>>
-----------------------------------------------------------------------------
(* activate-controller-release.sh                                          *)

StartController(r) ==
  /\ At("idle") /\ r # current
  /\ secrets[r] # Nobody /\ secrets[r] = secrets[current] /\ url[r] = Nobody
  /\ running["controller"].up /\ queue = "none"
  /\ Begin("cbuild", FALSE, r)
  /\ UNCHANGED <<disk, database, host, ended>>

BuildController ==
  /\ At("cbuild")
  /\ \/ /\ tag' = [tag EXCEPT !["controller"] = rel]
        /\ IF rel # script.saved THEN Goto("cstop") /\ UNCHANGED ended
           ELSE Goto("idle") /\ ended' = "early"
     \/ UNCHANGED tag /\ Goto("idle") /\ ended' = "early"
  /\ UNCHANGED <<disk, database, running, queue>>

\* With --acknowledge-pruned-gap the old controller is stopped and the cursor
\* rebased by a one-shot container (module RewardHistory, Clis).
StopController ==
  /\ At("cstop")
  /\ \/ /\ Replace([running EXCEPT !["controller"].up = FALSE])
        /\ script' = [script EXCEPT !.pc = "cup", !.broke = @ \/ queue = "running"]
     \/ Goto("cup") /\ UNCHANGED <<running, queue>>
  /\ UNCHANGED <<disk, database, tag, ended>>

UpController ==
  /\ At("cup")
  /\ LET next == Started({"controller"}, rel) IN
     /\ Replace(next)
     /\ script' = [script EXCEPT !.pc = "ccheck", !.broke = @ \/ Cuts(next)]
  /\ UNCHANGED <<disk, database, tag, ended>>

CheckController ==
  /\ At("ccheck")
  /\ \A s \in Service : LogsIn(s)
  /\ running["others"] = script.before["others"]
  /\ secrets[rel] = secrets[script.prev]
  /\ Goto("clink")
  /\ UNCHANGED <<disk, database, host, ended>>

LinkController ==
  /\ At("clink")
  /\ current' = rel
  /\ Goto("cwait")
  /\ UNCHANGED <<secrets, url, database, host, ended>>

\* The cursor has caught up, or the history is reported pruned, in time.
CaughtUp ==
  /\ At("cwait")
  /\ Goto("idle") /\ ended' = "activated"
  /\ UNCHANGED <<disk, database, host>>
-----------------------------------------------------------------------------
(* Failure, the traps, and the loss of the script.                         *)

Fail ==
  /\ script.pc \notin Untrapped \cup {"cleanup"}
  /\ Goto("cleanup")
  /\ UNCHANGED <<disk, database, host, ended>>

Cleanup ==
  /\ At("cleanup") /\ script.full
  /\ IF script.rotated
     THEN Goto("idle") /\ ended' = "forward"
     ELSE Goto("back") /\ UNCHANGED ended
  /\ UNCHANGED <<disk, database, host>>

\* Mutant: the image is not tagged back.
RestoreNothing ==
  /\ At("cleanup") /\ ~script.full
  /\ script' = [script EXCEPT !.pc = "back", !.tagged = TRUE]
  /\ UNCHANGED <<disk, database, host, ended>>

\* `docker tag ... || true`: the rollback goes on with the new image when the
\* saved one cannot be tagged back.
RestoreImage ==
  /\ At("cleanup") /\ ~script.full
  /\ \E ok \in BOOLEAN :
       /\ tag' = IF ok THEN [tag EXCEPT !["controller"] = script.saved] ELSE tag
       /\ script' = [script EXCEPT !.pc = "back", !.tagged = ok]
  /\ UNCHANGED <<disk, database, running, queue, ended>>

\* Mutant: `up` runs in the directory of the release that failed.
BackInRelease ==
  /\ At("back")
  /\ \E S \in SUBSET (IF script.full THEN Service ELSE {"controller"}) :
       LET next == Started(S, rel)
       IN /\ Replace(next)
          /\ script' = [script EXCEPT
                 !.pc = "relink", !.broke = @ \/ Cuts(next),
                 !.upOK = S = IF script.full THEN Service ELSE {"controller"}]
  /\ UNCHANGED <<disk, database, tag, ended>>

\* `docker compose up ... || true` in the previous directory: compose replaces
\* the containers that differ in definition, secrets or image; the controller
\* script forces its container to be replaced.
Back ==
  /\ At("back")
  /\ \E S \in SUBSET (IF script.full THEN Service ELSE {"controller"}) :
       LET next == Started(S, script.prev)
           cut  == \/ Cuts(next)
                   \/ ~script.full /\ S # {} /\ queue = "running"
       IN /\ running' = next
          /\ queue' = IF cut THEN "held" ELSE queue
          /\ script' = [script EXCEPT
                 !.pc = "relink", !.broke = @ \/ cut,
                 !.upOK = S = IF script.full THEN Service ELSE {"controller"}]
  /\ UNCHANGED <<disk, database, tag, ended>>

Relink ==
  /\ At("relink")
  /\ current' = script.prev
  /\ Goto("idle") /\ ended' = "rolledback"
  /\ UNCHANGED <<secrets, url, database, host>>

\* Power loss or kill -9: containers that were not stopped come back.
Kill ==
  /\ ~At("idle")
  /\ Goto("idle") /\ ended' = "killed"
  /\ queue' \in {queue, IF queue = "running" THEN "held" ELSE queue}
  /\ UNCHANGED <<disk, database, tag, running>>

Next ==
  \/ \E r, src \in Releases : Migrate(r, src) \/ Copy(r, src)
  \/ Request \/ Work
  \/ \E r \in Releases : StartFull(r) \/ StartController(r)
  \/ Build \/ Gate \/ Stop \/ DryRun \/ Apply \/ Verify \/ RotateAdmin
  \/ Mark \/ Up \/ Check \/ Link \/ RemoveUrl \/ Finish
  \/ BuildController \/ StopController \/ UpController \/ CheckController
  \/ LinkController \/ CaughtUp
  \/ Fail \/ Cleanup \/ RestoreImage \/ Back \/ Relink \/ Kill

Spec == Init /\ [][Next]_vars
-----------------------------------------------------------------------------
(* Properties                                                              *)

\* The releases with a configured way into the database: their activation was
\* never finished.
Open == {r \in Releases : url[r] # Nobody}

\* Whatever fails, and wherever the script is lost, the passwords of the
\* database are on the disk: they are those of the release `current` names or
\* of one whose activation is not finished, never of a release that nothing
\* marks any more.  (The order of lines 187 and 188 of activate-release.sh.)
CredentialsFollow ==
  /\ dbRole \in {secrets[r] : r \in Open \cup {current}}
  /\ dbAdmin \in {secrets[r] : r \in Open \cup {current}}

\* README: a failure before the rotation goes back to the release before.
\* After a rollback whose `up` succeeded, and as long as the database has the
\* passwords of `current`, the services the rollback is for are up from the
\* directory `current` names and can log in.
RollbackServes ==
  At("idle") /\ ended = "rolledback" /\ script.upOK /\ secrets[current] = dbRole
  => \A s \in IF script.full THEN Service ELSE {"controller"} :
       LogsIn(s) /\ running[s].from = current

\* README: the controller-only path fails back to the old release, touching no
\* other service, and to the old image, whichever step fails; the image only if
\* the commands of the rollback whose failure is tolerated, `docker tag` and
\* `up`, succeeded.
ControllerOnlyRestores ==
  At("idle") /\ ended = "rolledback" /\ ~script.full
  => /\ current = script.prev
     /\ running["others"] = script.before["others"]
     /\ script.tagged /\ script.upOK =>
          running["controller"].image = script.before["controller"].image

\* activate-release.sh:92 refuses an activation while actions are pending or
\* running: such a refusal interrupts none of them.
RefusalKeepsRunning == ended = "rolledback" /\ script.refused => ~script.broke
=============================================================================
