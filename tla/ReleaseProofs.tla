---------------------------- MODULE ReleaseProofs ----------------------------
(***************************************************************************)
(* For any number of releases and activations: wherever a script fails or  *)
(* is lost, the passwords of the database stay with the release `current`  *)
(* names or with one whose activation is not finished, and a controller    *)
(* activation that failed leaves the image and the release it found.       *)
(***************************************************************************)
EXTENDS Release, TLAPS

USE DEF rel

\* The passwords of the database belong to a release that can be found.
Held(p) == \E r \in Releases : (r = current \/ url[r] # Nobody) /\ secrets[r] = p

\* The steps after the role passwords were set, and after the administrator's.
RoleSet  == {"verify", "rotate", "mark", "up", "check", "link", "rmurl"}
AdminSet == {"mark", "up", "check", "link", "rmurl"}
Rotated  == {"up", "check", "link", "rmurl", "finish"}

PathOK ==
  /\ script.pc \in FullStep => script.full
  /\ script.pc \in OneStep => ~script.full
  /\ script.pc \in Rotated => script.rotated
  /\ script.pc \in {"back", "relink"} => ~(script.full /\ script.rotated)
  /\ ~script.full => ~script.rotated

\* What a running script relies on: its two releases are configured, and until
\* the passwords are rotated `current` has the passwords of the previous one.
SourceOK ==
  /\ secrets[current] # Nobody
  /\ script.pc # "idle" =>
       /\ secrets[rel] # Nobody /\ secrets[script.prev] # Nobody
       /\ ~(script.full /\ script.rotated) => secrets[current] = secrets[script.prev]
       /\ ~script.full => secrets[rel] = secrets[script.prev]
  /\ script.pc \in RoleSet => dbRole = secrets[rel]
  /\ script.pc \in AdminSet => dbAdmin = secrets[rel]
  /\ script.pc = "rmurl" => current = rel

PasswordInv == TypeOK /\ PathOK /\ SourceOK /\ Held(dbRole) /\ Held(dbAdmin)

-----------------------------------------------------------------------------
(* Types                                                                   *)

LEMMA StartedType ==
  ASSUME TypeOK, NEW S, NEW d \in Releases
  PROVE  Started(S, d) \in [Service -> Container]
BY DEF TypeOK, Started, Container

Steps == {"idle"} \cup FullStep \cup OneStep \cup BackStep

LEMMA ScriptStep ==
  ASSUME TypeOK, NEW p \in Steps, Goto(p)
  PROVE  /\ script' \in Script
         /\ script'.pc = p /\ script'.full = script.full /\ script'.rel = script.rel
         /\ script'.prev = script.prev /\ script'.rotated = script.rotated
BY DEF TypeOK, Goto, Script, Steps

\* The steps that touch containers also note what they have cut off.
LEMMA ScriptNotes ==
  ASSUME script \in Script, NEW p \in Steps, NEW cut \in BOOLEAN, NEW well \in BOOLEAN
  PROVE  /\ [script EXCEPT !.pc = p, !.broke = script.broke \/ cut] \in Script
         /\ [script EXCEPT !.pc = p, !.broke = script.broke \/ cut, !.upOK = well] \in Script
<1>1. (script.broke \/ cut) \in BOOLEAN
  BY DEF Script
<1> QED BY <1>1 DEF Script, Steps

LEMMA InitType == Init => PasswordInv
<1> SUFFICES ASSUME Init PROVE PasswordInv
  OBVIOUS
<1>1. running \in [Service -> Container] /\ queue = "none" /\ ended = "none"
  BY ReleaseAssumption DEF Init, Container
<1>2. script \in Script /\ script.pc = "idle" /\ ~script.full /\ ~script.rotated
  BY <1>1, ReleaseAssumption DEF Init, Script
<1>3. /\ secrets \in [Releases -> Releases \cup {Nobody}] /\ secrets[Base] = Base
      /\ url \in [Releases -> Releases \cup {Nobody}]
      /\ dbRole = Base /\ dbAdmin = Base /\ current = Base
      /\ tag \in [Service -> Releases]
  BY ReleaseAssumption DEF Init
<1>4. TypeOK
  BY <1>1, <1>2, <1>3, ReleaseAssumption DEF TypeOK
<1>5. Held(dbRole) /\ Held(dbAdmin)
  BY <1>3, ReleaseAssumption DEF Held
<1>6. PathOK /\ SourceOK
  BY <1>2, <1>3, ReleaseAssumption DEF PathOK, SourceOK, FullStep, OneStep, Rotated, RoleSet, AdminSet
<1> QED BY <1>4, <1>5, <1>6 DEF PasswordInv

\* The steps that change the script's progress and nothing a password hangs on.
Quiet == /\ UNCHANGED <<secrets, url, dbRole, dbAdmin, current>>
         /\ script'.rel = script.rel /\ script'.prev = script.prev
         /\ script'.full = script.full

LEMMA QuietPasswords ==
  ASSUME PasswordInv, Quiet, TypeOK', PathOK',
         script'.pc # "idle" => script.pc # "idle",
         script'.pc # "idle" => script'.rotated = script.rotated \/ script'.rotated,
         script'.pc \in RoleSet => script.pc \in RoleSet,
         script'.pc \in AdminSet => script.pc \in AdminSet,
         script'.pc = "rmurl" => script.pc = "rmurl"
  PROVE  PasswordInv'
<1>1. SourceOK'
  BY DEF PasswordInv, SourceOK, Quiet, TypeOK, Script
<1>2. Held(dbRole)' /\ Held(dbAdmin)'
  BY DEF PasswordInv, Held, Quiet
<1> QED BY <1>1, <1>2 DEF PasswordInv

-----------------------------------------------------------------------------
(* The operator and the queue.                                             *)

LEMMA OperatorKeeps ==
  ASSUME PasswordInv, NEW r \in Releases, NEW src \in Releases,
         Migrate(r, src) \/ Copy(r, src)
  PROVE  PasswordInv'
<1>1. /\ UNCHANGED <<dbRole, dbAdmin, current, tag, running, queue, script, ended>>
      /\ secrets[r] = Nobody
      /\ \A x \in Releases \ {r} : secrets'[x] = secrets[x] /\ url'[x] = url[x]
  BY DEF Migrate, Copy, database, host, PasswordInv, TypeOK
<1>2. /\ secrets' \in [Releases -> Releases \cup {Nobody}]
      /\ url' \in [Releases -> Releases \cup {Nobody}]
  BY DEF Migrate, Copy, PasswordInv, TypeOK
<1>3. TypeOK'
  BY <1>1, <1>2 DEF PasswordInv, TypeOK
<1>4. PathOK'
  BY <1>1 DEF PasswordInv, PathOK
<1>5. \A x \in Releases : secrets[x] # Nobody => x # r
  BY <1>1
<1>6. Held(dbRole)' /\ Held(dbAdmin)'
  BY <1>1, <1>5, ReleaseAssumption DEF PasswordInv, Held, TypeOK
<1>7. SourceOK'
  <2>1. current \in Releases /\ rel \in Releases /\ script.prev \in Releases
    BY DEF PasswordInv, TypeOK, Script
  <2>2. secrets[current] # Nobody /\ secrets'[current] = secrets[current]
    BY <1>1, <1>5, <2>1 DEF PasswordInv, SourceOK
  <2>3. script.pc # "idle" =>
          /\ secrets'[rel] = secrets[rel] /\ secrets'[script.prev] = secrets[script.prev]
    BY <1>1, <1>5, <2>1 DEF PasswordInv, SourceOK
  <2>4. script.pc \in RoleSet \cup AdminSet \cup {"rmurl"} => script.pc # "idle"
    BY DEF RoleSet, AdminSet
  <2> QED BY <1>1, <2>2, <2>3, <2>4 DEF PasswordInv, SourceOK
<1> QED BY <1>3, <1>4, <1>6, <1>7 DEF PasswordInv

LEMMA QueueKeeps ==
  ASSUME PasswordInv, Request \/ Work \/ UNCHANGED vars
  PROVE  PasswordInv'
<1>1. UNCHANGED <<secrets, url, dbRole, dbAdmin, current, tag, running, script, ended>>
  BY DEF Request, Work, vars, disk, database
<1>2. queue' \in {"none", "pending", "running", "held"}
  BY DEF Request, Work, vars, PasswordInv, TypeOK
<1>3. TypeOK'
  BY <1>1, <1>2 DEF PasswordInv, TypeOK
<1> QED BY <1>1, <1>3 DEF PasswordInv, PathOK, SourceOK, Held

LEMMA StartKeeps ==
  ASSUME PasswordInv, NEW r \in Releases, StartFull(r) \/ StartController(r)
  PROVE  PasswordInv'
<1>1. UNCHANGED <<secrets, url, dbRole, dbAdmin, current, tag, running, queue, ended>>
  BY DEF StartFull, StartController, disk, database, host
<1>2. script.pc = "idle" /\ secrets[r] # Nobody
  BY DEF StartFull, StartController, At
<1>3. \/ Begin("build", TRUE, r)
      \/ Begin("cbuild", FALSE, r) /\ secrets[r] = secrets[current]
  BY DEF StartFull, StartController
<1>4. running["controller"].image \in Releases
  BY DEF PasswordInv, TypeOK, Service, Container
<1>5. script' \in Script
  <2>1. running \in [Service -> Container] /\ current \in Releases
    BY DEF PasswordInv, TypeOK
  <2>2. CASE Begin("build", TRUE, r)
    BY <1>4, <2>1, <2>2 DEF Begin, Script, FullStep
  <2>3. CASE Begin("cbuild", FALSE, r)
    BY <1>4, <2>1, <2>3 DEF Begin, Script, OneStep
  <2> QED BY <1>3, <2>2, <2>3
<1>6. /\ script'.rel = r /\ script'.prev = current /\ ~script'.rotated
      /\ \/ script'.pc = "build" /\ script'.full
         \/ script'.pc = "cbuild" /\ ~script'.full /\ secrets[r] = secrets[current]
  BY <1>3 DEF Begin
<1>7. TypeOK'
  BY <1>1, <1>5 DEF PasswordInv, TypeOK
<1>8. PathOK'
  BY <1>6 DEF PathOK, FullStep, OneStep, Rotated
<1>9. SourceOK'
  BY <1>1, <1>2, <1>6 DEF PasswordInv, SourceOK, RoleSet, AdminSet
<1> QED BY <1>1, <1>7, <1>8, <1>9 DEF PasswordInv, Held

-----------------------------------------------------------------------------
(* The steps of the scripts that leave every password where it is.         *)

\* Which way a step may go, in the full script and in the other one.
Moves ==
  \/ script'.pc = "idle"
  \/ script.pc = "build" /\ script'.pc = "gate"
  \/ script.pc = "gate" /\ script'.pc = "stop"
  \/ script.pc = "stop" /\ script'.pc = "dryrun"
  \/ script.pc = "dryrun" /\ script'.pc = "apply"
  \/ script.pc = "verify" /\ script'.pc = "rotate"
  \/ script.pc = "up" /\ script'.pc = "check"
  \/ script.pc = "check" /\ script'.pc = "link"
  \/ script.pc = "cbuild" /\ script'.pc = "cstop"
  \/ script.pc = "cstop" /\ script'.pc = "cup"
  \/ script.pc = "cup" /\ script'.pc = "ccheck"
  \/ script.pc = "ccheck" /\ script'.pc = "clink"
  \/ script.pc \notin Untrapped /\ script'.pc = "cleanup"
  \/ script.pc = "cleanup" /\ script'.pc = "back" /\ ~(script.full /\ script.rotated)
  \/ script.pc = "back" /\ script'.pc = "relink"

LEMMA MovesKeep ==
  ASSUME PasswordInv, Quiet, TypeOK', Moves, script'.rotated = script.rotated
  PROVE  PasswordInv'
<1>1. PathOK'
  BY DEF PasswordInv, PathOK, Quiet, Moves, FullStep, OneStep, Rotated, Untrapped
<1>2. /\ script'.pc # "idle" => script.pc # "idle"
      /\ script'.pc \in RoleSet => script.pc \in RoleSet
      /\ script'.pc \in AdminSet => script.pc \in AdminSet
      /\ script'.pc # "rmurl"
  BY DEF Moves, RoleSet, AdminSet, Untrapped
<1> QED BY <1>1, <1>2, QuietPasswords

LEMMA HostKeeps ==
  ASSUME PasswordInv, Stop \/ Up \/ StopController \/ UpController \/ Back
  PROVE  PasswordInv'
<1>1. UNCHANGED <<secrets, url, dbRole, dbAdmin, current, tag, ended>>
  BY DEF Stop, Up, StopController, UpController, Back, disk, database
<1>2. running' \in [Service -> Container]
  <2>1. CASE Stop \/ StopController
    <3>1. running \in [Service -> Container]
      BY DEF PasswordInv, TypeOK
    <3>2. \A s \in Service : [running[s] EXCEPT !.up = FALSE] \in Container
      BY <3>1 DEF Container
    <3>3. CASE Stop
      <4>1. PICK S \in SUBSET Service :
              running' = [s \in Service |-> IF s \in S THEN [running[s] EXCEPT !.up = FALSE]
                                            ELSE running[s]]
        BY <3>3 DEF Stop, Replace
      <4> QED BY <3>1, <3>2, <4>1
    <3>4. CASE StopController
      BY <3>1, <3>2, <3>4 DEF StopController, Replace, Service
    <3> QED BY <2>1, <3>3, <3>4
  <2>2. CASE Up \/ UpController \/ Back
    <3>1. rel \in Releases /\ script.prev \in Releases
      BY DEF PasswordInv, TypeOK, Script
    <3>2. \E S \in SUBSET Service, d \in Releases : running' = Started(S, d)
      BY <2>2, <3>1 DEF Up, UpController, Back, Replace, Service
    <3> QED BY <3>2, StartedType DEF PasswordInv
  <2> QED BY <2>1, <2>2
<1>3. queue' \in {"none", "pending", "running", "held"}
  BY DEF Stop, Up, StopController, UpController, Back, Replace, PasswordInv, TypeOK
<1>4. script' \in Script
  <2>1. script \in Script /\ \A next : Cuts(next) \in BOOLEAN
    BY DEF PasswordInv, TypeOK, Cuts
  <2>2. {"dryrun", "check", "cleanup", "cup", "ccheck", "relink"} \subseteq Steps
    BY DEF Steps, FullStep, OneStep, BackStep
  <2>3. \A p \in Steps, cut, well \in BOOLEAN :
          /\ [script EXCEPT !.pc = p, !.broke = script.broke \/ cut] \in Script
          /\ [script EXCEPT !.pc = p, !.broke = script.broke \/ cut, !.upOK = well] \in Script
    BY <2>1, ScriptNotes
  <2>4. CASE Stop
    <3>1. PICK next : script' = [script EXCEPT !.pc = "dryrun", !.broke = script.broke \/ Cuts(next)]
      BY <2>4 DEF Stop
    <3> QED BY <2>1, <2>2, <2>3, <3>1
  <2>5. CASE Up
    <3> DEFINE After(S) == IF S = Service THEN "check" ELSE "cleanup"
    <3>1. PICK S \in SUBSET Service :
            script' = [script EXCEPT !.pc = After(S), !.broke = script.broke \/ Cuts(Started(S, rel))]
      BY <2>5 DEF Up
    <3>2. After(S) \in Steps
      BY <2>2
    <3> HIDE DEF After
    <3> QED BY <2>1, <2>3, <3>1, <3>2
  <2>6. CASE StopController
    <3>1. \/ script' = [script EXCEPT !.pc = "cup", !.broke = script.broke \/ queue = "running"]
          \/ Goto("cup")
      BY <2>6 DEF StopController
    <3>2. CASE Goto("cup")
      BY <2>1, <3>2 DEF Goto, Script, OneStep
    <3>3. CASE script' = [script EXCEPT !.pc = "cup", !.broke = script.broke \/ queue = "running"]
      <4>1. (queue = "running") \in BOOLEAN
        OBVIOUS
      <4> QED BY <2>2, <2>3, <3>3, <4>1
    <3> QED BY <3>1, <3>2, <3>3
  <2>7. CASE UpController
    <3>1. PICK next : script' = [script EXCEPT !.pc = "ccheck", !.broke = script.broke \/ Cuts(next)]
      BY <2>7 DEF UpController
    <3> QED BY <2>1, <2>2, <2>3, <3>1
  <2>8. CASE Back
    <3> DEFINE All == IF script.full THEN Service ELSE {"controller"}
    <3> DEFINE Cut(S) == \/ Cuts(Started(S, script.prev))
                         \/ ~script.full /\ S # {} /\ queue = "running"
    <3>1. PICK S \in SUBSET All :
            script' = [script EXCEPT !.pc = "relink", !.broke = script.broke \/ Cut(S), !.upOK = S = All]
      BY <2>8 DEF Back
    <3>2. Cut(S) \in BOOLEAN /\ (S = All) \in BOOLEAN
      OBVIOUS
    <3> HIDE DEF All, Cut
    <3> QED BY <2>2, <2>3, <3>1, <3>2
  <2> QED BY <2>4, <2>5, <2>6, <2>7, <2>8
<1>5. /\ script'.rel = script.rel /\ script'.prev = script.prev
      /\ script'.full = script.full /\ script'.rotated = script.rotated
  BY DEF Stop, Up, StopController, UpController, Back, Goto, PasswordInv, TypeOK, Script
<1>6. Moves
  BY DEF Stop, Up, StopController, UpController, Back, Goto, At, Moves, PasswordInv, TypeOK, Script,
    Untrapped
<1>7. TypeOK'
  BY <1>1, <1>2, <1>3, <1>4 DEF PasswordInv, TypeOK
<1> QED BY <1>1, <1>5, <1>6, <1>7, MovesKeep DEF Quiet

LEMMA PlainKeeps ==
  ASSUME PasswordInv,
         \/ Build \/ Gate \/ DryRun \/ Verify \/ Check \/ Finish
         \/ BuildController \/ CheckController \/ CaughtUp
         \/ Fail \/ Cleanup \/ RestoreImage \/ Kill
  PROVE  PasswordInv'
<1>1. UNCHANGED <<secrets, url, dbRole, dbAdmin, current, running>>
  BY DEF Build, Gate, DryRun, Verify, Check, Finish, BuildController, CheckController, CaughtUp,
    Fail, Cleanup, RestoreImage, Kill, disk, database, host
<1>2. rel \in Releases /\ script \in Script /\ script.saved \in Releases
  BY DEF PasswordInv, TypeOK, Script
<1>3. /\ script' \in Script
      /\ script'.rel = script.rel /\ script'.prev = script.prev
      /\ script'.full = script.full /\ script'.rotated = script.rotated
  <2>1. (\E p \in Steps : Goto(p)) \/ Gate \/ RestoreImage
    BY DEF Build, DryRun, Verify, Check, Finish, BuildController, CheckController, CaughtUp,
      Fail, Cleanup, Kill, Steps, FullStep, OneStep, BackStep
  <2>2. CASE Gate
    BY <1>2, <2>2 DEF Gate, Script, FullStep, BackStep
  <2>3. CASE RestoreImage
    <3>1. PICK ok \in BOOLEAN : script' = [script EXCEPT !.pc = "back", !.tagged = ok]
      BY <2>3 DEF RestoreImage
    <3> QED BY <1>2, <3>1 DEF Script, BackStep
  <2> QED BY <2>1, <2>2, <2>3, ScriptStep DEF PasswordInv
<1>4. tag' \in [Service -> Releases] /\ queue' \in {"none", "pending", "running", "held"}
  BY <1>2 DEF Build, Gate, DryRun, Verify, Check, Finish, BuildController, CheckController, CaughtUp,
    Fail, Cleanup, RestoreImage, Kill, host, PasswordInv, TypeOK
<1>5. ended' \in {"none", "early", "activated", "rolledback", "forward", "killed"}
  BY DEF Build, Gate, DryRun, Verify, Check, Finish, BuildController, CheckController, CaughtUp,
    Fail, Cleanup, RestoreImage, Kill, PasswordInv, TypeOK
<1>6. TypeOK'
  BY <1>1, <1>3, <1>4, <1>5 DEF PasswordInv, TypeOK
<1>7. Moves
  <2>1. \A p : Goto(p) => script'.pc = p
    BY <1>2 DEF Goto, Script
  <2>2. CASE Build \/ Gate \/ DryRun \/ Verify \/ Check \/ Finish
    BY <1>2, <2>1, <2>2 DEF Build, Gate, DryRun, Verify, Check, Finish, At, Moves, Script, Untrapped
  <2>3. CASE BuildController \/ CheckController \/ CaughtUp
    BY <2>1, <2>3 DEF BuildController, CheckController, CaughtUp, At, Moves
  <2>4. CASE Fail \/ Cleanup \/ Kill
    BY <2>1, <2>4 DEF Fail, Cleanup, Kill, At, Moves
  <2>5. CASE RestoreImage
    BY <1>2, <2>5 DEF RestoreImage, At, Moves, Script
  <2> QED BY <2>2, <2>3, <2>4, <2>5
<1> QED BY <1>1, <1>3, <1>6, <1>7, MovesKeep DEF Quiet

-----------------------------------------------------------------------------
(* The steps that move a password, the link or the way in.                 *)

LEMMA PasswordStepKeeps ==
  ASSUME PasswordInv, Apply \/ RotateAdmin \/ Mark
  PROVE  PasswordInv'
<1>1. UNCHANGED <<secrets, url, current, tag, running, queue, ended>>
  BY DEF Apply, RotateAdmin, Mark, disk, host, database
<1>2. rel \in Releases /\ script \in Script /\ secrets[rel] \in Releases
  BY DEF PasswordInv, TypeOK, Script, SourceOK, PathOK, Apply, RotateAdmin, Mark, At
<1>3. /\ script' \in Script
      /\ script'.rel = script.rel /\ script'.prev = script.prev /\ script'.full = script.full
      /\ script'.pc \in {"verify", "mark", "up"} /\ script.full
      /\ script'.pc = "up" => script'.rotated
  <2>1. script.full /\ {"verify", "mark", "up"} \subseteq FullStep
    BY DEF Apply, RotateAdmin, Mark, At, FullStep, PasswordInv, PathOK
  <2> DEFINE Stepped(p) ==
        /\ script' \in Script /\ script'.pc = p /\ script'.full = script.full
        /\ script'.rel = script.rel /\ script'.prev = script.prev
  <2>2. CASE Apply \/ RotateAdmin
    <3>1. Goto("verify") \/ Goto("mark")
      BY <2>2 DEF Apply, RotateAdmin
    <3>2. Stepped("verify") \/ Stepped("mark")
      BY <1>2, <3>1 DEF Goto, Script, FullStep
    <3> QED BY <2>1, <3>2
  <2>3. CASE Mark
    BY <1>2, <2>1, <2>3 DEF Mark, Script
  <2> QED BY <2>1, <2>2, <2>3
<1>4. dbRole' \in Releases /\ dbAdmin' \in Releases
  BY <1>2 DEF Apply, RotateAdmin, Mark, database, PasswordInv, TypeOK
<1>5. TypeOK'
  BY <1>1, <1>3, <1>4 DEF PasswordInv, TypeOK
<1>6. PathOK'
  BY <1>3 DEF PathOK, FullStep, OneStep, Rotated
<1>7. /\ dbRole' = secrets[rel]
      /\ script'.pc # "verify" => dbAdmin' = secrets[rel]
  BY <1>2, <1>3 DEF Apply, RotateAdmin, Mark, At, Goto, Script, database, PasswordInv, SourceOK,
    RoleSet, AdminSet
<1>8. SourceOK'
  <2>1. script'.rotated = script.rotated \/ script'.rotated
    BY <1>2 DEF Apply, RotateAdmin, Mark, Goto, Script
  <2>2. script.pc # "idle"
    BY DEF Apply, RotateAdmin, Mark, At
  <2> QED BY <1>1, <1>3, <1>7, <2>1, <2>2 DEF PasswordInv, SourceOK, RoleSet, AdminSet
<1>9. Held(dbRole)' /\ Held(dbAdmin)'
  <2>1. dbAdmin \in Releases /\ dbRole \in Releases
    BY DEF PasswordInv, TypeOK
  <2>2. CASE Apply
    BY <1>1, <1>2, <2>1, <2>2, ReleaseAssumption DEF Apply, Held, PasswordInv
  <2>3. CASE RotateAdmin
    BY <1>1, <1>2, <2>1, <2>3, ReleaseAssumption DEF RotateAdmin, Held, PasswordInv
  <2>4. CASE Mark
    BY <1>1, <2>4 DEF Mark, database, Held, PasswordInv
  <2> QED BY <2>2, <2>3, <2>4
<1> QED BY <1>5, <1>6, <1>8, <1>9 DEF PasswordInv

LEMMA LinkKeeps ==
  ASSUME PasswordInv, Link \/ RemoveUrl \/ LinkController \/ Relink
  PROVE  PasswordInv'
<1>1. UNCHANGED <<secrets, dbRole, dbAdmin, tag, running, queue>>
  BY DEF Link, RemoveUrl, LinkController, Relink, database, host
<1>2. rel \in Releases /\ script.prev \in Releases /\ script \in Script
  BY DEF PasswordInv, TypeOK, Script
<1>3. /\ script' \in Script /\ script'.rel = script.rel /\ script'.prev = script.prev
      /\ script'.full = script.full /\ script'.rotated = script.rotated
      /\ script'.pc \in {"rmurl", "finish", "cwait", "idle"}
  BY <1>2 DEF Link, RemoveUrl, LinkController, Relink, Goto, Script, FullStep, OneStep
<1>4. /\ url' \in [Releases -> Releases \cup {Nobody}] /\ current' \in Releases
      /\ ended' \in {"none", "early", "activated", "rolledback", "forward", "killed"}
  BY <1>2 DEF Link, RemoveUrl, LinkController, Relink, PasswordInv, TypeOK
<1>5. TypeOK'
  BY <1>1, <1>3, <1>4 DEF PasswordInv, TypeOK
<1>6. CASE Link
  <2>1. /\ script.pc = "link" /\ script'.pc = "rmurl" /\ current' = rel /\ url' = url
        /\ script.full /\ script.rotated
        /\ dbRole = secrets[rel] /\ dbAdmin = secrets[rel] /\ secrets[rel] # Nobody
    BY <1>2, <1>6 DEF Link, At, Goto, Script, PasswordInv, PathOK, SourceOK, FullStep, Rotated,
      RoleSet, AdminSet
  <2>2. PathOK' /\ SourceOK'
    BY <1>1, <1>3, <2>1 DEF PathOK, SourceOK, PasswordInv, OneStep
  <2>3. Held(dbRole)' /\ Held(dbAdmin)'
    BY <1>1, <1>2, <2>1 DEF Held
  <2> QED BY <1>5, <2>2, <2>3 DEF PasswordInv
<1>7. CASE RemoveUrl
  <2>1. /\ script.pc = "rmurl" /\ script'.pc = "finish" /\ current' = current /\ current = rel
        /\ script.full /\ script.rotated
        /\ dbRole = secrets[rel] /\ dbAdmin = secrets[rel] /\ secrets[rel] # Nobody
    BY <1>2, <1>7 DEF RemoveUrl, At, Goto, Script, PasswordInv, PathOK, SourceOK, FullStep, Rotated,
      RoleSet, AdminSet
  <2>2. PathOK' /\ SourceOK'
    BY <1>1, <1>3, <2>1 DEF PathOK, SourceOK, PasswordInv, OneStep, RoleSet, AdminSet
  <2>3. Held(dbRole)' /\ Held(dbAdmin)'
    BY <1>1, <1>2, <2>1 DEF Held
  <2> QED BY <1>5, <2>2, <2>3 DEF PasswordInv
<1>8. CASE LinkController \/ Relink
  <2>1. /\ script.pc # "idle" /\ ~(script.full /\ script.rotated)
        /\ script'.pc \in {"cwait", "idle"} /\ url' = url
        /\ script'.pc = "cwait" => ~script.full /\ current' = rel
        /\ script'.pc = "idle" => current' = script.prev
    BY <1>2, <1>8 DEF LinkController, Relink, At, Goto, Script, PasswordInv, PathOK, OneStep
  <2>2. secrets[current'] = secrets[current] /\ secrets[current] # Nobody
    BY <2>1 DEF PasswordInv, SourceOK
  <2>3. PathOK'
    BY <1>3, <2>1 DEF PathOK, PasswordInv, FullStep, OneStep, Rotated
  <2>4. SourceOK'
    BY <1>1, <1>3, <2>1, <2>2 DEF SourceOK, PasswordInv, RoleSet, AdminSet
  <2>5. Held(dbRole)' /\ Held(dbAdmin)'
    BY <1>1, <1>4, <2>1, <2>2 DEF Held, PasswordInv
  <2> QED BY <1>5, <2>3, <2>4, <2>5 DEF PasswordInv
<1> QED BY <1>6, <1>7, <1>8

LEMMA PasswordStep == PasswordInv /\ [Next]_vars => PasswordInv'
BY OperatorKeeps, QueueKeeps, StartKeeps, HostKeeps, PlainKeeps, PasswordStepKeeps, LinkKeeps
  DEF Next

\* At every command of the scripts, and after every failure or loss of one, both
\* passwords of the database belong to a release that can be found.
THEOREM PasswordInvariant == Spec => []PasswordInv
BY InitType, PasswordStep, PTL DEF Spec

\* The database, the disk, the containers and the scripts keep their types.
THEOREM TypeCorrect == Spec => []TypeOK
BY PasswordInvariant, PTL DEF PasswordInv

\* Wherever a script fails or is lost, the passwords the database accepts are on
\* the disk under `current` or under a release whose activation is not finished.
THEOREM PasswordsFollow == Spec => []CredentialsFollow
<1>1. PasswordInv => CredentialsFollow
  BY DEF PasswordInv, Held, CredentialsFollow, Open, TypeOK
<1> QED BY <1>1, PasswordInvariant, PTL

-----------------------------------------------------------------------------
(* What a rollback leaves.                                                 *)

Scope == IF script.full THEN Service ELSE {"controller"}

\* The containers that `up` brought back are the previous release's, and the
\* controller script's is the image it found, if that could be tagged back.
Restored ==
  /\ \A s \in Scope : running[s].up /\ running[s].from = script.prev
  /\ ~script.full /\ script.tagged => running["controller"].image = script.saved

BackOK ==
  /\ ~script.full => running["others"] = script.before["others"]
  /\ script.saved = script.before["controller"].image
  /\ script.pc = "back" /\ ~script.full /\ script.tagged => tag["controller"] = script.saved
  /\ script.pc = "relink" /\ script.upOK => Restored
  /\ script.pc = "idle" /\ ended = "rolledback" =>
       current = script.prev /\ (script.upOK => Restored)

BackInv == PasswordInv /\ BackOK

Rest(v) == /\ v.full = script.full /\ v.prev = script.prev /\ v.saved = script.saved
           /\ v.before = script.before /\ v.tagged = script.tagged

LEMMA RestStep ==
  ASSUME TypeOK, NEW p, Goto(p)
  PROVE  Rest(script') /\ script'.pc = p /\ script'.upOK = script.upOK
BY DEF TypeOK, Goto, Rest, Script

\* Steps that touch neither the containers nor the plan of the script.
LEMMA OtherBackSteps ==
  ASSUME BackInv, UNCHANGED running, Rest(script'), script'.upOK = script.upOK,
         \/ script'.pc \notin {"back", "relink", "idle"}
         \/ script'.pc = "idle" /\ ended' # "rolledback"
         \/ UNCHANGED <<current, tag, ended>> /\ script'.pc = script.pc
  PROVE  BackOK'
BY DEF BackInv, BackOK, Rest, Restored, Scope

LEMMA BackStepKeeps ==
  ASSUME BackInv, [Next]_vars
  PROVE  BackOK'
<1>1. script \in Script /\ running \in [Service -> Container]
  BY DEF BackInv, PasswordInv, TypeOK
<1>2. ASSUME NEW r \in Releases, NEW src \in Releases, Migrate(r, src) \/ Copy(r, src)
      PROVE  BackOK'
  BY <1>2, OtherBackSteps DEF Migrate, Copy, host, Rest
<1>3. CASE Request \/ Work \/ UNCHANGED vars
  BY <1>3, OtherBackSteps DEF Request, Work, vars, disk, Rest
<1>4. ASSUME NEW r \in Releases, StartFull(r) \/ StartController(r)
      PROVE  BackOK'
  BY <1>4 DEF StartFull, StartController, Begin, host, BackOK, Restored
<1>5. CASE \/ DryRun \/ Apply \/ Verify \/ RotateAdmin \/ Check \/ Link \/ RemoveUrl
           \/ CheckController \/ LinkController \/ Fail
  <2>1. UNCHANGED running
    BY <1>5 DEF DryRun, Apply, Verify, RotateAdmin, Check, Link, RemoveUrl, CheckController,
      LinkController, Fail, host
  <2>2. \E p \in {"apply", "verify", "rotate", "mark", "link", "rmurl", "finish", "clink",
                 "cwait", "cleanup"} : Goto(p)
    BY <1>5 DEF DryRun, Apply, Verify, RotateAdmin, Check, Link, RemoveUrl, CheckController,
      LinkController, Fail
  <2> QED BY <2>1, <2>2, RestStep, OtherBackSteps DEF BackInv, PasswordInv
<1>6. CASE Finish \/ CaughtUp \/ Kill
  <2>1. UNCHANGED running /\ Goto("idle") /\ ended' # "rolledback"
    BY <1>6 DEF Finish, CaughtUp, Kill, host
  <2> QED BY <2>1, RestStep, OtherBackSteps DEF BackInv, PasswordInv
<1>7. CASE Build \/ BuildController
  <2>1. /\ UNCHANGED running
        /\ \/ Goto("gate")
           \/ Goto("cstop")
           \/ Goto("idle") /\ ended' # "rolledback"
    <3>1. CASE Build
      <4>1. PICK S \in SUBSET Service :
              IF S = Service THEN Goto("gate") /\ UNCHANGED ended
              ELSE Goto("idle") /\ ended' = "early"
        BY <3>1 DEF Build
      <4>2. UNCHANGED running
        BY <3>1 DEF Build
      <4> QED BY <4>1, <4>2
    <3>2. CASE BuildController
      BY <3>2 DEF BuildController
    <3> QED BY <1>7, <3>1, <3>2
  <2> QED BY <2>1, RestStep, OtherBackSteps DEF BackInv, PasswordInv
<1>8. CASE Gate \/ Mark
  <2>1. /\ UNCHANGED running /\ Rest(script') /\ script'.upOK = script.upOK
        /\ script'.pc \in {"stop", "cleanup", "up"}
    BY <1>1, <1>8 DEF Gate, Mark, host, Rest, Script
  <2> QED BY <2>1, OtherBackSteps
<1>9. CASE Stop \/ Up
  <2>1. script.full
    BY <1>9 DEF Stop, Up, At, BackInv, PasswordInv, PathOK, FullStep
  <2>2. Rest(script') /\ script'.pc \in {"dryrun", "check", "cleanup"}
    BY <1>1, <1>9 DEF Stop, Up, Rest, Script
  <2> QED BY <2>1, <2>2 DEF BackInv, BackOK, Rest, Restored
<1>10. CASE StopController \/ UpController
  <2>1. Rest(script') /\ script'.pc \in {"cup", "ccheck"}
    BY <1>1, <1>10, RestStep DEF StopController, UpController, Rest, Script, Goto
  <2>2. running'["others"] = running["others"]
    BY <1>1, <1>10 DEF StopController, UpController, Replace, Started, Service
  <2> QED BY <2>1, <2>2 DEF BackInv, BackOK, Rest, Restored
<1>11. CASE Cleanup
  <2>1. /\ UNCHANGED running /\ script.full
        /\ (Goto("idle") /\ ended' # "rolledback") \/ Goto("back")
    BY <1>11 DEF Cleanup, host
  <2>2. CASE Goto("idle") /\ ended' # "rolledback"
    BY <2>1, <2>2, RestStep, OtherBackSteps DEF BackInv, PasswordInv
  <2>3. CASE Goto("back")
    <3>1. Rest(script') /\ script'.pc = "back"
      BY <2>3, RestStep DEF BackInv, PasswordInv
    <3> QED BY <2>1, <3>1 DEF BackInv, BackOK, Rest
  <2> QED BY <2>1, <2>2, <2>3
<1>14. CASE RestoreImage
  <2>1. PICK ok \in BOOLEAN :
          /\ tag' = IF ok THEN [tag EXCEPT !["controller"] = script.saved] ELSE tag
          /\ script' = [script EXCEPT !.pc = "back", !.tagged = ok]
    BY <1>14 DEF RestoreImage
  <2>2. ~script.full /\ UNCHANGED running /\ tag \in [Service -> Releases]
    BY <1>14 DEF RestoreImage, BackInv, PasswordInv, TypeOK
  <2>3. /\ script'.pc = "back" /\ script'.tagged = ok /\ script'.full = script.full
        /\ script'.saved = script.saved /\ script'.before = script.before
    BY <1>1, <2>1 DEF Script
  <2>4. ok => tag'["controller"] = script.saved
    BY <2>1, <2>2 DEF Service
  <2> QED BY <2>2, <2>3, <2>4 DEF BackInv, BackOK
<1>12. CASE Back
  <2>1. PICK S \in SUBSET Scope :
          /\ running' = Started(S, script.prev)
          /\ script' = [script EXCEPT !.pc = "relink", !.broke = script'.broke,
                                      !.upOK = (S = Scope)]
    BY <1>12 DEF Back, Scope
  <2>2. Rest(script') /\ script'.pc = "relink" /\ script'.upOK = (S = Scope) /\ Scope' = Scope
    BY <1>1, <2>1 DEF Rest, Script, Scope
  <2>3. \A s \in S : /\ running'[s].from = script.prev /\ running'[s].up
                     /\ running'[s].image = tag[s]
    <3>1. S \subseteq Service
      BY <2>1 DEF Scope, Service
    <3> QED BY <2>1, <3>1 DEF Started
  <2>4. ~script.full => /\ script.tagged => tag["controller"] = script.saved
                        /\ running'["others"] = running["others"]
    BY <1>12, <2>1 DEF Back, At, BackInv, BackOK, Started, Scope, Service
  <2>5. script'.upOK => Restored'
    <3>1. SUFFICES ASSUME S = Scope PROVE Restored'
      BY <2>2
    <3>2. \A s \in Scope : running'[s].up /\ running'[s].from = script.prev
      BY <2>3, <3>1
    <3>3. ~script.full => running'["controller"].image = tag["controller"]
      BY <2>3, <3>1 DEF Scope
    <3> QED BY <2>2, <2>4, <3>2, <3>3 DEF Restored, Rest
  <2> QED BY <2>2, <2>4, <2>5 DEF BackInv, BackOK, Rest
<1>13. CASE Relink
  <2>1. UNCHANGED running /\ Goto("idle") /\ current' = script.prev /\ script.pc = "relink"
    BY <1>13 DEF Relink, At, host
  <2>2. Rest(script') /\ script'.pc = "idle" /\ script'.upOK = script.upOK
    BY <2>1, RestStep DEF BackInv, PasswordInv
  <2> QED BY <2>1, <2>2 DEF BackInv, BackOK, Rest, Restored, Scope
<1> QED BY <1>2, <1>3, <1>4, <1>5, <1>6, <1>7, <1>8, <1>9, <1>10, <1>11, <1>12, <1>13, <1>14
  DEF Next

LEMMA BackInvariant == Spec => []BackInv
<1>1. Init => BackInv
  <2>1. Init => /\ script.pc = "idle" /\ ended = "none"
                /\ script.saved = Base /\ script.before = running
                /\ running["controller"].image = Base
    BY DEF Init, Service
  <2> QED BY <2>1, InitType DEF BackInv, BackOK
<1>2. BackInv /\ [Next]_vars => BackInv'
  BY PasswordStep, BackStepKeeps DEF BackInv
<1> QED BY <1>1, <1>2, PTL DEF Spec

\* A controller activation that failed, at whichever step, leaves the release it
\* found and every other service as it was, and the image it found unless that
\* could not be tagged back.
THEOREM ControllerRestored == Spec => []ControllerOnlyRestores
<1>1. BackInv => ControllerOnlyRestores
  BY DEF BackInv, BackOK, Restored, ControllerOnlyRestores, At
<1> QED BY <1>1, BackInvariant, PTL

\* A rollback whose `up` succeeded leaves services that can log in, unless the
\* passwords of the database are no longer those of the release it went back to.
THEOREM RollbackLogsIn == Spec => []RollbackServes
<1>1. BackInv => RollbackServes
  BY DEF BackInv, BackOK, Restored, Scope, RollbackServes, At, LogsIn
<1> QED BY <1>1, BackInvariant, PTL
=============================================================================
