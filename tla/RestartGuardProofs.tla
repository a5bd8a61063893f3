-------------------------- MODULE RestartGuardProofs --------------------------
(***************************************************************************)
(* Proofs about RestartGuard for any number of actions, any cooldown, day  *)
(* and limit, and an agent that may die at every step.                     *)
(*                                                                         *)
(* HonestInv and SafeInv hold whatever reads and writes of guard.json fail *)
(* and whatever a loss of the host takes from it.  The core of SafeInv,    *)
(* Covers, says that the file (and the handler's copy, if it is one) knows *)
(* of every restart that is still recorded.  Only the refinement needs a   *)
(* file that can always be read and written and is never faults.             *)
(***************************************************************************)
EXTENDS RestartGuard, FiniteSetTheorems, SequenceTheorems, TLAPS

\* Restart i was seen to recover, with a new block if the baseline was read.
Proper(i) == launches[i].verified /\ (launches[i].measured => launches[i].progressed)

Seen(id) == \E i \in DOMAIN launches : launches[i].id = id /\ Proper(i)

\* The answer, every version of the file and the copy only say "succeeded" of a seen
\* recovery.
HonestOK ==
  /\ \A id \in Ids : reply.status = "succeeded" /\ reply.id = id => Seen(id)
  /\ \A id \in Ids : disk.processed[id] = "succeeded" => Seen(id)
  /\ \A id \in Ids : guard.processed[id] = "succeeded" => Seen(id)
  /\ \A g \in unsynced : \A id \in Ids : g.processed[id] = "succeeded" => Seen(id)

\* The last restart is that of the action under way.
Current ==
  launches # <<>> /\ launches[Len(launches)].id = action /\ launches[Len(launches)].read = read

ResultOK ==
  /\ pc = "result" <=> result # "none"
  /\ result = "succeeded" => Current /\ Proper(Len(launches))

\* The baseline is the block the node had, if it was read.
ProgressOK ==
  /\ pc \in {"launch", "verify"} => baseline \in {0, before}
  /\ pc = "verify" => Current /\ (launches[Len(launches)].measured => baseline > 0)

HonestInv == TypeOK /\ HonestOK /\ ResultOK /\ ProgressOK

\* Guard g knows of every recorded restart: its action is not launched again, it
\* counts for the limit and the cooldown, and it blocks unless its recovery was seen.
Covers(g) ==
  \A i \in DOMAIN launches : launches[i].kept =>
    /\ g.processed[launches[i].id] # "none"
    /\ launches[i].at > now - Day => launches[i].at \in g.attempts
    /\ launches[i].verified \/ g.failed \/ g.processed[launches[i].id] = "running"

\* The same of the restarts before this tick, whose attempts are on the disk for good.
CoversOld(g) ==
  \A i \in DOMAIN launches : launches[i].kept /\ launches[i].at < now =>
    /\ g.processed[launches[i].id] # "none"
    /\ launches[i].at > now - Day => launches[i].at \in g.attempts
    /\ launches[i].verified \/ g.failed \/ g.processed[launches[i].id] = "running"

\* What a loss of the host may bring back knows of the older restarts.
GuardsOK ==
  /\ Covers(disk) /\ IsFiniteSet(disk.attempts) /\ IsFiniteSet(guard.attempts)
  /\ \A g \in unsynced : CoversOld(g) /\ IsFiniteSet(g.attempts)

\* What the handler established for the action it carries.
CarriedOK ==
  pc # "idle" =>
    /\ read => Covers(guard)
    /\ ~guard.failed
    /\ \A id \in Ids : guard.processed[id] = "running" <=> id = action
    /\ pc # "record" /\ kept => disk = guard

\* A guard that could not be read has replaced the file: no restart but its own is
\* recorded any more.
UnreadOK ==
  ~read /\ kept /\ pc \notin {"idle", "record"} =>
    \A i \in DOMAIN launches : launches[i].kept =>
      pc # "launch" /\ i = Len(launches) /\ launches[i].id = action

\* The recorded restarts of the day that ends now.
LastDay == {i \in DOMAIN launches : launches[i].kept /\ launches[i].at > now - Day}

\* Between admission and launch no recorded restart stands against another, if the
\* guard could be read.
FreeOK ==
  pc \in {"record", "launch"} =>
    /\ now \in guard.attempts
    /\ read =>
         /\ \A i \in DOMAIN launches : launches[i].kept =>
              launches[i].id # action /\ launches[i].verified /\ now - launches[i].at >= Hour
         /\ Cardinality(LastDay) < Limit

\* Of two restarts that are both recorded the later one's guard could be read: a guard
\* that could not would have replaced what recorded the earlier.
LaunchesOK ==
  /\ \A i \in DOMAIN launches : launches[i].at <= now
  /\ \A i, j \in DOMAIN launches : i < j /\ launches[i].kept /\ launches[j].kept => launches[j].read
  /\ LaunchedOnce /\ CooldownKept /\ StopsAfterFailure /\ DailyLimitKept

SafeInv == GuardsOK /\ CarriedOK /\ UnreadOK /\ FreeOK /\ LaunchesOK /\ (pc = "idle" => read)

----------------------------------------------------------------------------
(* The operators on the guard, and the steps of the history.               *)

LEMMA LoadedType ==
  ASSUME disk \in Guards
  PROVE  /\ Loaded \in Guards
         /\ Loaded.attempts = disk.attempts
         /\ disk.failed => Loaded.failed
         /\ \A id \in Ids : Loaded.processed[id] # "running"
         /\ \A id \in Ids : Loaded.processed[id] = "none" <=> disk.processed[id] = "none"
         /\ \A id \in Ids : Loaded.processed[id] = "succeeded" <=> disk.processed[id] = "succeeded"
         /\ \A id \in Ids : disk.processed[id] = "running" => Loaded.failed
BY DEF Loaded, Guards, Statuses

LEMMA EmptyGuardType ==
  /\ EmptyGuard \in Guards /\ EmptyGuard.attempts = {} /\ ~EmptyGuard.failed
  /\ \A id \in Ids : EmptyGuard.processed[id] = "none"
BY DEF EmptyGuard, Guards, Statuses

\* A save leaves the file as it is, or replaces it and keeps the old version.
LEMMA SaveType ==
  ASSUME NEW g, faults \in Nat, Save(g)
  PROVE  /\ (disk' = g \/ disk' = disk) /\ faults' \in Nat
         /\ unsynced' \subseteq unsynced \cup {disk}
BY DEF Save, Fault

LEMMA ReadType ==
  ASSUME NEW id \in Ids, disk \in Guards, faults \in Nat, Read(id)
  PROVE  /\ disk' \in Guards /\ (disk' = disk \/ disk' = Loaded) /\ faults' \in Nat
         /\ unsynced' \subseteq unsynced \cup {disk}
<1>1. CASE Loaded = disk
  BY <1>1 DEF Read, fileVars
<1>2. CASE Loaded # disk
  <2>1. Save(Loaded)
    BY <1>2 DEF Read
  <2> QED BY <2>1, SaveType, LoadedType
<1> QED BY <1>1, <1>2

LEMMA IndexType ==
  ASSUME TypeOK
  PROVE  /\ DOMAIN launches = 1 .. Len(launches) /\ Len(launches) \in Nat
         /\ launches # <<>> => Len(launches) \in DOMAIN launches
         /\ \A i \in DOMAIN launches : launches[i] \in Launched
BY DEF TypeOK

\* Steps that only make the history forget that attempts are recorded.
OnlyForgets ==
  /\ launches' \in Seq(Launched) /\ Len(launches') = Len(launches)
  /\ \A i \in DOMAIN launches :
       /\ launches'[i].id = launches[i].id /\ launches'[i].at = launches[i].at
       /\ launches'[i].read = launches[i].read
       /\ launches'[i].measured = launches[i].measured
       /\ launches'[i].verified = launches[i].verified
       /\ launches'[i].progressed = launches[i].progressed
       /\ launches'[i].kept => launches[i].kept

LEMMA UnchangedForgets ==
  ASSUME TypeOK, UNCHANGED launches
  PROVE  OnlyForgets
BY IndexType DEF TypeOK, OnlyForgets

LEMMA ForgetsType ==
  ASSUME TypeOK, NEW f \in [DOMAIN launches -> BOOLEAN],
         \A i \in DOMAIN launches : f[i] => launches[i].kept,
         launches' = [i \in DOMAIN launches |-> [launches[i] EXCEPT !.kept = f[i]]]
  PROVE  OnlyForgets /\ \A i \in DOMAIN launches : launches'[i].kept = f[i]
<1>1. \A i \in DOMAIN launches : launches'[i] = [launches[i] EXCEPT !.kept = f[i]]
  OBVIOUS
<1>2. \A i \in DOMAIN launches : launches[i] \in Launched /\ f[i] \in BOOLEAN
  BY IndexType
<1>3. \A i \in DOMAIN launches :
        /\ launches'[i] \in Launched
        /\ launches'[i].id = launches[i].id /\ launches'[i].at = launches[i].at
        /\ launches'[i].read = launches[i].read
        /\ launches'[i].measured = launches[i].measured
        /\ launches'[i].verified = launches[i].verified
        /\ launches'[i].progressed = launches[i].progressed
        /\ launches'[i].kept = f[i]
  BY <1>1, <1>2 DEF Launched
<1>4. Len(launches) \in Nat /\ DOMAIN launches = 1 .. Len(launches)
  BY IndexType
<1>5. launches' = [i \in 1 .. Len(launches) |-> launches'[i]]
  BY <1>4
<1>6. launches' \in Seq(Launched) /\ Len(launches') = Len(launches)
  BY <1>3, <1>4, <1>5
<1> QED BY <1>3, <1>6 DEF OnlyForgets

\* A guard that was not read replaces the file.
LEMMA ForgottenType ==
  ASSUME TypeOK, launches' = Forgotten
  PROVE  OnlyForgets /\ \A i \in DOMAIN launches : ~launches'[i].kept
<1> DEFINE f == [i \in DOMAIN launches |-> FALSE]
<1>1. launches' = [i \in DOMAIN launches |-> [launches[i] EXCEPT !.kept = f[i]]]
  BY DEF Forgotten
<1>2. f \in [DOMAIN launches -> BOOLEAN] /\ \A i \in DOMAIN launches : ~f[i]
  OBVIOUS
<1> HIDE DEF f
<1> QED BY <1>1, <1>2, ForgetsType

\* The host comes back with an older version of the file, or with none.
LEMMA LossType ==
  ASSUME TypeOK, HostLoss
  PROVE  /\ OnlyForgets
         /\ \A i \in DOMAIN launches :
              launches'[i].kept => disk' # EmptyGuard /\ launches[i].at < now
<1> DEFINE f == [i \in DOMAIN launches |->
                  launches[i].kept /\ disk' # EmptyGuard /\ launches[i].at < now]
<1>1. \A i \in DOMAIN launches :
        /\ f[i] = (launches[i].kept /\ disk' # EmptyGuard /\ launches[i].at < now)
        /\ f[i] \in BOOLEAN
  BY IndexType DEF Launched
<1>2. launches' = [i \in DOMAIN launches |-> [launches[i] EXCEPT !.kept = f[i]]]
  <2>1. launches' = [i \in DOMAIN launches |-> [launches[i] EXCEPT
          !.kept = launches[i].kept /\ disk' # EmptyGuard /\ launches[i].at < now]]
    BY DEF HostLoss
  <2> QED BY <2>1
<1>3. f \in [DOMAIN launches -> BOOLEAN]
  BY <1>1
<1> HIDE DEF f
<1>4. OnlyForgets /\ \A i \in DOMAIN launches : launches'[i].kept = f[i]
  BY <1>1, <1>2, <1>3, ForgetsType
<1> QED BY <1>1, <1>4

\* A launch adds one restart to the history.
LEMMA LaunchType ==
  ASSUME TypeOK, Launch
  PROVE  /\ launches' \in Seq(Launched)
         /\ Len(launches') = Len(launches) + 1
         /\ \A i \in DOMAIN launches : launches'[i] = launches[i]
         /\ launches'[Len(launches) + 1].id = action
         /\ launches'[Len(launches) + 1].at = now
         /\ launches'[Len(launches) + 1].read = read
         /\ launches'[Len(launches) + 1].kept = kept
         /\ launches'[Len(launches) + 1].measured => baseline > 0
<1> DEFINE known == baseline > 0
           new == [id |-> action, at |-> now, read |-> read, kept |-> kept,
                   measured |-> known, verified |-> FALSE, progressed |-> FALSE]
<1>0. /\ action \in Ids /\ now \in Nat /\ kept \in BOOLEAN /\ read \in BOOLEAN
      /\ known \in BOOLEAN
  BY DEF TypeOK
<1>1. launches \in Seq(Launched) /\ launches' = Append(launches, new)
  BY DEF TypeOK, Launch
<1> HIDE DEF known
<1>3. /\ new \in Launched /\ new.id = action /\ new.at = now /\ new.read = read
      /\ new.kept = kept /\ new.measured = known
  BY <1>0 DEF Launched
<1> HIDE DEF new
<1>2. /\ Append(launches, new) \in Seq(Launched)
      /\ Len(Append(launches, new)) = Len(launches) + 1
      /\ \A i \in 1 .. Len(launches) : Append(launches, new)[i] = launches[i]
      /\ Append(launches, new)[Len(launches) + 1] = new
  BY <1>1, <1>3, AppendProperties
<1>4. new.measured => baseline > 0
  BY <1>3 DEF known
<1> QED BY <1>1, <1>2, <1>3, <1>4, IndexType

\* A recovery marks the last one.
LEMMA RecoveredType ==
  ASSUME TypeOK, Current, Recovered
  PROVE  /\ launches' \in Seq(Launched)
         /\ Len(launches') = Len(launches)
         /\ \A i \in DOMAIN launches :
              i # Len(launches) => launches'[i] = launches[i]
         /\ launches'[Len(launches)].id = launches[Len(launches)].id
         /\ launches'[Len(launches)].at = launches[Len(launches)].at
         /\ launches'[Len(launches)].read = launches[Len(launches)].read
         /\ launches'[Len(launches)].kept = launches[Len(launches)].kept
         /\ launches'[Len(launches)].measured = launches[Len(launches)].measured
         /\ launches'[Len(launches)].verified
         /\ height > before => launches'[Len(launches)].progressed
<1> DEFINE n == Len(launches)
           up == height > before
           new == [launches[n] EXCEPT !.verified = TRUE, !.progressed = up]
<1>1. n \in 1 .. Len(launches) /\ launches[n] \in Launched /\ launches \in Seq(Launched)
  BY IndexType DEF Current, TypeOK
<1>2. up \in BOOLEAN
  BY DEF TypeOK
<1>4. launches' = [launches EXCEPT ![n] = new]
  BY <1>1 DEF Recovered
<1> HIDE DEF n, up
<1>3. /\ new \in Launched /\ new.verified /\ new.progressed = up
      /\ new.id = launches[n].id /\ new.at = launches[n].at /\ new.kept = launches[n].kept
      /\ new.read = launches[n].read /\ new.measured = launches[n].measured
  BY <1>1, <1>2 DEF Launched
<1> HIDE DEF new
<1>5. /\ [launches EXCEPT ![n] = new] \in Seq(Launched)
      /\ Len([launches EXCEPT ![n] = new]) = Len(launches)
      /\ \A i \in 1 .. Len(launches) :
           [launches EXCEPT ![n] = new][i] = IF i = n THEN new ELSE launches[i]
  BY <1>1, <1>3, ExceptSeq
<1>6. launches'[n] = new /\ launches' \in Seq(Launched) /\ Len(launches') = Len(launches)
  BY <1>1, <1>4, <1>5
<1>7. \A i \in DOMAIN launches : i # n => launches'[i] = launches[i]
  BY <1>1, <1>4, <1>5, IndexType
<1> QED BY <1>3, <1>6, <1>7 DEF n, up

\* Steps after which the same restarts are known, with no recovery forgotten.
SameRestarts ==
  /\ Len(launches') = Len(launches)
  /\ \A i \in DOMAIN launches :
       /\ launches'[i].id = launches[i].id /\ launches'[i].at = launches[i].at
       /\ launches'[i].read = launches[i].read
       /\ launches'[i].kept => launches[i].kept
       /\ launches[i].verified => launches'[i].verified

LEMMA RecoveredSame ==
  ASSUME HonestInv, Verify
  PROVE  SameRestarts
<1>1. TypeOK /\ Current /\ Recovered
  BY DEF HonestInv, ProgressOK, Verify
<1> QED BY <1>1, RecoveredType DEF SameRestarts

LEMMA ForgetsSame == OnlyForgets => SameRestarts
BY DEF OnlyForgets, SameRestarts

LEMMA OutcomeType ==
  ASSUME HonestInv, pc = "result"
  PROVE  /\ Outcome \in Guards
         /\ Outcome.attempts = guard.attempts
         /\ Outcome.failed = (guard.failed \/ result = "failed")
         /\ Outcome.processed[action] = result
         /\ \A id \in Ids \ {action} : Outcome.processed[id] = guard.processed[id]
BY DEF HonestInv, TypeOK, ResultOK, Outcome, Guards, Statuses

LEMMA AdmitType ==
  ASSUME TypeOK, NEW id \in Ids, NEW g \in Guards, AdmitFrom(id, g)
  PROVE  /\ guard' \in Guards
         /\ guard'.attempts = Recent(g) \cup {now}
         /\ guard'.failed = g.failed
         /\ guard'.processed[id] = "running"
         /\ \A i \in Ids \ {id} : guard'.processed[i] = g.processed[i]
<1>1. Recent(g) \subseteq Nat /\ now \in Nat
  BY DEF TypeOK, Recent, Guards
<1>2. guard' = [g EXCEPT !.attempts = Recent(g) \cup {now},
                         !.processed = [@ EXCEPT ![id] = "running"]]
  BY DEF AdmitFrom
<1> HIDE DEF Recent
<1> QED BY <1>1, <1>2 DEF Guards, Statuses

----------------------------------------------------------------------------
(* HonestInv.                                                              *)

LEMMA HonestInit == Init => HonestInv
<1> SUFFICES ASSUME Init PROVE HonestInv
  OBVIOUS
<1>1. reply \in Replies /\ reply.status = "none"
  BY DEF Init, Replies, Codes, Statuses
<1>0. <<>> \in Seq(Launched)
  OBVIOUS
<1>2. TypeOK
  BY <1>0, <1>1, EmptyGuardType DEF Init, TypeOK
<1>3. HonestOK /\ ResultOK
  BY <1>1, EmptyGuardType DEF Init, HonestOK, ResultOK
<1>4. ProgressOK
  BY DEF Init, ProgressOK
<1> QED BY <1>2, <1>3, <1>4 DEF HonestInv

\* A verified restart that was measured has progressed.
LEMMA VerifiedProper ==
  ASSUME HonestInv, Verify
  PROVE  /\ (Current /\ Proper(Len(launches)))' /\ Len(launches') = Len(launches)
         /\ launches'[Len(launches)].id = launches[Len(launches)].id
<1>1. /\ TypeOK /\ Current /\ Recovered /\ height > baseline
      /\ baseline \in {0, before} /\ (launches[Len(launches)].measured => baseline > 0)
  BY DEF HonestInv, ProgressOK, Verify
<1>2. Len(launches') = Len(launches) /\ launches' \in Seq(Launched)
  BY <1>1, RecoveredType
<1>3. Len(launches) # 0 /\ UNCHANGED <<action, read>>
  BY <1>1, IndexType DEF Current, Recovered
<1>4. /\ launches'[Len(launches)].verified
      /\ height > before => launches'[Len(launches)].progressed
      /\ launches'[Len(launches)].measured = launches[Len(launches)].measured
      /\ launches'[Len(launches)].id = launches[Len(launches)].id
      /\ launches'[Len(launches)].read = launches[Len(launches)].read
  BY <1>1, RecoveredType
<1>5. launches' # <<>>
  BY <1>2, <1>3
<1>6. launches[Len(launches)].measured => height > before
  BY <1>1 DEF TypeOK
<1>7. Current'
  BY <1>1, <1>2, <1>3, <1>4, <1>5 DEF Current
<1>8. launches'[Len(launches)].measured => launches'[Len(launches)].progressed
  BY <1>4, <1>6
<1>9. Proper(Len(launches))'
  BY <1>2, <1>4, <1>8 DEF Proper
<1> QED BY <1>2, <1>4, <1>7, <1>9

\* No step takes the recovery of an action back.
LEMMA SeenKept ==
  ASSUME HonestInv, NEW id \in Ids, Seen(id), OnlyForgets \/ Launch \/ Verify
  PROVE  Seen(id)'
<1>0. PICK i \in DOMAIN launches : launches[i].id = id /\ Proper(i)
  BY DEF Seen
<1>1. CASE OnlyForgets
  <2>1. DOMAIN launches' = 1 .. Len(launches') /\ Len(launches') = Len(launches)
    BY <1>1 DEF OnlyForgets
  <2>2. i \in DOMAIN launches'
    BY <2>1, IndexType DEF HonestInv
  <2> QED BY <1>0, <1>1, <2>2 DEF OnlyForgets, Seen, Proper
<1>2. CASE Launch
  <2>1. i \in DOMAIN launches' /\ launches'[i] = launches[i]
    BY <1>2, LaunchType, IndexType DEF HonestInv
  <2> QED BY <1>0, <2>1 DEF Seen, Proper
<1>3. CASE Verify
  <2>1. /\ TypeOK /\ Current /\ Recovered
        /\ i \in DOMAIN launches' /\ DOMAIN launches' = DOMAIN launches
    <3>1. TypeOK /\ Current /\ Recovered
      BY <1>3 DEF HonestInv, ProgressOK, Verify
    <3> QED BY <3>1, RecoveredType, IndexType
  <2>2. CASE i = Len(launches)
    BY <1>0, <1>3, <2>1, <2>2, VerifiedProper DEF Seen
  <2>3. CASE i # Len(launches)
    <3>1. launches'[i] = launches[i]
      BY <2>1, <2>3, RecoveredType
    <3> QED BY <1>0, <2>1, <3>1 DEF Seen, Proper
  <2> QED BY <2>2, <2>3
<1> QED BY <1>1, <1>2, <1>3

LEMMA HonestRequest ==
  ASSUME HonestInv, NEW id \in Ids, Request(id)
  PROVE  HonestInv'
<1> USE DEF HonestInv
<1>0. UNCHANGED <<launches, kept, before>> /\ TypeOK /\ pc = "idle"
  BY DEF Request, RefuseInvalid, RefuseLocked, Replay, Refuse, Admit, AdmitUnread, AdmitFrom, Read,
    histVars
<1>1. \A i \in Ids : Seen(i)' <=> Seen(i)
  BY <1>0 DEF Seen, Proper
<1>2. CASE RefuseInvalid(id) \/ RefuseLocked(id)
  <2>0. UNCHANGED <<envVars, fileVars, handlerVars, histVars>>
        /\ reply' = [id |-> id, code |-> 400, status |-> "none"]
    BY <1>2 DEF RefuseInvalid, RefuseLocked, Answer
  <2>1. UNCHANGED <<envVars, fileVars, handlerVars, histVars>> /\ reply' \in Replies
        /\ reply'.status # "succeeded"
    BY <2>0 DEF TypeOK, Replies, Codes, Statuses
  <2>2. TypeOK'
    BY <2>1 DEF TypeOK, envVars, fileVars, handlerVars, histVars
  <2>3. HonestOK'
    BY <1>1, <2>1 DEF HonestOK, fileVars, handlerVars
  <2> QED BY <2>1, <2>2, <2>3 DEF ResultOK, ProgressOK, Current, Proper, handlerVars, histVars
<1>3. CASE Replay(id) \/ Refuse(id)
  <2>1. /\ disk' \in Guards /\ (disk' = disk \/ disk' = Loaded) /\ faults' \in Nat
        /\ unsynced' \subseteq unsynced \cup {disk}
        /\ UNCHANGED <<envVars, handlerVars, histVars>>
    BY <1>3, ReadType DEF TypeOK, Replay, Refuse
  <2>2. /\ reply' \in Replies
        /\ reply'.status = "succeeded" => disk.processed[reply'.id] = "succeeded"
    <3>1. CASE Replay(id)
      <4>1. Loaded.processed[id] \in Statuses
        BY LoadedType DEF TypeOK, Guards
      <4>2. reply' = [id |-> id, code |-> 200, status |-> Loaded.processed[id]]
        BY <3>1 DEF Replay, Answer
      <4>3. Loaded.processed[id] = "succeeded" => disk.processed[id] = "succeeded"
        BY LoadedType DEF TypeOK
      <4> HIDE DEF Loaded
      <4> QED BY <4>1, <4>2, <4>3 DEF TypeOK, Replies, Codes
    <3>2. CASE Refuse(id)
      BY <3>2 DEF TypeOK, Refuse, Answer, Replies, Codes, Statuses
    <3> QED BY <1>3, <3>1, <3>2
  <2>3. TypeOK'
    BY <2>1, <2>2 DEF TypeOK, envVars, handlerVars, histVars
  <2>4. HonestOK'
    <3>1. \A i \in Ids : disk'.processed[i] = "succeeded" => disk.processed[i] = "succeeded"
      BY <2>1, LoadedType DEF TypeOK
    <3> QED BY <1>1, <2>1, <2>2, <3>1 DEF HonestOK, handlerVars
  <2> QED BY <2>1, <2>3, <2>4 DEF ResultOK, ProgressOK, Current, Proper, handlerVars, histVars
<1>4. ASSUME NEW g \in Guards, AdmitFrom(id, g), read' \in BOOLEAN,
             disk' \in Guards, disk' = disk \/ disk' = Loaded, faults' \in Nat,
             unsynced' \subseteq unsynced \cup {disk},
             \A i \in Ids : g.processed[i] = "succeeded" => disk.processed[i] = "succeeded"
      PROVE  HonestInv'
  <2>1. /\ pc' = "record" /\ action' = id /\ result = "none"
        /\ UNCHANGED <<envVars, baseline, result, reply, launches, kept, before>>
    BY <1>0, <1>4 DEF AdmitFrom, ResultOK
  <2>2. TypeOK'
    BY <1>4, <2>1, AdmitType DEF TypeOK, envVars
  <2>3. HonestOK'
    <3>1. \A i \in Ids : guard'.processed[i] = "succeeded" => g.processed[i] = "succeeded"
      BY <1>4, AdmitType
    <3>2. \A i \in Ids : Loaded.processed[i] = "succeeded" => disk.processed[i] = "succeeded"
      BY LoadedType DEF TypeOK
    <3> QED BY <1>1, <1>4, <2>1, <3>1, <3>2 DEF HonestOK
  <2> QED BY <2>1, <2>2, <2>3 DEF ResultOK, ProgressOK
<1>5. CASE Admit(id)
  <2>1. /\ disk' \in Guards /\ (disk' = disk \/ disk' = Loaded) /\ faults' \in Nat
        /\ unsynced' \subseteq unsynced \cup {disk}
        /\ AdmitFrom(id, Loaded) /\ read' \in BOOLEAN
    BY <1>5, ReadType DEF TypeOK, Admit
  <2>2. /\ Loaded \in Guards
        /\ \A i \in Ids : Loaded.processed[i] = "succeeded" => disk.processed[i] = "succeeded"
    BY LoadedType DEF TypeOK
  <2> HIDE DEF Loaded
  <2> QED BY <1>4, <2>1, <2>2
<1>6. CASE AdmitUnread(id)
  <2>1. /\ faults' = faults + 1 /\ disk' = disk /\ unsynced' = unsynced
        /\ AdmitFrom(id, EmptyGuard) /\ read' = FALSE
    BY <1>6 DEF AdmitUnread, Fault
  <2>2. disk' \in Guards /\ faults' \in Nat
    BY <2>1 DEF TypeOK
  <2>3. EmptyGuard \in Guards /\ \A i \in Ids : EmptyGuard.processed[i] # "succeeded"
    BY EmptyGuardType
  <2> HIDE DEF HonestInv
  <2> QED BY <1>4, <2>1, <2>2, <2>3
<1> QED BY <1>2, <1>3, <1>5, <1>6 DEF Request

LEMMA HonestLaunch ==
  ASSUME HonestInv, Launch
  PROVE  HonestInv'
<1> USE DEF HonestInv
<1>1. /\ pc = "launch"
      /\ UNCHANGED <<envVars, fileVars, action, guard, baseline, reply, read, kept, before>>
      /\ \/ pc' = "verify" /\ UNCHANGED result
         \/ pc' = "result" /\ result' = "failed"
  BY DEF Launch
<1>2. TypeOK'
  BY <1>1, LaunchType DEF TypeOK, envVars, fileVars
<1>3. HonestOK'
  BY <1>1, SeenKept DEF HonestOK, fileVars
<1>4. Current' /\ (launches'[Len(launches')].measured => baseline' > 0)
  <2>1. Len(launches') = Len(launches) + 1 /\ Len(launches) \in Nat
    BY LaunchType, IndexType
  <2>2. launches' # <<>>
    BY <2>1
  <2> QED BY <1>1, <2>1, <2>2, LaunchType DEF Current
<1>5. ResultOK' /\ ProgressOK'
  BY <1>1, <1>4 DEF ResultOK, ProgressOK
<1> QED BY <1>2, <1>3, <1>5

LEMMA HonestVerify ==
  ASSUME HonestInv, Verify
  PROVE  HonestInv'
<1> USE DEF HonestInv
<1>1. /\ UNCHANGED <<envVars, fileVars, action, guard, baseline, reply, read, kept, before>>
      /\ pc' = "result" /\ result' = "succeeded" /\ Current /\ Recovered
  BY DEF Verify, Recovered, ProgressOK
<1>2. TypeOK'
  BY <1>1, RecoveredType DEF TypeOK, envVars, fileVars
<1>3. HonestOK'
  BY <1>1, SeenKept DEF HonestOK, fileVars
<1>4. ResultOK' /\ ProgressOK'
  BY <1>1, VerifiedProper DEF ResultOK, ProgressOK
<1> QED BY <1>2, <1>3, <1>4

LEMMA HonestResult ==
  ASSUME HonestInv, RecordResult
  PROVE  HonestInv'
<1> USE DEF HonestInv
<1>1. /\ pc = "result" /\ result \in {"succeeded", "failed"} /\ Save(Outcome)
      /\ Answer(action, IF result = "succeeded" THEN 200 ELSE 500, result)
      /\ pc' = "idle" /\ guard' = EmptyGuard /\ baseline' = 0 /\ result' = "none"
      /\ read' = TRUE /\ kept' = FALSE /\ before' = 0 /\ UNCHANGED <<envVars, action>>
      /\ launches' = launches \/ launches' = Forgotten
  BY DEF RecordResult, Leave, ResultOK, TypeOK
<1>2. /\ (disk' = Outcome \/ disk' = disk) /\ faults' \in Nat /\ Outcome \in Guards
      /\ unsynced' \subseteq unsynced \cup {disk}
  BY <1>1, SaveType, OutcomeType DEF TypeOK
<1>3. /\ reply' \in Replies
      /\ reply'.status = "succeeded" => reply'.id = action /\ result = "succeeded"
  BY <1>1 DEF TypeOK, Answer, Replies, Codes, Statuses
<1>4. OnlyForgets
  BY <1>1, ForgottenType, UnchangedForgets
<1>5. TypeOK'
  <2> HIDE DEF Outcome
  <2> QED BY <1>1, <1>2, <1>3, <1>4, EmptyGuardType DEF TypeOK, envVars, OnlyForgets
<1>6. \A i \in Ids : (Seen(i) => Seen(i)') /\ (i = action /\ result = "succeeded" => Seen(i))
  <2>1. result = "succeeded" => Seen(action)
    BY IndexType DEF ResultOK, Current, Seen
  <2> QED BY <1>4, <2>1, SeenKept
<1>7. HonestOK'
  <2>1. \A i \in Ids : disk'.processed[i] = "succeeded" =>
          \/ disk.processed[i] = "succeeded" \/ guard.processed[i] = "succeeded"
          \/ i = action /\ result = "succeeded"
    BY <1>1, <1>2, OutcomeType
  <2> QED BY <1>1, <1>2, <1>3, <1>6, <2>1, EmptyGuardType DEF HonestOK
<1> QED BY <1>1, <1>5, <1>7 DEF ResultOK, ProgressOK

\* What a loss of the host leaves on the disk was there before, or is empty.
LEMMA HonestLoss ==
  ASSUME HonestInv, HostLoss
  PROVE  HonestInv'
<1> USE DEF HonestInv
<1>1. /\ disk' \in unsynced \cup {EmptyGuard} /\ unsynced' = {} /\ faults' = faults + 1
      /\ pc' = "idle" /\ guard' = EmptyGuard /\ baseline' = 0 /\ result' = "none"
      /\ read' = TRUE /\ kept' = FALSE /\ before' = 0
      /\ UNCHANGED <<envVars, action, reply>>
  BY DEF HostLoss, Fault, Leave
<1>2. OnlyForgets
  BY LossType
<1>3. TypeOK'
  <2>1. {disk', guard'} \cup unsynced' \subseteq Guards /\ faults' \in Nat
    BY <1>1, EmptyGuardType DEF TypeOK
  <2>2. locked' \in BOOLEAN
    BY <1>1 DEF TypeOK, envVars
  <2> QED BY <1>1, <1>2, <2>1, <2>2 DEF TypeOK, envVars, OnlyForgets
<1>4. \A i \in Ids : Seen(i) => Seen(i)'
  BY <1>2, SeenKept
<1>5. HonestOK'
  BY <1>1, <1>4, EmptyGuardType DEF HonestOK
<1> QED BY <1>1, <1>3, <1>5 DEF ResultOK, ProgressOK

LEMMA HonestRecordAttempt ==
  ASSUME HonestInv, RecordAttempt
  PROVE  HonestInv'
<1> USE DEF HonestInv
<1>1. /\ pc = "record" /\ pc' = "launch" /\ Save(guard) /\ kept' \in BOOLEAN
      /\ baseline' \in {height, 0} /\ before' = height
      /\ reply' = [id |-> action, code |-> 0, status |-> "none"]
      /\ UNCHANGED <<envVars, action, guard, result, read>>
      /\ launches' = launches \/ launches' = Forgotten
  BY DEF RecordAttempt, Answer
<1>2. /\ (disk' = guard \/ disk' = disk) /\ faults' \in Nat
      /\ unsynced' \subseteq unsynced \cup {disk}
  BY <1>1, SaveType DEF TypeOK
<1>3. OnlyForgets
  BY <1>1, ForgottenType, UnchangedForgets
<1>4. reply' \in Replies /\ reply'.status = "none"
  BY <1>1 DEF TypeOK, Replies, Codes, Statuses
<1>5. TypeOK'
  <2>1. read' \in BOOLEAN
    BY <1>1 DEF TypeOK
  <2>2. locked' \in BOOLEAN
    BY <1>1 DEF TypeOK, envVars
  <2> QED BY <1>1, <1>2, <1>3, <1>4, <2>1, <2>2 DEF TypeOK, envVars, OnlyForgets
<1>6. \A i \in Ids : Seen(i) => Seen(i)'
  BY <1>3, SeenKept
<1>7. HonestOK'
  BY <1>1, <1>2, <1>4, <1>6 DEF HonestOK
<1> QED BY <1>1, <1>5, <1>7 DEF ResultOK, ProgressOK

\* The steps that leave history and file alone.
LEMMA HonestOther ==
  ASSUME HonestInv,
         \/ Tick \/ NodeFinalizes \/ SwitchLock \/ UNCHANGED vars
         \/ LaunchFails \/ VerifyFails \/ Crash
  PROVE  HonestInv'
<1> USE DEF HonestInv
<1>1. UNCHANGED <<launches, reply>>
  BY DEF Tick, NodeFinalizes, SwitchLock, LaunchFails, VerifyFails, Crash, Leave, vars, histVars
<1>2. \A i \in Ids : Seen(i)' <=> Seen(i)
  BY <1>1 DEF Seen, Proper
<1>3. CASE Tick \/ NodeFinalizes \/ SwitchLock \/ UNCHANGED vars
  <2>0. locked' \in BOOLEAN
    BY <1>3 DEF Tick, NodeFinalizes, SwitchLock, vars, envVars, TypeOK
  <2>1. UNCHANGED <<disk, faults, handlerVars, histVars>> /\ now' \in Nat /\ height' \in Nat
        /\ locked' \in BOOLEAN /\ unsynced' \subseteq unsynced
    BY <1>3, <2>0 DEF Tick, NodeFinalizes, SwitchLock, vars, envVars, fileVars, TypeOK
  <2>2. TypeOK'
    BY <1>1, <2>1 DEF TypeOK, handlerVars, histVars
  <2>3. HonestOK'
    BY <1>1, <1>2, <2>1 DEF HonestOK, handlerVars
  <2> QED BY <1>1, <2>1, <2>2, <2>3 DEF ResultOK, ProgressOK, Current, Proper, handlerVars, histVars
<1>4. CASE LaunchFails \/ VerifyFails
  <2>1. /\ pc' = "result" /\ result' = "failed"
        /\ UNCHANGED <<envVars, fileVars, action, guard, baseline, reply, histVars>>
    BY <1>4 DEF LaunchFails, VerifyFails
  <2>2. TypeOK' /\ HonestOK'
    BY <1>2, <2>1 DEF TypeOK, HonestOK, envVars, fileVars, histVars
  <2> QED BY <2>1, <2>2 DEF ResultOK, ProgressOK
<1>5. CASE Crash
  <2>1. /\ pc' = "idle" /\ guard' = EmptyGuard /\ baseline' = 0 /\ result' = "none"
        /\ read' = TRUE /\ kept' = FALSE /\ before' = 0
        /\ UNCHANGED <<envVars, fileVars, action, launches, reply>>
    BY <1>5 DEF Crash, Leave
  <2>2. TypeOK' /\ HonestOK'
    BY <1>2, <2>1, EmptyGuardType DEF TypeOK, HonestOK, envVars, fileVars
  <2> QED BY <2>1, <2>2 DEF ResultOK, ProgressOK
<1> QED BY <1>3, <1>4, <1>5

LEMMA HonestStep ==
  ASSUME HonestInv, [Next]_vars
  PROVE  HonestInv'
BY HonestRequest, HonestRecordAttempt, HonestLaunch, HonestVerify, HonestResult, HonestLoss,
  HonestOther DEF Next, Run

\* Every variable of the handler keeps its type, guard.json included.
THEOREM TypeCorrect == Spec => []TypeOK
<1>1. Init => HonestInv
  BY HonestInit
<1>2. HonestInv /\ [Next]_vars => HonestInv'
  BY HonestStep
<1>3. HonestInv => TypeOK
  BY DEF HonestInv
<1> QED BY <1>1, <1>2, <1>3, PTL DEF Spec

\* "succeeded" is only answered for an action after a restart whose recovery was seen,
\* and which the node followed with a new block if its metrics could be read, even when
\* reads and writes of guard.json fail and the host loses it.
THEOREM Honest == Spec => []AnswersHonest
<1>1. Init => HonestInv
  BY HonestInit
<1>2. HonestInv /\ [Next]_vars => HonestInv'
  BY HonestStep
<1>3. HonestInv => AnswersHonest
  BY DEF HonestInv, TypeOK, Replies, HonestOK, Seen, Proper, AnswersHonest
<1> QED BY <1>1, <1>2, <1>3, PTL DEF Spec

----------------------------------------------------------------------------
(* SafeInv, whatever reads and writes of guard.json fail or are lost.      *)

LEMMA ConstantsType ==
  /\ Limit \in Nat /\ Hour \in Nat /\ Day \in Nat
  /\ Limit > 0 /\ Hour > 0 /\ Day > 0 /\ Hour <= Day
BY GuardAssumption

LEMMA RestartType ==
  ASSUME TypeOK, NEW i \in DOMAIN launches
  PROVE  launches[i].id \in Ids /\ launches[i].at \in Nat /\ i \in Nat
BY IndexType DEF Launched

LEMMA HistoryFinite ==
  ASSUME TypeOK
  PROVE  IsFiniteSet(LastDay) /\ \A j : IsFiniteSet(RecordedBefore(j))
<1>1. IsFiniteSet(DOMAIN launches)
  BY IndexType, FS_Interval
<1>2. LastDay \subseteq DOMAIN launches /\ \A j : RecordedBefore(j) \subseteq DOMAIN launches
  BY DEF LastDay, RecordedBefore
<1> QED BY <1>1, <1>2, FS_Subset

\* A guard that knows of every restart knows of the older ones.
LEMMA CoversOlder ==
  ASSUME NEW g, Covers(g)
  PROVE  CoversOld(g)
BY DEF Covers, CoversOld

\* The repaired file still knows of every recorded restart.
LEMMA LoadedCovers ==
  ASSUME TypeOK, Covers(disk)
  PROVE  Covers(Loaded)
BY RestartType, LoadedType DEF TypeOK, Covers

\* Each recorded restart of the last day has its own entry among the recent attempts.
LEMMA DayIsRecorded ==
  ASSUME TypeOK, GuardsOK, LaunchesOK
  PROVE  /\ IsFiniteSet(Recent(Loaded)) /\ IsFiniteSet(LastDay)
         /\ Cardinality(LastDay) <= Cardinality(Recent(Loaded))
<1> DEFINE f == [i \in LastDay |-> launches[i].at]
<1>1. IsFiniteSet(Recent(Loaded))
  BY LoadedType, FS_Subset DEF GuardsOK, Recent, TypeOK
<1>2. f \in [LastDay -> Recent(Loaded)]
  <2> SUFFICES ASSUME NEW i \in LastDay
               PROVE  launches[i].at \in Recent(Loaded)
    OBVIOUS
  <2>1. i \in DOMAIN launches /\ launches[i].kept /\ launches[i].at > now - Day
    BY DEF LastDay
  <2>2. launches[i].at \in Loaded.attempts
    BY <2>1, LoadedType DEF GuardsOK, Covers, TypeOK
  <2> QED BY <2>1, <2>2 DEF Recent
<1>3. ASSUME NEW i \in LastDay, NEW j \in LastDay, launches[i].at = launches[j].at
      PROVE  i = j
  <2>1. /\ i \in DOMAIN launches /\ j \in DOMAIN launches
        /\ launches[i].kept /\ launches[j].kept
    BY DEF LastDay
  <2>2. i \in Nat /\ j \in Nat /\ launches[i].at \in Nat /\ launches[j].at \in Nat
    BY <2>1, RestartType
  <2>3. ~(i < j) /\ ~(j < i)
    BY <1>3, <2>1, <2>2, ConstantsType DEF LaunchesOK, CooldownKept, Binds
  <2> QED BY <2>2, <2>3
<1>4. f \in Injection(LastDay, Recent(Loaded))
  BY <1>2, <1>3 DEF Injection, IsInjective
<1>5. IsFiniteSet(LastDay)
  BY HistoryFinite
<1> QED BY <1>1, <1>4, <1>5, FS_Injection

LEMMA SafeInit == Init => SafeInv
<1> SUFFICES ASSUME Init PROVE SafeInv
  OBVIOUS
<1>1. DOMAIN launches = {}
  BY DEF Init
<1>2. GuardsOK
  BY <1>1, EmptyGuardType, FS_EmptySet DEF Init, GuardsOK, Covers
<1>3. CarriedOK /\ UnreadOK /\ FreeOK /\ (pc = "idle" => read)
  BY DEF Init, CarriedOK, UnreadOK, FreeOK
<1>4. LaunchesOK
  BY <1>1 DEF LaunchesOK, LaunchedOnce, CooldownKept, StopsAfterFailure, DailyLimitKept
<1> QED BY <1>2, <1>3, <1>4 DEF SafeInv

\* While the same restarts are known, what is said of them stays true; no restart
\* becomes recorded by being forgotten.
LEMMA RestartsKept ==
  ASSUME TypeOK, SameRestarts \/ UNCHANGED launches, now' = now
  PROVE  /\ DOMAIN launches' = DOMAIN launches
         /\ \A g : Covers(g) => Covers(g)'
         /\ \A g : CoversOld(g) => CoversOld(g)'
         /\ LastDay' \subseteq LastDay
         /\ LaunchesOK => LaunchesOK'
<1>1. /\ DOMAIN launches' = DOMAIN launches
      /\ \A i \in DOMAIN launches :
           /\ launches'[i].id = launches[i].id /\ launches'[i].at = launches[i].at
           /\ launches'[i].read = launches[i].read
           /\ launches'[i].kept => launches[i].kept
           /\ launches[i].verified => launches'[i].verified
  <2>1. CASE SameRestarts
    <3>1. DOMAIN launches' = 1 .. Len(launches') /\ Len(launches') = Len(launches)
      BY <2>1 DEF SameRestarts
    <3> QED BY <2>1, <3>1, IndexType DEF SameRestarts
  <2>2. CASE UNCHANGED launches
    BY <2>2
  <2> QED BY <2>1, <2>2
<1>2. \A g : (Covers(g) => Covers(g)') /\ (CoversOld(g) => CoversOld(g)')
  BY <1>1 DEF Covers, CoversOld
<1>3. LastDay' \subseteq LastDay
  BY <1>1 DEF LastDay
<1>4. ASSUME LaunchesOK PROVE LaunchesOK'
  <2>1. ASSUME NEW i \in DOMAIN launches, NEW j \in DOMAIN launches, Binds(i, j)'
        PROVE  Binds(i, j)
    BY <1>1, <2>1 DEF Binds
  <2>2. ASSUME NEW j \in DOMAIN launches PROVE Cardinality(RecordedBefore(j)') < Limit
    <3>1. RecordedBefore(j)' \subseteq RecordedBefore(j)
      BY <1>1, <2>1 DEF RecordedBefore
    <3>2. Cardinality(RecordedBefore(j)') <= Cardinality(RecordedBefore(j))
      BY <3>1, HistoryFinite, FS_Subset
    <3>3. /\ Cardinality(RecordedBefore(j)) \in Nat /\ Cardinality(RecordedBefore(j)') \in Nat
          /\ Cardinality(RecordedBefore(j)) < Limit
      BY <1>4, <3>1, HistoryFinite, FS_Subset, FS_CardinalityType DEF LaunchesOK, DailyLimitKept
    <3> QED BY <3>2, <3>3, ConstantsType
  <2>3. DailyLimitKept'
    BY <1>1, <2>2 DEF DailyLimitKept
  <2>4. LaunchedOnce' /\ CooldownKept' /\ StopsAfterFailure'
    BY <1>1, <1>4, <2>1 DEF LaunchesOK, LaunchedOnce, CooldownKept, StopsAfterFailure
  <2>5. /\ \A i \in DOMAIN launches' : launches'[i].at <= now'
        /\ \A i, j \in DOMAIN launches' :
             i < j /\ launches'[i].kept /\ launches'[j].kept => launches'[j].read
    BY <1>1, <1>4 DEF LaunchesOK
  <2> QED BY <2>3, <2>4, <2>5 DEF LaunchesOK
<1> QED BY <1>1, <1>2, <1>3, <1>4

\* The versions a loss of the host may bring back still know of the older restarts.
LEMMA OldVersions ==
  ASSUME TypeOK, GuardsOK, unsynced' \subseteq unsynced \cup {disk},
         SameRestarts \/ UNCHANGED launches, now' = now
  PROVE  \A g \in unsynced' : CoversOld(g)' /\ IsFiniteSet(g.attempts)
BY RestartsKept, CoversOlder DEF GuardsOK

\* Time only moves restarts out of the last day.
LEMMA SafeTick ==
  ASSUME TypeOK, SafeInv, Tick
  PROVE  SafeInv'
<1> USE DEF SafeInv
<1>1. /\ now' = now + 1 /\ now \in Nat /\ pc \in {"idle", "verify"}
      /\ unsynced' = {}
      /\ UNCHANGED <<disk, pc, action, guard, read, kept, launches>>
  BY DEF Tick, TypeOK, handlerVars, histVars
<1>2. ASSUME NEW g PROVE Covers(g) => Covers(g)'
  BY <1>1, ConstantsType, RestartType DEF Covers
<1>3. GuardsOK' /\ CarriedOK' /\ UnreadOK' /\ FreeOK'
  <2>1. Covers(disk)' /\ (Covers(guard) => Covers(guard)')
    BY <1>1, <1>2 DEF GuardsOK, Covers
  <2> QED BY <1>1, <2>1 DEF GuardsOK, CarriedOK, UnreadOK, FreeOK
<1>4. LaunchesOK'
  <2>1. \A i \in DOMAIN launches : launches[i].at <= now + 1
    BY <1>1, RestartType DEF LaunchesOK
  <2>2. \A j : RecordedBefore(j)' = RecordedBefore(j)
    BY <1>1 DEF RecordedBefore, Binds
  <2> QED BY <1>1, <2>1, <2>2 DEF LaunchesOK, LaunchedOnce, CooldownKept, StopsAfterFailure,
      DailyLimitKept, Binds
<1> QED BY <1>1, <1>3, <1>4

\* A request that is answered at once leaves the file as it is, or repaired.
LEMMA SafeAnswered ==
  ASSUME TypeOK, SafeInv, NEW id \in Ids, disk' = disk \/ disk' = Loaded,
         unsynced' \subseteq unsynced \cup {disk}, pc = "idle",
         UNCHANGED <<envVars, handlerVars, histVars>>
  PROVE  SafeInv'
<1> USE DEF SafeInv, envVars, handlerVars, histVars
<1>1. Covers(disk)' /\ IsFiniteSet(disk'.attempts)
  <2>1. \A g : Covers(g) => Covers(g)'
    BY RestartsKept
  <2>2. Covers(disk) /\ Covers(Loaded) /\ Loaded.attempts = disk.attempts
    BY LoadedCovers, LoadedType DEF GuardsOK, TypeOK
  <2> QED BY <2>1, <2>2 DEF GuardsOK, Covers
<1>2. GuardsOK' /\ CarriedOK' /\ UnreadOK' /\ FreeOK'
  BY <1>1, OldVersions DEF GuardsOK, CarriedOK, UnreadOK, FreeOK
<1>3. LaunchesOK'
  BY RestartsKept
<1>4. pc' = "idle" => read'
  OBVIOUS
<1> QED BY <1>2, <1>3, <1>4

LEMMA SafeAdmit ==
  ASSUME HonestInv, SafeInv, NEW id \in Ids, Admit(id)
  PROVE  SafeInv'
<1> USE DEF SafeInv
<1>1. /\ disk' = disk \/ disk' = Loaded
      /\ unsynced' \subseteq unsynced \cup {disk}
      /\ UNCHANGED <<now, launches, read, kept>>
      /\ pc' = "record" /\ action' = id
      /\ TypeOK
  BY ReadType DEF Admit, AdmitFrom, Read, HonestInv, TypeOK, envVars
<1>2. /\ Loaded.processed[id] = "none" /\ ~Loaded.failed /\ ~Cooling(Loaded)
      /\ ~TooMany(Loaded)
  BY DEF Admit
<1>3. /\ Covers(Loaded) /\ IsFiniteSet(Recent(Loaded)) /\ IsFiniteSet(LastDay)
      /\ Cardinality(LastDay) <= Cardinality(Recent(Loaded))
  BY <1>1, LoadedCovers, DayIsRecorded DEF GuardsOK
<1>4. /\ guard'.attempts = Recent(Loaded) \cup {now} /\ ~guard'.failed
      /\ \A i \in Ids : guard'.processed[i] = IF i = id THEN "running" ELSE Loaded.processed[i]
  <2>1. Loaded \in Guards /\ AdmitFrom(id, Loaded)
    BY <1>1, LoadedType DEF Admit, TypeOK
  <2> HIDE DEF Loaded
  <2> QED BY <1>1, <1>2, <2>1, AdmitType
<1>5. \A i \in DOMAIN launches : launches[i].kept =>
        launches[i].id \in Ids /\ launches[i].id # id /\ launches[i].verified
  BY <1>1, <1>2, <1>3, RestartType, LoadedType DEF Covers, TypeOK
<1>6. \A i \in DOMAIN launches : launches[i].kept => now - launches[i].at >= Hour
  <2> SUFFICES ASSUME NEW i \in DOMAIN launches, launches[i].kept
               PROVE  now - launches[i].at >= Hour
    OBVIOUS
  <2>1. launches[i].at \in Nat /\ now \in Nat
    BY <1>1, RestartType DEF TypeOK
  <2>2. CASE launches[i].at > now - Day
    <3>1. launches[i].at \in Recent(Loaded)
      BY <1>3, <2>2 DEF Covers, Recent
    <3> QED BY <1>2, <2>1, <3>1, ConstantsType DEF Cooling
  <2>3. CASE ~(launches[i].at > now - Day)
    BY <2>1, <2>3, ConstantsType
  <2> QED BY <2>2, <2>3
<1>7. Cardinality(LastDay) < Limit
  <2>1. Cardinality(Recent(Loaded)) < Limit
    BY <1>2, <1>3, FS_CardinalityType, ConstantsType DEF TooMany
  <2> QED BY <1>3, <2>1, FS_CardinalityType, ConstantsType
<1>8. Covers(guard)'
  <2>1. \A i \in DOMAIN launches : launches[i].kept =>
          /\ Loaded.processed[launches[i].id] # "none"
          /\ launches[i].at > now - Day => launches[i].at \in Loaded.attempts
    BY <1>3 DEF Covers
  <2>2. \A i \in DOMAIN launches : launches[i].kept =>
          /\ guard'.processed[launches[i].id] # "none"
          /\ launches[i].at > now - Day => launches[i].at \in guard'.attempts
    BY <1>4, <1>5, <2>1 DEF Recent
  <2> QED BY <1>1, <1>5, <2>2 DEF Covers
<1>9. GuardsOK'
  <2>1. Covers(disk)'
    BY <1>1, <1>3 DEF GuardsOK, Covers
  <2>2. IsFiniteSet(disk'.attempts)
    BY <1>1, LoadedType DEF GuardsOK, TypeOK
  <2>3. IsFiniteSet(guard'.attempts)
    BY <1>3, <1>4, FS_AddElement
  <2> QED BY <1>1, <2>1, <2>2, <2>3, OldVersions DEF GuardsOK
<1>10. CarriedOK' /\ UnreadOK'
  BY <1>1, <1>4, <1>8, LoadedType DEF CarriedOK, UnreadOK, TypeOK
<1>11. FreeOK'
  <2>1. LastDay' = LastDay
    BY <1>1 DEF LastDay
  <2> QED BY <1>1, <1>4, <1>5, <1>6, <1>7, <2>1 DEF FreeOK
<1>12. LaunchesOK'
  BY <1>1, RestartsKept
<1> QED BY <1>1, <1>9, <1>10, <1>11, <1>12

\* A guard that could not be read promises nothing but its own attempt.
LEMMA SafeAdmitUnread ==
  ASSUME HonestInv, SafeInv, NEW id \in Ids, AdmitUnread(id)
  PROVE  SafeInv'
<1> USE DEF SafeInv
<1>1. /\ UNCHANGED <<now, disk, unsynced, launches, kept>>
      /\ pc' = "record" /\ action' = id /\ ~read'
      /\ TypeOK
  BY DEF AdmitUnread, AdmitFrom, HonestInv, envVars
<1>2. /\ guard'.attempts = Recent(EmptyGuard) \cup {now} /\ ~guard'.failed
      /\ \A i \in Ids : guard'.processed[i] = IF i = id THEN "running" ELSE "none"
  <2>1. AdmitFrom(id, EmptyGuard)
    BY DEF AdmitUnread
  <2> QED BY <1>1, <2>1, AdmitType, EmptyGuardType
<1>3. Recent(EmptyGuard) = {}
  BY EmptyGuardType DEF Recent
<1>4. GuardsOK'
  <2>1. Covers(disk)'
    BY <1>1, RestartsKept DEF GuardsOK, Covers
  <2>2. IsFiniteSet(guard'.attempts)
    <3>1. guard'.attempts = {now}
      BY <1>2, <1>3
    <3> QED BY <3>1, FS_Singleton
  <2> QED BY <1>1, <2>1, <2>2, OldVersions DEF GuardsOK
<1>5. CarriedOK' /\ UnreadOK' /\ FreeOK'
  BY <1>1, <1>2 DEF CarriedOK, UnreadOK, FreeOK
<1>6. LaunchesOK'
  BY <1>1, RestartsKept
<1> QED BY <1>1, <1>4, <1>5, <1>6

LEMMA SafeRequest ==
  ASSUME HonestInv, SafeInv, NEW id \in Ids, Request(id)
  PROVE  SafeInv'
<1>1. TypeOK
  BY DEF HonestInv
<1>2. CASE RefuseInvalid(id) \/ RefuseLocked(id)
  BY <1>1, <1>2, SafeAnswered DEF RefuseInvalid, RefuseLocked, fileVars
<1>3. CASE Replay(id) \/ Refuse(id)
  <2>1. (disk' = disk \/ disk' = Loaded) /\ unsynced' \subseteq unsynced \cup {disk}
    BY <1>1, <1>3, ReadType DEF Replay, Refuse, TypeOK
  <2> QED
    BY <1>1, <1>3, <2>1, SafeAnswered DEF Replay, Refuse, Read
<1>4. CASE Admit(id)
  BY <1>4, SafeAdmit
<1>5. CASE AdmitUnread(id)
  BY <1>5, SafeAdmitUnread
<1> QED BY <1>2, <1>3, <1>4, <1>5 DEF Request

\* An attempt is recorded when its write succeeds; another one binds nobody.  Written
\* after a failed read, it is all that is left in the file.
LEMMA SafeRecordAttempt ==
  ASSUME TypeOK, SafeInv, RecordAttempt
  PROVE  SafeInv'
<1> USE DEF SafeInv
<1>1. /\ disk' = guard \/ disk' = disk
      /\ kept' <=> disk' = guard
      /\ unsynced' \subseteq unsynced \cup {disk}
      /\ pc = "record" /\ pc' = "launch"
      /\ UNCHANGED <<now, action, guard, read>>
      /\ launches' = IF read \/ ~kept' THEN launches ELSE Forgotten
  BY SaveType DEF RecordAttempt, envVars, TypeOK
<1>2. SameRestarts \/ UNCHANGED launches
  BY <1>1, ForgottenType, ForgetsSame
<1>3. \A g : Covers(g) => Covers(g)'
  BY <1>1, <1>2, RestartsKept
<1>4. read => Covers(guard)
  BY <1>1 DEF CarriedOK
<1>5. read => Covers(guard)'
  BY <1>1, <1>3, <1>4 DEF Covers
<1>6. ~read /\ kept' => \A i \in DOMAIN launches' : ~launches'[i].kept
  <2> SUFFICES ASSUME ~read, kept' PROVE \A i \in DOMAIN launches' : ~launches'[i].kept
    OBVIOUS
  <2>1. DOMAIN launches' = DOMAIN launches
    BY <1>1, <1>2, RestartsKept
  <2> QED BY <1>1, <2>1, ForgottenType
<1>7. Covers(disk)'
  <2>1. CASE ~kept'
    BY <1>1, <1>3, <2>1 DEF GuardsOK, Covers
  <2>2. CASE kept' /\ read
    BY <1>1, <1>5, <2>2 DEF Covers
  <2>3. CASE kept' /\ ~read
    BY <1>6, <2>3 DEF Covers
  <2> QED BY <2>1, <2>2, <2>3
<1>8. GuardsOK'
  BY <1>1, <1>2, <1>7, OldVersions DEF GuardsOK
<1>9. CarriedOK' /\ UnreadOK'
  BY <1>1, <1>5, <1>6 DEF CarriedOK, UnreadOK
<1>10. FreeOK'
  <2>1. read => LastDay' = LastDay /\ UNCHANGED launches
    BY <1>1 DEF LastDay
  <2> QED BY <1>1, <2>1 DEF FreeOK
<1>11. LaunchesOK'
  BY <1>1, <1>2, RestartsKept
<1> QED BY <1>1, <1>8, <1>9, <1>10, <1>11

\* The one step that restarts the node.
LEMMA SafeLaunch ==
  ASSUME TypeOK, SafeInv, Launch
  PROVE  SafeInv'
<1> DEFINE n == Len(launches)
<1> USE DEF SafeInv
<1>1. /\ pc = "launch" /\ pc' \in {"verify", "result"}
      /\ UNCHANGED <<now, action, guard, disk, unsynced, read, kept>>
  BY DEF Launch, envVars, fileVars
<1>2. /\ n \in Nat /\ DOMAIN launches = 1 .. n /\ DOMAIN launches' = 1 .. n + 1
      /\ Len(launches') = n + 1
      /\ \A i \in 1 .. n : launches'[i] = launches[i]
      /\ launches'[n + 1].id = action /\ launches'[n + 1].at = now
      /\ launches'[n + 1].read = read /\ launches'[n + 1].kept = kept
  <2>1. Len(launches') = n + 1 /\ DOMAIN launches' = 1 .. Len(launches')
    BY LaunchType
  <2> QED BY <2>1, LaunchType, IndexType
<1> HIDE DEF n
<1>3. /\ now \in guard.attempts /\ Covers(disk) /\ (kept => disk = guard)
      /\ guard.processed[action] = "running" /\ action \in Ids
      /\ \A id \in Ids : guard.processed[id] = "running" <=> id = action
      /\ ~guard.failed
      /\ now \in Nat /\ \A i \in DOMAIN launches : launches[i].at \in Nat
  BY <1>1, RestartType DEF GuardsOK, CarriedOK, FreeOK, TypeOK
<1>4. ASSUME read
      PROVE  /\ Covers(guard)
             /\ \A i \in DOMAIN launches : launches[i].kept =>
                  launches[i].id # action /\ launches[i].verified /\ now - launches[i].at >= Hour
             /\ Cardinality(LastDay) < Limit
  BY <1>1, <1>4 DEF CarriedOK, FreeOK
<1>5. ~read /\ kept => \A i \in DOMAIN launches : ~launches[i].kept
  BY <1>1 DEF UnreadOK
<1>6. Covers(guard) => Covers(guard)'
  BY <1>1, <1>2, <1>3 DEF Covers
<1>7. Covers(disk)'
  <2>1. CASE kept
    BY <1>1, <1>3, <1>6, <2>1 DEF Covers
  <2>2. CASE ~kept
    BY <1>1, <1>2, <1>3, <2>2 DEF Covers
  <2> QED BY <2>1, <2>2
<1>8. GuardsOK'
  <2>1. \A g \in unsynced : CoversOld(g) => CoversOld(g)'
    BY <1>1, <1>2, <1>3 DEF CoversOld
  <2> QED BY <1>1, <1>7, <2>1 DEF GuardsOK
<1>9. CarriedOK' /\ UnreadOK' /\ FreeOK'
  <2>1. CarriedOK'
    BY <1>1, <1>3, <1>4, <1>6 DEF CarriedOK
  <2>2. UnreadOK'
    BY <1>1, <1>2, <1>5 DEF UnreadOK
  <2> QED BY <1>1, <2>1, <2>2 DEF FreeOK
<1>10. ASSUME NEW i \in DOMAIN launches', NEW j \in DOMAIN launches', Binds(i, j)'
       PROVE  /\ launches'[i].id # launches'[j].id
              /\ launches'[j].at - launches'[i].at >= Hour /\ launches'[i].verified
  <2>1. i < j /\ launches'[i].kept /\ launches'[j].read
    BY <1>10 DEF Binds
  <2>2. i \in 1 .. n /\ launches'[i] = launches[i] /\ launches[i].kept /\ i \in DOMAIN launches
    BY <1>2, <2>1
  <2>3. CASE j \in 1 .. n
    BY <1>2, <2>1, <2>2, <2>3 DEF LaunchesOK, LaunchedOnce, CooldownKept, StopsAfterFailure, Binds
  <2>4. CASE j = n + 1
    BY <1>2, <1>4, <2>1, <2>2, <2>4
  <2> QED BY <1>2, <2>3, <2>4
<1>11. LaunchedOnce' /\ CooldownKept' /\ StopsAfterFailure'
  BY <1>10 DEF LaunchedOnce, CooldownKept, StopsAfterFailure
<1>12. /\ \A i \in DOMAIN launches' : launches'[i].at <= now'
       /\ \A i, j \in DOMAIN launches' :
            i < j /\ launches'[i].kept /\ launches'[j].kept => launches'[j].read
  <2>1. \A i \in DOMAIN launches' : launches'[i].at <= now'
    BY <1>1, <1>2, <1>3 DEF LaunchesOK
  <2>2. ASSUME NEW i \in DOMAIN launches', NEW j \in DOMAIN launches', i < j,
               launches'[i].kept, launches'[j].kept
        PROVE  launches'[j].read
    <3>1. i \in 1 .. n /\ launches[i].kept /\ i \in DOMAIN launches
      BY <1>2, <2>2
    <3>2. CASE j \in 1 .. n
      BY <1>2, <2>2, <3>1, <3>2 DEF LaunchesOK
    <3>3. CASE j = n + 1
      BY <1>2, <1>5, <2>2, <3>1, <3>3
    <3> QED BY <1>2, <3>2, <3>3
  <2> QED BY <2>1, <2>2
<1>13. DailyLimitKept'
  <2> SUFFICES ASSUME NEW j \in DOMAIN launches' PROVE Cardinality(RecordedBefore(j)') < Limit
    BY DEF DailyLimitKept
  <2>1. \A i \in DOMAIN launches' : i < j => i \in 1 .. n /\ launches'[i] = launches[i]
    BY <1>2
  <2>2. CASE j \in 1 .. n
    <3>1. RecordedBefore(j)' = RecordedBefore(j)
      BY <1>2, <2>1, <2>2 DEF RecordedBefore, Binds
    <3> QED BY <1>2, <2>2, <3>1 DEF LaunchesOK, DailyLimitKept
  <2>3. CASE j = n + 1 /\ read
    <3>1. RecordedBefore(j)' =
            {i \in 1 .. n + 1 : i < n + 1 /\ launches'[i].kept /\ launches'[i].at > now - Day}
      BY <1>2, <2>3 DEF RecordedBefore, Binds
    <3>2. \A i : i \in RecordedBefore(j)' <=> i \in LastDay
      BY <1>2, <3>1 DEF LastDay
    <3>3. RecordedBefore(j)' = LastDay
      BY <3>2
    <3> QED BY <1>4, <2>3, <3>3
  <2>4. CASE j = n + 1 /\ ~read
    <3>1. RecordedBefore(j)' = {}
      BY <1>2, <2>4 DEF RecordedBefore, Binds
    <3> QED BY <3>1, FS_EmptySet, ConstantsType
  <2> QED BY <1>2, <2>2, <2>3, <2>4
<1>14. pc' # "idle"
  BY <1>1
<1> QED BY <1>8, <1>9, <1>11, <1>12, <1>13, <1>14 DEF LaunchesOK

\* A success is recorded of the last restart only, and its recovery was seen.
LEMMA SafeRecordResult ==
  ASSUME HonestInv, SafeInv, RecordResult
  PROVE  SafeInv'
<1> USE DEF SafeInv
<1>1. /\ disk' = Outcome \/ disk' = disk
      /\ unsynced' \subseteq unsynced \cup {disk}
      /\ pc = "result" /\ pc' = "idle" /\ guard' = EmptyGuard /\ read'
      /\ launches' = IF read \/ kept \/ disk' # Outcome THEN launches ELSE Forgotten
      /\ UNCHANGED now /\ TypeOK
  BY SaveType DEF RecordResult, Leave, envVars, HonestInv, TypeOK
<1>2. /\ result \in {"succeeded", "failed"} /\ ~guard.failed
      /\ \A id \in Ids : guard.processed[id] = "running" <=> id = action
      /\ read \/ kept => Covers(guard)
  BY <1>1 DEF GuardsOK, CarriedOK, HonestInv, ResultOK, TypeOK
<1>3. /\ Outcome.attempts = guard.attempts
      /\ Outcome.failed = (guard.failed \/ result = "failed")
      /\ Outcome.processed[action] = result
      /\ \A id \in Ids \ {action} : Outcome.processed[id] = guard.processed[id]
  BY <1>1, OutcomeType
<1>4. ASSUME NEW i \in DOMAIN launches, launches[i].kept, launches[i].id = action,
             result = "succeeded", read \/ kept
      PROVE  launches[i].verified
  <2>1. /\ launches # <<>> /\ launches[Len(launches)].id = action
        /\ launches[Len(launches)].read = read /\ launches[Len(launches)].verified
    BY <1>4 DEF HonestInv, ResultOK, Current, Proper
  <2>2. Len(launches) \in DOMAIN launches /\ i <= Len(launches) /\ i \in Nat /\ Len(launches) \in Nat
    BY <1>1, <2>1, IndexType
  <2>3. CASE read
    <3>1. ~(i < Len(launches))
      BY <1>4, <2>1, <2>2, <2>3 DEF LaunchesOK, LaunchedOnce, Binds
    <3> QED BY <2>1, <2>2, <3>1
  <2>4. CASE ~read
    BY <1>1, <1>4, <2>1, <2>4 DEF UnreadOK
  <2> QED BY <2>3, <2>4
<1>5. read \/ kept => Covers(Outcome)
  <2> SUFFICES ASSUME NEW i \in DOMAIN launches, launches[i].kept, read \/ kept
               PROVE  /\ Outcome.processed[launches[i].id] # "none"
                      /\ launches[i].at > now - Day => launches[i].at \in Outcome.attempts
                      /\ \/ launches[i].verified \/ Outcome.failed
                         \/ Outcome.processed[launches[i].id] = "running"
    BY DEF Covers
  <2>1. /\ guard.processed[launches[i].id] # "none"
        /\ launches[i].at > now - Day => launches[i].at \in guard.attempts
        /\ launches[i].verified \/ guard.processed[launches[i].id] = "running"
    BY <1>2 DEF Covers
  <2>2. launches[i].id \in Ids
    BY <1>1, RestartType
  <2>3. CASE launches[i].id = action
    BY <1>2, <1>3, <1>4, <2>1, <2>3
  <2>4. CASE launches[i].id # action
    BY <1>2, <1>3, <2>1, <2>2, <2>4
  <2> QED BY <2>3, <2>4
<1>6. SameRestarts \/ UNCHANGED launches
  BY <1>1, ForgottenType, ForgetsSame
<1>7. Covers(disk)'
  <2>1. CASE read \/ kept \/ disk' # Outcome
    BY <1>1, <1>5, <2>1 DEF GuardsOK, Covers
  <2>2. CASE ~(read \/ kept \/ disk' # Outcome)
    <3>1. DOMAIN launches' = DOMAIN launches
      BY <1>1, <1>6, RestartsKept
    <3> QED BY <1>1, <2>2, <3>1, ForgottenType DEF Covers
  <2> QED BY <2>1, <2>2
<1>8. IsFiniteSet(disk'.attempts) /\ IsFiniteSet(guard'.attempts)
  BY <1>1, <1>3, EmptyGuardType, FS_EmptySet DEF GuardsOK
<1>9. GuardsOK' /\ CarriedOK' /\ UnreadOK' /\ FreeOK'
  BY <1>1, <1>6, <1>7, <1>8, OldVersions DEF GuardsOK, CarriedOK, UnreadOK, FreeOK
<1>10. LaunchesOK'
  BY <1>1, <1>6, RestartsKept
<1> QED BY <1>1, <1>9, <1>10

\* A loss of the host takes attempts of this tick at most, or everything.
LEMMA SafeLoss ==
  ASSUME TypeOK, SafeInv, HostLoss
  PROVE  SafeInv'
<1> USE DEF SafeInv
<1>1. /\ disk' \in unsynced \cup {EmptyGuard} /\ unsynced' = {}
      /\ pc' = "idle" /\ guard' = EmptyGuard /\ read' /\ UNCHANGED now
  BY DEF HostLoss, Leave, envVars
<1>2. SameRestarts
  BY LossType, ForgetsSame
<1>3. DOMAIN launches' = DOMAIN launches /\ LaunchesOK'
  BY <1>1, <1>2, RestartsKept
<1>4. Covers(disk)'
  <2>1. CASE disk' = EmptyGuard
    BY <1>3, <2>1, LossType DEF Covers
  <2>2. CASE disk' \in unsynced
    <3>1. CoversOld(disk')
      BY <2>2 DEF GuardsOK
    <3>2. \A i \in DOMAIN launches : launches'[i].kept => launches[i].kept /\ launches[i].at < now
      BY LossType DEF OnlyForgets
    <3> QED BY <1>1, <1>2, <1>3, <3>1, <3>2 DEF SameRestarts, Covers, CoversOld
  <2> QED BY <1>1, <2>1, <2>2
<1>5. IsFiniteSet(disk'.attempts) /\ IsFiniteSet(guard'.attempts)
  BY <1>1, EmptyGuardType, FS_EmptySet DEF GuardsOK
<1>6. GuardsOK' /\ CarriedOK' /\ UnreadOK' /\ FreeOK'
  BY <1>1, <1>4, <1>5 DEF GuardsOK, CarriedOK, UnreadOK, FreeOK
<1> QED BY <1>1, <1>3, <1>6

\* The remaining steps leave the file alone, and the same restarts are known.
LEMMA SafeOther ==
  ASSUME TypeOK, SafeInv, UNCHANGED <<now, disk, unsynced>>, SameRestarts \/ UNCHANGED launches,
         \/ UNCHANGED <<pc, action, guard, read, kept>>
         \/ pc' = "result" /\ pc \in {"launch", "verify"} /\ UNCHANGED <<action, guard, read, kept>>
         \/ pc' = "idle" /\ guard' = EmptyGuard /\ read'
  PROVE  SafeInv'
<1> USE DEF SafeInv
<1>1. /\ DOMAIN launches' = DOMAIN launches /\ \A g : Covers(g) => Covers(g)'
      /\ LastDay' \subseteq LastDay /\ LaunchesOK'
  BY RestartsKept
<1>2. \A i \in DOMAIN launches : /\ launches'[i].id = launches[i].id
                                 /\ launches'[i].at = launches[i].at
                                 /\ launches'[i].kept => launches[i].kept
                                 /\ launches[i].verified => launches'[i].verified
  BY DEF SameRestarts
<1>3. GuardsOK'
  <2>1. Covers(disk)'
    BY <1>1 DEF GuardsOK, Covers
  <2>2. IsFiniteSet(disk'.attempts) /\ IsFiniteSet(guard'.attempts)
    BY EmptyGuardType, FS_EmptySet DEF GuardsOK
  <2> QED BY <2>1, <2>2, OldVersions DEF GuardsOK
<1>4. CarriedOK'
  <2>1. pc' # "idle" /\ read' => Covers(guard)'
    BY <1>1 DEF CarriedOK, Covers
  <2> QED BY <2>1 DEF CarriedOK
<1>5. UnreadOK'
  <2>1. Len(launches') = Len(launches)
    BY DEF SameRestarts
  <2> QED BY <1>1, <1>2, <2>1 DEF UnreadOK
<1>6. FreeOK'
  <2> SUFFICES ASSUME pc' \in {"record", "launch"} PROVE FreeOK'
    BY DEF FreeOK
  <2>1. UNCHANGED <<pc, action, guard, read>>
    OBVIOUS
  <2>2. Cardinality(LastDay) < Limit => Cardinality(LastDay') < Limit
    <3>1. Cardinality(LastDay') <= Cardinality(LastDay) /\ IsFiniteSet(LastDay')
      BY <1>1, HistoryFinite, FS_Subset
    <3>2. Cardinality(LastDay') \in Nat /\ Cardinality(LastDay) \in Nat
      BY <3>1, HistoryFinite, FS_CardinalityType
    <3> QED BY <3>1, <3>2, ConstantsType
  <2> QED BY <1>1, <1>2, <2>1, <2>2 DEF FreeOK
<1>7. pc' = "idle" => read'
  OBVIOUS
<1> QED BY <1>1, <1>3, <1>4, <1>5, <1>6, <1>7

LEMMA SafeStep ==
  ASSUME HonestInv, SafeInv, [Next]_vars
  PROVE  SafeInv'
<1>1. TypeOK
  BY DEF HonestInv
<1>2. CASE Tick
  BY <1>1, <1>2, SafeTick
<1>3. CASE NodeFinalizes \/ SwitchLock \/ Crash \/ UNCHANGED vars
  BY <1>1, <1>3, SafeOther DEF NodeFinalizes, SwitchLock, Crash, Leave, vars, envVars, fileVars,
    handlerVars, histVars
<1>4. ASSUME NEW id \in Ids, Request(id) PROVE SafeInv'
  BY <1>4, SafeRequest
<1>5. CASE RecordAttempt
  BY <1>1, <1>5, SafeRecordAttempt
<1>6. CASE Launch
  BY <1>1, <1>6, SafeLaunch
<1>7. CASE LaunchFails \/ VerifyFails
  BY <1>1, <1>7, SafeOther DEF LaunchFails, VerifyFails, envVars, fileVars, histVars
<1>8. CASE Verify
  BY <1>1, <1>8, SafeOther, RecoveredSame DEF Verify, Recovered, envVars, fileVars
<1>9. CASE RecordResult
  BY <1>9, SafeRecordResult
<1>10. CASE HostLoss
  BY <1>1, <1>10, SafeLoss
<1> QED BY <1>2, <1>3, <1>4, <1>5, <1>6, <1>7, <1>8, <1>9, <1>10 DEF Next, Run

LEMMA Safe == Spec => []SafeInv
<1>1. Init => HonestInv /\ SafeInv
  BY HonestInit, SafeInit
<1>2. HonestInv /\ SafeInv /\ [Next]_vars => (HonestInv /\ SafeInv)'
  BY HonestStep, SafeStep
<1> QED BY <1>1, <1>2, PTL DEF Spec

\* A restart whose attempt is in guard.json when the next handler reads it is the last
\* of its action.
THEOREM OncePerAction == Spec => []LaunchedOnce
<1>1. SafeInv => LaunchedOnce
  BY DEF SafeInv, LaunchesOK
<1> QED BY <1>1, Safe, PTL

\* No restart whose guard could be read follows within the cooldown of one that is
\* still recorded.
THEOREM Cooldown == Spec => []CooldownKept
<1>1. SafeInv => CooldownKept
  BY DEF SafeInv, LaunchesOK
<1> QED BY <1>1, Safe, PTL

\* No restart whose guard could be read follows, within a day, as many restarts as the
\* limit that are still recorded.
THEOREM DailyLimit == Spec => []DailyLimitKept
<1>1. SafeInv => DailyLimitKept
  BY DEF SafeInv, LaunchesOK
<1> QED BY <1>1, Safe, PTL

\* A restart whose recovery was not seen is the last, while guard.json records it and
\* can be read.
THEOREM StopsOnFailure == Spec => []StopsAfterFailure
<1>1. SafeInv => StopsAfterFailure
  BY DEF SafeInv, LaunchesOK
<1> QED BY <1>1, Safe, PTL

----------------------------------------------------------------------------
(* RestartGuard implements RestartService until guard.json cannot be read  *)
(* or written, or is lost with the host.                                   *)

LEMMA SaveSucceeds ==
  ASSUME TypeOK, faults' = 0, NEW g, Save(g)
  PROVE  disk' = g
BY DEF Save, Fault, TypeOK

\* A fault is not undone.
LEMMA FaultsLast ==
  ASSUME TypeOK, [Next]_vars, faults' = 0
  PROVE  faults = 0
<1>1. ASSUME NEW g, Save(g) PROVE faults' = faults \/ faults' = faults + 1
  BY <1>1 DEF Save, Fault
<1>2. ASSUME NEW id \in Ids, Request(id) PROVE faults' = faults \/ faults' = faults + 1
  <2>1. ASSUME Read(id) PROVE faults' = faults \/ faults' = faults + 1
    BY <1>1, <2>1 DEF Read, fileVars
  <2> QED
    BY <1>2, <2>1 DEF Request, RefuseInvalid, RefuseLocked, Replay, Refuse, Admit, AdmitUnread,
      Fault, fileVars
<1>3. ASSUME RecordAttempt \/ RecordResult PROVE faults' = faults \/ faults' = faults + 1
  BY <1>1, <1>3 DEF RecordAttempt, RecordResult
<1>4. ASSUME HostLoss PROVE faults' = faults + 1
  BY <1>4 DEF HostLoss, Fault
<1>5. CASE Tick \/ NodeFinalizes \/ SwitchLock \/ Crash \/ UNCHANGED vars
  BY <1>5 DEF Tick, NodeFinalizes, SwitchLock, Crash, fileVars, vars
<1>6. CASE Launch \/ LaunchFails \/ Verify \/ VerifyFails
  BY <1>6 DEF Launch, LaunchFails, Verify, Recovered, VerifyFails, fileVars
<1>7. faults' = faults \/ faults' = faults + 1
  BY <1>2, <1>3, <1>4, <1>5, <1>6 DEF Next, Run
<1> QED BY <1>7 DEF TypeOK

\* Reading an empty guard for an unreadable one, and losing the host, are faults.
LEMMA NoFault ==
  ASSUME TypeOK, faults' = 0
  PROVE  ~HostLoss /\ \A id \in Ids : ~AdmitUnread(id)
BY DEF TypeOK, HostLoss, AdmitUnread, Fault

\* What the mapping needs beyond SafeInv: the attempt is on disk, a recorded failure
\* stops, and an admitted action differs from the file by its own entry only.
MappedOK ==
  /\ pc \notin {"idle", "record"} => kept
  /\ \A id \in Ids : disk.processed[id] = "failed" => disk.failed
  /\ pc = "record" =>
       /\ Loaded.processed[action] = "none" /\ ~Loaded.failed
       /\ guard.processed = [Loaded.processed EXCEPT ![action] = "running"]

LEMMA LoadedFailed ==
  ASSUME TypeOK, MappedOK
  PROVE  \A id \in Ids : Loaded.processed[id] = "failed" => Loaded.failed
BY DEF Loaded, MappedOK, TypeOK, Guards

LEMMA LoadedAgain ==
  ASSUME TypeOK, disk' = disk \/ disk' = Loaded
  PROVE  Loaded' = Loaded
<1>1. CASE disk' = disk
  BY <1>1 DEF Loaded
<1>2. CASE disk' = Loaded
  <2>1. \A id \in Ids : disk'.processed[id] # "running"
    BY <1>2, LoadedType DEF TypeOK
  <2>2. Loaded' = disk'
    BY <2>1 DEF Loaded
  <2> QED BY <1>2, <2>2
<1> QED BY <1>1, <1>2

LEMMA MappedStep ==
  ASSUME faults' = 0, HonestInv, SafeInv, MappedOK, [Next]_vars
  PROVE  MappedOK'
<1> USE DEF envVars, fileVars, handlerVars, histVars
<1>1. TypeOK
  BY DEF HonestInv
<1>2. CASE /\ pc' # "record" /\ UNCHANGED disk
           /\ pc' = "idle" \/ (UNCHANGED kept /\ pc \notin {"idle", "record"})
  BY <1>2 DEF MappedOK
<1>3. CASE UNCHANGED <<disk, guard, action, pc, kept>>
  <2>1. Loaded' = Loaded
    BY <1>1, <1>3, LoadedAgain
  <2> QED BY <1>3, <2>1 DEF MappedOK
<1>4. ASSUME NEW id \in Ids, Replay(id) \/ Refuse(id) PROVE MappedOK'
  <2>1. (disk' = disk \/ disk' = Loaded) /\ pc' = "idle"
    BY <1>1, <1>4, ReadType DEF Replay, Refuse, Read, TypeOK
  <2> QED BY <1>1, <2>1, LoadedFailed DEF MappedOK
<1>5. ASSUME NEW id \in Ids, Admit(id) PROVE MappedOK'
  <2>1. disk' = disk \/ disk' = Loaded
    BY <1>1, <1>5, ReadType DEF Admit, TypeOK
  <2>2. Loaded' = Loaded
    BY <1>1, <2>1, LoadedAgain
  <2>3. guard'.processed = [Loaded.processed EXCEPT ![id] = "running"] /\ action' = id /\ pc' = "record"
        /\ Loaded.processed[id] = "none" /\ ~Loaded.failed
    <3>1. Loaded \in Guards
      BY <1>1, LoadedType DEF TypeOK
    <3> HIDE DEF Loaded
    <3> QED BY <1>5, <3>1 DEF Admit, AdmitFrom, Guards
  <2>4. \A i \in Ids : disk'.processed[i] = "failed" => disk'.failed
    BY <1>1, <2>1, LoadedFailed DEF MappedOK
  <2> QED BY <2>2, <2>3, <2>4 DEF MappedOK
<1>6. CASE RecordAttempt
  <2>1. disk' = guard /\ pc = "record" /\ pc' = "launch" /\ kept'
    BY <1>1, <1>6, SaveSucceeds DEF RecordAttempt
  <2>2. \A id \in Ids : guard.processed[id] # "failed"
    BY <1>1, <2>1, LoadedFailed, LoadedType DEF MappedOK, TypeOK, Guards
  <2> QED BY <2>1, <2>2 DEF MappedOK
<1>7. CASE RecordResult
  <2>1. disk' = Outcome /\ pc = "result" /\ pc' = "idle" /\ disk = guard /\ ~guard.failed
    BY <1>1, <1>7, SaveSucceeds DEF RecordResult, Leave, SafeInv, CarriedOK, MappedOK
  <2>2. \A id \in Ids : disk'.processed[id] = "failed" => disk'.failed
    BY <2>1, OutcomeType DEF MappedOK
  <2> QED BY <2>1, <2>2 DEF MappedOK
<1> QED
  BY <1>1, <1>2, <1>3, <1>4, <1>5, <1>6, <1>7, NoFault DEF Next, Run, Request, RefuseInvalid, RefuseLocked,
    Tick, NodeFinalizes, SwitchLock, Launch, LaunchFails, Verify, Recovered, VerifyFails, Crash, Leave, vars

\* The steps that change what is known, or answer, and the service's steps.
LEMMA MappedRequest ==
  ASSUME faults' = 0, HonestInv, SafeInv, NEW id \in Ids, Request(id)
  PROVE  [Service!Next]_(Service!vars)
<1>1. TypeOK
  BY DEF HonestInv
<1>2. pc = "idle" /\ pc' \in {"idle", "record"} /\ (disk' = disk \/ disk' = Loaded)
  BY <1>1, ReadType, NoFault DEF Request, RefuseInvalid, RefuseLocked, Replay, Refuse, Admit,
    AdmitFrom, Read, TypeOK, fileVars, handlerVars
<1>3. Known = Loaded /\ Known' = Loaded
  BY <1>1, <1>2, LoadedAgain DEF Known
<1>4. UNCHANGED Known.processed /\ Service!Free
  BY <1>1, <1>3, LoadedType DEF Service!Free, TypeOK
<1>5. CASE RefuseInvalid(id) \/ RefuseLocked(id) \/ Refuse(id)
  <2>1. Service!Refuse(id)
    BY <1>4, <1>5 DEF RefuseInvalid, RefuseLocked, Refuse, Answer, Service!Refuse, Service!Answer
  <2> QED BY <2>1 DEF Service!Next
<1>6. CASE Replay(id)
  <2>1. Known.processed[id] \in {"succeeded", "failed"}
    BY <1>1, <1>3, <1>6, LoadedType DEF Replay, TypeOK, Guards, Statuses
  <2>2. Service!Replay(id)
    BY <1>3, <1>4, <1>6, <2>1 DEF Replay, Answer, Service!Replay, Service!Answer
  <2> QED BY <2>2 DEF Service!Next
<1>7. CASE Admit(id)
  BY <1>4, <1>7 DEF Admit, AdmitFrom, Service!vars
<1> QED BY <1>1, <1>5, <1>6, <1>7, NoFault DEF Request

LEMMA MappedRecord ==
  ASSUME faults' = 0, HonestInv, SafeInv, MappedOK, RecordAttempt \/ RecordResult \/ Crash
  PROVE  [Service!Next]_(Service!vars)
<1>1. TypeOK
  BY DEF HonestInv
<1>2. CASE RecordAttempt
  <2>1. /\ Known = Loaded /\ Known' = guard
        /\ reply' = [id |-> action, code |-> 0, status |-> "none"]
    BY <1>2 DEF RecordAttempt, Known, Answer
  <2>2. Service!Free /\ ~Service!Stopped
    BY <1>1, <1>2, <2>1, LoadedFailed, LoadedType DEF MappedOK, RecordAttempt, Service!Free,
      Service!Stopped, TypeOK
  <2>3. Service!Accept(action)
    BY <1>2, <2>1, <2>2 DEF MappedOK, RecordAttempt, Service!Accept, Service!Answer
  <2> QED BY <1>1, <2>3 DEF Service!Next, TypeOK
<1>3. CASE RecordResult
  <2>1. /\ disk' = Outcome /\ pc = "result" /\ pc' = "idle"
        /\ Answer(action, IF result = "succeeded" THEN 200 ELSE 500, result)
        /\ result \in {"succeeded", "failed"}
        /\ guard.processed[action] = "running"
        /\ \A id \in Ids : guard.processed[id] = "running" <=> id = action
    BY <1>1, <1>3, SaveSucceeds DEF RecordResult, Leave, SafeInv, CarriedOK, HonestInv, ResultOK,
      TypeOK
  <2>2. /\ Outcome \in Guards /\ Outcome.processed[action] = result
        /\ \A id \in Ids \ {action} : Outcome.processed[id] = guard.processed[id]
    BY <2>1, OutcomeType
  <2>3. Known = guard /\ Known' = Outcome
    <3>1. \A id \in Ids : disk'.processed[id] # "running"
      BY <2>1, <2>2
    <3>2. Loaded' = disk'
      BY <3>1 DEF Loaded
    <3> QED BY <2>1, <3>2 DEF Known
  <2>4. Known'.processed = [Known.processed EXCEPT ![action] = result]
    <3> HIDE DEF Outcome
    <3> QED BY <1>1, <2>2, <2>3 DEF TypeOK, Guards
  <2>5. Service!Finish(action, result)
    BY <2>1, <2>3, <2>4 DEF Answer, Service!Finish, Service!Answer
  <2> QED BY <1>1, <2>1, <2>5 DEF Service!Next, TypeOK
<1>4. CASE Crash
  <2>1. UNCHANGED <<disk, reply>> /\ pc' = "idle" /\ Loaded' = Loaded /\ Known' = Loaded
    BY <1>4 DEF Crash, Leave, Known, Loaded, fileVars
  <2>2. CASE pc = "record"
    BY <2>1, <2>2 DEF Known, Service!vars
  <2>3. CASE pc # "record"
    <3>1. /\ Known = guard /\ disk = guard
          /\ \A id \in Ids : guard.processed[id] = "running" <=> id = action
      BY <1>4, <2>3 DEF Crash, SafeInv, CarriedOK, MappedOK, Known
    <3>2. Loaded.processed = [guard.processed EXCEPT ![action] = "failed"]
      BY <1>1, <3>1 DEF Loaded, TypeOK, Guards
    <3>3. Service!Cut(action)
      BY <1>1, <2>1, <3>1, <3>2 DEF Service!Cut, TypeOK
    <3> QED BY <1>1, <3>3 DEF Service!Next, TypeOK
  <2> QED BY <2>2, <2>3
<1> QED BY <1>2, <1>3, <1>4

LEMMA MappedNext ==
  ASSUME faults' = 0, HonestInv, SafeInv, MappedOK, [Next]_vars
  PROVE  [Service!Next]_(Service!vars)
<1> USE DEF envVars, fileVars, handlerVars, histVars
<1>1. CASE UNCHANGED <<disk, guard, reply>> /\ (pc \in {"idle", "record"} <=> pc' \in {"idle", "record"})
  BY <1>1 DEF Known, Loaded, Service!vars
<1>2. CASE ~(UNCHANGED <<disk, guard, reply>> /\ (pc \in {"idle", "record"} <=> pc' \in {"idle", "record"}))
  <2>1. (\E id \in Ids : Request(id)) \/ RecordAttempt \/ RecordResult \/ Crash
    <3>1. ~HostLoss
      BY NoFault DEF HonestInv
    <3> QED BY <1>2, <3>1 DEF Next, Run, Tick, NodeFinalizes, SwitchLock, Launch, LaunchFails,
        Verify, Recovered, VerifyFails, vars
  <2> QED BY <2>1, MappedRequest, MappedRecord
<1> QED BY <1>1, <1>2

\* Until a read or write of guard.json fails or the host loses one, the handler
\* implements the service the controller relies on, for any number of actions.
THEOREM ServiceRefined == Spec => ImplementsService
<1>1. Init => Service!Init /\ MappedOK
  <2> SUFFICES ASSUME Init PROVE Service!Init /\ MappedOK
    OBVIOUS
  <2>1. Loaded = EmptyGuard
    BY EmptyGuardType DEF Init, Loaded
  <2>2. Known.processed = [id \in Ids |-> "none"]
    BY <2>1 DEF Init, Known, EmptyGuard
  <2>3. Service!Init
    BY <2>2 DEF Init, Service!Init
  <2> QED BY <2>3, EmptyGuardType DEF Init, MappedOK
<1>2. HonestInv /\ SafeInv /\ (faults = 0 => MappedOK) /\ [Next]_vars
        => /\ (HonestInv /\ SafeInv /\ (faults = 0 => MappedOK))'
           /\ [faults' = 0 => Service!Next]_(Service!vars)
  <2> SUFFICES ASSUME HonestInv, SafeInv, faults = 0 => MappedOK, [Next]_vars
               PROVE  /\ HonestInv' /\ SafeInv' /\ (faults' = 0 => MappedOK')
                      /\ faults' = 0 => [Service!Next]_(Service!vars)
    OBVIOUS
  <2>1. faults' = 0 => MappedOK
    BY FaultsLast DEF HonestInv
  <2> QED BY <2>1, HonestStep, SafeStep, MappedStep, MappedNext
<1>3. Init => HonestInv /\ SafeInv
  BY HonestInit, SafeInit
<1> QED BY <1>1, <1>2, <1>3, PTL DEF Spec, ImplementsService, Service!Spec
=============================================================================
