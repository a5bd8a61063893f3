------------------------------ MODULE Accounts -------------------------------
(***************************************************************************)
(* The auth broker: the administrator is entered by a bootstrap (start,    *)
(* then confirm with a code of the new TOTP secret), logs in with a        *)
(* password and a TOTP or a recovery code, and acts within a session after *)
(* proving the password once more.  Requests run concurrently; each is a   *)
(* few database statements, between which others come.  A request may fail *)
(* or be abandoned before any statement, a commit may succeed and its      *)
(* reply be lost, and the broker may restart, which empties the limiter.   *)
(* What a proven action does is in ActionQueue.                            *)
(***************************************************************************)
EXTENDS AuthLimit

CONSTANTS
  Requests, Names, IPs,
  Codes,            \* recovery codes of an account (8)
  Founder,          \* the administrator of an installation that is not new
  HashSlots,        \* password hashes at a time (2)
  SessionLife,      \* 12 hours
  MaxTime, MaxRestarts   \* bounds

ASSUME AccountsAssumption ==
  /\ IsFiniteSet(Requests) /\ IsFiniteSet(IPs) /\ Founder \notin Requests
  /\ "totp" \notin Codes /\ "nobody" \notin Requests \cup {Founder}
  /\ {HashSlots, SessionLife, MaxTime, MaxRestarts} \subseteq Nat

VARIABLES
  clock,
  users, sessions,   \* tables; a row is named by the request that wrote it
  lim, req,          \* memory of the broker: the limiter, the requests
  shown,             \* rows whose secret and codes have reached the operator
  \* History variables.
  proved,            \* rows for whose secret a confirmation has seen a code
  opened,            \* sessions opened with recovery codes
  crossed,           \* two bootstrap requests have been under way at once
  restarts           \* when the broker was started again

tables == <<users, sessions>>
history == <<proved, opened, crossed, restarts>>
vars == <<clock, tables, lim, req, shown, history>>

Nobody == "nobody"
Never == -1
Bootstraps == {"start", "confirm"}
Rows == Requests \cup {Founder}

\* A request that is not under way: its address and the time it was let in remain.
Idle(pc, ip, at) ==
  [pc |-> pc, kind |-> "none", name |-> Nobody, ip |-> ip, at |-> at, ready |-> Never,
   row |-> Nobody, codes |-> {}, code |-> "totp", doomed |-> {}]

UnderWay(r) == req[r].pc \notin {"new", "done"}
Ends(r) == req' = [req EXCEPT ![r] = Idle("done", req[r].ip, req[r].at)]

NewAccount(id, name, active) == [id |-> id, name |-> name, active |-> active, codes |-> Codes]

Init ==
  /\ clock = 0
  /\ users = {} \/ \E n \in Names : users = {NewAccount(Founder, n, TRUE)}
  /\ shown = {u.id : u \in users}
  /\ sessions = {}
  /\ lim = NewLimiter(0)
  /\ req = [r \in Requests |-> Idle("new", Nobody, Never)]
  /\ proved = shown /\ opened = {} /\ crossed = FALSE /\ restarts = <<>>

\* Handlers take milliseconds, or the delay they were given.
Tick ==
  /\ clock < MaxTime
  /\ clock' = clock + 1
  /\ UNCHANGED <<tables, lim, req, shown, history>>

----------------------------------------------------------------------------
(* What all requests share.                                                *)

\* A request that rateLimit lets in.
Entered(kind, n, ip, ready) ==
  [Idle("waiting", ip, clock) EXCEPT !.kind = kind, !.name = n, !.ready = ready]

Crosses(kind) == kind \in Bootstraps /\ \E q \in Requests : req[q].kind \in Bootstraps

\* rateLimit: the request waits, or is turned away.
Admit(r, kind, n, ip, answer) ==
  /\ lim' = answer.lim
  /\ \/ /\ answer.allowed
        /\ req' = [req EXCEPT ![r] = Entered(kind, n, ip, clock + answer.delay)]
        /\ crossed' = (crossed \/ Crosses(kind))
     \/ /\ ~answer.allowed
        /\ req' = [req EXCEPT ![r] = Idle("done", Nobody, Never)]
        /\ crossed' = crossed

Arrive(r) ==
  /\ req[r].pc = "new"
  /\ \E kind \in {"start", "confirm", "login"}, n \in Names, ip \in IPs :
       Admit(r, kind, n, ip, Allow(lim, ip, n, clock))
  /\ UNCHANGED <<clock, tables, shown, proved, opened, restarts>>

Waited(r, kind) == req[r].pc = "waiting" /\ req[r].kind = kind /\ clock >= req[r].ready

\* Any answer that leaves no trace: a wrong token or policy, no hash slot, an error
\* of the database, a cancelled request.  An open transaction is rolled back.
Refuse(r) ==
  /\ UnderWay(r)
  /\ Ends(r)
  /\ UNCHANGED <<clock, tables, lim, shown, history>>

SlotFree == Cardinality({r \in Requests : req[r].pc = "hashing"}) < HashSlots

\* Rows that an open transaction has deleted; statements on them wait for its end.
Locked(id) == \E r \in Requests : req[r].pc = "insert" /\ id \in req[r].doomed

----------------------------------------------------------------------------
(* bootstrapStart.                                                         *)

\* Mutant of StartCheck: an administrator who is active already is not looked for.
StartCheckAnyway(r) ==
  /\ Waited(r, "start")
  /\ SlotFree
  /\ req' = [req EXCEPT ![r].pc = "hashing"]
  /\ UNCHANGED <<clock, tables, lim, shown, history>>

\* Nobody is active; the password is hashed.
StartCheck(r) ==
  /\ Waited(r, "start")
  /\ \A u \in users : ~u.active
  /\ SlotFree
  /\ req' = [req EXCEPT ![r].pc = "hashing"]
  /\ UNCHANGED <<clock, tables, lim, shown, history>>

StartHashed(r) ==
  /\ req[r].pc = "hashing" /\ req[r].kind = "start"
  /\ req' = [req EXCEPT ![r].pc = "begin"]
  /\ UNCHANGED <<clock, tables, lim, shown, history>>

\* The rows the DELETE takes.
Unfinished == {u.id : u \in {v \in users : ~v.active}}

StartDelete(r) ==
  /\ req[r].pc = "begin"
  /\ req' = [req EXCEPT ![r].pc = "insert", ![r].doomed = Unfinished]
  /\ UNCHANGED <<clock, tables, lim, shown, history>>

\* INSERT and COMMIT: the name is unique, also against rows that are not doomed.
StartInsert(r) ==
  LET kept == {u \in users : u.id \notin req[r].doomed}
  IN  /\ req[r].pc = "insert"
      /\ \A u \in kept : u.name # req[r].name
      /\ users' = kept \cup {NewAccount(r, req[r].name, FALSE)}
      /\ shown' \in {shown, shown \cup {r}}
      /\ Ends(r)
      /\ UNCHANGED <<clock, sessions, lim, history>>

----------------------------------------------------------------------------
(* bootstrapConfirm.                                                       *)

\* Mutant of Provable: the code is checked against the secret of some account.
ProvableByAny(u) == shown # {}

\* The operator has the secret, so the code he sends is one of it.
Provable(u) == u.id \in shown

ConfirmRead(r) ==
  /\ Waited(r, "confirm")
  /\ \E u \in users :
       /\ u.name = req[r].name /\ ~u.active
       /\ Provable(u)
       /\ proved' = IF u.id \in shown THEN proved \cup {u.id} ELSE proved
  /\ req' = [req EXCEPT ![r].pc = "activate"]
  /\ UNCHANGED <<clock, tables, lim, shown, opened, crossed, restarts>>

\* The UPDATE names the account and not the row that was read.
ConfirmActivate(r) ==
  /\ req[r].pc = "activate"
  /\ \E u \in users :
       /\ u.name = req[r].name /\ ~u.active /\ ~Locked(u.id)
       /\ users' = (users \ {u}) \cup {[u EXCEPT !.active = TRUE]}
  /\ lim' \in {lim, Success(lim, req[r].name)}
  /\ Ends(r)
  /\ UNCHANGED <<clock, sessions, shown, history>>

----------------------------------------------------------------------------
(* login.                                                                  *)

\* A hash slot, then loadUser; an unknown name is compared with a dummy hash.
LoginLoad(r) ==
  LET found == {u \in users : u.active /\ u.name = req[r].name}
  IN  /\ Waited(r, "login")
      /\ SlotFree
      /\ \/ /\ found = {}
            /\ req' = [req EXCEPT ![r].pc = "hashing"]
         \/ \E u \in found :
              req' = [req EXCEPT ![r].pc = "hashing", ![r].row = u.id, ![r].codes = u.codes]
      /\ UNCHANGED <<clock, tables, lim, shown, history>>

\* The credentials that open the loaded account: a TOTP code or a listed recovery code.
Opening(r) == IF req[r].row \in shown THEN {"totp"} \cup req[r].codes ELSE {}

LoginVerify(r) ==
  /\ req[r].pc = "hashing" /\ req[r].kind = "login"
  /\ \/ \E code \in Opening(r) :
          /\ req' = [req EXCEPT ![r].pc = "commit", ![r].code = code, ![r].codes = {}]
          /\ lim' = lim
     \/ /\ Ends(r)
        /\ lim' = Fail(lim, req[r].name, clock)
  /\ UNCHANGED <<clock, tables, shown, history>>

\* Mutant of Listed: the code is not looked up again under the lock.
ListedBefore(code, codes) == TRUE

\* The credential still works when the row is locked.
Listed(code, codes) == code = "totp" \/ code \in codes

\* The transaction: the code is taken from the row and the session is written, or
\* it has gone meanwhile.  The reply to the commit may be lost.
LoginCommit(r) ==
  /\ req[r].pc = "commit"
  /\ \E u \in users :
       /\ u.id = req[r].row
       /\ IF Listed(req[r].code, u.codes)
          THEN /\ users' = (users \ {u}) \cup {[u EXCEPT !.codes = @ \ {req[r].code}]}
               /\ sessions' = sessions \cup {[token |-> r, row |-> u.id, expires |-> clock + SessionLife]}
               /\ opened' = IF req[r].code = "totp" THEN opened
                            ELSE opened \cup {[row |-> u.id, code |-> req[r].code, token |-> r]}
               /\ lim' \in {lim, Success(lim, req[r].name)}
          ELSE /\ lim' = Fail(lim, req[r].name, clock)
               /\ UNCHANGED <<tables, opened>>
  /\ Ends(r)
  /\ UNCHANGED <<clock, shown, proved, crossed, restarts>>

----------------------------------------------------------------------------
(* Requests within a session.                                              *)

\* requireAuth.
Authenticate(r) ==
  /\ req[r].pc = "new"
  /\ \E s \in sessions, kind \in {"logout", "act"} :
       /\ s.expires >= clock
       /\ \E u \in users : u.id = s.row /\ u.active
       /\ req' = [req EXCEPT ![r] =
            [Idle("authenticated", Nobody, Never) EXCEPT !.kind = kind, !.row = s.token]]
  /\ UNCHANGED <<clock, tables, lim, shown, history>>

\* The error of the DELETE is ignored: Refuse.
Logout(r) ==
  /\ req[r].pc = "authenticated" /\ req[r].kind = "logout"
  /\ sessions' = {s \in sessions : s.token # req[r].row}
  /\ Ends(r)
  /\ UNCHANGED <<clock, users, lim, shown, history>>

\* stepUp; then the handler submits an action or writes the switch: Refuse ends it.
StepUp(r) ==
  /\ req[r].pc = "authenticated" /\ req[r].kind = "act"
  /\ SlotFree
  /\ req' = [req EXCEPT ![r].pc = "hashing"]
  /\ UNCHANGED <<clock, tables, lim, shown, history>>

----------------------------------------------------------------------------

\* maintenance: the sessions that have expired are deleted.
Purge ==
  /\ \E s \in sessions : s.expires < clock
  /\ sessions' = {s \in sessions : s.expires >= clock}
  /\ UNCHANGED <<clock, users, lim, req, shown, history>>

\* The broker restarts: requests under way are lost, the limiter is new.
Restart ==
  /\ Len(restarts) < MaxRestarts
  /\ restarts' = Append(restarts, clock)
  /\ lim' = NewLimiter(clock)
  /\ req' = [r \in Requests |->
                Idle(IF req[r].pc = "new" THEN "new" ELSE "done", req[r].ip, req[r].at)]
  /\ UNCHANGED <<clock, tables, shown, proved, opened, crossed>>

Step(r) ==
  \/ Arrive(r) \/ Refuse(r)
  \/ StartCheck(r) \/ StartHashed(r) \/ StartDelete(r) \/ StartInsert(r)
  \/ ConfirmRead(r) \/ ConfirmActivate(r)
  \/ LoginLoad(r) \/ LoginVerify(r) \/ LoginCommit(r)
  \/ Authenticate(r) \/ Logout(r) \/ StepUp(r)

Next == Tick \/ Purge \/ Restart \/ \E r \in Requests : Step(r)

Spec == Init /\ [][Next]_vars

----------------------------------------------------------------------------
(* Properties.                                                             *)

LimiterType ==
  [global : [credit : Nat, last : Nat],
   ips : Seq([key : IPs, credit : Nat, seen : Nat]),
   accounts : Seq([key : Names, failures : Nat, seen : Nat]),
   nextCleanup : Nat]

\* Types; a name is unique; a session belongs to an active account; the tables of
\* the limiter keep within their capacity and hold a key once.
TypeOK ==
  /\ clock \in Nat /\ restarts \in Seq(Nat) /\ crossed \in BOOLEAN
  /\ users \subseteq [id : Rows, name : Names, active : BOOLEAN, codes : SUBSET Codes]
  /\ \A u, v \in users : u.id = v.id \/ u.name = v.name => u = v
  /\ sessions \subseteq [token : Requests, row : Rows, expires : Nat]
  /\ \A s \in sessions : \E u \in users : u.id = s.row /\ u.active
  /\ shown \subseteq Rows /\ proved \subseteq Rows
  /\ opened \subseteq [row : Rows, code : Codes, token : Requests]
  /\ lim \in LimiterType
  /\ Len(lim.ips) <= MaxIPs /\ Len(lim.accounts) <= MaxAccounts
  /\ \A table \in {lim.ips, lim.accounts} :
       \A i, j \in DOMAIN table : table[i].key = table[j].key => i = j

\* A recovery code is either still listed or has opened exactly one session, however
\* many logins present it at once: none works twice (login, its lookup FOR UPDATE).  A
\* login whose commit reply is lost spends its code on a session that nobody holds.
CodesAccounted ==
  \A u \in users : \A c \in Codes :
    Cardinality({o \in opened : o.row = u.id /\ o.code = c}) = IF c \in u.codes THEN 0 ELSE 1

\* An operator who finishes one bootstrap request before the next ends up with one
\* administrator, also after lost replies, abandoned attempts and restarts
\* (bootstrapStart, bootstrapConfirm).
OneAdministrator ==
  ~crossed => Cardinality({u \in users : u.active}) <= 1

\* Then the secret of an active account is the one a code was seen for: the
\* administrator is not locked out by an earlier attempt (bootstrapConfirm).
ActiveIsProved ==
  ~crossed => \A u \in users : u.active => u.id \in proved

Admitted(S, from, to) == Cardinality({r \in S : req[r].at \in from .. to})

\* The limiters that were in place in an interval: one, and one more per restart.
Limiters(from, to) == 1 + Cardinality({k \in DOMAIN restarts : restarts[k] \in from .. to})

\* In any interval, no more attempts are let in than the buckets held, once per limiter,
\* and gained: a restart forgets what was taken, and no more than that.  The same of one
\* address, when the table has room for all and does not expire a bucket before it is
\* full (Allow, called by rateLimit).
AdmissionsBounded ==
  \A from, to \in 0 .. clock : from <= to =>
    /\ Admitted(Requests, from, to)
         <= Limiters(from, to) * GlobalBurst + (to - from) \div GlobalRefill
    /\ Cardinality(IPs) <= MaxIPs /\ IPBurst * IPRefill <= EntryTTL =>
         \A ip \in IPs : Admitted({r \in Requests : req[r].ip = ip}, from, to)
                           <= Limiters(from, to) * IPBurst + (to - from) \div IPRefill
==============================================================================
