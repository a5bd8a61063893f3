--------------------------- MODULE AccountsProofs ----------------------------
(***************************************************************************)
(* Proofs about Accounts, for any number of concurrent requests, accounts  *)
(* and recovery codes, any limits of the limiter and any number of         *)
(* restarts: recovery codes are accounted for, an uncrossed bootstrap      *)
(* leaves one administrator whose secret was proved, and the limiter lets  *)
(* in no more attempts than its buckets held and gained.                   *)
(***************************************************************************)
EXTENDS Accounts, FiniteSetTheorems, TLAPS

Request ==
  [pc : {"new", "waiting", "hashing", "begin", "insert", "activate", "commit",
         "authenticated", "done"},
   kind : {"none", "start", "confirm", "login", "logout", "act"},
   name : Names \cup {Nobody}, ip : IPs \cup {Nobody}, at : Int, ready : Int,
   row : Rows \cup {Nobody}, codes : SUBSET Codes, code : Codes \cup {"totp"},
   doomed : SUBSET Rows]

Types ==
  /\ clock \in Nat
  /\ users \subseteq [id : Rows, name : Names \cup {Nobody}, active : BOOLEAN, codes : SUBSET Codes]
  /\ sessions \subseteq [token : Requests, row : Rows, expires : Int]
  /\ req \in [Requests -> Request]
  /\ shown \subseteq Rows /\ proved \subseteq Rows
  /\ opened \subseteq [row : Rows, code : Codes, token : Requests]
  /\ crossed \in BOOLEAN

\* What the place of a request says about it.
Placed ==
  \A r \in Requests :
    /\ req[r].pc \in {"new", "done"} => req[r].kind = "none"
    /\ req[r].pc = "waiting" => req[r].row = Nobody
    /\ req[r].pc \in {"begin", "insert"} => req[r].kind = "start"
    /\ req[r].pc = "activate" => req[r].kind = "confirm"
    /\ req[r].pc = "commit" => req[r].kind = "login" /\ req[r].row \in Rows

\* A row is named once, by a request that has ended.
Keyed ==
  /\ \A u, v \in users : u.id = v.id => u = v
  /\ \A u \in users : u.id \in Requests => req[u.id].pc = "done"

\* An active account is never deleted: not by an open transaction, and not under
\* a login or a session that was opened.
Kept ==
  /\ \A r \in Requests : req[r].pc = "insert" =>
       \A u \in users : u.id \in req[r].doomed => ~u.active
  /\ \A r \in Requests :
       req[r].pc \in {"hashing", "commit"} /\ req[r].kind = "login" /\ req[r].row \in Rows =>
         \E u \in users : u.id = req[r].row /\ u.active
  /\ \A o \in opened : \E u \in users : u.id = o.row /\ u.active

\* CodesAccounted without cardinalities.
Accounted ==
  \A u \in users : \A c \in Codes :
    IF c \in u.codes
    THEN \A o \in opened : ~(o.row = u.id /\ o.code = c)
    ELSE \E o \in opened :
           /\ o.row = u.id /\ o.code = c
           /\ \A p \in opened : p.row = u.id /\ p.code = c => p = o

\* While bootstrap requests come one at a time there is one account at most.
Alone ==
  ~crossed =>
    /\ \A q, r \in Requests :
         req[q].kind \in Bootstraps /\ req[r].kind \in Bootstraps => q = r
    /\ \A u, v \in users : u.id = v.id
    /\ \A r \in Requests :
         req[r].kind = "start" /\ req[r].pc \in {"hashing", "begin", "insert"} =>
           \A u \in users : ~u.active
    /\ \A r \in Requests : req[r].pc = "insert" => \A u \in users : u.id \in req[r].doomed
    /\ \A u \in users : u.active => u.id \in proved
    /\ \A r \in Requests : req[r].pc = "activate" => \A u \in users : u.id \in proved

AccountsInv == Types /\ Placed /\ Keyed /\ Kept /\ Accounted /\ Alone

USE DEF Rows, Nobody, Never, Bootstraps, tables, history

LEMMA Begun == Init => AccountsInv
<1> SUFFICES ASSUME Init PROVE AccountsInv
  OBVIOUS
<1>1. req \in [Requests -> Request] /\ \A r \in Requests : req[r].pc = "new" /\ req[r].kind = "none"
  BY DEF Init, Request, Idle
<1>2. \/ users = {}
      \/ \E n \in Names : users = {NewAccount(Founder, n, TRUE)}
  BY Zenon DEF Init
<1>3. \A n \in Names : NewAccount(Founder, n, TRUE) \in
        [id : Rows, name : Names \cup {Nobody}, active : BOOLEAN, codes : SUBSET Codes]
  BY DEF NewAccount
<1>4. users \subseteq [id : Rows, name : Names \cup {Nobody}, active : BOOLEAN, codes : SUBSET Codes]
  BY <1>2, <1>3
<1>5. \A u, v \in users : u = v /\ u.id = Founder /\ u.active /\ u.codes = Codes
  <2>1. CASE users = {}
    BY <2>1
  <2>2. ASSUME NEW n \in Names, users = {NewAccount(Founder, n, TRUE)}
        PROVE  \A u, v \in users : u = v /\ u.id = Founder /\ u.active /\ u.codes = Codes
    <3>1. \A u \in users : u = NewAccount(Founder, n, TRUE)
      BY <2>2
    <3>2. /\ NewAccount(Founder, n, TRUE).id = Founder
          /\ NewAccount(Founder, n, TRUE).active
          /\ NewAccount(Founder, n, TRUE).codes = Codes
      BY DEF NewAccount
    <3> QED BY <3>1, <3>2
  <2> QED BY <1>2, <2>1, <2>2
<1>6. shown = {u.id : u \in users} /\ shown \subseteq Rows
  BY <1>5 DEF Init
<1>7. Types
  BY <1>1, <1>4, <1>6 DEF Init, Types
<1>8. Keyed
  BY <1>5, AccountsAssumption DEF Keyed
<1>9. Placed /\ Kept
  BY <1>1 DEF Init, Placed, Kept
<1>10. Accounted
  BY <1>5 DEF Init, Accounted
<1>11. Alone
  BY <1>1, <1>5, <1>6 DEF Init, Alone
<1> QED BY <1>7, <1>8, <1>9, <1>10, <1>11 DEF AccountsInv

LEMMA Delays ==
  ASSUME NEW limiter, NEW ip, NEW name, NEW now
  PROVE  Allow(limiter, ip, name, now).delay \in Nat
BY AuthLimitAssumption DEF Allow, failureDelay

\* A request that goes on or ends and leaves accounts and codes alone.
LEMMA MoveKeeps ==
  ASSUME AccountsInv, NEW r \in Requests, NEW e \in Request,
         req' = [req EXCEPT ![r] = e], req[r].pc # "done",
         sessions' \subseteq sessions, crossed' \in BOOLEAN, crossed => crossed',
         UNCHANGED <<clock, users, opened, shown, proved>>,
         e.pc \in {"new", "done"} => e.kind = "none",
         e.pc = "waiting" => e.row = Nobody,
         e.pc = "begin" => e.kind = "start",
         e.pc \notin {"insert", "activate"},
         e.pc = "commit" => e.kind = "login" /\ e.row \in Rows,
         e.pc \in {"hashing", "commit"} /\ e.kind = "login" /\ e.row \in Rows =>
           \E u \in users : u.id = e.row /\ u.active,
         e.kind = "start" /\ e.pc \in {"hashing", "begin"} => \A u \in users : crossed \/ ~u.active,
         e.kind \in Bootstraps =>
           crossed' \/ \A q \in Requests \ {r} : req[q].kind \notin Bootstraps
  PROVE  AccountsInv'
<1>1. Types'
  BY DEF AccountsInv, Types
<1>2. Placed'
  BY DEF AccountsInv, Types, Placed
<1>3. Keyed'
  BY DEF AccountsInv, Types, Keyed
<1>4. Kept'
  BY DEF AccountsInv, Types, Kept
<1>5. Accounted'
  BY DEF AccountsInv, Accounted
<1>6. Alone'
  BY DEF AccountsInv, Types, Alone
<1> QED BY <1>1, <1>2, <1>3, <1>4, <1>5, <1>6 DEF AccountsInv

LEMMA ArriveKeeps ==
  ASSUME AccountsInv, NEW r \in Requests, Arrive(r)
  PROVE  AccountsInv'
<1>1. PICK kind \in {"start", "confirm", "login"}, n \in Names, ip \in IPs :
        Admit(r, kind, n, ip, Allow(lim, ip, n, clock))
  BY DEF Arrive
<1>2. /\ req[r].pc = "new" /\ sessions' \subseteq sessions
      /\ UNCHANGED <<clock, users, opened, shown, proved>>
      /\ clock \in Int /\ crossed \in BOOLEAN
  BY DEF Arrive, AccountsInv, Types
<1>3. ASSUME req' = [req EXCEPT ![r] = Entered(kind, n, ip, clock + Allow(lim, ip, n, clock).delay)],
             crossed' = (crossed \/ Crosses(kind))
      PROVE  AccountsInv'
  <2> DEFINE ready == clock + Allow(lim, ip, n, clock).delay
             e     == Entered(kind, n, ip, ready)
  <2>1. /\ Idle("waiting", ip, clock) \in Request
        /\ Idle("waiting", ip, clock).pc = "waiting"
        /\ Idle("waiting", ip, clock).row = Nobody
    BY <1>2 DEF Idle, Request
  <2>2. ready \in Int
    BY <1>2, Delays
  <2> HIDE DEF ready
  <2>3. e \in Request /\ e.pc = "waiting" /\ e.kind = kind /\ e.row = Nobody
    BY <2>1, <2>2 DEF Request, Entered
  <2>4. crossed' \in BOOLEAN /\ (crossed => crossed')
    BY <1>2, <1>3 DEF Crosses
  <2>5. kind \in Bootstraps =>
          crossed' \/ \A q \in Requests \ {r} : req[q].kind \notin Bootstraps
    BY <1>3, Zenon DEF Crosses
  <2>6. req' = [req EXCEPT ![r] = e]
    BY <1>3 DEF ready
  <2> HIDE DEF e
  <2> QED BY <1>2, <2>3, <2>4, <2>5, <2>6, MoveKeeps
<1>4. ASSUME req' = [req EXCEPT ![r] = Idle("done", Nobody, Never)], crossed' = crossed
      PROVE  AccountsInv'
  <2> DEFINE f == Idle("done", Nobody, Never)
  <2>1. f \in Request /\ f.pc = "done" /\ f.kind = "none"
    BY DEF Idle, Request
  <2>2. req' = [req EXCEPT ![r] = f]
    BY <1>4
  <2> HIDE DEF f
  <2> QED BY <1>2, <1>4, <2>1, <2>2, MoveKeeps
<1> QED BY <1>1, <1>3, <1>4, Zenon DEF Admit

\* The same of a request that keeps its kind.
LEMMA StayKeeps ==
  ASSUME AccountsInv, NEW r \in Requests, NEW e \in Request,
         req' = [req EXCEPT ![r] = e], req[r].pc # "done", e.kind = req[r].kind,
         UNCHANGED <<clock, users, sessions, opened, shown, proved, crossed>>,
         e.pc \in {"hashing", "begin", "commit"},
         e.pc = "begin" => e.kind = "start",
         e.pc = "commit" => e.kind = "login" /\ e.row \in Rows,
         e.kind = "login" /\ e.row \in Rows => \E u \in users : u.id = e.row /\ u.active,
         e.kind = "start" => \A u \in users : crossed \/ ~u.active
  PROVE  AccountsInv'
<1>1. crossed' \in BOOLEAN /\ (crossed => crossed')
  BY DEF AccountsInv, Types
<1>2. e.kind \in Bootstraps => crossed' \/ \A q \in Requests \ {r} : req[q].kind \notin Bootstraps
  BY DEF AccountsInv, Alone
<1>3. sessions' \subseteq sessions
  OBVIOUS
<1> QED BY <1>1, <1>2, <1>3, MoveKeeps

LEMMA EndKeeps ==
  ASSUME AccountsInv, NEW r \in Requests, Ends(r), UnderWay(r), sessions' \subseteq sessions,
         UNCHANGED <<clock, users, opened, shown, proved, crossed>>
  PROVE  AccountsInv'
<1> DEFINE e == Idle("done", req[r].ip, req[r].at)
<1>1. req[r] \in Request /\ crossed' \in BOOLEAN /\ (crossed => crossed')
  BY DEF AccountsInv, Types
<1>2. e \in Request /\ e.pc = "done" /\ e.kind = "none"
  BY <1>1 DEF Idle, Request
<1>3. req' = [req EXCEPT ![r] = e] /\ req[r].pc # "done"
  BY DEF Ends, UnderWay
<1> HIDE DEF e
<1> QED BY <1>1, <1>2, <1>3, MoveKeeps

LEMMA RefuseKeeps ==
  ASSUME AccountsInv, NEW r \in Requests, Refuse(r)
  PROVE  AccountsInv'
BY EndKeeps DEF Refuse

LEMMA StartCheckKeeps ==
  ASSUME AccountsInv, NEW r \in Requests, StartCheck(r)
  PROVE  AccountsInv'
<1> DEFINE e == [req[r] EXCEPT !.pc = "hashing"]
<1>1. req[r] \in Request
  BY DEF AccountsInv, Types
<1>2. e \in Request /\ e.pc = "hashing" /\ e.kind = req[r].kind
  BY <1>1 DEF Request
<1>3. /\ req' = [req EXCEPT ![r] = e] /\ req[r].pc # "done" /\ req[r].kind = "start"
      /\ \A u \in users : ~u.active
      /\ UNCHANGED <<clock, users, sessions, opened, shown, proved, crossed>>
  BY DEF StartCheck, Waited
<1> HIDE DEF e
<1> QED BY <1>2, <1>3, StayKeeps

LEMMA StartHashedKeeps ==
  ASSUME AccountsInv, NEW r \in Requests, StartHashed(r)
  PROVE  AccountsInv'
<1> DEFINE e == [req[r] EXCEPT !.pc = "begin"]
<1>1. req[r] \in Request
  BY DEF AccountsInv, Types
<1>2. e \in Request /\ e.pc = "begin" /\ e.kind = req[r].kind
  BY <1>1 DEF Request
<1>3. /\ req' = [req EXCEPT ![r] = e] /\ req[r].pc = "hashing" /\ req[r].kind = "start"
      /\ UNCHANGED <<clock, users, sessions, opened, shown, proved, crossed>>
  BY DEF StartHashed
<1>4. \A u \in users : crossed \/ ~u.active
  BY <1>3 DEF AccountsInv, Alone
<1> HIDE DEF e
<1> QED BY <1>2, <1>3, <1>4, StayKeeps

LEMMA LoginLoadKeeps ==
  ASSUME AccountsInv, NEW r \in Requests, LoginLoad(r)
  PROVE  AccountsInv'
<1>1. req[r] \in Request
  BY DEF AccountsInv, Types
<1>2. /\ req[r].pc = "waiting" /\ req[r].kind = "login"
      /\ UNCHANGED <<clock, users, sessions, opened, shown, proved, crossed>>
  BY DEF LoginLoad, Waited
<1>3. CASE req' = [req EXCEPT ![r].pc = "hashing"]
  <2> DEFINE e == [req[r] EXCEPT !.pc = "hashing"]
  <2>1. e \in Request /\ e.pc = "hashing" /\ e.kind = "login" /\ e.row = req[r].row
    BY <1>1, <1>2 DEF Request
  <2>2. req' = [req EXCEPT ![r] = e]
    BY <1>3
  <2> HIDE DEF e
  <2>3. e.row \in Rows => \E u \in users : u.id = e.row /\ u.active
    BY <1>2, <2>1, AccountsAssumption DEF AccountsInv, Placed
  <2> QED BY <1>2, <2>1, <2>2, <2>3, StayKeeps
<1>4. ASSUME NEW u \in users, u.active,
             req' = [req EXCEPT ![r].pc = "hashing", ![r].row = u.id, ![r].codes = u.codes]
      PROVE  AccountsInv'
  <2> DEFINE e == [req[r] EXCEPT !.pc = "hashing", !.row = u.id, !.codes = u.codes]
  <2>1. u.id \in Rows /\ u.codes \in SUBSET Codes
    BY DEF AccountsInv, Types
  <2>2. e \in Request /\ e.pc = "hashing" /\ e.kind = "login" /\ e.row = u.id
    BY <1>1, <1>2, <2>1 DEF Request
  <2>3. req' = [req EXCEPT ![r] = e]
    BY <1>4, <1>1 DEF AccountsInv, Types
  <2> HIDE DEF e
  <2> QED BY <1>2, <1>4, <2>2, <2>3, StayKeeps
<1> QED BY <1>3, <1>4 DEF LoginLoad

LEMMA LoginVerifyKeeps ==
  ASSUME AccountsInv, NEW r \in Requests, LoginVerify(r)
  PROVE  AccountsInv'
<1>1. req[r] \in Request
  BY DEF AccountsInv, Types
<1>2. /\ req[r].pc = "hashing" /\ req[r].kind = "login"
      /\ UNCHANGED <<clock, users, sessions, opened, shown, proved, crossed>>
  BY DEF LoginVerify
<1>3. ASSUME NEW code \in Opening(r),
             req' = [req EXCEPT ![r].pc = "commit", ![r].code = code, ![r].codes = {}]
      PROVE  AccountsInv'
  <2> DEFINE e == [req[r] EXCEPT !.pc = "commit", !.code = code, !.codes = {}]
  <2>1. code \in Codes \cup {"totp"} /\ req[r].row \in Rows
    BY <1>1 DEF Opening, Request, AccountsInv, Types
  <2>2. e \in Request /\ e.pc = "commit" /\ e.kind = "login" /\ e.row = req[r].row
    BY <1>1, <1>2, <2>1 DEF Request
  <2>3. req' = [req EXCEPT ![r] = e]
    BY <1>3, <1>1 DEF AccountsInv, Types
  <2>4. \E u \in users : u.id = req[r].row /\ u.active
    BY <1>2, <2>1 DEF AccountsInv, Kept
  <2> HIDE DEF e
  <2> QED BY <1>2, <2>1, <2>2, <2>3, <2>4, StayKeeps
<1>4. ASSUME Ends(r)
      PROVE  AccountsInv'
  BY <1>2, <1>4, EndKeeps DEF UnderWay
<1> QED BY <1>3, <1>4 DEF LoginVerify

LEMMA AuthenticateKeeps ==
  ASSUME AccountsInv, NEW r \in Requests, Authenticate(r)
  PROVE  AccountsInv'
<1>1. PICK s \in sessions, kind \in {"logout", "act"} :
        req' = [req EXCEPT ![r] =
          [Idle("authenticated", Nobody, Never) EXCEPT !.kind = kind, !.row = s.token]]
  BY DEF Authenticate
<1> DEFINE e == [Idle("authenticated", Nobody, Never) EXCEPT !.kind = kind, !.row = s.token]
<1>2. /\ Idle("authenticated", Nobody, Never) \in Request
      /\ Idle("authenticated", Nobody, Never).pc = "authenticated"
  BY DEF Idle, Request
<1>3. s.token \in Rows
  BY DEF AccountsInv, Types
<1>4. e \in Request /\ e.pc = "authenticated" /\ e.kind = kind
  BY <1>2, <1>3 DEF Request
<1>5. /\ req[r].pc = "new" /\ sessions' \subseteq sessions
      /\ UNCHANGED <<clock, users, opened, shown, proved>>
      /\ crossed' \in BOOLEAN /\ (crossed => crossed')
  BY DEF Authenticate, AccountsInv, Types
<1>6. req' = [req EXCEPT ![r] = e]
  BY <1>1
<1> HIDE DEF e
<1> QED BY <1>4, <1>5, <1>6, MoveKeeps

LEMMA LogoutKeeps ==
  ASSUME AccountsInv, NEW r \in Requests, Logout(r)
  PROVE  AccountsInv'
<1>1. sessions' \subseteq sessions
  BY DEF Logout
<1> QED BY <1>1, EndKeeps DEF Logout, UnderWay

LEMMA StepUpKeeps ==
  ASSUME AccountsInv, NEW r \in Requests, StepUp(r)
  PROVE  AccountsInv'
<1> DEFINE e == [req[r] EXCEPT !.pc = "hashing"]
<1>1. req[r] \in Request
  BY DEF AccountsInv, Types
<1>2. e \in Request /\ e.pc = "hashing" /\ e.kind = req[r].kind
  BY <1>1 DEF Request
<1>3. /\ req' = [req EXCEPT ![r] = e] /\ req[r].pc = "authenticated" /\ req[r].kind = "act"
      /\ UNCHANGED <<clock, users, sessions, opened, shown, proved, crossed>>
  BY DEF StepUp
<1> HIDE DEF e
<1> QED BY <1>2, <1>3, StayKeeps

LEMMA TickKeeps ==
  ASSUME AccountsInv, Tick
  PROVE  AccountsInv'
<1>1. Types'
  BY DEF AccountsInv, Types, Tick
<1>2. Placed'
  BY DEF AccountsInv, Placed, Tick
<1>3. Keyed'
  BY DEF AccountsInv, Keyed, Tick
<1>4. Kept'
  BY DEF AccountsInv, Kept, Tick
<1>5. Accounted'
  BY DEF AccountsInv, Accounted, Tick
<1>6. Alone'
  BY DEF AccountsInv, Alone, Tick
<1> QED BY <1>1, <1>2, <1>3, <1>4, <1>5, <1>6 DEF AccountsInv

LEMMA PurgeKeeps ==
  ASSUME AccountsInv, Purge
  PROVE  AccountsInv'
<1>1. Types'
  BY DEF AccountsInv, Types, Purge
<1>2. Placed'
  BY DEF AccountsInv, Placed, Purge
<1>3. Keyed'
  BY DEF AccountsInv, Keyed, Purge
<1>4. Kept'
  BY DEF AccountsInv, Kept, Purge
<1>5. Accounted'
  BY DEF AccountsInv, Accounted, Purge
<1>6. Alone'
  BY DEF AccountsInv, Alone, Purge
<1> QED BY <1>1, <1>2, <1>3, <1>4, <1>5, <1>6 DEF AccountsInv

LEMMA RestartKeeps ==
  ASSUME AccountsInv, Restart
  PROVE  AccountsInv'
<1>1. /\ UNCHANGED <<clock, users, sessions, shown, proved, opened, crossed>>
      /\ req' = [r \in Requests |->
                    Idle(IF req[r].pc = "new" THEN "new" ELSE "done", req[r].ip, req[r].at)]
  BY DEF Restart
<1>2. \A r \in Requests :
        /\ req'[r] \in Request /\ req'[r].kind = "none"
        /\ req'[r].pc = IF req[r].pc = "new" THEN "new" ELSE "done"
  <2> SUFFICES ASSUME NEW r \in Requests
               PROVE  /\ req'[r] \in Request /\ req'[r].kind = "none"
                      /\ req'[r].pc = IF req[r].pc = "new" THEN "new" ELSE "done"
    OBVIOUS
  <2>1. req[r] \in Request
    BY DEF AccountsInv, Types
  <2> QED BY <1>1, <2>1 DEF Idle, Request
<1>3. Types'
  BY <1>1, <1>2 DEF AccountsInv, Types
<1>4. Placed' /\ Kept'
  BY <1>1, <1>2 DEF AccountsInv, Placed, Kept
<1>5. Keyed'
  BY <1>1, <1>2 DEF AccountsInv, Keyed
<1>6. Accounted'
  BY <1>1 DEF AccountsInv, Accounted
<1>7. Alone'
  BY <1>1, <1>2 DEF AccountsInv, Alone
<1> QED BY <1>3, <1>4, <1>5, <1>6, <1>7 DEF AccountsInv

LEMMA StartDeleteKeeps ==
  ASSUME AccountsInv, NEW r \in Requests, StartDelete(r)
  PROVE  AccountsInv'
<1> DEFINE e == [req[r] EXCEPT !.pc = "insert", !.doomed = Unfinished]
<1>1. /\ req' = [req EXCEPT ![r].pc = "insert", ![r].doomed = Unfinished]
      /\ req[r].pc = "begin" /\ req[r].kind = "start"
      /\ UNCHANGED <<clock, users, sessions, shown, proved, opened, crossed>>
  BY DEF StartDelete, AccountsInv, Placed
<1>2. req[r] \in Request /\ Unfinished \subseteq Rows /\ req \in [Requests -> Request]
  BY DEF AccountsInv, Types, Unfinished
<1>3. /\ e \in Request /\ e.pc = "insert" /\ e.kind = "start" /\ e.doomed = Unfinished
      /\ req' = [req EXCEPT ![r] = e]
  BY <1>1, <1>2 DEF Request
<1> HIDE DEF e
<1>4. \A u \in users : u.id \in Unfinished <=> ~u.active
  BY DEF AccountsInv, Keyed, Unfinished
<1>5. Types'
  BY <1>1, <1>3 DEF AccountsInv, Types
<1>6. Placed'
  BY <1>2, <1>3 DEF AccountsInv, Placed
<1>7. Keyed'
  BY <1>1, <1>2, <1>3 DEF AccountsInv, Keyed
<1>8. Kept'
  BY <1>1, <1>2, <1>3, <1>4 DEF AccountsInv, Kept
<1>9. Accounted'
  BY <1>1 DEF AccountsInv, Accounted
<1>10. Alone'
  BY <1>1, <1>2, <1>3, <1>4 DEF AccountsInv, Alone
<1> QED BY <1>5, <1>6, <1>7, <1>8, <1>9, <1>10 DEF AccountsInv

LEMMA ConfirmReadKeeps ==
  ASSUME AccountsInv, NEW r \in Requests, ConfirmRead(r)
  PROVE  AccountsInv'
<1> DEFINE e == [req[r] EXCEPT !.pc = "activate"]
<1>1. PICK u \in users : Provable(u) /\ proved' = IF u.id \in shown THEN proved \cup {u.id} ELSE proved
  BY DEF ConfirmRead
<1>2. proved' = proved \cup {u.id}
  BY <1>1 DEF Provable
<1>3. /\ req' = [req EXCEPT ![r].pc = "activate"]
      /\ req[r].pc = "waiting" /\ req[r].kind = "confirm"
      /\ UNCHANGED <<clock, users, sessions, shown, opened, crossed>>
  BY DEF ConfirmRead, Waited
<1>4. req[r] \in Request /\ u.id \in Rows /\ req \in [Requests -> Request]
  BY DEF AccountsInv, Types
<1>5. /\ e \in Request /\ e.pc = "activate" /\ e.kind = "confirm"
      /\ req' = [req EXCEPT ![r] = e]
  BY <1>3, <1>4 DEF Request
<1> HIDE DEF e
<1>6. Types'
  BY <1>2, <1>3, <1>4, <1>5 DEF AccountsInv, Types
<1>7. Placed'
  BY <1>4, <1>5 DEF AccountsInv, Placed
<1>8. Keyed'
  BY <1>3, <1>4, <1>5 DEF AccountsInv, Keyed
<1>9. Kept'
  BY <1>3, <1>4, <1>5 DEF AccountsInv, Kept
<1>10. Accounted'
  BY <1>3 DEF AccountsInv, Accounted
<1>11. Alone'
  BY <1>2, <1>3, <1>4, <1>5 DEF AccountsInv, Alone
<1> QED BY <1>6, <1>7, <1>8, <1>9, <1>10, <1>11 DEF AccountsInv

LEMMA StartInsertKeeps ==
  ASSUME AccountsInv, NEW r \in Requests, StartInsert(r)
  PROVE  AccountsInv'
<1> DEFINE new  == NewAccount(r, req[r].name, FALSE)
           kept == {u \in users : u.id \notin req[r].doomed}
           e    == Idle("done", req[r].ip, req[r].at)
<1>1. /\ req[r].pc = "insert" /\ req[r].kind = "start"
      /\ users' = kept \cup {new} /\ shown' \in {shown, shown \cup {r}}
      /\ req' = [req EXCEPT ![r] = e]
      /\ UNCHANGED <<clock, sessions, opened, proved, crossed>>
  BY DEF StartInsert, Ends, AccountsInv, Placed
<1>2. req[r] \in Request /\ req \in [Requests -> Request]
  BY DEF AccountsInv, Types
<1>3. e \in Request /\ e.pc = "done" /\ e.kind = "none"
  BY <1>2 DEF Idle, Request
<1>4. /\ new \in [id : Rows, name : Names \cup {Nobody}, active : BOOLEAN, codes : SUBSET Codes]
      /\ new.id = r /\ ~new.active /\ new.codes = Codes
  BY <1>2 DEF NewAccount, Request
<1>5. \A u \in users : u.id # r
  BY <1>1 DEF AccountsInv, Keyed
<1>6. \A o \in opened : o.row # r
  BY <1>5 DEF AccountsInv, Kept
<1>7. \A u \in users : u.active => u \in kept
  BY <1>1 DEF AccountsInv, Kept
<1>8. kept \subseteq users
  OBVIOUS
<1>9. crossed \/ users' = {new}
  BY <1>1 DEF AccountsInv, Alone
<1> HIDE DEF new, kept, e
<1>10. Types'
  BY <1>1, <1>3, <1>4, <1>8 DEF AccountsInv, Types
<1>11. Placed'
  BY <1>1, <1>2, <1>3 DEF AccountsInv, Placed
<1>12. Keyed'
  BY <1>1, <1>2, <1>3, <1>4, <1>5, <1>8 DEF AccountsInv, Keyed
<1>13. Kept'
  BY <1>1, <1>2, <1>3, <1>4, <1>7, <1>8 DEF AccountsInv, Kept
<1>14. Accounted'
  BY <1>1, <1>4, <1>6, <1>8 DEF AccountsInv, Accounted
<1>15. Alone'
  BY <1>1, <1>2, <1>3, <1>4, <1>9 DEF AccountsInv, Placed, Alone
<1> QED BY <1>10, <1>11, <1>12, <1>13, <1>14, <1>15 DEF AccountsInv

LEMMA ConfirmActivateKeeps ==
  ASSUME AccountsInv, NEW r \in Requests, ConfirmActivate(r)
  PROVE  AccountsInv'
<1> DEFINE e == Idle("done", req[r].ip, req[r].at)
<1>1. PICK u \in users : ~Locked(u.id) /\ users' = (users \ {u}) \cup {[u EXCEPT !.active = TRUE]}
  BY DEF ConfirmActivate
<1> DEFINE w == [u EXCEPT !.active = TRUE]
<1>2. /\ req[r].pc = "activate" /\ req[r].kind = "confirm"
      /\ req' = [req EXCEPT ![r] = e] /\ users' = (users \ {u}) \cup {w}
      /\ UNCHANGED <<clock, sessions, shown, proved, opened, crossed>>
  BY <1>1 DEF ConfirmActivate, Ends, AccountsInv, Placed
<1>3. req[r] \in Request /\ req \in [Requests -> Request]
  BY DEF AccountsInv, Types
<1>4. e \in Request /\ e.pc = "done" /\ e.kind = "none"
  BY <1>3 DEF Idle, Request
<1>5. /\ w \in [id : Rows, name : Names \cup {Nobody}, active : BOOLEAN, codes : SUBSET Codes]
      /\ w.id = u.id /\ w.active /\ w.codes = u.codes
  BY DEF AccountsInv, Types
<1>6. \A q \in Requests : req[q].pc = "insert" => u.id \notin req[q].doomed
  BY <1>1 DEF Locked
<1> HIDE DEF w, e
<1>7. Types'
  BY <1>2, <1>4, <1>5 DEF AccountsInv, Types
<1>8. Placed'
  BY <1>2, <1>3, <1>4 DEF AccountsInv, Placed
<1>9. Keyed'
  BY <1>2, <1>3, <1>4, <1>5 DEF AccountsInv, Keyed
<1>10. Kept'
  BY <1>2, <1>3, <1>4, <1>5, <1>6 DEF AccountsInv, Kept
<1>11. Accounted'
  BY <1>2, <1>5 DEF AccountsInv, Accounted
<1>12. Alone'
  BY <1>2, <1>3, <1>4, <1>5, <1>6 DEF AccountsInv, Alone
<1> QED BY <1>7, <1>8, <1>9, <1>10, <1>11, <1>12 DEF AccountsInv

LEMMA LoginCommitKeeps ==
  ASSUME AccountsInv, NEW r \in Requests, LoginCommit(r)
  PROVE  AccountsInv'
<1>1. /\ req[r].pc = "commit" /\ req[r].kind = "login" /\ req[r].row \in Rows /\ Ends(r)
      /\ UNCHANGED <<clock, shown, proved, crossed>>
  BY DEF LoginCommit, AccountsInv, Placed
<1>2. PICK u \in users :
        /\ u.id = req[r].row
        /\ IF Listed(req[r].code, u.codes)
           THEN /\ users' = (users \ {u}) \cup {[u EXCEPT !.codes = @ \ {req[r].code}]}
                /\ sessions' = sessions \cup {[token |-> r, row |-> u.id, expires |-> clock + SessionLife]}
                /\ opened' = IF req[r].code = "totp" THEN opened
                             ELSE opened \cup {[row |-> u.id, code |-> req[r].code, token |-> r]}
           ELSE UNCHANGED <<users, sessions, opened>>
  BY DEF LoginCommit
<1>3. CASE UNCHANGED <<users, sessions, opened>>
  BY <1>1, <1>3, EndKeeps DEF UnderWay
<1>4. CASE Listed(req[r].code, u.codes)
  <2> DEFINE e == Idle("done", req[r].ip, req[r].at)
             w == [u EXCEPT !.codes = @ \ {req[r].code}]
             o == [row |-> u.id, code |-> req[r].code, token |-> r]
             s == [token |-> r, row |-> u.id, expires |-> clock + SessionLife]
  <2>1. /\ req' = [req EXCEPT ![r] = e] /\ users' = (users \ {u}) \cup {w}
        /\ sessions' = sessions \cup {s}
        /\ opened' = IF req[r].code = "totp" THEN opened ELSE opened \cup {o}
    BY <1>1, <1>2, <1>4 DEF Ends
  <2>2. req[r] \in Request /\ req \in [Requests -> Request] /\ u.id \in Rows /\ clock \in Int
    BY DEF AccountsInv, Types
  <2>3. e \in Request /\ e.pc = "done" /\ e.kind = "none"
    BY <2>2 DEF Idle, Request
  <2>4. /\ w \in [id : Rows, name : Names \cup {Nobody}, active : BOOLEAN, codes : SUBSET Codes]
        /\ w.id = u.id /\ w.active = u.active /\ w.codes = u.codes \ {req[r].code}
    BY DEF AccountsInv, Types
  <2> HIDE DEF w
  <2>5. \/ req[r].code = "totp" /\ w.codes = u.codes
        \/ req[r].code \in u.codes /\ req[r].code \in Codes
    <3>1. u.codes \subseteq Codes
      BY DEF AccountsInv, Types
    <3>2. CASE req[r].code = "totp"
      <4>1. "totp" \notin u.codes
        BY <3>1, AccountsAssumption
      <4>2. u.codes \ {"totp"} = u.codes
        BY <4>1
      <4>3. w.codes = u.codes \ {req[r].code}
        BY <2>4
      <4>4. w.codes = u.codes
        BY <3>2, <4>2, <4>3, Zenon
      <4> QED BY <3>2, <4>4, Zenon
    <3>3. CASE req[r].code \in u.codes
      BY <3>1, <3>3
    <3> QED BY <1>4, <3>2, <3>3 DEF Listed
  <2>6. s \in [token : Requests, row : Rows, expires : Int]
    BY <2>2, AccountsAssumption
  <2>7. /\ req[r].code \in Codes => o \in [row : Rows, code : Codes, token : Requests]
        /\ o.row = u.id /\ o.code = req[r].code
    BY <2>2
  <2>8. u.active /\ \A v \in users : v.id = u.id => v = u
    BY <1>1, <1>2 DEF AccountsInv, Kept, Keyed
  <2> HIDE DEF e, o, s
  <2>9. Types'
    BY <1>1, <2>1, <2>3, <2>4, <2>5, <2>6, <2>7 DEF AccountsInv, Types
  <2>10. Placed'
    BY <2>1, <2>2, <2>3 DEF AccountsInv, Placed
  <2>11. Keyed'
    BY <2>1, <2>2, <2>3, <2>4 DEF AccountsInv, Keyed
  <2>12. Kept'
    <3>1. \A v \in users : v.active => \E v1 \in users' : v1.id = v.id /\ v1.active
      BY <2>1, <2>4, <2>8
    <3>2. \A v1 \in users' : \E v \in users : v.id = v1.id /\ v.active = v1.active
      BY <2>1, <2>4
    <3>3. \A q \in Requests : req'[q] = IF q = r THEN e ELSE req[q]
      BY <2>1, <2>2
    <3>4. \A p \in opened' : p \in opened \/ p.row = u.id
      BY <2>1, <2>7
    <3>5. \A q \in Requests : req'[q].pc = "insert" =>
            \A v \in users' : v.id \in req'[q].doomed => ~v.active
      BY <2>3, <3>2, <3>3 DEF AccountsInv, Kept
    <3>6. \A q \in Requests :
            req'[q].pc \in {"hashing", "commit"} /\ req'[q].kind = "login" /\ req'[q].row \in Rows =>
              \E v \in users' : v.id = req'[q].row /\ v.active
      BY <2>3, <3>1, <3>3 DEF AccountsInv, Kept
    <3>7. \A p \in opened' : \E v \in users' : v.id = p.row /\ v.active
      BY <2>8, <3>1, <3>4 DEF AccountsInv, Kept
    <3> QED BY <3>5, <3>6, <3>7 DEF Kept
  <2>13. Accounted'
    BY <2>1, <2>4, <2>5, <2>7, <2>8, AccountsAssumption DEF AccountsInv, Accounted
  <2>14. Alone'
    BY <1>1, <2>1, <2>2, <2>3, <2>4 DEF AccountsInv, Alone
  <2> QED BY <2>9, <2>10, <2>11, <2>12, <2>13, <2>14 DEF AccountsInv
<1> QED BY <1>2, <1>3, <1>4

----------------------------------------------------------------------------

LEMMA Preserved == AccountsInv /\ [Next]_vars => AccountsInv'
<1> SUFFICES ASSUME AccountsInv, [Next]_vars PROVE AccountsInv'
  OBVIOUS
<1>1. CASE UNCHANGED vars
  <2>1. Types' /\ Placed' /\ Keyed'
    BY <1>1 DEF vars, AccountsInv, Types, Placed, Keyed
  <2>2. Kept' /\ Accounted' /\ Alone'
    BY <1>1 DEF vars, AccountsInv, Kept, Accounted, Alone
  <2> QED BY <2>1, <2>2 DEF AccountsInv
<1>2. ASSUME NEW r \in Requests, Step(r)
      PROVE  AccountsInv'
  BY <1>2, ArriveKeeps, RefuseKeeps, StartCheckKeeps, StartHashedKeeps, StartDeleteKeeps,
     StartInsertKeeps, ConfirmReadKeeps, ConfirmActivateKeeps, LoginLoadKeeps,
     LoginVerifyKeeps, LoginCommitKeeps, AuthenticateKeeps, LogoutKeeps, StepUpKeeps DEF Step
<1> QED BY <1>1, <1>2, TickKeeps, PurgeKeeps, RestartKeeps DEF Next

LEMMA Always == Spec => []AccountsInv
BY Begun, Preserved, PTL DEF Spec

\* The number of elements of a set that has one, none, or one at most.
LEMMA Counted ==
  ASSUME NEW S
  PROVE  /\ S = {} => Cardinality(S) = 0
         /\ \A x : S = {x} => Cardinality(S) = 1
         /\ (\A x, y \in S : x = y) => Cardinality(S) <= 1
<1>1. S = {} => Cardinality(S) = 0
  BY FS_EmptySet
<1>2. \A x : S = {x} => Cardinality(S) = 1
  BY FS_Singleton
<1>3. ASSUME \A x, y \in S : x = y
      PROVE  Cardinality(S) <= 1
  <2>1. CASE S = {}
    BY <1>1, <2>1
  <2>2. ASSUME NEW x \in S
        PROVE  Cardinality(S) = 1
    <3>1. S = {x}
      BY <1>3
    <3> QED BY <1>2, <3>1
  <2> QED BY <2>1, <2>2
<1> QED BY <1>1, <1>2, <1>3

\* However many logins race, abort or lose their reply, a recovery code is listed and
\* has opened no session, or is not and has opened exactly one.
THEOREM CodesKept == Spec => []CodesAccounted
<1>1. AccountsInv => CodesAccounted
  <2> SUFFICES ASSUME AccountsInv, NEW u \in users, NEW c \in Codes
               PROVE  Cardinality({o \in opened : o.row = u.id /\ o.code = c})
                        = IF c \in u.codes THEN 0 ELSE 1
    BY DEF CodesAccounted
  <2> DEFINE S == {o \in opened : o.row = u.id /\ o.code = c}
  <2>1. CASE c \in u.codes
    <3>1. S = {}
      BY <2>1 DEF AccountsInv, Accounted
    <3> QED BY <2>1, <3>1, Counted
  <2>2. CASE c \notin u.codes
    <3>1. PICK o \in opened : /\ o.row = u.id /\ o.code = c
                              /\ \A p \in opened : p.row = u.id /\ p.code = c => p = o
      BY <2>2 DEF AccountsInv, Accounted
    <3>2. S = {o}
      BY <3>1
    <3> QED BY <2>2, <3>2, Counted
  <2> QED BY <2>1, <2>2
<1> QED BY <1>1, Always, PTL

\* Bootstrap requests that come one at a time leave one administrator, whatever
\* requests are abandoned, replies lost or brokers restarted.
THEOREM OneAdmin == Spec => []OneAdministrator
<1>1. AccountsInv => OneAdministrator
  <2> SUFFICES ASSUME AccountsInv, ~crossed
               PROVE  Cardinality({u \in users : u.active}) <= 1
    BY DEF OneAdministrator
  <2>1. \A x, y \in {u \in users : u.active} : x = y
    BY DEF AccountsInv, Alone, Keyed
  <2> QED BY <2>1, Counted
<1> QED BY <1>1, Always, PTL

\* Then a code was seen for the secret of every active account.
THEOREM SecretProved == Spec => []ActiveIsProved
<1>1. AccountsInv => ActiveIsProved
  BY DEF AccountsInv, Alone, ActiveIsProved
<1> QED BY <1>1, Always, PTL

----------------------------------------------------------------------------
(* The tables of the limiter, and what its operations do to its buckets. *)

\* The entries that remain are those at the places K, each once and in a list no longer.
\* The places K are listed, each once.
Lists(place, K) ==
  /\ place \in [1 .. Cardinality(K) -> K]
  /\ \A m, n \in 1 .. Cardinality(K) : place[m] = place[n] => m = n
  /\ \A k \in K : \E n \in 1 .. Cardinality(K) : place[n] = k

\* What remains of a table is its entries at the places K, in a list.
LEMMA RemainingPlaces ==
  ASSUME NEW table, NEW size \in Nat, NEW K \in SUBSET (1 .. size)
  PROVE  /\ Cardinality(K) \in Nat /\ Cardinality(K) <= size
         /\ \E place : Lists(place, K) /\ Remaining(table, K) = [n \in 1 .. Cardinality(K) |-> table[place[n]]]
<1> DEFINE Below(k) == {j \in K : j <= k}
           Rank(k) == Cardinality(Below(k))
           size1 == Cardinality(K)
           rank == [k \in K |-> Rank(k)]
           place == [n \in 1 .. size1 |-> CHOOSE k \in K : Rank(k) = n]
<1>1. IsFiniteSet(K) /\ size1 \in Nat /\ size1 <= size
  <2>1. IsFiniteSet(1 .. size) /\ Cardinality(1 .. size) = size
    BY FS_Interval
  <2> QED BY <2>1, FS_Subset, FS_CardinalityType
<1>2. \A k \in K : IsFiniteSet(Below(k)) /\ Rank(k) \in 1 .. size1
  <2> SUFFICES ASSUME NEW k \in K
               PROVE  IsFiniteSet(Below(k)) /\ Rank(k) \in 1 .. size1
    OBVIOUS
  <2>1. Below(k) \in SUBSET K /\ k \in Below(k)
    OBVIOUS
  <2>2. IsFiniteSet(Below(k)) /\ Rank(k) <= size1 /\ Rank(k) \in Nat
    BY <1>1, <2>1, FS_Subset, FS_CardinalityType
  <2>3. Rank(k) # 0
    BY <2>1, <2>2, FS_EmptySet
  <2> HIDE DEF Below, size1
  <2> QED BY <1>1, <2>2, <2>3
<1>3. \A j, k \in K : j < k => Rank(j) < Rank(k)
  <2> SUFFICES ASSUME NEW j \in K, NEW k \in K, j < k
               PROVE  Rank(j) < Rank(k)
    OBVIOUS
  <2>0. K \subseteq Int
    OBVIOUS
  <2>1. Below(j) \in SUBSET Below(k) /\ k \in Below(k) /\ k \notin Below(j)
    <3>1. \A i \in K : i <= j => i <= k
      BY <2>0
    <3>2. k <= k /\ ~(k <= j)
      BY <2>0
    <3> QED BY <3>1, <3>2
  <2>2. Rank(j) <= Rank(k) /\ (Rank(j) = Rank(k) => Below(j) = Below(k))
    BY <1>2, <2>1, FS_Subset
  <2>3. Rank(j) \in Int /\ Rank(k) \in Int /\ Rank(j) # Rank(k)
    BY <1>2, <2>1, <2>2
  <2> HIDE DEF Below
  <2> QED BY <2>2, <2>3
<1>4. \A j, k \in K : Rank(j) = Rank(k) => j = k
  <2> SUFFICES ASSUME NEW j \in K, NEW k \in K, Rank(j) = Rank(k)
               PROVE  j = k
    OBVIOUS
  <2>1. ~(j < k) /\ ~(k < j)
    BY <1>2, <1>3
  <2> QED BY <2>1
<1> HIDE DEF Below
<1>5. rank \in Injection(K, 1 .. size1)
  BY <1>2, <1>4 DEF Injection, IsInjective
<1>6. \A n \in 1 .. size1 : \E k \in K : Rank(k) = n
  <2>1. IsFiniteSet(1 .. size1) /\ Cardinality(1 .. size1) = size1
    BY <1>1, FS_Interval
  <2>2. rank \in Surjection(K, 1 .. size1)
    BY <1>5, <2>1, FS_Injection
  <2> QED BY <2>2 DEF Surjection
<1>7. \A n \in 1 .. size1 : place[n] \in K /\ Rank(place[n]) = n
  BY <1>6
<1>8. place \in [1 .. size1 -> K]
  BY <1>7
<1>9. \A m, n \in 1 .. size1 : place[m] = place[n] => m = n
  BY <1>7
<1>10. \A k \in K : \E n \in 1 .. size1 : place[n] = k
  BY <1>2, <1>4, <1>7
<1>11. Remaining(table, K) = [n \in 1 .. size1 |-> table[place[n]]]
  BY DEF Remaining, Below
<1> HIDE DEF place, size1, Rank
<1>12. Lists(place, K)
  BY <1>8, <1>9, <1>10 DEF Lists, size1
<1>13. Remaining(table, K) = [n \in 1 .. Cardinality(K) |-> table[place[n]]]
  BY <1>11 DEF size1
<1> QED BY <1>1, <1>12, <1>13 DEF size1

Distinct(table) == \A i, j \in DOMAIN table : table[i].key = table[j].key => i = j

\* So it has those entries and no other, and a key still only once.
LEMMA RemainingEntries ==
  ASSUME NEW E, NEW table \in Seq(E), NEW K \in SUBSET DOMAIN table
  PROVE  /\ Remaining(table, K) \in Seq(E) /\ Len(Remaining(table, K)) <= Len(table)
         /\ Len(Remaining(table, K)) = Cardinality(K)
         /\ \A k \in K : \E n \in DOMAIN Remaining(table, K) : Remaining(table, K)[n] = table[k]
         /\ \A n \in DOMAIN Remaining(table, K) : \E k \in K : Remaining(table, K)[n] = table[k]
         /\ Distinct(table) => Distinct(Remaining(table, K))
<1> DEFINE R == Remaining(table, K)
           size == Cardinality(K)
<1>1. Len(table) \in Nat /\ K \in SUBSET (1 .. Len(table))
  OBVIOUS
<1>2. PICK place :
        Lists(place, K) /\ Remaining(table, K) = [n \in 1 .. Cardinality(K) |-> table[place[n]]]
  BY <1>1, RemainingPlaces
<1>3. size \in Nat /\ size <= Len(table)
  BY <1>1, RemainingPlaces
<1> HIDE DEF R, size
<1>4. \A n \in 1 .. size : place[n] \in K /\ place[n] \in DOMAIN table /\ R[n] = table[place[n]]
  BY <1>2 DEF Lists, R, size
<1>5. R \in Seq(E) /\ Len(R) = size /\ DOMAIN R = 1 .. size
  BY <1>1, <1>2, <1>3, <1>4 DEF R, size
<1>6. Distinct(table) => Distinct(R)
  BY <1>2, <1>4, <1>5 DEF Distinct, Lists, size
<1>7. \A k \in K : \E n \in DOMAIN R : R[n] = table[k]
  BY <1>2, <1>4, <1>5 DEF Lists, size
<1>8. \A n \in DOMAIN R : \E k \in K : R[n] = table[k]
  BY <1>4, <1>5
<1> QED BY <1>3, <1>5, <1>6, <1>7, <1>8 DEF R, size

\* The entries of all keys but one.
LEMMA WithoutEntries ==
  ASSUME NEW E, NEW table \in Seq(E), NEW key
  PROVE  /\ Without(table, key) \in Seq(E) /\ Len(Without(table, key)) <= Len(table)
         /\ \A i \in DOMAIN table : table[i].key # key =>
              \E n \in DOMAIN Without(table, key) : Without(table, key)[n] = table[i]
         /\ \A n \in DOMAIN Without(table, key) :
              \E i \in DOMAIN table : table[i].key # key /\ Without(table, key)[n] = table[i]
         /\ Distinct(table) => Distinct(Without(table, key))
<1> DEFINE K == {i \in DOMAIN table : table[i].key # key}
<1>1. K \in SUBSET DOMAIN table /\ Without(table, key) = Remaining(table, K)
  BY DEF Without
<1>2. \A i : i \in K <=> i \in DOMAIN table /\ table[i].key # key
  OBVIOUS
<1> HIDE DEF K
<1> QED BY <1>1, <1>2, RemainingEntries

\* What a use leaves in a table.
UsedWell(E, table, entry, capacity, U) ==
  /\ U \in Seq(E) /\ Len(U) <= capacity
  /\ \E n \in DOMAIN U : U[n] = entry
  /\ \A n \in DOMAIN U :
       \/ U[n] = entry
       \/ \E i \in DOMAIN table : table[i].key # entry.key /\ U[n] = table[i]
  /\ Distinct(table) => Distinct(U)
  /\ Len(Without(table, entry.key)) < capacity =>
       \A i \in DOMAIN table : table[i].key # entry.key => \E n \in DOMAIN U : U[n] = table[i]

LEMMA UsedEntries ==
  ASSUME NEW E, NEW table \in Seq(E), NEW entry \in E, NEW capacity \in Nat \ {0}
  PROVE  UsedWell(E, table, entry, capacity, Used(table, entry, capacity))
<1> DEFINE W == Without(table, entry.key)
           size == Least(Len(W), capacity - 1)
           others == SubSeq(W, 1, size)
           U == Used(table, entry, capacity)
<1>1. /\ W \in Seq(E) /\ Len(W) <= Len(table)
      /\ \A i \in DOMAIN table : table[i].key # entry.key => \E n \in DOMAIN W : W[n] = table[i]
      /\ \A n \in DOMAIN W : \E i \in DOMAIN table : table[i].key # entry.key /\ W[n] = table[i]
      /\ Distinct(table) => Distinct(W)
  BY WithoutEntries, Zenon
<1> HIDE DEF W
<1>2. /\ size \in Nat /\ size <= Len(W) /\ size <= capacity - 1
      /\ Len(W) < capacity => size = Len(W)
  BY <1>1 DEF Least
<1> HIDE DEF size
<1>3. others \in Seq(E) /\ Len(others) = size /\ \A n \in 1 .. size : others[n] = W[n]
  BY <1>1, <1>2
<1>4. U = <<entry>> \o others
  BY DEF Used, W, size
<1> HIDE DEF others
<1>5. /\ U \in Seq(E) /\ Len(U) = size + 1 /\ DOMAIN U = 1 .. size + 1 /\ U[1] = entry
      /\ \A n \in 2 .. size + 1 : U[n] = others[n - 1]
  BY <1>2, <1>3, <1>4
<1> HIDE DEF U
<1>6. \A n \in 2 .. size + 1 : n - 1 \in DOMAIN W /\ U[n] = W[n - 1]
  BY <1>1, <1>2, <1>3, <1>5
<1>7. \A n \in DOMAIN U : n # 1 => n \in 2 .. size + 1
  BY <1>2, <1>5
<1>8. \A n \in DOMAIN U : U[n] = entry \/ \E i \in DOMAIN table : table[i].key # entry.key /\ U[n] = table[i]
  <2> SUFFICES ASSUME NEW n \in DOMAIN U, n # 1
               PROVE  \E i \in DOMAIN table : table[i].key # entry.key /\ U[n] = table[i]
    BY <1>5
  <2>1. n - 1 \in DOMAIN W /\ U[n] = W[n - 1]
    BY <1>6, <1>7
  <2> QED BY <1>1, <2>1
<1>9. ASSUME Distinct(table) PROVE Distinct(U)
  <2> SUFFICES ASSUME NEW m \in DOMAIN U, NEW n \in DOMAIN U, U[m].key = U[n].key
               PROVE  m = n
    BY DEF Distinct
  <2>1. \A k \in 2 .. size + 1 : U[k].key # entry.key
    BY <1>1, <1>6
  <2>2. m = 1 <=> n = 1
    BY <1>5, <1>7, <2>1
  <2>3. CASE m # 1 /\ n # 1
    <3>1. W[m - 1].key = W[n - 1].key /\ m - 1 \in DOMAIN W /\ n - 1 \in DOMAIN W
      BY <1>6, <1>7, <2>3
    <3>2. m - 1 = n - 1
      BY <1>1, <1>9, <3>1 DEF Distinct
    <3> QED BY <1>5, <3>2
  <2> QED BY <2>2, <2>3
<1>10. ASSUME Len(W) < capacity, NEW i \in DOMAIN table, table[i].key # entry.key
       PROVE  \E n \in DOMAIN U : U[n] = table[i]
  <2>1. PICK n \in DOMAIN W : W[n] = table[i]
    BY <1>1, <1>10
  <2>2. n + 1 \in 2 .. size + 1 /\ (n + 1) - 1 = n
    BY <1>1, <1>2, <1>10, <2>1
  <2>3. n + 1 \in DOMAIN U /\ U[n + 1] = table[i]
    BY <1>2, <1>5, <1>6, <2>1, <2>2
  <2> QED BY <2>3
<1>11. 1 \in DOMAIN U /\ Len(U) <= capacity
  BY <1>2, <1>5
<1>12. Distinct(table) => Distinct(U)
  BY <1>9
<1>13. Len(W) < capacity =>
         \A i \in DOMAIN table : table[i].key # entry.key => \E n \in DOMAIN U : U[n] = table[i]
  BY <1>10
<1> QED BY <1>5, <1>8, <1>11, <1>12, <1>13 DEF U, W, UsedWell

\* A look-up finds the entry of the key, or what is made for a new key.
LEMMA EntryFound ==
  ASSUME NEW table, NEW key, NEW fresh
  PROVE  /\ Distinct(table) => \A i \in DOMAIN table : table[i].key = key => Entry(table, key, fresh) = table[i]
         /\ (\A i \in DOMAIN table : table[i].key # key) => Entry(table, key, fresh) = fresh
         /\ \/ Entry(table, key, fresh) = fresh
            \/ \E i \in DOMAIN table : table[i].key = key /\ Entry(table, key, fresh) = table[i]
<1> DEFINE places == {i \in DOMAIN table : table[i].key = key}
<1>1. Entry(table, key, fresh) = IF places = {} THEN fresh ELSE table[CHOOSE i \in places : TRUE]
  BY DEF Entry
<1>2. \A i : i \in places <=> i \in DOMAIN table /\ table[i].key = key
  OBVIOUS
<1>3. places # {} => (CHOOSE i \in places : TRUE) \in places
  OBVIOUS
<1> HIDE DEF places
<1>4. Distinct(table) => \A i, j \in places : i = j
  BY <1>2 DEF Distinct
<1>5. \A i \in DOMAIN table : table[i].key = key => places # {}
  BY <1>2
<1>6. Distinct(table) => \A i \in DOMAIN table : table[i].key = key => Entry(table, key, fresh) = table[i]
  BY <1>1, <1>2, <1>3, <1>4
<1>7. (\A i \in DOMAIN table : table[i].key # key) => Entry(table, key, fresh) = fresh
  BY <1>1, <1>2
<1>8. \/ Entry(table, key, fresh) = fresh
      \/ \E i \in DOMAIN table : table[i].key = key /\ Entry(table, key, fresh) = table[i]
  BY <1>1, <1>2, <1>3
<1> QED BY <1>6, <1>7, <1>8

\* In a table there is room for the entries of all other keys.
LEMMA RoomForAll ==
  ASSUME NEW E, NEW table \in Seq(E), NEW Keys, IsFiniteSet(Keys), \A e \in E : e.key \in Keys,
         Distinct(table), NEW key \in Keys
  PROVE  Len(Without(table, key)) < Cardinality(Keys)
<1> DEFINE W == Without(table, key)
           keyAt == [n \in 1 .. Len(W) |-> W[n].key]
           Others == Keys \ {key}
<1>1. /\ W \in Seq(E) /\ Len(W) <= Len(table)
      /\ \A i \in DOMAIN table : table[i].key # key => \E n \in DOMAIN W : W[n] = table[i]
      /\ \A n \in DOMAIN W : \E i \in DOMAIN table : table[i].key # key /\ W[n] = table[i]
      /\ Distinct(table) => Distinct(W)
  BY WithoutEntries, Zenon
<1> HIDE DEF W
<1>2. Len(W) \in Nat /\ DOMAIN W = 1 .. Len(W) /\ Distinct(W)
  BY <1>1
<1>3. \A n \in 1 .. Len(W) : W[n].key \in Keys /\ W[n].key # key
  <2> SUFFICES ASSUME NEW n \in 1 .. Len(W) PROVE W[n].key \in Keys /\ W[n].key # key
    OBVIOUS
  <2>1. W[n] \in E
    BY <1>1
  <2>2. PICK i \in DOMAIN table : table[i].key # key /\ W[n] = table[i]
    BY <1>1, <1>2
  <2> QED BY <2>1, <2>2
<1>4. keyAt \in Injection(1 .. Len(W), Others)
  BY <1>2, <1>3 DEF Injection, IsInjective, Distinct
<1>5. IsFiniteSet(Others) /\ Cardinality(Others) = Cardinality(Keys) - 1 /\ Cardinality(Keys) \in Nat
  BY FS_RemoveElement, FS_CardinalityType
<1>6. Cardinality(1 .. Len(W)) <= Cardinality(Others)
  BY <1>4, <1>5, FS_Injection
<1>7. Cardinality(1 .. Len(W)) = Len(W)
  <2>1. \A m \in Nat : Cardinality(1 .. m) = m
    BY FS_Interval
  <2> QED BY <1>2, <2>1
<1> QED BY <1>2, <1>5, <1>6, <1>7 DEF W

\* What a look-up finds after a use, and after a cleanup.
LEMMA EntryUsed ==
  ASSUME NEW E, NEW table \in Seq(E), NEW entry \in E, NEW capacity \in Nat \ {0}, Distinct(table),
         Len(Without(table, entry.key)) < capacity, NEW key, NEW fresh
  PROVE  Entry(Used(table, entry, capacity), key, fresh)
           = IF key = entry.key THEN entry ELSE Entry(table, key, fresh)
<1> DEFINE U == Used(table, entry, capacity)
<1>1. /\ U \in Seq(E) /\ Len(U) <= capacity
      /\ \E n \in DOMAIN U : U[n] = entry
      /\ \A n \in DOMAIN U :
           \/ U[n] = entry
           \/ \E i \in DOMAIN table : table[i].key # entry.key /\ U[n] = table[i]
      /\ Distinct(table) => Distinct(U)
      /\ Len(Without(table, entry.key)) < capacity =>
           \A i \in DOMAIN table : table[i].key # entry.key => \E n \in DOMAIN U : U[n] = table[i]
  <2>1. UsedWell(E, table, entry, capacity, U)
    BY UsedEntries
  <2> QED BY <2>1 DEF UsedWell
<1> HIDE DEF U
<1>2. \A n \in DOMAIN U : U[n].key = key => Entry(U, key, fresh) = U[n]
  BY <1>1, EntryFound
<1>3. CASE key = entry.key
  BY <1>1, <1>2, <1>3 DEF U
<1>4. CASE key # entry.key /\ \E i \in DOMAIN table : table[i].key = key
  <2>1. PICK i \in DOMAIN table : table[i].key = key
    BY <1>4
  <2>2. PICK n \in DOMAIN U : U[n] = table[i]
    BY <1>1, <1>4, <2>1
  <2>3. Entry(table, key, fresh) = table[i]
    BY <2>1, EntryFound
  <2>4. Entry(U, key, fresh) = table[i]
    BY <1>2, <2>1, <2>2
  <2> QED BY <1>4, <2>3, <2>4 DEF U
<1>5. CASE key # entry.key /\ \A i \in DOMAIN table : table[i].key # key
  <2>1. \A n \in DOMAIN U : U[n].key # key
    BY <1>1, <1>5
  <2>2. Entry(U, key, fresh) = fresh /\ Entry(table, key, fresh) = fresh
    BY <1>5, <2>1, EntryFound
  <2> QED BY <1>5, <2>2 DEF U
<1> QED BY <1>3, <1>4, <1>5

\* The entries that a cleanup keeps.
LEMMA UnexpiredEntries ==
  ASSUME NEW E, NEW table \in Seq(E), NEW now
  PROVE  /\ Unexpired(table, now) \in Seq(E) /\ Len(Unexpired(table, now)) <= Len(table)
         /\ \A n \in DOMAIN Unexpired(table, now) :
              \E i \in DOMAIN table : table[i].seen >= now - EntryTTL /\ Unexpired(table, now)[n] = table[i]
         /\ \A i \in DOMAIN table : table[i].seen >= now - EntryTTL =>
              \E n \in DOMAIN Unexpired(table, now) : Unexpired(table, now)[n] = table[i]
         /\ Distinct(table) => Distinct(Unexpired(table, now))
<1> DEFINE K == {i \in DOMAIN table : table[i].seen >= now - EntryTTL}
<1>1. K \in SUBSET DOMAIN table /\ Unexpired(table, now) = Remaining(table, K)
  BY DEF Unexpired
<1>2. \A i : i \in K <=> i \in DOMAIN table /\ table[i].seen >= now - EntryTTL
  OBVIOUS
<1> HIDE DEF K
<1> QED BY <1>1, <1>2, RemainingEntries

\* A look-up after a cleanup finds the same entry, unless that has expired.
LEMMA EntryUnexpired ==
  ASSUME NEW E, NEW table \in Seq(E), Distinct(table), NEW now, NEW key, NEW fresh
  PROVE  \/ Entry(Unexpired(table, now), key, fresh) = Entry(table, key, fresh)
         \/ /\ Entry(Unexpired(table, now), key, fresh) = fresh
            /\ \E i \in DOMAIN table : /\ Entry(table, key, fresh) = table[i]
                                       /\ ~(table[i].seen >= now - EntryTTL)
<1> DEFINE U == Unexpired(table, now)
<1>1. /\ U \in Seq(E) /\ Len(U) <= Len(table)
      /\ \A n \in DOMAIN U : \E i \in DOMAIN table : table[i].seen >= now - EntryTTL /\ U[n] = table[i]
      /\ \A i \in DOMAIN table : table[i].seen >= now - EntryTTL => \E n \in DOMAIN U : U[n] = table[i]
      /\ Distinct(table) => Distinct(U)
  BY UnexpiredEntries, Zenon
<1> HIDE DEF U
<1>2. CASE \A n \in DOMAIN U : U[n].key # key
  <2>1. Entry(U, key, fresh) = fresh
    BY <1>2, EntryFound
  <2>2. \/ Entry(table, key, fresh) = fresh
        \/ \E i \in DOMAIN table : table[i].key = key /\ Entry(table, key, fresh) = table[i]
    BY EntryFound
  <2> QED BY <1>1, <1>2, <2>1, <2>2 DEF U
<1>3. ASSUME NEW n \in DOMAIN U, U[n].key = key
      PROVE  Entry(U, key, fresh) = Entry(table, key, fresh)
  <2>1. Entry(U, key, fresh) = U[n]
    BY <1>1, <1>3, EntryFound
  <2>2. PICK i \in DOMAIN table : U[n] = table[i]
    BY <1>1
  <2>3. Entry(table, key, fresh) = table[i]
    BY <1>3, <2>2, EntryFound
  <2> QED BY <2>1, <2>2, <2>3
<1> QED BY <1>2, <1>3 DEF U

AddressRow == [key : IPs, credit : Nat, seen : Nat]
AccountRow == [key : Names, failures : Nat, seen : Nat]

\* The limiter at a time: its tables hold a key once and within their capacity, and
\* no bucket holds more than its burst or was refilled in the future.
Sound(l, now) ==
  /\ l \in LimiterType
  /\ Len(l.ips) <= MaxIPs /\ Len(l.accounts) <= MaxAccounts
  /\ Distinct(l.ips) /\ Distinct(l.accounts)
  /\ l.global.credit <= GlobalBurst * GlobalRefill /\ l.global.last <= now
  /\ \A i \in DOMAIN l.ips : l.ips[i].credit <= IPBurst * IPRefill /\ l.ips[i].seen <= now

GlobalCredit(l, now) == refill(l.global.credit, GlobalBurst, GlobalRefill, now - l.global.last)
IPCredit(l, ip, now) == Bucket(l, ip, now).credit

\* The table of addresses has room for all and does not expire a bucket before it is full.
Roomy == Cardinality(IPs) <= MaxIPs /\ IPBurst * IPRefill <= EntryTTL

\* The constants of the limiter are numbers; a burst is at least one token.
LEMMA Sizes ==
  /\ GlobalBurst \in Nat \ {0} /\ GlobalRefill \in Nat \ {0} /\ IPBurst \in Nat \ {0} /\ IPRefill \in Nat \ {0}
  /\ MaxIPs \in Nat \ {0} /\ MaxAccounts \in Nat \ {0} /\ EntryTTL \in Nat \ {0} /\ CleanupInterval \in Nat \ {0}
  /\ FreeFailures \in Nat /\ Slowdown \in Nat /\ MaxFailures \in Nat
  /\ GlobalBurst * GlobalRefill \in Nat /\ GlobalRefill <= GlobalBurst * GlobalRefill
  /\ IPBurst * IPRefill \in Nat /\ IPRefill <= IPBurst * IPRefill
<1>1. \A b, i \in Nat \ {0} : b * i \in Nat /\ i <= b * i
  OBVIOUS
<1> QED BY <1>1, AuthLimitAssumption

\* Refilling stays within the burst and brings at most one unit in a unit of time.
LEMMA Refilled ==
  ASSUME NEW credit \in Nat, NEW burst, NEW interval, burst * interval \in Nat,
         credit <= burst * interval, NEW elapsed \in Nat
  PROVE  /\ refill(credit, burst, interval, elapsed) \in Nat
         /\ refill(credit, burst, interval, elapsed) <= burst * interval
         /\ refill(credit, burst, interval, 0) = credit
         /\ refill(credit, burst, interval, elapsed + 1) <= refill(credit, burst, interval, elapsed) + 1
         /\ elapsed >= burst * interval => refill(credit, burst, interval, elapsed) = burst * interval
BY DEF refill, Least

\* A new limiter is sound and its buckets are full.
LEMMA NewSound ==
  ASSUME NEW now \in Nat
  PROVE  /\ Sound(NewLimiter(now), now)
         /\ GlobalCredit(NewLimiter(now), now) = GlobalBurst * GlobalRefill
         /\ \A ip \in IPs : IPCredit(NewLimiter(now), ip, now) = IPBurst * IPRefill
<1> DEFINE l == NewLimiter(now)
<1>1. /\ l.global = [credit |-> GlobalBurst * GlobalRefill, last |-> now]
      /\ l.ips = <<>> /\ l.accounts = <<>> /\ l.nextCleanup = now + CleanupInterval
      /\ l = [global |-> [credit |-> GlobalBurst * GlobalRefill, last |-> now],
              ips |-> <<>>, accounts |-> <<>>, nextCleanup |-> now + CleanupInterval]
  BY DEF NewLimiter
<1> HIDE DEF l
<1>2. l \in LimiterType
  BY <1>1, Sizes DEF LimiterType
<1>3. Sound(l, now)
  BY <1>1, <1>2, Sizes DEF Sound, Distinct
<1>4. GlobalCredit(l, now) = GlobalBurst * GlobalRefill
  <2>1. now - now = 0
    OBVIOUS
  <2> QED BY <1>1, <2>1, Sizes DEF GlobalCredit, refill, Least
<1>5. ASSUME NEW ip \in IPs
      PROVE  IPCredit(l, ip, now) = IPBurst * IPRefill
  <2> DEFINE fresh == [key |-> ip, credit |-> IPBurst * IPRefill, seen |-> now]
  <2>1. Entry(l.ips, ip, fresh) = fresh
    BY <1>1, EntryFound
  <2>2. now - now = 0
    OBVIOUS
  <2> QED BY <2>1, <2>2, Sizes, Refilled DEF IPCredit, Bucket
<1> QED BY <1>3, <1>4, <1>5 DEF l

\* The bucket a request finds.
LEMMA BucketFound ==
  ASSUME NEW l, NEW now \in Nat, Sound(l, now), NEW ip \in IPs
  PROVE  /\ Bucket(l, ip, now) \in AddressRow /\ Bucket(l, ip, now).key = ip
         /\ Bucket(l, ip, now).seen = now
         /\ Bucket(l, ip, now).credit \in Nat /\ Bucket(l, ip, now).credit <= IPBurst * IPRefill
         /\ IPCredit(l, ip, now + 1) \in Nat
         /\ IPCredit(l, ip, now + 1) <= IPBurst * IPRefill
         /\ IPCredit(l, ip, now + 1) <= IPCredit(l, ip, now) + 1
<1> DEFINE fresh(t) == [key |-> ip, credit |-> IPBurst * IPRefill, seen |-> t]
           e(t) == Entry(l.ips, ip, fresh(t))
           bucket(t) == [key |-> ip, credit |-> refill(e(t).credit, IPBurst, IPRefill, t - e(t).seen), seen |-> t]
<1>1. \A t : Bucket(l, ip, t) = bucket(t)
  BY DEF Bucket
<1>2. l.ips \in Seq(AddressRow)
  BY DEF Sound, LimiterType, AddressRow
<1>3. \A i \in DOMAIN l.ips : l.ips[i] \in AddressRow /\ l.ips[i].credit <= IPBurst * IPRefill /\ l.ips[i].seen <= now
  BY <1>2 DEF Sound
<1>4. \/ e(now) = fresh(now) /\ e(now + 1) = fresh(now + 1)
      \/ \E i \in DOMAIN l.ips : e(now) = l.ips[i] /\ e(now + 1) = l.ips[i]
  <2>1. Distinct(l.ips)
    BY DEF Sound
  <2>2. CASE \A i \in DOMAIN l.ips : l.ips[i].key # ip
    BY <2>2, EntryFound
  <2>3. ASSUME NEW i \in DOMAIN l.ips, l.ips[i].key = ip
        PROVE  e(now) = l.ips[i] /\ e(now + 1) = l.ips[i]
    BY <2>1, <2>3, EntryFound
  <2> QED BY <2>2, <2>3
<1>5. /\ e(now).credit \in Nat /\ e(now).credit <= IPBurst * IPRefill
      /\ e(now).seen \in Nat /\ e(now).seen <= now
      /\ e(now + 1).credit = e(now).credit
      /\ e(now + 1).seen = e(now).seen \/ (e(now).credit = IPBurst * IPRefill /\ e(now + 1).seen = now + 1)
  <2>1. CASE e(now) = fresh(now) /\ e(now + 1) = fresh(now + 1)
    BY <2>1, Sizes
  <2>2. ASSUME NEW i \in DOMAIN l.ips, e(now) = l.ips[i] /\ e(now + 1) = l.ips[i]
        PROVE  /\ e(now).credit \in Nat /\ e(now).credit <= IPBurst * IPRefill
               /\ e(now).seen \in Nat /\ e(now).seen <= now
               /\ e(now + 1).credit = e(now).credit /\ e(now + 1).seen = e(now).seen
    BY <1>3, <2>2 DEF AddressRow
  <2> QED BY <1>4, <2>1, <2>2
<1> DEFINE credit == e(now).credit
           seen == e(now).seen
           later == e(now + 1).seen
<1>6. /\ credit \in Nat /\ credit <= IPBurst * IPRefill /\ seen \in Nat /\ seen <= now
      /\ later = seen \/ (credit = IPBurst * IPRefill /\ later = now + 1)
  BY <1>5
<1>7. /\ bucket(now).credit = refill(credit, IPBurst, IPRefill, now - seen)
      /\ bucket(now + 1).credit = refill(credit, IPBurst, IPRefill, (now + 1) - later)
  BY <1>5
<1> HIDE DEF e, credit, seen, later
<1>8. /\ bucket(now).credit \in Nat /\ bucket(now).credit <= IPBurst * IPRefill
      /\ bucket(now + 1).credit \in Nat /\ bucket(now + 1).credit <= IPBurst * IPRefill
      /\ bucket(now + 1).credit <= bucket(now).credit + 1
  <2>1. now - seen \in Nat /\ (now + 1) - seen = (now - seen) + 1 /\ (now + 1) - (now + 1) = 0 
    BY <1>6
  <2> DEFINE full == IPBurst * IPRefill
             d == now - seen
  <2>2. full \in Nat
    BY Sizes
  <2>3. CASE later = seen
    BY <1>6, <1>7, <2>1, <2>2, <2>3, Refilled
  <2>4. CASE credit = full /\ later = now + 1
    <3>1. refill(credit, IPBurst, IPRefill, now - seen) = full
      BY <1>6, <2>1, <2>2, <2>4 DEF refill, Least
    <3>2. refill(credit, IPBurst, IPRefill, 0) = full
      BY <1>6, <2>2, <2>4 DEF refill, Least
    <3> QED BY <1>7, <2>1, <2>2, <2>4, <3>1, <3>2
  <2> QED BY <1>6, <2>3, <2>4
<1>9. /\ bucket(now).key = ip /\ bucket(now).seen = now
      /\ bucket(now).credit \in Nat => bucket(now) \in AddressRow
  BY DEF AddressRow
<1> HIDE DEF bucket
<1> QED BY <1>1, <1>8, <1>9 DEF IPCredit

\* The bucket of all, now and a moment later.
LEMMA GlobalFound ==
  ASSUME NEW l, NEW now \in Nat, Sound(l, now)
  PROVE  /\ GlobalCredit(l, now) \in Nat /\ GlobalCredit(l, now) <= GlobalBurst * GlobalRefill
         /\ GlobalCredit(l, now + 1) \in Nat
         /\ GlobalCredit(l, now + 1) <= GlobalBurst * GlobalRefill
         /\ GlobalCredit(l, now + 1) <= GlobalCredit(l, now) + 1
<1> DEFINE credit == l.global.credit
           last == l.global.last
           full == GlobalBurst * GlobalRefill
<1>1. credit \in Nat /\ credit <= full /\ full \in Nat /\ last \in Nat /\ last <= now
  BY Sizes DEF Sound, LimiterType
<1>2. /\ GlobalCredit(l, now) = refill(credit, GlobalBurst, GlobalRefill, now - last)
      /\ GlobalCredit(l, now + 1) = refill(credit, GlobalBurst, GlobalRefill, (now + 1) - last)
  BY DEF GlobalCredit
<1> HIDE DEF credit, last
<1>3. now - last \in Nat /\ (now + 1) - last = (now - last) + 1 /\ (now - last) + 1 \in Nat
  BY <1>1
<1> QED BY <1>1, <1>2, <1>3, Refilled

\* The entries of the tables.
LEMMA SoundRows ==
  ASSUME NEW l, NEW now \in Nat, Sound(l, now)
  PROVE  /\ l \in LimiterType /\ l.ips \in Seq(AddressRow) /\ l.accounts \in Seq(AccountRow)
         /\ l.global.credit \in Nat /\ l.global.last \in Nat
         /\ \A i \in DOMAIN l.ips :
              /\ l.ips[i] \in AddressRow /\ l.ips[i].credit \in Nat /\ l.ips[i].seen \in Nat
              /\ l.ips[i].credit <= IPBurst * IPRefill /\ l.ips[i].seen <= now
         /\ Distinct(l.ips) /\ Distinct(l.accounts)
<1>1. /\ l \in LimiterType /\ l.ips \in Seq(AddressRow) /\ l.accounts \in Seq(AccountRow)
      /\ l.global.credit \in Nat /\ l.global.last \in Nat
  BY DEF Sound, LimiterType, AddressRow, AccountRow
<1>2. \A i \in DOMAIN l.ips : l.ips[i] \in AddressRow
  BY <1>1
<1>3. \A a \in AddressRow : a.credit \in Nat /\ a.seen \in Nat
  BY DEF AddressRow
<1> QED BY <1>1, <1>2, <1>3 DEF Sound

\* Time alone does no harm.
LEMMA LaterSound ==
  ASSUME NEW l, NEW now \in Nat, Sound(l, now)
  PROVE  Sound(l, now + 1)
<1>1. l.global.last \in Nat /\ \A i \in DOMAIN l.ips : l.ips[i].seen \in Nat
  BY SoundRows
<1>2. /\ l.global.last <= now + 1
      /\ \A i \in DOMAIN l.ips : l.ips[i].seen <= now + 1
  BY <1>1 DEF Sound
<1> QED BY <1>2 DEF Sound

\* A cleanup takes no credit away and gives none, when it forgets only full buckets.
LEMMA CleanedSound ==
  ASSUME NEW l, NEW now \in Nat, Sound(l, now)
  PROVE  /\ Sound(Cleaned(l, now), now) /\ Cleaned(l, now).global = l.global
         /\ IPBurst * IPRefill <= EntryTTL =>
              \A ip \in IPs : IPCredit(Cleaned(l, now), ip, now) = IPCredit(l, ip, now)
<1>1. CASE now < l.nextCleanup
  BY <1>1 DEF Cleaned
<1>2. CASE ~(now < l.nextCleanup)
  <2> DEFINE m == Cleaned(l, now)
             ips == Unexpired(l.ips, now)
             accounts == Unexpired(l.accounts, now)
  <2>1. l.ips \in Seq(AddressRow) /\ l.accounts \in Seq(AccountRow) /\ l \in LimiterType
        /\ Distinct(l.ips) /\ Distinct(l.accounts)
    BY SoundRows
  <2>2. m = [l EXCEPT !.ips = ips, !.accounts = accounts, !.nextCleanup = now + CleanupInterval]
    BY <1>2 DEF Cleaned
  <2>3. /\ ips \in Seq(AddressRow) /\ Len(ips) <= Len(l.ips)
        /\ \A n \in DOMAIN ips : \E i \in DOMAIN l.ips : l.ips[i].seen >= now - EntryTTL /\ ips[n] = l.ips[i]
        /\ \A i \in DOMAIN l.ips : l.ips[i].seen >= now - EntryTTL => \E n \in DOMAIN ips : ips[n] = l.ips[i]
        /\ Distinct(l.ips) => Distinct(ips)
    BY <2>1, UnexpiredEntries, Zenon
  <2>4. /\ accounts \in Seq(AccountRow) /\ Len(accounts) <= Len(l.accounts)
        /\ \A n \in DOMAIN accounts : \E i \in DOMAIN l.accounts :
             l.accounts[i].seen >= now - EntryTTL /\ accounts[n] = l.accounts[i]
        /\ \A i \in DOMAIN l.accounts : l.accounts[i].seen >= now - EntryTTL =>
             \E n \in DOMAIN accounts : accounts[n] = l.accounts[i]
        /\ Distinct(l.accounts) => Distinct(accounts)
    BY <2>1, UnexpiredEntries, Zenon
  <2> HIDE DEF ips, accounts
  <2>5. /\ m \in LimiterType /\ m.global = l.global /\ m.ips = ips /\ m.accounts = accounts
    <3>1. m = [global |-> l.global, ips |-> ips, accounts |-> accounts,
               nextCleanup |-> now + CleanupInterval]
      BY <2>1, <2>2 DEF LimiterType
    <3>2. now + CleanupInterval \in Nat /\ l.global \in [credit : Nat, last : Nat]
      BY <2>1, Sizes DEF LimiterType
    <3> QED BY <2>3, <2>4, <3>1, <3>2 DEF LimiterType, AddressRow, AccountRow
  <2> HIDE DEF m
  <2>6. Len(m.ips) <= MaxIPs /\ Len(m.accounts) <= MaxAccounts
    BY <2>1, <2>3, <2>4, <2>5, Sizes DEF Sound
  <2>7. \A n \in DOMAIN m.ips : m.ips[n].credit <= IPBurst * IPRefill /\ m.ips[n].seen <= now
    BY <2>3, <2>5 DEF Sound
  <2>8. Sound(m, now)
    BY <2>1, <2>3, <2>4, <2>5, <2>6, <2>7 DEF Sound
  <2>9. ASSUME IPBurst * IPRefill <= EntryTTL, NEW ip \in IPs
        PROVE  IPCredit(m, ip, now) = IPCredit(l, ip, now)
    <3> DEFINE fresh == [key |-> ip, credit |-> IPBurst * IPRefill, seen |-> now]
               e == Entry(l.ips, ip, fresh)
               f == Entry(m.ips, ip, fresh)
    <3>1. /\ IPCredit(l, ip, now) = refill(e.credit, IPBurst, IPRefill, now - e.seen)
          /\ IPCredit(m, ip, now) = refill(f.credit, IPBurst, IPRefill, now - f.seen)
      BY DEF IPCredit, Bucket
    <3>2. \/ f = e
          \/ f = fresh /\ \E i \in DOMAIN l.ips : e = l.ips[i] /\ ~(l.ips[i].seen >= now - EntryTTL)
      BY <2>1, <2>5, EntryUnexpired DEF ips
    <3>3. fresh.credit = IPBurst * IPRefill /\ fresh.seen = now
      OBVIOUS
    <3> HIDE DEF fresh, e, f
    <3>4. ASSUME NEW i \in DOMAIN l.ips, e = l.ips[i], ~(l.ips[i].seen >= now - EntryTTL), f = fresh
          PROVE  IPCredit(m, ip, now) = IPCredit(l, ip, now)
      <4> DEFINE full == IPBurst * IPRefill
                 d == now - e.seen
      <4>1. e.credit \in Nat /\ e.credit <= full /\ e.seen \in Nat
        BY <3>4, SoundRows
      <4>2. full \in Nat /\ EntryTTL \in Nat
        BY Sizes
      <4>3. d \in Nat /\ d >= full
        BY <2>9, <3>4, <4>1, <4>2
      <4>4. refill(e.credit, IPBurst, IPRefill, d) = full
        BY <4>1, <4>2, <4>3, Refilled
      <4>5. now - now = 0 /\ refill(full, IPBurst, IPRefill, 0) = full
        BY <4>2 DEF refill, Least
      <4> QED BY <3>1, <3>3, <3>4, <4>4, <4>5
    <3> QED BY <3>1, <3>2, <3>4
  <2> QED BY <2>5, <2>8, <2>9 DEF m
<1> QED BY <1>1, <1>2

\* A use of an address.
LEMMA UsedAddress ==
  ASSUME NEW l, NEW now \in Nat, Sound(l, now), NEW entry \in AddressRow,
         entry.credit <= IPBurst * IPRefill, entry.seen = now
  PROVE  /\ Used(l.ips, entry, MaxIPs) \in Seq(AddressRow)
         /\ Len(Used(l.ips, entry, MaxIPs)) <= MaxIPs
         /\ Distinct(Used(l.ips, entry, MaxIPs))
         /\ \A n \in DOMAIN Used(l.ips, entry, MaxIPs) :
              /\ Used(l.ips, entry, MaxIPs)[n].credit <= IPBurst * IPRefill
              /\ Used(l.ips, entry, MaxIPs)[n].seen <= now
         /\ \A m : m.ips = Used(l.ips, entry, MaxIPs) /\ Roomy =>
              \A ip \in IPs : IPCredit(m, ip, now) = IF ip = entry.key THEN entry.credit ELSE IPCredit(l, ip, now)
<1> DEFINE table == l.ips
           U == Used(table, entry, MaxIPs)
<1>1. table \in Seq(AddressRow) /\ Distinct(table) /\ MaxIPs \in Nat \ {0}
  BY Sizes, SoundRows
<1> HIDE DEF table
<1>2. /\ U \in Seq(AddressRow) /\ Len(U) <= MaxIPs
      /\ \E n \in DOMAIN U : U[n] = entry
      /\ \A n \in DOMAIN U :
           \/ U[n] = entry
           \/ \E i \in DOMAIN table : table[i].key # entry.key /\ U[n] = table[i]
      /\ Distinct(table) => Distinct(U)
      /\ Len(Without(table, entry.key)) < MaxIPs =>
           \A i \in DOMAIN table : table[i].key # entry.key => \E n \in DOMAIN U : U[n] = table[i]
  <2>1. UsedWell(AddressRow, table, entry, MaxIPs, U)
    BY <1>1, UsedEntries
  <2> QED BY <2>1 DEF UsedWell
<1> HIDE DEF U
<1>3. \A n \in DOMAIN U : U[n].credit <= IPBurst * IPRefill /\ U[n].seen <= now
  BY <1>2, SoundRows DEF table
<1>4. ASSUME NEW m, m.ips = U, Roomy, NEW ip \in IPs
      PROVE  IPCredit(m, ip, now) = IF ip = entry.key THEN entry.credit ELSE IPCredit(l, ip, now)
  <2> DEFINE fresh == [key |-> ip, credit |-> IPBurst * IPRefill, seen |-> now]
             e == Entry(table, ip, fresh)
             f == Entry(m.ips, ip, fresh)
  <2>1. /\ IPCredit(l, ip, now) = refill(e.credit, IPBurst, IPRefill, now - e.seen)
        /\ IPCredit(m, ip, now) = refill(f.credit, IPBurst, IPRefill, now - f.seen)
    BY DEF IPCredit, Bucket, table
  <2>2. Len(Without(table, entry.key)) < Cardinality(IPs)
    <3>1. \A r \in AddressRow : r.key \in IPs
      BY DEF AddressRow
    <3> QED BY <1>1, <3>1, RoomForAll, AccountsAssumption
  <2>3. Len(Without(table, entry.key)) < MaxIPs
    <3>1. Len(Without(table, entry.key)) \in Nat
      BY <1>1, WithoutEntries
    <3>2. Cardinality(IPs) \in Nat
      BY AccountsAssumption, FS_CardinalityType
    <3> QED BY <1>1, <1>4, <2>2, <3>1, <3>2 DEF Roomy
  <2>4. f = IF ip = entry.key THEN entry ELSE e
    BY <1>1, <1>4, <2>3, EntryUsed DEF U
  <2>5. now - now = 0 /\ entry.credit \in Nat /\ IPBurst * IPRefill \in Nat
    BY Sizes DEF AddressRow
  <2>6. refill(entry.credit, IPBurst, IPRefill, 0) = entry.credit
    BY <2>5, Refilled
  <2> HIDE DEF e, f, fresh
  <2> QED BY <2>1, <2>4, <2>5, <2>6
<1> QED BY <1>1, <1>2, <1>3, <1>4 DEF U, table

\* The account a request finds.
LEMMA AccountFound ==
  ASSUME NEW l, NEW now \in Nat, Sound(l, now), NEW name \in Names
  PROVE  Account(l, name, now) \in AccountRow
<1> DEFINE fresh == [key |-> name, failures |-> 0, seen |-> now]
           e == Entry(l.accounts, name, fresh)
<1>1. fresh \in AccountRow
  BY DEF AccountRow
<1>2. \A i \in DOMAIN l.accounts : l.accounts[i] \in AccountRow
  BY SoundRows
<1> HIDE DEF fresh
<1>3. e \in AccountRow
  BY <1>1, <1>2, EntryFound
<1> HIDE DEF e
<1>4. Account(l, name, now) = [e EXCEPT !.seen = now]
  BY DEF Account, e, fresh
<1> QED BY <1>3, <1>4 DEF AccountRow

\* A use of an account changes nothing but the table of accounts.
LEMMA UsedAccount ==
  ASSUME NEW l, NEW now \in Nat, Sound(l, now), NEW entry \in AccountRow, NEW m,
         m = [l EXCEPT !.accounts = Used(l.accounts, entry, MaxAccounts)]
  PROVE  /\ Sound(m, now) /\ m.global = l.global /\ m.ips = l.ips
<1> DEFINE table == l.accounts
           U == Used(table, entry, MaxAccounts)
<1>1. table \in Seq(AccountRow) /\ Distinct(table) /\ MaxAccounts \in Nat \ {0} /\ l \in LimiterType
  BY Sizes, SoundRows
<1> HIDE DEF table
<1>2. U \in Seq(AccountRow) /\ Len(U) <= MaxAccounts /\ Distinct(U)
  BY <1>1, UsedEntries DEF UsedWell
<1>3. m = [l EXCEPT !.accounts = U]
  BY DEF table
<1> HIDE DEF U
<1>4. m \in LimiterType /\ m.global = l.global /\ m.ips = l.ips /\ m.accounts = U
  BY <1>1, <1>2, <1>3 DEF LimiterType, AccountRow
<1> QED BY <1>2, <1>4 DEF Sound

\* A failed and a successful login leave the buckets alone.
LEMMA FailSound ==
  ASSUME NEW l, NEW now \in Nat, Sound(l, now), NEW name \in Names
  PROVE  /\ Sound(Fail(l, name, now), now)
         /\ Fail(l, name, now).global = l.global /\ Fail(l, name, now).ips = l.ips
<1> DEFINE a == Account(l, name, now)
           b == [a EXCEPT !.failures = Least(MaxFailures, @ + 1)]
<1>1. a \in AccountRow
  BY AccountFound
<1>2. Fail(l, name, now) = [l EXCEPT !.accounts = Used(l.accounts, b, MaxAccounts)]
  BY DEF Fail, LimiterType, SoundRows
<1> HIDE DEF a
<1>3. Least(MaxFailures, a.failures + 1) \in Nat
  BY <1>1, Sizes DEF Least, AccountRow
<1>4. b \in AccountRow
  BY <1>1, <1>3 DEF AccountRow
<1> HIDE DEF b
<1> QED BY <1>2, <1>4, UsedAccount

LEMMA SuccessSound ==
  ASSUME NEW l, NEW now \in Nat, Sound(l, now), NEW name
  PROVE  /\ Sound(Success(l, name), now)
         /\ Success(l, name).global = l.global /\ Success(l, name).ips = l.ips
<1> DEFINE W == Without(l.accounts, name)
           m == Success(l, name)
<1>1. l.accounts \in Seq(AccountRow) /\ Distinct(l.accounts) /\ l \in LimiterType
  BY SoundRows
<1>2. W \in Seq(AccountRow) /\ Len(W) <= Len(l.accounts) /\ Distinct(W)
  BY <1>1, WithoutEntries
<1>3. m = [l EXCEPT !.accounts = W]
  BY DEF Success
<1> HIDE DEF W, m
<1>4. m \in LimiterType /\ m.global = l.global /\ m.ips = l.ips /\ m.accounts = W
  BY <1>1, <1>2, <1>3 DEF LimiterType, AccountRow
<1>5. Len(W) <= MaxAccounts
  BY <1>1, <1>2, Sizes DEF Sound
<1> QED BY <1>2, <1>4, <1>5 DEF Sound, m

\* What an answer takes of a bucket.
Taken(allowed, interval) == IF allowed THEN interval ELSE 0

\* An answer takes one token of each bucket when it lets the request in, and
\* otherwise nothing; the buckets of other addresses stay as they are.
LEMMA AllowSound ==
  ASSUME NEW l, NEW now \in Nat, Sound(l, now), NEW ip \in IPs, NEW name \in Names,
         NEW a, a = Allow(l, ip, name, now)
  PROVE  /\ a.allowed \in BOOLEAN /\ Sound(a.lim, now)
         /\ a.allowed => GlobalCredit(a.lim, now) = GlobalCredit(l, now) - GlobalRefill
         /\ ~a.allowed => GlobalCredit(a.lim, now) = GlobalCredit(l, now)
         /\ Roomy => \A q \in IPs :
              /\ a.allowed /\ q = ip => IPCredit(a.lim, q, now) = IPCredit(l, q, now) - IPRefill
              /\ ~(a.allowed /\ q = ip) => IPCredit(a.lim, q, now) = IPCredit(l, q, now)
<1> DEFINE m == Cleaned(l, now)
           global == refill(m.global.credit, GlobalBurst, GlobalRefill, now - m.global.last)
           bucket == Bucket(m, ip, now)
           account == Account(m, name, now)
           allowed == global >= GlobalRefill /\ bucket.credit >= IPRefill
           left == [bucket EXCEPT !.credit = @ - IPRefill]
           entry == IF allowed THEN left ELSE bucket
           table == Used(m.ips, entry, MaxIPs)
           rest == global - Taken(allowed, GlobalRefill)
           n == [m EXCEPT !.global = [credit |-> rest, last |-> now], !.ips = table]
<1>1. /\ Sound(m, now) /\ m.global = l.global
      /\ IPBurst * IPRefill <= EntryTTL => \A q \in IPs : IPCredit(m, q, now) = IPCredit(l, q, now)
  BY CleanedSound
<1> HIDE DEF m
<1>2. global \in Nat /\ global <= GlobalBurst * GlobalRefill /\ global = GlobalCredit(l, now)
  BY <1>1, GlobalFound DEF GlobalCredit
<1>3. /\ bucket \in AddressRow /\ bucket.key = ip /\ bucket.seen = now
      /\ bucket.credit \in Nat /\ bucket.credit <= IPBurst * IPRefill /\ bucket.credit = IPCredit(m, ip, now)
  BY <1>1, BucketFound DEF IPCredit
<1>4. account \in AccountRow
  BY <1>1, AccountFound
<1>5. a = IF allowed
          THEN [allowed |-> TRUE, delay |-> failureDelay(account.failures),
                lim |-> [m EXCEPT
                           !.global = [credit |-> global - GlobalRefill, last |-> now],
                           !.ips = Used(@, left, MaxIPs),
                           !.accounts = Used(@, account, MaxAccounts)]]
          ELSE [allowed |-> FALSE, delay |-> 0,
                lim |-> [m EXCEPT !.global = [credit |-> global, last |-> now],
                                  !.ips = Used(@, bucket, MaxIPs)]]
  BY DEF Allow, m
<1> HIDE DEF global, bucket, account
<1>6. /\ entry \in AddressRow /\ entry.key = ip /\ entry.seen = now
      /\ entry.credit <= IPBurst * IPRefill
      /\ entry.credit = bucket.credit - Taken(allowed, IPRefill)
  <2>1. CASE allowed
    <3>1. bucket.credit - IPRefill \in Nat /\ bucket.credit - IPRefill <= IPBurst * IPRefill
      BY <1>3, <2>1, Sizes
    <3> QED BY <1>3, <2>1, <3>1 DEF AddressRow, Taken
  <2>2. CASE ~allowed
    BY <1>3, <2>2 DEF Taken
  <2> QED BY <2>1, <2>2
<1>7. rest \in Nat /\ rest <= GlobalBurst * GlobalRefill
  BY <1>2, Sizes DEF Taken
<1> HIDE DEF entry, rest, left
<1>8. /\ table \in Seq(AddressRow) /\ Len(table) <= MaxIPs /\ Distinct(table)
      /\ \A k \in DOMAIN table : table[k].credit <= IPBurst * IPRefill /\ table[k].seen <= now
      /\ \A o : o.ips = table /\ Roomy =>
           \A q \in IPs : IPCredit(o, q, now) = IF q = entry.key THEN entry.credit ELSE IPCredit(m, q, now)
  BY <1>1, <1>6, UsedAddress
<1> HIDE DEF table
<1>9. /\ n \in LimiterType /\ n.global = [credit |-> rest, last |-> now] /\ n.ips = table
      /\ n.accounts = m.accounts
  <2>1. m \in LimiterType
    BY <1>1, SoundRows
  <2>2. [credit |-> rest, last |-> now] \in [credit : Nat, last : Nat]
    BY <1>7
  <2> QED BY <1>8, <2>1, <2>2 DEF LimiterType, AddressRow
<1> HIDE DEF n
<1>10. Sound(n, now)
  <2>1. n.global.credit = rest /\ n.global.last = now
    BY <1>9
  <2> QED BY <1>1, <1>7, <1>8, <1>9, <2>1 DEF Sound
<1>11. a.allowed = allowed /\ Sound(a.lim, now) /\ a.lim.global = n.global /\ a.lim.ips = n.ips
  <2>1. CASE allowed
    <3>1. /\ a.allowed = TRUE
          /\ a.lim = [n EXCEPT !.accounts = Used(m.accounts, account, MaxAccounts)]
      <4>1. entry = left /\ rest = global - GlobalRefill
        BY <2>1 DEF entry, rest, Taken
      <4>2. n = [m EXCEPT !.global = [credit |-> global - GlobalRefill, last |-> now],
                          !.ips = Used(m.ips, left, MaxIPs)]
        BY <4>1 DEF n, table
      <4>3. a = [allowed |-> TRUE, delay |-> failureDelay(account.failures),
                 lim |-> [m EXCEPT
                            !.global = [credit |-> global - GlobalRefill, last |-> now],
                            !.ips = Used(@, left, MaxIPs),
                            !.accounts = Used(@, account, MaxAccounts)]]
        BY <1>5, <2>1
      <4>4. m \in LimiterType
        BY <1>1, SoundRows
      <4> QED BY <4>2, <4>3, <4>4 DEF LimiterType
    <3>2. a.lim = [n EXCEPT !.accounts = Used(n.accounts, account, MaxAccounts)]
      BY <1>9, <3>1
    <3>3. Sound(a.lim, now) /\ a.lim.global = n.global /\ a.lim.ips = n.ips
      BY <1>4, <1>10, <3>2, UsedAccount
    <3> QED BY <2>1, <3>1, <3>3
  <2>2. CASE ~allowed
    <3>1. a.allowed = FALSE /\ a.lim = n
      <4>1. entry = bucket /\ rest = global
        BY <1>2, <2>2 DEF entry, rest, Taken
      <4>2. n = [m EXCEPT !.global = [credit |-> global, last |-> now],
                          !.ips = Used(m.ips, bucket, MaxIPs)]
        BY <4>1 DEF n, table
      <4>3. a = [allowed |-> FALSE, delay |-> 0,
                 lim |-> [m EXCEPT !.global = [credit |-> global, last |-> now],
                                   !.ips = Used(@, bucket, MaxIPs)]]
        BY <1>5, <2>2
      <4>4. m \in LimiterType
        BY <1>1, SoundRows
      <4> QED BY <4>2, <4>3, <4>4 DEF LimiterType
    <3> QED BY <1>10, <2>2, <3>1
  <2> QED BY <2>1, <2>2
<1>12. GlobalCredit(a.lim, now) = rest
  <2>1. a.lim.global.credit = rest /\ a.lim.global.last = now /\ now - now = 0
    BY <1>9, <1>11
  <2>2. refill(rest, GlobalBurst, GlobalRefill, 0) = rest
    BY <1>7, Sizes, Refilled
  <2> QED BY <2>1, <2>2 DEF GlobalCredit
<1>13. /\ a.allowed => rest = GlobalCredit(l, now) - GlobalRefill
       /\ ~a.allowed => rest = GlobalCredit(l, now)
  <2>1. /\ allowed => rest = global - GlobalRefill
        /\ ~allowed => rest = global
    BY <1>2 DEF rest, Taken
  <2> QED BY <1>2, <1>11, <2>1
<1>14. ASSUME Roomy, NEW q \in IPs
       PROVE  /\ a.allowed /\ q = ip => IPCredit(a.lim, q, now) = IPCredit(l, q, now) - IPRefill
              /\ ~(a.allowed /\ q = ip) => IPCredit(a.lim, q, now) = IPCredit(l, q, now)
  <2>1. IPCredit(a.lim, q, now) = IF q = ip THEN entry.credit ELSE IPCredit(m, q, now)
    BY <1>6, <1>8, <1>9, <1>11, <1>14
  <2>2. IPCredit(m, q, now) = IPCredit(l, q, now)
    BY <1>1, <1>14 DEF Roomy
  <2>3. /\ allowed => entry.credit = bucket.credit - IPRefill
        /\ ~allowed => entry.credit = bucket.credit
    BY <1>3, <1>6 DEF Taken
  <2> QED BY <1>3, <1>11, <2>1, <2>2, <2>3
<1> QED BY <1>11, <1>12, <1>13, <1>14

\* The requests whose mark lies between two times.
Between(at, from, to) == {r \in Requests : at[r] \in from .. to}

\* The buckets there were in an interval, when a new one comes at each of some times.
Lives(starts, from, to) == 1 + Cardinality({k \in DOMAIN starts : starts[k] \in from .. to})

\* In any interval no more requests are marked than the buckets held and gained, less
\* what the last still holds when the interval ends now.
Covered(at, starts, now, burst, interval, credit) ==
  \A from, to \in 0 .. now : from <= to =>
    Cardinality(Between(at, from, to)) * interval + (IF to = now THEN credit ELSE 0)
      <= (Lives(starts, from, to) * burst) * interval + (to - from)

LEMMA LivesType ==
  ASSUME NEW starts \in Seq(Nat), NEW from, NEW to
  PROVE  Lives(starts, from, to) \in Nat \ {0}
<1> DEFINE S == {k \in DOMAIN starts : starts[k] \in from .. to}
<1>1. IsFiniteSet(DOMAIN starts)
  BY FS_Interval
<1>2. S \in SUBSET DOMAIN starts
  OBVIOUS
<1>3. Cardinality(S) \in Nat
  BY <1>1, <1>2, FS_Subset, FS_CardinalityType
<1> HIDE DEF S
<1>4. 1 + Cardinality(S) \in Nat \ {0}
  BY <1>3
<1> QED BY <1>4 DEF Lives, S

LEMMA BetweenFinite ==
  ASSUME NEW at, NEW from, NEW to
  PROVE  IsFiniteSet(Between(at, from, to)) /\ Cardinality(Between(at, from, to)) \in Nat
<1>1. Between(at, from, to) \in SUBSET Requests
  BY DEF Between
<1> QED BY <1>1, AccountsAssumption, FS_Subset, FS_CardinalityType

\* Marks may be lost.
LEMMA CoveredFewer ==
  ASSUME NEW at, NEW starts \in Seq(Nat), NEW later, NEW now \in Nat, NEW burst \in Nat, NEW interval \in Nat,
         NEW credit \in Nat,
         Covered(at, starts, now, burst, interval, credit),
         \A r \in Requests : later[r] = at[r] \/ later[r] = Never
  PROVE  Covered(later, starts, now, burst, interval, credit)
<1> SUFFICES ASSUME NEW from \in 0 .. now, NEW to \in 0 .. now, from <= to
             PROVE  Cardinality(Between(later, from, to)) * interval + (IF to = now THEN credit ELSE 0)
                      <= (Lives(starts, from, to) * burst) * interval + (to - from)
  BY DEF Covered
<1> DEFINE c == Cardinality(Between(at, from, to))
           d == Cardinality(Between(later, from, to))
<1>1. Between(later, from, to) \in SUBSET Between(at, from, to)
  BY DEF Between
<1>2. c \in Nat /\ d \in Nat /\ d <= c
  BY <1>1, BetweenFinite, FS_Subset
<1>3. c * interval + (IF to = now THEN credit ELSE 0) <= (Lives(starts, from, to) * burst) * interval + (to - from)
  BY DEF Covered
<1> HIDE DEF c, d
<1>0. Lives(starts, from, to) \in Nat
  BY LivesType
<1>4. /\ d * interval <= c * interval /\ d * interval \in Nat /\ c * interval \in Nat
      /\ (Lives(starts, from, to) * burst) * interval \in Nat
  BY <1>0, <1>2
<1> DEFINE cc == c * interval
           dd == d * interval
           bb == (Lives(starts, from, to) * burst) * interval
<1>5. cc + (IF to = now THEN credit ELSE 0) <= bb + (to - from) /\ dd <= cc /\ dd \in Nat /\ cc \in Nat /\ bb \in Nat
  BY <1>3, <1>4
<1> HIDE DEF cc, dd, bb
<1>6. dd + (IF to = now THEN credit ELSE 0) <= bb + (to - from)
  BY <1>5
<1> QED BY <1>6 DEF c, d, cc, dd, bb

\* Any number of buckets hold at least what one holds.
LEMMA OneLife ==
  ASSUME NEW lives \in Nat \ {0}, NEW burst \in Nat, NEW interval \in Nat
  PROVE  burst * interval <= (lives * burst) * interval
<1>1. \A a, b, i \in Nat : a <= b => a * i <= b * i
  OBVIOUS
<1>2. lives * burst \in Nat /\ burst <= lives * burst
  <2>1. 1 * burst <= lives * burst
    BY <1>1
  <2> QED BY <2>1
<1> DEFINE all == lives * burst
<1>3. all \in Nat /\ burst <= all
  BY <1>2
<1> HIDE DEF all
<1>4. burst * interval <= all * interval
  BY <1>1, <1>3
<1> QED BY <1>4 DEF all

\* Time passes: the bucket gains at most one unit.
LEMMA CoveredLater ==
  ASSUME NEW at, NEW starts \in Seq(Nat), NEW now \in Nat, NEW burst \in Nat, NEW interval \in Nat,
         NEW credit \in Nat, NEW later \in Nat,
         \A r \in Requests : at[r] \in Int /\ at[r] <= now,
         \A k \in DOMAIN starts : starts[k] <= now,
         Covered(at, starts, now, burst, interval, credit),
         later <= credit + 1, later <= burst * interval
  PROVE  Covered(at, starts, now + 1, burst, interval, later)
<1> SUFFICES ASSUME NEW from \in 0 .. now + 1, NEW to \in 0 .. now + 1, from <= to
             PROVE  Cardinality(Between(at, from, to)) * interval + (IF to = now + 1 THEN later ELSE 0)
                      <= (Lives(starts, from, to) * burst) * interval + (to - from)
  BY DEF Covered
<1> DEFINE c(t) == Cardinality(Between(at, from, t)) * interval
           b(t) == (Lives(starts, from, t) * burst) * interval
<1>1. \A t : c(t) \in Nat /\ b(t) \in Nat
  <2> SUFFICES ASSUME NEW t PROVE c(t) \in Nat /\ b(t) \in Nat
    OBVIOUS
  <2>1. Cardinality(Between(at, from, t)) \in Nat /\ Lives(starts, from, t) \in Nat
    BY BetweenFinite, LivesType
  <2> QED BY <2>1
<1>2. from <= now => \A t \in 0 .. now : from <= t =>
        c(t) + (IF t = now THEN credit ELSE 0) <= b(t) + (t - from)
  BY DEF Covered
<1>3. CASE to <= now
  <2>1. to \in 0 .. now /\ from <= now /\ to # now + 1
    BY <1>3
  <2>2. /\ c(to) + (IF to = now THEN credit ELSE 0) <= b(to) + (to - from)
        /\ c(to) \in Nat /\ b(to) \in Nat
    BY <1>1, <1>2, <2>1
  <2> HIDE DEF c, b
  <2>3. c(to) + (IF to = now + 1 THEN later ELSE 0) <= b(to) + (to - from)
    BY <2>1, <2>2
  <2> QED BY <2>3 DEF c, b
<1>4. CASE to = now + 1 /\ from <= now
  <2>1. Between(at, from, to) = Between(at, from, now)
    <3>1. \A r \in Requests : at[r] \in from .. to <=> at[r] \in from .. now
      BY <1>4
    <3> QED BY <3>1 DEF Between
  <2>2. Lives(starts, from, to) = Lives(starts, from, now)
    <3>1. \A k \in DOMAIN starts : starts[k] \in from .. to <=> starts[k] \in from .. now
      BY <1>4
    <3>2. {k \in DOMAIN starts : starts[k] \in from .. to} = {k \in DOMAIN starts : starts[k] \in from .. now}
      BY <3>1, Zenon
    <3> QED BY <3>2, Zenon DEF Lives
  <2>3. c(to) = c(now) /\ b(to) = b(now)
    BY <2>1, <2>2, Zenon
  <2>4. c(now) + credit <= b(now) + (now - from) /\ c(now) \in Nat /\ b(now) \in Nat
    BY <1>1, <1>2, <1>4
  <2> HIDE DEF c, b
  <2>5. c(to) + (IF to = now + 1 THEN later ELSE 0) <= b(to) + (to - from)
    BY <1>4, <2>3, <2>4
  <2> QED BY <2>5 DEF c, b
<1>5. CASE from = now + 1
  <2>1. to = now + 1
    BY <1>5
  <2>2. Between(at, from, to) = {}
    <3>1. \A r \in Requests : at[r] \notin from .. to
      BY <1>5
    <3> QED BY <3>1 DEF Between
  <2>3. c(to) = 0
    BY <2>2, FS_EmptySet
  <2>4. burst * interval <= b(to)
    BY LivesType, OneLife
  <2>5. burst * interval \in Nat /\ b(to) \in Nat
    BY <1>1
  <2> HIDE DEF b, c
  <2>6. c(to) + later <= b(to) + (to - from)
    BY <1>5, <2>1, <2>3, <2>4, <2>5
  <2> QED BY <2>1, <2>6 DEF b, c
<1> QED BY <1>3, <1>4, <1>5

\* A request is marked now: it takes one token.

LEMMA CoveredTaken ==
  ASSUME NEW at, NEW starts \in Seq(Nat), NEW later, NEW r \in Requests, NEW now \in Nat, NEW burst \in Nat,
         NEW interval \in Nat, NEW credit \in Nat, credit >= interval,
         Covered(at, starts, now, burst, interval, credit),
         at[r] = Never, later[r] = now, \A q \in Requests \ {r} : later[q] = at[q]
  PROVE  Covered(later, starts, now, burst, interval, credit - interval)
<1> SUFFICES ASSUME NEW from \in 0 .. now, NEW to \in 0 .. now, from <= to
             PROVE  Cardinality(Between(later, from, to)) * interval
                       + (IF to = now THEN credit - interval ELSE 0)
                      <= (Lives(starts, from, to) * burst) * interval + (to - from)
  BY DEF Covered
<1> DEFINE S == Between(at, from, to)
           T == Between(later, from, to)
           c == Cardinality(S)
           cc == c * interval
           bb == (Lives(starts, from, to) * burst) * interval
<1>1. r \notin S /\ IsFiniteSet(S) /\ c \in Nat
  <2>1. r \notin S
    BY DEF Between
  <2> QED BY <2>1, BetweenFinite
<1>2. cc + (IF to = now THEN credit ELSE 0) <= bb + (to - from) /\ cc \in Nat /\ bb \in Nat
  <2>1. Lives(starts, from, to) \in Nat
    BY LivesType
  <2>2. cc \in Nat /\ bb \in Nat
    BY <1>1, <2>1
  <2>3. cc + (IF to = now THEN credit ELSE 0) <= bb + (to - from)
    BY DEF Covered
  <2> QED BY <2>2, <2>3
<1>3. CASE to = now
  <2>1. T = S \cup {r}
    BY <1>3 DEF Between
  <2>2. Cardinality(T) = c + 1
    BY <1>1, <2>1, FS_AddElement
  <2>3. (c + 1) * interval = cc + interval
    BY <1>1
  <2> HIDE DEF S, T, c, cc, bb
  <2>4. (cc + interval) + (credit - interval) <= bb + (to - from)
    BY <1>2, <1>3
  <2> QED BY <1>3, <2>2, <2>3, <2>4 DEF T, bb
<1>4. CASE to # now
  <2>1. later[r] \notin from .. to
    BY <1>4
  <2>2. T = S
    BY <2>1 DEF Between
  <2> QED BY <1>2, <1>4, <2>2
<1> QED BY <1>3, <1>4


\* A new bucket covers no request at all.
LEMMA CoveredNone ==
  ASSUME NEW at, NEW now \in Nat, NEW burst \in Nat, NEW interval \in Nat,
         \A r \in Requests : at[r] = Never
  PROVE  Covered(at, <<>>, now, burst, interval, burst * interval)
<1> SUFFICES ASSUME NEW from \in 0 .. now, NEW to \in 0 .. now, from <= to
             PROVE  Cardinality(Between(at, from, to)) * interval
                       + (IF to = now THEN burst * interval ELSE 0)
                      <= (Lives(<<>>, from, to) * burst) * interval + (to - from)
  BY DEF Covered
<1>1. Between(at, from, to) = {}
  BY DEF Between
<1>2. Cardinality(Between(at, from, to)) = 0 /\ 0 * interval = 0
  BY <1>1, FS_EmptySet
<1>3. burst * interval \in Nat /\ burst * interval <= (Lives(<<>>, from, to) * burst) * interval
  <2>1. <<>> \in Seq(Nat)
    OBVIOUS
  <2>2. Lives(<<>>, from, to) \in Nat \ {0}
    BY <2>1, LivesType
  <2>3. burst * interval <= (Lives(<<>>, from, to) * burst) * interval
    BY <2>2, OneLife
  <2> QED BY <2>3
<1> DEFINE bb == burst * interval
           held == (Lives(<<>>, from, to) * burst) * interval
<1>4. held \in Nat
  <2>1. <<>> \in Seq(Nat)
    OBVIOUS
  <2>2. Lives(<<>>, from, to) \in Nat
    BY <2>1, LivesType
  <2> QED BY <2>2
<1>5. bb \in Nat /\ bb <= held
  BY <1>3
<1> HIDE DEF bb, held
<1>6. 0 + (IF to = now THEN bb ELSE 0) <= held + (to - from)
  BY <1>4, <1>5
<1> QED BY <1>2, <1>6 DEF bb, held

\* A new bucket takes the place of the old one, which covered what it let in.
LEMMA CoveredAnew ==
  ASSUME NEW at, NEW starts \in Seq(Nat), NEW now \in Nat, NEW burst \in Nat,
         NEW interval \in Nat, NEW credit \in Nat,
         Covered(at, starts, now, burst, interval, credit)
  PROVE  Covered(at, Append(starts, now), now, burst, interval, burst * interval)
<1> DEFINE after == Append(starts, now)
<1> SUFFICES ASSUME NEW from \in 0 .. now, NEW to \in 0 .. now, from <= to
             PROVE  Cardinality(Between(at, from, to)) * interval
                       + (IF to = now THEN burst * interval ELSE 0)
                      <= (Lives(after, from, to) * burst) * interval + (to - from)
  BY DEF Covered
<1> DEFINE n == Len(starts)
           S == {k \in DOMAIN starts : starts[k] \in from .. to}
           T == {k \in DOMAIN after : after[k] \in from .. to}
           L == Lives(starts, from, to)
           M == Lives(after, from, to)
           c == Cardinality(Between(at, from, to)) * interval
           b == (L * burst) * interval
           one == burst * interval
<1>1. /\ n \in Nat /\ DOMAIN starts = 1 .. n /\ DOMAIN after = 1 .. n + 1
      /\ after[n + 1] = now /\ \A k \in 1 .. n : after[k] = starts[k]
  OBVIOUS
<1>2. /\ c \in Nat /\ b \in Nat /\ one \in Nat /\ L \in Nat
      /\ c + (IF to = now THEN credit ELSE 0) <= b + (to - from)
  <2>1. L \in Nat /\ Cardinality(Between(at, from, to)) \in Nat
    BY LivesType, BetweenFinite
  <2> QED BY <2>1 DEF Covered
<1> HIDE DEF after
<1>3. CASE to = now
  <2>1. T = S \cup {n + 1} /\ n + 1 \notin S
    BY <1>1, <1>3
  <2>2. IsFiniteSet(S)
    <3>1. IsFiniteSet(1 .. n) /\ S \in SUBSET (1 .. n)
      BY <1>1, FS_Interval
    <3> QED BY <3>1, FS_Subset
  <2>3. Cardinality(T) = Cardinality(S) + 1 /\ Cardinality(S) \in Nat
    BY <2>1, <2>2, FS_AddElement, FS_CardinalityType
  <2>4. M = L + 1
    <3>1. M = 1 + Cardinality(T) /\ L = 1 + Cardinality(S)
      BY Zenon DEF Lives
    <3> HIDE DEF M, L, S, T
    <3> QED BY <2>3, <3>1
  <2>5. (M * burst) * interval = b + one
    <3> HIDE DEF M, L
    <3>1. M * burst = L * burst + burst
      BY <1>2, <2>4
    <3>2. \A x, y \in Nat : (x + y) * interval = x * interval + y * interval
      OBVIOUS
    <3>3. L * burst \in Nat
      BY <1>2
    <3> QED BY <3>1, <3>2, <3>3
  <2> HIDE DEF M, L, S, T, c, b, one
  <2>6. c + one <= (b + one) + (to - from)
    BY <1>2, <1>3
  <2> QED BY <1>3, <2>5, <2>6 DEF c, one, M, after
<1>4. CASE to # now
  <2>1. T = S
    BY <1>1, <1>4
  <2>2. M = L
    BY <2>1, Zenon DEF Lives
  <2>3. c + 0 <= b + (to - from)
    <3> HIDE DEF M, L, S, T, c, b, one
    <3> QED BY <1>2, <1>4
  <2> QED BY <1>4, <2>2, <2>3, Zenon DEF after
<1> QED BY <1>3, <1>4

\* What a covered interval means in requests.
LEMMA CoveredCount ==
  ASSUME NEW at, NEW starts \in Seq(Nat), NEW now \in Nat, NEW size \in Nat,
         NEW interval \in Nat \ {0}, NEW credit \in Nat,
         Covered(at, starts, now, size, interval, credit),
         NEW from \in 0 .. now, NEW to \in 0 .. now, from <= to
  PROVE  Cardinality(Between(at, from, to))
           <= Lives(starts, from, to) * size + (to - from) \div interval
<1> DEFINE burst == Lives(starts, from, to) * size
           c == Cardinality(Between(at, from, to))
           d == to - from
           q == d \div interval
<1>1. c \in Nat /\ d \in Nat /\ burst \in Nat
  BY BetweenFinite, LivesType
<1>2. c * interval <= burst * interval + d
  <2>1. c * interval + (IF to = now THEN credit ELSE 0) <= burst * interval + d
    BY DEF Covered
  <2>2. c * interval \in Nat /\ burst * interval \in Nat
    BY <1>1
  <2> QED BY <1>1, <2>1, <2>2
<1> HIDE DEF c, d, burst
<1>3. q \in Nat /\ d < (q + 1) * interval
  BY <1>1
<1> HIDE DEF q
<1>4. c * interval < (burst + q + 1) * interval
  <2>1. (burst + q + 1) * interval = burst * interval + (q + 1) * interval
    BY <1>1, <1>3
  <2> DEFINE x == c * interval
             y == burst * interval
             z == (q + 1) * interval
  <2>2. x \in Nat /\ y \in Nat /\ z \in Nat /\ x <= y + d /\ d < z
    BY <1>1, <1>2, <1>3
  <2> HIDE DEF x, y, z
  <2>3. x < y + z
    BY <1>1, <2>2
  <2> QED BY <2>1, <2>3 DEF x, y, z
<1>5. c < burst + q + 1
  <2>1. \A a, b \in Nat : b <= a => b * interval <= a * interval
    OBVIOUS
  <2>2. burst + q + 1 \in Nat
    BY <1>1, <1>3
  <2> DEFINE m == burst + q + 1
             x == c * interval
             y == m * interval
  <2>3. x \in Nat /\ y \in Nat /\ x < y /\ (m <= c => y <= x)
    BY <1>1, <1>4, <2>1, <2>2
  <2> HIDE DEF x, y, m
  <2>4. ~(m <= c)
    BY <2>3
  <2> QED BY <1>1, <2>2, <2>4 DEF m
<1> QED BY <1>1, <1>3, <1>5 DEF c, d, q, burst

----------------------------------------------------------------------------
(* The limiter within the broker. *)

\* When requests were let in, and those of one address.
LetIn == [r \in Requests |-> req[r].at]
LetInFrom(ip) == [r \in Requests |-> IF req[r].ip = ip THEN req[r].at ELSE Never]

Marked ==
  /\ restarts \in Seq(Nat) /\ \A k \in DOMAIN restarts : restarts[k] <= clock
  /\ \A r \in Requests :
       /\ req[r].at \in Nat \cup {Never} /\ req[r].at <= clock
       /\ req[r].pc = "new" => req[r].at = Never
       /\ req[r].kind \in {"start", "confirm", "login"} => req[r].name \in Names

\* What was let in and what the buckets still hold make up what they held and gained.
LimiterInv ==
  /\ Marked /\ Sound(lim, clock)
  /\ Covered(LetIn, restarts, clock, GlobalBurst, GlobalRefill, GlobalCredit(lim, clock))
  /\ Roomy => \A ip \in IPs :
       Covered(LetInFrom(ip), restarts, clock, IPBurst, IPRefill, IPCredit(lim, ip, clock))

LEMMA LimiterBegun == Init => LimiterInv
<1> SUFFICES ASSUME Init PROVE LimiterInv
  OBVIOUS
<1>1. clock = 0 /\ lim = NewLimiter(0) /\ restarts = <<>>
  BY DEF Init
<1>2. \A r \in Requests :
        req[r].pc = "new" /\ req[r].at = Never /\ req[r].kind = "none"
  BY DEF Init, Idle
<1>3. Marked
  BY <1>1, <1>2 DEF Marked
<1>4. /\ Sound(lim, clock) /\ GlobalCredit(lim, clock) = GlobalBurst * GlobalRefill
      /\ \A ip \in IPs : IPCredit(lim, ip, clock) = IPBurst * IPRefill
  BY <1>1, NewSound
<1>5. \A r \in Requests : LetIn[r] = Never /\ \A ip : LetInFrom(ip)[r] = Never
  BY <1>2 DEF LetIn, LetInFrom
<1>6. Covered(LetIn, restarts, clock, GlobalBurst, GlobalRefill, GlobalBurst * GlobalRefill)
  BY <1>1, <1>5, CoveredNone, Sizes
<1>7. ASSUME NEW ip \in IPs
      PROVE  Covered(LetInFrom(ip), restarts, clock, IPBurst, IPRefill, IPBurst * IPRefill)
  BY <1>1, <1>5, CoveredNone, Sizes
<1> QED BY <1>3, <1>4, <1>6, <1>7 DEF LimiterInv

\* A step that lets nobody in: requests keep their mark or lose it, the buckets stay.
LEMMA NobodyLetIn ==
  ASSUME LimiterInv, clock \in Nat, UNCHANGED <<clock, restarts>>, Sound(lim', clock),
         lim'.global = lim.global, lim'.ips = lim.ips,
         \A r \in Requests :
           /\ \/ req'[r].at = req[r].at /\ req'[r].ip = req[r].ip
              \/ req'[r].at = Never
           /\ req'[r].pc = "new" => req[r].pc = "new"
           /\ req'[r].kind \in {"start", "confirm", "login"} => req'[r].name \in Names
  PROVE  LimiterInv'
<1>0. restarts \in Seq(Nat)
  BY DEF LimiterInv, Marked
<1>1. Marked'
  BY DEF LimiterInv, Marked
<1>2. /\ GlobalCredit(lim', clock') = GlobalCredit(lim, clock)
      /\ \A ip : IPCredit(lim', ip, clock') = IPCredit(lim, ip, clock)
  BY DEF GlobalCredit, IPCredit, Bucket
<1>3. /\ GlobalCredit(lim, clock) \in Nat
      /\ \A ip \in IPs : IPCredit(lim, ip, clock) \in Nat
  BY GlobalFound, BucketFound DEF LimiterInv, IPCredit
<1>4. Covered(LetIn', restarts', clock', GlobalBurst, GlobalRefill, GlobalCredit(lim', clock'))
  <2>1. \A r \in Requests : LetIn'[r] = LetIn[r] \/ LetIn'[r] = Never
    BY DEF LetIn
  <2>2. Covered(LetIn', restarts, clock, GlobalBurst, GlobalRefill, GlobalCredit(lim, clock))
    BY <1>0, <1>3, <2>1, CoveredFewer, Sizes DEF LimiterInv
  <2> QED BY <1>2, <2>2
<1>5. ASSUME Roomy, NEW ip \in IPs
      PROVE  Covered(LetInFrom(ip)', restarts', clock', IPBurst, IPRefill, IPCredit(lim', ip, clock'))
  <2>1. \A r \in Requests : LetInFrom(ip)'[r] = LetInFrom(ip)[r] \/ LetInFrom(ip)'[r] = Never
    BY DEF LetInFrom
  <2>2. Covered(LetInFrom(ip), restarts, clock, IPBurst, IPRefill, IPCredit(lim, ip, clock))
    BY <1>5 DEF LimiterInv
  <2>3. Covered(LetInFrom(ip)', restarts, clock, IPBurst, IPRefill, IPCredit(lim, ip, clock))
    BY <1>0, <1>3, <2>1, <2>2, CoveredFewer, Sizes
  <2> QED BY <1>2, <2>3
<1> QED BY <1>1, <1>4, <1>5 DEF LimiterInv, Roomy

\* A request arrives: it takes a token of both buckets, or nothing.
LEMMA ArriveLimited ==
  ASSUME AccountsInv, LimiterInv, NEW r \in Requests, Arrive(r)
  PROVE  LimiterInv'
<1>1. PICK kind \in {"start", "confirm", "login"}, n \in Names, ip \in IPs :
        Admit(r, kind, n, ip, Allow(lim, ip, n, clock))
  BY DEF Arrive
<1> DEFINE a == Allow(lim, ip, n, clock)
<1>2. clock \in Nat /\ clock' = clock /\ req[r].pc = "new" /\ req \in [Requests -> Request]
      /\ Sound(lim, clock) /\ lim' = a.lim /\ restarts \in Seq(Nat) /\ restarts' = restarts
  BY <1>1 DEF Arrive, Admit, AccountsInv, Types, LimiterInv, Marked
<1>3. /\ a.allowed \in BOOLEAN /\ Sound(a.lim, clock)
      /\ a.allowed => GlobalCredit(a.lim, clock) = GlobalCredit(lim, clock) - GlobalRefill
      /\ ~a.allowed => GlobalCredit(a.lim, clock) = GlobalCredit(lim, clock)
      /\ Roomy => \A q \in IPs :
           /\ a.allowed /\ q = ip => IPCredit(a.lim, q, clock) = IPCredit(lim, q, clock) - IPRefill
           /\ ~(a.allowed /\ q = ip) => IPCredit(a.lim, q, clock) = IPCredit(lim, q, clock)
  BY <1>2, AllowSound
<1> HIDE DEF a
<1>4. /\ GlobalCredit(lim, clock) \in Nat /\ GlobalCredit(a.lim, clock) \in Nat
      /\ \A q \in IPs : IPCredit(lim, q, clock) \in Nat /\ IPCredit(a.lim, q, clock) \in Nat
  BY <1>2, <1>3, GlobalFound, BucketFound DEF IPCredit
<1>5. req[r].at = Never
  BY <1>2 DEF LimiterInv, Marked
<1>6. ASSUME a.allowed, req' = [req EXCEPT ![r] = Entered(kind, n, ip, clock + a.delay)]
      PROVE  LimiterInv'
  <2> DEFINE e == Entered(kind, n, ip, clock + a.delay)
  <2>1. e.at = clock /\ e.ip = ip /\ e.pc = "waiting" /\ e.name = n
    BY DEF Entered, Idle
  <2>2. req' = [req EXCEPT ![r] = e]
    BY <1>6
  <2> HIDE DEF e
  <2>3. \A q \in Requests : req'[q] = IF q = r THEN e ELSE req[q]
    BY <1>2, <2>2
  <2>4. Marked'
    BY <1>2, <2>1, <2>3 DEF LimiterInv, Marked
  <2>5. Covered(LetIn', restarts', clock', GlobalBurst, GlobalRefill, GlobalCredit(lim', clock'))
    <3>1. LetIn[r] = Never /\ LetIn'[r] = clock /\ \A q \in Requests \ {r} : LetIn'[q] = LetIn[q]
      BY <1>5, <2>1, <2>3 DEF LetIn
    <3>2. /\ GlobalCredit(lim', clock') = GlobalCredit(lim, clock) - GlobalRefill
          /\ GlobalCredit(lim, clock) >= GlobalRefill
      BY <1>2, <1>3, <1>4, <1>6, Sizes
    <3>3. Covered(LetIn', restarts, clock, GlobalBurst, GlobalRefill, GlobalCredit(lim, clock) - GlobalRefill)
      BY <1>2, <1>4, <3>1, <3>2, CoveredTaken, Sizes DEF LimiterInv
    <3> QED BY <1>2, <3>2, <3>3
  <2>6. ASSUME Roomy, NEW q \in IPs
        PROVE  Covered(LetInFrom(q)', restarts', clock', IPBurst, IPRefill, IPCredit(lim', q, clock'))
    <3>1. Covered(LetInFrom(q), restarts, clock, IPBurst, IPRefill, IPCredit(lim, q, clock))
      BY <2>6 DEF LimiterInv
    <3>2. CASE q = ip
      <4>1. LetInFrom(q)[r] = Never /\ LetInFrom(q)'[r] = clock
            /\ \A p \in Requests \ {r} : LetInFrom(q)'[p] = LetInFrom(q)[p]
        BY <1>5, <2>1, <2>3, <3>2 DEF LetInFrom
      <4>2. /\ IPCredit(lim', q, clock') = IPCredit(lim, q, clock) - IPRefill
            /\ IPCredit(lim, q, clock) >= IPRefill
        BY <1>2, <1>3, <1>4, <1>6, <2>6, <3>2, Sizes
      <4>3. Covered(LetInFrom(q)', restarts, clock, IPBurst, IPRefill, IPCredit(lim, q, clock) - IPRefill)
        BY <1>2, <1>4, <3>1, <4>1, <4>2, CoveredTaken, Sizes
      <4> QED BY <1>2, <4>2, <4>3
    <3>3. CASE q # ip
      <4>1. \A p \in Requests : LetInFrom(q)'[p] = LetInFrom(q)[p] \/ LetInFrom(q)'[p] = Never
        BY <1>5, <2>1, <2>3, <3>3 DEF LetInFrom
      <4>2. IPCredit(lim', q, clock') = IPCredit(lim, q, clock)
        BY <1>2, <1>3, <1>4, <2>6, <3>3
      <4>3. Covered(LetInFrom(q)', restarts, clock, IPBurst, IPRefill, IPCredit(lim, q, clock))
        BY <1>2, <1>4, <3>1, <4>1, CoveredFewer, Sizes
      <4> QED BY <1>2, <4>2, <4>3
    <3> QED BY <3>2, <3>3
  <2> QED BY <1>2, <1>3, <2>4, <2>5, <2>6 DEF LimiterInv, Roomy
<1>7. ASSUME ~a.allowed, req' = [req EXCEPT ![r] = Idle("done", Nobody, Never)]
      PROVE  LimiterInv'
  <2> DEFINE e == Idle("done", Nobody, Never)
  <2>1. e.at = Never /\ e.pc = "done" /\ e.kind = "none"
    BY DEF Idle
  <2>2. req' = [req EXCEPT ![r] = e]
    BY <1>7
  <2> HIDE DEF e
  <2>3. \A q \in Requests : req'[q] = IF q = r THEN e ELSE req[q]
    BY <1>2, <2>2
  <2>4. Marked'
    BY <1>2, <2>1, <2>3 DEF LimiterInv, Marked
  <2>5. Covered(LetIn', restarts', clock', GlobalBurst, GlobalRefill, GlobalCredit(lim', clock'))
    <3>1. \A q \in Requests : LetIn'[q] = LetIn[q] \/ LetIn'[q] = Never
      BY <2>1, <2>3 DEF LetIn
    <3>2. GlobalCredit(lim', clock') = GlobalCredit(lim, clock)
      BY <1>2, <1>3, <1>4, <1>7
    <3>3. Covered(LetIn', restarts, clock, GlobalBurst, GlobalRefill, GlobalCredit(lim, clock))
      BY <1>2, <1>4, <3>1, CoveredFewer, Sizes DEF LimiterInv
    <3> QED BY <1>2, <3>2, <3>3
  <2>6. ASSUME Roomy, NEW q \in IPs
        PROVE  Covered(LetInFrom(q)', restarts', clock', IPBurst, IPRefill, IPCredit(lim', q, clock'))
    <3>1. Covered(LetInFrom(q), restarts, clock, IPBurst, IPRefill, IPCredit(lim, q, clock))
      BY <2>6 DEF LimiterInv
    <3>2. \A p \in Requests : LetInFrom(q)'[p] = LetInFrom(q)[p] \/ LetInFrom(q)'[p] = Never
      BY <2>1, <2>3 DEF LetInFrom
    <3>3. IPCredit(lim', q, clock') = IPCredit(lim, q, clock)
      BY <1>2, <1>3, <1>4, <1>7, <2>6
    <3>4. Covered(LetInFrom(q)', restarts, clock, IPBurst, IPRefill, IPCredit(lim, q, clock))
      BY <1>2, <1>4, <3>1, <3>2, CoveredFewer, Sizes
    <3> QED BY <1>2, <3>3, <3>4
  <2> QED BY <1>2, <1>3, <2>4, <2>5, <2>6 DEF LimiterInv, Roomy
<1> QED BY <1>1, <1>6, <1>7 DEF Admit, a

LEMMA TickLimited ==
  ASSUME AccountsInv, LimiterInv, Tick
  PROVE  LimiterInv'
<1>1. clock \in Nat /\ clock' = clock + 1 /\ UNCHANGED <<lim, req, restarts>>
  BY DEF Tick, history, AccountsInv, Types
<1>2. Marked'
  <2>1. /\ restarts' \in Seq(Nat) /\ \A k \in DOMAIN restarts' : restarts'[k] <= clock'
    <3>1. restarts \in Seq(Nat) /\ \A k \in DOMAIN restarts : restarts[k] \in Nat /\ restarts[k] <= clock
      BY DEF LimiterInv, Marked
    <3> QED BY <1>1, <3>1
  <2>2. \A r \in Requests :
          /\ req'[r].at \in Nat \cup {Never} /\ req'[r].at <= clock'
          /\ req'[r].pc = "new" => req'[r].at = Never
          /\ req'[r].kind \in {"start", "confirm", "login"} => req'[r].name \in Names
    BY <1>1 DEF LimiterInv, Marked, Never
  <2> QED BY <2>1, <2>2 DEF Marked
<1>0. restarts \in Seq(Nat) /\ \A k \in DOMAIN restarts : restarts[k] <= clock
  BY DEF LimiterInv, Marked
<1>3. Sound(lim', clock')
  BY <1>1, LaterSound DEF LimiterInv
<1>4. \A r \in Requests :
        /\ LetIn[r] \in Int /\ LetIn[r] <= clock
        /\ \A ip : LetInFrom(ip)[r] \in Int /\ LetInFrom(ip)[r] <= clock
  BY <1>1 DEF LimiterInv, Marked, LetIn, LetInFrom
<1>5. Covered(LetIn', restarts', clock', GlobalBurst, GlobalRefill, GlobalCredit(lim', clock'))
  <2>1. LetIn' = LetIn
    BY <1>1 DEF LetIn
  <2>2. /\ GlobalCredit(lim, clock) \in Nat /\ GlobalCredit(lim, clock + 1) \in Nat
        /\ GlobalCredit(lim, clock + 1) <= GlobalCredit(lim, clock) + 1
        /\ GlobalCredit(lim, clock + 1) <= GlobalBurst * GlobalRefill
    BY <1>1, GlobalFound DEF LimiterInv
  <2>3. Covered(LetIn, restarts, clock + 1, GlobalBurst, GlobalRefill, GlobalCredit(lim, clock + 1))
    BY <1>0, <1>1, <1>4, <2>2, CoveredLater, Sizes DEF LimiterInv
  <2> QED BY <1>1, <2>1, <2>3
<1>6. ASSUME Roomy, NEW ip \in IPs
      PROVE  Covered(LetInFrom(ip)', restarts', clock', IPBurst, IPRefill, IPCredit(lim', ip, clock'))
  <2>1. LetInFrom(ip)' = LetInFrom(ip)
    BY <1>1 DEF LetInFrom
  <2>2. /\ IPCredit(lim, ip, clock) \in Nat /\ IPCredit(lim, ip, clock + 1) \in Nat
        /\ IPCredit(lim, ip, clock + 1) <= IPCredit(lim, ip, clock) + 1
        /\ IPCredit(lim, ip, clock + 1) <= IPBurst * IPRefill
    <3>1. Bucket(lim, ip, clock).credit \in Nat
      BY <1>1, BucketFound DEF LimiterInv
    <3> QED BY <1>1, <3>1, BucketFound DEF LimiterInv, IPCredit
  <2>3. Covered(LetInFrom(ip), restarts, clock, IPBurst, IPRefill, IPCredit(lim, ip, clock))
    BY <1>6 DEF LimiterInv
  <2>4. Covered(LetInFrom(ip), restarts, clock + 1, IPBurst, IPRefill, IPCredit(lim, ip, clock + 1))
    BY <1>0, <1>1, <1>4, <2>2, <2>3, CoveredLater, Sizes
  <2> QED BY <1>1, <2>1, <2>4
<1> QED BY <1>2, <1>3, <1>5, <1>6 DEF LimiterInv, Roomy

LEMMA RestartLimited ==
  ASSUME AccountsInv, LimiterInv, Restart
  PROVE  LimiterInv'
<1>1. /\ clock \in Nat /\ clock' = clock /\ lim' = NewLimiter(clock) /\ Sound(lim, clock)
      /\ restarts \in Seq(Nat) /\ \A k \in DOMAIN restarts : restarts[k] <= clock
      /\ restarts' = Append(restarts, clock)
  BY DEF Restart, AccountsInv, Types, LimiterInv, Marked
<1>2. \A r \in Requests :
        /\ req'[r].at = req[r].at /\ req'[r].ip = req[r].ip /\ req'[r].kind = "none"
        /\ req'[r].pc = "new" => req[r].pc = "new"
  BY DEF Restart, Idle
<1>3. Marked'
  <2>1. /\ restarts' \in Seq(Nat) /\ \A k \in DOMAIN restarts' : restarts'[k] <= clock'
    BY <1>1
  <2> QED BY <1>1, <1>2, <2>1 DEF LimiterInv, Marked
<1>4. /\ Sound(lim', clock') /\ GlobalCredit(lim', clock') = GlobalBurst * GlobalRefill
      /\ \A ip \in IPs : IPCredit(lim', ip, clock') = IPBurst * IPRefill
  BY <1>1, NewSound
<1>5. LetIn' = LetIn /\ \A ip : LetInFrom(ip)' = LetInFrom(ip)
  BY <1>2 DEF LetIn, LetInFrom
<1>6. Covered(LetIn', restarts', clock', GlobalBurst, GlobalRefill, GlobalBurst * GlobalRefill)
  <2>1. GlobalCredit(lim, clock) \in Nat
    BY <1>1, GlobalFound
  <2>2. Covered(LetIn, restarts, clock, GlobalBurst, GlobalRefill, GlobalCredit(lim, clock))
    BY DEF LimiterInv
  <2>3. Covered(LetIn, Append(restarts, clock), clock, GlobalBurst, GlobalRefill, GlobalBurst * GlobalRefill)
    BY <1>1, <2>1, <2>2, CoveredAnew, Sizes
  <2> QED BY <1>1, <1>5, <2>3
<1>7. ASSUME Roomy, NEW ip \in IPs
      PROVE  Covered(LetInFrom(ip)', restarts', clock', IPBurst, IPRefill, IPBurst * IPRefill)
  <2>1. IPCredit(lim, ip, clock) \in Nat
    BY <1>1, BucketFound DEF IPCredit
  <2>2. Covered(LetInFrom(ip), restarts, clock, IPBurst, IPRefill, IPCredit(lim, ip, clock))
    BY <1>7 DEF LimiterInv
  <2>3. Covered(LetInFrom(ip), Append(restarts, clock), clock, IPBurst, IPRefill, IPBurst * IPRefill)
    BY <1>1, <2>1, <2>2, CoveredAnew, Sizes
  <2> QED BY <1>1, <1>5, <2>3
<1> QED BY <1>3, <1>4, <1>6, <1>7 DEF LimiterInv, Roomy

\* What a request may do to itself once it was let in, or without being limited.
MovesOn(r, e) ==
  /\ req' = [req EXCEPT ![r] = e] /\ UNCHANGED <<clock, restarts>>
  /\ \/ e.at = req[r].at /\ e.ip = req[r].ip
     \/ e.at = Never
  /\ e.pc # "new"
  /\ e.kind \in {"start", "confirm", "login"} => e.name \in Names
  /\ \/ lim' = lim
     \/ \E n \in Names : lim' = Fail(lim, n, clock)
     \/ \E n : lim' = Success(lim, n)

LEMMA MovesLimited ==
  ASSUME AccountsInv, LimiterInv, NEW r \in Requests, NEW e, MovesOn(r, e)
  PROVE  LimiterInv'
<1>1. /\ clock \in Nat /\ UNCHANGED <<clock, restarts>> /\ Sound(lim, clock)
      /\ req \in [Requests -> Request]
  BY DEF MovesOn, AccountsInv, Types, LimiterInv
<1>2. Sound(lim', clock) /\ lim'.global = lim.global /\ lim'.ips = lim.ips
  BY <1>1, FailSound, SuccessSound DEF MovesOn
<1>3. \A q \in Requests : req'[q] = IF q = r THEN e ELSE req[q]
  BY <1>1 DEF MovesOn
<1>4. \A q \in Requests :
        /\ \/ req'[q].at = req[q].at /\ req'[q].ip = req[q].ip
           \/ req'[q].at = Never
        /\ req'[q].pc = "new" => req[q].pc = "new"
        /\ req'[q].kind \in {"start", "confirm", "login"} => req'[q].name \in Names
  BY <1>3 DEF MovesOn, LimiterInv, Marked
<1> QED BY <1>1, <1>2, <1>4, NobodyLetIn

LEMMA EndLimited ==
  ASSUME AccountsInv, LimiterInv, NEW r \in Requests, Ends(r), UNCHANGED <<clock, restarts>>,
         \/ lim' = lim
         \/ \E n \in Names : lim' = Fail(lim, n, clock)
         \/ \E n : lim' = Success(lim, n)
  PROVE  LimiterInv'
<1> DEFINE e == Idle("done", req[r].ip, req[r].at)
<1>1. e.at = req[r].at /\ e.ip = req[r].ip /\ e.pc = "done" /\ e.kind = "none"
  BY DEF Idle
<1>2. req' = [req EXCEPT ![r] = e]
  BY DEF Ends
<1> HIDE DEF e
<1>3. MovesOn(r, e)
  BY <1>1, <1>2 DEF MovesOn
<1> QED BY <1>3, MovesLimited

LEMMA StepLimited ==
  ASSUME AccountsInv, LimiterInv, NEW r \in Requests, Step(r)
  PROVE  LimiterInv'
<1>1. req[r] \in Request /\ req \in [Requests -> Request]
  BY DEF AccountsInv, Types
<1>2. req[r].kind \in {"start", "confirm", "login"} => req[r].name \in Names
  BY DEF LimiterInv, Marked
<1>0. restarts' = restarts
  BY DEF Step, Arrive, Refuse, StartCheck, StartHashed, StartDelete, StartInsert, ConfirmRead,
    ConfirmActivate, LoginLoad, LoginVerify, LoginCommit, Authenticate, Logout, StepUp, history
<1>3. ASSUME NEW e \in Request, req' = [req EXCEPT ![r] = e], UNCHANGED <<clock, lim>>,
             e.at = req[r].at, e.ip = req[r].ip, e.pc # "new", e.kind = req[r].kind, e.name = req[r].name
      PROVE  LimiterInv'
  <2>1. MovesOn(r, e)
    BY <1>0, <1>2, <1>3 DEF MovesOn
  <2> QED BY <2>1, MovesLimited
<1>4. CASE Arrive(r)
  BY <1>4, ArriveLimited
<1>5. CASE Refuse(r) \/ StartInsert(r) \/ ConfirmActivate(r) \/ Logout(r)
  BY <1>0, <1>5, EndLimited DEF Refuse, StartInsert, ConfirmActivate, Logout
<1>6. CASE StartCheck(r) \/ StepUp(r)
  <2> DEFINE e == [req[r] EXCEPT !.pc = "hashing"]
  <2>1. /\ e \in Request /\ e.at = req[r].at /\ e.ip = req[r].ip /\ e.pc # "new"
        /\ e.kind = req[r].kind /\ e.name = req[r].name
    BY <1>1 DEF Request
  <2>2. req' = [req EXCEPT ![r] = e] /\ UNCHANGED <<clock, lim>>
    BY <1>6 DEF StartCheck, StepUp
  <2> HIDE DEF e
  <2> QED BY <1>3, <2>1, <2>2
<1>7. CASE StartHashed(r)
  <2> DEFINE e == [req[r] EXCEPT !.pc = "begin"]
  <2>1. /\ e \in Request /\ e.at = req[r].at /\ e.ip = req[r].ip /\ e.pc # "new"
        /\ e.kind = req[r].kind /\ e.name = req[r].name
    BY <1>1 DEF Request
  <2>2. req' = [req EXCEPT ![r] = e] /\ UNCHANGED <<clock, lim>>
    BY <1>7 DEF StartHashed
  <2> HIDE DEF e
  <2> QED BY <1>3, <2>1, <2>2
<1>8. CASE StartDelete(r)
  <2> DEFINE e == [req[r] EXCEPT !.pc = "insert", !.doomed = Unfinished]
  <2>0. Unfinished \subseteq Rows
    BY DEF AccountsInv, Types, Unfinished
  <2>1. /\ e \in Request /\ e.at = req[r].at /\ e.ip = req[r].ip /\ e.pc # "new"
        /\ e.kind = req[r].kind /\ e.name = req[r].name
    BY <1>1, <2>0 DEF Request
  <2>2. req' = [req EXCEPT ![r] = e] /\ UNCHANGED <<clock, lim>>
    BY <1>1, <1>8 DEF StartDelete
  <2> HIDE DEF e
  <2> QED BY <1>3, <2>1, <2>2
<1>9. CASE ConfirmRead(r)
  <2> DEFINE e == [req[r] EXCEPT !.pc = "activate"]
  <2>1. /\ e \in Request /\ e.at = req[r].at /\ e.ip = req[r].ip /\ e.pc # "new"
        /\ e.kind = req[r].kind /\ e.name = req[r].name
    BY <1>1 DEF Request
  <2>2. req' = [req EXCEPT ![r] = e] /\ UNCHANGED <<clock, lim>>
    BY <1>9 DEF ConfirmRead
  <2> HIDE DEF e
  <2> QED BY <1>3, <2>1, <2>2
<1>10. CASE LoginLoad(r)
  <2>1. CASE req' = [req EXCEPT ![r].pc = "hashing"]
    <3> DEFINE e == [req[r] EXCEPT !.pc = "hashing"]
    <3>1. /\ e \in Request /\ e.at = req[r].at /\ e.ip = req[r].ip /\ e.pc # "new"
          /\ e.kind = req[r].kind /\ e.name = req[r].name
      BY <1>1 DEF Request
    <3>2. req' = [req EXCEPT ![r] = e] /\ UNCHANGED <<clock, lim>>
      BY <1>10, <2>1 DEF LoginLoad
    <3> HIDE DEF e
    <3> QED BY <1>3, <3>1, <3>2
  <2>2. ASSUME NEW u \in users,
               req' = [req EXCEPT ![r].pc = "hashing", ![r].row = u.id, ![r].codes = u.codes]
        PROVE  LimiterInv'
    <3> DEFINE e == [req[r] EXCEPT !.pc = "hashing", !.row = u.id, !.codes = u.codes]
    <3>1. u.id \in Rows /\ u.codes \in SUBSET Codes
      BY DEF AccountsInv, Types
    <3>2. /\ e \in Request /\ e.at = req[r].at /\ e.ip = req[r].ip /\ e.pc # "new"
          /\ e.kind = req[r].kind /\ e.name = req[r].name
      BY <1>1, <3>1 DEF Request
    <3>3. req' = [req EXCEPT ![r] = e] /\ UNCHANGED <<clock, lim>>
      BY <1>1, <1>10, <2>2 DEF LoginLoad
    <3> HIDE DEF e
    <3> QED BY <1>3, <3>2, <3>3
  <2> QED BY <1>10, <2>1, <2>2 DEF LoginLoad
<1>11. CASE LoginVerify(r)
  <2>1. ASSUME NEW code \in Opening(r), lim' = lim,
               req' = [req EXCEPT ![r].pc = "commit", ![r].code = code, ![r].codes = {}]
        PROVE  LimiterInv'
    <3> DEFINE e == [req[r] EXCEPT !.pc = "commit", !.code = code, !.codes = {}]
    <3>1. code \in Codes \cup {"totp"}
      BY <1>1 DEF Opening, Request, AccountsInv, Types
    <3>2. /\ e \in Request /\ e.at = req[r].at /\ e.ip = req[r].ip /\ e.pc # "new"
          /\ e.kind = req[r].kind /\ e.name = req[r].name
      BY <1>1, <3>1 DEF Request
    <3>3. req' = [req EXCEPT ![r] = e] /\ UNCHANGED <<clock, lim>>
      BY <1>1, <1>11, <2>1 DEF LoginVerify
    <3> HIDE DEF e
    <3> QED BY <1>3, <3>2, <3>3
  <2>2. ASSUME Ends(r), lim' = Fail(lim, req[r].name, clock)
        PROVE  LimiterInv'
    <3>1. clock' = clock /\ req[r].name \in Names
      BY <1>2, <1>11 DEF LoginVerify
    <3> QED BY <1>0, <2>2, <3>1, EndLimited
  <2> QED BY <1>11, <2>1, <2>2 DEF LoginVerify
<1>12. CASE LoginCommit(r)
  <2>1. req[r].name \in Names /\ clock' = clock /\ Ends(r)
    BY <1>2, <1>12 DEF LoginCommit, AccountsInv, Placed
  <2>2. lim' \in {lim, Success(lim, req[r].name)} \/ lim' = Fail(lim, req[r].name, clock)
    BY <1>12 DEF LoginCommit
  <2> QED BY <1>0, <2>1, <2>2, EndLimited
<1>13. CASE Authenticate(r)
  <2>1. PICK s \in sessions, kind \in {"logout", "act"} :
          req' = [req EXCEPT ![r] =
            [Idle("authenticated", Nobody, Never) EXCEPT !.kind = kind, !.row = s.token]]
    BY <1>13 DEF Authenticate
  <2> DEFINE e == [Idle("authenticated", Nobody, Never) EXCEPT !.kind = kind, !.row = s.token]
  <2>2. e.at = Never /\ e.pc = "authenticated" /\ e.kind = kind
    BY DEF Idle
  <2>3. req' = [req EXCEPT ![r] = e] /\ UNCHANGED <<clock, lim>>
    BY <1>13, <2>1 DEF Authenticate
  <2> HIDE DEF e
  <2>4. MovesOn(r, e)
    BY <1>0, <2>2, <2>3 DEF MovesOn
  <2> QED BY <2>4, MovesLimited
<1> QED BY <1>4, <1>5, <1>6, <1>7, <1>8, <1>9, <1>10, <1>11, <1>12, <1>13 DEF Step

\* Names and sessions: a name is used once, a session belongs to an active account.
TablesInv ==
  /\ restarts \in Seq(Nat)
  /\ \A u \in users : u.name \in Names
  /\ \A u, v \in users : u.name = v.name => u = v
  /\ \A s \in sessions : s.expires \in Nat /\ \E u \in users : u.id = s.row /\ u.active

LEMMA TablesBegun == Init => TablesInv
<1> SUFFICES ASSUME Init PROVE TablesInv
  OBVIOUS
<1>1. restarts \in Seq(Nat) /\ sessions = {}
  BY DEF Init
<1>2. \/ users = {}
      \/ \E n \in Names : users = {NewAccount(Founder, n, TRUE)}
  BY Zenon DEF Init
<1>3. \A n : NewAccount(Founder, n, TRUE).name = n
  BY DEF NewAccount
<1>4. /\ \A u \in users : u.name \in Names
      /\ \A u, v \in users : u.name = v.name => u = v
  BY <1>2, <1>3
<1> QED BY <1>1, <1>4 DEF TablesInv

\* A step that keeps the names of the accounts and every active account.
LEMMA SameNames ==
  ASSUME AccountsInv, TablesInv, restarts' \in Seq(Nat),
         \A u \in users' : \E v \in users : v.id = u.id /\ v.name = u.name,
         \A u, v \in users' : u.id = v.id => u = v,
         \A u \in users : u.active => \E v \in users' : v.id = u.id /\ v.active,
         \A s \in sessions' : \/ s \in sessions
                              \/ s.expires \in Nat /\ \E u \in users : u.id = s.row /\ u.active
  PROVE  TablesInv'
<1>1. \A u \in users' : u.name \in Names
  BY DEF TablesInv
<1>2. \A u, v \in users' : u.name = v.name => u = v
  BY DEF TablesInv
<1>3. \A s \in sessions' : s.expires \in Nat /\ \E u \in users' : u.id = s.row /\ u.active
  BY DEF TablesInv
<1> QED BY <1>1, <1>2, <1>3 DEF TablesInv

LEMMA TablesKept ==
  ASSUME AccountsInv, LimiterInv, TablesInv, [Next]_vars
  PROVE  TablesInv'
<1>1. Keyed /\ Keyed'
  BY Preserved DEF AccountsInv
<1>2. ASSUME users' = users, sessions' \subseteq sessions, restarts' = restarts
      PROVE  TablesInv'
  BY <1>2 DEF TablesInv
<1>3. ASSUME NEW r \in Requests, StartInsert(r)
      PROVE  TablesInv'
  <2> DEFINE new == NewAccount(r, req[r].name, FALSE)
             kept == {u \in users : u.id \notin req[r].doomed}
  <2>1. /\ req[r].pc = "insert" /\ req[r].kind = "start" /\ users' = kept \cup {new}
        /\ \A u \in kept : u.name # req[r].name
        /\ sessions' = sessions /\ restarts' = restarts
    BY <1>3 DEF StartInsert, AccountsInv, Placed, Ends
  <2>2. new.name = req[r].name /\ req[r].name \in Names
    BY <2>1 DEF NewAccount, LimiterInv, Marked
  <2>3. kept \subseteq users /\ \A u \in users : u.active => u \in kept
    BY <2>1 DEF AccountsInv, Kept
  <2> HIDE DEF new, kept
  <2> QED BY <2>1, <2>2, <2>3 DEF TablesInv
<1>4. ASSUME NEW r \in Requests, ConfirmActivate(r)
      PROVE  TablesInv'
  <2>1. PICK u \in users : users' = (users \ {u}) \cup {[u EXCEPT !.active = TRUE]}
    BY <1>4 DEF ConfirmActivate
  <2> DEFINE w == [u EXCEPT !.active = TRUE]
  <2>2. w.id = u.id /\ w.name = u.name /\ w.active
    BY DEF AccountsInv, Types
  <2>3. users' = (users \ {u}) \cup {w} /\ sessions' = sessions /\ restarts' \in Seq(Nat)
    BY <1>4, <2>1 DEF ConfirmActivate, TablesInv
  <2> HIDE DEF w
  <2> QED BY <1>1, <2>2, <2>3, SameNames DEF Keyed
<1>5. ASSUME NEW r \in Requests, LoginCommit(r)
      PROVE  TablesInv'
  <2>1. PICK u \in users :
          /\ u.id = req[r].row
          /\ IF Listed(req[r].code, u.codes)
             THEN /\ users' = (users \ {u}) \cup {[u EXCEPT !.codes = @ \ {req[r].code}]}
                  /\ sessions' = sessions \cup {[token |-> r, row |-> u.id, expires |-> clock + SessionLife]}
             ELSE UNCHANGED <<users, sessions>>
    BY <1>5 DEF LoginCommit
  <2>2. restarts' = restarts /\ restarts' \in Seq(Nat)
    BY <1>5 DEF LoginCommit, TablesInv
  <2>3. CASE Listed(req[r].code, u.codes)
    <3> DEFINE w == [u EXCEPT !.codes = @ \ {req[r].code}]
               s == [token |-> r, row |-> u.id, expires |-> clock + SessionLife]
    <3>1. w.id = u.id /\ w.name = u.name /\ w.active = u.active
      BY DEF AccountsInv, Types
    <3>2. users' = (users \ {u}) \cup {w} /\ sessions' = sessions \cup {s}
      BY <2>1, <2>3
    <3>3. u.active
      BY <1>5, <2>1 DEF LoginCommit, AccountsInv, Kept, Keyed, Placed
    <3>4. s.row = u.id /\ s.expires \in Nat
      BY AccountsAssumption DEF AccountsInv, Types
    <3> HIDE DEF w, s
    <3> QED BY <1>1, <2>2, <3>1, <3>2, <3>3, <3>4, SameNames DEF Keyed
  <2> QED BY <1>2, <2>1, <2>2, <2>3
<1>6. CASE Restart
  <2>1. UNCHANGED <<users, sessions>> /\ restarts' \in Seq(Nat)
    BY <1>6 DEF Restart, TablesInv, AccountsInv, Types
  <2> QED BY <2>1 DEF TablesInv
<1>7. CASE Tick \/ Purge \/ UNCHANGED vars
  BY <1>2, <1>7 DEF Tick, Purge, vars
<1>8. ASSUME NEW r \in Requests, Step(r), ~StartInsert(r), ~ConfirmActivate(r), ~LoginCommit(r)
      PROVE  TablesInv'
  <2>1. users' = users /\ sessions' \subseteq sessions /\ restarts' = restarts
    BY <1>8 DEF Step, Arrive, Refuse, StartCheck, StartHashed, StartDelete, ConfirmRead,
                LoginLoad, LoginVerify, Authenticate, Logout, StepUp
  <2> QED BY <1>2, <2>1
<1> QED BY <1>3, <1>4, <1>5, <1>6, <1>7, <1>8 DEF Next

LEMMA LimiterKept ==
  ASSUME AccountsInv, LimiterInv, [Next]_vars
  PROVE  LimiterInv'
<1>1. CASE UNCHANGED vars
  <2>1. UNCHANGED <<clock, lim, req, restarts>>
    BY <1>1 DEF vars, history
  <2>2. LetIn' = LetIn /\ \A ip : LetInFrom(ip)' = LetInFrom(ip)
    BY <2>1 DEF LetIn, LetInFrom
  <2>3. Marked'
    BY <2>1 DEF LimiterInv, Marked
  <2> QED BY <2>1, <2>2, <2>3 DEF LimiterInv, Roomy
<1>2. CASE Purge
  <2>1. clock \in Nat /\ UNCHANGED <<clock, lim, req, restarts>>
    BY <1>2 DEF Purge, history, AccountsInv, Types
  <2> QED BY <2>1, NobodyLetIn DEF LimiterInv, Marked
<1> QED BY <1>1, <1>2, StepLimited, TickLimited, RestartLimited DEF Next

LEMMA AllInv == Spec => [](AccountsInv /\ LimiterInv /\ TablesInv)
<1>1. Init => AccountsInv /\ LimiterInv /\ TablesInv
  BY Begun, LimiterBegun, TablesBegun
<1>2. AccountsInv /\ LimiterInv /\ TablesInv /\ [Next]_vars
        => (AccountsInv /\ LimiterInv /\ TablesInv)'
  BY Preserved, LimiterKept, TablesKept
<1> QED BY <1>1, <1>2, PTL DEF Spec

\* Types, unique names, and the capacity of the limiter's tables.
THEOREM TypeCorrect == Spec => []TypeOK
<1>1. AccountsInv /\ LimiterInv /\ TablesInv => TypeOK
  <2> SUFFICES ASSUME AccountsInv, LimiterInv, TablesInv PROVE TypeOK
    OBVIOUS
  <2>1. users \subseteq [id : Rows, name : Names, active : BOOLEAN, codes : SUBSET Codes]
    BY DEF AccountsInv, Types, TablesInv
  <2>2. \A u, v \in users : u.id = v.id \/ u.name = v.name => u = v
    BY DEF AccountsInv, Keyed, TablesInv
  <2>3. /\ sessions \subseteq [token : Requests, row : Rows, expires : Nat]
        /\ \A s \in sessions : \E u \in users : u.id = s.row /\ u.active
    BY DEF AccountsInv, Types, TablesInv
  <2>4. /\ lim \in LimiterType /\ Len(lim.ips) <= MaxIPs /\ Len(lim.accounts) <= MaxAccounts
        /\ \A table \in {lim.ips, lim.accounts} :
             \A i, j \in DOMAIN table : table[i].key = table[j].key => i = j
    BY DEF LimiterInv, Sound, Distinct
  <2>5. /\ clock \in Nat /\ restarts \in Seq(Nat) /\ crossed \in BOOLEAN
        /\ shown \subseteq Rows /\ proved \subseteq Rows
        /\ opened \subseteq [row : Rows, code : Codes, token : Requests]
    BY DEF AccountsInv, Types, TablesInv
  <2> QED BY <2>1, <2>2, <2>3, <2>4, <2>5 DEF TypeOK
<1> QED BY <1>1, AllInv, PTL

\* In any interval no more attempts are let in than the buckets of all, and those of an
\* address, held and gained, however often the broker restarts.
THEOREM AttemptsBounded == Spec => []AdmissionsBounded
<1>1. AccountsInv /\ LimiterInv => AdmissionsBounded
  <2> SUFFICES ASSUME AccountsInv, LimiterInv,
                      NEW from \in 0 .. clock, NEW to \in 0 .. clock, from <= to
               PROVE  /\ Admitted(Requests, from, to)
                           <= Limiters(from, to) * GlobalBurst + (to - from) \div GlobalRefill
                      /\ Roomy => \A ip \in IPs :
                           Admitted({r \in Requests : req[r].ip = ip}, from, to)
                             <= Limiters(from, to) * IPBurst + (to - from) \div IPRefill
    BY DEF AdmissionsBounded, Roomy
  <2>1. /\ clock \in Nat /\ Sound(lim, clock) /\ restarts \in Seq(Nat)
        /\ Limiters(from, to) = Lives(restarts, from, to)
    BY DEF AccountsInv, Types, LimiterInv, Marked, Limiters, Lives
  <2>2. GlobalCredit(lim, clock) \in Nat /\ \A ip \in IPs : IPCredit(lim, ip, clock) \in Nat
    BY <2>1, GlobalFound, BucketFound DEF IPCredit
  <2>3. Admitted(Requests, from, to) = Cardinality(Between(LetIn, from, to))
    <3>1. {r \in Requests : req[r].at \in from .. to} = Between(LetIn, from, to)
      BY DEF Between, LetIn
    <3> QED BY <3>1 DEF Admitted
  <2>4. Cardinality(Between(LetIn, from, to))
          <= Limiters(from, to) * GlobalBurst + (to - from) \div GlobalRefill
    BY <2>1, <2>2, CoveredCount, Sizes DEF LimiterInv
  <2>5. ASSUME Roomy, NEW ip \in IPs
        PROVE  Admitted({r \in Requests : req[r].ip = ip}, from, to)
                 <= Limiters(from, to) * IPBurst + (to - from) \div IPRefill
    <3>1. {r \in {q \in Requests : req[q].ip = ip} : req[r].at \in from .. to}
            = Between(LetInFrom(ip), from, to)
      BY DEF Between, LetInFrom
    <3>2. Cardinality(Between(LetInFrom(ip), from, to))
            <= Limiters(from, to) * IPBurst + (to - from) \div IPRefill
      <4>1. Covered(LetInFrom(ip), restarts, clock, IPBurst, IPRefill, IPCredit(lim, ip, clock))
        BY <2>5 DEF LimiterInv
      <4> QED BY <2>1, <2>2, <4>1, CoveredCount, Sizes
    <3> QED BY <3>1, <3>2 DEF Admitted
  <2> QED BY <2>3, <2>4, <2>5
<1> QED BY <1>1, AllInv, PTL
==============================================================================
