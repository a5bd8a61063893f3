------------------------------- MODULE Handover -------------------------------
(***************************************************************************)
(* How a manual action gets from the auth broker into the action queue:    *)
(* signed with the time and a nonce, over a Unix socket, past the verifier *)
(* and into remediation_actions.  The caller gives up after ten seconds    *)
(* whatever became of the request, a request may be presented more than    *)
(* once, the controller may die, and the wall clock may be set back while  *)
(* the verifier ages its nonces by the monotonic clock.  Requests composes  *)
(* it with the rest of the controller's life.                              *)
(***************************************************************************)
EXTENDS Integers, FiniteSets

CONSTANTS
  Messages,     \* signed requests, each with an action id and a nonce of its own
  Keys,         \* idempotency keys
  Asks,         \* what may be asked: kind, parameters, reason, incident and user
  Skew,         \* maxSkew of the verifier
  TTL,          \* its ttl
  MaxNonce,     \* its maxNonce
  MaxStep,      \* how far the wall clock is set back, all steps together
  MaxTime, MaxDeliveries                 \* bounds of the model

ASSUME HandoverAssumption ==
  /\ Skew \in Nat /\ MaxStep \in Nat /\ TTL \in Nat
  /\ TTL >= Skew + MaxStep
  /\ MaxNonce \in Nat \ {0} /\ MaxTime \in Nat
  /\ MaxDeliveries \in Nat

VARIABLES
  now,          \* the monotonic clock
  back,         \* how far the wall clock has been set back
  sent,         \* the requests the auth broker has signed
  told,         \* what it told the operator of them
  nonces,       \* Verifier.nonces; Verifier.order holds the same entries
  handling,     \* per request, the handlers between Verify and the INSERT
  row,          \* remediation_actions, per idempotency key
  accepted,     \* history: how often the verifier let a request through
  forgotten     \* history: nonces evicted at the capacity or lost with the controller

clockVars == <<now, back>>
brokerVars == <<sent, told>>
verifierVars == <<nonces, accepted, forgotten>>
handoverVars == <<clockVars, brokerVars, verifierVars, handling, row>>

wall == now - back

None == [none |-> TRUE]
Requests == [key : Keys, ask : Asks, at : Int]
Rows == [id : Messages, ask : Asks]
Queued(id) == [code |-> 202, id |-> id]
Error(code) == [code |-> code]
Waiting == [waiting |-> TRUE]
Answers == {Queued(id) : id \in Messages} \cup {Error(code) : code \in {401, 409, 500, 503}}

HandoverInit ==
  /\ now = 0 /\ back = 0
  /\ sent = [m \in Messages |-> None] /\ told = [m \in Messages |-> None]
  /\ nonces = {} /\ handling = [m \in Messages |-> 0]
  /\ row = [k \in Keys |-> None]
  /\ accepted = [m \in Messages |-> 0] /\ forgotten = {}

----------------------------------------------------------------------------
(* Time.                                                                   *)

Tick ==
  /\ now < MaxTime /\ now' = now + 1
  /\ UNCHANGED <<back, brokerVars, verifierVars, handling, row>>

\* Somebody, or the time service, sets the host's clock back.
StepBack ==
  /\ back < MaxStep /\ back' = back + 1
  /\ UNCHANGED <<now, brokerVars, verifierVars, handling, row>>

----------------------------------------------------------------------------
(* The auth broker.                                                        *)

\* restart and acknowledgeRewardGap, past their step-up: Submit signs and sends.
Send(m, key, ask) ==
  /\ sent[m] = None
  /\ sent' = [sent EXCEPT ![m] = [key |-> key, ask |-> ask, at |-> wall]]
  /\ told' = [told EXCEPT ![m] = Waiting]
  /\ UNCHANGED <<clockVars, verifierVars, handling, row>>

\* No answer within the client's ten seconds, or a broken connection.
GiveUp(m) ==
  /\ told[m] = Waiting
  /\ told' = [told EXCEPT ![m] = Error(503)]
  /\ UNCHANGED <<clockVars, sent, verifierVars, handling, row>>

\* An answer reaches the caller that still waits for it.
Answered(m, answer) ==
  told' = IF told[m] = Waiting THEN [told EXCEPT ![m] = answer] ELSE told

----------------------------------------------------------------------------
(* manualAction.                                                           *)

Known(entries) == {entry.nonce : entry \in entries}

InWindow(at) == wall - Skew <= at /\ at <= wall + Skew

\* Mutant of Unexpired: a nonce is kept for the time window and not for the ttl.
UnexpiredInWindow == {entry \in nonces : entry.at >= now - Skew}

Unexpired == {entry \in nonces : entry.at >= now - TTL}

\* Mutant of Evicted: the memory of nonces has no capacity.
EvictedNever(gone) == gone = {}

\* The entries that make room for another: at the capacity an oldest one.
Evicted(gone) ==
  IF Cardinality(Unexpired) < MaxNonce THEN gone = {}
  ELSE \E oldest \in Unexpired :
         gone = {oldest} /\ \A entry \in Unexpired : oldest.at <= entry.at

\* Verify and remember: the old nonces go, whether or not the new one is taken.
Accept(m) ==
  /\ sent[m] # None /\ accepted[m] < MaxDeliveries
  /\ InWindow(sent[m].at) /\ m \notin Known(Unexpired)
  /\ \E gone \in SUBSET Unexpired :
       /\ Evicted(gone)
       /\ nonces' = (Unexpired \ gone) \cup {[nonce |-> m, at |-> now]}
       /\ forgotten' = forgotten \cup Known(gone)
  /\ accepted' = [accepted EXCEPT ![m] = @ + 1]
  /\ handling' = [handling EXCEPT ![m] = @ + 1]
  /\ UNCHANGED <<clockVars, brokerVars, row>>

Deny(m) ==
  /\ sent[m] # None
  /\ \/ ~InWindow(sent[m].at) /\ UNCHANGED nonces
     \/ InWindow(sent[m].at) /\ m \in Known(Unexpired) /\ nonces' = Unexpired
  /\ Answered(m, Error(401))
  /\ UNCHANGED <<clockVars, sent, accepted, forgotten, handling, row>>

\* Mutant of Same: a known key is answered without comparing the requests.
SameKey(r, request) == r # None

\* The columns manualAction compares with the row it finds.
Same(r, request) == r.ask = request.ask

\* INSERT ... ON CONFLICT DO NOTHING, and the SELECT after a conflict.
Insert(m) ==
  LET request == sent[m]
      found == row[request.key]
  IN /\ handling[m] > 0 /\ handling' = [handling EXCEPT ![m] = @ - 1]
     /\ IF found = None
        THEN /\ row' = [row EXCEPT ![request.key] = [id |-> m, ask |-> request.ask]]
             /\ Answered(m, Queued(m))
        ELSE /\ UNCHANGED row
             /\ Answered(m, IF Same(found, request) THEN Queued(found.id) ELSE Error(409))
     /\ UNCHANGED <<clockVars, sent, verifierVars>>

\* A statement fails, before or after the INSERT has been committed.
InsertFails(m) ==
  LET request == sent[m]
  IN /\ handling[m] > 0 /\ handling' = [handling EXCEPT ![m] = @ - 1]
     /\ \/ UNCHANGED row
        \/ /\ row[request.key] = None
           /\ row' = [row EXCEPT ![request.key] = [id |-> m, ask |-> request.ask]]
     /\ Answered(m, Error(500))
     /\ UNCHANGED <<clockVars, sent, verifierVars>>

\* The controller dies with its memory, and its handlers with it.
HandoverRestart ==
  /\ nonces' = {} /\ forgotten' = forgotten \cup Known(nonces)
  /\ handling' = [m \in Messages |-> 0]
  /\ UNCHANGED <<clockVars, brokerVars, accepted, row>>

HandoverStep ==
  \/ Tick \/ StepBack
  \/ \E m \in Messages :
       \/ \E key \in Keys, ask \in Asks : Send(m, key, ask)
       \/ GiveUp(m) \/ Accept(m) \/ Deny(m) \/ Insert(m) \/ InsertFails(m)

----------------------------------------------------------------------------
(* Properties.                                                             *)

HandoverTypeOK ==
  /\ now \in Nat /\ back \in 0..MaxStep
  /\ sent \in [Messages -> Requests \cup {None}]
  /\ told \in [Messages -> Answers \cup {None, Waiting}]
  /\ nonces \subseteq [nonce : Messages, at : Nat]
  /\ IsFiniteSet(nonces) /\ Cardinality(nonces) <= MaxNonce
  /\ handling \in [Messages -> Nat] /\ accepted \in [Messages -> Nat]
  /\ row \in [Keys -> Rows \cup {None}]
  /\ forgotten \subseteq Messages

\* A signed request is let through once, however often it is presented and
\* although the wall clock is set back meanwhile, unless its nonce was evicted
\* at the capacity or the controller was restarted.
NoReplay == \A m \in Messages : accepted[m] > 1 => m \in forgotten

\* An action id that the operator was given is that of a row that asks what the
\* operator asked, also when the key was used before, statements failed and
\* requests were repeated.
QueuedAsAsked ==
  \A m \in Messages, id \in Messages :
    told[m] = Queued(id) => row[sent[m].key] = [id |-> id, ask |-> sent[m].ask]
=============================================================================
