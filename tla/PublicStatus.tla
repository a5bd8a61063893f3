---------------------------- MODULE PublicStatus ----------------------------
(***************************************************************************)
(* What the public is told of the node.  A collect round of the controller *)
(* (Detection) stamps the state once it has read all of it, and saves it   *)
(* at its end, after a scan, mails and a diagnosis that may take long; the *)
(* api loads what is saved, judges its age by the stamp and keeps its      *)
(* answer for a while.  The controller may die before the save, the save   *)
(* and the load may fail, and the api may take a request's time long       *)
(* before it serves it.                                                    *)
(***************************************************************************)
EXTENDS Detection

CONSTANTS
  Gathering,   \* how long a round may read: the context of a round (45 s) bounds it
  Freshness,   \* publicStatusFreshness: the age up to which a state counts (60 s)
  TTL          \* publicStatusCacheTTL: how long an answer is kept (10 s)

ASSUME StatusAssumption == {Gathering, Freshness} \subseteq Nat /\ TTL \in Nat \ {0}

VARIABLES
  taken,      \* what matters of the state of the round under way, until it is saved or lost; not
              \* stamped (updated) before all of it is read
  overview,   \* overview_state: the last state that was saved
  cache       \* the last answer of the api and when it expires
              \* (history: read, in each of them, is when its round began to read)

statusVars == <<taken, overview, cache>>
vars == <<detectionVars, statusVars>>

Nothing == [read |-> Never, updated |-> Never, known |-> FALSE]

\* An answer that says nothing of the node: "unknown", or the 503 of an api that
\* could load nothing.
Empty == [read |-> Never, expires |-> Never]

Init ==
  /\ DetectionInit
  /\ taken = Nothing /\ overview = Nothing
  /\ cache = Empty

----------------------------------------------------------------------------
(* The controller.                                                         *)

Round ==
  /\ taken = Nothing
  /\ Collect
  /\ taken' = [read |-> now, updated |-> Never, known |-> reading'.service # "unavailable"]
  /\ UNCHANGED <<overview, cache>>

Gathers == taken # Nothing /\ taken.updated = Never

\* UpdatedAt is the time when endpoints, agent and metrics have answered or failed.
Stamp ==
  /\ Gathers
  /\ taken' = [taken EXCEPT !.updated = now]
  /\ UNCHANGED <<detectionVars, overview, cache>>

RoundJudges ==
  /\ ~Gathers /\ Judge
  /\ UNCHANGED statusVars

\* Mutant of Saved: the state is stamped when it is saved.
SavedNow == [taken EXCEPT !.updated = now]

\* The state as it is saved; one without the service is told as no state is.
Saved == IF taken.known THEN taken ELSE Nothing

\* The end of the round; an error of SaveOverview is ignored.
Save ==
  /\ taken # Nothing /\ ~Gathers /\ reading = NoReading
  /\ overview' \in {overview, Saved}
  /\ taken' = Nothing
  /\ UNCHANGED <<detectionVars, cache>>

ControllerRestart ==
  /\ Restart
  /\ taken' = Nothing
  /\ UNCHANGED <<overview, cache>>

Clock ==
  /\ Gathers => now - taken.read < Gathering
  /\ Tick
  /\ UNCHANGED statusVars

----------------------------------------------------------------------------
(* The api.                                                                *)

\* publicStatusFromOverview: whether the node is called online or offline (and since
\* when that is known), or unknown, to a request that noted the time "at".
FromOverview(o, at) ==
  IF ~o.known \/ at < o.updated \/ at - o.updated > Freshness THEN Never ELSE o.read

\* A request notes the time when it comes, and is served up to a tick later: it
\* waits for the lock of the cache and for the load.
Noted == {now - 1, now} \cap Nat

Hit(at) == at < cache.expires /\ UNCHANGED cache

\* An answer is kept whatever it is; a load may fail, or find nothing.
Load(at) ==
  /\ at >= cache.expires
  /\ \E o \in {Nothing, overview} :
       cache' = [read |-> FromOverview(o, at), expires |-> at + TTL]

Ask ==
  /\ \E at \in Noted : Hit(at) \/ Load(at)
  /\ UNCHANGED <<detectionVars, taken, overview>>

\* The api restarts with an empty cache; a request in progress is lost.
ApiRestart ==
  /\ cache' = Empty
  /\ UNCHANGED <<detectionVars, taken, overview>>

Next == Clock \/ Round \/ Stamp \/ RoundJudges \/ Save \/ ControllerRestart \/ Ask \/ ApiRestart

Spec == Init /\ [][Next]_vars

----------------------------------------------------------------------------
(* Properties.                                                             *)

Overviews ==
  [read : Nat \cup {Never}, updated : Nat \cup {Never}, known : BOOLEAN]

TypeOK ==
  /\ DetectionTypeOK
  /\ taken \in Overviews /\ overview \in Overviews
  /\ cache \in [read : Nat \cup {Never}, expires : Nat \cup {Never}]

\* Whoever is told that the node is online, or offline, is told what a round has
\* begun to read less than Gathering + Freshness + TTL before the request came, however
\* long rounds, saves and answers took and whatever was cached: the api judges by a
\* stamp that is younger than what it stamps.
PublicIsRecent ==
  \A at \in Noted :
    at < cache.expires /\ cache.read # Never =>
      at - cache.read < Gathering + Freshness + TTL
=============================================================================
