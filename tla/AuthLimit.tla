------------------------------ MODULE AuthLimit ------------------------------
(***************************************************************************)
(* The limiter of logins, internal/authlimit: a token bucket for everyone, *)
(* one per address, and a count of failures per account that delays the    *)
(* next attempt.  The tables of addresses and accounts are bounded, in the *)
(* order of their last use, and forget entries that are not used.  Every   *)
(* operation holds one mutex, so it is a function from a limiter to its    *)
(* answer and the limiter it leaves; the specifications that use it        *)
(* (Accounts) keep the limiter in a variable.                              *)
(*                                                                         *)
(* A token is "refill" units of credit and a unit of time brings one unit, *)
(* which is the code's fraction without rounding.                          *)
(***************************************************************************)
EXTENDS Integers, Sequences, FiniteSets

CONSTANTS
  GlobalBurst, GlobalRefill, IPBurst, IPRefill,   \* tokens and the time of one
  MaxIPs, MaxAccounts,         \* capacity of the tables
  EntryTTL, CleanupInterval,
  FreeFailures, Slowdown,      \* failures without a delay (4), the delay after them
  MaxFailures                  \* where the count stops (1000)

ASSUME AuthLimitAssumption ==
  /\ {GlobalBurst, GlobalRefill, IPBurst, IPRefill, MaxIPs, MaxAccounts,
      EntryTTL, CleanupInterval} \subseteq Nat \ {0}
  /\ {FreeFailures, Slowdown, MaxFailures} \subseteq Nat

Least(a, b) == IF a < b THEN a ELSE b

NewLimiter(now) ==
  [global |-> [credit |-> GlobalBurst * GlobalRefill, last |-> now],
   ips |-> <<>>, accounts |-> <<>>, nextCleanup |-> now + CleanupInterval]

\* Mutant of refill: the time since the last use is rounded up.
refillRounded(credit, burst, interval, elapsed) ==
  Least(burst * interval, credit + elapsed + 1)

\* The credit of a bucket a while later.  A clock that went back brings nothing.
refill(credit, burst, interval, elapsed) ==
  IF elapsed < 0 THEN credit ELSE Least(burst * interval, credit + elapsed)

----------------------------------------------------------------------------
(* The tables: sequences of entries, the most recently used first.         *)

Entry(table, key, fresh) ==
  LET places == {i \in DOMAIN table : table[i].key = key}
  IN  IF places = {} THEN fresh ELSE table[CHOOSE i \in places : TRUE]

\* What remains of a table when only the entries at the places K stay in their list.
Remaining(table, K) ==
  LET Rank(k) == Cardinality({j \in K : j <= k})
  IN  [n \in 1 .. Cardinality(K) |-> table[CHOOSE k \in K : Rank(k) = n]]

Without(table, key) == Remaining(table, {i \in DOMAIN table : table[i].key # key})

\* Mutant of Used: room is made one entry too late.
UsedOverfull(table, entry, capacity) ==
  LET others == Without(table, entry.key)
  IN  <<entry>> \o SubSeq(others, 1, Least(Len(others), capacity))

\* The entry comes to the front; a new one makes the eldest leave at capacity.
Used(table, entry, capacity) ==
  LET others == Without(table, entry.key)
  IN  <<entry>> \o SubSeq(others, 1, Least(Len(others), capacity - 1))

Unexpired(table, now) ==
  Remaining(table, {i \in DOMAIN table : table[i].seen >= now - EntryTTL})

Cleaned(lim, now) ==
  IF now < lim.nextCleanup THEN lim
  ELSE [lim EXCEPT !.ips = Unexpired(lim.ips, now),
                   !.accounts = Unexpired(lim.accounts, now),
                   !.nextCleanup = now + CleanupInterval]

\* The bucket of an address as its next use finds it; "seen" is also the time of
\* its last refill.
Bucket(lim, ip, now) ==
  LET e == Entry(lim.ips, ip, [key |-> ip, credit |-> IPBurst * IPRefill, seen |-> now])
  IN  [key |-> ip, credit |-> refill(e.credit, IPBurst, IPRefill, now - e.seen), seen |-> now]

Account(lim, name, now) ==
  [Entry(lim.accounts, name, [key |-> name, failures |-> 0, seen |-> now]) EXCEPT !.seen = now]

----------------------------------------------------------------------------
(* The operations.                                                         *)

\* The code's 250 ms to 2 s after the fifth failure are one delay.
failureDelay(failures) == IF failures <= FreeFailures THEN 0 ELSE Slowdown

Allow(limiter, ip, name, now) ==
  LET lim     == Cleaned(limiter, now)
      global  == refill(lim.global.credit, GlobalBurst, GlobalRefill, now - lim.global.last)
      bucket  == Bucket(lim, ip, now)
      account == Account(lim, name, now)
      allowed == global >= GlobalRefill /\ bucket.credit >= IPRefill
  IN  IF allowed
      THEN [allowed |-> TRUE, delay |-> failureDelay(account.failures),
            lim |-> [lim EXCEPT
                       !.global = [credit |-> global - GlobalRefill, last |-> now],
                       !.ips = Used(@, [bucket EXCEPT !.credit = @ - IPRefill], MaxIPs),
                       !.accounts = Used(@, account, MaxAccounts)]]
      ELSE [allowed |-> FALSE, delay |-> 0,
            lim |-> [lim EXCEPT !.global = [credit |-> global, last |-> now],
                                !.ips = Used(@, bucket, MaxIPs)]]

Fail(lim, name, now) ==
  LET account == Account(lim, name, now)
  IN  [lim EXCEPT !.accounts =
         Used(@, [account EXCEPT !.failures = Least(MaxFailures, @ + 1)], MaxAccounts)]

Success(lim, name) == [lim EXCEPT !.accounts = Without(@, name)]
==============================================================================
