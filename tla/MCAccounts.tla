----------------------------- MODULE MCAccounts ------------------------------
EXTENDS Accounts, TLC

\* Requests and addresses are interchangeable.
Symmetry == Permutations(Requests) \cup Permutations(IPs) \cup Permutations(Names)
==============================================================================
