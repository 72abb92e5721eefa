------------------------------ MODULE Eviction ------------------------------
(***************************************************************************)
(* What evictOldestClients (cycletls/client.go) promises to whoever calls  *)
(* it: ClientPool evicts any of these sets, and the loop of OldestSelection*)
(* is shown to pick one of them.                                           *)
(***************************************************************************)
EXTENDS Naturals, FiniteSets

\* The sets of count least recently used entries, any among equals, or of all
\* entries when there are no more than that.
Oldest(Entries, lastUsed, count) ==
  {V \in SUBSET Entries :
     /\ Cardinality(V) = IF count < Cardinality(Entries) THEN count
                         ELSE Cardinality(Entries)
     /\ \A k \in V, j \in Entries \ V : lastUsed[k] <= lastUsed[j]}

=============================================================================
