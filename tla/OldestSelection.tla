-------------------------- MODULE OldestSelection --------------------------
(***************************************************************************)
(* The loop of evictOldestClients (cycletls/client.go): a selection sort of*)
(* the pool's entries that stops after count rounds and deletes the entry  *)
(* each round brings to the front.  It runs under the pool's lock; the     *)
(* order in which the entries were collected from the map is arbitrary.    *)
(***************************************************************************)
EXTENDS Eviction

CONSTANTS Keys,      \* the keys of the pool
          N,         \* how many they are
          MaxCount,  \* bound: the argument
          Times      \* values of LastUsed

ASSUME SelectionAssumption ==
  N \in Nat /\ MaxCount \in Nat /\ Times \subseteq Nat

VARIABLES
  count,     \* the argument: entries to evict
  lastUsed,  \* LastUsed of every key
  entries,   \* the slice, by position
  i, j,      \* the loop variables
  oldest,    \* the position of the oldest entry seen in this round
  pool,      \* the keys still in the pool
  pc         \* "outer", "inner" or "done"

vars == <<count, lastUsed, entries, i, j, oldest, pool, pc>>

TypeOK ==
  /\ count \in 0..MaxCount
  /\ lastUsed \in [Keys -> Times]
  /\ entries \in [1..N -> Keys]
  /\ i \in 1..(N + 1) /\ j \in 1..(N + 1) /\ oldest \in 1..(N + 1)
  /\ pool \subseteq Keys
  /\ pc \in {"outer", "inner", "done"}

Init ==
  /\ count \in 0..MaxCount
  /\ lastUsed \in [Keys -> Times]
  /\ entries \in {e \in [1..N -> Keys] : \A k \in Keys : \E p \in 1..N : e[p] = k}
  /\ \A p, q \in 1..N : p # q => entries[p] # entries[q]
  /\ i = 1 /\ j = 1 /\ oldest = 1
  /\ pool = Keys
  /\ pc = "outer"

Used(p) == lastUsed[entries[p]]

\* Mutant: the loop runs past the end of the slice.
OuterUnbounded ==
  /\ pc = "outer"
  /\ IF i <= count
     THEN oldest' = i /\ j' = i + 1 /\ pc' = "inner"
     ELSE pc' = "done" /\ UNCHANGED <<j, oldest>>
  /\ UNCHANGED <<count, lastUsed, entries, i, pool>>

\* The head of the outer loop; positions count from 1.
Outer ==
  /\ pc = "outer"
  /\ IF i <= count /\ i <= N
     THEN oldest' = i /\ j' = i + 1 /\ pc' = "inner"
     ELSE pc' = "done" /\ UNCHANGED <<j, oldest>>
  /\ UNCHANGED <<count, lastUsed, entries, i, pool>>

\* Mutant: the comparison is against the first entry of the round.
CompareWithFirst ==
  /\ pc = "inner" /\ j <= N
  /\ oldest' = IF Used(j) < Used(i) THEN j ELSE oldest
  /\ j' = j + 1
  /\ UNCHANGED <<count, lastUsed, entries, i, pool, pc>>

\* One comparison of the inner loop.
Compare ==
  /\ pc = "inner" /\ j <= N
  /\ oldest' = IF Used(j) < Used(oldest) THEN j ELSE oldest
  /\ j' = j + 1
  /\ UNCHANGED <<count, lastUsed, entries, i, pool, pc>>

\* Mutant: the oldest entry is deleted but not moved out of the way.
SwapForgotten ==
  /\ pc = "inner" /\ j > N
  /\ pool' = pool \ {entries[oldest]}
  /\ i' = i + 1
  /\ pc' = "outer"
  /\ UNCHANGED <<count, lastUsed, entries, j, oldest>>

\* The swap, and the deletion of the entry it brought to position i.
Swap ==
  /\ pc = "inner" /\ j > N
  /\ entries' = [entries EXCEPT ![i] = entries[oldest], ![oldest] = entries[i]]
  /\ pool' = pool \ {entries[oldest]}
  /\ i' = i + 1
  /\ pc' = "outer"
  /\ UNCHANGED <<count, lastUsed, j, oldest>>

Done == pc = "done" /\ UNCHANGED vars

Next == Outer \/ Compare \/ Swap \/ Done

Spec == Init /\ [][Next]_vars

-----------------------------------------------------------------------------
(* Properties.                                                             *)

\* At no time has anything been evicted that was used later than an entry
\* still in the pool: the most recently used clients are the last to go.
EvictsOldest ==
  \A k \in Keys \ pool, q \in pool : lastUsed[k] <= lastUsed[q]

\* When the loop is through it has kept what ClientPool relies on: as many
\* entries as asked for are gone, or all there are, and they are the least
\* recently used ones.
EvictsAsPromised == pc = "done" => Keys \ pool \in Oldest(Keys, lastUsed, count)

\* Why EvictsOldest holds: the front of the slice is what was evicted, it is
\* no younger than the rest, and oldest points to the oldest entry compared.
Injective == \A p, q \in 1..N : entries[p] = entries[q] => p = q
FrontEvicted == Keys \ pool = {entries[p] : p \in 1..(i - 1)}
FrontOldest == \A p \in 1..(i - 1), q \in i..N : Used(p) <= Used(q)
OldestSoFar ==
  pc = "inner" => /\ i <= N /\ i < j /\ oldest \in i..N
                  /\ \A q \in i..(j - 1) : Used(oldest) <= Used(q)
AllListed == \A k \in Keys : \E p \in 1..N : entries[p] = k

LoopInv == Injective /\ AllListed /\ FrontEvicted /\ FrontOldest /\ OldestSoFar

=============================================================================
