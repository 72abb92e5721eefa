----------------------- MODULE OldestSelectionProofs -----------------------
(***************************************************************************)
(* The eviction loop is correct for pools of every size and every number   *)
(* of evictions: it evicts the least recently used entries, as many as it  *)
(* was asked for.  The argument is the loop invariant LoopInv.             *)
(***************************************************************************)
EXTENDS OldestSelection, FiniteSetTheorems, TLAPS

LEMMA InitInv == Init => TypeOK /\ LoopInv
<1> SUFFICES ASSUME Init PROVE TypeOK /\ LoopInv
  OBVIOUS
<1>1. TypeOK
  BY SelectionAssumption DEF Init, TypeOK
<1>2. Injective /\ AllListed /\ FrontEvicted /\ FrontOldest /\ OldestSoFar
  BY SelectionAssumption
  DEF Init, Injective, AllListed, FrontEvicted, FrontOldest, OldestSoFar
<1> QED  BY <1>1, <1>2 DEF LoopInv

LEMMA StepType ==
  ASSUME TypeOK, LoopInv, [Next]_vars
  PROVE  TypeOK'
<1> USE SelectionAssumption DEF TypeOK
<1>1. CASE Outer
  BY <1>1 DEF Outer
<1>2. CASE Compare
  BY <1>2 DEF Compare
<1>3. CASE Swap
  <2>1. i \in 1..N /\ oldest \in 1..N
    BY <1>3 DEF Swap, LoopInv, OldestSoFar
  <2> QED  BY <1>3, <2>1 DEF Swap
<1>4. CASE UNCHANGED vars
  BY <1>4 DEF vars
<1> QED  BY <1>1, <1>2, <1>3, <1>4 DEF Next, Done

\* The swap exchanges two positions and nothing else.
LEMMA Swapped ==
  ASSUME TypeOK, LoopInv, Swap
  PROVE  /\ i \in 1..N /\ oldest \in i..N
         /\ entries'[i] = entries[oldest] /\ entries'[oldest] = entries[i]
         /\ \A p \in 1..N : p # i /\ p # oldest => entries'[p] = entries[p]
         /\ \A q \in i..N : Used(oldest) <= Used(q)
<1>1. i \in 1..N /\ oldest \in i..N /\ j = N + 1
  BY SelectionAssumption DEF Swap, TypeOK, LoopInv, OldestSoFar
<1>2. \A q \in i..N : Used(oldest) <= Used(q)
  BY <1>1, SelectionAssumption DEF Swap, TypeOK, LoopInv, OldestSoFar
<1> QED  BY <1>1, <1>2, SelectionAssumption DEF Swap, TypeOK

LEMMA StepInv ==
  ASSUME TypeOK, LoopInv, [Next]_vars
  PROVE  LoopInv'
<1> USE SelectionAssumption
<1>1. CASE Outer
  <2>1. i \in 1..(N + 1) /\ N \in Nat
    BY DEF TypeOK
  <2>2. (Injective /\ AllListed /\ FrontEvicted /\ FrontOldest)'
    BY <1>1 DEF Outer, LoopInv, Injective, AllListed, FrontEvicted, FrontOldest, Used
  <2>3. OldestSoFar'
    <3>1. CASE i <= count /\ i <= N
      <4>0. i \in 1..N
        BY <2>1, <3>1
      <4>1. lastUsed[entries[i]] \in Nat
        <5>1. entries[i] \in Keys
          BY <4>0 DEF TypeOK
        <5> QED  BY <5>1 DEF TypeOK
      <4>2. i' = i /\ j' = i + 1 /\ oldest' = i /\ lastUsed' = lastUsed /\ entries' = entries
        BY <1>1, <3>1 DEF Outer
      <4>3. \A q \in i..((i + 1) - 1) : q = i
        BY <2>1
      <4>4. \A q \in i'..(j' - 1) : lastUsed'[entries'[oldest']] <= lastUsed'[entries'[q]]
        BY <4>1, <4>2, <4>3
      <4> QED  BY <2>1, <3>1, <4>2, <4>4 DEF OldestSoFar, Used
    <3>2. CASE ~(i <= count /\ i <= N)
      BY <1>1, <3>2 DEF Outer, OldestSoFar
    <3> QED  BY <3>1, <3>2
  <2> QED  BY <2>2, <2>3 DEF LoopInv
<1>2. CASE Compare
  <2>1. (Injective /\ AllListed /\ FrontEvicted /\ FrontOldest)'
    BY <1>2 DEF Compare, LoopInv, Injective, AllListed, FrontEvicted, FrontOldest, Used
  <2>2. OldestSoFar'
    <3>1. /\ i \in 1..N /\ j \in 1..N /\ i < j /\ oldest \in i..N
          /\ \A q \in i..(j - 1) : Used(oldest) <= Used(q)
      BY <1>2 DEF Compare, LoopInv, OldestSoFar, TypeOK
    <3>2. \A q \in 1..N : Used(q) \in Nat
      BY DEF Used, TypeOK
    <3>3. \A q \in i..j : Used(IF Used(j) < Used(oldest) THEN j ELSE oldest) <= Used(q)
      <4>1. \A q \in i..j : q \in i..(j - 1) \/ q = j
        BY <3>1
      <4> QED  BY <3>1, <3>2, <4>1
    <3>4. entries' = entries /\ lastUsed' = lastUsed /\ i' = i /\ j' = j + 1
          /\ oldest' = IF Used(j) < Used(oldest) THEN j ELSE oldest
      BY <1>2 DEF Compare
    <3> QED  BY <3>1, <3>3, <3>4 DEF OldestSoFar, Used
  <2> QED  BY <2>1, <2>2 DEF LoopInv
<1>3. CASE Swap
  <2>1. /\ i \in 1..N /\ oldest \in i..N
        /\ entries'[i] = entries[oldest] /\ entries'[oldest] = entries[i]
        /\ \A p \in 1..N : p # i /\ p # oldest => entries'[p] = entries[p]
        /\ \A q \in i..N : Used(oldest) <= Used(q)
    BY <1>3, Swapped
  <2>2. lastUsed' = lastUsed /\ i' = i + 1 /\ pc' = "outer"
        /\ pool' = pool \ {entries[oldest]}
    BY <1>3 DEF Swap
  <2>3. Injective'
    BY <2>1, <2>2 DEF LoopInv, Injective
  <2>4. AllListed'
    <3>1. ASSUME NEW k \in Keys  PROVE \E p \in 1..N : entries'[p] = k
      <4>1. PICK p \in 1..N : entries[p] = k
        BY DEF LoopInv, AllListed
      <4>2. CASE p = i
        BY <2>1, <4>1, <4>2
      <4>3. CASE p = oldest
        BY <2>1, <4>1, <4>3
      <4> QED  BY <2>1, <4>1, <4>2, <4>3
    <3> QED  BY <3>1 DEF AllListed
  <2>5. \A p \in 1..(i - 1) : entries'[p] = entries[p]
    BY <2>1
  <2>6. FrontEvicted'
    <3>1. Keys \ pool = {entries[p] : p \in 1..(i - 1)}
      BY DEF LoopInv, FrontEvicted
    <3>2. entries[oldest] \in Keys
      BY <2>1 DEF TypeOK
    <3>3. Keys \ pool' = {entries[p] : p \in 1..(i - 1)} \cup {entries'[i]}
      BY <2>1, <2>2, <3>1, <3>2
    <3>4. 1..(i' - 1) = 1..(i - 1) \cup {i}
      BY <2>1, <2>2
    <3>5. {entries'[p] : p \in 1..(i' - 1)} = {entries[p] : p \in 1..(i - 1)} \cup {entries'[i]}
      BY <2>5, <3>4
    <3> QED  BY <3>3, <3>5 DEF FrontEvicted
  <2>7. FrontOldest'
    <3>1. ASSUME NEW p \in 1..i, NEW q \in (i + 1)..N
          PROVE  lastUsed[entries'[p]] <= lastUsed[entries'[q]]
      <4>1. PICK u \in i..N : entries'[q] = entries[u]
        BY <2>1
      <4>2. CASE p = i
        BY <2>1, <4>1, <4>2 DEF Used
      <4>3. CASE p \in 1..(i - 1)
        BY <2>5, <4>1, <4>3 DEF LoopInv, FrontOldest, Used
      <4> QED  BY <2>1, <4>2, <4>3
    <3> QED  BY <2>1, <2>2, <3>1 DEF FrontOldest, Used
  <2>8. OldestSoFar'
    BY <2>2 DEF OldestSoFar
  <2> QED  BY <2>3, <2>4, <2>6, <2>7, <2>8 DEF LoopInv
<1>4. CASE UNCHANGED vars
  BY <1>4 DEF vars, LoopInv, Injective, AllListed, FrontEvicted, FrontOldest,
              OldestSoFar, Used
<1> QED  BY <1>1, <1>2, <1>3, <1>4 DEF Next, Done

\* The loop never leaves the slice.
THEOREM LoopTypeCorrect == Spec => [](TypeOK /\ LoopInv)
<1>1. TypeOK /\ LoopInv /\ [Next]_vars => (TypeOK /\ LoopInv)'
  BY StepType, StepInv
<1> QED  BY <1>1, InitInv, PTL DEF Spec

\* Nothing is evicted while something that was used earlier is kept.
THEOREM LeastRecentlyUsedGoFirst == Spec => []EvictsOldest
<1>1. ASSUME TypeOK, LoopInv  PROVE EvictsOldest
  <2>1. SUFFICES ASSUME NEW k \in Keys \ pool, NEW q \in pool
                 PROVE  lastUsed[k] <= lastUsed[q]
    BY DEF EvictsOldest
  <2>2. PICK p \in 1..(i - 1) : entries[p] = k
    BY <1>1 DEF LoopInv, FrontEvicted
  <2>3. PICK u \in 1..N : entries[u] = q
    BY <1>1 DEF LoopInv, AllListed, TypeOK
  <2>4. u \in i..N
    BY <1>1, <2>3, SelectionAssumption DEF LoopInv, FrontEvicted, TypeOK
  <2> QED  BY <1>1, <2>2, <2>3, <2>4 DEF LoopInv, FrontOldest, Used
<1> QED  BY <1>1, LoopTypeCorrect, PTL

\* Each round evicts one more entry.
RoundsCounted == /\ IsFiniteSet(Keys \ pool) /\ Cardinality(Keys \ pool) = i - 1
                 /\ i <= count + 1
                 /\ pc = "inner" => i <= count
                 /\ pc = "done" => i > count \/ i > N

\* The slice has as many positions as the pool has keys.
LEMMA KeysCounted ==
  ASSUME TypeOK, LoopInv
  PROVE  IsFiniteSet(Keys) /\ Cardinality(Keys) = N
<1>1. IsFiniteSet(1..N) /\ Cardinality(1..N) = N
  BY SelectionAssumption, FS_Interval
<1>2. entries \in Bijection(1..N, Keys)
  <2>1. entries \in Injection(1..N, Keys)
    BY DEF TypeOK, LoopInv, Injective, Injection, IsInjective
  <2>2. entries \in Surjection(1..N, Keys)
    BY DEF TypeOK, LoopInv, AllListed, Surjection
  <2> QED  BY <2>1, <2>2 DEF Bijection
<1>3. ExistsBijection(1..N, Keys)
  BY <1>2 DEF ExistsBijection
<1> QED  BY <1>1, <1>3, FS_Bijection

\* The loop implements the eviction ClientPool is built on: it removes one of
\* the sets of least recently used entries of the size it was asked for.
THEOREM LoopEvictsAsPromised == Spec => []EvictsAsPromised
<1>1. Init => RoundsCounted
  <2> SUFFICES ASSUME Init PROVE RoundsCounted
    OBVIOUS
  <2>1. Keys \ pool = {}
    BY DEF Init
  <2> QED  BY <2>1, FS_EmptySet DEF Init, RoundsCounted
<1>2. ASSUME TypeOK, LoopInv, RoundsCounted, [Next]_vars
      PROVE  RoundsCounted'
  <2>1. CASE Outer
    <3>1. UNCHANGED <<count, i, pool>> /\ i \in Nat /\ count \in Nat /\ N \in Nat
      BY <1>2, <2>1, SelectionAssumption DEF Outer, TypeOK
    <3>2. (pc' = "inner" => i <= count) /\ (pc' = "done" => i > count \/ i > N)
      BY <2>1, <3>1 DEF Outer
    <3> QED  BY <1>2, <3>1, <3>2 DEF RoundsCounted
  <2>2. CASE Compare
    BY <1>2, <2>2 DEF Compare, RoundsCounted
  <2>3. CASE Swap
    <3>1. oldest \in i..N /\ i \in 1..N /\ entries[oldest] \in Keys
      BY <1>2, <2>3, Swapped DEF TypeOK
    <3>2. entries[oldest] \notin Keys \ pool
      <4>1. ASSUME NEW p \in 1..(i - 1)  PROVE entries[p] # entries[oldest]
        BY <1>2, <3>1, SelectionAssumption DEF LoopInv, Injective
      <4> QED  BY <1>2, <4>1 DEF LoopInv, FrontEvicted
    <3>3. Keys \ pool' = (Keys \ pool) \cup {entries[oldest]}
      BY <2>3, <3>1 DEF Swap
    <3>4. IsFiniteSet(Keys \ pool') /\ Cardinality(Keys \ pool') = (i - 1) + 1
      BY <1>2, <3>2, <3>3, FS_AddElement DEF RoundsCounted
    <3> QED  BY <1>2, <2>3, <3>1, <3>4 DEF Swap, RoundsCounted, TypeOK
  <2>4. CASE UNCHANGED vars
    BY <1>2, <2>4 DEF vars, RoundsCounted
  <2> QED  BY <1>2, <2>1, <2>2, <2>3, <2>4 DEF Next, Done
<1>3. ASSUME TypeOK, LoopInv, EvictsOldest, RoundsCounted  PROVE EvictsAsPromised
  <2>1. Cardinality(Keys) = N
    BY <1>3, KeysCounted
  <2>2. pc = "done" => Cardinality(Keys \ pool) = IF count < N THEN count ELSE N
    BY <1>3, SelectionAssumption DEF TypeOK, RoundsCounted
  <2>3. Keys \ (Keys \ pool) = pool
    BY <1>3 DEF TypeOK
  <2> QED  BY <1>3, <2>1, <2>2, <2>3 DEF EvictsAsPromised, EvictsOldest, Oldest
<1> QED
  BY <1>1, <1>2, <1>3, LoopTypeCorrect, LeastRecentlyUsedGoFirst, PTL DEF Spec

=============================================================================
