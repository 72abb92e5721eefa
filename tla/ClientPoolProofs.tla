-------------------------- MODULE ClientPoolProofs --------------------------
(***************************************************************************)
(* Theorems about ClientPool for any callers, keys and configurations: the *)
(* pool keeps its bound, racing callers agree on one client per key, and   *)
(* everybody is served by a client of the key of what they asked for.      *)
(***************************************************************************)
EXTENDS ClientPool, FiniteSetTheorems, TLAPS

LEMMA KeyType ==
  ASSUME NEW c \in Callers
  PROVE  ClientKey(c) \in Keys /\ ConfigOf[c] \in Configs
BY PoolAssumption DEF ClientKey

LEMMA InitType == Init => TypeOK
BY PoolAssumption DEF Init, TypeOK

LEMMA NextType ==
  ASSUME TypeOK, [Next]_vars
  PROVE  TypeOK'
<1> USE PoolAssumption, KeyType DEF TypeOK, Goto, Has
<1>1. ASSUME NEW c \in Callers, Lookup(c)  PROVE TypeOK'
  BY <1>1 DEF Lookup, Hit
<1>2. ASSUME NEW c \in Callers, Create(c)  PROVE TypeOK'
  BY <1>2 DEF Create, Fresh
<1>3. ASSUME NEW c \in Callers, Insert(c)  PROVE TypeOK'
  <2>1. CASE Hit(c)
    BY <1>3, <2>1 DEF Insert, Hit
  <2>2. ASSUME NEW V, Add(c, V)  PROVE TypeOK'
    <3>1. client[c] \in Clients
      BY <1>3 DEF Insert
    <3>2. pool' \in [Keys -> Clients \cup {None}] /\ lastUsed' \in [Keys -> 0..MaxClock]
      BY <2>2, <3>1 DEF Add
    <3> QED  BY <1>3, <2>2, <3>1, <3>2 DEF Insert, Add
  <2> QED  BY <1>3, <2>1, <2>2 DEF Insert
<1>4. ASSUME NEW c \in Callers, Return(c)  PROVE TypeOK'
  BY <1>4 DEF Return
<1>5. ASSUME NEW V, Remove(V)  PROVE TypeOK'
  BY <1>5 DEF Remove
<1>6. CASE Tick
  BY <1>6 DEF Tick
<1>7. CASE UNCHANGED vars
  BY <1>7 DEF vars
<1> QED  BY <1>1, <1>2, <1>3, <1>4, <1>5, <1>6, <1>7 DEF Next, Cleanup, Clear

\* A caller that inserts or runs has a client, the pool holds clients only.
THEOREM TypeCorrect == Spec => []TypeOK
<1>1. TypeOK /\ [Next]_vars => TypeOK'
  BY NextType
<1> QED  BY <1>1, InitType, PTL DEF Spec

-----------------------------------------------------------------------------
(* The bound.                                                              *)

Bounded == IsFiniteSet(Filled) /\ PoolBounded

\* Whatever makes room leaves room for one.
LEMMA RoomMade ==
  ASSUME Bounded, NEW V \in Evicted
  PROVE  /\ V \subseteq Filled
         /\ IsFiniteSet(Filled \ V) /\ Cardinality(Filled \ V) + 1 <= MaxPool
<1>1. IsFiniteSet(Filled) /\ Cardinality(Filled) \in Nat /\ Cardinality(Filled) <= MaxPool
  BY FS_CardinalityType DEF Bounded, PoolBounded
<1>2. CASE Cardinality(Filled) >= MaxPool
  <2>1. V \in Oldest(Filled, lastUsed, MaxPool \div 4)
    BY <1>2 DEF Evicted
  <2>2. MaxPool \div 4 \in Nat /\ MaxPool \div 4 >= 1 /\ MaxPool \div 4 <= MaxPool
    BY PoolAssumption
  <2>3. V \subseteq Filled /\ Cardinality(V) >= 1
    BY <1>1, <1>2, <2>1, <2>2, PoolAssumption DEF Oldest
  <2>4. IsFiniteSet(V) /\ Cardinality(V) \in Nat
    BY <1>1, <2>3, FS_Subset, FS_CardinalityType
  <2>5. IsFiniteSet(Filled \ V) /\ Cardinality(Filled \ V) = Cardinality(Filled) - Cardinality(Filled \cap V)
    BY <1>1, FS_Difference
  <2>6. Filled \cap V = V
    BY <2>3
  <2>7. Cardinality(Filled \ V) = Cardinality(Filled) - Cardinality(V)
    BY <2>5, <2>6
  <2>8. Cardinality(Filled \ V) + 1 <= MaxPool
    <3>1. \A f, v \in Nat : f <= MaxPool /\ v >= 1 => (f - v) + 1 <= MaxPool
      BY PoolAssumption
    <3> QED  BY <1>1, <2>3, <2>4, <2>7, <3>1
  <2> QED  BY <2>3, <2>5, <2>8
<1>3. CASE ~(Cardinality(Filled) >= MaxPool)
  <2>1. V = {} /\ Filled \ V = Filled
    BY <1>3 DEF Evicted
  <2> QED  BY <1>1, <1>3, <2>1, PoolAssumption
<1> QED  BY <1>2, <1>3

\* The pool never exceeds maxClientPoolSize, however many callers are past
\* their first look at the pool when they come to insert.
THEOREM PoolStaysBounded == Spec => []PoolBounded
<1>1. Init => Bounded
  <2> SUFFICES ASSUME Init PROVE Bounded
    OBVIOUS
  <2>1. Filled = {}
    BY DEF Init, Filled
  <2> QED  BY <2>1, FS_EmptySet, PoolAssumption DEF Bounded, PoolBounded
<1>2. ASSUME TypeOK, Bounded, [Next]_vars  PROVE Bounded'
  <2>1. ASSUME Filled' \subseteq Filled  PROVE Bounded'
    <3>1. IsFiniteSet(Filled') /\ Cardinality(Filled') <= Cardinality(Filled)
      BY <1>2, <2>1, FS_Subset DEF Bounded
    <3>2. Cardinality(Filled') \in Nat /\ Cardinality(Filled) \in Nat
      BY <1>2, <3>1, FS_CardinalityType DEF Bounded
    <3> QED  BY <1>2, <3>1, <3>2, PoolAssumption DEF Bounded, PoolBounded
  <2>2. CASE pool' = pool
    <3>1. Filled' = Filled
      BY <2>2 DEF Filled
    <3> QED  BY <2>1, <3>1
  <2>3. ASSUME NEW c \in Callers, NEW V \in Evicted, Add(c, V)  PROVE Bounded'
    <3>1. Filled' \subseteq (Filled \ V) \cup {ClientKey(c)}
      BY <1>2, <2>3 DEF Add, Filled, TypeOK
    <3>2. IsFiniteSet(Filled \ V) /\ Cardinality(Filled \ V) + 1 <= MaxPool
      BY <1>2, <2>3, RoomMade
    <3>3. /\ IsFiniteSet((Filled \ V) \cup {ClientKey(c)})
          /\ Cardinality((Filled \ V) \cup {ClientKey(c)}) <= MaxPool
      <4>1. Cardinality(Filled \ V) \in Nat
        BY <3>2, FS_CardinalityType
      <4>2. /\ IsFiniteSet((Filled \ V) \cup {ClientKey(c)})
            /\ \/ Cardinality((Filled \ V) \cup {ClientKey(c)}) = Cardinality(Filled \ V)
               \/ Cardinality((Filled \ V) \cup {ClientKey(c)}) = Cardinality(Filled \ V) + 1
        BY <3>2, FS_AddElement
      <4>3. MaxPool \in Nat
        BY PoolAssumption
      <4> QED  BY <3>2, <4>1, <4>2, <4>3
    <3>4. IsFiniteSet(Filled') /\ Cardinality(Filled') <= Cardinality((Filled \ V) \cup {ClientKey(c)})
      BY <3>1, <3>3, FS_Subset
    <3>5. Cardinality(Filled') \in Nat /\ Cardinality((Filled \ V) \cup {ClientKey(c)}) \in Nat
      BY <3>3, <3>4, FS_CardinalityType
    <3> QED  BY <3>3, <3>4, <3>5, PoolAssumption DEF Bounded, PoolBounded
  <2>4. ASSUME NEW V, Remove(V)  PROVE Bounded'
    <3>1. Filled' \subseteq Filled
      BY <1>2, <2>4 DEF Remove, Filled, TypeOK
    <3> QED  BY <2>1, <3>1
  <2> QED
    BY <1>2, <2>2, <2>3, <2>4
    DEF Next, Lookup, Hit, Create, Insert, Return, Cleanup, Clear, Tick, vars
<1>3. Bounded => PoolBounded
  BY DEF Bounded
<1> QED  BY <1>1, <1>2, <1>3, TypeCorrect, PTL DEF Spec

-----------------------------------------------------------------------------
(* Sharing.                                                                *)

\* An entry is kept or removed, never exchanged for another client.
THEOREM FirstInserterWins == Spec => EntryNotReplaced
<1> DEFINE Kept == \A k \in Keys : pool[k] # None => pool'[k] \in {pool[k], None}
<1>1. ASSUME TypeOK, [Next]_vars  PROVE [Kept]_vars
  <2>1. CASE pool' = pool
    BY <2>1
  <2>2. ASSUME NEW c \in Callers, NEW V, Add(c, V), pool[ClientKey(c)] = None  PROVE Kept
    BY <2>2 DEF Add
  <2>3. ASSUME NEW V, Remove(V)  PROVE Kept
    BY <2>3 DEF Remove
  <2> QED
    BY <1>1, <2>1, <2>2, <2>3
    DEF Next, Lookup, Hit, Create, Insert, Return, Cleanup, Clear, Tick, vars
<1>2. TypeOK /\ [Next]_vars => [Kept]_vars
  BY <1>1
<1> QED  BY <1>2, TypeCorrect, PTL DEF Spec, EntryNotReplaced

Faithful == BuiltForKey /\ ServedUnderKey

\* Whatever the keys of the configurations are, every request runs on a client
\* built for a configuration of the same key: no race, eviction or cleanup makes
\* the pool hand out the client of another.  That two configurations with one
\* key do share a client is the keys' doing, and not excluded.
THEOREM ServedByKey == Spec => []ServedUnderKey
<1>1. Init => Faithful
  BY DEF Init, Faithful, BuiltForKey, ServedUnderKey
<1>2. ASSUME TypeOK, Faithful, [Next]_vars  PROVE Faithful'
  <2>t. /\ \A k \in Keys : pool[k] \in Clients \cup {None}
        /\ \A c \in Callers : ClientKey(c) \in Keys
    BY <1>2, KeyType DEF TypeOK
  <2>1. ASSUME NEW c \in Callers, Hit(c), UNCHANGED built  PROVE Faithful'
    <3>1. BuiltFor(pool[ClientKey(c)], ClientKey(c))
      BY <1>2, <2>1, <2>t DEF Hit, Faithful, BuiltForKey, ClientKey
    <3>2. BuiltForKey'
      BY <1>2, <2>1 DEF Hit, Faithful, BuiltForKey, BuiltFor, ClientKey, TypeOK, Goto, Has
    <3>3. ServedUnderKey'
      BY <1>2, <2>1, <3>1 DEF Hit, Faithful, ServedUnderKey, BuiltFor, ClientKey, TypeOK, Goto, Has
    <3> QED  BY <3>2, <3>3 DEF Faithful
  <2>2. ASSUME NEW c \in Callers, Create(c)  PROVE Faithful'
    <3>1. ASSUME NEW n \in Fresh, built' = [built EXCEPT ![n] = ConfigOf[c]], Has(c, n),
                 Goto(c, IF c \in Reuse THEN "insert" ELSE "run")
          PROVE  Faithful'
      <4>1. built[n] = None /\ n \in Clients
        BY <3>1 DEF Fresh
      <4>2. \A d \in Callers : ConfigOf[d] # None
        BY PoolAssumption, KeyType
      <4>3. ASSUME NEW m \in Clients, NEW k \in Keys, BuiltFor(m, k)
            PROVE  BuiltFor(m, k)'
        BY <1>2, <3>1, <4>1, <4>2, <4>3 DEF TypeOK, BuiltFor
      <4>4. BuiltFor(n, KeyOf[ConfigOf[c]])'
        BY <1>2, <3>1, <4>1, <4>2 DEF TypeOK, BuiltFor
      <4>5. \A d \in Callers : d # c => client'[d] = client[d] /\ pc'[d] = pc[d]
        BY <1>2, <3>1 DEF TypeOK, Has, Goto
      <4>6. client'[c] = n
        BY <1>2, <3>1 DEF TypeOK, Has
      <4>7. \A d \in Callers : pc[d] \in {"insert", "run"} => client[d] \in Clients
        BY <1>2 DEF TypeOK
      <4>k. \A d \in Callers : KeyOf[ConfigOf[d]] \in Keys
        BY <2>t DEF ClientKey
      <4>8. BuiltForKey'
        BY <4>k, <1>2, <2>2, <2>t, <4>3, <4>4, <4>5, <4>6, <4>7 DEF Create, Faithful, BuiltForKey, ClientKey
      <4>9. ServedUnderKey'
        BY <4>k, <1>2, <4>3, <4>4, <4>5, <4>6, <4>7 DEF Faithful, ServedUnderKey
      <4> QED  BY <4>8, <4>9 DEF Faithful
    <3>2. ASSUME Goto(c, "done"), UNCHANGED <<built, client>>  PROVE Faithful'
      BY <1>2, <2>2, <3>2 DEF Create, Faithful, BuiltForKey, ServedUnderKey, BuiltFor, ClientKey, TypeOK, Goto
    <3> QED  BY <2>2, <3>1, <3>2 DEF Create
  <2>3. ASSUME NEW c \in Callers, NEW V, pc[c] = "insert", Add(c, V), UNCHANGED built
        PROVE  Faithful'
    <3>1. BuiltFor(client[c], KeyOf[ConfigOf[c]])
      BY <1>2, <2>3 DEF Faithful, BuiltForKey
    <3>2. BuiltForKey'
      BY <1>2, <2>3, <3>1 DEF Add, Faithful, BuiltForKey, BuiltFor, ClientKey, TypeOK, Goto
    <3>3. ServedUnderKey'
      BY <1>2, <2>3, <3>1 DEF Add, Faithful, ServedUnderKey, BuiltFor, ClientKey, TypeOK, Goto
    <3> QED  BY <3>2, <3>3 DEF Faithful
  <2>4. ASSUME NEW c \in Callers, Lookup(c)  PROVE Faithful'
    <3>1. CASE Hit(c)
      BY <2>1, <2>4, <3>1 DEF Lookup
    <3>2. CASE Goto(c, "create") /\ UNCHANGED <<pool, client, built>>
      BY <1>2, <3>2 DEF Faithful, BuiltForKey, ServedUnderKey, BuiltFor, ClientKey, TypeOK, Goto
    <3> QED  BY <2>4, <3>1, <3>2 DEF Lookup
  <2>5. ASSUME NEW c \in Callers, Return(c)  PROVE Faithful'
    BY <1>2, <2>5 DEF Return, Faithful, BuiltForKey, ServedUnderKey, BuiltFor, ClientKey, TypeOK, Goto, Has
  <2>6. ASSUME NEW V, Remove(V)  PROVE Faithful'
    BY <1>2, <2>6 DEF Remove, Faithful, BuiltForKey, ServedUnderKey, BuiltFor
  <2>7. CASE UNCHANGED <<pool, built, pc, client>>
    BY <1>2, <2>7 DEF Faithful, BuiltForKey, ServedUnderKey, BuiltFor
  <2>8. ASSUME NEW c \in Callers, Insert(c)  PROVE Faithful'
    BY <2>1, <2>3, <2>8 DEF Insert
  <2> QED
    BY <1>2, <2>2, <2>4, <2>5, <2>6, <2>7, <2>8 DEF Next, Cleanup, Clear, Tick, vars
<1>3. Faithful => ServedUnderKey
  BY DEF Faithful
<1> QED  BY <1>1, <1>2, <1>3, TypeCorrect, PTL DEF Spec

=============================================================================
