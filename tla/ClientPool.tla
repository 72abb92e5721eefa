----------------------------- MODULE ClientPool -----------------------------
(***************************************************************************)
(* The global pool of HTTP clients (advancedClientPool, cycletls/client.go)*)
(* shared by every goroutine that serves a request: lookup under the lock, *)
(* creation outside it, insertion under it again with eviction of the least*)
(* recently used clients, the periodic cleanup and CycleTLS.Close.         *)
(*                                                                         *)
(* A configuration is all a caller asks for.  Its key is a function of it,   *)
(* not an injective one: the key leaves options out (HeaderOrder,          *)
(* TLS13AutoRetry, DisableGrease, TLSConfig, USpec, cookie attributes),    *)
(* joins the others without escaping them, and is half of a hash.          *)
(***************************************************************************)
EXTENDS Eviction

CONSTANTS Callers,     \* goroutines that call getOrCreateClient
          Keys,        \* client keys
          Configs,     \* configurations
          KeyOf,       \* the key of each configuration
          ConfigOf,    \* the configuration each caller asks for
          Reuse,       \* the callers with enableConnectionReuse
          None,
          MaxPool,     \* maxClientPoolSize
          MaxAge,      \* the age cleanupClientPool is called with
          MaxClock,    \* bound: the clock
          MaxClients   \* bound: clients created

Clients == 1..MaxClients

ASSUME PoolAssumption ==
  /\ KeyOf \in [Configs -> Keys]
  /\ ConfigOf \in [Callers -> Configs]
  /\ Reuse \subseteq Callers
  /\ None \notin Clients \cup Configs
  /\ MaxPool \in Nat /\ MaxPool >= 4   \* it evicts a quarter
  /\ MaxAge \in Nat /\ MaxClock \in Nat /\ MaxClients \in Nat

VARIABLES
  pool,      \* the client pooled under each key
  lastUsed,  \* LastUsed of the entries, 0 where there is none
  clock,     \* the time
  built,     \* the configuration each client was created with
  pc,        \* where each caller is
  client     \* the client each caller has

vars == <<pool, lastUsed, clock, built, pc, client>>

Filled == {k \in Keys : pool[k] # None}

TypeOK ==
  /\ pool \in [Keys -> Clients \cup {None}]
  /\ lastUsed \in [Keys -> 0..MaxClock]
  /\ clock \in 0..MaxClock
  /\ built \in [Clients -> Configs \cup {None}]
  /\ pc \in [Callers -> {"lookup", "create", "insert", "run", "done"}]
  /\ client \in [Callers -> Clients \cup {None}]
  /\ \A c \in Callers : pc[c] \in {"insert", "run"} => client[c] # None

Init ==
  /\ pool = [k \in Keys |-> None]
  /\ lastUsed = [k \in Keys |-> 0]
  /\ clock = 0
  /\ built = [n \in Clients |-> None]
  /\ pc = [c \in Callers |-> IF c \in Reuse THEN "lookup" ELSE "create"]
  /\ client = [c \in Callers |-> None]

Goto(c, point) == pc' = [pc EXCEPT ![c] = point]
Has(c, n) == client' = [client EXCEPT ![c] = n]

\* Mutant: every caller gets the same key, as when no option is hashed.
OneKeyForAll(c) == CHOOSE k \in Keys : TRUE

\* generateClientKey.
ClientKey(c) == KeyOf[ConfigOf[c]]

\* An entry is found: it is marked as used and its client returned.
Hit(c) ==
  LET k == ClientKey(c)
  IN  /\ pool[k] # None
      /\ lastUsed' = [lastUsed EXCEPT ![k] = clock]
      /\ Has(c, pool[k])
      /\ Goto(c, "run")
      /\ UNCHANGED pool

Lookup(c) ==
  /\ pc[c] = "lookup"
  /\ \/ Hit(c)
     \/ /\ pool[ClientKey(c)] = None
        /\ Goto(c, "create")
        /\ UNCHANGED <<pool, lastUsed, client>>
  /\ UNCHANGED <<clock, built>>

\* The next client, if the bound leaves one: clients are numbered as made.
Fresh == {n \in Clients : built[n] = None /\ \A m \in Clients : m < n => built[m] # None}

\* Mutant: the error of createNewClient is not looked at.
CreateUnchecked(c) ==
  /\ pc[c] = "create"
  /\ Goto(c, IF c \in Reuse THEN "insert" ELSE "run")
  /\ UNCHANGED <<pool, lastUsed, clock, built, client>>

\* createNewClient, outside the lock; without reuse that is all.  A proxy
\* address that cannot be used is an error.
Create(c) ==
  /\ pc[c] = "create"
  /\ \/ \E n \in Fresh :
          /\ built' = [built EXCEPT ![n] = ConfigOf[c]]
          /\ Has(c, n)
          /\ Goto(c, IF c \in Reuse THEN "insert" ELSE "run")
     \/ Goto(c, "done") /\ UNCHANGED <<built, client>>
  /\ UNCHANGED <<pool, lastUsed, clock>>

\* Mutant: the size is compared with > instead of >=.
EvictedLate == IF Cardinality(Filled) > MaxPool THEN Oldest(Filled, lastUsed, MaxPool \div 4) ELSE {{}}

\* The entries that make room for a new one: evictOldestClients removes them.
Evicted == IF Cardinality(Filled) >= MaxPool THEN Oldest(Filled, lastUsed, MaxPool \div 4) ELSE {{}}

Add(c, V) ==
  /\ pool' = [k \in Keys |-> IF k = ClientKey(c) THEN client[c]
                             ELSE IF k \in V THEN None ELSE pool[k]]
  /\ lastUsed' = [k \in Keys |-> IF k = ClientKey(c) THEN clock
                                 ELSE IF k \in V THEN 0 ELSE lastUsed[k]]
  /\ Goto(c, "run")
  /\ UNCHANGED client

\* Mutant: without the double check.
InsertBlindly(c) ==
  /\ pc[c] = "insert"
  /\ \E V \in Evicted : Add(c, V)
  /\ UNCHANGED <<clock, built>>

\* Under the lock again: another caller's client wins, otherwise the new one
\* is added.
Insert(c) ==
  /\ pc[c] = "insert"
  /\ \/ Hit(c)
     \/ pool[ClientKey(c)] = None /\ \E V \in Evicted : Add(c, V)
  /\ UNCHANGED <<clock, built>>

\* The caller is done with its request.
Return(c) ==
  /\ pc[c] = "run"
  /\ Goto(c, "done")
  /\ Has(c, None)
  /\ UNCHANGED <<pool, lastUsed, clock, built>>

Expired == {k \in Filled : clock - lastUsed[k] > MaxAge}

\* The entries of V leave the pool.
Remove(V) ==
  /\ pool' = [k \in Keys |-> IF k \in V THEN None ELSE pool[k]]
  /\ lastUsed' = [k \in Keys |-> IF k \in V THEN 0 ELSE lastUsed[k]]
  /\ UNCHANGED <<clock, built, pc, client>>

\* cleanupClientPool, from the ticker started by Init.
Cleanup ==
  /\ Expired # {}
  /\ Remove(Expired)

\* clearAllConnections, from CycleTLS.Close.
Clear == Remove(Filled)

Tick ==
  /\ clock < MaxClock
  /\ clock' = clock + 1
  /\ UNCHANGED <<pool, lastUsed, built, pc, client>>

Next ==
  \/ \E c \in Callers : Lookup(c) \/ Create(c) \/ Insert(c) \/ Return(c)
  \/ Cleanup \/ Clear \/ Tick

Spec == Init /\ [][Next]_vars

-----------------------------------------------------------------------------
(* Properties.                                                             *)

\* The pool never holds more than maxClientPoolSize clients, whatever number
\* of callers pass the first look before any of them inserts.
PoolBounded == Cardinality(Filled) <= MaxPool

\* Callers that race to create a client under one key agree on the winner: an
\* entry is kept or removed, never exchanged (the double check of
\* getOrCreateClient); otherwise every loser would open connections of its own.
EntryNotReplaced ==
  [][\A k \in Keys : pool[k] # None => pool'[k] \in {pool[k], None}]_vars

\* A caller runs its request on a client of its own key: whoever created it, and
\* whatever was evicted, cleaned up or inserted under the caller's feet.  Two
\* configurations with one key are served alike; no others are.
BuiltFor(n, k) == built[n] # None /\ KeyOf[built[n]] = k
ServedUnderKey ==
  \A c \in Callers : pc[c] = "run" => BuiltFor(client[c], KeyOf[ConfigOf[c]])

\* What ServedUnderKey needs to be inductive: what is pooled under a key
\* was built for that key, and what a caller is about to insert for the caller.
BuiltForKey ==
  /\ \A k \in Keys : pool[k] # None => BuiltFor(pool[k], k)
  /\ \A c \in Callers : pc[c] = "insert" => BuiltFor(client[c], KeyOf[ConfigOf[c]])

=============================================================================
