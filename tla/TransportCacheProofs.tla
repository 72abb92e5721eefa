------------------------ MODULE TransportCacheProofs ------------------------
(***************************************************************************)
(* Proofs about TransportCache for every number of requests, addresses,    *)
(* connections and semaphores, and for every set of secure or HTTP/2       *)
(* requests: type correctness, the conservation of the semaphores, the     *)
(* pairing of the two caches, and the serialisation of transport creation. *)
(***************************************************************************)
EXTENDS TransportCache, TLAPS

-----------------------------------------------------------------------------
(* Types.                                                                  *)

LEMMA Distinct ==
  /\ DialPoints \subseteq Points
  /\ None \notin Conns /\ None \notin Sems /\ None \notin Transports
  /\ Plain \notin Conns /\ Plain # None
BY CacheAssumption DEF DialPoints, CreationPoints, Points, Conns, Sems, Transports

LEMMA InitType == Init => TypeOK
BY Distinct, CacheAssumption
DEF Init, TypeOK, VarTypes, Known, Creating, CreationPoints, Points, DialPoints, Conns, Sems, Transports

\* A request moves itself and no other.
LEMMA StepLocal ==
  ASSUME VarTypes, NEW r \in Requests, Step(r), NEW q \in Requests, q # r
  PROVE  pc'[q] = pc[q] /\ using'[q] = using[q] /\ conn'[q] = conn[q] /\ sem'[q] = sem[q]
<1> USE DEF VarTypes, Goto, Keep, RunOn, localVars
<1>1. CASE Lookup(r)
  BY <1>1 DEF Lookup
<1>2. CASE GetPlain(r)
  BY <1>2 DEF GetPlain
<1>3. CASE GetSemaphore(r)
  BY <1>3 DEF GetSemaphore
<1>4. CASE Acquire(r)
  BY <1>4 DEF Acquire
<1>5. CASE Recheck(r)
  BY <1>5 DEF Recheck
<1>6. CASE Release(r)
  BY <1>6 DEF Release
<1>7. CASE Relook(r)
  BY <1>7 DEF Relook
<1>8. CASE DialCached(r)
  BY <1>8 DEF DialCached, ReturnConn
<1>9. CASE DialFresh(r)
  BY <1>9 DEF DialFresh, ReturnError
<1>10. CASE Connect(r)
  BY <1>10 DEF Connect, ReturnError
<1>11. CASE Handshake(r)
  BY <1>11 DEF Handshake, ReturnError
<1>12. CASE Publish(r)
  BY <1>12 DEF Publish, ReturnConn, ReturnNegotiated, CacheTransport
<1>13. CASE Overwrite(r)
  BY <1>13 DEF Overwrite, ReturnNegotiated, CacheTransport
<1>14. CASE Use(r)
  BY <1>14 DEF Use
<1>15. CASE UseRefused(r)
  BY <1>15 DEF UseRefused
<1>16. CASE UseTls(r)
  BY <1>16 DEF UseTls
<1>17. CASE Headers(r)
  BY <1>17 DEF Headers
<1>18. CASE Evict(r)
  BY <1>18 DEF Evict
<1>19. CASE Body(r)
  BY <1>19 DEF Body
<1>20. CASE Finish(r)
  BY <1>20 DEF Finish, CloseExcept, Without
<1>21. CASE GetRefused(r)
  BY <1>21 DEF GetRefused
<1>22. CASE Reconnect(r)
  BY <1>22 DEF Reconnect, ReturnError
<1> QED
  BY <1>1, <1>2, <1>3, <1>4, <1>5, <1>6, <1>7, <1>8, <1>9, <1>10, <1>11, <1>12, <1>13, <1>14, <1>15, <1>16, <1>17, <1>18, <1>19, <1>20, <1>21, <1>22 DEF Step, Bounded, Unbounded

\* The variables every request shares keep their types.
LEMMA StepShared ==
  ASSUME TypeOK, NEW r \in Requests, Step(r)
  PROVE  VarTypes'
<1> USE Distinct, CacheAssumption
    DEF TypeOK, VarTypes, Known, Goto, Keep, RunOn, cacheVars, semVars, connVars,
        localVars, DialPoints, CreationPoints, Points, Creating
<1>1. CASE Lookup(r)
  BY <1>1 DEF Lookup
<1>2. CASE GetPlain(r)
  BY <1>2 DEF GetPlain, Transports
<1>3. CASE GetSemaphore(r)
  <2>1. AddrOf[r] \in Addrs
    OBVIOUS
  <2>2. CASE sems[AddrOf[r]] = None
    <3>1. nSems + 1 \in Sems /\ nSems + 1 \in 0..MaxSems
      BY <1>3, <2>2 DEF GetSemaphore, Sems
    <3> QED  BY <1>3, <2>1, <2>2, <3>1 DEF GetSemaphore
  <2>3. CASE sems[AddrOf[r]] # None
    BY <1>3, <2>1, <2>3 DEF GetSemaphore
  <2> QED  BY <2>2, <2>3
<1>4. CASE Acquire(r)
  BY <1>4 DEF Acquire
<1>5. CASE Recheck(r)
  BY <1>5 DEF Recheck
<1>6. CASE Release(r)
  BY <1>6 DEF Release
<1>7. CASE Relook(r)
  BY <1>7 DEF Relook
<1>8. CASE DialCached(r)
  <2>1. AddrOf[r] \in Addrs /\ conns[AddrOf[r]] \in Conns
    BY <1>8 DEF DialCached
  <2>2. using[r] = None \/ using[r] \in Conns
    BY <1>8 DEF DialCached, Transports
  <2>3. conn' \in [Requests -> Conns \cup {None}] /\ pc' \in [Requests -> Points]
    BY <1>8, <2>1 DEF DialCached, ReturnConn
  <2>4. idle' \in [Conns -> SUBSET Conns]
    BY <1>8, <2>1, <2>2 DEF DialCached, ReturnConn
  <2> QED  BY <1>8, <2>3, <2>4 DEF DialCached
<1>9. CASE DialFresh(r)
  BY <1>9 DEF DialFresh, ReturnError
<1>10. CASE Connect(r)
  BY <1>10 DEF Connect, ReturnError
<1>11. CASE Handshake(r)
  <2>1. CASE nConns < MaxConns /\ nConns' = nConns + 1 /\ open' = open \cup {nConns + 1}
            /\ conn' = [conn EXCEPT ![r] = nConns + 1]
            /\ pc' = [pc EXCEPT ![r] = IF pc[r] = "handshake" THEN "publish" ELSE "overwrite"]
    <3>1. nConns + 1 \in Conns /\ nConns + 1 \in 0..MaxConns
      BY <2>1 DEF Conns
    <3> QED  BY <1>11, <2>1, <3>1 DEF Handshake
  <2>2. CASE ReturnError(r) /\ UNCHANGED <<nConns, open>>
    BY <1>11, <2>2 DEF Handshake, ReturnError
  <2>3. CASE Goto(r, "reconnect") /\ UNCHANGED <<nConns, open, conn>>
    BY <1>11, <2>3 DEF Handshake
  <2> QED  BY <1>11, <2>1, <2>2, <2>3 DEF Handshake
<1>12. CASE Publish(r)
  BY <1>12 DEF Publish, ReturnConn, ReturnNegotiated, CacheTransport, Transports
<1>13. CASE Overwrite(r)
  BY <1>13 DEF Overwrite, ReturnNegotiated, CacheTransport, Transports
<1>14. CASE Use(r)
  BY <1>14 DEF Use
<1>15. CASE UseRefused(r)
  BY <1>15 DEF UseRefused
<1>16. CASE UseTls(r)
  BY <1>16 DEF UseTls
<1>17. CASE Headers(r)
  BY <1>17 DEF Headers
<1>18. CASE Evict(r)
  BY <1>18 DEF Evict, Transports
<1>19. CASE Body(r)
  BY <1>19 DEF Body
<1>20. CASE Finish(r)
  <2>1. {sems[a] : a \in Filled(sems)} \subseteq Sems
    BY DEF Filled
  <2> QED  BY <1>20, <2>1 DEF Finish, CloseExcept, Without
<1>21. CASE GetRefused(r)
  BY <1>21 DEF GetRefused
<1>22. CASE Reconnect(r)
  BY <1>22 DEF Reconnect, ReturnError
<1> QED
  BY <1>1, <1>2, <1>3, <1>4, <1>5, <1>6, <1>7, <1>8, <1>9, <1>10, <1>11, <1>12, <1>13, <1>14, <1>15, <1>16, <1>17, <1>18, <1>19, <1>20, <1>21, <1>22 DEF Step, Bounded, Unbounded

\* A request knows at its next point what it has to know there.
LEMMA StepKnown ==
  ASSUME TypeOK, NEW r \in Requests, Step(r)
  PROVE  Known(r)'
<1> USE Distinct, CacheAssumption
    DEF TypeOK, VarTypes, Known, Goto, Keep, RunOn, cacheVars, semVars, connVars,
        localVars, DialPoints, CreationPoints, Creating
<1>1. CASE Lookup(r)
  BY <1>1 DEF Lookup
<1>2. CASE GetPlain(r)
  BY <1>2 DEF GetPlain
<1>3. CASE GetSemaphore(r)
  BY <1>3 DEF GetSemaphore
<1>4. CASE Acquire(r)
  BY <1>4 DEF Acquire
<1>5. CASE Recheck(r)
  BY <1>5 DEF Recheck
<1>6. CASE Release(r)
  BY <1>6 DEF Release
<1>7. CASE Relook(r)
  BY <1>7 DEF Relook
<1>8. CASE DialCached(r)
  BY <1>8 DEF DialCached, ReturnConn
<1>9. CASE DialFresh(r)
  BY <1>9 DEF DialFresh, ReturnError
<1>10. CASE Connect(r)
  BY <1>10 DEF Connect, ReturnError
<1>11. CASE Handshake(r)
  BY <1>11 DEF Handshake, ReturnError, Conns
<1>12. CASE Publish(r)
  BY <1>12 DEF Publish, ReturnConn, ReturnNegotiated, CacheTransport
<1>13. CASE Overwrite(r)
  BY <1>13 DEF Overwrite, ReturnNegotiated, CacheTransport
<1>14. CASE Use(r)
  BY <1>14 DEF Use, Untracked
<1>15. CASE UseRefused(r)
  BY <1>15 DEF UseRefused
<1>16. CASE UseTls(r)
  BY <1>16 DEF UseTls
<1>17. CASE Headers(r)
  BY <1>17 DEF Headers
<1>18. CASE Evict(r)
  BY <1>18 DEF Evict
<1>19. CASE Body(r)
  BY <1>19 DEF Body
<1>20. CASE Finish(r)
  BY <1>20 DEF Finish, CloseExcept, Without
<1>21. CASE GetRefused(r)
  BY <1>21 DEF GetRefused
<1>22. CASE Reconnect(r)
  BY <1>22 DEF Reconnect, ReturnError
<1> QED
  BY <1>1, <1>2, <1>3, <1>4, <1>5, <1>6, <1>7, <1>8, <1>9, <1>10, <1>11, <1>12, <1>13, <1>14, <1>15, <1>16, <1>17, <1>18, <1>19, <1>20, <1>21, <1>22 DEF Step, Bounded, Unbounded

LEMMA NextType ==
  ASSUME TypeOK, [Next]_vars
  PROVE  TypeOK'
<1>1. ASSUME NEW r \in Requests, Step(r)  PROVE TypeOK'
  <2>1. VarTypes'
    BY <1>1, StepShared
  <2>2. ASSUME NEW q \in Requests  PROVE Known(q)'
    <3>1. CASE q = r
      BY <1>1, <3>1, StepKnown
    <3>2. CASE q # r
      BY <1>1, <3>2, StepLocal DEF TypeOK, Known, Creating
    <3> QED  BY <3>1, <3>2
  <2> QED  BY <2>1, <2>2 DEF TypeOK
<1>2. ASSUME NEW r \in Requests, Deadline(r)  PROVE TypeOK'
  BY <1>2 DEF Deadline, TypeOK, VarTypes, Known, Creating, cacheVars, semVars,
              connVars, localVars
<1>3. CASE DropClient
  <2>1. {sems[a] : a \in Filled(sems)} \subseteq Sems
    BY DEF Filled, TypeOK, VarTypes
  <2> QED  BY <1>3, <2>1, CacheAssumption
           DEF DropClient, CloseExcept, Without, TypeOK, VarTypes, Known, Creating, localVars
<1>4. CASE UNCHANGED vars
  BY <1>4 DEF vars, TypeOK, VarTypes, Known, Creating
<1> QED  BY <1>1, <1>2, <1>3, <1>4 DEF Next, Terminated

\* The maps, the semaphores and every request's knowledge have their types in
\* every reachable state; in particular RoundTrip never runs a nil transport.
THEOREM TypeCorrect == Spec => []TypeOK
<1>1. TypeOK /\ [Next]_vars => TypeOK'
  BY NextType
<1> QED  BY <1>1, InitType, PTL DEF Spec

-----------------------------------------------------------------------------
(* The two caches.                                                         *)

LEMMA StepPaired ==
  ASSUME TypeOK, CachedConnectionHasTransport, NEW r \in Requests, Step(r)
  PROVE  CachedConnectionHasTransport'
<1> USE Distinct, CacheAssumption
    DEF TypeOK, VarTypes, Known, cacheVars, CachedConnectionHasTransport
<1>1. CASE Lookup(r)
  BY <1>1 DEF Lookup
<1>2. CASE GetPlain(r)
  BY <1>2 DEF GetPlain
<1>3. CASE GetSemaphore(r)
  BY <1>3 DEF GetSemaphore
<1>4. CASE Acquire(r)
  BY <1>4 DEF Acquire
<1>5. CASE Recheck(r)
  BY <1>5 DEF Recheck
<1>6. CASE Release(r)
  BY <1>6 DEF Release
<1>7. CASE Relook(r)
  BY <1>7 DEF Relook
<1>8. CASE DialCached(r)
  BY <1>8 DEF DialCached, ReturnConn
<1>9. CASE DialFresh(r)
  BY <1>9 DEF DialFresh, ReturnError
<1>10. CASE Connect(r)
  BY <1>10 DEF Connect, ReturnError
<1>11. CASE Handshake(r)
  BY <1>11 DEF Handshake, ReturnError
<1>12. CASE Publish(r)
  BY <1>12 DEF Publish, ReturnConn, ReturnNegotiated, CacheTransport
<1>13. CASE Overwrite(r)
  BY <1>13 DEF Overwrite, ReturnNegotiated, CacheTransport
<1>14. CASE Use(r)
  BY <1>14 DEF Use
<1>15. CASE UseRefused(r)
  BY <1>15 DEF UseRefused
<1>16. CASE UseTls(r)
  BY <1>16 DEF UseTls
<1>17. CASE Headers(r)
  BY <1>17 DEF Headers
<1>18. CASE Evict(r)
  BY <1>18 DEF Evict
<1>19. CASE Body(r)
  BY <1>19 DEF Body
<1>20. CASE Finish(r)
  BY <1>20 DEF Finish, CloseExcept, Without
<1>21. CASE GetRefused(r)
  BY <1>21 DEF GetRefused
<1>22. CASE Reconnect(r)
  BY <1>22 DEF Reconnect, ReturnError
<1> QED
  BY <1>1, <1>2, <1>3, <1>4, <1>5, <1>6, <1>7, <1>8, <1>9, <1>10, <1>11, <1>12, <1>13, <1>14, <1>15, <1>16, <1>17, <1>18, <1>19, <1>20, <1>21, <1>22 DEF Step, Bounded, Unbounded

\* A connection in cachedConnections has its transport in cachedTransports,
\* through both evictions and all three ways of publishing.
THEOREM CachesPaired == Spec => []CachedConnectionHasTransport
<1>1. Init => CachedConnectionHasTransport
  BY DEF Init, CachedConnectionHasTransport
<1>2. ASSUME TypeOK, CachedConnectionHasTransport, [Next]_vars
      PROVE  CachedConnectionHasTransport'
  <2>1. ASSUME NEW r \in Requests, Deadline(r)  PROVE CachedConnectionHasTransport'
    BY <1>2, <2>1 DEF Deadline, CachedConnectionHasTransport, cacheVars
  <2>2. CASE DropClient
    BY <1>2, <2>2
    DEF DropClient, CloseExcept, Without, CachedConnectionHasTransport, TypeOK, VarTypes
  <2>3. CASE UNCHANGED vars
    BY <1>2, <2>3 DEF vars, CachedConnectionHasTransport
  <2> QED  BY <1>2, <2>1, <2>2, <2>3, StepPaired DEF Next, Terminated
<1> QED  BY <1>1, <1>2, TypeCorrect, PTL DEF Spec

-----------------------------------------------------------------------------
(* The semaphores.                                                         *)

\* The five ways a step touches the semaphores.
Takes(r) == /\ ~Creating(r) /\ Creating(r)' /\ pc[r] = "acquire"
            /\ sem[r] \in token /\ token' = token \ {sem[r]}
            /\ UNCHANGED <<nSems, sem>>
Returns(r) == /\ Creating(r) /\ ~Creating(r)' /\ pc'[r] # "acquire"
              /\ token' = token \cup {sem[r]}
              /\ UNCHANGED <<nSems, sem>>
Fetches(r) == /\ ~Creating(r) /\ ~Creating(r)' /\ pc'[r] = "acquire"
              /\ sems[AddrOf[r]] # None
              /\ sem' = [sem EXCEPT ![r] = sems[AddrOf[r]]]
              /\ UNCHANGED <<token, nSems, sems, orphans>>
Makes(r) == /\ ~Creating(r) /\ ~Creating(r)' /\ pc'[r] = "acquire"
            /\ sems[AddrOf[r]] = None
            /\ nSems' = nSems + 1
            /\ token' = token \cup {nSems + 1}
            /\ sem' = [sem EXCEPT ![r] = nSems + 1]
            /\ sems' = [sems EXCEPT ![AddrOf[r]] = nSems + 1]
            /\ UNCHANGED orphans
Ignores(r) == /\ Creating(r)' <=> Creating(r)
              /\ pc'[r] # "acquire"
              /\ UNCHANGED <<token, nSems, sem>>

\* The map of semaphores is left alone, or emptied at the end of a request.
Emptied == /\ sems' = Without(sems, Addrs)
           /\ orphans' = orphans \cup {sems[a] : a \in Filled(sems)}
Resets(r) == UNCHANGED <<sems, orphans>> \/ Emptied

LEMMA StepSemaphores ==
  ASSUME TypeOK, NEW r \in Requests, Step(r)
  PROVE  \/ (Takes(r) \/ Returns(r) \/ Ignores(r)) /\ Resets(r)
         \/ Fetches(r) \/ Makes(r)
<1> USE Distinct, CacheAssumption
    DEF TypeOK, VarTypes, Known, Goto, Keep, RunOn, cacheVars, semVars, connVars,
        localVars, DialPoints, CreationPoints, Creating
<1> USE DEF Takes, Returns, Fetches, Makes, Ignores, Resets, Emptied
<1>1. CASE Lookup(r)
  BY <1>1 DEF Lookup
<1>2. CASE GetPlain(r)
  BY <1>2 DEF GetPlain
<1>3. CASE GetSemaphore(r)
  BY <1>3 DEF GetSemaphore
<1>4. CASE Acquire(r)
  BY <1>4 DEF Acquire
<1>5. CASE Recheck(r)
  BY <1>5 DEF Recheck
<1>6. CASE Release(r)
  BY <1>6 DEF Release
<1>7. CASE Relook(r)
  BY <1>7 DEF Relook
<1>8. CASE DialCached(r)
  BY <1>8 DEF DialCached, ReturnConn
<1>9. CASE DialFresh(r)
  BY <1>9 DEF DialFresh, ReturnError
<1>10. CASE Connect(r)
  BY <1>10 DEF Connect, ReturnError
<1>11. CASE Handshake(r)
  BY <1>11 DEF Handshake, ReturnError
<1>12. CASE Publish(r)
  BY <1>12 DEF Publish, ReturnConn, ReturnNegotiated, CacheTransport
<1>13. CASE Overwrite(r)
  BY <1>13 DEF Overwrite, ReturnNegotiated, CacheTransport
<1>14. CASE Use(r)
  BY <1>14 DEF Use
<1>15. CASE UseRefused(r)
  BY <1>15 DEF UseRefused
<1>16. CASE UseTls(r)
  BY <1>16 DEF UseTls
<1>17. CASE Headers(r)
  BY <1>17 DEF Headers
<1>18. CASE Evict(r)
  BY <1>18 DEF Evict
<1>19. CASE Body(r)
  BY <1>19 DEF Body
<1>20. CASE Finish(r)
  BY <1>20 DEF Finish, CloseExcept, Without
<1>21. CASE GetRefused(r)
  BY <1>21 DEF GetRefused
<1>22. CASE Reconnect(r)
  BY <1>22 DEF Reconnect, ReturnError
<1> QED
  BY <1>1, <1>2, <1>3, <1>4, <1>5, <1>6, <1>7, <1>8, <1>9, <1>10, <1>11, <1>12, <1>13, <1>14, <1>15, <1>16, <1>17, <1>18, <1>19, <1>20, <1>21, <1>22 DEF Step, Bounded, Unbounded

\* SemaphoreConserved, semaphore by semaphore.
Available(s) == \A q \in Requests : ~(Creating(q) /\ sem[q] = s)
HeldBy(s, h) == /\ h \in Requests /\ Creating(h) /\ sem[h] = s
                /\ \A q \in Requests : Creating(q) /\ sem[q] = s => q = h
Accounted(s) == IF s \in token THEN Available(s) ELSE \E h \in Requests : HeldBy(s, h)
AllAccounted == \A s \in 1..nSems : Accounted(s)

LEMMA ConservedIsAccounted == SemaphoreConserved <=> AllAccounted
<1>1. ASSUME NEW s \in 1..nSems
      PROVE  (IF s \in token THEN {r \in Requests : Creating(r) /\ sem[r] = s} = {}
              ELSE \E r \in Requests : {q \in Requests : Creating(q) /\ sem[q] = s} = {r})
             <=> Accounted(s)
  <2>1. {r \in Requests : Creating(r) /\ sem[r] = s} = {} <=> Available(s)
    BY DEF Available
  <2>2. ASSUME NEW h \in Requests
        PROVE  {q \in Requests : Creating(q) /\ sem[q] = s} = {h} <=> HeldBy(s, h)
    BY DEF HeldBy
  <2> QED  BY <2>1, <2>2 DEF Accounted
<1> QED  BY <1>1 DEF SemaphoreConserved, AllAccounted

LEMMA StepConserved ==
  ASSUME TypeOK, SemaphoresKnown, SemaphoreConserved, NEW r \in Requests, Step(r)
  PROVE  SemaphoresKnown' /\ AllAccounted'
<1>t. /\ nSems \in Nat /\ sem \in [Requests -> Sems \cup {None}]
      /\ sems \in [Addrs -> Sems \cup {None}] /\ AddrOf[r] \in Addrs
  BY CacheAssumption DEF TypeOK, VarTypes
<1>a. \A s \in 1..nSems : Accounted(s)
  BY ConservedIsAccounted DEF AllAccounted
<1>o. ASSUME NEW q \in Requests, q # r
      PROVE  (Creating(q)' <=> Creating(q)) /\ sem'[q] = sem[q] /\ pc'[q] = pc[q]
  BY <1>o, StepLocal DEF Creating, TypeOK
<1>k. ASSUME NEW q \in Requests, pc[q] = "acquire" \/ Creating(q)
      PROVE  sem[q] \in 1..nSems
  BY <1>k DEF SemaphoresKnown
<1>m. token \subseteq 1..nSems /\ \A a \in Addrs : sems[a] \in (1..nSems) \cup {None}
  BY DEF SemaphoresKnown
<1>1. CASE Takes(r) /\ Resets(r)
  <2>1. pc[r] = "acquire" \/ Creating(r)' => sem[r] \in 1..nSems
    BY <1>1, <1>m DEF Takes
  <2>2. SemaphoresKnown'
    BY <1>1, <1>o, <1>k, <1>m, <2>1 DEF Takes, Resets, Emptied, Without, SemaphoresKnown, Creating
  <2>3. ASSUME NEW s \in 1..nSems  PROVE Accounted(s)'
    <3>1. CASE s = sem[r]
      <4>1. \A q \in Requests : ~(Creating(q) /\ sem[q] = s)
        BY <1>1, <1>a, <3>1 DEF Takes, Accounted, Available
      <4>2. HeldBy(s, r)'
        BY <1>1, <1>o, <3>1, <4>1 DEF Takes, HeldBy
      <4> QED  BY <1>1, <3>1, <4>2 DEF Takes, Accounted
    <3>2. CASE s # sem[r]
      <4>1. s \in token' <=> s \in token
        BY <1>1, <3>2 DEF Takes
      <4>2. Available(s) => Available(s)'
        BY <1>1, <1>o, <3>2 DEF Takes, Available
      <4>3. ASSUME NEW h \in Requests, HeldBy(s, h)  PROVE HeldBy(s, h)'
        BY <1>1, <1>o, <3>2, <4>3 DEF Takes, HeldBy
      <4> QED  BY <1>a, <4>1, <4>2, <4>3 DEF Accounted
    <3> QED  BY <3>1, <3>2
  <2> QED  BY <1>1, <2>2, <2>3 DEF Takes, AllAccounted
<1>2. CASE Returns(r) /\ Resets(r)
  <2>1. sem[r] \in 1..nSems
    BY <1>2, <1>k DEF Returns
  <2>2. SemaphoresKnown'
    BY <1>2, <1>o, <1>k, <1>m, <2>1 DEF Returns, Resets, Emptied, Without, SemaphoresKnown
  <2>3. ASSUME NEW s \in 1..nSems  PROVE Accounted(s)'
    <3>1. CASE s = sem[r]
      <4>1. s \notin token /\ HeldBy(s, r)
        BY <1>2, <1>a, <3>1 DEF Returns, Accounted, Available, HeldBy
      <4>2. Available(s)'
        BY <1>2, <1>o, <4>1 DEF Returns, HeldBy, Available
      <4> QED  BY <1>2, <3>1, <4>2 DEF Returns, Accounted
    <3>2. CASE s # sem[r]
      <4>1. s \in token' <=> s \in token
        BY <1>2, <3>2 DEF Returns
      <4>2. Available(s) => Available(s)'
        BY <1>2, <1>o, <3>2 DEF Returns, Available
      <4>3. ASSUME NEW h \in Requests, HeldBy(s, h)  PROVE HeldBy(s, h)'
        BY <1>2, <1>o, <3>2, <4>3 DEF Returns, HeldBy
      <4> QED  BY <1>a, <4>1, <4>2, <4>3 DEF Accounted
    <3> QED  BY <3>1, <3>2
  <2> QED  BY <1>2, <2>2, <2>3 DEF Returns, AllAccounted
<1>3. CASE Ignores(r) /\ Resets(r)
  <2>2. SemaphoresKnown'
    BY <1>3, <1>o, <1>k, <1>m DEF Ignores, Resets, Emptied, Without, SemaphoresKnown
  <2>3. ASSUME NEW s \in 1..nSems  PROVE Accounted(s)'
    <3>1. Available(s) => Available(s)'
      BY <1>3, <1>o DEF Ignores, Available
    <3>2. ASSUME NEW h \in Requests, HeldBy(s, h)  PROVE HeldBy(s, h)'
      BY <1>3, <1>o, <3>2 DEF Ignores, HeldBy
    <3> QED  BY <1>3, <1>a, <3>1, <3>2 DEF Ignores, Accounted
  <2> QED  BY <1>3, <2>2, <2>3 DEF Ignores, AllAccounted
<1>4. CASE Fetches(r)
  <2>1. sems[AddrOf[r]] \in 1..nSems /\ sem'[r] = sems[AddrOf[r]]
    BY <1>4, <1>t, <1>m DEF Fetches
  <2>2. SemaphoresKnown'
    BY <1>4, <1>o, <1>k, <1>m, <2>1 DEF Fetches, SemaphoresKnown
  <2>3. ASSUME NEW s \in 1..nSems  PROVE Accounted(s)'
    <3>1. Available(s) => Available(s)'
      BY <1>4, <1>o DEF Fetches, Available
    <3>2. ASSUME NEW h \in Requests, HeldBy(s, h)  PROVE HeldBy(s, h)'
      BY <1>4, <1>o, <3>2 DEF Fetches, HeldBy
    <3> QED  BY <1>4, <1>a, <3>1, <3>2 DEF Fetches, Accounted
  <2> QED  BY <1>4, <2>2, <2>3 DEF Fetches, AllAccounted
<1>5. CASE Makes(r)
  <2>1. nSems' = nSems + 1 /\ 1..nSems' = 1..nSems \cup {nSems + 1} /\ nSems + 1 \notin 1..nSems
    BY <1>5, <1>t DEF Makes
  <2>2. sem'[r] = nSems + 1
    BY <1>5, <1>t DEF Makes
  <2>3. SemaphoresKnown'
    <3>1. token' \subseteq 1..nSems'
      BY <1>5, <1>m, <2>1 DEF Makes
    <3>2. \A a \in Addrs : sems'[a] \in (1..nSems') \cup {None}
      BY <1>5, <1>t, <1>m, <2>1 DEF Makes
    <3>3. ASSUME NEW q \in Requests, (pc[q] = "acquire" \/ Creating(q))'
          PROVE  sem'[q] \in 1..nSems'
      BY <1>o, <1>k, <2>1, <2>2, <3>3
    <3> QED  BY <3>1, <3>2, <3>3 DEF SemaphoresKnown
  <2>4. ASSUME NEW s \in 1..nSems'  PROVE Accounted(s)'
    <3>1. CASE s = nSems + 1
      <4>1. ASSUME NEW q \in Requests, Creating(q)'  PROVE sem'[q] # s
        BY <1>5, <1>o, <1>k, <2>1, <3>1, <4>1 DEF Makes
      <4> QED  BY <1>5, <3>1, <4>1 DEF Makes, Accounted, Available
    <3>2. CASE s \in 1..nSems
      <4>1. s \in token' <=> s \in token
        BY <1>5, <2>1, <3>2 DEF Makes
      <4>2. Available(s) => Available(s)'
        BY <1>5, <1>o DEF Makes, Available
      <4>3. ASSUME NEW h \in Requests, HeldBy(s, h)  PROVE HeldBy(s, h)'
        BY <1>5, <1>o, <4>3 DEF Makes, HeldBy
      <4> QED  BY <1>a, <3>2, <4>1, <4>2, <4>3 DEF Accounted
    <3> QED  BY <2>1, <3>1, <3>2
  <2> QED  BY <2>3, <2>4 DEF AllAccounted
<1> QED  BY <1>1, <1>2, <1>3, <1>4, <1>5, StepSemaphores

\* No interleaving and no error path loses a semaphore or lets two requests
\* hold it.
THEOREM SemaphoresConserved == Spec => [](SemaphoresKnown /\ SemaphoreConserved)
<1>1. Init => SemaphoresKnown /\ SemaphoreConserved
  BY DEF Init, SemaphoresKnown, SemaphoreConserved, Creating, CreationPoints, DialPoints
<1>2. ASSUME TypeOK, SemaphoresKnown, SemaphoreConserved, [Next]_vars
      PROVE  SemaphoresKnown' /\ SemaphoreConserved'
  <2>1. ASSUME NEW r \in Requests, Step(r)  PROVE SemaphoresKnown' /\ SemaphoreConserved'
    <3>1. SemaphoresKnown' /\ AllAccounted'
      BY <1>2, <2>1, StepConserved
    <3>2. SemaphoreConserved'
      BY <3>1, ConservedIsAccounted, PTL
    <3> QED  BY <3>1, <3>2
  <2>2. ASSUME NEW r \in Requests, Deadline(r)  PROVE SemaphoresKnown' /\ SemaphoreConserved'
    BY <1>2, <2>2 DEF Deadline, SemaphoresKnown, SemaphoreConserved, Creating, semVars, localVars
  <2>3. CASE DropClient
    BY <1>2, <2>3 DEF DropClient, CloseExcept, Without, SemaphoresKnown, SemaphoreConserved,
                      Creating, localVars
  <2>4. CASE UNCHANGED vars
    BY <1>2, <2>4 DEF vars, SemaphoresKnown, SemaphoreConserved, Creating
  <2> QED  BY <1>2, <2>1, <2>2, <2>3, <2>4 DEF Next, Terminated
<1> QED  BY <1>1, <1>2, TypeCorrect, PTL DEF Spec

-----------------------------------------------------------------------------
(* Serialised creation.                                                    *)

\* An emptied map leaves every request that fetched a semaphore with an orphan.
LEMMA EmptiedKeepsFresh ==
  ASSUME SemaphoresFresh, Emptied, NEW q \in Requests,
         pc[q] = "acquire" \/ Creating(q), sem[q] # None
  PROVE  sem[q] \in orphans'
<1>1. sem[q] = sems[AddrOf[q]] \/ sem[q] \in orphans
  BY DEF SemaphoresFresh
<1>2. AddrOf[q] \in Addrs
  BY CacheAssumption
<1> QED  BY <1>1, <1>2 DEF Emptied, Filled

\* However often the map is emptied, of the requests that hold a semaphore
\* not lost to that one at a time creates a transport for an address.
THEOREM CreationIsSerialised == Spec => []CreationSerialised
<1>1. Init => SemaphoresFresh
  BY DEF Init, SemaphoresFresh, Creating, CreationPoints, DialPoints
<1>2. ASSUME TypeOK, SemaphoresFresh, [Next]_vars
      PROVE  SemaphoresFresh'
  <2>1. ASSUME NEW r \in Requests, Step(r)  PROVE SemaphoresFresh'
    <3>t. /\ sem \in [Requests -> Sems \cup {None}] /\ AddrOf[r] \in Addrs
          /\ sems \in [Addrs -> Sems \cup {None}]
      BY <1>2, CacheAssumption DEF TypeOK, VarTypes
    <3>o. ASSUME NEW q \in Requests, q # r
          PROVE  (Creating(q)' <=> Creating(q)) /\ sem'[q] = sem[q] /\ pc'[q] = pc[q]
      BY <1>2, <2>1, <3>o, StepLocal DEF Creating, TypeOK
    <3>k. ASSUME NEW q \in Requests, pc[q] = "acquire" \/ Creating(q)
          PROVE  sem[q] \in {sems[AddrOf[q]]} \cup orphans /\ sem[q] # None
      BY <1>2, <3>k DEF SemaphoresFresh, TypeOK, Known
    <3>1. CASE (Takes(r) \/ Returns(r) \/ Ignores(r)) /\ Resets(r)
      <4>1. ASSUME NEW q \in Requests, (pc[q] = "acquire" \/ Creating(q))'
            PROVE  (pc[q] = "acquire" \/ Creating(q)) /\ sem'[q] = sem[q]
        BY <3>1, <3>o, <4>1 DEF Takes, Returns, Ignores
      <4>2. CASE UNCHANGED <<sems, orphans>>
        BY <3>k, <4>1, <4>2 DEF SemaphoresFresh
      <4>3. CASE Emptied
        BY <1>2, <3>k, <4>1, <4>3, EmptiedKeepsFresh DEF SemaphoresFresh
      <4> QED  BY <3>1, <4>2, <4>3 DEF Resets
    <3>2. CASE Fetches(r)
      BY <3>2, <3>t, <3>o, <3>k DEF Fetches, SemaphoresFresh
    <3>3. CASE Makes(r)
      <4>1. ASSUME NEW q \in Requests, q # r, (pc[q] = "acquire" \/ Creating(q))'
            PROVE  sem'[q] \in {sems'[AddrOf[q]]} \cup orphans'
        BY <3>3, <3>t, <3>o, <3>k, <4>1, CacheAssumption DEF Makes
      <4>2. sem'[r] = sems'[AddrOf[r]]
        BY <3>3, <3>t DEF Makes
      <4> QED  BY <4>1, <4>2 DEF SemaphoresFresh
    <3> QED  BY <1>2, <2>1, <3>1, <3>2, <3>3, StepSemaphores
  <2>2. ASSUME NEW r \in Requests, Deadline(r)  PROVE SemaphoresFresh'
    BY <1>2, <2>2 DEF Deadline, SemaphoresFresh, Creating, semVars, localVars
  <2>3. CASE DropClient
    <3>1. UNCHANGED <<pc, sem, using>> /\ (UNCHANGED <<sems, orphans>> \/ Emptied)
      BY <2>3 DEF DropClient, CloseExcept, Emptied, localVars
    <3>2. ASSUME NEW q \in Requests, pc[q] = "acquire" \/ Creating(q)
          PROVE  sem[q] \in {sems[AddrOf[q]]} \cup orphans /\ sem[q] # None
      BY <1>2, <3>2 DEF SemaphoresFresh, TypeOK, Known
    <3>3. CASE Emptied
      BY <1>2, <3>1, <3>2, <3>3, EmptiedKeepsFresh DEF SemaphoresFresh, Creating
    <3> QED  BY <3>1, <3>2, <3>3 DEF SemaphoresFresh, Creating
  <2>4. CASE UNCHANGED vars
    BY <1>2, <2>4 DEF vars, SemaphoresFresh, Creating
  <2> QED  BY <1>2, <2>1, <2>2, <2>3, <2>4 DEF Next, Terminated
<1>3. ASSUME SemaphoresFresh, SemaphoresKnown, SemaphoreConserved
      PROVE  CreationSerialised
  <2>1. SUFFICES ASSUME NEW a \in Addrs, NEW r \in Creators(a), NEW q \in Creators(a),
                        sem[r] \notin orphans, sem[q] \notin orphans
                 PROVE  r = q
    BY DEF CreationSerialised
  <2>2. /\ r \in Requests /\ q \in Requests /\ Creating(r) /\ Creating(q)
        /\ sem[r] = sem[q] /\ sem[r] \in 1..nSems
    BY <1>3, <2>1 DEF Creators, SemaphoresFresh, SemaphoresKnown
  <2>3. Accounted(sem[r])
    BY <1>3, <2>2, ConservedIsAccounted DEF AllAccounted
  <2> QED  BY <2>2, <2>3 DEF Accounted, Available, HeldBy
<1> QED  BY <1>1, <1>2, <1>3, TypeCorrect, SemaphoresConserved, PTL DEF Spec

-----------------------------------------------------------------------------
(* Publication.                                                            *)

\* Without the retry functions nobody is at one of their points.
NoRetry == \A r \in Requests : pc[r] \notin {"reconnect", "rehandshake", "overwrite"}


LEMMA NoRetryStep ==
  ASSUME TypeOK, NoRetry, ~AutoRetry, [Next]_vars
  PROVE  NoRetry'
<1>1. ASSUME NEW r \in Requests, Step(r)  PROVE NoRetry'
  <2>1. pc'[r] \notin {"reconnect", "rehandshake", "overwrite"}
    <3> USE Distinct DEF TypeOK, VarTypes, NoRetry, Goto
    <3>1. CASE Lookup(r)
      BY <1>1, <3>1 DEF Lookup
    <3>2. CASE GetPlain(r)
      BY <1>1, <3>2 DEF GetPlain
    <3>3. CASE GetSemaphore(r)
      BY <1>1, <3>3 DEF GetSemaphore
    <3>4. CASE Acquire(r)
      BY <1>1, <3>4 DEF Acquire
    <3>5. CASE Recheck(r)
      BY <1>1, <3>5 DEF Recheck
    <3>6. CASE Release(r)
      BY <1>1, <3>6 DEF Release
    <3>7. CASE Relook(r)
      BY <1>1, <3>7 DEF Relook
    <3>8. CASE DialCached(r)
      BY <1>1, <3>8 DEF DialCached, ReturnConn
    <3>9. CASE DialFresh(r)
      BY <1>1, <3>9 DEF DialFresh, ReturnError
    <3>10. CASE Connect(r)
      BY <1>1, <3>10 DEF Connect, ReturnError
    <3>11. CASE Handshake(r)
      BY <1>1, <3>11 DEF Handshake, ReturnError
    <3>12. CASE Publish(r)
      BY <1>1, <3>12 DEF Publish, ReturnConn, ReturnNegotiated, CacheTransport
    <3>13. CASE Overwrite(r)
      BY <1>1, <3>13 DEF Overwrite, ReturnNegotiated, CacheTransport
    <3>14. CASE Use(r)
      BY <1>1, <3>14 DEF Use
    <3>15. CASE UseRefused(r)
      BY <1>1, <3>15 DEF UseRefused
    <3>16. CASE UseTls(r)
      BY <1>1, <3>16 DEF UseTls
    <3>17. CASE Headers(r)
      BY <1>1, <3>17 DEF Headers
    <3>18. CASE Evict(r)
      BY <1>1, <3>18 DEF Evict
    <3>19. CASE Body(r)
      BY <1>1, <3>19 DEF Body
    <3>20. CASE Finish(r)
      BY <1>1, <3>20 DEF Finish, CloseExcept, Without
    <3>21. CASE GetRefused(r)
      BY <1>1, <3>21 DEF GetRefused
    <3>22. CASE Reconnect(r)
      BY <1>1, <3>22 DEF Reconnect, ReturnError
    <3> QED
      BY <1>1, <3>1, <3>2, <3>3, <3>4, <3>5, <3>6, <3>7, <3>8, <3>9, <3>10, <3>11, <3>12, <3>13, <3>14, <3>15, <3>16, <3>17, <3>18, <3>19, <3>20, <3>21, <3>22 DEF Step, Bounded, Unbounded
  <2> QED  BY <1>1, <2>1, StepLocal DEF NoRetry, TypeOK
<1>2. ASSUME NEW r \in Requests, Deadline(r)  PROVE NoRetry'
  BY <1>2 DEF Deadline, NoRetry
<1>3. CASE DropClient \/ UNCHANGED vars
  BY <1>3 DEF DropClient, vars, NoRetry
<1> QED  BY <1>1, <1>2, <1>3 DEF Next, Terminated

\* Without retries, a cached transport is never exchanged for another TLS
\* transport: whoever publishes second keeps the first.
THEOREM FirstPublisherWins ==
  ASSUME ~AutoRetry
  PROVE  Spec => TransportNotReplaced
<1> DEFINE Kept == \A a \in Addrs :
                     transports[a] # None => transports'[a] \in {transports[a], Plain, None}
<1>1. ASSUME TypeOK, NoRetry, [Next]_vars
      PROVE  [Kept]_vars
  <2>1. ASSUME NEW r \in Requests, Step(r)  PROVE Kept
    <3> USE Distinct DEF TypeOK, VarTypes, NoRetry, cacheVars
    <3>1. CASE Lookup(r)
      BY <1>1, <2>1, <3>1 DEF Lookup
    <3>2. CASE GetPlain(r)
      BY <1>1, <2>1, <3>2 DEF GetPlain
    <3>3. CASE GetSemaphore(r)
      BY <1>1, <2>1, <3>3 DEF GetSemaphore
    <3>4. CASE Acquire(r)
      BY <1>1, <2>1, <3>4 DEF Acquire
    <3>5. CASE Recheck(r)
      BY <1>1, <2>1, <3>5 DEF Recheck
    <3>6. CASE Release(r)
      BY <1>1, <2>1, <3>6 DEF Release
    <3>7. CASE Relook(r)
      BY <1>1, <2>1, <3>7 DEF Relook
    <3>8. CASE DialCached(r)
      BY <1>1, <2>1, <3>8 DEF DialCached, ReturnConn
    <3>9. CASE DialFresh(r)
      BY <1>1, <2>1, <3>9 DEF DialFresh, ReturnError
    <3>10. CASE Connect(r)
      BY <1>1, <2>1, <3>10 DEF Connect, ReturnError
    <3>11. CASE Handshake(r)
      BY <1>1, <2>1, <3>11 DEF Handshake, ReturnError
    <3>12. CASE Publish(r)
      BY <1>1, <2>1, <3>12 DEF Publish, ReturnConn, ReturnNegotiated, CacheTransport
    <3>13. CASE Overwrite(r)
      BY <1>1, <2>1, <3>13 DEF Overwrite, ReturnNegotiated, CacheTransport
    <3>14. CASE Use(r)
      BY <1>1, <2>1, <3>14 DEF Use
    <3>15. CASE UseRefused(r)
      BY <1>1, <2>1, <3>15 DEF UseRefused
    <3>16. CASE UseTls(r)
      BY <1>1, <2>1, <3>16 DEF UseTls
    <3>17. CASE Headers(r)
      BY <1>1, <2>1, <3>17 DEF Headers
    <3>18. CASE Evict(r)
      BY <1>1, <2>1, <3>18 DEF Evict
    <3>19. CASE Body(r)
      BY <1>1, <2>1, <3>19 DEF Body
    <3>20. CASE Finish(r)
      BY <1>1, <2>1, <3>20 DEF Finish, CloseExcept, Without
    <3>21. CASE GetRefused(r)
      BY <1>1, <2>1, <3>21 DEF GetRefused
    <3>22. CASE Reconnect(r)
      BY <1>1, <2>1, <3>22 DEF Reconnect, ReturnError
    <3> QED
      BY <1>1, <2>1, <3>1, <3>2, <3>3, <3>4, <3>5, <3>6, <3>7, <3>8, <3>9, <3>10, <3>11, <3>12, <3>13, <3>14, <3>15, <3>16, <3>17, <3>18, <3>19, <3>20, <3>21, <3>22 DEF Step, Bounded, Unbounded
  <2>2. ASSUME NEW r \in Requests, Deadline(r)  PROVE Kept
    BY <2>2 DEF Deadline, cacheVars
  <2>3. CASE DropClient
    BY <1>1, <2>3 DEF DropClient, CloseExcept, Without, TypeOK, VarTypes
  <2>4. CASE UNCHANGED vars
    BY <2>4
  <2> QED  BY <1>1, <2>1, <2>2, <2>3, <2>4 DEF Next, Terminated
<1>2. Init => NoRetry
  BY DEF Init, NoRetry
<1>3. TypeOK /\ NoRetry /\ [Next]_vars => NoRetry'
  BY NoRetryStep
<1>4. TypeOK /\ NoRetry /\ [Next]_vars => [Kept]_vars
  BY <1>1
<1> QED  BY <1>2, <1>3, <1>4, TypeCorrect, PTL DEF Spec, TransportNotReplaced

=============================================================================
