--------------------------- MODULE TransportCache ---------------------------
(***************************************************************************)
(* The roundTripper of one pooled client (cycletls/roundtripper.go), shared*)
(* by concurrent requests to several addresses: its map of transports, its *)
(* map of TLS connections, the per-address semaphores that serialise the   *)
(* creation of transports, and CloseIdleConnections, which every finishing *)
(* request calls (cycletls/index.go).                                      *)
(*                                                                         *)
(* A TLS transport is named by the connection that was handshaken to create*)
(* it.  Of the HTTP libraries' transports only the part this code relies on *)
(* is modelled: a transport takes an idle connection of its own, or asks   *)
(* the dial function it was given (dialTLS) for one.                       *)
(***************************************************************************)
EXTENDS Naturals, FiniteSets

CONSTANTS Requests, Addrs, None,
          Plain,       \* an http.Transport created for the scheme "http"
          AddrOf,      \* getDialTLSAddr: the key of a request in every map
          Secure,      \* the requests whose scheme is "https"; the others
                       \* have "http" or one that is refused
          Dispatched,  \* the requests dispatcherAsync runs (CycleTLS.Do and
                       \* dispatchSSEAsync never call CloseIdleConnections)
          KeptAddr,    \* hostPort of dispatcherAsync, None when no map has it
          H2Addrs,     \* the addresses that negotiate HTTP/2
          AutoRetry,   \* a failed handshake may be retried
          MaxConns,    \* bound: handshakes that succeed
          MaxSems,     \* bound: semaphores created
          CacheLimit   \* maxCachedTransports

ASSUME CacheAssumption ==
  /\ AddrOf \in [Requests -> Addrs]
  /\ Secure \subseteq Requests
  /\ Dispatched \subseteq Requests
  /\ KeptAddr \in [Requests -> Addrs \cup {None}]
  /\ \A r \in Requests : KeptAddr[r] \in {AddrOf[r], None}
  /\ \A r \in Secure : KeptAddr[r] = AddrOf[r]
  /\ H2Addrs \subseteq Addrs
  /\ AutoRetry \in BOOLEAN
  /\ MaxConns \in Nat /\ MaxSems \in Nat /\ CacheLimit \in Nat
  /\ None \notin (1..MaxConns) \cup (1..MaxSems) \cup Addrs
  /\ Plain \notin (1..MaxConns) \cup {None}

Conns == 1..MaxConns
Sems == 1..MaxSems
Transports == Conns \cup {Plain}

VARIABLES
  transports,  \* cachedTransports
  conns,       \* cachedConnections
  sems,        \* addressSems
  token,       \* the semaphores that are available
  nSems,       \* semaphores created so far
  orphans,     \* ghost: semaphores an emptying of the map left without entry
  open,        \* connections that are open
  nConns,      \* connections handshaken so far
  idle,        \* idle connections of each TLS transport
  pc,          \* where the goroutine of a request is
  sem,         \* the semaphore it fetched
  conn,        \* the connection it handshook or was given
  using,       \* the transport it runs on, None inside getTransport
  ctxDone      \* requests whose deadline has passed

vars == <<transports, conns, sems, token, nSems, orphans, open, nConns, idle, pc,
          sem, conn, using, ctxDone>>

DialPoints == {"dial", "connect", "handshake", "publish",
               "reconnect", "rehandshake", "overwrite"}
CreationPoints == DialPoints \cup {"recheck", "release", "releaseFailed"}
Points == {"lookup", "get", "acquire", "relook", "use", "headers", "body",
           "evict", "finish", "done"} \cup CreationPoints

VarTypes ==
  /\ transports \in [Addrs -> Transports \cup {None}]
  /\ conns \in [Addrs -> Conns \cup {None}]
  /\ sems \in [Addrs -> Sems \cup {None}]
  /\ token \subseteq Sems
  /\ nSems \in 0..MaxSems
  /\ orphans \subseteq Sems
  /\ open \subseteq Conns
  /\ nConns \in 0..MaxConns
  /\ idle \in [Conns -> SUBSET Conns]
  /\ pc \in [Requests -> Points]
  /\ sem \in [Requests -> Sems \cup {None}]
  /\ conn \in [Requests -> Conns \cup {None}]
  /\ using \in [Requests -> Transports \cup {None}]
  /\ ctxDone \subseteq Requests

\* A request that holds a semaphore of getTransport.
Creating(r) == using[r] = None /\ pc[r] \in CreationPoints

\* What is known at each point: inside getTransport a request has no
\* transport yet, afterwards it has one (RoundTrip would call a nil transport
\* otherwise), what is published is a connection, and a holder of a semaphore
\* knows which.
Known(r) ==
  /\ pc[r] \in {"lookup", "get", "acquire", "relook", "recheck", "release",
                "releaseFailed"} => using[r] = None
  /\ pc[r] \in {"use", "headers", "body", "evict"} => using[r] # None
  /\ pc[r] \in DialPoints => using[r] # Plain
  /\ pc[r] \in {"publish", "overwrite"} => conn[r] # None
  /\ pc[r] = "acquire" \/ Creating(r) => sem[r] # None

TypeOK == VarTypes /\ \A r \in Requests : Known(r)

\* newRoundTripper, with every request still to come.
Init ==
  /\ transports = [a \in Addrs |-> None]
  /\ conns = [a \in Addrs |-> None]
  /\ sems = [a \in Addrs |-> None]
  /\ token = {}
  /\ nSems = 0
  /\ orphans = {}
  /\ open = {}
  /\ nConns = 0
  /\ idle = [t \in Conns |-> {}]
  /\ pc = [r \in Requests |-> "lookup"]
  /\ sem = [r \in Requests |-> None]
  /\ conn = [r \in Requests |-> None]
  /\ using = [r \in Requests |-> None]
  /\ ctxDone = {}

Goto(r, point) == pc' = [pc EXCEPT ![r] = point]
Keep(r, c) == conn' = [conn EXCEPT ![r] = c]
RunOn(r, t) == using' = [using EXCEPT ![r] = t]

cacheVars == <<transports, conns>>
semVars == <<sems, token, nSems, orphans>>
connVars == <<open, nConns, idle>>
localVars == <<sem, conn, using>>

\* The deadline of a request passes, or it is cancelled.
Deadline(r) ==
  /\ pc[r] # "done" /\ r \notin ctxDone
  /\ ctxDone' = ctxDone \cup {r}
  /\ UNCHANGED <<cacheVars, semVars, connVars, localVars, pc>>

-----------------------------------------------------------------------------
(* RoundTrip and getTransport.                                             *)

\* The first look under the read lock.
Lookup(r) ==
  /\ pc[r] = "lookup"
  /\ LET t == transports[AddrOf[r]]
     IN  IF t = None THEN Goto(r, "get") /\ UNCHANGED using
         ELSE Goto(r, "use") /\ RunOn(r, t)
  /\ UNCHANGED <<cacheVars, semVars, connVars, sem, conn, ctxDone>>

\* Scheme "http": a transport of its own, whatever the map holds.
GetPlain(r) ==
  /\ pc[r] = "get" /\ r \notin Secure
  /\ transports' = [transports EXCEPT ![AddrOf[r]] = Plain]
  /\ Goto(r, "relook")
  /\ UNCHANGED <<conns, semVars, connVars, localVars, ctxDone>>

\* Mutant: the semaphore is made anew, the map is never looked at.
GetSemaphoreUnshared(r) ==
  /\ pc[r] = "get" /\ r \in Secure /\ nSems < MaxSems
  /\ nSems' = nSems + 1
  /\ sems' = [sems EXCEPT ![AddrOf[r]] = nSems + 1]
  /\ token' = token \cup {nSems + 1}
  /\ sem' = [sem EXCEPT ![r] = nSems + 1]
  /\ Goto(r, "acquire")
  /\ UNCHANGED <<cacheVars, orphans, connVars, conn, using, ctxDone>>

\* A scheme that is neither "http" nor "https": "invalid URL scheme".
GetRefused(r) ==
  /\ pc[r] = "get" /\ r \notin Secure
  /\ Goto(r, "finish")
  /\ UNCHANGED <<cacheVars, semVars, connVars, localVars, ctxDone>>

\* Scheme "https": getAddressSemaphore fetches or creates the semaphore.
GetSemaphore(r) ==
  /\ pc[r] = "get" /\ r \in Secure
  /\ LET a == AddrOf[r]
         s == IF sems[a] = None THEN nSems + 1 ELSE sems[a]
     IN  /\ s <= MaxSems
         /\ sems' = [sems EXCEPT ![a] = s]
         /\ token' = IF sems[a] = None THEN token \cup {s} ELSE token
         /\ nSems' = IF sems[a] = None THEN s ELSE nSems
         /\ sem' = [sem EXCEPT ![r] = s]
  /\ Goto(r, "acquire")
  /\ UNCHANGED <<cacheVars, orphans, connVars, conn, using, ctxDone>>

\* Mutant: a plain lock, as with the sync.Mutex the semaphores replaced.
AcquireBlocks(r) ==
  /\ pc[r] = "acquire"
  /\ sem[r] \in token
  /\ token' = token \ {sem[r]}
  /\ Goto(r, "recheck")
  /\ UNCHANGED <<cacheVars, sems, nSems, orphans, connVars, localVars, ctxDone>>

\* Mutant: the semaphore is not emptied by its holder.
AcquireShared(r) ==
  /\ pc[r] = "acquire"
  /\ sem[r] \in token
  /\ Goto(r, "recheck")
  /\ UNCHANGED <<cacheVars, semVars, connVars, localVars, ctxDone>>

\* The select between the semaphore and the request's context.
Acquire(r) ==
  /\ pc[r] = "acquire"
  /\ \/ /\ sem[r] \in token
        /\ token' = token \ {sem[r]}
        /\ Goto(r, "recheck")
     \/ /\ r \in ctxDone
        /\ Goto(r, "finish")
        /\ UNCHANGED token
  /\ UNCHANGED <<cacheVars, sems, nSems, orphans, connVars, localVars, ctxDone>>

\* The double check once the semaphore is held.
Recheck(r) ==
  /\ pc[r] = "recheck"
  /\ Goto(r, IF transports[AddrOf[r]] # None THEN "release" ELSE "dial")
  /\ UNCHANGED <<cacheVars, semVars, connVars, localVars, ctxDone>>

\* Mutant: an early error return without the deferred release.
ReleaseForgotten(r) ==
  /\ pc[r] \in {"release", "releaseFailed"}
  /\ token' = IF pc[r] = "release" THEN token \cup {sem[r]} ELSE token
  /\ Goto(r, IF pc[r] = "release" THEN "relook" ELSE "finish")
  /\ UNCHANGED <<cacheVars, sems, nSems, orphans, connVars, localVars, ctxDone>>

\* The deferred release, after dialTLS returned.
Release(r) ==
  /\ pc[r] \in {"release", "releaseFailed"}
  /\ token' = token \cup {sem[r]}
  /\ Goto(r, IF pc[r] = "release" THEN "relook" ELSE "finish")
  /\ UNCHANGED <<cacheVars, sems, nSems, orphans, connVars, localVars, ctxDone>>

\* Mutant: the second look without the check for nil.
RelookUnchecked(r) ==
  /\ pc[r] = "relook"
  /\ Goto(r, "use") /\ RunOn(r, transports[AddrOf[r]])
  /\ UNCHANGED <<cacheVars, semVars, connVars, sem, conn, ctxDone>>

\* The second look; "no transport available" when an eviction came between.
Relook(r) ==
  /\ pc[r] = "relook"
  /\ LET t == transports[AddrOf[r]]
     IN  IF t = None THEN Goto(r, "finish") /\ UNCHANGED using
         ELSE Goto(r, "use") /\ RunOn(r, t)
  /\ UNCHANGED <<cacheVars, semVars, connVars, sem, conn, ctxDone>>

-----------------------------------------------------------------------------
(* dialTLS, called by getTransport (using[r] = None) or by the transport   *)
(* using[r] when it has no idle connection.                                *)

IsH2(r) == AddrOf[r] \in H2Addrs

\* Return a connection: getTransport drops it, a transport sends on it and
\* an HTTP/2 transport lets other requests send on it too.
ReturnConn(r, c) ==
  IF using[r] = None THEN Goto(r, "release") /\ Keep(r, None) /\ UNCHANGED idle
  ELSE /\ Goto(r, "headers") /\ Keep(r, c)
       /\ idle' = IF IsH2(r) THEN [idle EXCEPT ![using[r]] = @ \cup {c}] ELSE idle

\* Return an error: getTransport passes it on; a transport fails the
\* request, and RoundTrip evicts when the text looks like a network error.
ReturnError(r) ==
  /\ Keep(r, None)
  /\ IF using[r] = None THEN Goto(r, "releaseFailed")
     ELSE Goto(r, "evict") \/ Goto(r, "finish")

\* Return errProtocolNegotiated: success for getTransport, for a transport
\* an error like any other (and no network error).
ReturnNegotiated(r) ==
  /\ Keep(r, None)
  /\ Goto(r, IF using[r] = None THEN "release" ELSE "finish")

DialCached(r) ==
  /\ pc[r] = "dial"
  /\ conns[AddrOf[r]] # None
  /\ ReturnConn(r, conns[AddrOf[r]])
  /\ UNCHANGED <<cacheVars, semVars, open, nConns, sem, using, ctxDone>>

\* dialTLSHTTP2 dials under a context of its own.
Expired(r) == r \in ctxDone /\ (using[r] = None \/ ~IsH2(r))

DialFresh(r) ==
  /\ pc[r] = "dial"
  /\ conns[AddrOf[r]] = None
  /\ IF Expired(r) THEN ReturnError(r) ELSE Goto(r, "connect") /\ UNCHANGED conn
  /\ UNCHANGED <<cacheVars, semVars, connVars, sem, using, ctxDone>>

\* DialContext, without any lock, and the choice of the hello; an error
\* closes what was dialled.  A proxy dialer may not look at the context.
Connect(r) ==
  /\ pc[r] = "connect"
  /\ (Goto(r, "handshake") /\ UNCHANGED conn) \/ ReturnError(r)
  /\ UNCHANGED <<cacheVars, semVars, connVars, sem, using, ctxDone>>

\* A retry function tests the context and dials again, for another hello.
Reconnect(r) ==
  /\ pc[r] = "reconnect"
  /\ (~Expired(r) /\ Goto(r, "rehandshake") /\ UNCHANGED conn) \/ ReturnError(r)
  /\ UNCHANGED <<cacheVars, semVars, connVars, sem, using, ctxDone>>

\* The handshake, without any lock and without the context.  A failed one
\* closes its connection; with AutoRetry it may be tried again once.
Handshake(r) ==
  /\ pc[r] \in {"handshake", "rehandshake"}
  /\ \/ /\ nConns < MaxConns
        /\ nConns' = nConns + 1
        /\ open' = open \cup {nConns + 1}
        /\ Keep(r, nConns + 1)
        /\ Goto(r, IF pc[r] = "handshake" THEN "publish" ELSE "overwrite")
     \/ /\ ReturnError(r)
        /\ UNCHANGED <<nConns, open>>
     \/ /\ pc[r] = "handshake" /\ AutoRetry
        /\ Goto(r, "reconnect")
        /\ UNCHANGED <<nConns, open, conn>>
  /\ UNCHANGED <<cacheVars, semVars, idle, sem, using, ctxDone>>

\* Mutant: only the connection is cached.
CacheConnOnly(r) ==
  /\ conns' = [conns EXCEPT ![AddrOf[r]] = conn[r]]
  /\ UNCHANGED transports

\* cacheTransportLocked.
CacheTransport(r) ==
  /\ transports' = [transports EXCEPT ![AddrOf[r]] = conn[r]]
  /\ conns' = [conns EXCEPT ![AddrOf[r]] = conn[r]]

\* Mutant: published without looking whether somebody else was faster.
PublishBlindly(r) ==
  /\ pc[r] = "publish"
  /\ CacheTransport(r) /\ ReturnNegotiated(r)
  /\ UNCHANGED <<semVars, connVars, sem, using, ctxDone>>

\* Under the write lock: when somebody else was faster the handshaken
\* connection is returned, otherwise it is cached with a new transport.
Publish(r) ==
  /\ pc[r] = "publish"
  /\ IF transports[AddrOf[r]] # None
     THEN ReturnConn(r, conn[r]) /\ UNCHANGED cacheVars
     ELSE CacheTransport(r) /\ ReturnNegotiated(r) /\ UNCHANGED idle
  /\ UNCHANGED <<semVars, open, nConns, sem, using, ctxDone>>

\* The two retry functions cache without looking.
Overwrite(r) ==
  /\ pc[r] = "overwrite"
  /\ CacheTransport(r)
  /\ ReturnNegotiated(r)
  /\ UNCHANGED <<semVars, connVars, sem, using, ctxDone>>

-----------------------------------------------------------------------------
(* transport.RoundTrip, the body, and what follows.                        *)

\* A request the transport serves on connections this code never sees: any
\* request on a Plain transport, and "http" on an HTTP/1 TLS transport.
Untracked(r) == using[r] = Plain \/ (r \notin Secure /\ ~IsH2(r))

\* The HTTP/2 library lets requests wait for a dial in progress.
DialInProgress(t) == \E q \in Requests : using[q] = t /\ pc[q] \in DialPoints

Use(r) ==
  /\ pc[r] = "use" /\ Untracked(r)
  /\ Goto(r, "headers")
  /\ UNCHANGED <<cacheVars, semVars, connVars, localVars, ctxDone>>

\* "unsupported protocol scheme": no library knows a scheme but the two, and
\* the HTTP/2 one knows "https" only.
UseRefused(r) ==
  /\ pc[r] = "use" /\ r \notin Secure
  /\ Goto(r, "finish")
  /\ UNCHANGED <<cacheVars, semVars, connVars, localVars, ctxDone>>

\* An idle connection the transport still holds open, otherwise a dial.  An
\* HTTP/2 connection stays available while it is in use.
UseTls(r) ==
  /\ pc[r] = "use" /\ using[r] # Plain /\ r \in Secure
  /\ LET free == idle[using[r]] \cap open
     IN  \/ /\ free = {} /\ ~(IsH2(r) /\ DialInProgress(using[r]))
            /\ Goto(r, "dial")
            /\ UNCHANGED <<conn, idle>>
         \/ \E c \in free :
              /\ Keep(r, c)
              /\ Goto(r, "headers")
              /\ idle' = IF IsH2(r) THEN idle ELSE [idle EXCEPT ![using[r]] = @ \ {c}]
  /\ UNCHANGED <<cacheVars, semVars, open, nConns, sem, using, ctxDone>>

\* The response headers arrive, the connection fails with a text that makes
\* RoundTrip evict, or the deadline passes, which is no network error (the
\* HTTP/1 library closes the connection of a request that gave up).
Headers(r) ==
  /\ pc[r] = "headers"
  /\ \/ /\ conn[r] \in open \cup {None}
        /\ Goto(r, "body")
        /\ UNCHANGED open
     \/ /\ Goto(r, "evict")
        /\ open' \in {open \ {conn[r]}} \cup (IF IsH2(r) THEN {open} ELSE {})
     \/ /\ r \in ctxDone
        /\ Goto(r, "finish")
        /\ open' = IF IsH2(r) THEN open ELSE open \ {conn[r]}
  /\ UNCHANGED <<cacheVars, semVars, nConns, idle, localVars, ctxDone>>

\* RoundTrip drops the transport and the connection now cached for the
\* address, whichever they are, and closes the latter.
Evict(r) ==
  /\ pc[r] = "evict"
  /\ transports' = [transports EXCEPT ![AddrOf[r]] = None]
  /\ conns' = [conns EXCEPT ![AddrOf[r]] = None]
  /\ open' = open \ {conns[AddrOf[r]]}
  /\ Goto(r, "finish")
  /\ UNCHANGED <<semVars, nConns, idle, localVars, ctxDone>>

\* The body ends: the connection goes back to its transport, or is closed
\* by the server, by the deadline or under the request.
Body(r) ==
  /\ pc[r] = "body"
  /\ Goto(r, "finish")
  /\ \/ /\ conn[r] \in open
        /\ idle' = [idle EXCEPT ![using[r]] = @ \cup {conn[r]}]
        /\ UNCHANGED open
     \/ open' = open \ {conn[r]} /\ UNCHANGED idle
  /\ UNCHANGED <<cacheVars, semVars, nConns, localVars, ctxDone>>

Filled(m) == {a \in Addrs : m[a] # None}
Without(m, dropped) == [a \in Addrs |-> IF a \in dropped THEN None ELSE m[a]]

\* CloseIdleConnections: every cached connection but the one of kept is
\* closed; a transports map, a semaphores map that grew too large is emptied.
CloseExcept(kept) ==
  LET dropped == Addrs \ {kept}
      crowded == Cardinality(Filled(sems)) > CacheLimit
  IN  /\ open' = open \ {conns[a] : a \in dropped}
      /\ conns' = Without(conns, dropped)
      /\ transports' = IF Cardinality(Filled(transports)) > CacheLimit
                       THEN Without(transports, dropped) ELSE transports
      /\ sems' = IF crowded THEN Without(sems, Addrs) ELSE sems
      /\ orphans' = IF crowded THEN orphans \cup {sems[a] : a \in Filled(sems)}
                    ELSE orphans

\* Deferred by dispatcherAsync; the other callers just return.
Finish(r) ==
  /\ pc[r] = "finish"
  /\ Goto(r, "done")
  /\ IF r \in Dispatched THEN CloseExcept(KeptAddr[r])
     ELSE UNCHANGED <<open, cacheVars, sems, orphans>>
  /\ UNCHANGED <<token, nSems, nConns, idle, localVars, ctxDone>>

\* evictOldestClients or clearAllConnections drops the client from the pool.
DropClient ==
  /\ CloseExcept(None)
  /\ UNCHANGED <<token, nSems, nConns, idle, pc, localVars, ctxDone>>

-----------------------------------------------------------------------------
\* The steps that end by themselves or with the deadline.
Bounded(r) ==
  \/ Lookup(r) \/ GetPlain(r) \/ GetRefused(r) \/ GetSemaphore(r) \/ Acquire(r)
  \/ Recheck(r) \/ Release(r) \/ Relook(r) \/ DialCached(r) \/ DialFresh(r)
  \/ Publish(r) \/ Overwrite(r) \/ Use(r) \/ UseRefused(r) \/ UseTls(r)
  \/ Headers(r) \/ Evict(r) \/ Body(r) \/ Finish(r)

\* The steps that wait for a peer without looking at the deadline.
Unbounded(r) == Connect(r) \/ Reconnect(r) \/ Handshake(r)

Step(r) == Bounded(r) \/ Unbounded(r)

Terminated == (\A r \in Requests : pc[r] = "done") /\ UNCHANGED vars

Next == (\E r \in Requests : Step(r) \/ Deadline(r)) \/ DropClient \/ Terminated

Spec == Init /\ [][Next]_vars

\* A server may leave a handshake unanswered, a proxy the dial through it,
\* and a deadline need not pass.
FairSpec == Spec /\ \A r \in Requests : WF_vars(Bounded(r))

-----------------------------------------------------------------------------
(* Properties.                                                             *)

Creators(a) == {r \in Requests : Creating(r) /\ AddrOf[r] = a}

\* A semaphore is available or held by the one request that is creating a
\* transport under it, never both and never neither: no path through
\* getTransport and dialTLS loses or duplicates it.
SemaphoreConserved ==
  \A s \in 1..nSems :
    LET holders == {r \in Requests : Creating(r) /\ sem[r] = s}
    IN  IF s \in token THEN holders = {} ELSE \E r \in Requests : holders = {r}

\* What SemaphoreConserved needs to be inductive: semaphores are numbered as
\* they are made, and whoever waits for or holds one has fetched it.
SemaphoresKnown ==
  /\ token \subseteq 1..nSems
  /\ \A a \in Addrs : sems[a] \in (1..nSems) \cup {None}
  /\ \A r \in Requests : (pc[r] = "acquire" \/ Creating(r)) => sem[r] \in 1..nSems

\* "The semaphore serializes transport creation" (getAddressSemaphore): two
\* requests create a transport for one address at one time only when
\* CloseIdleConnections emptied the map under one of them; of the requests
\* whose semaphore was not lost that way, at most one is creating.
CreationSerialised ==
  \A a \in Addrs : \A r, q \in Creators(a) :
    sem[r] \notin orphans /\ sem[q] \notin orphans => r = q

\* What CreationSerialised needs: the semaphore a request fetched is still the
\* one of its address, unless the map was emptied since.
SemaphoresFresh ==
  \A r \in Requests :
    (pc[r] = "acquire" \/ Creating(r)) => sem[r] \in {sems[AddrOf[r]]} \cup orphans

\* A cached connection always has a cached transport, so dialTLS never
\* answers "there is one already" (nil) to a getTransport that then finds
\* no transport.  It has to survive both evictions and both publications.
CachedConnectionHasTransport ==
  \A a \in Addrs : conns[a] # None => transports[a] # None

\* The transport of an address is dropped or kept, never exchanged for
\* another TLS transport in one step: requests that dial at one time agree on
\* the winner (the check under the write lock in dialTLS), and only a request
\* of scheme "http", which does not look, exchanges it.  Without the retry
\* functions, which do not check.
TransportNotReplaced ==
  [][\A a \in Addrs : transports[a] # None => transports'[a] \in {transports[a], Plain, None}]_vars

\* While every dial and every handshake comes to an end (both may ignore the
\* deadline), every request returns: nobody waits for ever for a semaphore,
\* whatever errors and evictions its holders meet.
AllReturn ==
  (\A r \in Requests : WF_vars(Unbounded(r))) => \A r \in Requests : <>(pc[r] = "done")

\* "goroutines blocked on lock can be unblocked when the request context is
\* cancelled" (roundTripper): behind a holder whose handshake is never
\* answered, a waiting request still returns.
DeadlineUnblocksWaiter ==
  \A r \in Requests : (pc[r] = "acquire" /\ r \in ctxDone) ~> pc[r] = "done"

\* "a hard timeout to prevent hanging forever on dead proxies"
\* (CycleTLS.Do): with a dialer that comes back, a request whose deadline has
\* passed returns.
DeadlineEndsRequest ==
  (\A r \in Requests : WF_vars(Connect(r) \/ Reconnect(r)))
    => \A r \in Requests : r \in ctxDone ~> pc[r] = "done"

\* "If transport already exists (created by another goroutine while we were
\* handshaking), close ours" (dialTLS): no open connection is forgotten by
\* the caches, the transports and the requests.
NoConnectionForgotten ==
  \A c \in open : \/ \E a \in Addrs : conns[a] = c
                  \/ \E t \in Conns : c \in idle[t]
                  \/ \E r \in Requests : conn[r] = c

=============================================================================
