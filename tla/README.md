# Verification of CycleTLS

TLA+ models of CycleTLS (a Go process that makes HTTP, SSE and WebSocket requests
with chosen TLS fingerprints, driven by a JavaScript library over a local control
WebSocket), TLC runs on small instances, and TLAPS proofs for all instances.
Sources are named relative to the repository.

## 1. Inventory

| component | source | state | operations | hard behaviour | correct when |
|---|---|---|---|---|---|
| request dispatch | `cycletls/index.go`, `main.go` | `activeRequests`, one `chanRead` and `chanWrite` per control socket, a context per request | `readSocket`, `readProcess`, `writeSocket`, `processRequest` (+ HTTP/3, SSE, WebSocket variants), `dispatcherAsync` (+ SSE, WebSocket) | a goroutine per request, three per socket, ids chosen by the client, cancel racing completion, socket failing under blocked senders | a cancel finds its request while it is in flight and no longer; a cancelled request sends at most one more chunk; each request's frames form one response; every request that reached its server ends |
| transport cache | `cycletls/roundtripper.go` | `cachedTransports`, `cachedConnections`, `addressSems`, per client | `RoundTrip`, `getTransport`, `dialTLS`, two retries, eviction on error, `CloseIdleConnections` | long network steps with no lock held, results published under a lock taken again, contexts that expire, eviction by anybody at any time | semaphores are conserved, one creator per address and semaphore, the two maps agree, the first publisher wins, nobody waits for ever |
| client pool | `cycletls/client.go` | `advancedClientPool`, global | `getOrCreateClient`, `generateClientKey`, `evictOldestClients`, `cleanupClientPool`, `clearAllConnections` | create outside the lock and insert under it again | bounded, no entry displaced, the least recently used go first, callers get a client made under their key |
| Go API | `cycletls/index.go` | channels of a `CycleTLS` value | `Init`, `Do`, `Close` | `Close` of one value empties the pool of all | as the pool and the cache |
| proxy dialers | `cycletls/connect.go` | cached HTTP/2 connection to the proxy, per client | `DialContext` (HTTP/1 and HTTP/2 CONNECT), `SocksDialer.DialContext`, `http2Conn.Close` | tunnels multiplexed on one connection, the cache overwritten and cleared under running dials, a dial left behind by its context | no connection to the proxy is leaked, only tunnels that share fall with another dial, a SOCKS dial returns with its context |
| TypeScript: shared instances | `src/index.ts`, `src/index.go` | `sharedInstances` per Node process, `SharedInstance` per port, child process | `initCycleTLS`, `getOrCreateSharedInstance`, `initialize`, `spawnServer`, `createClient`, `handleSpawn`, `cleanExit`, `removeClient`, `cleanup` | start-up races on a port, a time limit, server crash and restart, exit during start-up | a fatal server is replaced, initialisation settles, cleanup is final |
| TypeScript: requests | `src/index.ts` | listeners per request id, stream of the body | `request`, `sendRequest`, `cancelRequest`, frame handlers, `exit` | frames race the program's own cancel and exit; ids by clock and chance | a request settles with its own whole body or an error, listeners go away |
| control frames | `src/index.ts` (`PacketBuffer`), writers in `cycletls/index.go` | none | write and read of length-prefixed fields | 16-bit lengths | what is read is what was written |
| SSE client, WebSocket client | `cycletls/sse.go`, `cycletls/websocket.go` | reader state | `Connect`, `NextEvent`, `Receive` | blocking reads without a deadline | events delimited as sent |
| HTTP/3 transport | `cycletls/http3.go` | none shared | dial per request | library code | - |
| errors | `cycletls/errors.go` | none | `parseError` | text matching, order of cases | - |
| fingerprints | `cycletls/utils.go`, `ja4.go`, `http2.go`, `extensions.go` | none | strings to ClientHello and HTTP/2 settings | parsing | - |

How they interact: a Node process keeps one `SharedInstance` per port, which spawns the
Go server or connects to one that listens already. Its clients send request, cancel and
exit messages over the one control socket. The reader goroutine of that socket builds the
request, taking an HTTP client from the pool, registers its cancel function and hands it
to a goroutine of its own. The goroutine runs the client, whose `roundTripper` is shared
by all requests served by the same pool entry and dials directly or through a proxy
dialer. Response frames go through one unbuffered channel per socket to its writer
goroutine, and in the Node process to the listeners on the request's id. At the end of
each request the dispatcher deletes the registry entry and calls `CloseIdleConnections`
on the shared `roundTripper`; `CycleTLS.Do` uses pool and cache without any of the
dispatch machinery.

The hazards that matter most, each at its line and with the properties about it, are in
`PROJECT.json`; section 4 lists further ones met while modelling.

## 2. Modules

| module | models | how state and actions correspond |
|---|---|---|
| `ResponseStream` | abstract: the frames of one request as its reader may rely on them | `phase`, `received` per request; `Fail`, `Open`, `Chunk`, `Break`, `End` |
| `ResponseDelivery` | abstract: what a program may rely on about the promises and bodies of its requests | `promise`, `stream`, `pushed` per request; `Call`, `Fail`, `Begin`, `Push`, `Close`, `Settle`, `Destroy`, any number of requests in one step |
| `RequestDispatch` | the server behind the control sockets | `inbox`, `sock`, `reader` per socket; `active` is `activeRequests`, whose stored cancel function is represented by the request it cancels; `pc[r]` is where the request's goroutine is, `out[r]` the frame it is blocked sending on `chanWrite`, `held[r]` the frame inside `WriteMessage`, `stream[r]` what was written. `ReadRequest` includes the whole of `processRequest` and its variants (registering is their last act); `HttpRead` is a round of the body loop up to its last look at the context, `HttpForward` the send after it; `Finish` the deferred calls. `chunks` and `late` (chunks and errors that got through after the cancel) are ghosts |
| `TransportCache` | one `roundTripper` under concurrent requests, `CloseIdleConnections` and pool eviction | `transports`, `conns`, `sems` are the three maps; `token` the semaphores with a value in their channel; `open` and `idle` the connections that are open and the ones a transport has spare; `pc[r]` the program point in `RoundTrip`, `getTransport`, `dialTLS`; `using[r]` the transport that runs `r`, `None` inside `getTransport`: this tells the two callers of `dialTLS` apart. `Connect` and `Handshake` are the first try, `Reconnect` and the handshake after it a retry. `orphans` is a ghost: the semaphores dropped with an emptied map |
| `ClientPool` | the pool of clients | `pool`, `lastUsed` are the entries, `built` remembers the configuration each client was created with; `KeyOf`, the key of a configuration, is any function; one action per critical section, creation between two of them |
| `Eviction` | what `evictOldestClients` promises | `Oldest`: the sets of least recently used entries, any among equals. `ClientPool` evicts any of them, `OldestSelection` is shown to pick one |
| `OldestSelection` | the loop of `evictOldestClients` statement by statement | `entries`, `i`, `j`, `oldest` are the Go variables, positions from 1 |
| `ProxyTunnel` | the proxy dialer of one client: every scheme, the dials it runs and the tunnels they return | `cached` is the pair `cachedH2ClientConn`, `cachedH2RawConn`; `pc[d]` the program point of a call of `DialContext` and then the state of its tunnel; `socks[d]`, `offer[d]` the goroutine of a SOCKS4 dial and its channel; `fate`, `alpn` what became of each connection to the proxy. `CheckCache`, `Clear`, `Cache` are the three critical sections of `cacheH2Mu` |
| `SharedInstance` | start-up, sharing, restart and end of the server as Node processes drive it | `entry` is `sharedInstances` in each process; `phase`, `host`, `timer`, `failed`, `shutting`, `promise`, `ws`, `clients` are the fields of an instance and the state of `initialize`; `proc[i]` are the processes it spawned: its child, and those replaced while alive, whose stderr it still reads; `fatal` counts the chunks with a fatal message waiting there; `gone` are the Node processes an exception ended. One action per callback or stretch between awaits; `Event` lets microtasks run first |
| `ClientRequest` | HTTP requests of TypeScript clients, composed with the server | the server side is `INSTANCE ResponseStream` (`phase`, `sent`), which `RequestDispatch` implements, with guards for cancelled requests that `ServesAsAssumed` shows it keeps: the two together cover a request from the program to the wire and back; `wire` are the frames in flight, `listener`, `meta`, `readable`, `body`, `failed`, `promise` the closures of `request`. `Handle` is the handler of one frame with every listener it reaches. `late` holds the server to one chunk or error after a cancel; `cut` are the requests whose cancel it has read, `whole` a ghost |
| `*Proofs` | - | theorems of section 5, one module for each modelled one |
| `MC*` | instances for TLC | functions from requests to ids, protocols, addresses, clients and Node processes; symmetry sets |

Mutants (operators commented "Mutant") are variants of an operation with a plausible
error; they are part of no specification and show that each property would notice.

Plan for the rest, most important first:

1. The abstract "at most one transport per address" object that `TransportCache`
   implements.
2. `FrameCodec`: writers and `PacketBuffer` as functions on length fields, with the
   16-bit truncation; `SseParser`: `NextEvent` against a reference definition;
   `ErrorClass`: `parseError`; the TLS 1.2 to 1.3 upgrade of a JA3.
3. WebSocket and SSE requests of the TypeScript client, and its reader after a malformed
   message.

## 3. Runs

Two requests or callers are the least at which the interleavings in question exist; a
third is there where a bystander matters (a second waiter, a request of another kind).

| run | instance | shows |
|---|---|---|
| `DispatchHttpSse` | one socket, an HTTP and an SSE request with ids of their own, one control message, two chunks each | `TypeOK`, `RegistryTracksLive`, `HttpAnswered`; under fairness `HttpCompletes`, `HttpTerminates` |
| `DispatchSharedId` | an HTTP and a WebSocket request with one id, on two sockets, one control message, one chunk each | `NoStaleEntry`, `CancelStopsChunks`, `StreamContract`: what is written implements `ResponseStream`, and `ServesAsAssumed`: an HTTP dispatcher takes only the steps `ClientRequest` allows its server |
| `StreamEnd` | violated | an SSE stream that ended upstream is never ended for the client, though process and socket live |
| `CacheSharing` | two https requests and one of another scheme for one address, HTTP/2, the last empties the maps as it ends | `TypeOK`, `SemaphoreConserved`, `CreationSerialised`, `TransportNotReplaced` |
| `CacheRetry` | two https requests for one address, HTTP/1, retries, the maps emptied whenever a request ends | `CachedConnectionHasTransport`; `AllReturn` if dials and handshakes end, `DeadlineUnblocksWaiter` even if they do not |
| `CacheSilent` | violated | the deadline of the request that handshakes does not end it |
| `CacheForgotten` | violated | a connection that lost the race is dropped by `getTransport` and stays open |
| `ClientPool` | six callers, a configuration each, two of which share one of five keys, a pool of four, five clients | `TypeOK`, `PoolBounded`, `ServedUnderKey`, `EntryNotReplaced` |
| `PoolSelection` | lists of four entries, four times with ties, every count up to five | `TypeOK`, `EvictsOldest`, `EvictsAsPromised` |
| `ProxyTunnel` | three dials, each proxy scheme with and without a port, two connections of two streams | `TypeOK`, `EveryConnectionOwned`, `TunnelFallsBySharing`; under fairness `SocksRespectsContext`, `AbandonedDialClosed` |
| `SharedInstance` | three callers in two Node processes, two instances, an exit each, a crash or a logged panic, two chunks | `TypeOK`, `OnlyLaterRestartsOrphan`, `ResolvedMeansConnected`, `NoSpawnAfterCleanup`; under fairness `InitSettles`, `FatalRestarts` |
| `ClientRequest` | a buffered request with two chunks and an endless streamed one, a client each, one server that may die | `TypeOK`, `OwnBody`, `NoListenerLeak`, `DeliveryContract`: the handlers implement `ResponseDelivery`; under fairness `Settles`, `CancelReachesServer` |

Bounds, by name. `MaxChunks` (chunks of one upstream) at one or two: the stream's order
is relative to the last frame, so a second chunk after a first is every later one; in
`ClientRequest` it is given for each request, two for the buffered and one for the
streamed. `MaxControls` (cancel, exit and malformed messages) at one: every point at
which one can arrive, hit or miss; the theorems on the registry hold for any number.
`MaxConns` (handshakes that succeed, connections to the proxy) and `MaxSems`
(semaphores): no request needs more than one semaphore between two resets, and two or
three connections give a cached one, a losing one and a fresh one; a request that finds
the bound used up sees its handshake fail, which it may do anyway. `MaxStreams` at two
lets two dials share a connection and the third find it full. `CacheLimit` is
`maxCachedTransports` (256): at 0 every `CloseIdleConnections` that leaves a transport
empties the maps, the case that drops semaphores in use. `MaxPool` is
`maxClientPoolSize` (512): 4 is the least of which a quarter is one. `MaxClock`,
`MaxClients` bound time and creations, `MaxCount` the argument of the selection.
`MaxInstances` at two: one for each Node process, or an instance and its successor in
one. `MaxExits` at one: a client that exits twice finds what any late exit finds.
`MaxCrashes` (servers that die or log by themselves) at one, besides the deaths of
servers that lose the port, which are not counted. `MaxChunks` at two: in
`SharedInstance` a fatal message and one more behind it, where `cleanExit` does nothing
the second time. `MaxStrays` at one: a second process is orphaned as the first is.

`CHECK_DEADLOCK FALSE` stands in the two runs of the TypeScript side only: a program that
has made its calls and waits is where those systems really stop.

Fairness. `RequestDispatch` assumes weak fairness of each goroutine and of the reader (the
Go scheduler), so a blocked send on `chanWrite` ends because the writer's steps are fair:
it receives for ever, also after a failed write. Reads of a body return, because the HTTP
client's `Timeout` is never zero and closes the body. `Connect` gets no fairness:
`client.Do` handshakes without looking at its context, as `CacheSilent` shows, and so do
the dialers of HTTP proxies. `HttpCompletes` and `HttpTerminates` are therefore about
requests whose `client.Do` has returned (`Answered`). `WsReceive` has no deadline and gets
no fairness. The client's messages and its departure are never forced. `TransportCache`
assumes weak fairness of the steps in `Bounded`; those in `Unbounded`, which wait for a
peer without looking at the deadline (dial, handshake, and both in a retry), get none, and
no deadline is forced to pass. `AllReturn` adds fairness of `Unbounded` as a hypothesis of
its own, and `DeadlineEndsRequest` that of the dials only, so what refutes it is the
handshake. `ProxyTunnel` assumes it only of the goroutines that receive from a SOCKS4
dial: no dial, answer of the proxy, deadline or close is ever forced, so what it shows
holds with a proxy that never answers. `SharedInstance` assumes that event loops run what
is ready, that timers fire and that a process that was started goes on; crashes, exits,
new callers and a missing executable are never forced. `ClientRequest` assumes the event
loop (`Handle`, `Collect`), the server's reader (`ServerCancel`), and the server's next
frame of a request it has begun to answer, which `HttpTerminates` justifies (`Answering`);
it need not begin, and `Settles` is about requests it did begin to answer. An endless
upstream owes its end only after a cancel. Cancels and exits by the program are never
forced.

## 4. What the violated runs say, and other divergences

* `StreamEnd`: the comments "Normal end of stream" (`index.go:948`) and "Send end message"
  (`:994`) describe an exit the SSE loop does not have. At the end of a stream
  `Scanner.Err()` is nil, so `NextEvent` returns neither event nor error; the loop goes on
  with the `continue` at `index.go:955-956` and gets the same answer for ever. The `break`
  at 949 waits for an `io.EOF` that does not come, and would leave only the `select`, as
  the one for a cancelled context does: a cancelled SSE request spins too. The property
  counts a dead process and a closed socket as outcomes; neither is needed to violate it.
* `CacheSilent`: `Do` sets "a hard timeout to prevent hanging forever on dead proxies",
  `conn.Handshake()` takes no context.
* `CacheForgotten`: the comment in `dialTLS` says "close ours", the code returns it; the
  transport that asked would use it, `getTransport` ignores it.

Divergences visible in the models, without a run of their own:

Server.

* `README.md:622` promises error responses; a request that could not be built is logged
  and returned without an `http.Request`, which the dispatcher dereferences: the process
  dies for every client.
* A second request with an id in use takes over the entry, and whichever ends first
  deletes that of the other (`index.go:296`): a live request can no longer be cancelled.
* A chunk that was read before the cancel is still sent (`index.go:754` is the last look
  at the context), hence "at most one" in `CancelStopsChunks`.
* The `break` after "Normal close" (`index.go:1152`) leaves the `select`: a closed
  WebSocket is read again until the library panics.
* A cancelled or failed WebSocket request returns without an end frame (`index.go:1144`).
  The writer goroutine of a closed socket never ends (`index.go:1281`). `Close` closes
  the channels unconditionally, so a second one panics (`index.go:1392`).

Cache and pool.

* `CloseIdleConnections` "closes connections that have been idle for too long"
  (`roundtripper.go:579`) but closes every cached connection to other addresses, in use or
  not, when any request ends (action `Finish`, operator `CloseExcept`).
* Emptying `addressSems` (`roundtripper.go:617`) while a semaphore of it is held lets a
  second creator in. `CreationSerialised` therefore leaves out requests whose semaphore was
  dropped (`orphans`), and says that nothing else lets one in.
* `http` and `https` requests to one host share the key `host:443`
  (`roundtripper.go:550`), so after an `http` request an `https` one runs on a plain
  `http.Transport`: `TransportNotReplaced` allows exactly that replacement.
* The retries overwrite whatever was cached meanwhile without closing it
  (`roundtripper.go:496`); `FirstPublisherWins` therefore assumes `~AutoRetry`.
* `generateClientKey` omits `HeaderOrder`, `TLS13AutoRetry`, `DisableGrease` and others,
  joins the rest without escaping and keeps half of a hash (`client.go:160`), so callers
  that ask for different things may share a client: `KeyOf` is any function, and
  `ServedUnderKey` promises a client of the caller's key, not of its options.
* `LastUsed` is the time of the last lookup, so `cleanupClientPool` removes the client of
  a request that is still running (`client.go:310`).

Proxy.

* "Connection is dead" and "saturated" clear the cache (`connect.go:245`, `:260`), which
  closes the connection with every live tunnel on it; and a clear that comes late closes
  a connection cached in between. Closing one HTTP/2 tunnel closes all that share its
  connection (`connect.go:367`). A tunnel alone on a cached HTTP/2 connection falls to a
  late clear as well. `TunnelFallsBySharing` says that these are all the ways.
* The default ports are filled in after the dialer has copied the URL, so a proxy URL
  without a port cannot be dialled (`proxy.port` in `DialProxy`).
* `http.ReadResponse` and `tls.Dial` ignore the context (`connect.go:223`): a silent
  HTTP proxy holds its dial for ever.

TypeScript.

* The exit of the last client of an old instance cleans up whichever instance now has the
  port (`index.ts:440`, action `Exit`).
* A failed instance stays in the map, and a second caller on the port gets a client
  without waiting for, or in spite of, the initialisation (`index.ts:143`,
  `InitExisting`). `InitSettles` and `ResolvedMeansConnected` are about callers that
  created the instance.
* Nothing connects again after a restart (`index.ts:297`): messages are dropped by the
  dead WebSocket and pending promises never settle. `Settles` therefore stops at
  `Reachable`. `exit` with requests pending forgets their listeners in the same way.
* One panic of the server is read in several chunks (`index.ts:288`), and each that matches
  restarts it. `cleanExit` sets `isShuttingDown`, which nothing resets, so it kills only
  the first time: a later matching text, be it the rest of the panic or one that `net/http`
  recovered and logged, replaces a living child, which goes on without a parent
  (`OnlyLaterRestartsOrphan` says that nothing else orphans one). A server that keeps
  losing the port, to its own orphan for instance, is restarted for ever.
* A missing executable throws in the callback of the probe (`index.ts:269`): nobody
  catches it and the Node process ends (`SpawnThrows`).
* An exit during start-up clears the timer the promise of `initialize` depends on
  (hence `cleaned` in `InitSettles`); attempts to connect go on.
* The stderr listener outlives `cleanup`: a fatal message still queued starts a server
  again (`CleanupIsFinal` says it is the only way).
* A request id is a clock reading, the URL and one of a thousand numbers
  (`index.ts:627`): requests that collide both receive both responses, hence `Distinct`
  in `OwnBody` and `NoListenerLeak`.
* An error in the middle of a body ends a stream as if it were complete: the documented
  `'error'` event (`README.md:281`) is not emitted. `failed` is what the program does not
  see. Response headers reach the program only with the first chunk or the end.

## 5. Proofs

All proofs hold for every value of the constants that satisfies the named assumptions
(`DispatchAssumption`, `CacheAssumption`, `PoolAssumption`, `SelectionAssumption`,
`TunnelAssumption`, `SharedAssumption`, `RequestAssumption`), which say no more than what
kind of value each constant is, and that a quarter of the pool is at least one client and
requests with one id are made on one client (an id starts with the client's). Every safety
property the passing runs check is a theorem.

* `RequestDispatchProofs`. `TypeCorrect`. The registry properties rest on `RegistryInv`: a
  request message lies in one place (`InboxInv`: otherwise one request could be registered
  twice), only registered requests are cancelled (`CancelledStarted`: a request is never
  registered after its cancel), and the two properties themselves. `RegistryNeverStale`,
  `CancelFindsRequest` follow. `CancelIsPrompt` uses `LateInv`: the one chunk or error
  that may follow a cancel is still to come (`Committed` lists the program points past the
  last look at the context), on offer to the writer, or passed on, and only one of these.
  `StreamRefinement` uses `FramesInv`: while the socket lives, the frames on the wire, in
  the writer's hands and in the dispatcher's are in order, and the program point
  determines the last of them; then each step of the model is a step of `ResponseStream`
  or a stutter. From the same invariant: what an HTTP dispatcher has produced when it
  leaves ends in a terminal frame (`HttpRequestsAnswered`), and each frame it produces is
  a step that `ServerStep` of `ClientRequest` allows (`ServerKeepsAssumption`, with
  `LateInv` for cancelled requests), which turns the assumption made there about the
  server into a fact about this one.
* `TransportCacheProofs`. `TypeCorrect` carries `Known`, so it shows that no point uses
  something nil. `CachesPaired` is inductive by itself. `SemaphoresConserved` needs
  `SemaphoresKnown` (semaphores are numbered as made, whoever waits fetched one).
  `CreationIsSerialised` adds `SemaphoresFresh`: a fetched semaphore is still the one in
  the map or was dropped with it. It assumes nothing about the number of addresses.
  `FirstPublisherWins` is an action property, step by step.
* `ClientPoolProofs`. `PoolStaysBounded`: at the limit at least a quarter, so at least
  one, is evicted before one is added. `FirstInserterWins`, and `ServedByKey` from
  `BuiltForKey`.
* `OldestSelectionProofs`. The loop invariant `LoopInv`: positions list every key once,
  the front is what was evicted, nothing in it is younger than the rest, `oldest` points
  to the oldest compared so far. With the number of rounds (`RoundsCounted`) and the
  slice as a bijection between positions and keys (`KeysCounted`), what is gone at the
  end is one of the sets `ClientPool` evicts (`LoopEvictsAsPromised`).
* `ProxyTunnelProofs`. `NoConnectionLeaked` is inductive with `SocksInv`: a result in the
  channel of a SOCKS4 dial has somebody waiting, or left behind, to take it.
  `TunnelsFallBySharing` needs `ProtocolInv`: what is cached, or on the way there, speaks
  HTTP/2, and any other connection is held by one dial, so a clear or close by another
  dial reaches only what is cached or what that dial holds too; and for that `UsedInv`:
  what is held or cached was dialled, which makes a fresh connection differ from all of
  them. `TunnelInv` is the conjunction.
* `SharedInstanceProofs`. `OrphansAreOfLaterRestarts` needs to know that the first spawn
  replaces nothing: `TypeOK` has that only a host has processes, and `PhaseInv` that a
  host is past its probe (and that an instance in the map was created there, and cleanup
  leaves none before its probe is through, from which `CleanupIsFinal` follows too). The
  first restart kills what it replaces, so only a later one is left.
  `ResolvedMeansConnected` is inductive by itself.
* `ClientRequestProofs`. `TypeCorrect`. `OwnBody` and `NoListenerLeak` need to know what is
  on the wire: `ResponseInv` says, request by request (`Sound`), that the frames on the
  wire follow each other and the first of them follows what its listener has seen
  (`Ordered`), that the last of them, or what was seen when there is none, agrees with
  the server (`UpToDate`), that an end frame is the server's last word (`Final`), that only
  the program that destroyed a stream cancels its request (`CutByOwner`), and what the
  closures hold meanwhile (`Gathered`). It assumes ids of their own (`Distinct`), as the
  two properties do: with a shared id a listener gathers the frames of both requests.
  `DeliveryRefinement` holds without: by `DeliveryInv` (promise, listener and stream of a
  request fit together) every request that is told a frame makes a step of
  `ResponseDelivery`, and one frame may make several of them at once. The run has
  distinct ids; the theorem says that they do not matter.

Only model-checked: what is temporal (`HttpCompletes`, `HttpTerminates`, `AllReturn`,
`DeadlineUnblocksWaiter`, `SocksRespectsContext`, `AbandonedDialClosed`, `InitSettles`,
`FatalRestarts`, `Settles`, `CancelReachesServer`): liveness under fairness is out of the
prover's reach.

## 6. Abstractions, and what is left out

* Frames keep their kind and a sequence number; payloads, headers and lengths are left
  out, so the truncation of an id or header longer than 65535 bytes (`index.go:700`) is
  not seen. Texts of errors appear only as "evicts" or "does not evict".
* The HTTP libraries: a transport reuses an idle connection of its own or dials; HTTP/2
  shares one connection and lets requests wait for a dial in progress; the transport of
  scheme `http` dials on connections `roundTripper` never sees. A dial that the library
  lets outlive its request is identified with the request.
* `processRequest` and `newClientWithReuse` inside it are one step of the reader in
  `RequestDispatch`; the pool's own interleavings are in `ClientPool`.
* Memory effects below the level of the locks are not modelled: all maps are accessed
  under their locks in the code.
* `ProxyTunnel`: the bytes in a tunnel and half closes, which nothing calls. Whether
  `CanTakeNewRequest` has noticed that a connection went away is left open. SOCKS5 is the
  library's dialer: it fails or connects, and fails once its context has ended.
* `SharedInstance`: an unsupported architecture; the cleanup of everything when the Node
  process ends; one port. Chunks on stderr are counted per instance, not per process:
  `Restart` treats them all alike.
* `ClientRequest`: defaults of the options, encodings of a request body, conversion of a
  response to json, text or blob; WebSocket and SSE requests. Frames lost with a server
  that dies are frames it did not write.
* Not modelled: the components marked so in `PROJECT.json`. Fingerprint parsing and the
  HTTP/3 transport are stateless data conversion for third-party libraries; two defects
  visible in review, a UDP socket left open by a failed dial (`http3.go:523`) and a
  context cancelled before the body is read (`http3.go:150`), need no model.
