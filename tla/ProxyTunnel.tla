---------------------------- MODULE ProxyTunnel ----------------------------
(***************************************************************************)
(* The proxy dialer of one pooled client (cycletls/connect.go).            *)
(*                                                                         *)
(* Every member of Dials is one call of connectDialer.DialContext and the  *)
(* tunnel it returns.  A CONNECT over HTTP/1 turns its connection into the *)
(* tunnel.  Over HTTP/2 the connection to the proxy is cached and carries  *)
(* the tunnels of several dials.  SOCKS4 dials in a goroutine that is left *)
(* behind when the context of the caller ends first; SOCKS5 is the         *)
(* library's dialer.  cachedH2ClientConn and cachedH2RawConn are always    *)
(* set together under cacheH2Mu: they are one variable here.               *)
(***************************************************************************)
EXTENDS Naturals, FiniteSets

CONSTANTS Dials, None,
          MaxConns,     \* bound: connections dialled
          MaxStreams    \* streams the proxy allows on an HTTP/2 connection

ASSUME TunnelAssumption ==
  /\ MaxConns \in Nat /\ MaxStreams \in Nat \ {0}
  /\ None \notin 1..MaxConns

Conns == 1..MaxConns

VARIABLES
  proxy,    \* the proxy URL: its scheme, and whether it names a port
  pc,       \* where a dial is, and what became of its tunnel
  conn,     \* the connection to the proxy a dial works on
  socks,    \* the goroutine of a SOCKS4 dial: "idle", "dialing", or "ready"
            \* when its result is in the channel
  offer,    \* the connection in that channel, None for an error
  cached,   \* the cached HTTP/2 connection
  fate,     \* what became of each connection
  alpn,     \* the protocol each connection negotiated
  ctxDone   \* dials whose context has ended

vars == <<proxy, pc, conn, socks, offer, cached, fate, alpn, ctxDone>>
socksVars == <<socks, offer>>

Proxies == [scheme : {"http", "https", "socks4", "socks5"}, port : BOOLEAN]

\* At these points a connection is in the hands of a dial.
Holding == {"connectCached", "connect1", "connect2", "cache", "tunnel"}
Points == Holding \cup {"new", "clear", "dial", "socks4", "abandoned", "socks5",
                        "closed", "failed"}

TypeOK ==
  /\ proxy \in Proxies
  /\ pc \in [Dials -> Points]
  /\ conn \in [Dials -> Conns \cup {None}]
  /\ socks \in [Dials -> {"idle", "dialing", "ready"}]
  /\ offer \in [Dials -> Conns \cup {None}]
  /\ cached \in Conns \cup {None}
  /\ fate \in [Conns -> {"unused", "open", "draining", "dropped", "closed"}]
  /\ alpn \in [Conns -> {"none", "h1", "h2"}]
  /\ ctxDone \subseteq Dials
  /\ \A d \in Dials : pc[d] \in Holding => conn[d] # None

\* newConnectDialer: a URL with a scheme it supports.
Init ==
  /\ proxy \in Proxies
  /\ pc = [d \in Dials |-> "new"]
  /\ conn = [d \in Dials |-> None]
  /\ socks = [d \in Dials |-> "idle"]
  /\ offer = [d \in Dials |-> None]
  /\ cached = None
  /\ fate = [c \in Conns |-> "unused"]
  /\ alpn = [c \in Conns |-> "none"]
  /\ ctxDone = {}

Goto(d, point) == pc' = [pc EXCEPT ![d] = point]
Hold(d, c) == conn' = [conn EXCEPT ![d] = c]
Close(c) == fate' = IF c = None THEN fate ELSE [fate EXCEPT ![c] = "closed"]

\* The next connection to the proxy is c, and it negotiated a protocol.
Open(c, protocol) ==
  /\ fate[c] = "unused" /\ \A b \in Conns : b < c => fate[b] # "unused"
  /\ fate' = [fate EXCEPT ![c] = "open"]
  /\ alpn' = [alpn EXCEPT ![c] = protocol]

-----------------------------------------------------------------------------
(* DialContext with an http or https proxy.                                *)

Streams(c) == Cardinality({d \in Dials : conn[d] = c /\ pc[d] \in Holding})

\* CanTakeNewRequest of the HTTP/2 library: it counts streams and may or may
\* not have noticed yet that the connection is going away or gone.
MayTake(c) == fate[c] # "open" \/ Streams(c) < MaxStreams
MayRefuse(c) == fate[c] # "open" \/ Streams(c) >= MaxStreams

\* Under the lock: take the cached connection, or close it when it is
\* saturated or dead, or find none.
CheckCache(d) ==
  /\ pc[d] = "new" /\ proxy.scheme \in {"http", "https"}
  /\ \/ /\ cached = None
        /\ Goto(d, "dial")
        /\ UNCHANGED <<conn, cached, fate>>
     \/ /\ cached # None /\ MayTake(cached)
        /\ Hold(d, cached) /\ Goto(d, "connectCached")
        /\ UNCHANGED <<cached, fate>>
     \/ /\ cached # None /\ MayRefuse(cached)
        /\ Close(cached) /\ cached' = None /\ Goto(d, "dial")
        /\ UNCHANGED conn
  /\ UNCHANGED <<proxy, socksVars, alpn, ctxDone>>

\* connectHTTP2 on a cached connection, without the lock.  A refusal, an
\* error of the connection and an expired context all close it.
ConnectCached(d) ==
  /\ pc[d] = "connectCached"
  /\ \/ /\ fate[conn[d]] = "open"
        /\ Goto(d, "tunnel")
        /\ UNCHANGED <<conn, fate>>
     \/ Close(conn[d]) /\ Hold(d, None) /\ Goto(d, "clear")
  /\ UNCHANGED <<proxy, socksVars, cached, alpn, ctxDone>>

\* Under the lock again: whatever is cached now is closed and forgotten.
Clear(d) ==
  /\ pc[d] = "clear"
  /\ Close(cached)
  /\ cached' = None
  /\ Goto(d, "dial")
  /\ UNCHANGED <<proxy, conn, socksVars, alpn, ctxDone>>

\* Connecting to the proxy fails, or succeeds when the URL names a port (the
\* default ports are filled in after the dialer has copied the URL).  For
\* "http" under the context and a timeout, for "https" (tls.Dial) under none.
DialProxy(d) ==
  /\ pc[d] = "dial"
  /\ \/ Goto(d, "failed") /\ UNCHANGED <<conn, fate, alpn>>
     \/ /\ proxy.port /\ (proxy.scheme = "http" => d \notin ctxDone)
        /\ \E c \in Conns, protocol \in {"h1", "h2"} :
             /\ proxy.scheme = "http" => protocol = "h1"
             /\ Open(c, protocol)
             /\ Hold(d, c)
             /\ Goto(d, IF protocol = "h1" THEN "connect1" ELSE "connect2")
  /\ UNCHANGED <<proxy, socksVars, cached, ctxDone>>

\* Mutant: an HTTP/1 connection is cached like an HTTP/2 one.
ConnectHttp1Cached(d) ==
  /\ pc[d] = "connect1"
  /\ \/ fate[conn[d]] = "open" /\ Goto(d, "cache") /\ UNCHANGED <<conn, fate>>
     \/ Close(conn[d]) /\ Hold(d, None) /\ Goto(d, "failed")
  /\ UNCHANGED <<proxy, socksVars, cached, alpn, ctxDone>>

\* connectHTTP1: the response is read without the context; any failure
\* closes the connection.
ConnectHttp1(d) ==
  /\ pc[d] = "connect1"
  /\ \/ /\ fate[conn[d]] = "open"
        /\ Goto(d, "tunnel")
        /\ UNCHANGED <<conn, fate>>
     \/ Close(conn[d]) /\ Hold(d, None) /\ Goto(d, "failed")
  /\ UNCHANGED <<proxy, socksVars, cached, alpn, ctxDone>>

\* Mutant: the error of connectHTTP2 is not looked at.
ConnectHttp2Unchecked(d) ==
  /\ pc[d] = "connect2"
  /\ Goto(d, "cache")
  /\ \/ fate[conn[d]] = "open" /\ UNCHANGED <<conn, fate>>
     \/ Close(conn[d]) /\ Hold(d, None)
  /\ UNCHANGED <<proxy, socksVars, cached, alpn, ctxDone>>

\* NewClientConn and connectHTTP2 on a connection of its own.
ConnectHttp2(d) ==
  /\ pc[d] = "connect2"
  /\ \/ /\ fate[conn[d]] = "open"
        /\ Goto(d, "cache")
        /\ UNCHANGED <<conn, fate>>
     \/ Close(conn[d]) /\ Hold(d, None) /\ Goto(d, "failed")
  /\ UNCHANGED <<proxy, socksVars, cached, alpn, ctxDone>>

\* Under the lock, without a look at what is cached.
Cache(d) ==
  /\ pc[d] = "cache"
  /\ cached' = conn[d]
  /\ Goto(d, "tunnel")
  /\ UNCHANGED <<proxy, conn, socksVars, fate, alpn, ctxDone>>

-----------------------------------------------------------------------------
(* SOCKS.                                                                  *)

\* SocksDialer.DialContext starts the goroutine; SOCKS5 is the library's.
StartSocks(d) ==
  /\ pc[d] = "new" /\ proxy.scheme \in {"socks4", "socks5"}
  /\ Goto(d, proxy.scheme)
  /\ socks' = IF proxy.scheme = "socks4" THEN [socks EXCEPT ![d] = "dialing"] ELSE socks
  /\ UNCHANGED <<proxy, conn, offer, cached, fate, alpn, ctxDone>>

\* The goroutine's dial returns and its channel of capacity one takes the
\* result, whether or not anybody still waits for it.
SocksDialed(d) ==
  /\ socks[d] = "dialing"
  /\ socks' = [socks EXCEPT ![d] = "ready"]
  /\ \/ UNCHANGED <<offer, fate, alpn>>
     \/ /\ proxy.port
        /\ \E c \in Conns : Open(c, "h1") /\ offer' = [offer EXCEPT ![d] = c]
  /\ UNCHANGED <<proxy, pc, conn, cached, ctxDone>>

\* <-ch: the result leaves the channel.
Received(d) ==
  /\ socks[d] = "ready"
  /\ socks' = [socks EXCEPT ![d] = "idle"]
  /\ offer' = [offer EXCEPT ![d] = None]

\* The select of DialContext: the result, or the end of the context.
SocksReceive(d) ==
  /\ pc[d] = "socks4" /\ Received(d)
  /\ Hold(d, offer[d])
  /\ Goto(d, IF offer[d] = None THEN "failed" ELSE "tunnel")
  /\ UNCHANGED <<proxy, cached, fate, alpn, ctxDone>>

\* Mutant: the end of the context is only looked at once the dial returned.
SocksExpireLate(d) ==
  /\ pc[d] = "socks4" /\ d \in ctxDone /\ socks[d] = "ready"
  /\ Goto(d, "abandoned")
  /\ UNCHANGED <<proxy, conn, socksVars, cached, fate, alpn, ctxDone>>

SocksExpire(d) ==
  /\ pc[d] = "socks4" /\ d \in ctxDone
  /\ Goto(d, "abandoned")
  /\ UNCHANGED <<proxy, conn, socksVars, cached, fate, alpn, ctxDone>>

\* Mutant: the second goroutine receives the result and drops it.
ReapOnly(d) ==
  /\ pc[d] = "abandoned" /\ Received(d)
  /\ Goto(d, "failed")
  /\ UNCHANGED <<proxy, conn, cached, fate, alpn, ctxDone>>

\* The second goroutine closes what the abandoned dial returns.
Reap(d) ==
  /\ pc[d] = "abandoned" /\ Received(d)
  /\ Close(offer[d])
  /\ Goto(d, "failed")
  /\ UNCHANGED <<proxy, conn, cached, alpn, ctxDone>>

\* proxy.SOCKS5's DialContext: a connection or an error, the latter at once
\* when the context ends.
Socks5Dial(d) ==
  /\ pc[d] = "socks5"
  /\ \/ Goto(d, "failed") /\ UNCHANGED <<conn, fate, alpn>>
     \/ /\ proxy.port /\ d \notin ctxDone
        /\ \E c \in Conns : Open(c, "h1") /\ Hold(d, c)
        /\ Goto(d, "tunnel")
  /\ UNCHANGED <<proxy, socksVars, cached, ctxDone>>

-----------------------------------------------------------------------------
(* Tunnels, the proxy, contexts.                                           *)

\* Mutant: only the stream of an HTTP/2 tunnel is closed.
CloseStreamOnly(d) ==
  /\ pc[d] = "tunnel"
  /\ IF alpn[conn[d]] = "h2" THEN UNCHANGED fate ELSE Close(conn[d])
  /\ Goto(d, "closed")
  /\ UNCHANGED <<proxy, conn, socksVars, cached, alpn, ctxDone>>

\* The user of a tunnel closes it.  http2Conn.Close closes the stream and the
\* connection under it, whoever else has a stream on that.
CloseTunnel(d) ==
  /\ pc[d] = "tunnel"
  /\ Close(conn[d])
  /\ Goto(d, "closed")
  /\ UNCHANGED <<proxy, conn, socksVars, cached, alpn, ctxDone>>

\* The proxy announces that it takes no more streams, or goes away.
ProxyLeaves(c) ==
  /\ \/ /\ fate[c] = "open" /\ alpn[c] = "h2"
        /\ fate' = [fate EXCEPT ![c] = "draining"]
     \/ /\ fate[c] \in {"open", "draining"}
        /\ fate' = [fate EXCEPT ![c] = "dropped"]
  /\ UNCHANGED <<proxy, pc, conn, socksVars, cached, alpn, ctxDone>>

Deadline(d) ==
  /\ pc[d] \notin {"tunnel", "closed", "failed", "abandoned"}
  /\ d \notin ctxDone
  /\ ctxDone' = ctxDone \cup {d}
  /\ UNCHANGED <<proxy, pc, conn, socksVars, cached, fate, alpn>>

Terminated ==
  /\ \A d \in Dials : pc[d] \in {"closed", "failed"}
  /\ UNCHANGED vars

Socks(d) == SocksReceive(d) \/ SocksExpire(d) \/ Reap(d)

Step(d) ==
  \/ CheckCache(d) \/ ConnectCached(d) \/ Clear(d) \/ DialProxy(d)
  \/ ConnectHttp1(d) \/ ConnectHttp2(d) \/ Cache(d)
  \/ StartSocks(d) \/ SocksDialed(d) \/ Socks(d) \/ Socks5Dial(d)
  \/ CloseTunnel(d) \/ Deadline(d)

Next ==
  \/ \E d \in Dials : Step(d)
  \/ \E c \in Conns : ProxyLeaves(c)
  \/ Terminated

Spec == Init /\ [][Next]_vars

\* Goroutines that can run do; a proxy owes no answer.
FairSpec == Spec /\ \A d \in Dials : WF_vars(Socks(d))

-----------------------------------------------------------------------------
(* Properties.                                                             *)

\* d holds c: works on it, tunnels through it, or has it in its channel.
Holds(d, c) == \/ conn[d] = c /\ pc[d] \in Holding
               \/ offer[d] = c /\ pc[d] \in {"socks4", "abandoned"}

\* No connection to the proxy is leaked: one that is not closed is in the
\* hands of a dial or its tunnel, or waits to be received from a SOCKS dial.
\* The cache alone never keeps one: closing a tunnel closes what is under it.
EveryConnectionOwned ==
  \A c \in Conns : fate[c] \in {"open", "draining", "dropped"} =>
    \E d \in Dials : Holds(d, c)

\* A tunnel that another dial closes under its user pays for sharing: its
\* connection speaks HTTP/2, and at that moment it is the cached one (a later
\* dial found it saturated, or cleared the cache after a failure elsewhere) or
\* it carries another dial.  Tunnels over HTTP/1 and SOCKS, and an HTTP/2
\* tunnel alone on a connection the cache has replaced, are nobody else's.
TunnelFallsBySharing ==
  [][\A d \in Dials :
       /\ pc[d] = "tunnel" /\ pc'[d] = "tunnel"
       /\ fate[conn[d]] # "closed" /\ fate'[conn[d]] = "closed"
       => /\ alpn[conn[d]] = "h2"
          /\ (conn[d] = cached) \/ (\E e \in Dials \ {d} : Holds(e, conn[d]))]_vars

\* "Respect context cancellation/deadline for SOCKS connections": a dial whose
\* context ends does not wait for a proxy that never answers.
SocksRespectsContext ==
  \A d \in Dials : (pc[d] = "socks4" /\ d \in ctxDone) ~> pc[d] # "socks4"

\* "Leak the dial goroutine - it will finish eventually": when the abandoned
\* dial does return a connection, that is closed.
AbandonedDialClosed ==
  \A d \in Dials, c \in Conns :
    (pc[d] = "abandoned" /\ offer[d] = c) ~> fate[c] = "closed"

-----------------------------------------------------------------------------
(* Inductive strengthening, for the proofs.                                *)

SocksInv ==
  \A d \in Dials : /\ socks[d] # "idle" => pc[d] \in {"socks4", "abandoned"}
                   /\ offer[d] # None => socks[d] = "ready"

UsedInv ==
  /\ \A d \in Dials, c \in Conns : Holds(d, c) => fate[c] # "unused"
  /\ cached # None => fate[cached] # "unused"
  /\ \A c \in Conns : fate[c] # "unused" => alpn[c] # "none"

\* What is cached or on its way there speaks HTTP/2; other connections are
\* held by one dial.
ProtocolInv ==
  /\ cached # None => alpn[cached] = "h2"
  /\ \A d \in Dials : /\ pc[d] \in {"connectCached", "connect2", "cache"} => alpn[conn[d]] = "h2"
                      /\ offer[d] # None => alpn[offer[d]] = "h1"
  /\ \A c \in Conns, d, e \in Dials : alpn[c] = "h1" /\ Holds(d, c) /\ Holds(e, c) => d = e

TunnelInv == SocksInv /\ UsedInv /\ ProtocolInv

=============================================================================
