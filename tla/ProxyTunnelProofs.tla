------------------------- MODULE ProxyTunnelProofs -------------------------
(* Theorems about ProxyTunnel, for any number of dials and connections.    *)
EXTENDS ProxyTunnel, TLAPS

LEMMA NoneIsNoConn == None \notin Conns
  BY TunnelAssumption DEF Conns

\* The points of a dial, for the leaves below.
USE DEF Points, Holding

-----------------------------------------------------------------------------
LEMMA TypeStep ==
  ASSUME TypeOK, [Next]_vars
  PROVE  TypeOK'
<1>1. ASSUME NEW d \in Dials, Step(d)  PROVE TypeOK'
  <2> USE NoneIsNoConn DEF TypeOK
  <2>1. CASE CheckCache(d)
    BY <2>1 DEF CheckCache, Goto, Hold, Close, socksVars
  <2>2. CASE ConnectCached(d)
    BY <2>2 DEF ConnectCached, Goto, Hold, Close, socksVars
  <2>3. CASE Clear(d)
    BY <2>3 DEF Clear, Goto, Close, socksVars
  <2>4. CASE DialProxy(d)
    BY <2>4 DEF DialProxy, Goto, Hold, Open, socksVars
  <2>5. CASE ConnectHttp1(d)
    BY <2>5 DEF ConnectHttp1, Goto, Hold, Close, socksVars
  <2>6. CASE ConnectHttp2(d)
    BY <2>6 DEF ConnectHttp2, Goto, Hold, Close, socksVars
  <2>7. CASE Cache(d)
    BY <2>7 DEF Cache, Goto, socksVars
  <2>8. CASE StartSocks(d)
    BY <2>8 DEF StartSocks, Goto, socksVars
  <2>9. CASE SocksDialed(d)
    BY <2>9 DEF SocksDialed, Open, socksVars
  <2>10. CASE SocksReceive(d)
    BY <2>10 DEF SocksReceive, Goto, Hold, Received, socksVars
  <2>11. CASE SocksExpire(d)
    BY <2>11 DEF SocksExpire, Goto, socksVars
  <2>12. CASE Reap(d)
    BY <2>12 DEF Reap, Goto, Close, Received, socksVars
  <2>13. CASE Socks5Dial(d)
    BY <2>13 DEF Socks5Dial, Goto, Hold, Open, socksVars
  <2>14. CASE CloseTunnel(d)
    BY <2>14 DEF CloseTunnel, Goto, Close, socksVars
  <2>15. CASE Deadline(d)
    BY <2>15 DEF Deadline, socksVars
  <2> QED
    BY <1>1, <2>1, <2>2, <2>3, <2>4, <2>5, <2>6, <2>7, <2>8, <2>9, <2>10, <2>11, <2>12, <2>13, <2>14, <2>15 DEF Step, Socks
<1>2. ASSUME NEW c \in Conns, ProxyLeaves(c)  PROVE TypeOK'
  BY <1>2 DEF ProxyLeaves, TypeOK, socksVars
<1>3. CASE UNCHANGED vars
  BY <1>3 DEF vars, TypeOK
<1> QED  BY <1>1, <1>2, <1>3 DEF Next, Terminated

\* Every variable keeps its type, and a dial at a point where it works on a
\* connection has one.
THEOREM TypeCorrect == Spec => []TypeOK
<1>1. Init => TypeOK
  BY NoneIsNoConn DEF Init, TypeOK
<1> QED  BY <1>1, TypeStep, PTL DEF Spec

-----------------------------------------------------------------------------
LEMMA SocksStep ==
  ASSUME TypeOK, SocksInv, [Next]_vars
  PROVE  SocksInv'
<1>1. ASSUME NEW d \in Dials, Step(d)  PROVE SocksInv'
  <2> USE NoneIsNoConn DEF TypeOK, SocksInv
  <2>1. CASE CheckCache(d)
    BY <2>1 DEF CheckCache, Goto, Hold, Close, socksVars
  <2>2. CASE ConnectCached(d)
    BY <2>2 DEF ConnectCached, Goto, Hold, Close, socksVars
  <2>3. CASE Clear(d)
    BY <2>3 DEF Clear, Goto, Close, socksVars
  <2>4. CASE DialProxy(d)
    BY <2>4 DEF DialProxy, Goto, Hold, Open, socksVars
  <2>5. CASE ConnectHttp1(d)
    BY <2>5 DEF ConnectHttp1, Goto, Hold, Close, socksVars
  <2>6. CASE ConnectHttp2(d)
    BY <2>6 DEF ConnectHttp2, Goto, Hold, Close, socksVars
  <2>7. CASE Cache(d)
    BY <2>7 DEF Cache, Goto, socksVars
  <2>8. CASE StartSocks(d)
    BY <2>8 DEF StartSocks, Goto, socksVars
  <2>9. CASE SocksDialed(d)
    BY <2>9 DEF SocksDialed, Open, socksVars
  <2>10. CASE SocksReceive(d)
    BY <2>10 DEF SocksReceive, Goto, Hold, Received, socksVars
  <2>11. CASE SocksExpire(d)
    BY <2>11 DEF SocksExpire, Goto, socksVars
  <2>12. CASE Reap(d)
    BY <2>12 DEF Reap, Goto, Close, Received, socksVars
  <2>13. CASE Socks5Dial(d)
    BY <2>13 DEF Socks5Dial, Goto, Hold, Open, socksVars
  <2>14. CASE CloseTunnel(d)
    BY <2>14 DEF CloseTunnel, Goto, Close, socksVars
  <2>15. CASE Deadline(d)
    BY <2>15 DEF Deadline, socksVars
  <2> QED
    BY <1>1, <2>1, <2>2, <2>3, <2>4, <2>5, <2>6, <2>7, <2>8, <2>9, <2>10, <2>11, <2>12, <2>13, <2>14, <2>15 DEF Step, Socks
<1>2. ASSUME NEW c \in Conns, ProxyLeaves(c)  PROVE SocksInv'
  BY <1>2 DEF ProxyLeaves, SocksInv, socksVars
<1>3. CASE UNCHANGED vars
  BY <1>3 DEF vars, SocksInv
<1> QED  BY <1>1, <1>2, <1>3 DEF Next, Terminated

-----------------------------------------------------------------------------
\* No connection is leaked: every step that gives one up closes it or hands
\* it on.
LEMMA OwnedStep ==
  ASSUME TypeOK, SocksInv, EveryConnectionOwned, [Next]_vars
  PROVE  EveryConnectionOwned'
<1>1. ASSUME NEW d \in Dials, Step(d)  PROVE EveryConnectionOwned'
  <2> USE NoneIsNoConn DEF TypeOK, SocksInv, EveryConnectionOwned, Holds
  <2>1. CASE CheckCache(d)
    BY <2>1 DEF CheckCache, Goto, Hold, Close, socksVars
  <2>2. CASE ConnectCached(d)
    BY <2>2 DEF ConnectCached, Goto, Hold, Close, socksVars
  <2>3. CASE Clear(d)
    BY <2>3 DEF Clear, Goto, Close, socksVars
  <2>4. CASE DialProxy(d)
    BY <2>4 DEF DialProxy, Goto, Hold, Open, socksVars
  <2>5. CASE ConnectHttp1(d)
    BY <2>5 DEF ConnectHttp1, Goto, Hold, Close, socksVars
  <2>6. CASE ConnectHttp2(d)
    BY <2>6 DEF ConnectHttp2, Goto, Hold, Close, socksVars
  <2>7. CASE Cache(d)
    BY <2>7 DEF Cache, Goto, socksVars
  <2>8. CASE StartSocks(d)
    BY <2>8 DEF StartSocks, Goto, socksVars
  <2>9. CASE SocksDialed(d)
    BY <2>9 DEF SocksDialed, Open, socksVars
  <2>10. CASE SocksReceive(d)
    BY <2>10 DEF SocksReceive, Goto, Hold, Received, socksVars
  <2>11. CASE SocksExpire(d)
    BY <2>11 DEF SocksExpire, Goto, socksVars
  <2>12. CASE Reap(d)
    BY <2>12 DEF Reap, Goto, Close, Received, socksVars
  <2>13. CASE Socks5Dial(d)
    BY <2>13 DEF Socks5Dial, Goto, Hold, Open, socksVars
  <2>14. CASE CloseTunnel(d)
    BY <2>14 DEF CloseTunnel, Goto, Close, socksVars
  <2>15. CASE Deadline(d)
    BY <2>15 DEF Deadline, socksVars
  <2> QED
    BY <1>1, <2>1, <2>2, <2>3, <2>4, <2>5, <2>6, <2>7, <2>8, <2>9, <2>10, <2>11, <2>12, <2>13, <2>14, <2>15 DEF Step, Socks
<1>2. ASSUME NEW c \in Conns, ProxyLeaves(c)  PROVE EveryConnectionOwned'
  BY <1>2 DEF ProxyLeaves, EveryConnectionOwned, Holds, TypeOK, socksVars
<1>3. CASE UNCHANGED vars
  BY <1>3 DEF vars, EveryConnectionOwned, Holds
<1> QED  BY <1>1, <1>2, <1>3 DEF Next, Terminated

\* A connection to the proxy that is not closed is always in somebody's hands.
THEOREM NoConnectionLeaked == Spec => []EveryConnectionOwned
<1>1. Init => SocksInv /\ EveryConnectionOwned
  BY DEF Init, SocksInv, EveryConnectionOwned
<1>2. TypeOK /\ SocksInv /\ EveryConnectionOwned /\ [Next]_vars
        => (SocksInv /\ EveryConnectionOwned)'
  BY SocksStep, OwnedStep
<1> QED  BY <1>1, <1>2, TypeCorrect, PTL DEF Spec

-----------------------------------------------------------------------------
LEMMA UsedStep ==
  ASSUME TypeOK, SocksInv, UsedInv, [Next]_vars
  PROVE  UsedInv'
<1>1. ASSUME NEW d \in Dials, Step(d)  PROVE UsedInv'
  <2> USE NoneIsNoConn DEF TypeOK, SocksInv, UsedInv, Holds
  <2>1. CASE CheckCache(d)
    BY <2>1 DEF CheckCache, Goto, Hold, Close, socksVars
  <2>2. CASE ConnectCached(d)
    BY <2>2 DEF ConnectCached, Goto, Hold, Close, socksVars
  <2>3. CASE Clear(d)
    BY <2>3 DEF Clear, Goto, Close, socksVars
  <2>4. CASE DialProxy(d)
    BY <2>4 DEF DialProxy, Goto, Hold, Open, socksVars
  <2>5. CASE ConnectHttp1(d)
    BY <2>5 DEF ConnectHttp1, Goto, Hold, Close, socksVars
  <2>6. CASE ConnectHttp2(d)
    BY <2>6 DEF ConnectHttp2, Goto, Hold, Close, socksVars
  <2>7. CASE Cache(d)
    BY <2>7 DEF Cache, Goto, socksVars
  <2>8. CASE StartSocks(d)
    BY <2>8 DEF StartSocks, Goto, socksVars
  <2>9. CASE SocksDialed(d)
    BY <2>9 DEF SocksDialed, Open, socksVars
  <2>10. CASE SocksReceive(d)
    BY <2>10 DEF SocksReceive, Goto, Hold, Received, socksVars
  <2>11. CASE SocksExpire(d)
    BY <2>11 DEF SocksExpire, Goto, socksVars
  <2>12. CASE Reap(d)
    BY <2>12 DEF Reap, Goto, Close, Received, socksVars
  <2>13. CASE Socks5Dial(d)
    BY <2>13 DEF Socks5Dial, Goto, Hold, Open, socksVars
  <2>14. CASE CloseTunnel(d)
    BY <2>14 DEF CloseTunnel, Goto, Close, socksVars
  <2>15. CASE Deadline(d)
    BY <2>15 DEF Deadline, socksVars
  <2> QED
    BY <1>1, <2>1, <2>2, <2>3, <2>4, <2>5, <2>6, <2>7, <2>8, <2>9, <2>10, <2>11, <2>12, <2>13, <2>14, <2>15 DEF Step, Socks
<1>2. ASSUME NEW c \in Conns, ProxyLeaves(c)  PROVE UsedInv'
  BY <1>2 DEF ProxyLeaves, UsedInv, Holds, TypeOK, socksVars
<1>3. CASE UNCHANGED vars
  BY <1>3 DEF vars, UsedInv, Holds
<1> QED  BY <1>1, <1>2, <1>3 DEF Next, Terminated

LEMMA ProtocolStep ==
  ASSUME TypeOK, SocksInv, UsedInv, ProtocolInv, [Next]_vars
  PROVE  ProtocolInv'
<1>1. ASSUME NEW d \in Dials, Step(d)  PROVE ProtocolInv'
  <2> USE NoneIsNoConn DEF TypeOK, SocksInv, UsedInv, ProtocolInv, Holds
  <2>1. CASE CheckCache(d)
    BY <2>1 DEF CheckCache, Goto, Hold, Close, socksVars
  <2>2. CASE ConnectCached(d)
    BY <2>2 DEF ConnectCached, Goto, Hold, Close, socksVars
  <2>3. CASE Clear(d)
    BY <2>3 DEF Clear, Goto, Close, socksVars
  <2>4. CASE DialProxy(d)
    BY <2>4 DEF DialProxy, Goto, Hold, Open, socksVars
  <2>5. CASE ConnectHttp1(d)
    BY <2>5 DEF ConnectHttp1, Goto, Hold, Close, socksVars
  <2>6. CASE ConnectHttp2(d)
    BY <2>6 DEF ConnectHttp2, Goto, Hold, Close, socksVars
  <2>7. CASE Cache(d)
    BY <2>7 DEF Cache, Goto, socksVars
  <2>8. CASE StartSocks(d)
    BY <2>8 DEF StartSocks, Goto, socksVars
  <2>9. CASE SocksDialed(d)
    <3>1. CASE UNCHANGED <<offer, fate, alpn>>
      BY <2>9, <3>1 DEF SocksDialed
    <3>2. ASSUME NEW c \in Conns, Open(c, "h1"), offer' = [offer EXCEPT ![d] = c]
          PROVE  ProtocolInv'
      <4>1. /\ c # cached /\ \A e \in Dials : ~Holds(e, c) /\ offer[e] # c
            /\ alpn' = [alpn EXCEPT ![c] = "h1"]
        BY <3>2 DEF Open
      <4>2. \A e \in Dials, b \in Conns : Holds(e, b)' => Holds(e, b) \/ (e = d /\ b = c)
        BY <2>9, <3>2 DEF SocksDialed
      <4> QED  BY <2>9, <3>2, <4>1, <4>2 DEF SocksDialed
    <3> QED  BY <2>9, <3>1, <3>2 DEF SocksDialed
  <2>10. CASE SocksReceive(d)
    BY <2>10 DEF SocksReceive, Goto, Hold, Received, socksVars
  <2>11. CASE SocksExpire(d)
    BY <2>11 DEF SocksExpire, Goto, socksVars
  <2>12. CASE Reap(d)
    BY <2>12 DEF Reap, Goto, Close, Received, socksVars
  <2>13. CASE Socks5Dial(d)
    BY <2>13 DEF Socks5Dial, Goto, Hold, Open, socksVars
  <2>14. CASE CloseTunnel(d)
    BY <2>14 DEF CloseTunnel, Goto, Close, socksVars
  <2>15. CASE Deadline(d)
    BY <2>15 DEF Deadline, socksVars
  <2> QED
    BY <1>1, <2>1, <2>2, <2>3, <2>4, <2>5, <2>6, <2>7, <2>8, <2>9, <2>10, <2>11, <2>12, <2>13, <2>14, <2>15 DEF Step, Socks
<1>2. ASSUME NEW c \in Conns, ProxyLeaves(c)  PROVE ProtocolInv'
  BY <1>2 DEF ProxyLeaves, ProtocolInv, Holds, TypeOK, socksVars
<1>3. CASE UNCHANGED vars
  BY <1>3 DEF vars, ProtocolInv, Holds
<1> QED  BY <1>1, <1>2, <1>3 DEF Next, Terminated

\* Whatever other dials fail, expire, find saturated or clear: a tunnel they
\* close is over HTTP/2, and its connection is cached or carries another dial.
THEOREM TunnelsFallBySharing == Spec => TunnelFallsBySharing
<1> DEFINE Shares == \A d \in Dials :
       /\ pc[d] = "tunnel" /\ pc'[d] = "tunnel"
       /\ fate[conn[d]] # "closed" /\ fate'[conn[d]] = "closed"
       => /\ alpn[conn[d]] = "h2"
          /\ (conn[d] = cached) \/ (\E e \in Dials \ {d} : Holds(e, conn[d]))
<1>1. ASSUME TypeOK, TunnelInv, Next  PROVE Shares
  <2>1. ASSUME NEW e \in Dials, Step(e)  PROVE Shares
    <3> SUFFICES ASSUME NEW d \in Dials, pc[d] = "tunnel", pc'[d] = "tunnel",
                        fate[conn[d]] # "closed", fate'[conn[d]] = "closed"
                 PROVE  /\ alpn[conn[d]] = "h2"
                        /\ (conn[d] = cached) \/ (\E b \in Dials \ {d} : Holds(b, conn[d]))
      OBVIOUS
    <3>a. PICK c \in Conns : c = conn[d] /\ Holds(d, c) /\ fate[c] # "unused"
      BY <1>1, NoneIsNoConn DEF TypeOK, TunnelInv, UsedInv, Holds
    <3>b. /\ c = cached => alpn[c] = "h2"
          /\ \A b \in Dials \ {d} : Holds(b, c) => alpn[c] = "h2"
      <4>1. alpn[c] \in {"none", "h1", "h2"} /\ alpn[c] # "none"
        BY <1>1, <3>a DEF TypeOK, TunnelInv, UsedInv
      <4> QED  BY <1>1, <3>a, <4>1, NoneIsNoConn DEF TunnelInv, ProtocolInv
    <3>c. SUFFICES c = cached \/ \E b \in Dials \ {d} : Holds(b, c)
      BY <3>a, <3>b
    <3>d. fate[c] # "closed" /\ fate'[c] = "closed"
      BY <3>a
    <3>e. SUFFICES c = cached \/ (e # d /\ Holds(e, c))
      OBVIOUS
    <3> USE <1>1, <3>a, <3>d, NoneIsNoConn DEF TypeOK, Holds
    <3>1. CASE CheckCache(e)
      BY <3>1 DEF CheckCache, Goto, Hold, Close, socksVars
    <3>2. CASE ConnectCached(e)
      BY <3>2 DEF ConnectCached, Goto, Hold, Close, socksVars
    <3>3. CASE Clear(e)
      BY <3>3 DEF Clear, Goto, Close, socksVars
    <3>4. CASE DialProxy(e)
      BY <3>4 DEF DialProxy, Goto, Hold, Open, socksVars
    <3>5. CASE ConnectHttp1(e)
      BY <3>5 DEF ConnectHttp1, Goto, Hold, Close, socksVars
    <3>6. CASE ConnectHttp2(e)
      BY <3>6 DEF ConnectHttp2, Goto, Hold, Close, socksVars
    <3>7. CASE Cache(e)
      BY <3>7 DEF Cache, Goto, socksVars
    <3>8. CASE StartSocks(e)
      BY <3>8 DEF StartSocks, Goto, socksVars
    <3>9. CASE SocksDialed(e)
      BY <3>9 DEF SocksDialed, Open, socksVars
    <3>10. CASE SocksReceive(e)
      BY <3>10 DEF SocksReceive, Goto, Hold, Received, socksVars
    <3>11. CASE SocksExpire(e)
      BY <3>11 DEF SocksExpire, Goto, socksVars
    <3>12. CASE Reap(e)
      BY <3>12 DEF Reap, Goto, Close, Received, socksVars
    <3>13. CASE Socks5Dial(e)
      BY <3>13 DEF Socks5Dial, Goto, Hold, Open, socksVars
    <3>14. CASE CloseTunnel(e)
      BY <3>14 DEF CloseTunnel, Goto, Close, socksVars
    <3>15. CASE Deadline(e)
      BY <3>15 DEF Deadline, socksVars
    <3> QED
      BY <2>1, <3>1, <3>2, <3>3, <3>4, <3>5, <3>6, <3>7, <3>8, <3>9, <3>10, <3>11, <3>12, <3>13, <3>14, <3>15 DEF Step, Socks
  <2>2. ASSUME NEW c \in Conns, ProxyLeaves(c)  PROVE Shares
    BY <1>1, <2>2 DEF ProxyLeaves, TypeOK, socksVars
  <2>3. CASE Terminated
    BY <2>3 DEF Terminated, vars
  <2> QED  BY <1>1, <2>1, <2>2, <2>3 DEF Next
<1>2. Init => TunnelInv
  BY DEF Init, TunnelInv, SocksInv, UsedInv, ProtocolInv, Holds
<1>3. TypeOK /\ TunnelInv /\ [Next]_vars => TunnelInv'
  BY SocksStep, UsedStep, ProtocolStep DEF TunnelInv
<1>4. TypeOK /\ TunnelInv /\ [Next]_vars => [Shares]_vars
  BY <1>1
<1> QED  BY <1>2, <1>3, <1>4, TypeCorrect, PTL DEF Spec, TunnelFallsBySharing

=============================================================================
