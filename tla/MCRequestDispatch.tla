------------------------- MODULE MCRequestDispatch -------------------------
(* Small instances of RequestDispatch for TLC. *)
EXTENDS RequestDispatch, TLC

CONSTANTS r1, r2, i1, i2, c1, c2

\* Two requests with ids of their own.
OwnIds == (r1 :> i1) @@ (r2 :> i2)
\* Two requests under one id, as when a client repeats a request id.
SameId == (r1 :> i1) @@ (r2 :> i1)

OneConn == (r1 :> c1) @@ (r2 :> c1)
TwoConns == (r1 :> c1) @@ (r2 :> c2)

HttpAndHttp == (r1 :> "http") @@ (r2 :> "http")
HttpAndSse == (r1 :> "http") @@ (r2 :> "sse")
HttpAndWs == (r1 :> "http") @@ (r2 :> "websocket")
SseAndWs == (r1 :> "sse") @@ (r2 :> "websocket")

=============================================================================
