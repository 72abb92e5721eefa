------------------------- MODULE MCTransportCache -------------------------
(* Small instances of TransportCache for TLC. *)
EXTENDS TransportCache, TLC

CONSTANTS r1, r2, r3, a1, a2

\* Three requests for one address.
OneAddr == (r1 :> a1) @@ (r2 :> a1) @@ (r3 :> a1)
\* Two requests for one address.
SameAddr == (r1 :> a1) @@ (r2 :> a1)
\* An http request without a port keeps "host:80", the https ones their key.
PlainThird == (r1 :> a1) @@ (r2 :> a1) @@ (r3 :> None)

=============================================================================
