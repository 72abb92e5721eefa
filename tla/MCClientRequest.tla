--------------------------- MODULE MCClientRequest ---------------------------
(* A small instance of ClientRequest for TLC. *)
EXTENDS ClientRequest, TLC

CONSTANTS r1, r2, i1, i2, c1, c2

\* Every request has an id of its own and is made on a client of its own.
OwnIds == (r1 :> i1) @@ (r2 :> i2)
TwoClients == (r1 :> c1) @@ (r2 :> c2)

TwoAndOne == (r1 :> 2) @@ (r2 :> 1)

=============================================================================
