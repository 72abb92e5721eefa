-------------------------- MODULE MCSharedInstance --------------------------
(* A small instance of SharedInstance for TLC. *)
EXTENDS SharedInstance, TLC

CONSTANTS n1, n2, k1, k2, k3

\* Two callers in one Node process, one in another.
TwoAndOne == (k1 :> n1) @@ (k2 :> n1) @@ (k3 :> n2)

=============================================================================
