--------------------------- MODULE MCProxyTunnel ---------------------------
(* A small instance of ProxyTunnel for TLC. *)
EXTENDS ProxyTunnel, TLC

CONSTANTS d1, d2, d3

=============================================================================
