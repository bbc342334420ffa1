--------------------------- MODULE MCProxyRequest ---------------------------
(* Instances of ProxyRequest for TLC. *)
EXTENDS ProxyRequest

CONSTANTS c1, r1

MCOne  == {r1}
MCOnly == {c1}
=============================================================================
