--------------------------- MODULE MCGatewayLifecycle ---------------------------
(* GatewayLifecycle for TLC: Attempts and Closers are sets of model values.  *)
EXTENDS GatewayLifecycle, TLC

(* Closers are interchangeable, and so are Attempts: indexes are given in   *)
(* activation order.                                                        *)
Symmetry == Permutations(Attempts) \cup Permutations(Closers)
=============================================================================
