---------------------------- MODULE MCGatewayRequest ----------------------------
(* GatewayRequest for TLC: what several requests do to the ContextVar, and   *)
(* what results and decisions do to one.                                   *)
EXTENDS GatewayRequest, TLC

(* Contexts are interchangeable.                                            *)
Symmetry == Permutations(Contexts)

(* A result or a decision of the Router r, which touches no slot.           *)
Decided(r) ==
  \/ router[r].limited \/ router[r].hit \/ router[r].refused \/ router[r].raised
  \/ \E a \in AttemptsOf(r) : attempt[a].published \in {"ok", "fail", "late"}

(* Bound: decisions and results are followed while there is one request.   *)
OneDecided == Len(router) > 1 => \A r \in Routers : ~Decided(r)
=============================================================================
