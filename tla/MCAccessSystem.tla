---------------------------- MODULE MCAccessSystem ----------------------------
(***************************************************************************)
(* Instances of AccessSystem for TLC: one AccessRequest for one Cluster.   *)
(***************************************************************************)
EXTENDS AccessSystem, TLC

CONSTANTS n1, c1, l1, a1, r1, r2, r3

OneCluster == c1 :> n1
OneHome == n1 :> l1
OneAccess == a1 :> c1

Spec(kind, roles, bindings) == [kind |-> kind, roles |-> roles, bindings |-> bindings]

\* A token with bindings of two existing roles, or an OIDC request with a role.
TwoKinds == {Spec("token", {}, {r1, r2}), Spec("oidc", {r3}, {})}

\* A token with a role and its binding, or with a binding of an existing one.
TokenSpecs == {Spec("token", {r1}, {}), Spec("token", {}, {r2})}

\* One OIDC request.
OIDCSpecs == {Spec("oidc", {}, {r2})}
=============================================================================
