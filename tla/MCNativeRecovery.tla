------------------------- MODULE MCNativeRecovery -------------------------
(* Two operators, a sealed role and a backend, two roots.                   *)
EXTENDS NativeRecovery, TLC

CONSTANTS o1, o2, application, keycloak

TwoRoles == <<"reader", "chroma">>
OperatorSymmetry == Permutations({o1, o2})
============================================================================
