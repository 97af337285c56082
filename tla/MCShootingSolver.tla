-------------------------- MODULE MCShootingSolver --------------------------
(* Instances of ShootingSolver for TLC. *)
EXTENDS ShootingSolver

Window == [lo |-> -3, hi |-> 3]

\* Residuals of both signs and two sizes, roots, and points where evaluate fails
AnyMap == [Window.lo .. Window.hi -> {-2, 0, 1, Fails}]

SomeTargets == {None, 2, -5}
=============================================================================
