------------------------ MODULE MCEndpointLifecycle ------------------------
(* Model checking of EndpointLifecycle.  Endpoints are interchangeable.    *)
EXTENDS EndpointLifecycle, TLC

Symmetry == Permutations(Endpoints)
=============================================================================
