----------------------------- MODULE MCNetworks -----------------------------
(* Model checking of Networks: networks that check for conflicts and have  *)
(* custom options, and networks in macvlan mode that do not.               *)
EXTENDS Networks

CONSTANT b1

MCBridges == {b1}

MCChoices ==
    {[bridge |-> b1, mode |-> "bridge", ignoreConflicts |-> FALSE, custom |-> TRUE],
     [bridge |-> b1, mode |-> "macvlan", ignoreConflicts |-> TRUE, custom |-> FALSE]}
=============================================================================
