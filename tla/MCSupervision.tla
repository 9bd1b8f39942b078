--------------------------- MODULE MCSupervision ---------------------------
(* Two CPU workers and one GPU, at difficulties below, in and above the     *)
(* range the CPU workers hash at.                                           *)
EXTENDS Supervision

CONSTANTS g1, c1, c2

MCConfigs ==
    {[execute |-> FALSE, fixed |-> FALSE, platform |-> FALSE, terminal |-> FALSE],
     [execute |-> TRUE, fixed |-> TRUE, platform |-> FALSE, terminal |-> FALSE],
     [execute |-> TRUE, fixed |-> FALSE, platform |-> TRUE, terminal |-> TRUE]}
MCDevices == {g1}
MCWorkers == {c1, c2}
MCNetworkCosts == {4, 8, 16}
=============================================================================
