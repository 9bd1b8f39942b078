------------------------------ MODULE MCMining ------------------------------
(***************************************************************************)
(* Two streams on one device of 100 blocks; costs 8, 12 and 16 have         *)
(* segments of 2, 3 and 4 blocks, so every cost gets another batch size.    *)
(***************************************************************************)
EXTENDS MiningUnits

CONSTANTS s1, s2, own, lease

MCStreams == {s1, s2}
MCSalts == {own, lease}
MCCosts == {8, 12, 16}
MCNetworkCosts == {8, 12}
MCMargins == {0, 4}
=============================================================================
