----------------------------- MODULE MCZcSetup ------------------------------
(* Values of the constants for the runs of the setup.                      *)
EXTENDS ZcSetupInv
CONSTANTS h1, h2, h3
MCHandles == {h1, h2, h3}
MCCounts == {0, 1, 2}
MCGrants == {0, 1, 3}
=============================================================================
