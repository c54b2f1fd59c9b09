--------------------------- MODULE MCBlockFeedback ---------------------------
(* The instance's numbers are the defaults in units of 7.5M gas, 1000      *)
(* transactions and 1 gwei/8, with a larger step.                          *)
EXTENDS BlockFeedback
=============================================================================
