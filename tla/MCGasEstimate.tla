---------------------------- MODULE MCGasEstimate ----------------------------
(* Every shape of a call for TLC: needs at and around the floors, inside,   *)
(* at the limit and above it, which may differ from state to state and from *)
(* number to number.  The intrinsic gas is the least its kind can have.     *)
EXTENDS GasEstimate, TLC

CONSTANT Needs

MCPairs == States \X States
MCNeed(same, stale, new) ==
  [p \in MCPairs |-> IF p = <<0, 0>> THEN same ELSE IF p = <<0, 1>> THEN stale ELSE new]
MCCalls ==
  {[create |-> create, intrinsic |-> IF create THEN CreateFloor ELSE CallFloor,
    burnt |-> burnt, need |-> MCNeed(n, s, m)] :
     create \in BOOLEAN, burnt \in {0, 3, 19}, n \in Needs, s \in Needs, m \in Needs}
=============================================================================
