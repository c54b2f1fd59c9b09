--------------------------- MODULE MCStateManager ---------------------------
(* A finite instance of StateManager for TLC: empty blocks, blocks with a  *)
(* transaction an earlier block may hold already, and two at once.         *)
EXTENDS StateManager

CONSTANTS x, y

MCTx       == {x, y}
MCPayloads == {<< >>, <<x>>, <<y, x>>}
=============================================================================
