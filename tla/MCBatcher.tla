------------------------------ MODULE MCBatcher ------------------------------
(* A finite instance of Batcher for TLC.  Three blocks of one transaction  *)
(* or none; frame sizes that differ by two, so that L1 transaction hashes  *)
(* may collide.                                                            *)
EXTENDS Batcher

CONSTANT x

MCTx       == {x}
MCPayloads == {<< >>, <<x>>}
MCSizes    == {10, 12}
=============================================================================
