--------------------------- MODULE MCLanedMempool ---------------------------
(* Finite instances of LanedMempool for TLC.                               *)
EXTENDS LanedMempool, TLC

CONSTANTS t1, t2, t3, t4

MCTx    == {t1, t2, t3, t4}
MCScores == {7000, 1500, 0}

(* Gas 1..4 against limits of 10 and 6: shares 4/4/2 and 2/2/1, so entries *)
(* fit a share, overflow a share but fit the leftover, or fit neither.     *)
MCGas   == (t1 :> 2) @@ (t2 :> 3) @@ (t3 :> 4) @@ (t4 :> 1)
MCPrice == (t1 :> 0) @@ (t2 :> 80) @@ (t3 :> 20) @@ (t4 :> 80)
MCCalls == {<<4, 10>>, <<2, 10>>, <<3, 6>>}
=============================================================================
