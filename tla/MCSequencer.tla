----------------------------- MODULE MCSequencer -----------------------------
(* Finite instances of Sequencer for TLC.  Alice sends a0 and a1 in nonce  *)
(* order and ax, which competes with a0; Bob's b0 pays Alice, who cannot   *)
(* afford a1 before; only one of a0 and ax can ever be executed.  a0 earns *)
(* more refund than it can use, which a1 is granted in the same block.     *)
EXTENDS Sequencer, TLC

CONSTANTS a0, a1, ax, b0

MCTx       == {a0, a1, ax, b0}
MCAccounts == {"alice", "bob", "seq"}
MCSender   == (a0 :> "alice") @@ (a1 :> "alice") @@ (ax :> "alice") @@ (b0 :> "bob")
MCTo       == (a0 :> "bob") @@ (a1 :> "alice") @@ (ax :> "seq") @@ (b0 :> "alice")
MCNonce    == (a0 :> 0) @@ (a1 :> 1) @@ (ax :> 0) @@ (b0 :> 0)
MCValue    == (a0 :> 2) @@ (a1 :> 1) @@ (ax :> 3) @@ (b0 :> 5)
MCGas      == (a0 :> 3) @@ (a1 :> 2) @@ (ax :> 3) @@ (b0 :> 1)
MCEvmGas   == (a0 :> 2) @@ (a1 :> 2) @@ (ax :> 3) @@ (b0 :> 1)
MCRefund   == (a0 :> 2) @@ (a1 :> 0) @@ (ax :> 1) @@ (b0 :> 0)
MCIntrinsic == (a0 :> 1) @@ (a1 :> 1) @@ (ax :> 1) @@ (b0 :> 1)
MCGasPrice == (a0 :> 1) @@ (a1 :> 3) @@ (ax :> 2) @@ (b0 :> 1)
MCGenesis  == ("alice" :> 9) @@ ("bob" :> 8) @@ ("seq" :> 0)
MCReverts  == {ax}
MCScores   == {7000, 0}
MCCalls    == {<<4, 10>>}
MCMaxSubmits == (a0 :> 2) @@ (a1 :> 1) @@ (ax :> 1) @@ (b0 :> 1)
=============================================================================
