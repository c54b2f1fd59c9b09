------------------------------- MODULE TxLanes -------------------------------
(***************************************************************************)
(* What the modules about the pool share: transactions, the metadata the   *)
(* pool keeps of one (TxMeta of pkg/types/transaction.go), its priority,   *)
(* its lane and the lane's share of the block gas (internal/mempool).      *)
(***************************************************************************)
EXTENDS Integers, Sequences

CONSTANTS
  Tx,          \* transactions, named by their hash
  Gas,         \* Gas[t]: the gas limit the transaction asks for, tx.Gas()
  GasPrice,    \* GasPrice[t]: its gas price, in percent of 100 gwei
  Scores,      \* the TasteScores (basis points) a caller of Add may pass
  Weight,      \* tasteScoreWeight, in percent
  MaxSize,     \* maxSize
  Calls,       \* the <<maxTx, gasLimit>> a caller of PopBatch may pass
  W            \* 2^64 in the code: gas arithmetic wraps at W

Lanes == {"fast", "std", "slow"}
UInt  == 0 .. (W - 1)

ASSUME WidthAssumption  == W \in Nat \ {0}
ASSUME TxAssumption     == /\ Gas \in [Tx -> UInt]
                           /\ GasPrice \in [Tx -> Nat]
                           /\ Scores \subseteq 0 .. 10000
                           /\ Weight \in 0 .. 100
ASSUME LimitsAssumption == /\ MaxSize \in Nat
                           /\ Calls \subseteq Nat \X UInt

-----------------------------------------------------------------------------
(* Entries: TxMeta, priority, lane and gas shares.                         *)

Entry == [tx : Tx, score : Scores]

GasPriceFactor(t) ==
  IF GasPrice[t] = 0 THEN 5000
  ELSE IF GasPrice[t] >= 100 THEN 10000 ELSE 100 * GasPrice[t]

Priority(e) == (100 - Weight) * GasPriceFactor(e.tx) + Weight * e.score

ClassifyLane(score) ==
  IF score >= 6500 THEN "fast" ELSE IF score >= 1500 THEN "std" ELSE "slow"

LaneGasBps == [fast |-> 4000, std |-> 4000, slow |-> 2000]

Share(l, gasLimit) == ((gasLimit * LaneGasBps[l]) % W) \div 10000

(* Faulty variant: the entry is appended to the slice, not heap.Push-ed.   *)
PlaceAtEnd(q, k, e) == k = Len(q)

(* e belongs right behind the first k entries of the lane q: everything of *)
(* at least its priority was there first, everything below comes after.    *)
Place(q, k, e) ==
  /\ \A i \in 1 .. k : Priority(q[i]) >= Priority(e)
  /\ \A i \in (k + 1) .. Len(q) : Priority(q[i]) < Priority(e)

(* A batch sorted by lane again: what it holds of every lane, in the order *)
(* it was taken, and the gas of that, added up without wrap-around.        *)
Deal(d, e) ==
  LET l == ClassifyLane(e.score)
  IN  [taken |-> [d.taken EXCEPT ![l] = Append(@, e)],
       gas   |-> [d.gas EXCEPT ![l] = @ + Gas[e.tx]]]

NothingDealt == [taken |-> [l \in Lanes |-> << >>], gas |-> [l \in Lanes |-> 0]]

Dealt(s) ==
  LET d[i \in 0 .. Len(s)] == IF i = 0 THEN NothingDealt ELSE Deal(d[i - 1], s[i])
  IN  d[Len(s)]
=============================================================================
