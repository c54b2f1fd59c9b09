---------------------------- MODULE BlockFeedback ----------------------------
(***************************************************************************)
(* What every block feeds back into the next one: AdaptiveBlockSizer of    *)
(* internal/producer moves the gas and count limits PopBatch is called     *)
(* with, DynamicFeeModel of internal/fees moves the base fee; produceBlock *)
(* gives both the block's gas and the limit it was built under.  The       *)
(* executor has a gas limit of its own, which neither of them knows.       *)
(*                                                                         *)
(* Utilization and its two moving averages are floats in the code; here    *)
(* they are integers in 0..S, rounded down.  Gas limits are uint64.        *)
(***************************************************************************)
EXTENDS Integers

CONSTANTS
  W,                               \* 2^64
  S,                               \* what utilization 1.0 is written as
  MinGas, MaxGas, InitialGas,      \* gas limits of AdaptiveSizerConfig
  MinTx, MaxTx, InitialTx,         \* its limits on the number of transactions
  AdjustStepBps,                   \* its step, in basis points of the ranges
  AlphaInv,                        \* 1/Alpha
  MinFee, MaxFee, InitialFee,      \* floor, ceiling and start of the base fee
  Discounts,                       \* what a SovereigntyProvider answers, in bps
  BlockGasLimit                    \* ExecutionContext.GasLimit

Target == S \div 2     \* target utilization 0.5
Margin == S \div 10    \* half the dead band around it, 0.1

(* gasRange * adjustStepBps / 10000; the same for the count, at least 1.   *)
GasStep == ((((MaxGas - MinGas) % W) * AdjustStepBps) % W) \div 10000
TxStep  == LET s == ((MaxTx - MinTx) * AdjustStepBps) \div 10000
           IN  IF s < 1 THEN 1 ELSE s

ASSUME ScaleAssumption == S \in Nat /\ S >= 10 /\ AlphaInv \in Nat \ {0}
ASSUME SizerAssumption ==
  /\ W \in Nat \ {0} /\ AdjustStepBps \in Nat /\ BlockGasLimit \in Nat
  /\ MinGas \in Nat /\ MaxGas \in Nat /\ InitialGas \in MinGas .. MaxGas
  /\ MinTx \in Nat /\ MaxTx \in Nat /\ InitialTx \in MinTx .. MaxTx
ASSUME FeeAssumption ==
  /\ MinFee \in Nat /\ MaxFee \in Nat /\ InitialFee \in MinFee .. MaxFee

(* The step is no larger than the smallest limit and leaves room for one   *)
(* more above the largest, so that uint64 arithmetic does not wrap.  The   *)
(* defaults are 15M, 60M and 2.25M.                                        *)
ASSUME StepFits == GasStep <= MinGas /\ MaxGas + GasStep < W

(* No provider grants more than the whole fee.  Nothing in the code checks *)
(* it: 10000 - discountBps is unsigned and would wrap to a huge multiplier *)
(* (model.go:95).                                                          *)
ASSUME DiscountAssumption == Discounts \subseteq 0 .. 10000 /\ W > 10000

VARIABLES
  gasLimit, maxTx,   \* currentGasLimit, currentMaxTx
  utilizationEMA,    \* the sizer's average
  baseFee,
  emaGasUsage,       \* the fee model's average
  last,              \* history: the last block's <<gas used, limit>>
  parity             \* of the block number: every block is a step, though
                     \* nothing else may change any more

sizerVars == <<gasLimit, maxTx, utilizationEMA>>
feeVars   == <<baseFee, emaGasUsage>>
vars      == <<gasLimit, maxTx, utilizationEMA, baseFee, emaGasUsage, last, parity>>

Least(a, b)    == IF a < b THEN a ELSE b
Greatest(a, b) == IF a > b THEN a ELSE b

NewAdaptiveBlockSizer ==
  gasLimit = InitialGas /\ maxTx = InitialTx /\ utilizationEMA = Target
NewDynamicFeeModel ==
  baseFee = InitialFee /\ emaGasUsage = Target
Init ==
  NewAdaptiveBlockSizer /\ NewDynamicFeeModel /\ last = <<0, 0>> /\ parity = 0

Utilization(used, limit) == (used * S) \div limit

-----------------------------------------------------------------------------
(* AdaptiveBlockSizer.AdjustAfterBlock.                                    *)

(* Faulty variants, here and below, are slips a property has to notice:    *)
(* the new sample is added unweighted; the limit is tested before the step *)
(* and not after it; the last step is not taken; the step is forgotten.    *)
NextEMAUnweighted(ema, u) == u + ((AlphaInv - 1) * ema) \div AlphaInv
ShrunkUnchecked(limit)  == IF limit > MinGas THEN (limit - 2 * GasStep) % W ELSE limit
ShrunkTimidly(limit)    == IF limit > MinGas + GasStep THEN (limit - GasStep) % W ELSE limit
ExpandedByNothing(limit) == Least(limit, MaxGas)

NextEMA(ema, u) == (u + (AlphaInv - 1) * ema) \div AlphaInv

Expanded(limit) == Least((limit + GasStep) % W, MaxGas)
Shrunk(limit)   == Greatest((limit - GasStep) % W, MinGas)

AdjustSize(u) ==
  LET ema == NextEMA(utilizationEMA, u)
  IN  /\ utilizationEMA' = ema
      /\ \/ /\ ema > Target + Margin
            /\ gasLimit' = Expanded(gasLimit)
            /\ maxTx' = Least(maxTx + TxStep, MaxTx)
         \/ /\ ema < Target - Margin
            /\ gasLimit' = Shrunk(gasLimit)
            /\ maxTx' = Greatest(maxTx - TxStep, MinTx)
         \/ /\ ema \in (Target - Margin) .. (Target + Margin)
            /\ UNCHANGED <<gasLimit, maxTx>>

-----------------------------------------------------------------------------
(* DynamicFeeModel.AdjustAfterBlock: smoothing 1/8, change at most 1/8.    *)

NextUsage(ema, u) == (u + 7 * ema) \div 8

Distance(ema) == IF ema > Target THEN ema - Target ELSE Target - ema

(* The deviation is not clamped.                                           *)
PctUnclamped(ema) == (Distance(ema) * 10000) \div Target

(* |delta|, clamped to 12.5%, in basis points.                             *)
Pct(ema) == Least((Distance(ema) * 10000) \div Target, 1250)

Adjustment(fee, ema) == (fee * Pct(ema)) \div 10000

(* The floor alone is enforced.                                            *)
WithinFloor(fee) == Greatest(fee, MinFee)

WithinBounds(fee) == Least(Greatest(fee, MinFee), MaxFee)

AdjustFee(u) ==
  LET ema == NextUsage(emaGasUsage, u)
  IN  /\ emaGasUsage' = ema
      /\ baseFee' = WithinBounds(IF ema > Target
                                 THEN baseFee + Adjustment(baseFee, ema)
                                 ELSE baseFee - Adjustment(baseFee, ema))

(* DynamicFeeModel.EffectiveFee: what a sender with a discount is quoted.  *)
(* Without a provider, as in eth_getEffectiveFee, the discount is 0.       *)
EffectiveFee(fee, discountBps) ==
  IF discountBps = 0 THEN fee
  ELSE Greatest((fee * ((10000 - discountBps) % W)) \div 10000, MinFee)

-----------------------------------------------------------------------------
(* A block uses at most what the pool hands out and the executor admits.   *)
Capacity == Least(gasLimit, BlockGasLimit)

ProduceBlock(used) ==
  /\ used \in 0 .. Capacity
  /\ last' = <<used, gasLimit>> /\ parity' = 1 - parity
  /\ IF gasLimit = 0 THEN UNCHANGED <<sizerVars, feeVars>>
     ELSE /\ AdjustFee(Utilization(used, gasLimit))
          /\ AdjustSize(Utilization(used, gasLimit))

Next == \E used \in 0 .. Capacity : ProduceBlock(used)

(* The producer's ticker keeps firing.                                     *)
Spec == Init /\ [][Next]_vars /\ WF_vars(Next)

-----------------------------------------------------------------------------
(* Properties.                                                             *)

TypeOK ==
  /\ gasLimit \in 0 .. (W - 1) /\ maxTx \in Int
  /\ utilizationEMA \in 0 .. S /\ emaGasUsage \in 0 .. S
  /\ baseFee \in Nat
  /\ last \in Nat \X Nat /\ parity \in {0, 1}

(* The limits PopBatch is called with stay in the configured range: the    *)
(* unsigned subtraction in the shrinking branch never wraps                *)
(* (adaptive.go:125), and the count never becomes negative.                *)
LimitsInRange ==
  /\ gasLimit \in MinGas .. MaxGas
  /\ maxTx \in MinTx .. MaxTx

(* The base fee stays between floor and ceiling (model.go:149-155), and    *)
(* what a sender with any discount is quoted lies between the floor and    *)
(* it: the unsigned subtraction does not wrap and no discount undercuts    *)
(* the floor or raises the fee (model.go:94-103).                          *)
FeeInRange ==
  /\ baseFee \in MinFee .. MaxFee
  /\ \A discountBps \in Discounts :
       EffectiveFee(baseFee, discountBps) \in MinFee .. baseFee

(* "Max change per block: 12.5%" (model.go:123): whatever the history of   *)
(* the average, one block moves the fee by an eighth at most.              *)
FeeMovesSlowly ==
  [][8 * baseFee' <= 9 * baseFee /\ 8 * baseFee' >= 7 * baseFee]_vars

(* If blocks stay empty the node comes to rest: smallest blocks, lowest    *)
(* fee, although averages and fee are rounded.                             *)
IdleComesToRest ==
  (<>[](last[1] = 0)) => <>[](gasLimit = MinGas /\ maxTx = MinTx /\ baseFee = MinFee)

(* If every block is as full as the executor admits, the sizer ends up     *)
(* asking the pool for more gas than the executor will ever take           *)
(* (manager.go:272 against adaptive.go:60): part of each batch is skipped. *)
Saturated == last[1] = Least(last[2], BlockGasLimit)
BusyOutgrowsExecutor ==
  (<>[]Saturated) => <>[](gasLimit > BlockGasLimit)
=============================================================================
