------------------------ MODULE BlockFeedback_proofs ------------------------
(***************************************************************************)
(* Proofs about BlockFeedback for every configuration that satisfies the   *)
(* assumptions of that module.  The bounds are inductive as they stand;    *)
(* what makes them so is StepFits for the gas limit, and that a fee inside *)
(* its range is moved by at most an eighth before it is clamped.           *)
(***************************************************************************)
EXTENDS BlockFeedback, TLAPS

(* A quotient lies where the division says (no theorem of the library      *)
(* states it for \div).                                                    *)
LEMMA DivBounds ==
  ASSUME NEW a \in Nat, NEW d \in Nat \ {0}
  PROVE  /\ a \div d \in Nat
         /\ d * (a \div d) <= a
         /\ a < d * (a \div d) + d
OBVIOUS

(* The steps are natural numbers (adaptive.go:108-115).                    *)
LEMMA StepTypes == GasStep \in Nat /\ TxStep \in Nat
<1>1. GasStep \in Nat
  <2>1. (MaxGas - MinGas) % W \in Nat
    BY SizerAssumption
  <2>2. ((MaxGas - MinGas) % W) * AdjustStepBps \in Nat
    BY <2>1, SizerAssumption
  <2>3. (((MaxGas - MinGas) % W) * AdjustStepBps) % W \in Nat
    BY <2>2, SizerAssumption
  <2> QED BY <2>3 DEF GasStep
<1>2. TxStep \in Nat
  <2>1. MaxTx - MinTx \in Nat
    BY SizerAssumption
  <2>2. (MaxTx - MinTx) * AdjustStepBps \in Nat
    BY <2>1, SizerAssumption
  <2> QED BY <2>2 DEF TxStep
<1> QED BY <1>1, <1>2

(* Expanding and shrinking stay in the range: neither the sum nor the      *)
(* difference of uint64s wraps (adaptive.go:119, 125).                     *)
LEMMA StepsStayInRange ==
  ASSUME NEW limit \in MinGas .. MaxGas
  PROVE  Expanded(limit) \in MinGas .. MaxGas /\ Shrunk(limit) \in MinGas .. MaxGas
<1>1. limit \in Nat /\ GasStep \in Nat /\ MinGas \in Nat /\ MaxGas \in Nat /\ W \in Nat \ {0}
  BY StepTypes, SizerAssumption
<1>2. (limit + GasStep) % W = limit + GasStep
  BY <1>1, StepFits
<1>3. (limit - GasStep) % W = limit - GasStep
  BY <1>1, StepFits
<1> QED BY <1>1, <1>2, <1>3 DEF Expanded, Shrunk, Least, Greatest

(* The count limits stay in their range.                                   *)
LEMMA CountStaysInRange ==
  ASSUME NEW n \in MinTx .. MaxTx
  PROVE  Least(n + TxStep, MaxTx) \in MinTx .. MaxTx /\ Greatest(n - TxStep, MinTx) \in MinTx .. MaxTx
BY StepTypes, SizerAssumption DEF Least, Greatest

(* THEOREM: the limits PopBatch is called with stay in the configured      *)
(* range (adaptive.go:90-133).                                             *)
THEOREM LimitsStayInRange == Spec => []LimitsInRange
<1>1. Init => LimitsInRange
  BY SizerAssumption DEF Init, NewAdaptiveBlockSizer, NewDynamicFeeModel, LimitsInRange
<1>2. LimitsInRange /\ [Next]_vars => LimitsInRange'
  <2> SUFFICES ASSUME LimitsInRange, [Next]_vars PROVE LimitsInRange'
    OBVIOUS
  <2>1. CASE UNCHANGED vars
    BY <2>1 DEF LimitsInRange, vars
  <2>2. ASSUME NEW used \in 0 .. Capacity, ProduceBlock(used)
        PROVE  LimitsInRange'
    <3>1. CASE UNCHANGED sizerVars
      BY <3>1 DEF LimitsInRange, sizerVars
    <3>2. ASSUME NEW u, AdjustSize(u)
          PROVE  LimitsInRange'
      BY <3>2, StepsStayInRange, CountStaysInRange DEF LimitsInRange, AdjustSize
    <3> QED BY <2>2, <3>1, <3>2 DEF ProduceBlock
  <2> QED BY <2>1, <2>2 DEF Next
<1> QED BY <1>1, <1>2, PTL DEF Spec

(* The final clamp gives a fee in the range (model.go:150-155).            *)
LEMMA ClampInRange ==
  ASSUME NEW fee \in Int PROVE WithinBounds(fee) \in MinFee .. MaxFee
BY FeeAssumption DEF WithinBounds, Least, Greatest

(* The deviation used is at most 1250 basis points (model.go:127-131).     *)
LEMMA PctRange ==
  ASSUME NEW ema \in Nat PROVE Pct(ema) \in Nat /\ Pct(ema) <= 1250
<1>1. Target \in Nat \ {0}
  BY ScaleAssumption DEF Target
<1>2. Distance(ema) \in Nat
  BY <1>1 DEF Distance
<1>3. (Distance(ema) * 10000) \div Target \in Nat
  BY <1>1, <1>2, DivBounds
<1> QED BY <1>3 DEF Pct, Least

(* Multiplication by a natural number is monotone.                         *)
LEMMA TimesMonotone ==
  ASSUME NEW a \in Nat, NEW b \in Nat, NEW c \in Nat, a <= b
  PROVE  a * c <= b * c
<1>1. b = a + (b - a) /\ b - a \in Nat
  OBVIOUS
<1>2. b * c = a * c + (b - a) * c
  BY <1>1
<1>3. (b - a) * c \in Nat /\ a * c \in Nat
  BY <1>1
<1> QED BY <1>2, <1>3

(* Utilization lies in 0..S: a block uses no more than its limit.          *)
LEMMA UtilizationRange ==
  ASSUME NEW limit \in Nat \ {0}, NEW used \in 0 .. limit
  PROVE  Utilization(used, limit) \in 0 .. S
<1> DEFINE q == (used * S) \div limit
<1>1. S \in Nat
  BY ScaleAssumption
<1>2. used * S \in Nat /\ used * S <= limit * S
  BY <1>1, TimesMonotone
<1>3. q \in Nat /\ limit * q <= used * S
  BY <1>2, DivBounds
<1>4. ~(q > S)
  <2> SUFFICES ASSUME q > S PROVE FALSE
    OBVIOUS
  <2> HIDE DEF q
  <2>1. (S + 1) * limit <= q * limit
    BY <1>1, <1>3, TimesMonotone
  <2>2. (S + 1) * limit = limit * S + limit /\ q * limit = limit * q
    BY <1>1, <1>3
  <2>3. limit * S \in Nat /\ limit * q \in Nat
    BY <1>1, <1>3
  <2> QED BY <1>2, <1>3, <2>1, <2>2, <2>3
<1> QED BY <1>1, <1>3, <1>4 DEF Utilization

(* The averages stay in 0..S.                                              *)
LEMMA AverageRange ==
  ASSUME NEW ema \in 0 .. S, NEW u \in 0 .. S
  PROVE  NextEMA(ema, u) \in 0 .. S /\ NextUsage(ema, u) \in 0 .. S
<1>1. S \in Nat /\ AlphaInv \in Nat \ {0} /\ AlphaInv - 1 \in Nat
  BY ScaleAssumption
<1>2. NextUsage(ema, u) \in 0 .. S
  BY <1>1 DEF NextUsage
<1>3. NextEMA(ema, u) \in 0 .. S
  <2> DEFINE n == u + (AlphaInv - 1) * ema
             q == n \div AlphaInv
  <2>1. (AlphaInv - 1) * ema \in Nat /\ (AlphaInv - 1) * S \in Nat
    BY <1>1
  <2>2. (AlphaInv - 1) * ema <= (AlphaInv - 1) * S
    <3>1. ema * (AlphaInv - 1) <= S * (AlphaInv - 1)
      BY <1>1, TimesMonotone
    <3> QED BY <1>1, <3>1
  <2>3. n \in Nat /\ n <= AlphaInv * S
    <3>1. S + (AlphaInv - 1) * S = AlphaInv * S
      BY <1>1
    <3> QED BY <1>1, <2>1, <2>2, <3>1
  <2>4. q \in Nat /\ AlphaInv * q <= n
    BY <1>1, <2>3, DivBounds
  <2>5. ~(q > S)
    <3> SUFFICES ASSUME q > S PROVE FALSE
      OBVIOUS
    <3> HIDE DEF q, n
    <3>1. (S + 1) * AlphaInv <= q * AlphaInv
      BY <1>1, <2>4, TimesMonotone
    <3>2. (S + 1) * AlphaInv = AlphaInv * S + AlphaInv /\ q * AlphaInv = AlphaInv * q
      BY <1>1, <2>4
    <3>3. AlphaInv * S \in Nat /\ AlphaInv * q \in Nat
      BY <1>1, <2>4
    <3> QED BY <1>1, <2>3, <2>4, <3>1, <3>2, <3>3
  <2> QED BY <1>1, <2>4, <2>5 DEF NextEMA
<1> QED BY <1>2, <1>3

(* The adjustment is at most an eighth of the fee.                         *)
LEMMA AdjustmentSmall ==
  ASSUME NEW fee \in Nat, NEW ema \in Nat
  PROVE  /\ Adjustment(fee, ema) \in Nat
         /\ 8 * Adjustment(fee, ema) <= fee
<1>1. Pct(ema) \in Nat /\ Pct(ema) <= 1250
  BY PctRange
<1> DEFINE q == (fee * Pct(ema)) \div 10000
<1>2. fee * Pct(ema) \in Nat /\ fee * Pct(ema) <= 1250 * fee
  <2>1. Pct(ema) * fee <= 1250 * fee
    BY <1>1, TimesMonotone
  <2> QED BY <1>1, <2>1
<1>3. q \in Nat /\ 10000 * q <= fee * Pct(ema)
  BY <1>2, DivBounds
<1> HIDE DEF q
<1>4. 8 * q <= fee
  BY <1>2, <1>3
<1> QED BY <1>3, <1>4 DEF q, Adjustment

(* A discount lowers a fee and never below the floor (model.go:94-103).    *)
LEMMA QuoteInRange ==
  ASSUME NEW fee \in MinFee .. MaxFee, NEW discountBps \in Discounts
  PROVE  EffectiveFee(fee, discountBps) \in MinFee .. fee
<1>1. fee \in Nat /\ MinFee \in Nat /\ MinFee <= fee
  BY FeeAssumption
<1>2. discountBps \in 0 .. 10000
  BY DiscountAssumption
<1> DEFINE rest == (10000 - discountBps) % W
           q    == (fee * rest) \div 10000
<1>3. rest \in Nat /\ rest <= 10000
  BY <1>2, DiscountAssumption, SizerAssumption
<1>4. q \in Nat /\ q <= fee
  <2> HIDE DEF rest
  <2>1. fee * rest \in Nat /\ fee * rest <= 10000 * fee
    <3>1. rest * fee <= 10000 * fee
      BY <1>1, <1>3, TimesMonotone
    <3> QED BY <1>1, <1>3, <3>1
  <2>2. q \in Nat /\ 10000 * q <= fee * rest
    BY <2>1, DivBounds
  <2> HIDE DEF q
  <2> QED BY <1>1, <2>1, <2>2
<1>5. EffectiveFee(fee, discountBps) = IF discountBps = 0 THEN fee ELSE Greatest(q, MinFee)
  BY DEF EffectiveFee
<1> HIDE DEF q
<1> QED BY <1>1, <1>4, <1>5 DEF Greatest

(* Hence the property follows from the base fee's range alone.             *)
LEMMA RangeSuffices == baseFee \in MinFee .. MaxFee => FeeInRange
BY QuoteInRange DEF FeeInRange

(* What a fee inside its range becomes differs by at most an eighth from   *)
(* it, also after the clamp.                                               *)
LEMMA FeeStep ==
  ASSUME FeeInRange, emaGasUsage \in 0 .. S, NEW u \in 0 .. S, AdjustFee(u)
  PROVE  /\ FeeInRange'
         /\ 8 * baseFee' <= 9 * baseFee /\ 8 * baseFee' >= 7 * baseFee
<1> DEFINE ema == NextUsage(emaGasUsage, u)
           adjustment == Adjustment(baseFee, ema)
<1>1. baseFee \in Nat /\ MinFee \in Nat /\ MaxFee \in Nat
      /\ MinFee <= baseFee /\ baseFee <= MaxFee
  BY FeeAssumption DEF FeeInRange
<1>2. ema \in 0 .. S
  BY AverageRange
<1>3. adjustment \in Nat /\ 8 * adjustment <= baseFee
  <2> HIDE DEF ema
  <2>1. ema \in Nat
    BY <1>2, ScaleAssumption
  <2> QED BY <1>1, <2>1, AdjustmentSmall
<1>4. baseFee' = WithinBounds(IF ema > Target THEN baseFee + adjustment
                              ELSE baseFee - adjustment)
  BY DEF AdjustFee
<1> HIDE DEF adjustment, ema
<1>5. /\ baseFee' \in MinFee .. MaxFee
      /\ 8 * baseFee' <= 9 * baseFee /\ 8 * baseFee' >= 7 * baseFee
  BY <1>1, <1>3, <1>4 DEF WithinBounds, Least, Greatest
<1>6. FeeInRange'
  BY <1>5, QuoteInRange DEF FeeInRange
<1> QED BY <1>5, <1>6

-----------------------------------------------------------------------------
(* The inductive invariant: types and both ranges.  The averages must be   *)
(* in 0..S for the deviation, and the fee in its range for the eighth.     *)
IInv == TypeOK /\ LimitsInRange /\ FeeInRange

(* The invariant holds initially.                                          *)
LEMMA InitInv == Init => IInv
<1> SUFFICES ASSUME Init PROVE IInv
  OBVIOUS
<1>1. Target \in 0 .. S
  BY ScaleAssumption DEF Target
<1>2. InitialGas \in 0 .. (W - 1)
  BY SizerAssumption, StepFits, StepTypes
<1>3. FeeInRange
  BY RangeSuffices, FeeAssumption DEF Init, NewDynamicFeeModel
<1> QED BY <1>1, <1>2, <1>3, SizerAssumption, FeeAssumption
        DEF Init, NewAdaptiveBlockSizer, NewDynamicFeeModel, IInv, TypeOK, LimitsInRange

(* One block keeps it, and moves the fee by an eighth at most.             *)
LEMMA BlockInv ==
  ASSUME IInv, NEW used \in 0 .. Capacity, ProduceBlock(used)
  PROVE  /\ IInv'
         /\ 8 * baseFee' <= 9 * baseFee /\ 8 * baseFee' >= 7 * baseFee
<1> USE DEF IInv
<1>1. gasLimit \in Nat /\ used \in 0 .. gasLimit
  BY SizerAssumption DEF LimitsInRange, Capacity, Least
<1>2. last' \in Nat \X Nat /\ parity' \in {0, 1}
  BY <1>1 DEF ProduceBlock, TypeOK
<1>3. CASE gasLimit = 0
  <2>1. UNCHANGED <<gasLimit, maxTx, utilizationEMA, baseFee, emaGasUsage>>
    BY <1>3 DEF ProduceBlock, sizerVars, feeVars
  <2>2. IInv'
    BY <1>2, <2>1 DEF TypeOK, LimitsInRange, FeeInRange
  <2>3. baseFee \in Nat
    BY DEF TypeOK
  <2> QED BY <2>1, <2>2, <2>3
<1>4. CASE gasLimit # 0
  <2> DEFINE u == Utilization(used, gasLimit)
  <2>1. AdjustFee(u) /\ AdjustSize(u)
    BY <1>4 DEF ProduceBlock
  <2>2. u \in 0 .. S
    BY <1>1, <1>4, UtilizationRange
  <2> HIDE DEF u
  <2>3. utilizationEMA' \in 0 .. S /\ emaGasUsage' \in 0 .. S
    BY <2>1, <2>2, AverageRange DEF TypeOK, AdjustSize, AdjustFee
  <2>4. LimitsInRange'
    BY <2>1, StepsStayInRange, CountStaysInRange DEF LimitsInRange, AdjustSize
  <2>5. /\ FeeInRange'
        /\ 8 * baseFee' <= 9 * baseFee /\ 8 * baseFee' >= 7 * baseFee
    BY <2>1, <2>2, FeeStep DEF TypeOK
  <2>6. gasLimit' \in 0 .. (W - 1) /\ maxTx' \in Int /\ baseFee' \in Nat
    BY <2>4, <2>5, SizerAssumption, FeeAssumption, StepFits, StepTypes DEF LimitsInRange, FeeInRange
  <2> QED BY <1>2, <2>3, <2>4, <2>5, <2>6 DEF TypeOK
<1> QED BY <1>3, <1>4

(* So does every step.                                                     *)
LEMMA NextInv == IInv /\ [Next]_vars => IInv'
<1> SUFFICES ASSUME IInv, [Next]_vars PROVE IInv'
  OBVIOUS
<1>1. CASE UNCHANGED vars
  BY <1>1 DEF IInv, TypeOK, LimitsInRange, FeeInRange, vars
<1>2. CASE Next
  BY <1>2, BlockInv DEF Next
<1> QED BY <1>1, <1>2

(* THEOREM: averages, limits and fee keep their types.                     *)
THEOREM TypeCorrect == Spec => []TypeOK
<1>1. IInv => TypeOK
  BY DEF IInv
<1> QED BY <1>1, InitInv, NextInv, PTL DEF Spec

(* THEOREM: the base fee stays between floor and ceiling                   *)
(* (model.go:149-155), and every discounted quote between the floor and it *)
(* (model.go:94-103), if no discount exceeds the fee (DiscountAssumption). *)
THEOREM FeeStaysInRange == Spec => []FeeInRange
<1>1. IInv => FeeInRange
  BY DEF IInv
<1> QED BY <1>1, InitInv, NextInv, PTL DEF Spec

(* THEOREM: no block moves the base fee by more than an eighth             *)
(* (model.go:123), for every configuration and every sequence of blocks.   *)
THEOREM FeeNeverJumps == Spec => FeeMovesSlowly
<1>1. IInv /\ [Next]_vars =>
        [8 * baseFee' <= 9 * baseFee /\ 8 * baseFee' >= 7 * baseFee]_vars
  BY BlockInv DEF Next
<1> QED BY <1>1, InitInv, NextInv, PTL DEF Spec, FeeMovesSlowly
=============================================================================
