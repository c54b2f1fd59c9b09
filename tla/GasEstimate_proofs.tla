------------------------- MODULE GasEstimate_proofs -------------------------
(***************************************************************************)
(* The answer of the binary search is exact, for every block limit, floor, *)
(* call and number of blocks committed meanwhile.                          *)
(***************************************************************************)
EXTENDS GasEstimate, TLAPS

(* What the call needs, on the state and with the number it is probed.     *)
Need == call.need[<<number, root>>]

(* The search brackets the answer: the lower end is the floor or fails,    *)
(* the upper end succeeds (evm.go:325-340).                                *)
Bracketed ==
  pc = "search" =>
    /\ Floor <= lo /\ lo < hi /\ hi <= BlockGasLimit
    /\ Need <= hi
    /\ lo = Floor \/ lo < Need

(* The number is read before the state, the state before anything later.   *)
InOrder ==
  /\ number <= tip /\ root <= tip
  /\ pc \in {"check", "search", "done"} => number <= root

(* An answer, in terms of the need.                                        *)
Answered ==
  pc = "done" =>
    /\ result \in 1 .. BlockGasLimit
    /\ Need <= BlockGasLimit =>
         /\ Floor < result /\ Need <= result
         /\ result = Floor + 1 \/ result = Need

IInv == TypeOK /\ InOrder /\ Bracketed /\ Answered

-----------------------------------------------------------------------------
(* A quotient lies where the division says.                                *)
LEMMA DivBounds ==
  ASSUME NEW a \in Nat, NEW d \in Nat \ {0}
  PROVE  /\ a \div d \in Nat
         /\ d * (a \div d) <= a
         /\ a < d * (a \div d) + d
OBVIOUS

(* While a request is served its need is a number and its floor below the  *)
(* block's limit.                                                          *)
LEMMA NeedType ==
  ASSUME TypeOK, pc # "idle"
  PROVE  /\ Need \in Nat /\ Floor \in Nat /\ Floor < BlockGasLimit
         /\ call \in Calls /\ call.burnt \in 0 .. BlockGasLimit
BY CallAssumption, GasAssumption DEF TypeOK, Need, Floor, IsMessage

(* A probe with some gas succeeds when it gives the call what it needs; a  *)
(* limit of zero never reaches the EVM from here (evm.go:257).             *)
LEMMA ProbeAnswers ==
  ASSUME NEW g \in Nat \ {0}
  PROVE  Succeeds(g) <=> Need <= g
BY DEF Succeeds, CallContract, Need

(* The answer for a failing call is within the block (evm.go:310-322).     *)
LEMMA FallbackInRange ==
  ASSUME TypeOK, pc # "idle"
  PROVE  FallbackEstimate \in 1 .. BlockGasLimit
<1> DEFINE b == call.burnt
<1>1. b \in 0 .. BlockGasLimit /\ BlockGasLimit \in Nat
  BY NeedType, GasAssumption
<1>2. CASE b > 0
  <2> DEFINE q == (b * 120) \div 100
  <2>1. b * 120 \in Nat
    BY <1>1
  <2>2. q \in Nat /\ b * 120 < 100 * q + 100
    BY <2>1, DivBounds
  <2>3. q >= 1
    BY <1>1, <1>2, <2>2
  <2>4. Least(q, BlockGasLimit) \in 1 .. BlockGasLimit
    BY <1>1, <1>2, <2>2, <2>3 DEF Least
  <2> QED BY <2>4, <1>2 DEF FallbackEstimate
<1>3. CASE ~(b > 0)
  BY <1>3, GasAssumption DEF FallbackEstimate
<1> QED BY <1>2, <1>3

-----------------------------------------------------------------------------
(* Before the first request the invariant holds.                           *)
LEMMA InitIInv == Init => IInv
BY GasAssumption, CallAssumption DEF Init, IInv, TypeOK, States, InOrder, Bracketed, Answered

(* A new block leaves a request alone: it keeps the state it has opened.   *)
LEMMA CommitKeeps == IInv /\ Commit => IInv'
BY CallAssumption
   DEF Commit, locals, IInv, TypeOK, States, InOrder, Bracketed, Answered, Need, Floor

(* A request starts from nothing.                                          *)
LEMMA RequestKeeps ==
  ASSUME IInv, NEW c \in Calls, Request(c)
  PROVE  IInv'
BY CallAssumption DEF Request, IInv, TypeOK, States, InOrder, Bracketed, Answered

(* The state is opened after the number was read.                          *)
LEMMA OpenStateKeeps == IInv /\ OpenState => IInv'
BY CallAssumption DEF OpenState, IInv, TypeOK, States, InOrder, Bracketed, Answered

(* Returning clears the request.                                           *)
LEMMA ReturnKeeps == IInv /\ Return => IInv'
BY CallAssumption, GasAssumption
   DEF Return, IInv, TypeOK, States, InOrder, Bracketed, Answered

(* The first probe decides between the search and the fallback.            *)
LEMMA CheckLimitKeeps == IInv /\ CheckLimit => IInv'
<1> SUFFICES ASSUME IInv, CheckLimit PROVE IInv'
  OBVIOUS
<1> USE DEF IInv
<1>1. pc = "check" /\ Need \in Nat /\ Floor \in Nat /\ Floor < BlockGasLimit /\ BlockGasLimit \in Nat
  BY NeedType, GasAssumption DEF CheckLimit
<1>2. Need' = Need /\ Floor' = Floor
  BY DEF CheckLimit, Need, Floor
<1>3. Succeeds(BlockGasLimit) <=> Need <= BlockGasLimit
  BY <1>1, ProbeAnswers
<1>4. FallbackEstimate \in 1 .. BlockGasLimit
  BY <1>1, FallbackInRange
<1>5. InOrder'
  BY DEF CheckLimit, InOrder
<1>6. CASE Succeeds(BlockGasLimit)
  <2>1. lo' = Floor /\ hi' = BlockGasLimit /\ pc' = "search" /\ result' = result
    BY <1>6 DEF CheckLimit
  <2>2. TypeOK'
    BY <1>1, <2>1 DEF CheckLimit, TypeOK
  <2>3. Bracketed' /\ Answered'
    BY <1>1, <1>2, <1>3, <1>6, <2>1 DEF Bracketed, Answered
  <2> QED BY <1>5, <2>2, <2>3
<1>7. CASE ~Succeeds(BlockGasLimit)
  <2>1. result' = FallbackEstimate /\ pc' = "done" /\ lo' = lo /\ hi' = hi
    BY <1>7 DEF CheckLimit
  <2>2. TypeOK'
    BY <1>1, <1>4, <2>1 DEF CheckLimit, TypeOK
  <2>3. Bracketed' /\ Answered'
    BY <1>1, <1>2, <1>3, <1>4, <1>7, <2>1 DEF Bracketed, Answered
  <2> QED BY <1>5, <2>2, <2>3
<1> QED BY <1>6, <1>7

(* A probe halves the interval and keeps the answer inside.                *)
LEMMA ProbeKeeps == IInv /\ Probe => IInv'
<1> SUFFICES ASSUME IInv, Probe PROVE IInv'
  OBVIOUS
<1> USE DEF IInv
<1> DEFINE mid == (lo + hi) \div 2
<1>1. pc = "search" /\ Need \in Nat /\ Floor \in Nat /\ BlockGasLimit \in Nat /\ lo \in Nat /\ hi \in Nat
  BY NeedType, GasAssumption DEF Probe, TypeOK
<1>2. Need' = Need /\ Floor' = Floor
  BY DEF Probe, Need, Floor
<1>3. lo + 1 < hi
  BY DEF Probe, Gap
<1>4. mid \in Nat /\ 2 * mid <= lo + hi /\ lo + hi < 2 * mid + 2
  BY <1>1, DivBounds
<1>5. lo < mid /\ mid < hi
  BY <1>1, <1>3, <1>4
<1>6. Succeeds(mid) <=> Need <= mid
  <2>1. mid \in Nat \ {0}
    BY <1>1, <1>4, <1>5
  <2> HIDE DEF mid
  <2> QED BY <2>1, ProbeAnswers
<1>7. \/ ~Succeeds(mid) /\ lo' = mid /\ hi' = hi
      \/ Succeeds(mid) /\ hi' = mid /\ lo' = lo
  BY DEF Probe
<1>8. pc' = pc /\ UNCHANGED <<tip, call, number, root, result>>
  BY DEF Probe
<1>9. InOrder' /\ Answered'
  BY <1>1, <1>8 DEF InOrder, Answered
<1> HIDE DEF mid
<1>10. Bracketed'
  BY <1>1, <1>2, <1>4, <1>5, <1>6, <1>7, <1>8 DEF Bracketed
<1>11. TypeOK'
  BY <1>1, <1>4, <1>5, <1>7, <1>8 DEF Bracketed, TypeOK
<1> QED BY <1>9, <1>10, <1>11

(* When nothing is left between the ends, the upper one is the answer.     *)
LEMMA FoundKeeps == IInv /\ Found => IInv'
<1> SUFFICES ASSUME IInv, Found PROVE IInv'
  OBVIOUS
<1> USE DEF IInv
<1>1. pc = "search" /\ Need \in Nat /\ Floor \in Nat /\ BlockGasLimit \in Nat /\ lo \in Nat /\ hi \in Nat
  BY NeedType, GasAssumption DEF Found, TypeOK
<1>2. Need' = Need /\ Floor' = Floor
  BY DEF Found, Need, Floor
<1>3. result' = hi /\ pc' = "done" /\ UNCHANGED <<tip, call, number, root, lo, hi>>
  BY DEF Found
<1>4. lo + 1 >= hi
  BY <1>1 DEF Found, Gap
<1>5. Answered'
  BY <1>1, <1>2, <1>3, <1>4 DEF Bracketed, Answered
<1>6. TypeOK' /\ InOrder' /\ Bracketed'
  BY <1>1, <1>3 DEF TypeOK, InOrder, Bracketed
<1> QED BY <1>5, <1>6

(* Every step keeps the invariant.                                         *)
LEMMA StepIInv == IInv /\ [Next]_vars => IInv'
<1> SUFFICES ASSUME IInv, [Next]_vars PROVE IInv'
  OBVIOUS
<1>1. CASE Commit
  BY <1>1, CommitKeeps
<1>2. ASSUME NEW c \in Calls, Request(c) PROVE IInv'
  BY <1>2, RequestKeeps
<1>3. CASE EstimateGas
  BY <1>3, OpenStateKeeps, CheckLimitKeeps, ProbeKeeps, FoundKeeps, ReturnKeeps DEF EstimateGas
<1>4. CASE UNCHANGED vars
  BY <1>4 DEF vars, locals, IInv, TypeOK, InOrder, Bracketed, Answered, Need, Floor
<1> QED BY <1>1, <1>2, <1>3, <1>4 DEF Next

(* An answered request has the exact answer.                               *)
LEMMA IInvGivesExact == IInv => EstimateExact
<1> SUFFICES ASSUME IInv, pc = "done"
             PROVE  /\ number <= root /\ root <= tip
                    /\ result \in 1 .. BlockGasLimit
                    /\ Succeeds(BlockGasLimit) =>
                         /\ result > Floor /\ Succeeds(result)
                         /\ \A g \in (Floor + 1) .. (result - 1) : ~Succeeds(g)
                         /\ result > Floor + 1 =>
                              /\ TransactionSucceeds(result + call.intrinsic)
                              /\ ~TransactionSucceeds(result + call.intrinsic - 1)
  BY DEF EstimateExact
<1> USE DEF IInv
<1>1. Need \in Nat /\ Floor \in Nat /\ BlockGasLimit \in Nat \ {0} /\ result \in 1 .. BlockGasLimit
  BY NeedType, GasAssumption DEF Answered
<1>2. number <= root /\ root <= tip
  BY DEF InOrder
<1>3. ASSUME Succeeds(BlockGasLimit)
      PROVE  /\ result > Floor /\ Succeeds(result)
             /\ \A g \in (Floor + 1) .. (result - 1) : ~Succeeds(g)
             /\ result > Floor + 1 =>
                  /\ TransactionSucceeds(result + call.intrinsic)
                  /\ ~TransactionSucceeds(result + call.intrinsic - 1)
  <2>1. Need <= BlockGasLimit
    BY <1>1, <1>3, ProbeAnswers
  <2>2. Floor < result /\ Need <= result /\ (result = Floor + 1 \/ result = Need)
    BY <2>1 DEF Answered
  <2>3. Succeeds(result)
    BY <1>1, <2>2, ProbeAnswers
  <2>4. ASSUME NEW g \in (Floor + 1) .. (result - 1) PROVE ~Succeeds(g)
    <3>1. g \in Nat \ {0} /\ g < Need
      BY <1>1, <2>2
    <3> QED BY <1>1, <3>1, ProbeAnswers
  <2>5. ASSUME result > Floor + 1
        PROVE  /\ TransactionSucceeds(result + call.intrinsic)
               /\ ~TransactionSucceeds(result + call.intrinsic - 1)
    <3>1. call.intrinsic \in Nat
      BY NeedType, CallAssumption DEF IsMessage
    <3>2. result = Need /\ result \in Nat
      BY <1>1, <2>2, <2>5
    <3>3. \A gas : TransactionSucceeds(gas)
                     <=> gas >= call.intrinsic /\ Need <= gas - call.intrinsic
      BY DEF TransactionSucceeds, Need
    <3> HIDE DEF Need
    <3> QED BY <1>1, <3>1, <3>2, <3>3
  <2> QED BY <1>1, <2>2, <2>3, <2>4, <2>5
<1> QED BY <1>1, <1>2, <1>3

(* THEOREM: requests, search and answers are well typed; in particular no  *)
(* answer exceeds the block's gas limit (evm.go:312-315).                  *)
THEOREM TypeCorrect == Spec => []TypeOK
<1>1. IInv => TypeOK
  BY DEF IInv
<1> QED BY InitIInv, StepIInv, <1>1, PTL DEF Spec

(* THEOREM: an answer is the least gas above the floor with which the call *)
(* succeeds, on the one state opened for it, whatever blocks are committed *)
(* meanwhile; above the least possible answer, a transaction needs exactly *)
(* its intrinsic gas more (evm.go:166-184, 280-342, manager.go:354-366).   *)
THEOREM EstimateIsExact == Spec => []EstimateExact
BY InitIInv, StepIInv, IInvGivesExact, PTL DEF Spec

(* Every step during a search is a block committed beside it, its end, or  *)
(* a probe that halves the interval (rounded up) and leaves it not empty.  *)
LEMMA SearchSteps ==
  ASSUME IInv, [Next]_vars, pc = "search"
  PROVE  \/ UNCHANGED <<pc, locals>>
         \/ pc' = "done" /\ hi - lo = 1
         \/ /\ pc' = "search" /\ hi' - lo' >= 1
            /\ hi' - lo' < hi - lo /\ 2 * (hi' - lo') <= (hi - lo) + 1
<1>1. lo \in Nat /\ hi \in Nat /\ lo < hi
  BY GasAssumption DEF IInv, TypeOK, Bracketed
<1>2. CASE Probe
  <2> DEFINE mid == (lo + hi) \div 2
  <2>1. \E v \in {mid} : (lo' = v /\ hi' = hi) \/ (lo' = lo /\ hi' = v)
    BY <1>2, Zenon DEF Probe
  <2>2. mid \in Nat /\ 2 * mid <= lo + hi /\ lo + hi < 2 * mid + 2
    BY <1>1, DivBounds
  <2>3. lo + 1 < hi /\ pc' = "search"
    BY <1>2 DEF Probe, Gap
  <2> HIDE DEF mid
  <2> QED BY <1>1, <2>1, <2>2, <2>3
<1>3. CASE Found
  BY <1>1, <1>3 DEF Found, Gap
<1>4. CASE Commit \/ UNCHANGED vars
  BY <1>4 DEF Commit, vars
<1> QED BY <1>2, <1>3, <1>4 DEF Next, EstimateGas, Request, OpenState, CheckLimit, Return

(* Every probe halves the interval, rounding up, so a search has about as  *)
(* many as the block limit has binary digits, however often blocks are     *)
(* committed beside it, and it ends exactly when the interval holds one    *)
(* answer (evm.go:325-342).                                                *)
THEOREM SearchHalves ==
  Spec => [][pc = "search" =>
               \/ UNCHANGED <<pc, locals>>
               \/ pc' = "done" /\ hi - lo = 1
               \/ /\ pc' = "search" /\ hi' - lo' >= 1
                  /\ hi' - lo' < hi - lo /\ 2 * (hi' - lo') <= (hi - lo) + 1]_vars
<1>1. IInv /\ [Next]_vars =>
        [pc = "search" =>
           \/ UNCHANGED <<pc, locals>>
           \/ pc' = "done" /\ hi - lo = 1
           \/ /\ pc' = "search" /\ hi' - lo' >= 1
              /\ hi' - lo' < hi - lo /\ 2 * (hi' - lo') <= (hi - lo) + 1]_vars
  BY SearchSteps
<1> QED BY <1>1, InitIInv, StepIInv, PTL DEF Spec
=============================================================================
