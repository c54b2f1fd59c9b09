----------------------------- MODULE GasEstimate -----------------------------
(***************************************************************************)
(* eth_estimateGas: the handler (rpc), Manager.EstimateGas (state) and the *)
(* binary search of EVMExecutor.EstimateGas (execution), while the         *)
(* producer commits blocks underneath it.  A search works on a StateDB of  *)
(* its own, so one request stands for all of them.                         *)
(*                                                                         *)
(* The EVM is external.  A call is described by what the search can see of *)
(* it: the gas it needs when run as a given block number on a given state, *)
(* the gas it burns when even the block's limit does not make it succeed,  *)
(* and what a transaction pays before it runs (its intrinsic gas).  That   *)
(* more gas never makes a call fail is part of this description; the EVM   *)
(* does not enforce it.                                                    *)
(***************************************************************************)
EXTENDS Integers

CONSTANTS
  MaxBlocks,                      \* bound: blocks committed meanwhile
  Calls,                          \* the calls a client asks about
  BlockGasLimit,                  \* GasLimit of the block context
  CallFloor, CreateFloor,         \* 21000 and 53000
  CallDefault, CreateDefault,     \* 100_000 and 3_000_000
  W                               \* 2^64

States == 0 .. MaxBlocks  \* state i is the one block i leaves behind

(* A call without recipient creates a contract.  The client's own gas      *)
(* limit is not part of it: the search puts its own in place.              *)
IsMessage(c) ==
  /\ c.create \in BOOLEAN
  /\ c.intrinsic \in Nat /\ c.burnt \in 0 .. BlockGasLimit
  /\ c.need \in [States \X States -> Nat]

ASSUME CallAssumption == MaxBlocks \in Nat /\ \A c \in Calls : IsMessage(c)
ASSUME GasAssumption ==
  /\ BlockGasLimit \in Nat /\ CallFloor \in Nat /\ CreateFloor \in Nat
  /\ CallFloor < BlockGasLimit /\ CreateFloor < BlockGasLimit
  /\ CallDefault \in 1 .. BlockGasLimit /\ CreateDefault \in 1 .. BlockGasLimit
  /\ W \in Nat /\ BlockGasLimit < W \div 2

NoCall == [create |-> FALSE]  \* no request is being served

VARIABLES
  tip,      \* the manager's currentBlock and stateRoot
  pc,       \* where the request is
  call,     \* its message
  number,   \* blockNum: the number its block context has
  root,     \* the state it has opened
  lo, hi,   \* the search interval
  result    \* the answer

locals == <<call, number, root, lo, hi, result>>
vars   == <<tip, pc, locals>>

Init ==
  /\ tip = 0 /\ pc = "idle" /\ call = NoCall
  /\ number = 0 /\ root = 0 /\ lo = 0 /\ hi = 0 /\ result = 0

(* The producer commits a block; number and root change together.          *)
Commit ==
  /\ tip < MaxBlocks
  /\ tip' = tip + 1
  /\ UNCHANGED <<pc, locals>>

-----------------------------------------------------------------------------
(* CallContract with a gas limit; a limit of zero stands for a huge one.   *)
CallContract(c, blockNum, state, limit) ==
  LET gas == IF limit = 0 THEN W \div 2 ELSE limit
  IN  c.need[<<blockNum, state>>] <= gas

(* A probe runs on the opened state, under a snapshot that is reverted:    *)
(* one probe leaves nothing behind for the next.                           *)
Succeeds(gas) == CallContract(call, number, root, gas)

Floor == IF call.create THEN CreateFloor ELSE CallFloor

Least(a, b) == IF a < b THEN a ELSE b

(* The answer for a call that fails with all the gas of a block.           *)
FallbackEstimate ==
  IF call.burnt > 0 THEN Least((call.burnt * 120) \div 100, BlockGasLimit)
  ELSE IF call.create THEN CreateDefault ELSE CallDefault

-----------------------------------------------------------------------------
(* The handler reads the block number in one critical section ...          *)
Request(c) ==
  /\ pc = "idle"
  /\ call' = c /\ number' = tip
  /\ pc' = "open"
  /\ UNCHANGED <<tip, root, lo, hi, result>>

(* ... and the manager the state root in another.                          *)
OpenState ==
  /\ pc = "open"
  /\ root' = tip
  /\ pc' = "check"
  /\ UNCHANGED <<tip, call, number, lo, hi, result>>

(* The client is sent the answer, or an error when the trie cannot be read.*)
Return ==
  /\ pc \in {"open", "done"}
  /\ pc' = "idle" /\ call' = NoCall
  /\ number' = 0 /\ root' = 0 /\ lo' = 0 /\ hi' = 0 /\ result' = 0
  /\ UNCHANGED tip

(* The upper bound first.                                                  *)
CheckLimit ==
  /\ pc = "check"
  /\ \/ /\ Succeeds(BlockGasLimit)
        /\ lo' = Floor /\ hi' = BlockGasLimit
        /\ pc' = "search" /\ UNCHANGED result
     \/ /\ ~Succeeds(BlockGasLimit)
        /\ result' = FallbackEstimate
        /\ pc' = "done" /\ UNCHANGED <<lo, hi>>
  /\ UNCHANGED <<tip, call, number, root>>

(* Faulty variant: the loop goes on while lo < hi.                         *)
GapAny == lo < hi

(* The interval still has a value inside.                                  *)
Gap == lo + 1 < hi

(* Faulty variant: a probe runs on the newest state.                       *)
ProbeTip ==
  /\ pc = "search" /\ Gap
  /\ \E mid \in {(lo + hi) \div 2} :
       \/ ~CallContract(call, number, tip, mid) /\ lo' = mid /\ UNCHANGED hi
       \/ CallContract(call, number, tip, mid) /\ hi' = mid /\ UNCHANGED lo
  /\ UNCHANGED <<tip, pc, call, number, root, result>>

Probe ==
  /\ pc = "search" /\ Gap
  /\ \E mid \in {(lo + hi) \div 2} :
       \/ ~Succeeds(mid) /\ lo' = mid /\ UNCHANGED hi
       \/ Succeeds(mid) /\ hi' = mid /\ UNCHANGED lo
  /\ UNCHANGED <<tip, pc, call, number, root, result>>

Found ==
  /\ pc = "search" /\ ~Gap
  /\ result' = hi
  /\ pc' = "done"
  /\ UNCHANGED <<tip, call, number, root, lo, hi>>

EstimateGas == OpenState \/ CheckLimit \/ Probe \/ Found \/ Return

Next == Commit \/ (\E c \in Calls : Request(c)) \/ EstimateGas

(* The goroutine serving a request keeps running, blocks or no blocks.     *)
Spec == Init /\ [][Next]_vars /\ WF_vars(EstimateGas)

-----------------------------------------------------------------------------
(* Properties.                                                             *)

TypeOK ==
  /\ tip \in States /\ number \in States /\ root \in States
  /\ pc \in {"idle", "open", "check", "search", "done"}
  /\ pc = "idle" \/ call \in Calls
  /\ lo \in 0 .. BlockGasLimit /\ hi \in 0 .. BlockGasLimit
  /\ result \in 0 .. BlockGasLimit

(* applyTransaction takes the intrinsic gas off the limit before it runs   *)
(* the call (evm.go:166-184); a probe does not.                            *)
TransactionSucceeds(gas) ==
  gas >= call.intrinsic /\ call.need[<<number, root>>] <= gas - call.intrinsic

(* The answer for a call that can succeed is the least gas above the floor *)
(* with which it does, on one state and one block number, however many     *)
(* blocks are committed during the search (evm.go:280, manager.go:355-365);*)
(* that number is never ahead of the state.  A transaction that makes the  *)
(* call needs exactly its intrinsic gas more than an answer above the      *)
(* least possible one, though the estimate is said to be "for a            *)
(* transaction" (evm.go:280).  For a call that cannot succeed, there is an *)
(* answer within the block's limit all the same.                           *)
EstimateExact ==
  pc = "done" =>
    /\ number <= root /\ root <= tip
    /\ result \in 1 .. BlockGasLimit
    /\ Succeeds(BlockGasLimit) =>
         /\ result > Floor /\ Succeeds(result)
         /\ \A g \in (Floor + 1) .. (result - 1) : ~Succeeds(g)
         /\ result > Floor + 1 =>
              /\ TransactionSucceeds(result + call.intrinsic)
              /\ ~TransactionSucceeds(result + call.intrinsic - 1)

(* A request is answered: the search comes to its end (evm.go:325-342).    *)
EstimateReturns == (pc = "open") ~> (pc = "idle")
=============================================================================
