------------------------------ MODULE Sequencer ------------------------------
(***************************************************************************)
(* A transaction's way through the node: eth_sendRawTransaction (rpc),     *)
(* the laned pool (mempool), the block producer (producer), the executor   *)
(* and the committed state (execution, state), and the compute receipts.   *)
(*                                                                         *)
(* The pool is LanedMempool itself, step by step: RPC goroutines and the   *)
(* producer's re-adds compete for its lock.  produceBlock runs under p.mu, *)
(* so there is one producer; its calls into the pool, the state manager    *)
(* and the receipt store are separate steps that RPC goroutines interleave *)
(* with.  The block's limits come from the adaptive sizer, here any member *)
(* of Calls.  The base fee reaches the block header and nothing else, so   *)
(* it is left out.                                                         *)
(***************************************************************************)
EXTENDS TxLanes, FiniteSets

SetExt == INSTANCE FiniteSetsExt
SeqExt == INSTANCE SequencesExt

CONSTANTS
  Accounts, Coinbase,        \* addresses; the sequencer's fee recipient
  Sender, To, Nonce, Value,  \* fields of a transaction, as functions on Tx
  EvmGas, Refund,            \* gas its EVM run uses up, and what it earns back
  Intrinsic,                 \* its intrinsic gas
  Reverts,                   \* the transactions whose EVM run fails
  Genesis,                   \* initial balances
  BlockGasLimit,             \* ExecutionContext.GasLimit
  CanFail,                   \* whether ExecuteAndCommitBlock may return an error
  MaxSubmits                 \* bound: how often a client sends a transaction

ASSUME AccountAssumption ==
  /\ IsFiniteSet(Accounts) /\ Coinbase \in Accounts
  /\ Sender \in [Tx -> Accounts] /\ To \in [Tx -> Accounts]
  /\ Nonce \in [Tx -> Nat] /\ Value \in [Tx -> Nat]
  /\ Genesis \in [Accounts -> Nat]
ASSUME ExecutionAssumption ==
  /\ EvmGas \in [Tx -> Nat] /\ Refund \in [Tx -> Nat] /\ Intrinsic \in [Tx -> Nat]
  /\ \A t \in Tx : EvmGas[t] <= Gas[t]
  /\ Reverts \subseteq Tx /\ BlockGasLimit \in Nat /\ CanFail \in BOOLEAN
ASSUME SubmitAssumption == MaxSubmits \in [Tx -> Nat] /\ 0 \in Scores

VARIABLES
  lanes, known, phase, limits, batch, used, total, spent,  \* the pool
  submits,   \* how often t has been sent
  accepted,  \* history: transactions eth_sendRawTransaction returned a hash for
  pc,        \* where produceBlock is
  held,      \* txMetas: the batch in the producer's hands
  todo,      \* entries produceBlock still has to re-add
  acct,      \* the committed state: nonces and balances
  ledger,    \* history: all included transactions, in block order
  block,     \* the block's transactions whose compute receipt is not stored yet
  byBlock    \* the stored compute receipts, by block, without empty blocks

Pool == INSTANCE LanedMempool

poolVars == <<lanes, known, phase, limits, batch, used, total, spent>>
rpcVars  == <<submits, accepted>>
prodVars == <<pc, held, todo, block>>
chainVars == <<acct, ledger, byBlock>>
vars     == <<poolVars, rpcVars, prodVars, chainVars>>

Elems(s) == {s[i] : i \in DOMAIN s}
TxsOf(s) == {s[i].tx : i \in DOMAIN s}

Init ==
  /\ Pool!Init
  /\ submits = [t \in Tx |-> 0] /\ accepted = {}
  /\ pc = "idle" /\ held = << >> /\ todo = << >> /\ block = << >>
  /\ acct = [nonce |-> [a \in Accounts |-> 0], bal |-> Genesis]
  /\ ledger = << >> /\ byBlock = << >>

-----------------------------------------------------------------------------
(* eth_sendRawTransaction.  The score comes from an HTTP call made before  *)
(* the pool is touched; any score may come back, a failed fetch giving 0.  *)
(* Nothing but the pool's own tests stands between a client and the pool:  *)
(* neither nonce nor balance is looked at, and a client may send again.    *)

SendRawTransaction(t, score) ==
  /\ Pool!Free /\ submits[t] < MaxSubmits[t]
  /\ submits' = [submits EXCEPT ![t] = @ + 1]
  /\ \/ Pool!Add(t, score) /\ accepted' = accepted \cup {t}
     \/ ~Pool!Accepts(t) /\ UNCHANGED <<poolVars, accepted>>
  /\ UNCHANGED <<prodVars, chainVars>>

-----------------------------------------------------------------------------
(* ExecuteTransactions and applyTransaction.                               *)

Cost(t) == Gas[t] * GasPrice[t] + Value[t]

(* Faulty variants, here and below, are slips a property has to notice: a  *)
(* used nonce passes, a nonce may be skipped, the balance is not looked at.*)
ValidReplay(st, t) ==
  /\ Nonce[t] <= st.nonce[Sender[t]]
  /\ st.bal[Sender[t]] >= Cost(t) /\ Gas[t] >= Intrinsic[t]
ValidGap(st, t) ==
  /\ Nonce[t] >= st.nonce[Sender[t]]
  /\ st.bal[Sender[t]] >= Cost(t) /\ Gas[t] >= Intrinsic[t]
ValidUnfunded(st, t) ==
  /\ Nonce[t] = st.nonce[Sender[t]]
  /\ Gas[t] >= Intrinsic[t]

Valid(st, t) ==
  /\ Nonce[t] = st.nonce[Sender[t]]
  /\ st.bal[Sender[t]] >= Cost(t)
  /\ Gas[t] >= Intrinsic[t]

(* The coinbase is paid for the gas before the refund.                     *)
ApplyOverpays(st, t, gasUsed) ==
  LET fee   == gasUsed * GasPrice[t]
      value == IF t \in Reverts THEN 0 ELSE Value[t]
      debit(a)  == IF a = Sender[t] THEN fee + value ELSE 0
      credit(a) == (IF a = To[t] THEN value ELSE 0)
                     + (IF a = Coinbase THEN EvmGas[t] * GasPrice[t] ELSE 0)
  IN  [nonce |-> [st.nonce EXCEPT ![Sender[t]] = @ + 1],
       bal   |-> [a \in Accounts |-> st.bal[a] - debit(a) + credit(a)]]

(* Gas is bought at the limit, and what is left over and refunded comes    *)
(* back; the coinbase gets the rest; a failed EVM run keeps the nonce and  *)
(* the fee.                                                                *)
Apply(st, t, gasUsed) ==
  LET fee   == gasUsed * GasPrice[t]
      value == IF t \in Reverts THEN 0 ELSE Value[t]
      debit(a)  == IF a = Sender[t] THEN fee + value ELSE 0
      credit(a) == (IF a = To[t] THEN value ELSE 0)
                     + (IF a = Coinbase THEN fee ELSE 0)
  IN  [nonce |-> [st.nonce EXCEPT ![Sender[t]] = @ + 1],
       bal   |-> [a \in Accounts |-> st.bal[a] - debit(a) + credit(a)]]

FitsBlock(gas, t) == (gas + Gas[t]) % W <= BlockGasLimit

(* The StateDB's refund counter after t.  Nothing resets it between the    *)
(* transactions of a block, so t is granted what earlier ones have earned, *)
(* up to half its gas; a failed run earns nothing.                         *)
RefundCounter(run, t) == run.refund + (IF t \in Reverts THEN 0 ELSE Refund[t])
Charged(run, t) ==
  LET maxRefund == EvmGas[t] \div 2
  IN  EvmGas[t] - (IF RefundCounter(run, t) > maxRefund THEN maxRefund ELSE RefundCounter(run, t))

Executed(run, t) ==
  [run EXCEPT !.st = Apply(@, t, Charged(run, t)), !.gas = @ + Charged(run, t),
              !.refund = RefundCounter(run, t), !.done = Append(@, t)]

(* A skipped transaction is charged to the block's gas.                    *)
TurnChargesSkipped(run, e) ==
  IF FitsBlock(run.gas, e.tx) /\ Valid(run.st, e.tx) THEN Executed(run, e.tx)
  ELSE [run EXCEPT !.skipped = Append(@, e), !.gas = @ + Gas[e.tx]]

(* One turn of the loop: execute the transaction, or skip it.              *)
Turn(run, e) ==
  IF FitsBlock(run.gas, e.tx) /\ Valid(run.st, e.tx) THEN Executed(run, e.tx)
  ELSE [run EXCEPT !.skipped = Append(@, e)]

ExecuteTransactions(st, metas) ==
  LET run[i \in 0 .. Len(metas)] ==
        IF i = 0 THEN [st |-> st, gas |-> 0, refund |-> 0, done |-> << >>, skipped |-> << >>]
        ELSE Turn(run[i - 1], metas[i])
  IN  run[Len(metas)]

-----------------------------------------------------------------------------
(* produceBlock.                                                           *)

Tick(c) ==
  /\ pc = "idle" /\ Pool!StartPop(c)
  /\ pc' = "popping"
  /\ UNCHANGED <<rpcVars, held, todo, block, chainVars>>

Popping ==
  /\ pc = "popping" /\ (Pool!Take \/ Pool!EndDrain)
  /\ UNCHANGED <<rpcVars, prodVars, chainVars>>

Popped ==
  /\ pc = "popping" /\ Pool!Return
  /\ held' = batch /\ pc' = "execute"
  /\ UNCHANGED <<rpcVars, todo, block, chainVars>>

(* State, block and tip change in one step: ExecuteAndCommitBlock holds    *)
(* m.mu, and readers of the state take it too.                             *)
Execute ==
  /\ pc = "execute"
  /\ \E run \in {ExecuteTransactions(acct, held)} :
       /\ acct' = run.st
       /\ ledger' = ledger \o run.done
       /\ block' = run.done
       /\ byBlock' = IF run.done = << >> THEN byBlock ELSE Append(byBlock, << >>)
       /\ todo' = run.skipped
  /\ pc' = "requeue" /\ held' = << >>
  /\ UNCHANGED <<poolVars, rpcVars>>

(* The batch of a failed block is not put back.                            *)
ExecuteFailsDrops ==
  /\ CanFail /\ pc = "execute"
  /\ todo' = << >>
  /\ pc' = "requeue" /\ held' = << >> /\ block' = << >>
  /\ UNCHANGED <<poolVars, rpcVars, chainVars>>

(* On an error the block is not committed and the whole batch goes back    *)
(* with score 0.                                                           *)
ExecuteFails ==
  /\ CanFail /\ pc = "execute"
  /\ todo' = [i \in DOMAIN held |-> [held[i] EXCEPT !.score = 0]]
  /\ pc' = "requeue" /\ held' = << >> /\ block' = << >>
  /\ UNCHANGED <<poolVars, rpcVars, chainVars>>

(* One re-add; an error of Add is ignored, the transaction dropped.        *)
Requeue ==
  /\ pc = "requeue" /\ todo # << >> /\ Pool!Free
  /\ LET e == Head(todo)
     IN  \/ Pool!Add(e.tx, e.score)
         \/ ~Pool!Accepts(e.tx) /\ UNCHANGED poolVars
  /\ todo' = Tail(todo)
  /\ UNCHANGED <<rpcVars, pc, held, block, chainVars>>

(* ReceiptStore.Store: the receipt joins those of its block.               *)
Store(receipts, t) == [receipts EXCEPT ![Len(receipts)] = Append(@, t)]

(* Faulty variant: only transactions that succeeded get a compute receipt. *)
StoreReceiptOfSuccess ==
  /\ pc = "requeue" /\ todo = << >> /\ block # << >>
  /\ byBlock' = IF Head(block) \in Reverts THEN byBlock ELSE Store(byBlock, Head(block))
  /\ block' = Tail(block)
  /\ UNCHANGED <<poolVars, rpcVars, pc, held, todo, acct, ledger>>

(* Compute receipts are stored one at a time, each under its own lock.     *)
StoreReceipt ==
  /\ pc = "requeue" /\ todo = << >> /\ block # << >>
  /\ byBlock' = Store(byBlock, Head(block))
  /\ block' = Tail(block)
  /\ UNCHANGED <<poolVars, rpcVars, pc, held, todo, acct, ledger>>

(* The Merkle root over receipt hashes: neighbours are hashed in pairs, a  *)
(* last one without a partner moves up as it is (in the faulty variant it  *)
(* is forgotten).  Hashes do not collide, so the hash of a pair is the     *)
(* pair, and a receipt's hash a 1-tuple: it comes from another hash        *)
(* function, SHA-256 and not Keccak, over the fields of the receipt, of    *)
(* which the transaction stands for all.                                   *)
LevelDropsLast(hashes) ==
  [i \in 1 .. (IF Len(hashes) = 1 THEN 1 ELSE Len(hashes) \div 2) |->
     IF 2 * i <= Len(hashes) THEN <<hashes[2 * i - 1], hashes[2 * i]>>
                             ELSE hashes[2 * i - 1]]
Level(hashes) ==
  [i \in 1 .. ((Len(hashes) + 1) \div 2) |->
     IF 2 * i <= Len(hashes) THEN <<hashes[2 * i - 1], hashes[2 * i]>>
                             ELSE hashes[2 * i - 1]]
computeMerkleRoot(hashes) ==
  LET up[k \in 0 .. Len(hashes)] == IF k = 0 THEN hashes ELSE Level(up[k - 1])
  IN  up[Len(hashes)][1]

(* The root a client is told while these receipts of a block are stored.   *)
NoRoot == << >>
computeHash(t) == <<t>>
ComputeBlockReceiptRoot(receipts) ==
  IF receipts = << >> THEN NoRoot
  ELSE computeMerkleRoot([i \in DOMAIN receipts |-> computeHash(receipts[i])])

Finish ==
  /\ pc = "requeue" /\ todo = << >> /\ block = << >>
  /\ pc' = "idle"
  /\ UNCHANGED <<poolVars, rpcVars, held, todo, block, chainVars>>

Produce == (\E c \in Calls : Tick(c)) \/ Popping \/ Popped \/ Execute
             \/ Requeue \/ StoreReceipt \/ Finish

Next ==
  \/ \E t \in Tx, s \in Scores : SendRawTransaction(t, s)
  \/ Produce
  \/ ExecuteFails

(* The ticker keeps firing and the producer's goroutine keeps running; it  *)
(* is not required that clients send anything.  An error of the database   *)
(* may strike, but not every block for ever: Execute is taken infinitely   *)
(* often if blocks are attempted infinitely often.                         *)
Spec == Init /\ [][Next]_vars /\ WF_vars(Produce) /\ SF_vars(Execute)

-----------------------------------------------------------------------------
(* Properties.                                                             *)

InPool(t)  == \E l \in Lanes : t \in TxsOf(lanes[l])
Carried(t) == t \in TxsOf(batch) \/ t \in TxsOf(held) \/ t \in TxsOf(todo)

TypeOK ==
  /\ Pool!TypeOK
  /\ \A t \in Tx : submits[t] \in 0 .. MaxSubmits[t]
  /\ accepted \subseteq Tx /\ byBlock \in Seq(Seq(Tx))
  /\ pc \in {"idle", "popping", "execute", "requeue"}
  /\ held \in Seq(Entry) /\ todo \in Seq(Entry)
  /\ block \in Seq(Tx) /\ ledger \in Seq(Tx)
  /\ acct \in [nonce : [Accounts -> Nat], bal : [Accounts -> Nat]]

(* No transaction is executed twice, whatever the pool, the re-adds and    *)
(* clients that send it again while it is being executed do: the state     *)
(* nonce is the only guard (evm.go:124-128).                               *)
IncludedOnce ==
  \A i, j \in DOMAIN ledger : ledger[i] = ledger[j] => i = j

(* A sender's transactions enter the ledger in nonce order without a gap,  *)
(* though the pool orders by priority and not by nonce; the committed      *)
(* nonce counts exactly them.                                              *)
NoncesConsecutive ==
  \A a \in Accounts :
    LET mine == {i \in DOMAIN ledger : Sender[ledger[i]] = a}
    IN  /\ acct.nonce[a] = Cardinality(mine)
        /\ \A i \in mine : Nonce[ledger[i]] = Cardinality({j \in mine : j < i})

(* A transaction eth_sendRawTransaction returned a hash for is in the      *)
(* ledger, in the pool or in the producer's hands: "Return skipped txs to  *)
(* mempool for next block" (producer.go:142) loses none of them.           *)
AcceptedNotLost ==
  \A t \in accepted : t \in Elems(ledger) \/ InPool(t) \/ Carried(t)

(* No wei is made or destroyed: buying gas, returning the unused part and  *)
(* the refund, paying the coinbase and moving the value cancel out         *)
(* (evm.go:131-204), also when sender, receiver and coinbase coincide, and *)
(* although the refund counter goes from one transaction to the next.      *)
Supply(bal) == SetExt!MapThenSumSet(LAMBDA a : bal[a], Accounts)
SupplyConserved == Supply(acct.bal) = Supply(Genesis)

(* The compute receipts are those of the ledger, block by block and in     *)
(* order, up to the point the producer has reached; between two blocks     *)
(* none is missing (producer.go:228-243).                                  *)
ReceiptsComplete ==
  /\ SeqExt!FlattenSeq(byBlock) \o block = ledger
  /\ pc = "idle" => block = << >>

(* A root binds: two readers who are told the same root, of whatever       *)
(* blocks and however many of their receipts were stored when they asked,  *)
(* saw the same receipts in the same order (receipts.go:181, 224).         *)
RootsCommit ==
  \A k, m \in DOMAIN byBlock :
    \A i \in 0 .. Len(byBlock[k]), j \in 0 .. Len(byBlock[m]) :
      LET mine   == SubSeq(byBlock[k], 1, i)
          theirs == SubSeq(byBlock[m], 1, j)
      IN  ComputeBlockReceiptRoot(mine) = ComputeBlockReceiptRoot(theirs) => mine = theirs

(* The transaction could be executed at the head of the next block.        *)
Executable(t) == Valid(acct, t) /\ Gas[t] <= BlockGasLimit

(* A pending transaction that is executable is eventually included, unless *)
(* another one with the same nonce overtakes it: being skipped, re-added   *)
(* behind its priority class and demoted by a failed block does not keep   *)
(* it out for ever.  It takes a pool whose gas fits one block (Uncrowded): *)
(* skipped transactions keep their priority, and enough of them starve     *)
(* everything below.                                                       *)
Uncrowded ==
  \A c \in Calls : Cardinality(Tx) <= c[1] /\ SetExt!MapThenSumSet(LAMBDA t : Gas[t], Tx) <= c[2]
ExecutableIncluded == Uncrowded =>
  \A t \in Tx : (InPool(t) /\ Executable(t)) ~> (acct.nonce[Sender[t]] > Nonce[t])
=============================================================================
