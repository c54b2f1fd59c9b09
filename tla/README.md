# A TLA+ development of inso-sequencer

inso-sequencer is a single-process L2 sequencer in Go. This directory holds
specifications of its core, the TLC configurations that check them on small
instances, and TLAPS proofs of the properties that hold for every instance.
All paths below are relative to the repository; `src/` there is its root.

## 1. The system

| Part | State it keeps | Operations | Modelled in |
|---|---|---|---|
| laned mempool (`internal/mempool/lanes.go`, `queue.go`) | three priority heaps, `known` (hash → lane) | `Add`, `PopBatch`, `Remove`, `Reset` | `TxLanes`, `LanedMempool`, `PoolContract` |
| transaction metadata (`pkg/types/transaction.go`) | `TxMeta` | `ComputePriority` | `TxLanes` |
| block producer (`internal/producer/producer.go`) | nothing between blocks but its mutex | `produceBlock` on a ticker | `Sequencer` |
| EVM executor (`internal/execution/evm.go`) | none (works on a `StateDB`) | `ExecuteTransactions`, `CallContract`, `EstimateGas` | `Sequencer` (the first), `GasEstimate` |
| compute receipts (`internal/execution/receipts.go`) | receipts by hash and by block | `Store`, Merkle root of a block | `Sequencer` |
| state manager (`internal/state/manager.go`) | tip number, state root, L1 origin | `NewManager`, `ExecuteAndCommitBlock`, `AddBatch`, `Close` | `StateManager` |
| chain database, state store (`internal/execution/chaindb.go`, `statestore.go`) | key-value records, tries | `WriteBlock`, `WriteBatch`, `OpenState`, `CommitState`, `Close` | `StateManager` |
| genesis (`internal/genesis`) | the allocation | `InitializeState` | `StateManager` |
| batcher (`internal/batcher`) | `lastBatchBlock`, `batchIndex`, pending batches | `submitBatch`, `checkConfirmations` | `Batcher` |
| adaptive sizer (`internal/producer/adaptive.go`) | gas and count limit, utilization average | `AdjustAfterBlock` | `BlockFeedback` |
| fee model (`internal/fees`) | base fee, average, discount cache | `AdjustAfterBlock`, `EffectiveFee`, `getCachedDiscount` | `BlockFeedback` (the first two), `SenderCache` |
| TasteScore client (`internal/tastescore`) | score cache | `GetScoreResult`, `EffectiveScore`, `ClearCache` | `SenderCache` |
| RPC (`internal/rpc/handler.go`) | none | `eth_sendRawTransaction`, `eth_estimateGas`, reads | `Sequencer`, `GasEstimate` (the first two) |
| WebSocket manager (`internal/rpc/websocket.go`) | subscriptions by id | `HandleWS` (subscribe, unsubscribe, clean up), two broadcasts | `Subscriptions` |
| process (`cmd/sequencer`) | – | start, shutdown | shutdown in `StateManager`, `Batcher` |
| HTTP server, configuration, metrics, the basic `Mempool` | – | – | not modelled |

**Interaction.** RPC goroutines look up the sender's score, by cache or HTTP, and
call `Add` under the pool's lock; each WebSocket connection has a goroutine that
serves requests one after another. The producer's
goroutine ticks: it asks the sizer for limits, pops a batch, has the state
manager execute and commit a block under `m.mu`, re-adds what was skipped,
adjusts fee and limits from the block's gas, and stores one compute receipt per
transaction. The batcher's goroutine reads the tip and the blocks up to it,
posts them to L1 and records the batch in the same database. Pool, manager,
receipt store, sizer, fee model, score client, subscriptions and batcher each have
a mutex of their own; except for the subscriptions', each with one of its own, none
is held while another is taken, so everything between two calls can interleave.
A shutdown cancels contexts and closes the database without waiting for the
producer or the batcher.

**What is hard about it.** A batch in the producer's hands is in no pool and not
yet in the chain, while clients keep sending; skipped transactions compete with
new ones for room; a block is committed in three stages and each may fail or be
the last thing the process does; the batcher keeps its progress in memory only;
the pool's gas arithmetic is `uint64` with a put-back in the middle of a loop;
two feedback loops with rounding drive the limits and the fee; two caches ask
their service without a lock and date an answer by its arrival; a broadcast writes
to clients without a deadline while it holds the lock every subscription needs.
`PROJECT.json`
lists these hazards line by line with the properties that watch them.

## 2. The modules

`TxLanes` holds what the pool modules share: entries, `Priority`,
`ClassifyLane`, lane shares, and `Place`, the position `Less` gives an entry.
Scores and priorities are in basis points, gas prices in percent of 100 gwei.

`LanedMempool` is the pool. A heap is the sequence in which `heap.Pop` would
return its entries. `Add`, `Remove`, `Reset` hold the lock throughout and are
one action each. `PopBatchLaned` is walked through one entry at a time: phases
1–3 are its three guaranteed drains, 4–6 the leftover rounds, 7 the return.
`Take` is one turn of `drainLane`'s loop, `EndDrain` its exit (empty lane, full
batch, or a head that does not fit and is put back), and the conjunct
`phase >= 4 => remaining > 0` the guard of the leftover calls. `Has` and
`Pending` only read. Two entries with the same `time.Now()` would be ordered
arbitrarily in the code and are ordered by arrival here.

`PoolContract` is the abstract specification: a set of pending entries from
which `CPop` takes, in one step, any batch that is legal: within count and gas
limit, a prefix of every lane, every lane's share honoured, nothing usable left.
`LanedMempool!ImplementsContract` is the refinement: while a batch is being
drained, the contract still sees the drained entries at the front of their lanes.

`Sequencer` instantiates `LanedMempool` and adds the clients, `produceBlock`,
the executor, the committed account state and the receipt store. `pc` is where
`produceBlock` is. `ExecuteTransactions` is the code's loop as a fold over the
batch; `Valid` and `Apply` are `applyTransaction`'s tests and its effect on
nonces and balances. The gas an EVM run uses up, the refund it earns and whether it
fails are constants of the transaction; `RefundCounter` is the `StateDB`'s counter,
which the code reads after each transaction and never resets, so `Charged` depends
on the transactions before. `byBlock` are the stored compute
receipts, one `StoreReceipt` at a time; `ComputeBlockReceiptRoot` is the Merkle
root a client is told. A hash is what was hashed: a receipt's (`computeHash`) holds
one transaction, an inner node's two hashes, so two hashes are equal only for equal
contents, which is all that is assumed of the hash function. `ExecuteFails` is the
error return with its re-adds at score 0. The score lookup is merged into the
submission: it happens before the pool is touched and any score in `Scores` may
come back.

`StateManager` is the chain on disk and in memory. A trie is named by what it
holds (genesis allotted or not, transactions executed), so equal tries have
equal roots. `ExecuteAndCommitBlock` is `Execute`, `CommitState`, `WriteBlock`,
`Publish`, with `Abandon` for an error of the middle two and `Crash` anywhere.
`Close` is `main`'s deferred `stateManager.Close`, which takes no lock: from then on
every write is refused, a block under way is abandoned or only published in memory,
and `Exit` ends the process. What Pebble writes as one batch is one step. Keys are sequences of bytes in
base `Radix`, so the collision of block and batch keys is there (section 5). What the node
makes of a batch record it finds under a block's key is not modelled: the model says when
that can come about, and the instances other than `block_keys` end before it.
Transactions and receipts by hash are written with `txIndex` and stand or fall with
it. The L1 origin is left out: nothing but block headers and read-only RPC depend on
it.

`Batcher` instantiates `StateManager` and runs `submitBatch` against it:
`Collect` (tip and blocks), `Send` (the frame and its L1 hash), `Record`
(record on disk and bookkeeping). The L1 client is the simulated one; its calls
may also end with an error, since the interface allows it and the batcher handles it.
An error leaves open what happened on L1, so there are two actions for it: `SendFails`
(L1 does not have the frame) and `SendLost` (L1 has it, the answer is lost: a broken
connection, or the context that `Stop` cancels). The batcher does the same in both. After
`Close` a frame already collected may still be sent, and its record is lost. The L1
origin `submitBatch` sets ends up in block headers only and is left out.

`BlockFeedback` is the loop from a block's gas to the next block's limits and
fee. The floats are fixed-point numbers in `0..S`, rounded down: results that
depend on the exact float values are not claimed. `EffectiveFee` is what a sender
with a discount is quoted, with the unsigned subtraction modulo `W`. `parity` only makes every
block a step, so that the fairness of `Next` means "blocks keep coming".

`GasEstimate` is one `eth_estimateGas` at a time, with blocks committed
underneath it: `Request` (the handler reads the block number), `OpenState` (the
manager takes the root), `CheckLimit`, `Probe`, `Found` (the binary search) and
`Return`, which is also the error return when the state cannot be opened. A call
is what the search can see of it, the gas it needs for a number and a state and what
it burns when it fails, and the intrinsic gas a transaction pays on top, which the search
does not see (`TransactionSucceeds` is `applyTransaction`'s view of it). That more gas never makes a call fail
is an assumption about contracts that the EVM does not enforce.

`SenderCache` is both caches of what the node knows about senders: scores
(`tastescore`) and discounts (`fees`) follow the same steps, and `client` says which
one a behaviour is about. A lookup is a hit, or `Miss` (the read lock is released),
`Answer` (the service makes up its mind), `Store` or `Fail`, and `Use` (the
transaction is put into its lane). Goroutines do this at the same time for the same
sender, while the service rescores, fails and recovers. Ages take the place of clock
readings, so time needs no bound: a cache entry is younger than `TTL` or gone, and a
lookup, its own steps included, takes at most `Timeout` ticks. `lastTrue` is history:
how long ago each answer was the truth.

`Subscriptions` is the WebSocket manager: one goroutine per connection, one per
broadcast feed, and `m.mu` as Go's `RWMutex` behaves: a waiting `Lock` keeps later
`RLock`s out, and on its `Unlock` those go first. A write blocks while its client is
stalled and fails when the connection is broken. Concurrent writes to one connection
may be noticed by gorilla/websocket, which panics: a reader's panic is recovered by
`net/http` and skips `cleanupConn`, a broadcast's ends the process. `sub.mu` is taken
by broadcasts only while others are kept off by `m.mu`, so it needs no state.

`MC*` modules give the instances; definitions commented as faulty variants
are never part of a specification: they are the slips that show that the
properties can fail (`mutants` in `PROJECT.json`).

## 3. What TLC checks

| Run | Instance | Shows |
|---|---|---|
| `pool` (`LanedMempool.cfg`) | 4 transactions of gas 1–4, room for 3, limits (4,10), (2,10), (3,6) | filter and lanes agree, hand-over is exactly once, limits hold, lanes and batches are best first, a pop returns, and it is one atomic step of `PoolContract`: prefixes of the lanes, nothing lost, shares honoured, no usable gas left |
| `sequencer` (`Sequencer.cfg`) | 3 accounts, 4 transactions (two in sequence, one competing, one that funds another; one earns more refund than it can use), one of them sent twice, block limit below the pool's | executed once and in nonce order, nothing accepted is lost, supply, receipts match the ledger block by block and equal roots of any stored receipts mean equal receipts, what is executable is included |
| `chain` (`StateManager.cfg`) | 3 blocks, 2 transactions, 2 crashes or shutdowns, failing writes, radix 3 and batch tag 1 | chain intact, states available, tip and indices exact, blocks final, progress |
| `batcher` (`Batcher.cfg`) | 3 blocks, 1 crash or shutdown, failing database and L1, 1 lost answer | only committed blocks on L1, a process's frames tile the chain up to the repetition of a frame whose answer was lost, records match, every block gets there |
| `feedback` (`BlockFeedback.cfg`) | limits 2..8, fee 8..32, utilization in twentieths, discounts 0, 25%, 99.99%, 100% | ranges of limits, fee and quotes, bounded fee changes, coming to rest, outgrowing the executor |
| `gas_estimate` (`GasEstimate.cfg`) | 1,296 calls (create or not; needs from 0 to above the limit, varying with state and number), limit 20, floors 4 and 8, one block committed meanwhile | the answer is the least gas above the floor, on one state, and the intrinsic gas short of a transaction's; every request is answered |
| `scores` (`SenderCache.cfg`) | 2 goroutines, 1 sender, 2 answers, TTL 2, time-out 2, either cache, switched on or off | what is used was true less than TTL plus two lookups ago; outdated answers die out |
| `subscriptions` (`Subscriptions.cfg`) | 2 connections, 2 subscriptions of a broadcast type or another, 1 feed | silence after unsubscribing, nobody working is missed, the broken leave, requests are answered |
| `crowded_pool`, `restart_after_genesis`, `block_hash`, `block_keys` | the instances above; for the first with a pool of two and without failing blocks, for the second and third with the code's radix 256 and tag 116, for the last with radix 2 and tag 1 | the disagreements of section 5 |

**Why the bounds are enough.** Lane shares round down to 4/4/2 and 2/2/1, so an
entry may fit its share, only the leftover, or nothing; a pool of three with four
transactions is full, and a put-back meets a full pool. One repeated submission
is enough to meet a batch in flight; four transactions give a nonce gap, a
replaced nonce, a revert and a balance that arrives late. Three blocks give a
retry of a block in the middle of the chain; two crashes allow a crash during
recovery. In base 3 with tag 1 the keys of blocks 1 to 3 are still nobody else's and
block 4 would have that of batch 1: the instance of `chain` ends at the same distance
from the collision as the code's numbers at block 29696, and in base 2 (`block_keys`)
block 3 is beyond it. One lost answer is enough for a frame to be repeated, alone or
longer by the blocks produced meanwhile, before or after a crash. `MaxSubmits`,
`MaxBlocks`, `MaxBatches`, `MaxCrashes`, `MaxLost` bound what would
otherwise count without end; every other range is the code's own. `W` stands
for 2^64 and is far above every sum in the instances.
The calls of `gas_estimate` need less than the floor, just above it, inside, exactly
the limit or more than it; a second block would only repeat what one block does to a
search that has opened its state.
Entries of different senders share nothing but the lock, so one sender is enough for
the caches; two goroutines are needed for an old answer to overwrite a newer one,
and a third would only overwrite again; with `TTL` and `Timeout` at two, an answer
can be old when it arrives and still be served until it expires. Two subscriptions
may be on one connection or on two, so a walk can fail at one and must go on; a
second feed adds only that two broadcasts meet on a connection, which ends like a
broadcast meeting a response.
`CHECK_DEADLOCK FALSE` appears in `Batcher.cfg`, where after `MaxBlocks` blocks have
been posted nothing is left to do, and in `Subscriptions.cfg`, where a panic ends the
process and connections are used once.

**Fairness.** A goroutine inside `PopBatchLaned` keeps running (`WF(PopStep)`).
The producer's ticker keeps firing (`WF(Produce)`); clients need not send
anything. A database error may strike any block but not every one for ever
(`SF` on `Execute`, `CommitState`, `WriteBlock`), and a process is restarted
after a crash or shutdown, which itself ends (`WF(Exit)`). The goroutine serving an
estimate keeps running (`WF(EstimateGas)`). Time goes on (`SF(Tick)`) and a goroutine
that has begun a lookup finishes it. The goroutines of connections and broadcasts run
on; `SF(Lock)` is Go's mutex, which hands itself to a goroutine that has waited a
millisecond; a client may stay stalled for ever, which the two liveness properties of
`Subscriptions` therefore exclude explicitly. The batcher's ticker keeps firing, and `SF(Collect)`,
`SF(Send)` say that the read lock on the tip is not starved by the producer and
that L1 takes and answers some batch in the end: Go's `RWMutex` guarantees the former,
the latter is an assumption about L1.

`ExecutableIncluded` is claimed for a pool whose total gas fits one block
(`Uncrowded`). Without it TLC shows a real starvation: invalid transactions of
high priority are popped, skipped and put back in every round. `RequestsAnswered`
and `BrokenLeave` have provisos of the same kind: without "no client stays stalled"
TLC shows one client that stops reading block every other connection, and a
connection whose goroutine panicked does leave its subscriptions behind.

## 4. What is proved

The theorems of the `*_proofs` modules hold for every value of the constants that
meets the named assumptions of the modules. Each module proves an inductive
invariant, action by action, and reads its theorems off it.

*The pool.* `Consistent` is the inductive invariant: types; `KnownMatchesLanes`
(every known hash is in the lane `known` names, every entry of a lane is known
with that lane, no hash is twice in a lane); `BatchDisjoint` (drained entries are
distinct and unknown); and `Idle` (when the lock is free there is no batch and no
gas counted). The parts need each other: a `Take` keeps the filter right only
because the head occurs nowhere else, and keeps the batch duplicate-free only
because what is known was not drained; capacity is preserved by `Add` only
because a free lock means an empty batch. From it follow
`TypeCorrect`, `FilterMatchesLanes`, `HandsOverOnce`, `NeverOverfull`.
`GasAccounted` relates the wrapped counters `used` and `total` to the batch's
true gas and bounds both by shares and remaining gas, phase by phase; it gives
`PopRespectsLimits` under the assumption `NoWrap`: the caller's limit times 4000,
and plus any one transaction's gas, stays below 2^64. The
producer's limits meet the first part by far; nothing in the node bounds
`tx.Gas()`, which is why the assumption is stated with the theorem; with
one transaction of gas `W - 1` TLC shows that it is needed.

*Priority order.* `Ranked` adds to `Consistent` that every entry is in the lane of its
score and that lanes and batch are in order. `Add` keeps a lane sorted because `Place`
is a boundary between better and worse entries, `Remove` because deleting a place does
not reorder the others, `Take` because the head beats the whole lane and the batch's
earlier entries of that lane beat the head. `PopsBestFirst` follows, without `NoWrap`:
which entries fit does not matter to their order. `AcceptedFindsPlace` is the other
direction: in a sorted lane a boundary always exists, so modelling `heap.Push` by an
insertion refuses nothing the code accepts.

*Bounded work.* `PopComesToAnEnd` and `SearchHalves` are what can be proved of the two
loops' termination. While the lock is held, every step of the pool takes exactly one
off (7 − phase) + (entries in the lanes), which starts at 6 + `maxSize` at most: an entry
put back ends its drain and is not counted twice. Every probe of the gas search halves
`hi - lo`, rounding up, and it ends when that is 1. `PopReturns` and `EstimateReturns`
need in addition only that the goroutine runs, which is the part left to TLC.

*The pool's contract.* `PopIsAtomic` is the refinement, also under `NoWrap`: the
initial state maps to the contract's, every step to one of its steps or to none.
`Take` and the ends of the first five drains are invisible, since what they move is
still seen at the front of its lane (`HeadMoves`); the end of the sixth is `CPop`. That
its batch is legal needs `Thorough`: every entry is in the lane of its score; the
batch's gas is that of its three parts (`HandSound`); from the end of a lane's
guaranteed drain on, its next entry overflows the lane's share (`GuaranteeKept`), from
the end of its leftover drain on also the limit (`NothingUsable`). The second is delicate
where a leftover drain is not called because no gas remains: then the head needs some,
because it did not fit the share although the lane had stayed within it (`LaneGas`).
`Dealt` sorts a batch by lane; being recursive, it is known to the proof by two
equations (`DealtEmpty`, `DealtAppend`).

*The feedback loop.* `IInv` bounds both averages by `0..S`, limits and fee by
their ranges; `QuoteInRange` adds that a discount of at most 10000 basis points
(`DiscountAssumption`: the code trusts the provider) moves a fee down, not below the
floor. `StepFits` (the step is at most the smallest limit, and adding it
to the largest does not wrap) is what keeps `currentGasLimit - step` from
wrapping, since the code compares after subtracting; the defaults (15M, 60M,
step 2.25M) meet it. `LimitsStayInRange`, `FeeStaysInRange`, `TypeCorrect` and
the action property `FeeNeverJumps` follow.

*Gas estimation.* `IInv` says that the interval brackets the answer (the lower
end is the floor or fails, the upper end succeeds), that number and state are read
in this order, and that an answer is the need or one above the floor.
`EstimateIsExact` follows: the state a search has opened does not move, each probe
keeps the bracket, and an empty interval leaves the least sufficient gas; when that is not
the least possible answer it is the call's need, to which a transaction has to add its
intrinsic gas. The
theorem assumes of the EVM only what the description of a call says: success is
monotone in gas.

*The chain.* Block and batch keys share the prefix `"b"` (section 5), so first of
all `KeysApart`: up to block `BatchTag * Radix` (29696) no block has the key of a
batch, and the next one has that of batch 1. `Staged` is an invariant of chains of any
length: types; `Memory` (what is in memory at which phase); `BuildingSound` (a block under
way is numbered one above the head and built on its state, and from `CommitState`
on its trie is on disk); `HeadSound` (the head's state can be opened and the index
holds its transactions and no later block); `TipAgrees`. It gives `TypeCorrect` and
`MemoryFollowsDisk`. `Linked` adds the stored blocks: `ChainIntact`,
`StatesAvailable` and `TxIndexExact`, that the head's state is its block's, and
that a block under way names the stored hash of its predecessor. It is inductive with
`Kept` (no step writes a block up to the head again), and `Kept` holds under
`ShortChain`, `MaxBlocks <= BatchTag * Radix`, which is exactly where the code's promise
ends; so `ChainStaysIntact`, `StatesStayAvailable` and `IndexStaysExact` are about chains
of at most 29696 blocks. `BlocksStayFinal` is not: for a chain of any length, with
`Present` (whatever is under its key, no block's key is ever absent again), a step
that replaces a stored block is the adding of a batch, the block has that batch's key,
and its number is above `BatchTag * Radix`. `Digits` and the loop in `Executes` are recursive
functions; what they compute is proved by looking at the least counterexample
(`LeastElement`), since the library's induction rules cannot be instantiated.

*The batcher.* `Batcher_proofs` uses the chain's invariant as a lemma
(`SM == INSTANCE StateManager_proofs`; `StateStepSound`: a step of the chain keeps
it and changes no block) and adds: `PostedSound` (every frame on L1 holds blocks
of the chain), `Progress` (what the batcher has recorded never passes the tip),
`SessionSound` and `RecordsSound`. The heart of `SessionSound` is `Caught`: the frame the
batcher would post next, or is about to post, follows the one posted last (`Follows`), that
is, goes on behind it or, when its answer was lost, repeats it and perhaps reaches further,
since the tip never falls while the process lives. A collected frame stays true because
blocks are final; hence `L1HoldsTheChain`, `SessionsTile` and `RecordsTellTheTruth`, again
under `ShortChain`: beyond it a record can replace a block the batcher has yet to read.

*Scores and discounts.* Ages add up: an answer on its way is younger than
`Timeout`, so is what it was true of (`AnswersRecent`), an entry of age *n* was
true less than *n* plus one lookup ago (`EntriesRecent`), and a result is an entry
or an answer plus the rest of its lookup (`ResultsRecent`). `LookupsAreRecent` is
their sum.

*Subscriptions.* While a feed walks, it holds the read lock, so the subscribers it
has to visit and has visited stay what they are (`WalkSound`, `WalkComplete`);
`ClosedAreBroken` says whom it may skip. `UnsubscribedStaySilent` and
`WalksReachEverybody` follow for any number of connections and feeds.

*The whole path of a transaction.* `Sequencer_proofs` takes the pool's `Consistent`
as a lemma (`PP == INSTANCE LanedMempool_proofs`) and adds `NodeTypes`, `Stages` (what
the producer holds at each `pc`: a batch just popped is the pool's, what is executed or
skipped comes from it) and `LedgerSound`: the ledger is `Ordered` (a sender's entries
carry the nonces 0, 1, 2, … and the account's nonce is their number), the balances and
what is burnt add up to the genesis allotment, and the receipts stored so far, block
after block, with those of the block under way, are the ledger.
`ExecutedAtMostOnce` follows from `LedgerInNonceOrder`: one hash has one nonce, and no
nonce occurs twice. No property of the pool is needed for it, and none would do: the
pool lets a client send a transaction again while a batch is in flight. `NoWeiMadeOrLost`
rests on every payment of `Apply` being a move between two accounts, and on
`Accounts` being finite, without which there is no sum. The executor's loop, the sums
and the flattening of blocks are recursive functions and are handled by least
counterexamples, as above. `AcceptedStaysKnown` is the one theorem with a temporal
hypothesis: *if* what is pending, popped, skipped or on its way back never outnumbers
the pool's size (`Roomy`), an accepted transaction is in the ledger, in the pool or in
the producer's hands. The code does not establish the hypothesis, and `crowded_pool`
shows what happens without it.

*Receipt roots.* `RootsBind` says that the Merkle root with unpaired nodes promoted as
they are is injective on lists of any two lengths, prefixes of blocks included. A list
cannot be read off its root's shape directly, because a promoted hash looks like one of
a lower level. The argument goes by the path to the leftmost receipt: after *k* levels
every hash but the last is exactly *k* nodes above its leftmost receipt and the last at
most *k* (`SoundLevel`). `Level` is injective on such lists: a pair and a promoted hash
in the same place would have their leftmost receipts at different depths. Equal roots
therefore need the same number of levels, and going down, level by level, the same
receipts. The receipts of different blocks, or of one block while it is being stored,
are thus told apart, and an empty block from a full one.

*The pool inside the node.* What is proved of the pool alone is about callers that may
call anything at any time. `NodePopsBestFirst` and `NodeMeetsContract` transfer it to
the composition: each step of `Sequencer` is a step of the pool or leaves it alone, so
the pool's invariants (`PoolInOrder`, and `PoolAccounted` under `NoWrap`) are invariants
of the node, and the node implements `PoolContract` with the producer as its only
consumer.

*Left to TLC:* everything temporal (`PopReturns`, `ExecutableIncluded`,
`ChainAdvances`, `EveryBlockPosted`, `IdleComesToRest`, `BusyOutgrowsExecutor`,
`EstimateReturns`, `LookupsConverge`, `BrokenLeave`, `RequestsAnswered`),
since fairness and `ENABLED` are beyond the prover. Every invariant and every action
property that a passing run checks is a theorem.

## 5. Where code and comments disagree

1. **Skipped transactions may be lost** (`crowded_pool`). "Return skipped txs to
   mempool for next block" (`producer.go:142`) ignores `ErrMempoolFull`.
2. **A restart before the first block loses genesis** (`restart_after_genesis`).
   The restore path reads `latest-root`, which only `WriteBlock` writes
   (`manager.go:76`).
3. **All blocks have the same hash** (`block_hash`). `BytesToHash` keeps the last
   32 bytes of what `computeBlockHash` concatenates: the parent's hash, which is
   zero from the first block on (`manager.go:446`).
4. **A batch record can replace a block** (`block_keys`). "b + blockNum" and "bt +
   batchIndex" (`chaindb.go:20,25`) are without padding, and block 29697 = 116·256 + 1 has
   the key of batch 1. At two blocks a second the chain is there in four hours; a
   restarted batcher, or one whose first batch is late, then records batch 1 over it (and
   a block that reaches the number of a batch's key replaces that record).

Seen while modelling, without a run of their own:

- *Pool and producer.* A transaction whose nonce is used up is popped, skipped and put
  back for ever, though "consensus error (tx invalid — should be dropped)"
  (`evm.go:51`). `gasUsed+txGas > gasLimit` (`lanes.go:187`) is a `uint64` sum: behind
  another entry, gas close to 2^64 passes it (hence `NoWrap`), against "respecting
  gasLimit" (`pool.go:16`). Entries behind an oversized head of a lane
  wait although they would fit (`lanes.go:187`). A failed block sends its whole batch to
  the slow lane (`producer.go:137`).
- *Executor.* The refund counter is not reset between the transactions of a block, so
  one sender is paid what another has earned (`evm.go:191`); the supply is still
  conserved. The access list is not reset either.
- *Gas estimation.* "find the minimum gas for a transaction" (`evm.go:280`), but the search
  runs calls without their intrinsic gas (`evm.go:272`), and a transaction pays it first
  (`evm.go:174`): an answer above the least possible one is short by exactly that much
  (`EstimateExact`).
- *Chain and batcher.* When L1 takes a frame and the answer is lost, the same blocks are
  posted again under the same batch index (`batcher.go:231-235`). A
  restarted batcher begins at block 1 and posts everything again, and its records
  overwrite the earlier ones (`batcher.go:183`). Two batches can share a simulated L1
  hash, and confirmations are not written back to the record (`batcher.go:81,320`).
  After a failed write of the L1 origin a restart brings an older one back
  (`manager.go:396`).
- *Fees and limits.* A step larger than the minimum would wrap `currentGasLimit-step`
  (`adaptive.go:125`, hence `StepFits`), a discount above 10000 the multiplier
  (`model.go:95`, hence `DiscountAssumption`). Under constant full load the executor's
  fixed 30M limit holds utilization at half of the sizer's 60M, so the fee stops rising
  (`manager.go:272`). `GetDiscount` shows an entry whatever its age (`model.go:194`).
- *Scores.* An answer of status 200 with a null summary decodes to score 0 and is cached
  like any other (`client.go:187-193`).
- *Subscriptions.* Nothing calls the broadcasts. A notification may reach the client
  before the response that tells it the subscription's id (`websocket.go:121,134`); any
  connection may cancel any subscription (`websocket.go:155`); `SubscriberCount` counts
  subscriptions whose connection has failed (`websocket.go:239`).
- *Process.* Metrics are attached after the goroutines that read the field have been
  started (`main.go:174`). `eth_getLogs` does not leave a range that ends at the largest
  `uint64` (`handler.go:662`). `internal/rpc/handler.go:428-429` does not compile.

## 6. Not modelled

The basic `Mempool` is not constructed by the node. The EVM itself is
go-ethereum. HTTP routing, configuration, logging and metrics carry no state the
properties are about. The RPC methods that only read (blocks, receipts, logs, status)
return what the modelled state holds; formatting it is left out. The L1 origin is
copied into headers and read back by nothing else. The model of `SenderCache` is not composed with `Sequencer`: there any
score may come back, which includes every score a cache can serve.

## 7. Plan

Order: pool → whole path of a transaction → chain on disk → batcher → feedback
loops → gas estimation → refunds and shutdown → score and discount caches →
subscriptions (done, in this order, the most important behaviour first). The
invariants and action properties of every module, the refinement of `PoolContract` by
the pool and by the node, and the variants of two loops are proved; what is left is out
of the provers' reach (section 4).
