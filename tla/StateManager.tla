---------------------------- MODULE StateManager ----------------------------
(***************************************************************************)
(* The chain on disk and its image in memory: Manager of internal/state,   *)
(* ChainDB and StateStore of internal/execution.  NewManager starts from   *)
(* genesis or from what it finds on disk; ExecuteAndCommitBlock extends    *)
(* the chain in stages (trie, block record, memory) and each stage may     *)
(* fail; the process may crash between any two steps, and a shutdown       *)
(* closes the database under a block that is being built.                  *)
(*                                                                         *)
(* A state trie is named by what it holds: whether the genesis accounts    *)
(* were allotted in it, and the transactions executed on it.  Equal tries  *)
(* have equal roots, so the trie stands for its root.  Which transactions  *)
(* execute is a matter of module Sequencer; here a transaction runs on     *)
(* funded accounts, once.  Blocks and batch records live under keys that   *)
(* begin with the same byte; they are modelled digit by digit.             *)
(***************************************************************************)
EXTENDS Integers, Sequences

CONSTANTS
  Tx,           \* transactions
  Payloads,     \* the sequences of them a block may be asked to execute
  Radix,        \* 256: numbers in keys are big-endian bytes without padding
  BatchTag,     \* 116, the byte 't' that tells "bt" + index from "b" + number
  CanFail,      \* whether the database may refuse a write
  MaxBlocks,    \* bound: the highest block number
  MaxBatches,   \* bound: the highest batch index
  MaxCrashes    \* bound: how often the process crashes or is shut down

ASSUME PayloadAssumption ==
  \A p \in Payloads : /\ p \in Seq(Tx)
                      /\ \A i, j \in DOMAIN p : p[i] = p[j] => i = j
ASSUME KeyAssumption == Radix \in Nat /\ Radix > 1 /\ BatchTag \in 0 .. (Radix - 1)
ASSUME BoundAssumption == /\ CanFail \in BOOLEAN /\ MaxBlocks \in Nat
                          /\ MaxBatches \in Nat /\ MaxCrashes \in Nat

VARIABLES
  (* on disk *)
  tries,        \* the state tries that have been flushed
  genesisRoot,  \* "genesis-root", EmptyTrie if absent
  records,      \* block and batch records, and "latest-batch-index"
  hashIndex,    \* "h": block hash -> number
  txIndex,      \* "tb": transaction -> number; "t" and "r" go with it
  head,         \* "current-block" and "latest-root", one database batch
  (* in memory *)
  phase,        \* "down", "genesis" (trie, then root record), "up", "closed"
  currentBlock, stateRoot,   \* of Manager
  stage,        \* where ExecuteAndCommitBlock is
  building,     \* the block it works on
  crashes       \* how often the process has crashed or been shut down

diskVars == <<tries, genesisRoot, records, hashIndex, txIndex, head>>
memVars  == <<phase, currentBlock, stateRoot, stage, building>>
vars     == <<diskVars, memVars, crashes>>

Elems(s) == {s[i] : i \in DOMAIN s}

-----------------------------------------------------------------------------
(* Tries, keys and hashes.                                                 *)

(* OpenState(common.Hash{}) gives the empty trie.                          *)
EmptyTrie   == [funded |-> FALSE, txs |-> << >>]
GenesisTrie == [funded |-> TRUE, txs |-> << >>]
CanOpen(root) == root \in tries \cup {EmptyTrie}

Executes(trie, p) ==
  LET done[i \in 0 .. Len(p)] ==
        IF i = 0 THEN << >>
        ELSE IF trie.funded /\ p[i] \notin Elems(trie.txs)
             THEN Append(done[i - 1], p[i]) ELSE done[i - 1]
  IN  done[Len(p)]

(* big.Int.Bytes(): no leading zero, nothing at all for 0.                 *)
Digits(n) ==
  LET d[k \in 0 .. n] == IF k = 0 THEN << >>
                         ELSE Append(d[k \div Radix], k % Radix)
  IN  d[n]
BlockKey(n) == <<"b">> \o Digits(n)

(* Faulty variant: the two kinds of record share one prefix.               *)
BatchKeyUntagged(i) == <<"b">> \o Digits(i)

BatchKey(i) == <<"b", BatchTag>> \o Digits(i)
keyLatestBatch == <<"latest-batch-index">>

Put(f, k, v) == [x \in DOMAIN f \cup {k} |-> IF x = k THEN v ELSE f[x]]

(* common.BytesToHash keeps the last 32 bytes of what it is given; the     *)
(* parent hash is the last field and 32 bytes long.                        *)
ZeroHash == << >>
BytesToHash(fields) == fields[Len(fields)]
computeBlockHash(n, root, parent) == BytesToHash(<<n, root, parent>>)

HasBlock(n) == BlockKey(n) \in DOMAIN records
Block(n)    == records[BlockKey(n)]
ReadBlockHash(n) == IF HasBlock(n) THEN Block(n).hash ELSE ZeroHash
NoBlock == << >>
ReadBlockByHash(h) == IF h \in DOMAIN hashIndex THEN Block(hashIndex[h]) ELSE NoBlock
ReadLatestBatch ==
  IF keyLatestBatch \in DOMAIN records /\ BatchKey(records[keyLatestBatch]) \in DOMAIN records
  THEN records[BatchKey(records[keyLatestBatch])] ELSE NoBlock
ReadTxBlockNumber(t) == IF t \in DOMAIN txIndex THEN txIndex[t] ELSE 0

-----------------------------------------------------------------------------

Init ==
  /\ tries = {} /\ genesisRoot = EmptyTrie
  /\ records = << >> /\ hashIndex = << >> /\ txIndex = << >>
  /\ head = [number |-> 0, root |-> EmptyTrie]
  /\ phase = "down" /\ currentBlock = 0 /\ stateRoot = EmptyTrie
  /\ stage = "idle" /\ building = NoBlock /\ crashes = 0

(* Faulty variant: the next block's number is restored, not the tip's.     *)
RestoreNext ==
  /\ phase = "down" /\ genesisRoot # EmptyTrie
  /\ phase' = "up"
  /\ currentBlock' = head.number + 1 /\ stateRoot' = head.root
  /\ UNCHANGED <<diskVars, stage, building, crashes>>

(* NewManager.  With a genesis root on disk the tip is taken from the      *)
(* chain database; "latest-root" is absent, and read as zero, until the    *)
(* first block has been written.                                           *)
Restore ==
  /\ phase = "down" /\ genesisRoot # EmptyTrie
  /\ phase' = "up"
  /\ currentBlock' = head.number /\ stateRoot' = head.root
  /\ UNCHANGED <<diskVars, stage, building, crashes>>

CommitGenesis ==
  /\ phase = "down" /\ genesisRoot = EmptyTrie
  /\ tries' = tries \cup {GenesisTrie}
  /\ stateRoot' = GenesisTrie
  /\ phase' = "genesis"
  /\ UNCHANGED <<genesisRoot, records, hashIndex, txIndex, head,
                 currentBlock, stage, building, crashes>>

WriteGenesisRoot ==
  /\ phase = "genesis"
  /\ genesisRoot' = stateRoot
  /\ phase' = "up"
  /\ UNCHANGED <<tries, records, hashIndex, txIndex, head,
                 currentBlock, stateRoot, stage, building, crashes>>

-----------------------------------------------------------------------------
(* produceBlock's reads and ExecuteAndCommitBlock, under m.mu.             *)

Execute(p) ==
  /\ phase = "up" /\ stage = "idle" /\ currentBlock < MaxBlocks
  /\ CanOpen(stateRoot)
  /\ LET n      == currentBlock + 1
         parent == ReadBlockHash(n - 1)
         done   == Executes(stateRoot, p)
         root   == [stateRoot EXCEPT !.txs = @ \o done]
     IN  building' = [number |-> n, parent |-> parent, txs |-> done, root |-> root,
                      hash |-> computeBlockHash(n, root, parent)]
  /\ stage' = "commit"
  /\ UNCHANGED <<diskVars, phase, currentBlock, stateRoot, crashes>>

(* Faulty variant: the trie stays in the node cache.                       *)
CommitStateUnflushed ==
  /\ phase = "up" /\ stage = "commit"
  /\ stage' = "write"
  /\ UNCHANGED <<diskVars, phase, currentBlock, stateRoot, building, crashes>>

CommitState ==
  /\ phase = "up" /\ stage = "commit"
  /\ tries' = tries \cup {building.root}
  /\ stage' = "write"
  /\ UNCHANGED <<genesisRoot, records, hashIndex, txIndex, head,
                 phase, currentBlock, stateRoot, building, crashes>>

(* Faulty variant: the transaction index is left out.                      *)
WriteBlockUnindexed ==
  /\ phase = "up" /\ stage = "write"
  /\ records' = Put(records, BlockKey(building.number), building)
  /\ hashIndex' = Put(hashIndex, building.hash, building.number)
  /\ head' = [number |-> building.number, root |-> building.root]
  /\ stage' = "publish"
  /\ UNCHANGED <<tries, genesisRoot, txIndex, phase, currentBlock, stateRoot,
                 building, crashes>>

(* Record, indices and head are written as one database batch.             *)
WriteBlock ==
  /\ phase = "up" /\ stage = "write"
  /\ records' = Put(records, BlockKey(building.number), building)
  /\ hashIndex' = Put(hashIndex, building.hash, building.number)
  /\ txIndex' = [t \in DOMAIN txIndex \cup Elems(building.txs) |->
                   IF t \in Elems(building.txs) THEN building.number ELSE txIndex[t]]
  /\ head' = [number |-> building.number, root |-> building.root]
  /\ stage' = "publish"
  /\ UNCHANGED <<tries, genesisRoot, phase, currentBlock, stateRoot,
                 building, crashes>>

(* Faulty variant: the tip moves, the state it is executed on does not.    *)
PublishNumberOnly ==
  /\ stage = "publish"
  /\ currentBlock' = building.number
  /\ stage' = "idle" /\ building' = NoBlock
  /\ UNCHANGED <<diskVars, phase, stateRoot, crashes>>

Publish ==
  /\ stage = "publish"
  /\ currentBlock' = building.number /\ stateRoot' = building.root
  /\ stage' = "idle" /\ building' = NoBlock
  /\ UNCHANGED <<diskVars, phase, crashes>>

(* CommitState or WriteBlock returns an error: the block is abandoned, the *)
(* next tick builds another one with the same number.                      *)
Abandon ==
  /\ CanFail \/ phase = "closed"
  /\ stage \in {"commit", "write"}
  /\ stage' = "idle" /\ building' = NoBlock
  /\ UNCHANGED <<diskVars, phase, currentBlock, stateRoot, crashes>>

(* AddBatch: a batch record, overwriting one with the same index, and the  *)
(* latest index, in one database batch; an error is ignored.               *)
AddBatch(b) ==
  /\ phase \in {"up", "closed"}
  /\ \/ /\ phase = "up"
        /\ records' = Put(Put(records, BatchKey(b.index), b), keyLatestBatch, b.index)
     \/ (CanFail \/ phase = "closed") /\ UNCHANGED records
  /\ UNCHANGED <<tries, genesisRoot, hashIndex, txIndex, head, memVars, crashes>>

Crash ==
  /\ phase # "down" /\ crashes < MaxCrashes
  /\ crashes' = crashes + 1
  /\ phase' = "down" /\ currentBlock' = 0 /\ stateRoot' = EmptyTrie
  /\ stage' = "idle" /\ building' = NoBlock
  /\ UNCHANGED diskVars

(* Shutdown: Stop only cancels contexts, nobody waits for the producer or  *)
(* the batcher, and main's deferred Close takes no lock.  From then on the *)
(* database refuses everything.  (A block begun after Close leaves no      *)
(* trace.)  The process ends when main returns.                            *)
Close ==
  /\ phase = "up" /\ crashes < MaxCrashes
  /\ crashes' = crashes + 1
  /\ phase' = "closed"
  /\ UNCHANGED <<diskVars, currentBlock, stateRoot, stage, building>>

Exit ==
  /\ phase = "closed"
  /\ phase' = "down" /\ currentBlock' = 0 /\ stateRoot' = EmptyTrie
  /\ stage' = "idle" /\ building' = NoBlock
  /\ UNCHANGED <<diskVars, crashes>>

Start   == Restore \/ CommitGenesis \/ WriteGenesisRoot
Produce == (\E p \in Payloads : Execute(p)) \/ CommitState \/ WriteBlock \/ Publish

Next ==
  \/ Start \/ Produce \/ Abandon \/ Crash \/ Close \/ Exit
  \/ \E i \in 1 .. MaxBatches : AddBatch([index |-> i])

(* A shutdown ends, the process is restarted after it and after a crash,   *)
(* the producer keeps ticking, and the database does not refuse every      *)
(* write for ever.                                                         *)
Spec == Init /\ [][Next]_vars /\ WF_vars(Start) /\ WF_vars(Produce) /\ WF_vars(Exit)
             /\ SF_vars(CommitState) /\ SF_vars(WriteBlock)

-----------------------------------------------------------------------------
(* Properties.                                                             *)

Trie == [funded : BOOLEAN, txs : Seq(Tx)]
TypeOK ==
  /\ \A r \in tries \cup {genesisRoot, head.root, stateRoot} : r \in Trie
  /\ head.number \in 0 .. MaxBlocks /\ currentBlock \in 0 .. MaxBlocks
  /\ phase \in {"down", "genesis", "up", "closed"}
  /\ stage \in {"idle", "commit", "write", "publish"}
  /\ (stage = "idle") = (building = NoBlock)
  /\ \A t \in DOMAIN txIndex : t \in Tx /\ txIndex[t] \in 1 .. MaxBlocks
  /\ \A h \in DOMAIN hashIndex : hashIndex[h] \in 1 .. MaxBlocks
  /\ crashes \in 0 .. MaxCrashes

(* Every block up to the head is on disk, each executed on the state its   *)
(* predecessor left and naming that predecessor, whatever was abandoned,   *)
(* retried, interrupted or shut down in between (manager.go:249-336,       *)
(* 435).  That it names the predecessor says little: every hash is the     *)
(* zero hash (HashIdentifiesBlock).                                        *)
ChainIntact ==
  \A n \in 1 .. head.number :
    /\ HasBlock(n)
    /\ Block(n).number = n
    /\ Block(n).parent = ReadBlockHash(n - 1)
    /\ Block(n).root.txs = (IF n = 1 THEN << >> ELSE Block(n - 1).root.txs) \o Block(n).txs
    /\ n > 1 => Block(n).root.funded = Block(n - 1).root.funded

(* The trie is flushed before the block that names it is written: every    *)
(* state a block or the memory points to can be opened (manager.go:281,    *)
(* 327), also right after a restart.                                       *)
StatesAvailable ==
  /\ CanOpen(head.root) /\ CanOpen(stateRoot)
  /\ \A n \in 1 .. head.number : CanOpen(Block(n).root)

(* In memory the tip is the head on disk, or the block before it while     *)
(* ExecuteAndCommitBlock is between WriteBlock and its last assignments.   *)
TipAgrees ==
  phase \in {"up", "closed"} =>
    IF stage = "publish"
    THEN /\ head = [number |-> building.number, root |-> building.root]
         /\ currentBlock = head.number - 1
    ELSE /\ currentBlock = head.number
         /\ currentBlock > 0 => stateRoot = head.root

(* The transaction index is exact, and no transaction is in two blocks     *)
(* although the nonces that prevent it live in the tries (chaindb.go:91).  *)
TxIndexExact ==
  \A t \in Tx : LET n == ReadTxBlockNumber(t)
                IN  /\ n <= head.number
                    /\ \A k \in 1 .. head.number : t \in Elems(Block(k).txs) <=> k = n

(* A block record that is part of the chain is never written again, not by *)
(* a retry and not after a restart, with one exception: the record of the  *)
(* batch that is just being added replaces the block whose key it has, a   *)
(* block beyond BatchTag * Radix, 29696 (chaindb.go:20, 25, 83, 232-241).  *)
Replaces(batch, n) == n > BatchTag * Radix /\ BlockKey(n) = BatchKey(batch)
BlocksFinal ==
  [][\A n \in 1 .. head.number :
       /\ BlockKey(n) \in DOMAIN records'
       /\ \/ records'[BlockKey(n)] = Block(n)
          \/ head' = head /\ Replaces(records'[keyLatestBatch], n)]_vars

(* "b + blockNum -> L2Block (JSON)" (chaindb.go:20): what is found under a *)
(* block's key is that block.                                              *)
BlockUnderItsKey ==
  \A n \in 1 .. head.number :
    HasBlock(n) /\ "number" \in DOMAIN Block(n) /\ Block(n).number = n

(* The chain keeps growing after failed writes, crashes and shutdowns.     *)
ChainAdvances ==
  \A n \in 0 .. (MaxBlocks - 1) : (head.number = n) ~> (head.number > n)

(* "It initializes from genesis if no existing state is found", otherwise  *)
(* it restores "from existing database" (manager.go:48, 76): a node that   *)
(* is up works on a state in which the genesis accounts exist.             *)
GenesisFundsPresent == phase = "up" => stateRoot.funded

(* "h + hash -> blockNum" (chaindb.go:21), over "a deterministic block     *)
(* hash from block data" (manager.go:439): asking for the block with a     *)
(* block's hash gives that block.                                          *)
HashIdentifiesBlock ==
  \A n \in 1 .. head.number : ReadBlockByHash(Block(n).hash) = Block(n)
=============================================================================
