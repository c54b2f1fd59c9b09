--------------------------- MODULE Batcher_proofs ---------------------------
(***************************************************************************)
(* What reaches L1 is the chain, for any number of blocks, transactions,   *)
(* frame sizes, crashes and failed calls.  The proof composes the one of   *)
(* the chain (StateManager_proofs) with the batcher's own bookkeeping: the *)
(* chain's invariant Staged and Linked is preserved by every step, the     *)
(* batcher's included, and it never takes a block back; so a frame that    *)
(* was cut out of the chain remains true of it.                            *)
(*                                                                         *)
(* As for the chain, blocks and batch records share the first byte of      *)
(* their keys, and the results are for chains that end before the keys     *)
(* meet (SM!ShortChain).                                                   *)
(***************************************************************************)
EXTENDS Batcher, SequenceTheorems, TLAPS

SM == INSTANCE StateManager_proofs

ChainSound == SM!Staged /\ SM!Linked

IsSeq(s) == s \in Seq({s[i] : i \in DOMAIN s})

(* The frame covers a range of committed blocks and holds just these.      *)
FrameSound(f) ==
  /\ f.start \in Nat \ {0} /\ f.end \in Nat /\ f.start <= f.end /\ f.end <= head.number
  /\ DOMAIN f.blocks = 1 .. (f.end - f.start + 1)
  /\ \A i \in DOMAIN f.blocks : f.blocks[i] = State!Block(f.start + i - 1)

PostedSound == IsSeq(posted) /\ \A k \in DOMAIN posted : FrameSound(posted[k])

(* A process that is not running knows nothing.                            *)
NothingYet == /\ lastBatchBlock = 0 /\ batchIndex = 0 /\ step = "idle"
              /\ session = << >> /\ batched = << >>

(* The process's own progress is behind the chain, and the batch it works  *)
(* on is the next one.                                                     *)
Progress ==
  /\ lastBatchBlock \in Nat /\ lastBatchBlock <= currentBlock
  /\ batchIndex \in Nat /\ step \in {"idle", "send", "record"}
  /\ phase \in {"down", "genesis"} => NothingYet
  /\ step # "idle" => /\ FrameSound(job)
                      /\ DOMAIN job = {"start", "end", "hash", "blocks"}
                      /\ job.start = lastBatchBlock + 1 /\ job.end <= currentBlock

(* The frame posted last, and how the batcher's progress relates to it:    *)
(* what it would post next, or is about to post, follows it.               *)
Latest == IF session = << >> THEN NoFrame ELSE session[Len(session)]
Before(k) == IF k = 1 THEN NoFrame ELSE session[k - 1]

Caught ==
  /\ Latest.end \in Nat
  /\ step = "idle" =>
       Follows(Latest, Sent(batchIndex + 1, lastBatchBlock + 1, currentBlock, FALSE))
  /\ step = "send" => Follows(Latest, Sent(batchIndex + 1, job.start, job.end, FALSE))
  /\ step = "record" => /\ session # << >>
                        /\ Latest = Sent(batchIndex + 1, job.start, job.end, FALSE)

(* What was posted in this session and what was recorded of it.            *)
Chained == \A k \in 1 .. Len(session) : Follows(Before(k), session[k])
Booked ==
  \A i \in 1 .. batchIndex : \E k \in 1 .. Len(session) :
    /\ session[k] = Sent(i, batched[i].start, batched[i].end, FALSE)
    /\ batched[i].index = i

SessionSound ==
  /\ IsSeq(session) /\ IsSeq(batched) /\ Len(batched) = batchIndex
  /\ Chained /\ Caught /\ Booked
  /\ lastBatchBlock = IF batchIndex = 0 THEN 0 ELSE batched[batchIndex].end

IsPosted(first, last) == \E k \in DOMAIN posted : posted[k].start = first /\ posted[k].end = last

(* What a batch record on disk says was posted.                            *)
RecordsSound ==
  /\ step = "record" => IsPosted(job.start, job.end)
  /\ \A i \in Nat \ {0} : State!BatchKey(i) \in DOMAIN records =>
       /\ records[State!BatchKey(i)].index = i
       /\ IsPosted(records[State!BatchKey(i)].start, records[State!BatchKey(i)].end)
  /\ State!keyLatestBatch \in DOMAIN records =>
       /\ records[State!keyLatestBatch] \in Nat \ {0}
       /\ State!BatchKey(records[State!keyLatestBatch]) \in DOMAIN records

IInv == ChainSound /\ PostedSound /\ Progress /\ SessionSound /\ RecordsSound

-----------------------------------------------------------------------------
(* The chain's steps, seen from the batcher.                               *)

(* The assumptions the chain's results rest on are the batcher's.          *)
LEMMA Assumptions == SM!PayloadAssumption /\ SM!KeyAssumption /\ SM!BoundAssumption
  BY StateAssumption

(* The two instances of StateManager are one.                              *)
LEMMA SameOperators ==
  /\ \A n : State!BlockKey(n) = SM!BlockKey(n) /\ State!BatchKey(n) = SM!BatchKey(n)
  /\ State!keyLatestBatch = SM!keyLatestBatch
  /\ \A f, k, v : State!Put(f, k, v) = SM!Put(f, k, v)
  BY DEF State!BlockKey, SM!BlockKey, State!BatchKey, SM!BatchKey, State!Digits, SM!Digits,
         State!keyLatestBatch, SM!keyLatestBatch, State!Put, SM!Put

(* The chain the batcher runs on is the one the theorems of                *)
(* StateManager_proofs are about, action by action.                        *)
LEMMA SameInit == State!Init => SM!Init
  BY DEF State!Init, SM!Init, State!EmptyTrie, SM!EmptyTrie, State!NoBlock, SM!NoBlock

(* Start of the node.                                                      *)
LEMMA SameStart == State!Start => SM!Start
  BY DEF State!Start, SM!Start, State!Restore, SM!Restore, State!CommitGenesis, SM!CommitGenesis,
         State!WriteGenesisRoot, SM!WriteGenesisRoot, State!diskVars, SM!diskVars,
         State!EmptyTrie, SM!EmptyTrie, State!GenesisTrie, SM!GenesisTrie

(* Producing a block.                                                      *)
LEMMA SameProduce == State!Produce => SM!Produce
<1>1. ASSUME NEW p \in Payloads, State!Execute(p) PROVE SM!Execute(p)
  BY <1>1 DEF State!Execute, SM!Execute, State!CanOpen, SM!CanOpen, State!EmptyTrie, SM!EmptyTrie,
              State!ReadBlockHash, SM!ReadBlockHash, State!HasBlock, SM!HasBlock,
              State!Block, SM!Block, State!BlockKey, SM!BlockKey, State!Digits, SM!Digits,
              State!ZeroHash, SM!ZeroHash, State!Executes, SM!Executes, State!Elems, SM!Elems,
              State!computeBlockHash, SM!computeBlockHash, State!BytesToHash, SM!BytesToHash,
              State!diskVars, SM!diskVars
<1>2. State!CommitState => SM!CommitState
  BY DEF State!CommitState, SM!CommitState
<1>3. State!WriteBlock => SM!WriteBlock
  BY DEF State!WriteBlock, SM!WriteBlock, State!Put, SM!Put, State!BlockKey, SM!BlockKey,
         State!Digits, SM!Digits, State!Elems, SM!Elems
<1>4. State!Publish => SM!Publish
  BY DEF State!Publish, SM!Publish, State!NoBlock, SM!NoBlock, State!diskVars, SM!diskVars
<1>5. QED
  BY <1>1, <1>2, <1>3, <1>4 DEF State!Produce, SM!Produce

(* Giving up a block, and the ways the process ends.                       *)
LEMMA SameStop == /\ State!Abandon => SM!Abandon
                  /\ State!Crash => SM!Crash
                  /\ State!Close => SM!Close
                  /\ State!Exit => SM!Exit
  BY DEF State!Abandon, SM!Abandon, State!Crash, SM!Crash, State!Close, SM!Close,
         State!Exit, SM!Exit, State!NoBlock, SM!NoBlock, State!diskVars, SM!diskVars,
         State!EmptyTrie, SM!EmptyTrie

(* Recording a batch.                                                      *)
LEMMA SameAddBatch ==
  ASSUME NEW b, State!AddBatch(b)
  PROVE  SM!AddBatch(b)
  BY DEF State!AddBatch, SM!AddBatch, State!Put, SM!Put, State!BatchKey, SM!BatchKey,
         State!Digits, SM!Digits, State!keyLatestBatch, SM!keyLatestBatch,
         State!memVars, SM!memVars


StateStep == State!Start \/ State!Produce \/ State!Abandon \/ State!Crash \/ State!Close \/ State!Exit

(* The chain's invariant survives the chain's steps, which write no block  *)
(* of the chain again.                                                     *)
LEMMA StateStepSound ==
  ASSUME SM!ShortChain, ChainSound, StateStep
  PROVE  ChainSound' /\ SM!Kept
<1>1. SM!Next
  BY SameStart, SameProduce, SameStop DEF StateStep, SM!Next
<1>2. [SM!Next]_(SM!vars)
  BY <1>1
<1>3. SM!Staged'
  BY <1>2, Assumptions, SM!NextStaged DEF ChainSound
<1>4. SM!Linked' /\ SM!Kept
  BY <1>2, Assumptions, SM!NextLinked, SM!NextKeeps DEF ChainSound
<1>5. QED
  BY <1>3, <1>4 DEF ChainSound

(* Block numbers, and that memory is never ahead of the disk.              *)
LEMMA Numbers ==
  ASSUME ChainSound
  PROVE  head.number \in Nat /\ currentBlock \in Nat /\ currentBlock <= head.number
<1>1. SM!TypeOK /\ SM!Memory /\ SM!TipAgrees
  BY DEF ChainSound, SM!Staged
<1>2. head.number \in Nat /\ currentBlock \in Nat
  BY <1>1, Assumptions DEF SM!TypeOK
<1>3. phase \in {"down", "genesis"} => currentBlock = 0
  BY <1>1 DEF SM!Memory
<1>4. phase \in {"up", "closed"} => currentBlock = head.number \/ currentBlock = head.number - 1
  BY <1>1 DEF SM!TipAgrees
<1>5. phase \in {"down", "genesis", "up", "closed"}
  BY <1>1 DEF SM!TypeOK
<1>6. QED
  BY <1>2, <1>3, <1>4, <1>5

(* The chain grows.                                                        *)
LEMMA StateStepGrows ==
  ASSUME ChainSound, StateStep
  PROVE  head'.number >= head.number
<1>1. head.number \in Nat
  BY Numbers
<1>2. CASE SM!WriteBlock
  <2>1. phase = "up" /\ stage = "write" /\ head'.number = building.number
    BY <1>2 DEF SM!WriteBlock
  <2>2. phase \in {"up", "closed"} /\ stage \in {"commit", "write"}
    BY <2>1
  <2>3. building.number = head.number + 1
    BY <2>2, Assumptions, SM!BuildsOnHead DEF ChainSound
  <2>4. QED
    BY <1>1, <2>1, <2>3
<1>3. CASE head' = head
  BY <1>1, <1>3
<1>4. SM!WriteBlock \/ head' = head
  BY SameStart, SameProduce, SameStop
     DEF StateStep, SM!Start, SM!Produce, SM!Restore, SM!CommitGenesis, SM!WriteGenesisRoot,
         SM!Execute, SM!CommitState, SM!Publish, SM!Abandon, SM!Crash, SM!Close, SM!Exit,
         SM!diskVars
<1>5. QED
  BY <1>2, <1>3, <1>4

(* While the process lives its tip grows, too.                             *)
LEMMA TipGrows ==
  ASSUME ChainSound, State!Start \/ State!Produce \/ State!Abandon \/ State!Close
  PROVE  /\ currentBlock' >= currentBlock
         /\ phase' \in {"down", "genesis"} => phase \in {"down", "genesis"}
<1>1. currentBlock \in Nat /\ head.number \in Nat
  BY Numbers
<1>2. SM!TypeOK /\ SM!Memory /\ SM!BuildingSound
  BY DEF ChainSound, SM!Staged
<1>3. CASE SM!Start
  <2>1. phase \in {"down", "genesis"} /\ (currentBlock' = head.number \/ currentBlock' = currentBlock)
    BY <1>3 DEF SM!Start, SM!Restore, SM!CommitGenesis, SM!WriteGenesisRoot
  <2>2. currentBlock = 0
    BY <1>2, <2>1 DEF SM!Memory
  <2>3. QED
    BY <1>1, <2>1, <2>2
<1>4. CASE SM!Publish
  <2>1. stage # "idle" /\ currentBlock' = building.number /\ phase' = phase
    BY <1>4 DEF SM!Publish
  <2>2. building.number = currentBlock + 1
    BY <1>2, <2>1, Zenon DEF SM!BuildingSound
  <2>3. QED
    BY <1>1, <2>1, <2>2
<1>5. CASE currentBlock' = currentBlock /\ (phase' = phase \/ phase' = "closed")
  BY <1>1, <1>5
<1>6. \/ SM!Start \/ SM!Publish
      \/ currentBlock' = currentBlock /\ (phase' = phase \/ phase' = "closed")
  BY SameStart, SameProduce, SameStop
     DEF SM!Produce, SM!Execute, SM!CommitState, SM!WriteBlock, SM!Abandon, SM!Close
<1>7. QED
  BY <1>3, <1>4, <1>5, <1>6

(* Frames cut out of the chain stay true of it.                            *)
LEMMA FramesKept ==
  ASSUME ChainSound, SM!Kept, head'.number \in Nat, head'.number >= head.number,
         NEW CONSTANT f, FrameSound(f)
  PROVE  FrameSound(f)'
<1>1. head.number \in Nat
  BY Numbers
<1>2. \A n \in 1 .. head.number : State!Block(n)' = State!Block(n)
  <2>1. \A n \in 1 .. head.number : SM!Block(n)' = SM!Block(n)
    BY Assumptions, SM!KeptBlocks DEF ChainSound
  <2>2. QED
    BY <2>1, SameOperators DEF State!Block, SM!Block
<1>3. ASSUME NEW i \in DOMAIN f.blocks PROVE f.blocks[i] = State!Block(f.start + i - 1)'
  <2>1. f.start + i - 1 \in 1 .. head.number
    BY <1>1 DEF FrameSound
  <2>2. f.blocks[i] = State!Block(f.start + i - 1)
    BY DEF FrameSound
  <2> HIDE DEF State!Block
  <2>3. QED
    BY <1>2, <2>1, <2>2
<1>4. QED
  BY <1>1, <1>3 DEF FrameSound

(* The records of batches are out of the producer's reach.                 *)
LEMMA BatchRecordsKept ==
  ASSUME SM!ShortChain, ChainSound, StateStep
  PROVE  /\ \A i \in Nat \ {0} :
              /\ State!BatchKey(i) \in DOMAIN records' <=> State!BatchKey(i) \in DOMAIN records
              /\ State!BatchKey(i) \in DOMAIN records =>
                   records'[State!BatchKey(i)] = records[State!BatchKey(i)]
         /\ State!keyLatestBatch \in DOMAIN records' <=> State!keyLatestBatch \in DOMAIN records
         /\ State!keyLatestBatch \in DOMAIN records =>
              records'[State!keyLatestBatch] = records[State!keyLatestBatch]
<1>1. CASE records' = records
  BY <1>1
<1>2. CASE SM!WriteBlock
  <2>1. /\ stage # "idle"
        /\ records' = SM!Put(records, SM!BlockKey(building.number), building)
    BY <1>2 DEF SM!WriteBlock
  <2>2. building.number \in 0 .. (BatchTag * Radix) /\ building.number \in Nat
    <3>1. building.number = currentBlock + 1 /\ building.number <= MaxBlocks
      BY <2>1, Zenon DEF ChainSound, SM!Staged, SM!BuildingSound
    <3>2. currentBlock \in Nat
      BY Numbers
    <3>3. MaxBlocks \in Nat /\ Radix \in Nat /\ BatchTag \in Nat
      BY Assumptions
    <3>4. BatchTag * Radix \in Nat
      BY <3>3
    <3>5. MaxBlocks <= BatchTag * Radix
      BY DEF SM!ShortChain
    <3>6. QED
      BY <3>1, <3>2, <3>3, <3>4, <3>5
  <2>3. \A i \in Nat \ {0} : SM!BlockKey(building.number) # State!BatchKey(i)
    BY <2>2, Assumptions, SM!KeysApart, SameOperators
  <2>4. SM!BlockKey(building.number) # State!keyLatestBatch
    BY <2>2, Assumptions, SM!LatestKeyApart, SameOperators
  <2> HIDE DEF State!BatchKey, State!keyLatestBatch, SM!BlockKey
  <2>5. QED
    BY <2>1, <2>3, <2>4 DEF SM!Put
<1>3. SM!WriteBlock \/ records' = records
  BY SameStart, SameProduce, SameStop
     DEF StateStep, SM!Start, SM!Produce, SM!Restore, SM!CommitGenesis, SM!WriteGenesisRoot,
         SM!Execute, SM!CommitState, SM!Publish, SM!Abandon, SM!Crash, SM!Close, SM!Exit,
         SM!diskVars
<1>4. QED
  BY <1>1, <1>2, <1>3


-----------------------------------------------------------------------------
(* Sequences of frames.                                                    *)

(* Appending to a sequence of whatever elements.                           *)
LEMMA Appended ==
  ASSUME NEW s, NEW e, IsSeq(s)
  PROVE  /\ IsSeq(Append(s, e)) /\ Len(s) \in Nat /\ DOMAIN s = 1 .. Len(s)
         /\ Len(Append(s, e)) = Len(s) + 1 /\ DOMAIN Append(s, e) = 1 .. (Len(s) + 1)
         /\ \A k \in 1 .. Len(s) : Append(s, e)[k] = s[k]
         /\ Append(s, e)[Len(s) + 1] = e
<1> DEFINE S == {s[i] : i \in DOMAIN s}
           T == S \cup {e}
           r == Append(s, e)
<1>1. s \in Seq(T) /\ e \in T
  <2>1. s \in Seq(S) /\ S \subseteq T
    BY DEF IsSeq
  <2>2. QED
    BY <2>1, SeqMonotonic
<1> HIDE DEF S, T
<1>2. /\ r \in Seq(T) /\ Len(s) \in Nat /\ DOMAIN s = 1 .. Len(s) /\ Len(r) = Len(s) + 1
      /\ \A k \in 1 .. Len(s) : r[k] = s[k]
      /\ r[Len(s) + 1] = e
  BY <1>1, AppendProperties, LenProperties
<1>3. DOMAIN r = 1 .. Len(r)
  BY <1>2, LenProperties
<1> HIDE DEF r
<1>4. r \in Seq({r[i] : i \in DOMAIN r})
  <2> DEFINE R == {r[i] : i \in DOMAIN r}
  <2>1. \A i \in 1 .. Len(r) : r[i] \in R
    BY <1>3
  <2>2. r = [i \in 1 .. Len(r) |-> r[i]] /\ Len(r) \in Nat
    BY <1>2, <1>3
  <2> HIDE DEF R
  <2>3. r \in Seq(R)
    BY <2>1, <2>2, IsASeq
  <2>4. QED
    BY <2>3 DEF R
<1>5. QED
  BY <1>2, <1>3, <1>4 DEF IsSeq, r

(* A frame that reaches further follows, too.                              *)
LEMMA LaterTipFollows ==
  ASSUME NEW f, NEW i, NEW p, NEW m \in Nat, NEW n \in Nat, m <= n, f.end \in Nat \/ ~f.lost,
         Follows(f, Sent(i, p, m, FALSE))
  PROVE  Follows(f, Sent(i, p, n, FALSE))
  BY DEF Follows, Sent

(* The empty sequence of frames.                                           *)
LEMMA EmptyIsSeq == IsSeq(<< >>) /\ Len(<< >>) = 0 /\ DOMAIN << >> = {}
<1>1. << >> \in Seq({<< >>[i] : i \in DOMAIN << >>})
  BY EmptySeq
<1>2. QED
  BY <1>1, EmptySeq DEF IsSeq

-----------------------------------------------------------------------------
(* Preservation of the invariant, action by action.                        *)

(* The chain grows, is closed, or fails to grow.                           *)
LEMMA ChainKeeps ==
  ASSUME SM!ShortChain, IInv, Chain \/ Close
  PROVE  IInv'
<1>1. /\ StateStep /\ UNCHANGED <<batchVars, l1Vars>>
      /\ State!Start \/ State!Produce \/ State!Abandon \/ State!Close
  BY DEF Chain, Close, StateStep
<1>2. ChainSound /\ ChainSound' /\ SM!Kept
  BY <1>1, StateStepSound DEF IInv
<1>3. /\ head.number \in Nat /\ currentBlock \in Nat /\ head'.number >= head.number
      /\ currentBlock' >= currentBlock
      /\ phase' \in {"down", "genesis"} => phase \in {"down", "genesis"}
  BY <1>1, <1>2, Numbers, StateStepGrows, TipGrows
<1>4. head'.number \in Nat /\ currentBlock' \in Nat
  <2>1. SM!TypeOK'
    BY <1>2 DEF ChainSound, SM!Staged
  <2>2. QED
    BY <2>1, Assumptions DEF SM!TypeOK
<1>5. \A f : FrameSound(f) => FrameSound(f)'
  BY <1>2, <1>3, <1>4, FramesKept
<1> HIDE DEF FrameSound
<1>6. PostedSound'
  BY <1>1, <1>5 DEF IInv, PostedSound, l1Vars
<1>7. Progress'
  <2>1. step # "idle" => FrameSound(job)'
    BY <1>1, <1>5 DEF IInv, Progress, batchVars
  <2>2. lastBatchBlock <= currentBlock' /\ (step # "idle" => job.end <= currentBlock')
    BY <1>3, <1>4 DEF IInv, Progress, FrameSound
  <2>3. QED
    BY <1>1, <1>3, <2>1, <2>2 DEF IInv, Progress, NothingYet, batchVars, l1Vars
<1>8. SessionSound'
  <2>1. UNCHANGED <<session, batched, batchIndex, lastBatchBlock, step, job>>
    BY <1>1 DEF batchVars, l1Vars
  <2>2. Latest' = Latest /\ \A k : Before(k)' = Before(k)
    BY <2>1 DEF Latest, Before
  <2> HIDE DEF Latest, Before
  <2>3. Follows(Latest, Sent(batchIndex + 1, lastBatchBlock + 1, currentBlock, FALSE))
          => Follows(Latest, Sent(batchIndex + 1, lastBatchBlock + 1, currentBlock', FALSE))
    BY <1>3, <1>4, LaterTipFollows DEF IInv, SessionSound, Caught
  <2>4. Caught'
    BY <2>1, <2>2, <2>3 DEF IInv, SessionSound, Caught
  <2>5. Chained' /\ Booked'
    BY <2>1, <2>2 DEF IInv, SessionSound, Chained, Booked
  <2>6. QED
    BY <2>1, <2>4, <2>5 DEF IInv, SessionSound
<1>9. RecordsSound'
  <2>1. posted' = posted /\ step' = step /\ job' = job
    BY <1>1 DEF batchVars, l1Vars
  <2>2. \A a, b : IsPosted(a, b)' <=> IsPosted(a, b)
    BY <2>1 DEF IsPosted
  <2> HIDE DEF IsPosted
  <2>3. QED
    BY <1>1, <1>2, <2>1, <2>2, BatchRecordsKept DEF IInv, RecordsSound
<1>10. QED
  BY <1>2, <1>6, <1>7, <1>8, <1>9 DEF IInv

(* The process ends; what is on L1 and on disk remains.                    *)
LEMMA StopKeeps ==
  ASSUME SM!ShortChain, IInv, Crash \/ Exit
  PROVE  IInv'
<1>1. /\ StateStep /\ FreshMemory /\ posted' = posted
      /\ State!Crash \/ State!Exit
  BY DEF Crash, Exit, StateStep
<1>2. ChainSound /\ ChainSound' /\ SM!Kept
  BY <1>1, StateStepSound DEF IInv
<1>3. head.number \in Nat /\ head'.number >= head.number /\ head'.number \in Nat
  <2>1. SM!TypeOK'
    BY <1>2 DEF ChainSound, SM!Staged
  <2>2. head'.number \in Nat
    BY <2>1, Assumptions DEF SM!TypeOK
  <2>3. QED
    BY <1>1, <1>2, <2>2, Numbers, StateStepGrows
<1>4. \A f : FrameSound(f) => FrameSound(f)'
  BY <1>2, <1>3, FramesKept
<1> HIDE DEF FrameSound
<1>5. PostedSound'
  BY <1>1, <1>4 DEF IInv, PostedSound
<1>6. currentBlock' = 0 /\ phase' = "down"
  BY <1>1 DEF State!Crash, State!Exit
<1>7. Progress'
  BY <1>1, <1>6 DEF FreshMemory, Progress, NothingYet
<1>8. SessionSound'
  <2>1. /\ session' = << >> /\ batched' = << >> /\ batchIndex' = 0 /\ lastBatchBlock' = 0
        /\ step' = "idle"
    BY <1>1 DEF FreshMemory
  <2>2. Latest' = NoFrame /\ Caught'
    BY <2>1 DEF Latest, Caught, Follows, NoFrame, Sent
  <2>3. Chained' /\ Booked'
    BY <2>1, EmptyIsSeq DEF Chained, Booked
  <2>4. QED
    BY <2>1, <2>2, <2>3, EmptyIsSeq DEF SessionSound
<1>9. RecordsSound'
  <2>1. posted' = posted /\ step' = "idle"
    BY <1>1 DEF FreshMemory
  <2>2. \A a, b : IsPosted(a, b)' <=> IsPosted(a, b)
    BY <2>1 DEF IsPosted
  <2> HIDE DEF IsPosted
  <2>3. QED
    BY <1>1, <1>2, <2>1, <2>2, BatchRecordsKept DEF IInv, RecordsSound
<1>10. QED
  BY <1>2, <1>5, <1>7, <1>8, <1>9 DEF IInv

(* Steps of the batcher that do not touch the chain.                       *)
LEMMA ChainUntouched ==
  ASSUME ChainSound, UNCHANGED stateVars
  PROVE  /\ ChainSound' /\ \A f : FrameSound(f)' <=> FrameSound(f)
         /\ UNCHANGED <<records, head, currentBlock, phase>>
<1>1. UNCHANGED SM!vars
  BY DEF stateVars, SM!vars, SM!diskVars, SM!memVars
<1>2. SM!Staged'
  BY <1>1, Assumptions, SM!NextStaged DEF ChainSound
<1>3. SM!Linked'
  <2>1. UNCHANGED <<records, txIndex, head, tries, stage, building, stateRoot>>
    BY DEF stateVars
  <2>2. QED
    BY <2>1 DEF ChainSound, SM!Linked, SM!ChainIntact, SM!StatesAvailable, SM!TxIndexExact,
                SM!HasBlock, SM!Block, SM!ReadBlockHash, SM!CanOpen, SM!ReadTxBlockNumber
<1>4. \A n : State!Block(n)' = State!Block(n)
  BY DEF stateVars, State!Block
<1> HIDE DEF State!Block
<1>5. \A f : FrameSound(f)' <=> FrameSound(f)
  BY <1>4 DEF stateVars, FrameSound
<1>6. QED
  BY <1>2, <1>3, <1>5 DEF ChainSound, stateVars

(* The blocks since the last batch are collected (batcher.go:160-184).     *)
LEMMA CollectKeeps ==
  ASSUME IInv, Collect
  PROVE  IInv'
<1>1. /\ phase = "up" /\ step = "idle" /\ step' = "send" /\ currentBlock > lastBatchBlock
      /\ job' = Frame(lastBatchBlock + 1, currentBlock)
      /\ UNCHANGED <<stateVars, lastBatchBlock, batchIndex, pendingBatches, batched, l1Vars>>
  BY DEF Collect
<1>2. /\ ChainSound' /\ \A f : FrameSound(f)' <=> FrameSound(f)
      /\ UNCHANGED <<records, head, currentBlock, phase>>
  BY <1>1, ChainUntouched DEF IInv
<1>3. /\ head.number \in Nat /\ currentBlock \in Nat /\ currentBlock <= head.number
      /\ lastBatchBlock \in Nat
  BY Numbers DEF IInv, Progress
<1>4. /\ FrameSound(job') /\ job'.start = lastBatchBlock + 1 /\ job'.end = currentBlock
      /\ DOMAIN job' = {"start", "end", "hash", "blocks"}
  <2> HIDE DEF State!Block
  <2>1. QED
    BY <1>1, <1>3 DEF Frame, FrameSound
<1> HIDE DEF FrameSound
<1>5. PostedSound'
  BY <1>1, <1>2 DEF IInv, PostedSound, l1Vars
<1>6. Progress'
  BY <1>1, <1>2, <1>3, <1>4 DEF IInv, Progress
<1>7. SessionSound'
  <2>1. /\ UNCHANGED <<session, batched, batchIndex, lastBatchBlock>> /\ step' = "send"
        /\ Sent(batchIndex + 1, job'.start, job'.end, FALSE)
             = Sent(batchIndex + 1, lastBatchBlock + 1, currentBlock, FALSE)
    BY <1>1, <1>4 DEF l1Vars
  <2>2. Latest' = Latest /\ \A k : Before(k)' = Before(k)
    BY <2>1 DEF Latest, Before
  <2> HIDE DEF Latest, Before
  <2>3. Caught'
    BY <1>1, <2>1, <2>2 DEF IInv, SessionSound, Caught
  <2>4. Chained' /\ Booked'
    BY <2>1, <2>2 DEF IInv, SessionSound, Chained, Booked
  <2>5. QED
    BY <2>1, <2>3, <2>4 DEF IInv, SessionSound
<1>8. RecordsSound'
  <2>1. posted' = posted
    BY <1>1 DEF l1Vars
  <2>2. \A a, b : IsPosted(a, b)' <=> IsPosted(a, b)
    BY <2>1 DEF IsPosted
  <2> HIDE DEF IsPosted
  <2>3. QED
    BY <1>1, <1>2, <2>2 DEF IInv, RecordsSound
<1>9. QED
  BY <1>2, <1>5, <1>6, <1>7, <1>8 DEF IInv


(* A frame reaches L1 (batcher.go:206-231): what that does to the session. *)
LEMMA SessionGrows ==
  ASSUME IInv, step = "send", NEW lost \in BOOLEAN,
         session' = Append(session, Sent(batchIndex + 1, job.start, job.end, lost)),
         UNCHANGED <<batchIndex, lastBatchBlock, batched>>
  PROVE  /\ IsSeq(session') /\ session' # << >> /\ Chained' /\ Booked'
         /\ Latest' = Sent(batchIndex + 1, job.start, job.end, lost)
<1> DEFINE e == Sent(batchIndex + 1, job.start, job.end, lost)
<1>1. /\ IsSeq(session) /\ Chained /\ Booked
      /\ Follows(Latest, Sent(batchIndex + 1, job.start, job.end, FALSE))
  BY DEF IInv, SessionSound, Caught
<1>2. Follows(Latest, e)
  BY <1>1 DEF Follows, Sent
<1> HIDE DEF e
<1>3. /\ IsSeq(session') /\ Len(session) \in Nat /\ Len(session') = Len(session) + 1
      /\ \A k \in 1 .. Len(session) : session'[k] = session[k]
      /\ session'[Len(session) + 1] = e
  BY <1>1, Appended DEF e
<1>4. session = << >> <=> Len(session) = 0
  <2>1. session = << >> => Len(session) = 0
    BY EmptyIsSeq
  <2>2. Len(session) = 0 => session = << >>
    BY <1>1, EmptySeq DEF IsSeq
  <2>3. QED
    BY <2>1, <2>2
<1>5. session' # << >>
  BY <1>3, EmptyIsSeq
<1>6. Latest' = e
  BY <1>3, <1>5 DEF Latest
<1>7. ASSUME NEW k \in 1 .. (Len(session) + 1) PROVE Follows(Before(k)', session'[k])
  <2>1. CASE k \in 1 .. Len(session)
    <3>1. k # 1 => k - 1 \in 1 .. Len(session)
      BY <1>3, <2>1
    <3>2. Before(k)' = Before(k)
      BY <1>3, <3>1 DEF Before
    <3>3. QED
      BY <1>1, <1>3, <2>1, <3>2 DEF Chained
  <2>2. CASE k = Len(session) + 1
    <3>1. CASE Len(session) = 0
      BY <1>2, <1>3, <1>4, <2>2, <3>1 DEF Before, Latest
    <3>2. CASE Len(session) # 0
      <4>1. k # 1 /\ k - 1 = Len(session) /\ Len(session) \in 1 .. Len(session)
        BY <1>3, <2>2, <3>2
      <4>2. Before(k)' = Latest
        BY <1>3, <1>4, <3>2, <4>1 DEF Before, Latest
      <4>3. QED
        BY <1>2, <1>3, <2>2, <4>2
    <3>3. QED
      BY <3>1, <3>2
  <2>3. QED
    BY <1>3, <2>1, <2>2
<1>8. Chained'
  BY <1>3, <1>7 DEF Chained
<1>9. Booked'
  <2>1. 1 .. Len(session) \subseteq 1 .. Len(session')
    BY <1>3
  <2>2. QED
    BY <1>1, <1>3, <2>1 DEF Booked
<1>10. QED
  BY <1>3, <1>5, <1>6, <1>8, <1>9 DEF e

(* The same, for what is on L1.                                            *)
LEMMA PostKeeps ==
  ASSUME IInv, NEW frame, NEW lost \in BOOLEAN, Post(frame, lost),
         frame.start = job.start, frame.end = job.end, frame.blocks = job.blocks
  PROVE  /\ ChainSound' /\ \A f : FrameSound(f)' <=> FrameSound(f)
         /\ UNCHANGED <<records, head, currentBlock, phase>>
         /\ PostedSound'
         /\ \A a, b : IsPosted(a, b) => IsPosted(a, b)'
         /\ \E k \in DOMAIN posted' : posted'[k].start = job.start /\ posted'[k].end = job.end
<1>1. /\ step = "send" /\ posted' = Append(posted, frame)
      /\ UNCHANGED <<stateVars, lastBatchBlock, batchIndex, pendingBatches, batched>>
  BY DEF Post
<1>2. /\ ChainSound' /\ \A f : FrameSound(f)' <=> FrameSound(f)
      /\ UNCHANGED <<records, head, currentBlock, phase>>
  BY <1>1, ChainUntouched DEF IInv
<1>3. FrameSound(frame)
  BY <1>1 DEF IInv, Progress, FrameSound
<1> HIDE DEF FrameSound
<1>4. /\ IsSeq(posted') /\ DOMAIN posted = 1 .. Len(posted) /\ Len(posted) \in Nat
      /\ DOMAIN posted' = 1 .. (Len(posted) + 1)
      /\ \A k \in 1 .. Len(posted) : posted'[k] = posted[k]
      /\ posted'[Len(posted) + 1] = frame
  BY <1>1, Appended DEF IInv, PostedSound
<1>5. PostedSound'
  <2>1. \A k \in DOMAIN posted' : k \in DOMAIN posted \/ k = Len(posted) + 1
    BY <1>4
  <2>2. \A k \in DOMAIN posted : FrameSound(posted[k])
    BY DEF IInv, PostedSound
  <2>3. \A k \in DOMAIN posted' : FrameSound(posted'[k])
    BY <1>3, <1>4, <2>1, <2>2
  <2>4. QED
    BY <1>2, <1>4, <2>3 DEF PostedSound
<1>6. \A a, b : IsPosted(a, b) => IsPosted(a, b)'
  BY <1>4 DEF IsPosted
<1>7. Len(posted) + 1 \in DOMAIN posted' /\ posted'[Len(posted) + 1] = frame
  BY <1>4
<1>8. QED
  BY <1>2, <1>5, <1>6, <1>7

(* A frame is sent and answered (batcher.go:206-231).                      *)
LEMMA SendKeeps ==
  ASSUME IInv, NEW size \in Sizes, Send(size)
  PROVE  IInv'
<1> DEFINE frame == [job EXCEPT !.hash = l1Block + 2 + size]
<1>1. /\ Post(frame, FALSE) /\ step = "send" /\ step' = "record" /\ job' = frame
      /\ session' = Append(session, Sent(batchIndex + 1, job.start, job.end, FALSE))
      /\ UNCHANGED <<lastBatchBlock, batchIndex, batched>>
  BY DEF Send, Post
<1>2. /\ FrameSound(job) /\ DOMAIN job = {"start", "end", "hash", "blocks"}
      /\ job.start = lastBatchBlock + 1 /\ job.end <= currentBlock
      /\ batchIndex \in Nat /\ lastBatchBlock \in Nat
  BY <1>1 DEF IInv, Progress
<1>3. /\ frame.start = job.start /\ frame.end = job.end /\ frame.blocks = job.blocks
      /\ DOMAIN frame = {"start", "end", "hash", "blocks"}
  BY <1>2
<1> HIDE DEF frame
<1>4. FrameSound(frame)
  BY <1>2, <1>3 DEF FrameSound
<1> HIDE DEF FrameSound
<1>5. /\ ChainSound' /\ \A f : FrameSound(f)' <=> FrameSound(f)
      /\ UNCHANGED <<records, head, currentBlock, phase>>
      /\ PostedSound'
      /\ \A a, b : IsPosted(a, b) => IsPosted(a, b)'
      /\ \E k \in DOMAIN posted' : posted'[k].start = job.start /\ posted'[k].end = job.end
  BY <1>1, <1>3, PostKeeps
<1>6. Progress'
  BY <1>1, <1>2, <1>3, <1>4, <1>5 DEF IInv, Progress, NothingYet
<1>7. SessionSound'
  <2>1. /\ IsSeq(session') /\ session' # << >> /\ Chained' /\ Booked'
        /\ Latest' = Sent(batchIndex + 1, job.start, job.end, FALSE)
    BY <1>1, SessionGrows
  <2>2. Latest'.end \in Nat
    BY <1>2, <2>1 DEF Sent, FrameSound
  <2> HIDE DEF Latest
  <2>3. Caught'
    BY <1>1, <1>3, <2>1, <2>2 DEF Caught
  <2>4. QED
    BY <1>1, <2>1, <2>3 DEF IInv, SessionSound
<1>8. RecordsSound'
  <2>1. IsPosted(job.start, job.end)'
    BY <1>1, <1>3, <1>5 DEF IsPosted
  <2> HIDE DEF IsPosted
  <2>2. QED
    BY <1>5, <2>1 DEF IInv, RecordsSound
<1>9. QED
  BY <1>5, <1>6, <1>7, <1>8 DEF IInv

(* A frame is sent and the answer lost: the batcher is where it was before *)
(* it collected the frame (batcher.go:231-235).                            *)
LEMMA SendLostKeeps ==
  ASSUME IInv, SendLost
  PROVE  IInv'
<1>1. /\ Post(job, TRUE) /\ step = "send" /\ step' = "idle"
      /\ session' = Append(session, Sent(batchIndex + 1, job.start, job.end, TRUE))
      /\ UNCHANGED <<lastBatchBlock, batchIndex, batched>>
  BY DEF SendLost, Post
<1>2. /\ FrameSound(job) /\ job.start = lastBatchBlock + 1 /\ job.end <= currentBlock
      /\ batchIndex \in Nat /\ lastBatchBlock \in Nat /\ lastBatchBlock <= currentBlock
  BY <1>1 DEF IInv, Progress
<1>3. job.end \in Nat
  BY <1>2 DEF FrameSound
<1> HIDE DEF FrameSound
<1>4. /\ ChainSound' /\ \A f : FrameSound(f)' <=> FrameSound(f)
      /\ UNCHANGED <<records, head, currentBlock, phase>>
      /\ PostedSound'
      /\ \A a, b : IsPosted(a, b) => IsPosted(a, b)'
  BY <1>1, PostKeeps
<1>5. Progress'
  BY <1>1, <1>2, <1>4 DEF IInv, Progress, NothingYet
<1>6. SessionSound'
  <2>1. /\ IsSeq(session') /\ Chained' /\ Booked'
        /\ Latest' = Sent(batchIndex + 1, job.start, job.end, TRUE)
    BY <1>1, SessionGrows
  <2> HIDE DEF Latest
  <2>2. Latest'.end \in Nat
    BY <1>3, <2>1 DEF Sent
  <2>3. Follows(Latest', Sent(batchIndex + 1, lastBatchBlock + 1, currentBlock, FALSE))
    BY <1>2, <2>1 DEF Follows, Sent
  <2>4. Caught'
    BY <1>1, <1>4, <2>2, <2>3 DEF Caught
  <2>5. QED
    BY <1>1, <2>1, <2>4 DEF IInv, SessionSound
<1>7. RecordsSound'
  <2> HIDE DEF IsPosted
  <2>1. QED
    BY <1>1, <1>4 DEF IInv, RecordsSound
<1>8. QED
  BY <1>4, <1>5, <1>6, <1>7 DEF IInv

(* A call to L1 fails, or a batch turns out to be confirmed                *)
(* (batcher.go:207-222, 271-290).                                          *)
LEMMA IdleKeeps ==
  ASSUME IInv, SendFails \/ CheckConfirmations
  PROVE  IInv'
<1>1. /\ step' = "idle" /\ step # "record"
      /\ UNCHANGED <<stateVars, lastBatchBlock, batchIndex, batched, l1Vars>>
  BY DEF SendFails, CheckConfirmations
<1>2. /\ ChainSound' /\ \A f : FrameSound(f)' <=> FrameSound(f)
      /\ UNCHANGED <<records, head, currentBlock, phase>>
  BY <1>1, ChainUntouched DEF IInv
<1> HIDE DEF FrameSound
<1>3. PostedSound'
  BY <1>1, <1>2 DEF IInv, PostedSound, l1Vars
<1>4. Progress'
  BY <1>1, <1>2 DEF IInv, Progress, NothingYet, l1Vars
<1>5. SessionSound'
  <2>1. /\ UNCHANGED <<session, batched, batchIndex, lastBatchBlock, currentBlock>>
        /\ step' = "idle"
    BY <1>1, <1>2 DEF l1Vars
  <2>2. Latest' = Latest /\ \A k : Before(k)' = Before(k)
    BY <2>1 DEF Latest, Before
  <2> HIDE DEF Latest, Before
  <2>3. Latest.end \in Nat
    BY DEF IInv, SessionSound, Caught
  <2>4. Follows(Latest, Sent(batchIndex + 1, lastBatchBlock + 1, currentBlock, FALSE))
    <3>1. CASE step = "idle"
      BY <3>1 DEF IInv, SessionSound, Caught
    <3>2. CASE step = "send"
      <4>1. /\ job.start = lastBatchBlock + 1 /\ job.end \in Nat /\ job.end <= currentBlock
            /\ currentBlock \in Nat
        BY <3>2, Numbers DEF IInv, Progress, FrameSound
      <4>2. Follows(Latest, Sent(batchIndex + 1, lastBatchBlock + 1, job.end, FALSE))
        BY <3>2, <4>1 DEF IInv, SessionSound, Caught
      <4>3. QED
        BY <2>3, <4>1, <4>2, LaterTipFollows
    <3>3. QED
      BY <1>1, <3>1, <3>2 DEF IInv, Progress
  <2>5. Caught'
    BY <2>1, <2>2, <2>3, <2>4 DEF Caught
  <2>6. Chained' /\ Booked'
    BY <2>1, <2>2 DEF IInv, SessionSound, Chained, Booked
  <2>7. QED
    BY <2>1, <2>5, <2>6 DEF IInv, SessionSound
<1>6. RecordsSound'
  <2>1. posted' = posted
    BY <1>1 DEF l1Vars
  <2>2. \A a, b : IsPosted(a, b)' <=> IsPosted(a, b)
    BY <2>1 DEF IsPosted
  <2> HIDE DEF IsPosted
  <2>3. QED
    BY <1>1, <1>2, <2>2 DEF IInv, RecordsSound
<1>7. QED
  BY <1>2, <1>3, <1>4, <1>5, <1>6 DEF IInv


(* The batch is recorded (batcher.go:232-251, chaindb.go:232-241).         *)
LEMMA RecordKeeps ==
  ASSUME SM!ShortChain, IInv, Record
  PROVE  IInv'
<1> DEFINE b == Recorded(batchIndex + 1)
<1>1. /\ step = "record" /\ step' = "idle" /\ State!AddBatch(b)
      /\ batched' = Append(batched, b)
      /\ lastBatchBlock' = job.end /\ batchIndex' = batchIndex + 1
      /\ posted' = posted /\ session' = session
  BY DEF Record, l1Vars
<1>2. /\ batchIndex \in Nat /\ FrameSound(job) /\ job.end <= currentBlock
      /\ job.start = lastBatchBlock + 1 /\ lastBatchBlock \in Nat
  BY <1>1 DEF IInv, Progress
<1>3. /\ b.index = batchIndex + 1 /\ b.start = job.start /\ b.end = job.end
      /\ b = [index |-> batchIndex + 1, start |-> job.start, end |-> job.end]
      /\ b.index \in Nat \ {0}
  BY <1>2 DEF Recorded
<1> HIDE DEF b
<1>4. /\ UNCHANGED <<head, txIndex, tries, stage, building, currentBlock, phase>>
      /\ phase \in {"up", "closed"}
      /\ \/ records' = SM!Put(SM!Put(records, SM!BatchKey(b.index), b), SM!keyLatestBatch, b.index)
         \/ records' = records
  BY <1>1, SameAddBatch DEF SM!AddBatch, SM!memVars
<1>5. ChainSound' /\ SM!Kept
  <2>1. SM!Staged /\ SM!Linked /\ SM!TypeOK /\ SM!AddBatch(b)
    BY <1>1, SameAddBatch DEF IInv, ChainSound, SM!Staged
  <2>2. SM!Staged'
    BY <2>1, Assumptions, SM!AddBatchStaged
  <2>3. SM!Kept
    BY <1>3, <2>1, Assumptions, SM!AddBatchKeeps
  <2>4. SM!Linked'
    BY <1>4, <2>1, <2>2, <2>3, Assumptions, SM!KeptLinked
  <2>5. QED
    BY <2>2, <2>3, <2>4 DEF ChainSound
<1>6. \A f : FrameSound(f) => FrameSound(f)'
  <2>1. head'.number \in Nat /\ head'.number >= head.number /\ ChainSound
    BY <1>4, Numbers DEF IInv
  <2>2. QED
    BY <1>5, <2>1, FramesKept
<1>7. job.end \in Nat
  BY <1>2 DEF FrameSound
<1> HIDE DEF FrameSound
<1>8. PostedSound'
  BY <1>1, <1>6 DEF IInv, PostedSound
<1>9. Progress'
  BY <1>1, <1>2, <1>4, <1>7 DEF IInv, Progress
<1>10. SessionSound'
  <2>1. /\ IsSeq(session) /\ IsSeq(batched) /\ Len(batched) = batchIndex /\ Chained /\ Booked
        /\ session # << >> /\ Latest = Sent(batchIndex + 1, job.start, job.end, FALSE)
    BY <1>1 DEF IInv, SessionSound, Caught
  <2>2. /\ IsSeq(batched') /\ Len(batched') = batchIndex + 1
        /\ \A k \in 1 .. batchIndex : batched'[k] = batched[k]
        /\ batched'[batchIndex + 1] = b
    BY <1>1, <2>1, Appended
  <2>3. Latest' = Latest /\ \A k : Before(k)' = Before(k)
    BY <1>1 DEF Latest, Before
  <2>4. Len(session) \in 1 .. Len(session) /\ session[Len(session)] = Latest
    <3>1. Len(session) # 0
      BY <2>1, EmptySeq DEF IsSeq
    <3>2. Len(session) \in Nat
      BY <2>1, Appended
    <3>3. QED
      BY <2>1, <3>1, <3>2 DEF Latest
  <2>5. Chained'
    BY <1>1, <2>1, <2>3 DEF Chained
  <2>6. Booked'
    <3> SUFFICES ASSUME NEW i \in 1 .. (batchIndex + 1)
                 PROVE  \E k \in 1 .. Len(session) :
                          /\ session[k] = Sent(i, batched'[i].start, batched'[i].end, FALSE)
                          /\ batched'[i].index = i
      BY <1>1 DEF Booked
    <3>1. CASE i \in 1 .. batchIndex
      BY <2>1, <2>2, <3>1 DEF Booked
    <3>2. CASE i = batchIndex + 1
      <4>1. session[Len(session)] = Sent(i, batched'[i].start, batched'[i].end, FALSE)
        BY <1>3, <2>1, <2>2, <2>4, <3>2
      <4>2. batched'[i].index = i
        BY <1>3, <2>2, <3>2
      <4>3. QED
        BY <2>4, <4>1, <4>2
    <3>3. i \in 1 .. batchIndex \/ i = batchIndex + 1
      BY <1>2
    <3>4. QED
      BY <3>1, <3>2, <3>3
  <2>7. Caught'
    <3>1. Latest.end = job.end
          /\ Follows(Latest, Sent(batchIndex + 2, job.end + 1, currentBlock, FALSE))
      BY <1>2, <2>1 DEF Follows, Sent
    <3>2. batchIndex' + 1 = batchIndex + 2 /\ lastBatchBlock' + 1 = job.end + 1
      BY <1>1, <1>2
    <3> HIDE DEF Latest
    <3>3. QED
      BY <1>1, <1>4, <1>7, <2>3, <3>1, <3>2 DEF Caught
  <2>8. lastBatchBlock' = batched'[batchIndex + 1].end /\ batchIndex + 1 # 0
    BY <1>1, <1>2, <1>3, <2>2
  <2>9. QED
    BY <1>1, <2>1, <2>2, <2>5, <2>6, <2>7, <2>8 DEF SessionSound
<1>11. RecordsSound'
  <2>1. \A p, q : IsPosted(p, q)' <=> IsPosted(p, q)
    BY <1>1 DEF IsPosted
  <2>2. /\ IsPosted(job.start, job.end)
        /\ \A i \in Nat \ {0} : State!BatchKey(i) \in DOMAIN records =>
             /\ records[State!BatchKey(i)].index = i
             /\ IsPosted(records[State!BatchKey(i)].start, records[State!BatchKey(i)].end)
        /\ State!keyLatestBatch \in DOMAIN records =>
             /\ records[State!keyLatestBatch] \in Nat \ {0}
             /\ State!BatchKey(records[State!keyLatestBatch]) \in DOMAIN records
    BY <1>1 DEF IInv, RecordsSound
  <2> HIDE DEF IsPosted, State!BatchKey, State!keyLatestBatch
  <2>3. CASE records' = records
    BY <1>1, <2>1, <2>2, <2>3 DEF RecordsSound
  <2>4. CASE records' = SM!Put(SM!Put(records, SM!BatchKey(b.index), b), SM!keyLatestBatch, b.index)
    <3>1. \A i \in Nat \ {0} : /\ State!BatchKey(i) # State!keyLatestBatch
                               /\ State!BatchKey(i) = State!BatchKey(b.index) => i = b.index
      <4>1. \A i \in Nat \ {0} : SM!BatchKey(i) # SM!keyLatestBatch
        BY Assumptions, SM!LatestKeyApart
      <4>2. \A i \in Nat \ {0} : SM!BatchKey(i) = SM!BatchKey(b.index) => i = b.index
        BY <1>3, Assumptions, SM!BatchKeyInjective
      <4> HIDE DEF SM!BatchKey, SM!keyLatestBatch
      <4>3. QED
        BY <4>1, <4>2, SameOperators
    <3>2. /\ DOMAIN records' = DOMAIN records \cup {State!BatchKey(b.index), State!keyLatestBatch}
          /\ records'[State!keyLatestBatch] = b.index
          /\ records'[State!BatchKey(b.index)] = b
          /\ \A k \in DOMAIN records : k # State!keyLatestBatch /\ k # State!BatchKey(b.index) =>
               records'[k] = records[k]
      <4> HIDE DEF SM!BatchKey, SM!keyLatestBatch
      <4>1. SM!BatchKey(b.index) = State!BatchKey(b.index) /\ SM!keyLatestBatch = State!keyLatestBatch
        BY SameOperators
      <4>2. State!BatchKey(b.index) # State!keyLatestBatch
        BY <1>3, <3>1
      <4>3. QED
        BY <2>4, <4>1, <4>2 DEF SM!Put
    <3>3. ASSUME NEW i \in Nat \ {0}, State!BatchKey(i) \in DOMAIN records'
          PROVE  /\ records'[State!BatchKey(i)].index = i
                 /\ IsPosted(records'[State!BatchKey(i)].start, records'[State!BatchKey(i)].end)
      <4>1. CASE i = b.index
        BY <1>3, <2>2, <3>2, <4>1
      <4>2. CASE i # b.index
        BY <2>2, <3>1, <3>2, <3>3, <4>2
      <4>3. QED
        BY <4>1, <4>2
    <3>4. State!BatchKey(records'[State!keyLatestBatch]) \in DOMAIN records'
      BY <3>2
    <3>5. QED
      BY <1>1, <1>3, <2>1, <3>2, <3>3, <3>4 DEF RecordsSound
  <2>5. QED
    BY <1>4, <2>3, <2>4
<1>12. QED
  BY <1>5, <1>8, <1>9, <1>10, <1>11 DEF IInv

(* Nothing posted, nothing recorded: the invariant holds.                  *)
LEMMA InitHolds == Init => IInv
<1> SUFFICES ASSUME Init PROVE IInv
  OBVIOUS
<1>1. /\ State!Init /\ lastBatchBlock = 0 /\ batchIndex = 0 /\ step = "idle" /\ batched = << >>
      /\ posted = << >> /\ session = << >>
  BY DEF Init
<1>2. ChainSound
  BY <1>1, SameInit, Assumptions, SM!InitStaged, SM!InitLinked DEF ChainSound
<1>3. PostedSound
  BY <1>1, EmptyIsSeq DEF PostedSound
<1>4. Progress
  BY <1>1 DEF Progress, NothingYet, State!Init
<1>5. SessionSound
  <2>1. Caught
    BY <1>1 DEF Caught, Latest, Follows, NoFrame, Sent
  <2>2. Chained /\ Booked
    BY <1>1, EmptyIsSeq DEF Chained, Booked
  <2>3. QED
    BY <1>1, <2>1, <2>2, EmptyIsSeq DEF SessionSound
<1>6. RecordsSound
  <2>1. DOMAIN records = {}
    BY <1>1 DEF State!Init
  <2>2. QED
    BY <1>1, <2>1 DEF RecordsSound
<1>7. QED
  BY <1>2, <1>3, <1>4, <1>5, <1>6 DEF IInv

(* The invariant depends on the variables alone.                           *)
LEMMA StutterKeeps ==
  ASSUME IInv, UNCHANGED vars
  PROVE  IInv'
<1>1. UNCHANGED <<stateVars, batchVars, l1Vars>>
  BY DEF vars
<1>2. /\ ChainSound' /\ \A f : FrameSound(f)' <=> FrameSound(f)
      /\ UNCHANGED <<records, head, currentBlock, phase>>
  BY <1>1, ChainUntouched DEF IInv
<1> HIDE DEF FrameSound
<1>3. PostedSound' /\ Progress' /\ SessionSound'
  BY <1>1, <1>2 DEF IInv, PostedSound, Progress, SessionSound, Chained, Caught, Booked,
                    Latest, Before, NothingYet, batchVars, l1Vars
<1>4. RecordsSound'
  <2>1. posted' = posted /\ step' = step /\ job' = job
    BY <1>1 DEF batchVars, l1Vars
  <2>2. \A p, q : IsPosted(p, q)' <=> IsPosted(p, q)
    BY <2>1 DEF IsPosted
  <2> HIDE DEF IsPosted
  <2>3. QED
    BY <1>2, <2>1, <2>2 DEF IInv, RecordsSound
<1>5. QED
  BY <1>2, <1>3, <1>4 DEF IInv

(* Every step keeps the invariant.                                         *)
LEMMA NextKeeps ==
  ASSUME SM!ShortChain, IInv, [Next]_vars
  PROVE  IInv'
  BY ChainKeeps, StopKeeps, CollectKeeps, SendKeeps, SendLostKeeps, IdleKeeps,
     RecordKeeps, StutterKeeps
     DEF Next, Submit

(* It therefore always holds.                                              *)
LEMMA SpecKeeps ==
  ASSUME SM!ShortChain
  PROVE  Spec => []IInv
<1>1. Init => IInv
  BY InitHolds
<1>2. IInv /\ [Next]_vars => IInv'
  BY NextKeeps
<1>3. QED
  BY <1>1, <1>2, PTL DEF Spec

-----------------------------------------------------------------------------

(* Every block that was ever sent to L1 is in the chain, with the content  *)
(* it has there, whatever is abandoned, fails or crashes afterwards        *)
(* (batcher.go:178-222, manager.go:327-332).                               *)
THEOREM L1HoldsTheChain ==
  ASSUME SM!ShortChain
  PROVE  Spec => []L1MatchesChain
<1>1. IInv => L1MatchesChain
  BY DEF IInv, PostedSound, FrameSound, L1MatchesChain
<1>2. QED
  BY <1>1, SpecKeeps, PTL

(* The frames of one process cover the chain: no block is left out,        *)
(* whatever calls to L1 fail, and a frame is posted again only when its    *)
(* answer was lost, at once and in one piece (batcher.go:179-184, 231,     *)
(* 246).                                                                   *)
THEOREM SessionsTile ==
  ASSUME SM!ShortChain
  PROVE  Spec => []SessionTilesChain
<1>1. IInv => SessionTilesChain
  <2> SUFFICES ASSUME IInv PROVE SessionTilesChain
    OBVIOUS
  <2>1. /\ IsSeq(session) /\ IsSeq(batched) /\ Len(batched) = batchIndex /\ Chained
        /\ lastBatchBlock = IF batchIndex = 0 THEN 0 ELSE batched[batchIndex].end
    BY DEF IInv, SessionSound
  <2>2. DOMAIN session = 1 .. Len(session)
    BY <2>1, Appended
  <2>3. batched = << >> <=> batchIndex = 0
    <3>1. batched = << >> => batchIndex = 0
      BY <2>1, EmptyIsSeq
    <3>2. batchIndex = 0 => batched = << >>
      BY <2>1, EmptySeq DEF IsSeq
    <3>3. QED
      BY <3>1, <3>2
  <2>4. QED
    BY <2>1, <2>2, <2>3 DEF SessionTilesChain, Chained, Before
<1>2. QED
  BY <1>1, SpecKeeps, PTL

(* Batch records say what was posted and the latest index names a record,  *)
(* although writing them may fail unnoticed and the indices start again    *)
(* after a crash (batcher.go:237-251, chaindb.go:232-241).                 *)
THEOREM RecordsTellTheTruth ==
  ASSUME SM!ShortChain
  PROVE  Spec => []RecordsMatchL1
<1>1. IInv => RecordsMatchL1
  <2> SUFFICES ASSUME IInv PROVE RecordsMatchL1
    OBVIOUS
  <2>1. /\ Len(batched) = batchIndex /\ Booked /\ DOMAIN session = 1 .. Len(session)
    BY Appended DEF IInv, SessionSound
  <2>2. /\ \A i \in Nat \ {0} : State!BatchKey(i) \in DOMAIN records =>
             /\ records[State!BatchKey(i)].index = i
             /\ IsPosted(records[State!BatchKey(i)].start, records[State!BatchKey(i)].end)
        /\ State!keyLatestBatch \in DOMAIN records =>
             /\ records[State!keyLatestBatch] \in Nat \ {0}
             /\ State!BatchKey(records[State!keyLatestBatch]) \in DOMAIN records
    BY DEF IInv, RecordsSound
  <2> HIDE DEF State!BatchKey, State!keyLatestBatch
  <2>3. State!keyLatestBatch \in DOMAIN records =>
          State!ReadLatestBatch.index = records[State!keyLatestBatch]
    BY <2>2 DEF State!ReadLatestBatch
  <2>4. \A i \in 1 .. MaxBlocks : i \in Nat \ {0}
    BY Assumptions
  <2>5. QED
    BY <2>1, <2>2, <2>3, <2>4 DEF RecordsMatchL1, IsPosted, Booked
<1>2. QED
  BY <1>1, SpecKeeps, PTL
=============================================================================
