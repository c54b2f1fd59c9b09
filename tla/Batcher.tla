------------------------------- MODULE Batcher -------------------------------
(***************************************************************************)
(* The batch submitter of internal/batcher on top of the chain it reads    *)
(* from (StateManager).  One goroutine runs submitBatch and                *)
(* checkConfirmations in turn, the producer's goroutine extends the chain  *)
(* meanwhile, and a crash or a shutdown takes both down: what the batcher  *)
(* knows of its progress (lastBatchBlock, batchIndex, pendingBatches) is   *)
(* in memory only.  The L1 client is the simulated one, except that its    *)
(* calls may also end with an error, which the batcher handles: either the *)
(* frame has not reached L1, or it has and the answer is lost (a broken    *)
(* connection, the context that Stop cancels).  Encoding and               *)
(* compressing a frame yields a size, any member of Sizes.  The L1 origin  *)
(* submitBatch sets reaches block headers and nothing else, so it is left  *)
(* out.                                                                    *)
(***************************************************************************)
EXTENDS Integers, Sequences

CONSTANTS
  Tx, Payloads, Radix, BatchTag, CanFail, MaxBlocks, MaxBatches, MaxCrashes,
  Sizes,       \* the lengths a compressed frame may have
  L1Fails,     \* whether a call to the L1 client may return an error
  MaxLost      \* bound: how often L1 takes a frame and the answer is lost

ASSUME SizeAssumption == /\ Sizes \subseteq Nat /\ Sizes # {}
                         /\ L1Fails \in BOOLEAN /\ MaxLost \in Nat

VARIABLES
  tries, genesisRoot, records, hashIndex, txIndex, head,
  phase, currentBlock, stateRoot, stage, building, crashes,
  lastBatchBlock,  \* the last block of this process's last batch
  batchIndex,      \* the index of that batch
  pendingBatches,  \* L1 transaction hash -> index of the batch it carries
  step,            \* where submitBatch is: "idle", "send", "record"
  job,             \* the batch submitBatch works on
  l1Block,         \* blockNum of the simulated L1 client
  posted,          \* what has reached L1: frames, in order
  lostAnswers,     \* how often the answer to a posted frame was lost
  session,         \* history: what was posted since the process started
  batched          \* history: the ranges recorded since the process started

State == INSTANCE StateManager

ASSUME StateAssumption ==
  State!PayloadAssumption /\ State!KeyAssumption /\ State!BoundAssumption

stateVars == <<tries, genesisRoot, records, hashIndex, txIndex, head,
               phase, currentBlock, stateRoot, stage, building, crashes>>
batchVars == <<lastBatchBlock, batchIndex, pendingBatches, step, job, batched>>
l1Vars    == <<l1Block, posted, lostAnswers, session>>
vars      == <<stateVars, batchVars, l1Vars>>

NoJob == << >>
FreshMemory ==
  /\ lastBatchBlock' = 0 /\ batchIndex' = 0 /\ pendingBatches' = << >>
  /\ step' = "idle" /\ job' = NoJob /\ batched' = << >>
  /\ l1Block' = 1000 /\ session' = << >>

Init ==
  /\ State!Init
  /\ lastBatchBlock = 0 /\ batchIndex = 0 /\ pendingBatches = << >>
  /\ step = "idle" /\ job = NoJob /\ batched = << >>
  /\ l1Block = 1000 /\ posted = << >> /\ lostAnswers = 0 /\ session = << >>

-----------------------------------------------------------------------------
Frame(first, last) ==
  [start |-> first, end |-> last, hash |-> 0,
   blocks |-> [i \in 1 .. (last - first + 1) |-> State!Block(first + i - 1)]]

(* Faulty variants, here and below, are slips a property has to notice:    *)
(* the block being built is collected before it is committed.              *)
CollectBuilding ==
  /\ phase = "up" /\ step = "idle"
  /\ stage # "idle" /\ building.number = lastBatchBlock + 1
  /\ job' = [start |-> building.number, end |-> building.number,
             hash |-> 0, blocks |-> <<building>>]
  /\ step' = "send"
  /\ UNCHANGED <<stateVars, lastBatchBlock, batchIndex, pendingBatches, batched, l1Vars>>

(* The current block is read once, then the blocks up to it one by one;    *)
(* up to BatchTag * Radix they never change (BlocksFinal), so the reads    *)
(* are one step.  A missing block ends the attempt.                        *)
Collect ==
  /\ phase = "up" /\ step = "idle"
  /\ currentBlock > lastBatchBlock
  /\ \A n \in (lastBatchBlock + 1) .. currentBlock : State!HasBlock(n)
  /\ job' = Frame(lastBatchBlock + 1, currentBlock)
  /\ step' = "send"
  /\ UNCHANGED <<stateVars, lastBatchBlock, batchIndex, pendingBatches, batched, l1Vars>>

(* What session remembers of a frame: the range and the batch index it was *)
(* sent for, and whether the batcher got no answer.                        *)
Sent(index, first, last, lost) ==
  [index |-> index, start |-> first, end |-> last, lost |-> lost]

(* LatestL1Block and SendBatchTx; each advances the simulated chain by one *)
(* block.  The transaction hash is the block number plus the size.         *)
Post(frame, lost) ==
  /\ step = "send"
  /\ l1Block' = l1Block + 2
  /\ posted' = Append(posted, frame)
  /\ session' = Append(session, Sent(batchIndex + 1, job.start, job.end, lost))
  /\ UNCHANGED <<stateVars, lastBatchBlock, batchIndex, pendingBatches, batched>>

Send(size) ==
  /\ LET frame == [job EXCEPT !.hash = l1Block + 2 + size]
     IN  Post(frame, FALSE) /\ job' = frame
  /\ step' = "record"
  /\ UNCHANGED lostAnswers

(* L1 has the frame, SendBatchTx returns an error all the same: progress   *)
(* is left as it was, so the next attempt posts these blocks again.  The   *)
(* transaction's hash is not known to the batcher, nor is it here.         *)
SendLost ==
  /\ L1Fails /\ lostAnswers < MaxLost
  /\ Post(job, TRUE)
  /\ step' = "idle" /\ job' = NoJob /\ lostAnswers' = lostAnswers + 1

(* The blocks of a batch that could not be sent are passed over.           *)
SendFailsSkips ==
  /\ L1Fails /\ step = "send"
  /\ lastBatchBlock' = job.end
  /\ step' = "idle" /\ job' = NoJob
  /\ UNCHANGED <<stateVars, batchIndex, pendingBatches, batched, l1Vars>>

(* The frame does not reach L1.  L1 blocks that pass meanwhile are not     *)
(* counted, so that l1Block stays bounded.                                 *)
SendFails ==
  /\ L1Fails /\ step = "send"
  /\ step' = "idle" /\ job' = NoJob
  /\ UNCHANGED <<stateVars, lastBatchBlock, batchIndex, pendingBatches, batched, l1Vars>>

Recorded(index) == [index |-> index, start |-> job.start, end |-> job.end]

(* The batch is recorded under the index of its predecessor; the range is  *)
(* not ticked off.                                                         *)
RecordOldIndex ==
  /\ step = "record"
  /\ State!AddBatch(Recorded(batchIndex))
  /\ pendingBatches' = State!Put(pendingBatches, job.hash, batchIndex)
  /\ batched' = Append(batched, Recorded(batchIndex))
  /\ lastBatchBlock' = job.end /\ batchIndex' = batchIndex + 1
  /\ step' = "idle" /\ job' = NoJob
  /\ UNCHANGED l1Vars
RecordForgetsRange ==
  /\ step = "record"
  /\ State!AddBatch(Recorded(batchIndex + 1))
  /\ pendingBatches' = State!Put(pendingBatches, job.hash, batchIndex + 1)
  /\ batched' = Append(batched, Recorded(batchIndex + 1))
  /\ batchIndex' = (batchIndex + 1) % (MaxBlocks + 1)
  /\ step' = "idle" /\ job' = NoJob
  /\ UNCHANGED <<lastBatchBlock, l1Vars>>

(* The batch record, then the batcher's own bookkeeping.                   *)
Record ==
  /\ step = "record"
  /\ State!AddBatch(Recorded(batchIndex + 1))
  /\ pendingBatches' = State!Put(pendingBatches, job.hash, batchIndex + 1)
  /\ batched' = Append(batched, Recorded(batchIndex + 1))
  /\ lastBatchBlock' = job.end /\ batchIndex' = batchIndex + 1
  /\ step' = "idle" /\ job' = NoJob
  /\ UNCHANGED l1Vars

(* Any of the pending batches may turn out to be confirmed.  The record on *)
(* disk is not updated.                                                    *)
CheckConfirmations ==
  /\ phase \in {"up", "closed"} /\ step = "idle"
  /\ \E confirmed \in (SUBSET DOMAIN pendingBatches) \ {{}} :
       pendingBatches' = [h \in DOMAIN pendingBatches \ confirmed |-> pendingBatches[h]]
  /\ UNCHANGED <<stateVars, lastBatchBlock, batchIndex, step, job, batched, l1Vars>>

(* The chain's own steps.                                                  *)
Chain ==
  /\ State!Start \/ State!Produce \/ State!Abandon
  /\ UNCHANGED <<batchVars, l1Vars>>

Crash ==
  /\ State!Crash
  /\ FreshMemory
  /\ UNCHANGED <<posted, lostAnswers>>

(* A shutdown does not wait for submitBatch: a frame may still be sent     *)
(* after the database is closed, and its record is then lost.              *)
Close ==
  /\ State!Close
  /\ UNCHANGED <<batchVars, l1Vars>>

Exit ==
  /\ State!Exit
  /\ FreshMemory
  /\ UNCHANGED <<posted, lostAnswers>>

Submit == Collect \/ (\E size \in Sizes : Send(size)) \/ Record

Next == \/ Chain \/ Submit \/ SendFails \/ SendLost
        \/ CheckConfirmations \/ Crash \/ Close \/ Exit

(* A shutdown ends, the process is started again, its goroutines run on:   *)
(* a block that was begun is finished or abandoned and m.mu released, and  *)
(* the mutex does not starve a reader.  The L1 client does not refuse      *)
(* every batch for ever.                                                   *)
Spec ==
  /\ Init /\ [][Next]_vars
  /\ WF_vars(Chain) /\ WF_vars(Exit) /\ WF_vars(Record) /\ SF_vars(Collect)
  /\ SF_vars(\E size \in Sizes : Send(size))

-----------------------------------------------------------------------------
(* Properties.                                                             *)

(* What reaches L1 is the chain, and only what can no longer be lost:      *)
(* every block ever posted is on disk, with the same content, whatever is  *)
(* abandoned or crashes afterwards (batcher.go:178, manager.go:327-332).   *)
L1MatchesChain ==
  \A k \in DOMAIN posted :
    /\ posted[k].end <= head.number
    /\ \A i \in DOMAIN posted[k].blocks :
         posted[k].blocks[i] = State!Block(posted[k].start + i - 1)

(* How a frame g follows f, the one posted before it: it goes on behind f  *)
(* when f was answered; otherwise it begins where f began and repeats all  *)
(* of it.                                                                  *)
Follows(f, g) ==
  IF f.lost THEN g.index = f.index /\ g.start = f.start /\ g.end >= f.end
            ELSE g.index = f.index + 1 /\ g.start = f.end + 1

(* The frames a process posts cover the chain from block 1 on.  No block   *)
(* is left out, whatever fails in between; and nothing is posted twice     *)
(* but, in one piece and at once, a frame whose answer was lost: up to     *)
(* such repetitions the frames tile the chain (batcher.go:179-184, 231,    *)
(* 246).                                                                   *)
NoFrame == Sent(0, 0, 0, FALSE)
SessionTilesChain ==
  /\ \A k \in DOMAIN session : Follows(IF k = 1 THEN NoFrame ELSE session[k - 1], session[k])
  /\ lastBatchBlock = (IF batched = << >> THEN 0 ELSE batched[Len(batched)].end)

(* The batches a process records are numbered without a gap and say what   *)
(* was posted and answered.  A record on disk may be missing or an earlier *)
(* process's (the write may fail unnoticed, the index starts again after a *)
(* crash), but what it says has been posted, and the latest batch is one   *)
(* of them (batcher.go:237-251, manager.go:415, chaindb.go:240-241).       *)
RecordsMatchL1 ==
  /\ Len(batched) = batchIndex
  /\ \A i \in 1 .. batchIndex : \E k \in DOMAIN session :
       /\ session[k] = Sent(i, batched[i].start, batched[i].end, FALSE)
       /\ batched[i].index = i
  /\ \A i \in 1 .. MaxBlocks : State!BatchKey(i) \in DOMAIN records =>
       LET r == records[State!BatchKey(i)]
       IN  r.index = i /\ \E k \in DOMAIN posted :
                            posted[k].start = r.start /\ posted[k].end = r.end
  /\ State!keyLatestBatch \in DOMAIN records =>
       State!ReadLatestBatch.index = records[State!keyLatestBatch]

(* Every block of the chain reaches L1 in the end, though the batcher      *)
(* forgets its progress when the process ends.                             *)
OnL1(n) == \E k \in DOMAIN posted : n \in posted[k].start .. posted[k].end
EveryBlockPosted ==
  \A n \in 1 .. MaxBlocks : (head.number >= n) ~> OnL1(n)
=============================================================================
