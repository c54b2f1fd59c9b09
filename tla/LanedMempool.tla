---------------------------- MODULE LanedMempool ----------------------------
(***************************************************************************)
(* The reputation-gated transaction pool of internal/mempool/lanes.go, the *)
(* one cmd/sequencer wires in.  A lane (a container/heap in the code) is   *)
(* the sequence of its entries in the order heap.Pop would return them:    *)
(* priority first, arrival second (queue.go, Less).                        *)
(*                                                                         *)
(* Every exported method holds lm.mu for its whole body.  Add, Remove and  *)
(* Reset are one action each; PopBatchLaned is walked through one entry at *)
(* a time, under the lock: phases 1-3 drain fast, standard and slow up to  *)
(* their guaranteed shares, phases 4-6 hand the leftover gas out again in  *)
(* the same order, phase 7 is the return.  Gas is a uint64: every sum and  *)
(* difference of it is taken modulo W.                                     *)
(***************************************************************************)
EXTENDS TxLanes

SeqExt == INSTANCE SequencesExt

VARIABLES
  lanes,     \* lm.fast, lm.std, lm.slow, each in pop order
  known,     \* lm.known: hash -> lane
  phase,     \* 0: lock free; 1-6: the drainLane call in progress; 7: returning
  limits,    \* <<maxTx, gasLimit>> of the PopBatch call holding the lock
  batch,     \* the entries drained so far
  used,      \* gasUsed of the drainLane call in progress
  total,     \* gas used by the drainLane calls that have returned
  spent      \* history: the batch's gas as an integer, without wrap-around

poolVars == <<lanes, known>>
popVars  == <<phase, limits, batch, used, total, spent>>
vars     == <<lanes, known, phase, limits, batch, used, total, spent>>

totalLen   == Len(lanes["fast"]) + Len(lanes["std"]) + Len(lanes["slow"])
LaneHas(l, t) == \E i \in 1 .. Len(lanes[l]) : lanes[l][i].tx = t

Free == phase = 0

Init ==
  /\ lanes = [l \in Lanes |-> << >>]
  /\ known = << >>
  /\ phase = 0 /\ limits = <<0, 0>> /\ batch = << >>
  /\ used = 0 /\ total = 0 /\ spent = 0

(* Faulty variants, here and below: each is a plausible slip in the code   *)
(* that one of the properties has to notice.                               *)
AcceptsKnown(t)   == totalLen < MaxSize
AcceptsOneOver(t) == t \notin DOMAIN known /\ totalLen <= MaxSize

(* A known hash (ErrAlreadyKnown) and a full pool (ErrMempoolFull) are     *)
(* refused, and a refused Add changes nothing.                             *)
Accepts(t) == t \notin DOMAIN known /\ totalLen < MaxSize

Add(t, score) ==
  /\ Free
  /\ Accepts(t)
  /\ LET l == ClassifyLane(score)
         e == [tx |-> t, score |-> score]
     IN  /\ \E k \in 0 .. Len(lanes[l]) :
              /\ Place(lanes[l], k, e)
              /\ lanes' = [lanes EXCEPT ![l] = SeqExt!InsertAt(@, k + 1, e)]
         /\ known' = [h \in DOMAIN known \cup {t} |->
                        IF h = t THEN l ELSE known[h]]
  /\ UNCHANGED popVars

(* Remove trusts the lane recorded in known and deletes the first match.   *)
Remove(t) ==
  /\ Free
  /\ t \in DOMAIN known
  /\ known' = [h \in DOMAIN known \ {t} |-> known[h]]
  /\ LET l == known[t]
     IN  \/ \E i \in 1 .. Len(lanes[l]) :
              /\ lanes[l][i].tx = t
              /\ \A j \in 1 .. (i - 1) : lanes[l][j].tx # t
              /\ lanes' = [lanes EXCEPT ![l] = SeqExt!RemoveAt(@, i)]
         \/ ~LaneHas(l, t) /\ UNCHANGED lanes
  /\ UNCHANGED popVars

Reset ==
  /\ Free
  /\ lanes' = [l \in Lanes |-> << >>]
  /\ known' = << >>
  /\ UNCHANGED popVars

-----------------------------------------------------------------------------
(* PopBatchLaned, one drained entry or one drainLane return at a time.     *)

DrainedLane == <<"fast", "std", "slow", "fast", "std", "slow">>
Draining    == phase \in 1 .. 6
Lane        == DrainedLane[phase]
remainingIsLimit == limits[2]
remaining   == (limits[2] - total) % W
Budget      == IF phase <= 3 THEN Share(Lane, limits[2]) ELSE remaining

Fits(t) == (used + Gas[t]) % W <= Budget

(* drainLane's loop condition, the fit test on the head (an entry that     *)
(* does not fit is put back and ends the drain) and, from phase 4 on, the  *)
(* "remaining > 0" guard of the call.                                      *)
CanTake ==
  /\ lanes[Lane] # << >>
  /\ Len(batch) < limits[1]
  /\ phase >= 4 => remaining > 0
  /\ Fits(Head(lanes[Lane]).tx)

StartPop(c) ==
  /\ Free
  /\ limits' = c
  /\ phase' = 1
  /\ UNCHANGED <<lanes, known, batch, used, total, spent>>

TakeKeepsKnown ==
  /\ Draining
  /\ CanTake
  /\ LET e == Head(lanes[Lane])
     IN  /\ lanes' = [lanes EXCEPT ![Lane] = Tail(@)]
         /\ batch' = Append(batch, e)
         /\ used'  = (used + Gas[e.tx]) % W
         /\ spent' = spent + Gas[e.tx]
  /\ UNCHANGED <<known, phase, limits, total>>

TakeTombstone ==
  /\ Draining
  /\ CanTake
  /\ LET e == Head(lanes[Lane])
     IN  /\ lanes' = [lanes EXCEPT ![Lane] = Tail(@)]
         /\ known' = [known EXCEPT ![e.tx] = "popped"]
         /\ batch' = Append(batch, e)
         /\ used'  = (used + Gas[e.tx]) % W
         /\ spent' = spent + Gas[e.tx]
  /\ UNCHANGED <<phase, limits, total>>

Take ==
  /\ Draining
  /\ CanTake
  /\ LET e == Head(lanes[Lane])
     IN  /\ lanes' = [lanes EXCEPT ![Lane] = Tail(@)]
         /\ known' = [h \in DOMAIN known \ {e.tx} |-> known[h]]
         /\ batch' = Append(batch, e)
         /\ used'  = (used + Gas[e.tx]) % W
         /\ spent' = spent + Gas[e.tx]
  /\ UNCHANGED <<phase, limits, total>>

(* After the put-back the loop goes round again instead of breaking off.   *)
EndDrainNoBreak ==
  /\ Draining
  /\ ~CanTake
  /\ lanes[Lane] = << >> \/ Len(batch) >= limits[1]
  /\ phase' = phase + 1
  /\ total' = (total + used) % W
  /\ used' = 0
  /\ UNCHANGED <<lanes, known, limits, batch, spent>>

(* The gas of a drain that has returned is not added to the total.         *)
EndDrainForgetsGas ==
  /\ Draining
  /\ ~CanTake
  /\ phase' = phase + 1
  /\ used' = 0
  /\ UNCHANGED <<lanes, known, limits, batch, total, spent>>

EndDrain ==
  /\ Draining
  /\ ~CanTake
  /\ phase' = phase + 1
  /\ total' = (total + used) % W
  /\ used' = 0
  /\ UNCHANGED <<lanes, known, limits, batch, spent>>

(* The deferred Unlock: the batch now belongs to the caller.               *)
Return ==
  /\ phase = 7
  /\ phase' = 0 /\ limits' = <<0, 0>> /\ batch' = << >>
  /\ used' = 0 /\ total' = 0 /\ spent' = 0
  /\ UNCHANGED poolVars

PopStep == Take \/ EndDrain \/ Return

Next ==
  \/ \E t \in Tx, s \in Scores : Add(t, s)
  \/ \E t \in Tx : Remove(t)
  \/ Reset
  \/ \E c \in Calls : StartPop(c)
  \/ PopStep

(* The goroutine inside PopBatchLaned keeps running until it returns.      *)
Spec == Init /\ [][Next]_vars /\ WF_vars(PopStep)

-----------------------------------------------------------------------------
(* Properties.                                                             *)

TypeOK ==
  /\ lanes \in [Lanes -> Seq(Entry)]
  /\ DOMAIN known \subseteq Tx
  /\ \A h \in DOMAIN known : known[h] \in Lanes
  /\ phase \in 0 .. 7
  /\ limits \in Nat \X UInt
  /\ batch \in Seq(Entry)
  /\ used \in UInt /\ total \in UInt /\ spent \in Nat

(* The duplicate filter and the lanes agree, also in the middle of a pop   *)
(* and across put-backs: a hash is in known exactly when one lane holds    *)
(* it, in the lane known says, at one place only (lanes.go:120, 191, 268). *)
KnownMatchesLanes ==
  /\ \A h \in DOMAIN known : LaneHas(known[h], h)
  /\ \A l \in Lanes : \A i \in 1 .. Len(lanes[l]) :
       /\ lanes[l][i].tx \in DOMAIN known
       /\ known[lanes[l][i].tx] = l
       /\ \A j \in 1 .. Len(lanes[l]) : lanes[l][i].tx = lanes[l][j].tx => i = j

(* A transaction being handed to the producer is no longer in the pool and *)
(* is handed over once: the pool cannot make a block hold it twice.        *)
BatchDisjoint ==
  \A i \in 1 .. Len(batch) :
    /\ batch[i].tx \notin DOMAIN known
    /\ \A j \in 1 .. Len(batch) : batch[i].tx = batch[j].tx => i = j

(* The pool never outgrows maxSize; with what a pop has already drained it *)
(* still fits, so a put-back inside drainLane has room (lanes.go:95, 188). *)
CapacityRespected == totalLen + Len(batch) <= MaxSize

(* PopBatch "removes up to maxTx transactions respecting gasLimit"         *)
(* (pool.go:16): the gas the batch really asks for, added up without       *)
(* wrap-around, stays within the limit although three shares and three     *)
(* leftover rounds draw on it.                                             *)
BatchWithinLimits ==
  phase = 7 => Len(batch) <= limits[1] /\ spent <= limits[2]

(* Nothing of lower priority overtakes: every lane is popped best first,   *)
(* and what a batch holds of a lane comes in that order and before all the *)
(* lane still holds, after any mixture of arrivals, removals from the      *)
(* middle of the heap, put-backs and re-adds (queue.go:13-20,              *)
(* lanes.go:184-194).                                                      *)
BestFirst ==
  /\ \A l \in Lanes : \A i, j \in 1 .. Len(lanes[l]) :
       i < j => Priority(lanes[l][i]) >= Priority(lanes[l][j])
  /\ \A i \in 1 .. Len(batch) :
       LET l == ClassifyLane(batch[i].score)
       IN  /\ \A j \in 1 .. Len(lanes[l]) : Priority(batch[i]) >= Priority(lanes[l][j])
           /\ \A j \in (i + 1) .. Len(batch) :
                ClassifyLane(batch[j].score) = l => Priority(batch[i]) >= Priority(batch[j])

(* Every PopBatch call returns and releases lm.mu.                         *)
PopReturns == phase # 0 ~> phase = 0

(* The lock makes PopBatch atomic: the loops above implement one step of   *)
(* PoolContract.  What a pop takes is a prefix of every lane in priority   *)
(* order, nothing is lost or invented on the way (lanes.go:184-194), every *)
(* lane was drained until its next entry overflows its guaranteed share    *)
(* (lanes.go:43), and one leftover round in the order fast, standard, slow *)
(* leaves no gas that a lane's next entry could use (lanes.go:159-174).    *)
(* While a batch is being drained the contract still sees what was drained *)
(* at the front of its lane.                                               *)
Undrained(l) ==
  IF Draining THEN Dealt(batch).taken[l] \o lanes[l] ELSE lanes[l]
Contract == INSTANCE PoolContract WITH
              pending <- [l \in Lanes |-> Undrained(l)],
              out     <- IF phase = 7 THEN batch ELSE << >>,
              asked   <- limits
ImplementsContract == Contract!CSpec

(* What the gas bound of a pop rests on: the caller's limit is far enough  *)
(* below 2^64 that no sum or product in PopBatchLaned wraps.               *)
NoWrap ==
  /\ \A c \in Calls : c[2] * 4000 < W
  /\ \A c \in Calls, t \in Tx : c[2] + Gas[t] < W
=============================================================================
