---------------------------- MODULE PoolContract ----------------------------
(***************************************************************************)
(* What a user of the TxPool interface (internal/mempool/pool.go) may rely *)
(* on: the pool is a set of pending transactions, arranged in lanes, and   *)
(* PopBatch is one indivisible step that takes a prefix of every lane.     *)
(* Which prefix is left open, except for what the comments of lanes.go     *)
(* promise: the count and gas limits, every lane's guaranteed share, and   *)
(* no gas left unused that a lane's next entry could have used.  Gas is    *)
(* added up in the integers: the contract knows no overflow.               *)
(***************************************************************************)
EXTENDS TxLanes

SeqExt == INSTANCE SequencesExt

VARIABLES
  pending,   \* pending[l]: the lane's entries, in the order they will leave
  out,       \* the batch being handed to the caller
  asked      \* <<maxTx, gasLimit>> of the PopBatch call being served

cvars == <<pending, out, asked>>

PendingHas(t) == \E l \in Lanes : \E i \in 1 .. Len(pending[l]) :
                   pending[l][i].tx = t
Size == Len(pending["fast"]) + Len(pending["std"]) + Len(pending["slow"])

CInit == pending = [l \in Lanes |-> << >>] /\ out = << >> /\ asked = <<0, 0>>

CAdd(t, score) ==
  /\ ~PendingHas(t) /\ Size < MaxSize
  /\ LET l == ClassifyLane(score)
         e == [tx |-> t, score |-> score]
     IN  \E k \in 0 .. Len(pending[l]) :
           /\ Place(pending[l], k, e)
           /\ pending' = [pending EXCEPT ![l] = SeqExt!InsertAt(@, k + 1, e)]
  /\ UNCHANGED <<out, asked>>

CRemove(t) ==
  /\ \E l \in Lanes : \E i \in 1 .. Len(pending[l]) :
       /\ pending[l][i].tx = t
       /\ pending' = [pending EXCEPT ![l] = SeqExt!RemoveAt(@, i)]
  /\ UNCHANGED <<out, asked>>

CReset == pending' = [l \in Lanes |-> << >>] /\ UNCHANGED <<out, asked>>

(* The batch s is a legal answer to PopBatch(c[1], c[2]).                  *)
Legal(s, c) ==
  LET d       == Dealt(s)
      total   == d.gas["fast"] + d.gas["std"] + d.gas["slow"]
      next(l) == Gas[pending[l][Len(d.taken[l]) + 1].tx]
  IN  /\ Len(s) <= c[1] /\ total <= c[2]
      /\ \A l \in Lanes : SeqExt!IsPrefix(d.taken[l], pending[l])
      /\ \A l \in Lanes :
           Len(s) < c[1] /\ Len(d.taken[l]) < Len(pending[l]) =>
             /\ d.gas[l] + next(l) > Share(l, c[2])
             /\ total + next(l) > c[2]

CAsk(c) == asked = <<0, 0>> /\ asked' = c /\ UNCHANGED <<pending, out>>

CPop ==
  /\ out = << >>
  /\ Legal(out', asked)
  /\ pending' = [l \in Lanes |->
       SubSeq(pending[l], Len(Dealt(out').taken[l]) + 1, Len(pending[l]))]
  /\ UNCHANGED asked

CHandOver == out' = << >> /\ asked' = <<0, 0>> /\ UNCHANGED pending

CNext ==
  \/ \E t \in Tx, s \in Scores : CAdd(t, s)
  \/ \E t \in Tx : CRemove(t)
  \/ CReset
  \/ \E c \in Calls : CAsk(c)
  \/ CPop
  \/ CHandOver

CSpec == CInit /\ [][CNext]_cvars
=============================================================================
