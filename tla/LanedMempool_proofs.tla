------------------------ MODULE LanedMempool_proofs ------------------------
(***************************************************************************)
(* Proofs about LanedMempool, for every set of transactions, every pool    *)
(* size, every limits a caller may pass and every width W of the gas       *)
(* arithmetic.                                                             *)
(***************************************************************************)
EXTENDS LanedMempool, SequenceTheorems, NaturalsInduction, WellFoundedInduction, TLAPS

-----------------------------------------------------------------------------
(* Inserting into and deleting from a lane, place by place.                *)

(* r is s with e inserted behind its first k places / without place k.     *)
Inserted(S, s, k, e, r) ==
  /\ r \in Seq(S)
  /\ Len(r) = Len(s) + 1
  /\ \A i \in 1 .. k : r[i] = s[i]
  /\ r[k + 1] = e
  /\ \A i \in (k + 2) .. (Len(s) + 1) : r[i] = s[i - 1]

Removed(S, s, k, r) ==
  /\ r \in Seq(S)
  /\ Len(r) = Len(s) - 1
  /\ \A i \in 1 .. (k - 1) : r[i] = s[i]
  /\ \A i \in k .. (Len(s) - 1) : r[i] = s[i + 1]

(* SequencesExt's InsertAt, which a lane's heap.Push is modelled by, puts  *)
(* e where it should and keeps the rest in order.                          *)
LEMMA InsertAtProperties ==
  ASSUME NEW S, NEW s \in Seq(S), NEW k \in 0 .. Len(s), NEW e \in S
  PROVE  Inserted(S, s, k, e, SeqExt!InsertAt(s, k + 1, e))
<1> DEFINE front == SubSeq(s, 1, k)
           back  == SubSeq(s, k + 1, Len(s))
           mid   == front \o <<e>>
<1>1. /\ front \in Seq(S) /\ Len(front) = k
      /\ \A i \in 1 .. k : front[i] = s[i]
  <2>1. \A i \in 1 .. k : s[i] \in S
    BY ElementOfSeq, LenProperties
  <2>2. QED
    BY <2>1, SubSeqProperties, LenProperties
<1>2. /\ back \in Seq(S) /\ Len(back) = Len(s) - k
      /\ \A i \in 1 .. (Len(s) - k) : back[i] = s[k + i]
  <2>1. \A i \in (k + 1) .. Len(s) : s[i] \in S
    BY ElementOfSeq, LenProperties
  <2>2. QED
    BY <2>1, SubSeqProperties, LenProperties
<1>3. /\ mid \in Seq(S) /\ Len(mid) = k + 1
      /\ \A i \in 1 .. k : mid[i] = s[i]
      /\ mid[k + 1] = e
  <2>1. <<e>> \in Seq(S) /\ Len(<<e>>) = 1 /\ <<e>>[1] = e
    OBVIOUS
  <2> HIDE DEF front
  <2>2. QED
    BY <1>1, <2>1, ConcatProperties
<1>4. SeqExt!InsertAt(s, k + 1, e) = mid \o back
  <2>1. (k + 1) - 1 = k
    OBVIOUS
  <2>2. QED
    BY <2>1, Zenon DEF SeqExt!InsertAt
<1> HIDE DEF mid, back
<1>5. /\ mid \o back \in Seq(S)
      /\ Len(mid \o back) = Len(s) + 1
      /\ \A i \in 1 .. (Len(s) + 1) :
           (mid \o back)[i] = IF i <= k + 1 THEN mid[i] ELSE back[i - (k + 1)]
  <2>1. Len(mid) + Len(back) = Len(s) + 1
    BY <1>2, <1>3, LenProperties
  <2>2. /\ mid \o back \in Seq(S)
        /\ Len(mid \o back) = Len(mid) + Len(back)
        /\ \A i \in 1 .. (Len(mid) + Len(back)) :
             (mid \o back)[i] = IF i <= Len(mid) THEN mid[i] ELSE back[i - Len(mid)]
    BY <1>2, <1>3, ConcatProperties
  <2>3. QED
    BY <1>3, <2>1, <2>2
<1>6. \A i \in 1 .. k : (mid \o back)[i] = s[i]
  BY <1>3, <1>5, LenProperties
<1>7. (mid \o back)[k + 1] = e
  BY <1>3, <1>5, LenProperties
<1>8. \A i \in (k + 2) .. (Len(s) + 1) : (mid \o back)[i] = s[i - 1]
  <2> SUFFICES ASSUME NEW i \in (k + 2) .. (Len(s) + 1)
               PROVE  (mid \o back)[i] = s[i - 1]
    OBVIOUS
  <2>1. i - (k + 1) \in 1 .. (Len(s) - k) /\ k + (i - (k + 1)) = i - 1
    BY LenProperties
  <2>2. (mid \o back)[i] = back[i - (k + 1)]
    BY <1>5, LenProperties
  <2>3. QED
    BY <1>2, <2>1, <2>2
<1>9. QED
  BY <1>4, <1>5, <1>6, <1>7, <1>8 DEF Inserted

(* Its RemoveAt, for heap.Remove, closes the gap and keeps the order.      *)
LEMMA RemoveAtProperties ==
  ASSUME NEW S, NEW s \in Seq(S), NEW k \in 1 .. Len(s)
  PROVE  Removed(S, s, k, SeqExt!RemoveAt(s, k))
<1> DEFINE front == SubSeq(s, 1, k - 1)
           back  == SubSeq(s, k + 1, Len(s))
<1>1. /\ front \in Seq(S) /\ Len(front) = k - 1
      /\ \A i \in 1 .. (k - 1) : front[i] = s[i]
  <2>1. \A i \in 1 .. (k - 1) : s[i] \in S
    BY ElementOfSeq, LenProperties
  <2>2. QED
    BY <2>1, SubSeqProperties, LenProperties
<1>2. /\ back \in Seq(S) /\ Len(back) = Len(s) - k
      /\ \A i \in 1 .. (Len(s) - k) : back[i] = s[k + i]
  <2>1. \A i \in (k + 1) .. Len(s) : s[i] \in S
    BY ElementOfSeq, LenProperties
  <2>2. QED
    BY <2>1, SubSeqProperties, LenProperties
<1>3. SeqExt!RemoveAt(s, k) = front \o back
  BY DEF SeqExt!RemoveAt
<1> HIDE DEF front, back
<1>4. /\ front \o back \in Seq(S)
      /\ Len(front \o back) = Len(s) - 1
      /\ \A i \in 1 .. (Len(s) - 1) :
           (front \o back)[i] = IF i <= k - 1 THEN front[i] ELSE back[i - (k - 1)]
  <2>1. Len(front) + Len(back) = Len(s) - 1
    BY <1>1, <1>2, LenProperties
  <2>2. /\ front \o back \in Seq(S)
        /\ Len(front \o back) = Len(front) + Len(back)
        /\ \A i \in 1 .. (Len(front) + Len(back)) :
             (front \o back)[i] = IF i <= Len(front) THEN front[i]
                                                     ELSE back[i - Len(front)]
    BY <1>1, <1>2, ConcatProperties
  <2>3. QED
    BY <1>1, <2>1, <2>2
<1>5. \A i \in 1 .. (k - 1) : (front \o back)[i] = s[i]
  BY <1>1, <1>4, LenProperties
<1>6. \A i \in k .. (Len(s) - 1) : (front \o back)[i] = s[i + 1]
  <2> SUFFICES ASSUME NEW i \in k .. (Len(s) - 1)
               PROVE  (front \o back)[i] = s[i + 1]
    OBVIOUS
  <2>1. i - (k - 1) \in 1 .. (Len(s) - k) /\ k + (i - (k - 1)) = i + 1
    BY LenProperties
  <2>2. (front \o back)[i] = back[i - (k - 1)]
    BY <1>4, LenProperties
  <2>3. QED
    BY <1>2, <2>1, <2>2
<1>7. QED
  BY <1>3, <1>4, <1>5, <1>6 DEF Removed

-----------------------------------------------------------------------------
(* The inductive invariant.                                                *)

(* The duplicate filter and the lanes agree, and a popped transaction is   *)
(* nowhere else.  It is inductive only with the types and with both halves *)
(* together: Take moves a transaction from one half to the other, and Add  *)
(* brings one back that may have been in neither.                          *)
Idle == Free => batch = << >> /\ used = 0 /\ total = 0 /\ spent = 0
Consistent == TypeOK /\ KnownMatchesLanes /\ BatchDisjoint /\ Idle

(* Whatever wraps at W is a uint64 again.                                  *)
LEMMA WrapType ==
  ASSUME NEW a \in Int
  PROVE  a % W \in UInt
  BY WidthAssumption DEF UInt

(* A lane's share of a gas limit is a natural number (lanes.go:20-39).     *)
LEMMA ShareType ==
  ASSUME NEW l \in Lanes, NEW g \in UInt
  PROVE  Share(l, g) \in Nat
  BY WidthAssumption DEF Share, Lanes, LaneGasBps, UInt

(* Every score has a lane (lanes.go:75-84).                                *)
LEMMA ClassifyLaneType ==
  ASSUME NEW sc \in Scores
  PROVE  ClassifyLane(sc) \in Lanes
  BY DEF ClassifyLane, Lanes

(* While a pop is under way the lane it drains is one of the three.        *)
LEMMA LaneType ==
  ASSUME TypeOK, Draining
  PROVE  Lane \in Lanes
  BY DEF TypeOK, Draining, Lane, DrainedLane, Lanes

(* A new pool is consistent (lanes.go:58-72).                              *)
LEMMA InitConsistent == Init => Consistent
<1> SUFFICES ASSUME Init PROVE Consistent
  OBVIOUS
<1>1. \A l \in Lanes : lanes[l] = << >> /\ Len(lanes[l]) = 0
  BY DEF Init
<1>2. TypeOK
  BY WidthAssumption DEF Init, TypeOK, UInt
<1>3. KnownMatchesLanes
  BY <1>1 DEF Init, KnownMatchesLanes
<1>4. BatchDisjoint
  BY DEF Init, BatchDisjoint
<1>5. Idle
  BY DEF Init, Idle
<1>6. QED
  BY <1>2, <1>3, <1>4, <1>5 DEF Consistent

(* Add keeps filter and lanes in step: the new hash was unknown, hence in  *)
(* no lane and in no batch (lanes.go:87-130).                              *)
LEMMA AddConsistent ==
  ASSUME Consistent, NEW t \in Tx, NEW score \in Scores, Add(t, score)
  PROVE  Consistent'
<1> DEFINE l == ClassifyLane(score)
           e == [tx |-> t, score |-> score]
<1> USE DEF Consistent
<1>1. l \in Lanes /\ e \in Entry /\ e.tx = t
  BY ClassifyLaneType DEF Entry
<1>2. PICK k \in 0 .. Len(lanes[l]) :
        lanes' = [lanes EXCEPT ![l] = SeqExt!InsertAt(@, k + 1, e)]
  BY DEF Add
<1>3. /\ known' = [h \in DOMAIN known \cup {t} |-> IF h = t THEN l ELSE known[h]]
      /\ t \notin DOMAIN known
      /\ UNCHANGED popVars
  BY DEF Add, Accepts
<1>4. lanes \in [Lanes -> Seq(Entry)]
  BY DEF TypeOK
<1> HIDE DEF l, e
<1>5. /\ lanes'[l] \in Seq(Entry)
      /\ Len(lanes'[l]) = Len(lanes[l]) + 1
      /\ \A i \in 1 .. k : lanes'[l][i] = lanes[l][i]
      /\ lanes'[l][k + 1] = e
      /\ \A i \in (k + 2) .. (Len(lanes[l]) + 1) : lanes'[l][i] = lanes[l][i - 1]
  <2>1. lanes'[l] = SeqExt!InsertAt(lanes[l], k + 1, e)
    BY <1>1, <1>2, <1>4
  <2>2. lanes[l] \in Seq(Entry) /\ k \in 0 .. Len(lanes[l]) /\ e \in Entry
    BY <1>1, <1>4
  <2>3. Inserted(Entry, lanes[l], k, e, lanes'[l])
    BY <2>1, <2>2, InsertAtProperties
  <2>4. QED
    BY <2>3 DEF Inserted
<1>6. \A m \in Lanes \ {l} : lanes'[m] = lanes[m]
  BY <1>2, <1>4
<1>7. TypeOK'
  <2>1. lanes' \in [Lanes -> Seq(Entry)]
    BY <1>1, <1>2, <1>4, <1>5, <1>6
  <2>2. DOMAIN known' \subseteq Tx /\ \A h \in DOMAIN known' : known'[h] \in Lanes
    BY <1>1, <1>3 DEF TypeOK
  <2>3. QED
    BY <1>3, <2>1, <2>2 DEF TypeOK, popVars
<1>8. /\ Len(lanes[l]) \in Nat /\ DOMAIN lanes'[l] = 1 .. Len(lanes[l]) + 1
      /\ k \in 0 .. Len(lanes[l])
  BY <1>1, <1>4, <1>5, LenProperties
<1> DEFINE old(i) == IF i <= k THEN i ELSE i - 1
<1>9. \A i \in 1 .. Len(lanes'[l]) : i # k + 1 =>
         /\ old(i) \in 1 .. Len(lanes[l])
         /\ lanes'[l][i] = lanes[l][old(i)]
         /\ \A j \in 1 .. Len(lanes'[l]) : j # k + 1 /\ old(i) = old(j) => i = j
  BY <1>5, <1>8
<1>10. \A j \in 1 .. Len(lanes[l]) : \E i \in 1 .. Len(lanes'[l]) :
         lanes'[l][i] = lanes[l][j]
  <2> SUFFICES ASSUME NEW j \in 1 .. Len(lanes[l])
               PROVE  \E i \in 1 .. Len(lanes'[l]) : lanes'[l][i] = lanes[l][j]
    OBVIOUS
  <2>1. CASE j <= k
    BY <1>5, <1>8, <2>1
  <2>2. CASE j > k
    <3>1. /\ j + 1 \in (k + 2) .. (Len(lanes[l]) + 1)
          /\ (j + 1) - 1 = j /\ j + 1 \in 1 .. Len(lanes'[l])
      BY <1>5, <1>8, <2>2
    <3>2. QED
      BY <1>5, <3>1
  <2>3. QED
    BY <1>8, <2>1, <2>2
<1> HIDE DEF old
<1>11. KnownMatchesLanes'
  <2>1. ASSUME NEW h \in DOMAIN known'
        PROVE  \E i \in 1 .. Len(lanes'[known'[h]]) : lanes'[known'[h]][i].tx = h
    <3>1. CASE h = t
      <4>1. known'[h] = l /\ k + 1 \in 1 .. Len(lanes'[l])
        BY <1>3, <1>5, <1>8, <3>1
      <4>2. QED
        BY <1>1, <1>5, <3>1, <4>1
    <3>2. CASE h # t
      <4>1. h \in DOMAIN known /\ known'[h] = known[h] /\ known[h] \in Lanes
        BY <1>3, <3>2 DEF TypeOK
      <4>2. PICK j \in 1 .. Len(lanes[known[h]]) : lanes[known[h]][j].tx = h
        BY <4>1 DEF KnownMatchesLanes, LaneHas
      <4>3. CASE known[h] = l
        <5>1. PICK i \in 1 .. Len(lanes'[l]) : lanes'[l][i] = lanes[l][j]
          BY <1>10, <4>2, <4>3
        <5>2. QED
          BY <4>1, <4>2, <4>3, <5>1
      <4>4. CASE known[h] # l
        BY <1>6, <4>1, <4>2, <4>4
      <4>5. QED
        BY <4>3, <4>4
    <3>3. QED
      BY <3>1, <3>2
  <2>2. ASSUME NEW m \in Lanes, NEW i \in 1 .. Len(lanes'[m])
        PROVE  /\ lanes'[m][i].tx \in DOMAIN known'
               /\ known'[lanes'[m][i].tx] = m
               /\ \A j \in 1 .. Len(lanes'[m]) :
                    lanes'[m][i].tx = lanes'[m][j].tx => i = j
    <3>1. CASE m # l
      BY <1>3, <1>6, <3>1 DEF KnownMatchesLanes
    <3>2. CASE m = l /\ i = k + 1
      <4>1. lanes'[m][i].tx = t
        BY <1>1, <1>5, <3>2
      <4>2. \A j \in 1 .. Len(lanes'[m]) : j # i => lanes'[m][j].tx # t
        BY <1>3, <1>9, <1>1, <3>2 DEF KnownMatchesLanes
      <4>3. QED
        BY <1>3, <3>2, <4>1, <4>2
    <3>3. CASE m = l /\ i # k + 1
      <4>1. /\ old(i) \in 1 .. Len(lanes[l])
            /\ lanes'[l][i] = lanes[l][old(i)]
        BY <1>9, <3>3
      <4>2. /\ lanes[l][old(i)].tx \in DOMAIN known
            /\ known[lanes[l][old(i)].tx] = l
        BY <1>1, <4>1 DEF KnownMatchesLanes
      <4>3. ASSUME NEW j \in 1 .. Len(lanes'[m]), lanes'[m][i].tx = lanes'[m][j].tx
            PROVE  i = j
        <5>1. j # k + 1
          BY <1>1, <1>3, <1>5, <3>3, <4>1, <4>2, <4>3
        <5>2. old(i) = old(j)
          BY <1>1, <1>9, <3>3, <4>1, <4>3, <5>1 DEF KnownMatchesLanes
        <5>3. QED
          BY <1>9, <3>3, <5>1, <5>2
      <4>4. QED
        BY <1>3, <3>3, <4>1, <4>2, <4>3
    <3>4. QED
      BY <3>1, <3>2, <3>3
  <2>3. QED
    BY <2>1, <2>2 DEF KnownMatchesLanes, LaneHas
<1>12. BatchDisjoint'
  <2>1. batch = << >>
    BY DEF Idle, Add
  <2>2. QED
    BY <1>3, <2>1 DEF BatchDisjoint, popVars
<1>13. Idle'
  BY <1>3 DEF Idle, Free, popVars
<1>14. QED
  BY <1>7, <1>11, <1>12, <1>13

(* Remove finds its transaction in the lane known names, once, so that     *)
(* deleting the first match deletes it (lanes.go:261-284).                 *)
LEMMA RemoveConsistent ==
  ASSUME Consistent, NEW t \in Tx, Remove(t)
  PROVE  Consistent'
<1> DEFINE l == known[t]
<1> USE DEF Consistent
<1>1. /\ l \in Lanes /\ t \in DOMAIN known
      /\ known' = [h \in DOMAIN known \ {t} |-> known[h]]
      /\ UNCHANGED popVars
  BY DEF Remove, TypeOK
<1>2. lanes \in [Lanes -> Seq(Entry)]
  BY DEF TypeOK
<1>3. PICK k \in 1 .. Len(lanes[l]) :
        /\ lanes[l][k].tx = t
        /\ lanes' = [lanes EXCEPT ![l] = SeqExt!RemoveAt(@, k)]
  BY <1>1 DEF Remove, KnownMatchesLanes
<1> HIDE DEF l
<1>4. Removed(Entry, lanes[l], k, lanes'[l])
  <2>1. lanes'[l] = SeqExt!RemoveAt(lanes[l], k)
    BY <1>1, <1>2, <1>3
  <2>2. lanes[l] \in Seq(Entry) /\ k \in 1 .. Len(lanes[l])
    BY <1>1, <1>2
  <2>3. QED
    BY <2>1, <2>2, RemoveAtProperties
<1>5. \A m \in Lanes \ {l} : lanes'[m] = lanes[m]
  BY <1>2, <1>3
<1>6. Len(lanes[l]) \in Nat /\ k \in 1 .. Len(lanes[l])
  BY <1>1, <1>2, LenProperties
<1> DEFINE old(i) == IF i < k THEN i ELSE i + 1
<1>7. \A i \in 1 .. Len(lanes'[l]) :
         /\ old(i) \in 1 .. Len(lanes[l]) /\ old(i) # k
         /\ lanes'[l][i] = lanes[l][old(i)]
         /\ \A j \in 1 .. Len(lanes'[l]) : old(i) = old(j) => i = j
  BY <1>4, <1>6 DEF Removed
<1>8. \A j \in 1 .. Len(lanes[l]) : j # k =>
        \E i \in 1 .. Len(lanes'[l]) : lanes'[l][i] = lanes[l][j]
  <2> SUFFICES ASSUME NEW j \in 1 .. Len(lanes[l]), j # k
               PROVE  \E i \in 1 .. Len(lanes'[l]) : lanes'[l][i] = lanes[l][j]
    OBVIOUS
  <2>1. CASE j < k
    BY <1>4, <1>6, <2>1 DEF Removed
  <2>2. CASE j > k
    <3>1. j - 1 \in k .. (Len(lanes[l]) - 1) /\ (j - 1) + 1 = j
          /\ j - 1 \in 1 .. Len(lanes'[l])
      BY <1>4, <1>6, <2>2 DEF Removed
    <3>2. QED
      BY <1>4, <3>1 DEF Removed
  <2>3. QED
    BY <1>6, <2>1, <2>2
<1> HIDE DEF old
<1>9. TypeOK'
  <2>1. lanes' \in [Lanes -> Seq(Entry)]
    BY <1>1, <1>2, <1>3, <1>4, <1>5 DEF Removed
  <2>2. QED
    BY <1>1, <2>1 DEF TypeOK, popVars
<1>10. KnownMatchesLanes'
  <2>1. ASSUME NEW h \in DOMAIN known'
        PROVE  \E i \in 1 .. Len(lanes'[known'[h]]) : lanes'[known'[h]][i].tx = h
    <3>1. h \in DOMAIN known /\ h # t /\ known'[h] = known[h] /\ known[h] \in Lanes
      BY <1>1 DEF TypeOK
    <3>2. PICK j \in 1 .. Len(lanes[known[h]]) : lanes[known[h]][j].tx = h
      BY <3>1 DEF KnownMatchesLanes, LaneHas
    <3>3. CASE known[h] = l
      <4>1. PICK i \in 1 .. Len(lanes'[l]) : lanes'[l][i] = lanes[l][j]
        BY <1>3, <1>8, <3>1, <3>2, <3>3
      <4>2. QED
        BY <3>1, <3>2, <3>3, <4>1
    <3>4. CASE known[h] # l
      BY <1>5, <3>1, <3>2, <3>4
    <3>5. QED
      BY <3>3, <3>4
  <2>2. ASSUME NEW m \in Lanes, NEW i \in 1 .. Len(lanes'[m])
        PROVE  /\ lanes'[m][i].tx \in DOMAIN known'
               /\ known'[lanes'[m][i].tx] = m
               /\ \A j \in 1 .. Len(lanes'[m]) :
                    lanes'[m][i].tx = lanes'[m][j].tx => i = j
    <3>1. CASE m # l
      <4>1. /\ lanes[m][i].tx \in DOMAIN known /\ known[lanes[m][i].tx] = m
            /\ lanes'[m] = lanes[m]
        BY <1>5, <3>1 DEF KnownMatchesLanes
      <4>2. lanes[m][i].tx # t
        BY <3>1, <4>1 DEF l
      <4>3. QED
        BY <1>1, <4>1, <4>2 DEF KnownMatchesLanes
    <3>2. CASE m = l
      <4>1. /\ old(i) \in 1 .. Len(lanes[l]) /\ old(i) # k
            /\ lanes'[l][i] = lanes[l][old(i)]
        BY <1>7, <3>2
      <4>2. /\ lanes[l][old(i)].tx \in DOMAIN known
            /\ known[lanes[l][old(i)].tx] = l
            /\ lanes[l][old(i)].tx # t
        BY <1>1, <1>3, <4>1 DEF KnownMatchesLanes
      <4>3. ASSUME NEW j \in 1 .. Len(lanes'[m]), lanes'[m][i].tx = lanes'[m][j].tx
            PROVE  i = j
        <5>1. old(i) = old(j)
          BY <1>1, <1>7, <3>2, <4>1, <4>3 DEF KnownMatchesLanes
        <5>2. QED
          BY <1>7, <3>2, <5>1
      <4>4. QED
        BY <1>1, <3>2, <4>1, <4>2, <4>3
    <3>3. QED
      BY <3>1, <3>2
  <2>3. QED
    BY <2>1, <2>2 DEF KnownMatchesLanes, LaneHas
<1>11. BatchDisjoint' /\ Idle'
  BY <1>1 DEF BatchDisjoint, Idle, Free, popVars
<1>12. QED
  BY <1>9, <1>10, <1>11

(* Reset empties filter and lanes together (lanes.go:226-236).             *)
LEMMA ResetConsistent ==
  ASSUME Consistent, Reset
  PROVE  Consistent'
<1> USE DEF Consistent
<1>1. \A l \in Lanes : lanes'[l] = << >> /\ Len(lanes'[l]) = 0
  BY DEF Reset
<1>2. known' = << >> /\ DOMAIN known' = {} /\ UNCHANGED popVars
  BY DEF Reset
<1>3. TypeOK'
  BY <1>2 DEF TypeOK, Reset, popVars
<1>4. KnownMatchesLanes'
  BY <1>1, <1>2 DEF KnownMatchesLanes
<1>5. BatchDisjoint' /\ Idle'
  BY <1>2 DEF BatchDisjoint, Idle, Free, popVars
<1>6. QED
  BY <1>3, <1>4, <1>5

(* Taking a lane's head forgets its hash and moves it to the batch, which  *)
(* did not hold it (lanes.go:183-195).                                     *)
LEMMA TakeConsistent ==
  ASSUME Consistent, Take
  PROVE  Consistent'
<1> DEFINE l == Lane
           q == lanes[l]
           e == Head(q)
<1> USE DEF Consistent
<1>1. l \in Lanes /\ lanes \in [Lanes -> Seq(Entry)] /\ q # << >>
  BY LaneType DEF Take, CanTake, TypeOK
<1>2. /\ lanes' = [lanes EXCEPT ![l] = Tail(@)]
      /\ known' = [h \in DOMAIN known \ {e.tx} |-> known[h]]
      /\ batch' = Append(batch, e)
      /\ used' = (used + Gas[e.tx]) % W /\ spent' = spent + Gas[e.tx]
      /\ UNCHANGED <<phase, limits, total>>
  BY DEF Take
<1>3. phase \in 1 .. 6
  BY DEF Take, Draining
<1> HIDE DEF l
<1>4. /\ q \in Seq(Entry) /\ Len(q) \in Nat \ {0}
      /\ e \in Entry /\ e = q[1] /\ e.tx \in Tx
      /\ Tail(q) \in Seq(Entry) /\ Len(Tail(q)) = Len(q) - 1
      /\ \A i \in 1 .. (Len(q) - 1) : Tail(q)[i] = q[i + 1]
  <2>1. q \in Seq(Entry) /\ Len(q) \in Nat \ {0}
    BY <1>1, EmptySeq
  <2>2. e \in Entry /\ e = q[1]
    BY <1>1, <2>1, HeadTailProperties
  <2>3. QED
    BY <1>1, <2>1, <2>2, HeadTailProperties DEF Entry
<1>5. lanes'[l] = Tail(q) /\ \A m \in Lanes \ {l} : lanes'[m] = lanes[m]
  BY <1>1, <1>2
<1>6. /\ batch \in Seq(Entry) /\ batch' \in Seq(Entry)
      /\ Len(batch) \in Nat /\ Len(batch') = Len(batch) + 1
      /\ \A i \in 1 .. Len(batch) : batch'[i] = batch[i]
      /\ batch'[Len(batch) + 1] = e
  <2>1. batch \in Seq(Entry) /\ Len(batch) \in Nat
    BY LenProperties DEF TypeOK
  <2>2. QED
    BY <1>2, <1>4, <2>1, AppendProperties
<1> HIDE DEF e, q
<1>7. TypeOK'
  <2>1. Gas[e.tx] \in Nat /\ used' \in UInt /\ spent' \in Nat
    <3>1. Gas[e.tx] \in UInt
      BY <1>4, TxAssumption
    <3>2. Gas[e.tx] \in Nat /\ used \in Nat /\ spent \in Nat
      BY <3>1 DEF TypeOK, UInt
    <3>3. QED
      BY <1>2, <3>2, WrapType
  <2>2. lanes' \in [Lanes -> Seq(Entry)]
    BY <1>1, <1>2, <1>4, <1>5 DEF q
  <2>3. QED
    BY <1>2, <1>6, <2>1, <2>2 DEF TypeOK
<1>8. e.tx \in DOMAIN known /\ known[e.tx] = l
  BY <1>1, <1>4 DEF KnownMatchesLanes, q
<1>9. KnownMatchesLanes'
  <2>0. /\ DOMAIN known' = DOMAIN known \ {e.tx}
        /\ \A h \in DOMAIN known \ {e.tx} : known'[h] = known[h]
    BY <1>2
  <2>1. ASSUME NEW h \in DOMAIN known'
        PROVE  \E i \in 1 .. Len(lanes'[known'[h]]) : lanes'[known'[h]][i].tx = h
    <3>1. h \in DOMAIN known /\ h # e.tx /\ known'[h] = known[h] /\ known[h] \in Lanes
      BY <1>2 DEF TypeOK
    <3>2. PICK j \in 1 .. Len(lanes[known[h]]) : lanes[known[h]][j].tx = h
      BY <3>1 DEF KnownMatchesLanes, LaneHas
    <3>3. CASE known[h] = l
      <4>1. j # 1 /\ j \in 1 .. Len(q)
        BY <1>4, <3>1, <3>2, <3>3 DEF q
      <4>2. j - 1 \in 1 .. (Len(q) - 1) /\ (j - 1) + 1 = j
        BY <1>4, <4>1
      <4>3. lanes'[l][j - 1] = q[j] /\ j - 1 \in 1 .. Len(lanes'[l])
        BY <1>4, <1>5, <4>2
      <4>4. QED
        BY <3>1, <3>2, <3>3, <4>3 DEF q
    <3>4. CASE known[h] # l
      BY <1>5, <3>1, <3>2, <3>4
    <3>5. QED
      BY <3>3, <3>4
  <2>2. ASSUME NEW m \in Lanes, NEW i \in 1 .. Len(lanes'[m])
        PROVE  /\ lanes'[m][i].tx \in DOMAIN known'
               /\ known'[lanes'[m][i].tx] = m
               /\ \A j \in 1 .. Len(lanes'[m]) :
                    lanes'[m][i].tx = lanes'[m][j].tx => i = j
    <3>1. CASE m # l
      <4>1. /\ lanes[m][i].tx \in DOMAIN known /\ known[lanes[m][i].tx] = m
            /\ lanes'[m] = lanes[m]
        BY <1>5, <3>1 DEF KnownMatchesLanes
      <4>2. lanes[m][i].tx # e.tx
        BY <1>8, <3>1, <4>1
      <4>3. /\ lanes'[m][i].tx \in DOMAIN known'
            /\ known'[lanes'[m][i].tx] = m
        BY <2>0, <4>1, <4>2
      <4>4. \A j \in 1 .. Len(lanes'[m]) : lanes'[m][i].tx = lanes'[m][j].tx => i = j
        BY <4>1 DEF KnownMatchesLanes
      <4>5. QED
        BY <4>3, <4>4
    <3>2. CASE m = l
      <4>1. \A j \in 1 .. Len(lanes'[l]) :
               /\ j + 1 \in 1 .. Len(q) /\ lanes'[l][j] = q[j + 1] /\ j + 1 # 1
        BY <1>4, <1>5
      <4>2. \A j \in 1 .. Len(q) :
               /\ q[j].tx \in DOMAIN known /\ known[q[j].tx] = l
               /\ \A n \in 1 .. Len(q) : q[j].tx = q[n].tx => j = n
        BY <1>1 DEF KnownMatchesLanes, q
      <4>3. q[i + 1].tx # e.tx
        BY <1>4, <3>2, <4>1, <4>2
      <4>4. ASSUME NEW j \in 1 .. Len(lanes'[m]), lanes'[m][i].tx = lanes'[m][j].tx
            PROVE  i = j
        <5>1. i + 1 = j + 1
          BY <3>2, <4>1, <4>2, <4>4
        <5>2. i \in Int /\ j \in Int
          BY <1>4, <1>5, <3>2
        <5>3. QED
          BY <5>1, <5>2
      <4>5. /\ lanes'[m][i].tx = q[i + 1].tx
            /\ q[i + 1].tx \in DOMAIN known \ {e.tx} /\ known[q[i + 1].tx] = l
        BY <3>2, <4>1, <4>2, <4>3
      <4>6. QED
        BY <2>0, <3>2, <4>4, <4>5
    <3>3. QED
      BY <3>1, <3>2
  <2>3. QED
    BY <2>1, <2>2 DEF KnownMatchesLanes, LaneHas
<1>10. BatchDisjoint'
  <2>1. \A i \in 1 .. Len(batch) :
           /\ batch'[i] = batch[i] /\ batch[i].tx \notin DOMAIN known
           /\ batch[i].tx # e.tx
    BY <1>6, <1>8 DEF BatchDisjoint
  <2>2. \A i \in 1 .. Len(batch') : i \in 1 .. Len(batch) \/ i = Len(batch) + 1
    BY <1>6
  <2>3. \A i \in 1 .. Len(batch') : batch'[i].tx \notin DOMAIN known'
    BY <1>2, <1>6, <2>1, <2>2
  <2>4. \A i, j \in 1 .. Len(batch') : batch'[i].tx = batch'[j].tx => i = j
    BY <1>6, <2>1, <2>2 DEF BatchDisjoint
  <2>5. QED
    BY <2>3, <2>4 DEF BatchDisjoint
<1>11. Idle'
  BY <1>2, <1>3 DEF Idle, Free
<1>12. QED
  BY <1>7, <1>9, <1>10, <1>11

(* The end of a drain, its put-back included, changes neither filter,      *)
(* lanes nor batch (lanes.go:187-190).                                     *)
LEMMA EndDrainConsistent ==
  ASSUME Consistent, EndDrain
  PROVE  Consistent'
<1> USE DEF Consistent
<1>1. /\ phase \in 1 .. 6 /\ phase' = phase + 1
      /\ total' = (total + used) % W /\ used' = 0
      /\ UNCHANGED <<lanes, known, limits, batch, spent>>
  BY DEF EndDrain, Draining
<1>2. total' \in UInt /\ used' \in UInt
  <2>1. total + used \in Int
    BY DEF TypeOK, UInt
  <2>2. QED
    BY <1>1, <2>1, WrapType, WidthAssumption DEF UInt
<1>3. TypeOK'
  BY <1>1, <1>2 DEF TypeOK
<1>4. KnownMatchesLanes' /\ BatchDisjoint' /\ Idle'
  BY <1>1 DEF KnownMatchesLanes, LaneHas, BatchDisjoint, Idle, Free
<1>5. QED
  BY <1>3, <1>4

(* Handing the batch over empties it and nothing else.                     *)
LEMMA ReturnConsistent ==
  ASSUME Consistent, Return
  PROVE  Consistent'
<1> USE DEF Consistent
<1>1. /\ phase' = 0 /\ limits' = <<0, 0>> /\ batch' = << >>
      /\ used' = 0 /\ total' = 0 /\ spent' = 0
      /\ lanes' = lanes /\ known' = known
  BY DEF Return, poolVars
<1>2. TypeOK'
  BY <1>1, WidthAssumption DEF TypeOK, UInt
<1>3. KnownMatchesLanes'
  BY <1>1 DEF KnownMatchesLanes, LaneHas
<1>4. BatchDisjoint' /\ Idle'
  BY <1>1 DEF BatchDisjoint, Idle
<1>5. QED
  BY <1>2, <1>3, <1>4

(* A pop starts with an empty batch (lanes.go:135-145).                    *)
LEMMA StartPopConsistent ==
  ASSUME Consistent, NEW c \in Calls, StartPop(c)
  PROVE  Consistent'
<1> USE DEF Consistent
<1>1. /\ phase' = 1 /\ limits' = c /\ c \in Nat \X UInt
      /\ UNCHANGED <<lanes, known, batch, used, total, spent>>
  BY LimitsAssumption DEF StartPop
<1>2. TypeOK'
  BY <1>1 DEF TypeOK
<1>3. KnownMatchesLanes' /\ BatchDisjoint' /\ Idle'
  BY <1>1 DEF KnownMatchesLanes, LaneHas, BatchDisjoint, Idle, Free
<1>4. QED
  BY <1>2, <1>3

(* Every step keeps the pool consistent.                                   *)
LEMMA NextConsistent == Consistent /\ [Next]_vars => Consistent'
<1> SUFFICES ASSUME Consistent, [Next]_vars PROVE Consistent'
  OBVIOUS
<1>1. CASE \E t \in Tx, s \in Scores : Add(t, s)
  BY <1>1, AddConsistent
<1>2. CASE \E t \in Tx : Remove(t)
  BY <1>2, RemoveConsistent
<1>3. CASE Reset
  BY <1>3, ResetConsistent
<1>4. CASE \E c \in Calls : StartPop(c)
  BY <1>4, StartPopConsistent
<1>5. CASE Take
  BY <1>5, TakeConsistent
<1>6. CASE EndDrain
  BY <1>6, EndDrainConsistent
<1>7. CASE Return
  BY <1>7, ReturnConsistent
<1>8. CASE UNCHANGED vars
  BY <1>8 DEF vars, Consistent, TypeOK, KnownMatchesLanes, LaneHas, BatchDisjoint,
              Idle, Free
<1>9. QED
  BY <1>1, <1>2, <1>3, <1>4, <1>5, <1>6, <1>7, <1>8 DEF Next, PopStep

(* The pool is always consistent.                                          *)
LEMMA SpecConsistent == Spec => []Consistent
<1>1. Spec => Init /\ [][Next]_vars
  BY PTL DEF Spec
<1>2. QED
  BY InitConsistent, NextConsistent, <1>1, PTL

(* The pool's variables keep their types, through every interleaving of    *)
(* Add, Remove, Reset and the steps of PopBatchLaned.                      *)
THEOREM TypeCorrect == Spec => []TypeOK
<1>1. Consistent => TypeOK
  BY DEF Consistent
<1>2. QED
  BY SpecConsistent, <1>1, PTL

(* The duplicate filter (lm.known) and the lanes agree at every moment, in *)
(* the middle of a drain included: no admitted transaction is ever refused *)
(* as known while no lane holds it, and none sits in two places.           *)
THEOREM FilterMatchesLanes == Spec => []KnownMatchesLanes
<1>1. Consistent => KnownMatchesLanes
  BY DEF Consistent
<1>2. QED
  BY SpecConsistent, <1>1, PTL

(* A batch holds each of its transactions once, and none that is still in  *)
(* the pool: PopBatchLaned hands every transaction over exactly once.      *)
THEOREM HandsOverOnce == Spec => []BatchDisjoint
<1>1. Consistent => BatchDisjoint
  BY DEF Consistent
<1>2. QED
  BY SpecConsistent, <1>1, PTL

-----------------------------------------------------------------------------
(* Capacity.                                                               *)

(* Lengths are natural numbers.                                            *)
LEMMA LengthTypes ==
  ASSUME TypeOK
  PROVE  /\ Len(batch) \in Nat
         /\ \A l \in Lanes : Len(lanes[l]) \in Nat
         /\ totalLen \in Nat
<1>1. Len(batch) \in Nat /\ \A l \in Lanes : Len(lanes[l]) \in Nat
  BY LenProperties DEF TypeOK
<1> DEFINE f == Len(lanes["fast"])
           s == Len(lanes["std"])
           w == Len(lanes["slow"])
<1>2. f \in Nat /\ s \in Nat /\ w \in Nat
  BY <1>1 DEF Lanes
<1>3. totalLen = f + s + w
  BY DEF totalLen
<1> HIDE DEF f, s, w
<1>4. totalLen \in Nat
  BY <1>2, <1>3
<1>5. QED
  BY <1>1, <1>4

(* If one lane changes its length by d and the others stay, totalLen       *)
(* changes by d (lanes.go:200-204).                                        *)
LEMMA OneLaneChanges ==
  ASSUME TypeOK, NEW l \in Lanes, NEW d \in Int,
         Len(lanes'[l]) = Len(lanes[l]) + d,
         \A m \in Lanes \ {l} : lanes'[m] = lanes[m]
  PROVE  totalLen' = totalLen + d
<1> DEFINE f == Len(lanes["fast"])   f1 == Len(lanes'["fast"])
           s == Len(lanes["std"])    s1 == Len(lanes'["std"])
           w == Len(lanes["slow"])   w1 == Len(lanes'["slow"])
<1>1. f \in Nat /\ s \in Nat /\ w \in Nat
  BY LengthTypes DEF Lanes
<1>2. \/ f1 = f + d /\ s1 = s /\ w1 = w
      \/ f1 = f /\ s1 = s + d /\ w1 = w
      \/ f1 = f /\ s1 = s /\ w1 = w + d
  <2>1. CASE l = "fast"
    BY <2>1, Zenon DEF Lanes
  <2>2. CASE l = "std"
    BY <2>2, Zenon DEF Lanes
  <2>3. CASE l = "slow"
    BY <2>3, Zenon DEF Lanes
  <2>4. QED
    BY <2>1, <2>2, <2>3 DEF Lanes
<1>3. totalLen = f + s + w /\ totalLen' = f1 + s1 + w1
  BY DEF totalLen
<1> HIDE DEF f, s, w, f1, s1, w1
<1>4. QED
  BY <1>1, <1>2, <1>3

(* How each action changes the number of pending transactions.             *)
LEMMA AddLengths ==
  ASSUME Consistent, NEW t \in Tx, NEW score \in Scores, Add(t, score)
  PROVE  totalLen' = totalLen + 1
<1> DEFINE l == ClassifyLane(score)
           e == [tx |-> t, score |-> score]
<1>1. l \in Lanes /\ e \in Entry /\ lanes \in [Lanes -> Seq(Entry)]
  BY ClassifyLaneType DEF Entry, Consistent, TypeOK
<1>2. PICK k \in 0 .. Len(lanes[l]) :
        lanes' = [lanes EXCEPT ![l] = SeqExt!InsertAt(@, k + 1, e)]
  BY DEF Add
<1> HIDE DEF l, e
<1>3. Inserted(Entry, lanes[l], k, e, lanes'[l])
  <2>1. lanes'[l] = SeqExt!InsertAt(lanes[l], k + 1, e) /\ lanes[l] \in Seq(Entry)
    BY <1>1, <1>2
  <2>2. QED
    BY <1>1, <2>1, InsertAtProperties
<1>4. QED
  BY <1>1, <1>2, <1>3, OneLaneChanges DEF Inserted, Consistent

(* Remove makes the pool smaller by exactly one.                           *)
LEMMA RemoveLengths ==
  ASSUME Consistent, NEW t \in Tx, Remove(t)
  PROVE  totalLen' = totalLen - 1
<1> DEFINE l == known[t]
<1>1. l \in Lanes /\ lanes \in [Lanes -> Seq(Entry)]
  BY DEF Consistent, TypeOK, Remove
<1>2. PICK k \in 1 .. Len(lanes[l]) :
        lanes' = [lanes EXCEPT ![l] = SeqExt!RemoveAt(@, k)]
  BY DEF Remove, Consistent, KnownMatchesLanes
<1> HIDE DEF l
<1>3. Removed(Entry, lanes[l], k, lanes'[l])
  <2>1. lanes'[l] = SeqExt!RemoveAt(lanes[l], k) /\ lanes[l] \in Seq(Entry)
    BY <1>1, <1>2
  <2>2. QED
    BY <2>1, RemoveAtProperties
<1>4. QED
  <2>1. Len(lanes[l]) \in Nat
    BY <1>1, LenProperties
  <2>2. Len(lanes'[l]) = Len(lanes[l]) + (-1)
    BY <1>3, <2>1 DEF Removed
  <2>3. totalLen' = totalLen + (-1)
    BY <1>1, <1>2, <2>2, OneLaneChanges DEF Consistent
  <2>4. QED
    BY <2>3, LengthTypes DEF Consistent, totalLen, Lanes

(* Taking an entry moves one from the pool to the batch.                   *)
LEMMA TakeLengths ==
  ASSUME Consistent, Take
  PROVE  totalLen' = totalLen - 1 /\ Len(batch') = Len(batch) + 1
<1> DEFINE l == Lane
           q == lanes[l]
<1>1. l \in Lanes /\ lanes \in [Lanes -> Seq(Entry)] /\ q # << >>
  BY LaneType DEF Take, CanTake, Consistent, TypeOK
<1>2. lanes' = [lanes EXCEPT ![l] = Tail(@)] /\ batch' = Append(batch, Head(q))
  BY DEF Take
<1>3. q \in Seq(Entry) /\ Head(q) \in Entry /\ batch \in Seq(Entry)
  BY <1>1, HeadTailProperties DEF Consistent, TypeOK
<1> HIDE DEF l
<1>4. Len(lanes'[l]) = Len(lanes[l]) - 1
  BY <1>1, <1>2, <1>3, HeadTailProperties
<1>5. Len(batch') = Len(batch) + 1
  BY <1>2, <1>3, AppendProperties
<1>6. totalLen' = totalLen - 1
  <2>1. Len(lanes[l]) \in Nat
    BY <1>1, LenProperties
  <2>2. Len(lanes'[l]) = Len(lanes[l]) + (-1)
    BY <1>4, <2>1
  <2>3. totalLen' = totalLen + (-1)
    BY <1>1, <1>2, <2>2, OneLaneChanges DEF Consistent
  <2>4. QED
    BY <2>3, LengthTypes DEF Consistent, totalLen, Lanes
<1>7. QED
  BY <1>5, <1>6

(* No step takes pool and batch together beyond maxSize: only Add adds,    *)
(* and it tests first (lanes.go:95).                                       *)
LEMMA NextCapacity ==
  Consistent /\ CapacityRespected /\ [Next]_vars => CapacityRespected'
<1> SUFFICES ASSUME Consistent, CapacityRespected, [Next]_vars
             PROVE  CapacityRespected'
  OBVIOUS
<1> USE DEF CapacityRespected
<1>1. /\ Len(batch) \in Nat /\ totalLen \in Nat /\ MaxSize \in Nat
      /\ totalLen + Len(batch) <= MaxSize
  BY LengthTypes, LimitsAssumption DEF Consistent
<1>2. ASSUME NEW t \in Tx, NEW s \in Scores, Add(t, s)
      PROVE  CapacityRespected'
  <2>1. Len(batch') = 0 /\ totalLen < MaxSize
    BY <1>2 DEF Add, Consistent, Idle, Accepts, popVars
  <2>2. totalLen' = totalLen + 1
    BY <1>2, AddLengths
  <2>3. QED
    BY <1>1, <2>1, <2>2
<1>3. ASSUME NEW t \in Tx, Remove(t)
      PROVE  CapacityRespected'
  <2>1. totalLen' = totalLen - 1 /\ batch' = batch
    BY <1>3, RemoveLengths DEF Remove, popVars
  <2>2. QED
    BY <1>1, <2>1
<1>4. CASE Reset
  <2>1. totalLen' = 0
    BY <1>4 DEF Reset, Lanes, totalLen
  <2>2. Len(batch') = 0
    BY <1>4 DEF Reset, Consistent, Idle, popVars
  <2>3. QED
    BY <1>1, <2>1, <2>2
<1>5. ASSUME NEW c \in Calls, StartPop(c)
      PROVE  CapacityRespected'
  BY <1>5 DEF StartPop, totalLen
<1>6. CASE Take
  <2>1. totalLen' = totalLen - 1 /\ Len(batch') = Len(batch) + 1
    BY <1>6, TakeLengths
  <2>2. QED
    BY <1>1, <2>1
<1>7. CASE EndDrain
  BY <1>7 DEF EndDrain, totalLen
<1>8. CASE Return
  <2>1. totalLen' = totalLen /\ Len(batch') = 0
    BY <1>8 DEF Return, poolVars, totalLen
  <2>2. QED
    BY <1>1, <2>1
<1>9. CASE UNCHANGED vars
  BY <1>9 DEF vars, totalLen
<1>10. QED
  BY <1>2, <1>3, <1>4, <1>5, <1>6, <1>7, <1>8, <1>9 DEF Next, PopStep

(* A new pool is empty.                                                    *)
LEMMA InitCapacity == Init => CapacityRespected
  BY LimitsAssumption DEF Init, CapacityRespected, totalLen, Lanes

(* The pool never holds more than maxSize transactions, and what a pop has *)
(* drained could always be put back without exceeding it.                  *)
THEOREM NeverOverfull == Spec => []CapacityRespected
<1>1. Init => CapacityRespected
  BY InitCapacity
<1>2. Spec => Init /\ [][Next]_vars
  BY PTL DEF Spec
<1>3. QED
  BY SpecConsistent, NextCapacity, <1>1, <1>2, PTL

-----------------------------------------------------------------------------
(* Gas.                                                                    *)

(* Why a batch stays within its limits: the drains that have returned and  *)
(* the one in progress account for the whole batch, each of the first      *)
(* three stays within its lane's share, the shares add up to at most the   *)
(* limit, and the others share what is left.                               *)
GasAccounted ==
  /\ phase # 0 => limits \in Calls
  /\ Len(batch) <= limits[1]
  /\ spent = total + used
  /\ total + used <= limits[2]
  /\ Draining => used <= Budget
  /\ phase = 1 => total = 0
  /\ phase = 2 => total <= Share("fast", limits[2])
  /\ phase = 3 => total <= Share("fast", limits[2]) + Share("std", limits[2])

(* Without wrap-around the three shares add up to no more than the limit.  *)
LEMMA SharesFit ==
  ASSUME NoWrap, NEW c \in Calls
  PROVE  /\ \A l \in Lanes : Share(l, c[2]) \in Nat
         /\ Share("fast", c[2]) + Share("std", c[2]) + Share("slow", c[2]) <= c[2]
<1>1. c[2] \in Nat /\ W \in Nat /\ c[2] * 4000 < W
  BY LimitsAssumption, WidthAssumption DEF NoWrap, UInt
<1>2. (c[2] * 4000) % W = c[2] * 4000 /\ (c[2] * 2000) % W = c[2] * 2000
  BY <1>1
<1>3. /\ Share("fast", c[2]) = (c[2] * 4000) \div 10000
      /\ Share("std", c[2]) = (c[2] * 4000) \div 10000
      /\ Share("slow", c[2]) = (c[2] * 2000) \div 10000
  BY <1>2 DEF Share, LaneGasBps
<1>4. \A a \in Nat : /\ (a * 4000) \div 10000 \in Nat
                     /\ (a * 2000) \div 10000 \in Nat
                     /\ ((a * 4000) \div 10000) + ((a * 4000) \div 10000)
                           + ((a * 2000) \div 10000) <= a
  OBVIOUS
<1>5. QED
  BY <1>1, <1>3, <1>4 DEF Lanes

(* What a drain may still take fits into the limit together with what the  *)
(* drains before it took.                                                  *)
LEMMA BudgetFits ==
  ASSUME NoWrap, Consistent, GasAccounted, Draining, NEW g \in Nat, g <= Budget
  PROVE  total + g <= limits[2]
<1>1. /\ limits \in Calls /\ limits[2] \in Nat /\ phase \in 1 .. 6
      /\ limits[2] < W /\ W \in Nat
  BY LimitsAssumption, WidthAssumption DEF GasAccounted, Draining, UInt
<1>2. total \in Nat /\ used \in Nat /\ total + used <= limits[2]
  BY DEF GasAccounted, Consistent, TypeOK, UInt
<1> DEFINE f == Share("fast", limits[2])
           s == Share("std", limits[2])
           w == Share("slow", limits[2])
<1>3. f \in Nat /\ s \in Nat /\ w \in Nat /\ f + s + w <= limits[2]
  BY <1>1, SharesFit DEF Lanes
<1>4. CASE phase = 1
  <2>1. Budget = f /\ total = 0
    BY <1>4 DEF Budget, Lane, DrainedLane, GasAccounted
  <2> HIDE DEF f, s, w
  <2>2. QED
    BY <1>1, <1>3, <2>1
<1>5. CASE phase = 2
  <2>1. Budget = s /\ total <= f
    BY <1>5 DEF Budget, Lane, DrainedLane, GasAccounted
  <2> HIDE DEF f, s, w
  <2>2. QED
    BY <1>1, <1>2, <1>3, <2>1
<1>6. CASE phase = 3
  <2>1. Budget = w /\ total <= f + s
    BY <1>6 DEF Budget, Lane, DrainedLane, GasAccounted
  <2> HIDE DEF f, s, w
  <2>2. QED
    BY <1>1, <1>2, <1>3, <2>1
<1>7. CASE phase \in 4 .. 6
  <2>1. Budget = (limits[2] - total) % W
    BY <1>7 DEF Budget, remaining
  <2>2. limits[2] - total \in 0 .. (W - 1)
    BY <1>1, <1>2
  <2>3. (limits[2] - total) % W = limits[2] - total
    BY <2>2, WidthAssumption
  <2>4. QED
    BY <1>1, <1>2, <2>1, <2>3
<1>8. QED
  BY <1>1, <1>4, <1>5, <1>6, <1>7

(* Taking an entry that fits its budget keeps the gas accounts: no sum     *)
(* wraps, and no phase spends more than it may (lanes.go:183-195).         *)
LEMMA TakeGas ==
  ASSUME NoWrap, Consistent, GasAccounted, Take
  PROVE  GasAccounted'
<1> DEFINE e == Head(lanes[Lane])
<1>1. /\ limits \in Calls /\ limits[2] \in Nat /\ limits[1] \in Nat
      /\ phase \in 1 .. 6
  BY LimitsAssumption DEF GasAccounted, Take, Draining, UInt
<1>2. /\ e.tx \in Tx /\ Gas[e.tx] \in Nat
  <2>1. lanes[Lane] \in Seq(Entry) /\ lanes[Lane] # << >>
    BY LaneType DEF Take, CanTake, Consistent, TypeOK
  <2>2. e \in Entry
    BY <2>1, HeadTailProperties
  <2>3. e.tx \in Tx
    BY <2>2 DEF Entry
  <2>4. Gas[e.tx] \in UInt
    BY <2>3, TxAssumption
  <2>5. QED
    BY <2>3, <2>4 DEF UInt
<1>3. /\ (used + Gas[e.tx]) % W <= Budget
      /\ used' = (used + Gas[e.tx]) % W /\ spent' = spent + Gas[e.tx]
      /\ Len(batch) < limits[1]
      /\ UNCHANGED <<phase, limits, total>>
  BY DEF Take, CanTake, Fits
<1>4. /\ used \in Nat /\ total \in Nat /\ spent = total + used
      /\ total + used <= limits[2]
  BY DEF GasAccounted, Consistent, TypeOK, UInt
<1> HIDE DEF e
<1>5. /\ used' = used + Gas[e.tx] /\ used + Gas[e.tx] <= Budget
  <2>1. limits[2] + Gas[e.tx] < W
    BY <1>1, <1>2 DEF NoWrap
  <2>2. used + Gas[e.tx] \in 0 .. (W - 1)
    BY <1>1, <1>2, <1>4, <2>1, WidthAssumption
  <2>3. (used + Gas[e.tx]) % W = used + Gas[e.tx]
    BY <2>2, WidthAssumption
  <2>4. QED
    BY <1>3, <2>3
<1>6. Budget' = Budget
  BY <1>3 DEF Budget, Lane, remaining
<1>7. total + (used + Gas[e.tx]) <= limits[2]
  <2>1. used + Gas[e.tx] \in Nat /\ Draining
    BY <1>1, <1>2, <1>4 DEF Draining
  <2>2. QED
    BY <1>5, <2>1, BudgetFits
<1>8. Len(batch') <= limits'[1]
  <2>1. Len(batch') = Len(batch) + 1 /\ Len(batch) \in Nat
    BY TakeLengths, LengthTypes DEF Consistent
  <2>2. QED
    BY <1>1, <1>3, <2>1
<1>9. spent' = total' + used' /\ total' + used' <= limits'[2]
  BY <1>2, <1>3, <1>4, <1>5, <1>7
<1>10. Draining' => used' <= Budget'
  BY <1>5, <1>6
<1>11. /\ phase' = 1 => total' = 0
       /\ phase' = 2 => total' <= Share("fast", limits'[2])
       /\ phase' = 3 => total' <= Share("fast", limits'[2]) + Share("std", limits'[2])
  BY <1>3 DEF GasAccounted
<1>12. QED
  BY <1>1, <1>3, <1>8, <1>9, <1>10, <1>11 DEF GasAccounted

(* Adding a drain's gas to the total keeps them, so that the next budget   *)
(* is what is really left (lanes.go:147-174).                              *)
LEMMA EndDrainGas ==
  ASSUME NoWrap, Consistent, GasAccounted, EndDrain
  PROVE  GasAccounted'
<1>1. /\ limits \in Calls /\ limits[2] \in Nat /\ limits[1] \in Nat
      /\ phase \in 1 .. 6 /\ limits[2] < W /\ W \in Nat
  BY LimitsAssumption, WidthAssumption DEF GasAccounted, EndDrain, Draining, UInt
<1>2. /\ phase' = phase + 1 /\ used' = 0 /\ total' = (total + used) % W
      /\ UNCHANGED <<lanes, known, limits, batch, spent>>
  BY DEF EndDrain
<1>3. /\ used \in Nat /\ total \in Nat /\ spent = total + used
      /\ total + used <= limits[2] /\ used <= Budget
  BY DEF GasAccounted, Consistent, TypeOK, UInt, EndDrain
<1>4. total' = total + used
  <2>1. total + used \in 0 .. (W - 1)
    BY <1>1, <1>3
  <2>2. QED
    BY <1>2, <2>1, WidthAssumption
<1>5. \A l \in Lanes : Share(l, limits[2]) \in Nat
  BY <1>1, SharesFit
<1>6. phase' \in 1 .. 6 => used' <= Budget'
  <2>1. CASE phase' <= 3
    <3>1. phase' \in 1 .. 3 /\ Lane' \in Lanes
      BY <1>1, <1>2, <2>1 DEF Lane, DrainedLane, Lanes
    <3>2. Budget' = Share(Lane', limits[2])
      BY <1>2, <3>1 DEF Budget
    <3>3. QED
      BY <1>2, <1>5, <3>1, <3>2
  <2>2. CASE phase' > 3
    <3>1. Budget' = (limits[2] - total') % W
      BY <1>1, <1>2, <2>2 DEF Budget, remaining
    <3>2. limits[2] - total' \in Int
      BY <1>1, <1>3, <1>4
    <3>3. (limits[2] - total') % W \in UInt
      BY <3>2, WrapType
    <3>4. QED
      BY <1>2, <3>1, <3>3 DEF UInt
  <2>3. QED
    BY <1>1, <1>2, <2>1, <2>2
<1>7. /\ phase' = 1 => total' = 0
      /\ phase' = 2 => total' <= Share("fast", limits'[2])
      /\ phase' = 3 => total' <= Share("fast", limits'[2]) + Share("std", limits'[2])
  <2>1. phase' # 1
    BY <1>1, <1>2
  <2>2. CASE phase = 1
    <3>1. Budget = Share("fast", limits[2]) /\ total = 0
      BY <2>2 DEF Budget, Lane, DrainedLane, GasAccounted
    <3>2. QED
      BY <1>2, <1>3, <1>4, <2>2, <3>1
  <2>3. CASE phase = 2
    <3>1. Budget = Share("std", limits[2]) /\ total <= Share("fast", limits[2])
      BY <2>3 DEF Budget, Lane, DrainedLane, GasAccounted
    <3>2. Share("fast", limits[2]) \in Nat /\ Share("std", limits[2]) \in Nat
      BY <1>5 DEF Lanes
    <3>3. QED
      BY <1>2, <1>3, <1>4, <2>3, <3>1, <3>2
  <2>4. CASE phase \in 3 .. 6
    BY <1>2, <2>4
  <2>5. QED
    BY <1>1, <2>2, <2>3, <2>4
<1>8. /\ spent' = total' + used' /\ total' + used' <= limits'[2]
      /\ Len(batch') <= limits'[1]
  BY <1>2, <1>3, <1>4 DEF GasAccounted
<1>9. QED
  BY <1>1, <1>2, <1>6, <1>7, <1>8 DEF GasAccounted, Draining

(* No other step touches the accounts, except to open and close them.      *)
LEMMA OtherGas ==
  ASSUME NoWrap, Consistent, GasAccounted,
         \/ UNCHANGED popVars
         \/ Return
         \/ \E c \in Calls : StartPop(c)
  PROVE  GasAccounted'
<1>1. CASE UNCHANGED popVars
  BY <1>1 DEF popVars, GasAccounted, Draining, Budget, Lane, remaining
<1>2. CASE Return
  BY <1>2 DEF Return, GasAccounted, Draining
<1>3. ASSUME NEW c \in Calls, StartPop(c)
      PROVE  GasAccounted'
  <2>1. /\ batch' = << >> /\ used' = 0 /\ total' = 0 /\ spent' = 0
        /\ phase' = 1 /\ limits' = c
    BY <1>3 DEF StartPop, Consistent, Idle
  <2>2. c[1] \in Nat /\ c[2] \in Nat
    BY LimitsAssumption DEF UInt
  <2>3. Budget' = Share("fast", c[2])
    BY <2>1 DEF Budget, Lane, DrainedLane
  <2>4. Share("fast", c[2]) \in Nat
    BY SharesFit DEF Lanes
  <2>5. QED
    BY <2>1, <2>2, <2>3, <2>4 DEF GasAccounted
<1>4. QED
  BY <1>1, <1>2, <1>3

(* Every step keeps the gas accounts.                                      *)
LEMMA NextGas ==
  ASSUME NoWrap
  PROVE  Consistent /\ GasAccounted /\ [Next]_vars => GasAccounted'
<1> SUFFICES ASSUME Consistent, GasAccounted, [Next]_vars PROVE GasAccounted'
  OBVIOUS
<1>1. CASE Take
  BY <1>1, TakeGas
<1>2. CASE EndDrain
  BY <1>2, EndDrainGas
<1>3. CASE \E t \in Tx, s \in Scores : Add(t, s)
  BY <1>3, OtherGas DEF Add
<1>4. CASE \E t \in Tx : Remove(t)
  BY <1>4, OtherGas DEF Remove
<1>5. CASE Reset
  BY <1>5, OtherGas DEF Reset
<1>6. CASE Return \/ \E c \in Calls : StartPop(c)
  BY <1>6, OtherGas
<1>7. CASE UNCHANGED vars
  BY <1>7, OtherGas DEF vars, popVars
<1>8. QED
  BY <1>1, <1>2, <1>3, <1>4, <1>5, <1>6, <1>7 DEF Next, PopStep

(* A new pool has used no gas.                                             *)
LEMMA InitGas == Init => GasAccounted
  BY DEF Init, GasAccounted, Draining

(* PopBatch respects both of its limits: as long as the caller's gas limit *)
(* stays clear of 2^64 (NoWrap), no batch holds more than maxTx            *)
(* transactions or asks for more gas than gasLimit in all.                 *)
THEOREM PopRespectsLimits ==
  ASSUME NoWrap
  PROVE  Spec => []BatchWithinLimits
<1>1. Init => GasAccounted
  BY InitGas
<1>2. Spec => Init /\ [][Next]_vars
  BY PTL DEF Spec
<1>3. Consistent /\ GasAccounted => BatchWithinLimits
  <2> SUFFICES ASSUME Consistent, GasAccounted, phase = 7
               PROVE  Len(batch) <= limits[1] /\ spent <= limits[2]
    BY DEF BatchWithinLimits
  <2>1. QED
    BY DEF GasAccounted
<1>4. Consistent /\ GasAccounted /\ [Next]_vars => GasAccounted'
  BY NextGas
<1>5. QED
  BY SpecConsistent, <1>1, <1>2, <1>3, <1>4, PTL


-----------------------------------------------------------------------------
(* A pop is one step.  First, dealing a batch out to its lanes, which is a *)
(* recursive function on the batch.                                        *)

(* Induction: every nonempty set of numbers has a least element.           *)
LEMMA LeastElement ==
  ASSUME NEW T, T \subseteq Nat, T # {}
  PROVE  \E x \in T : \A y \in T : x <= y
<1>1. IsWellFoundedOn({ss \in Nat \X Nat : ss[1] < ss[2]}, Nat)
  <2>1. OpToRel(<, Nat) = {ss \in Nat \X Nat : ss[1] < ss[2]}
    BY Zenon DEF OpToRel
  <2>2. QED
    BY <2>1, NatLessThanWellFounded
<1>2. PICK x \in T : \A y \in T : <<y, x>> \notin {ss \in Nat \X Nat : ss[1] < ss[2]}
  BY <1>1, WFMin
<1>3. ASSUME NEW y \in T, y < x PROVE FALSE
  <2>1. <<y, x>> \in Nat \X Nat /\ <<y, x>>[1] = y /\ <<y, x>>[2] = x
    OBVIOUS
  <2>2. QED
    BY <1>2, <1>3, <2>1
<1>4. QED
  BY <1>3

IsDealing(d, s, n) ==
  d = [i \in 0 .. n |-> IF i = 0 THEN NothingDealt ELSE Deal(d[i - 1], s[i])]

(* Its equation, one entry at a time.                                      *)
LEMMA DealingAt ==
  ASSUME NEW d, NEW s, NEW n, IsDealing(d, s, n), NEW i \in 0 .. n
  PROVE  d[i] = IF i = 0 THEN NothingDealt ELSE Deal(d[i - 1], s[i])
<1> DEFINE step(k) == IF k = 0 THEN NothingDealt ELSE Deal(d[k - 1], s[k])
           e == [k \in 0 .. n |-> step(k)]
<1>1. d = e
  BY Zenon DEF IsDealing
<1> HIDE DEF step
<1>2. e[i] = step(i)
  BY Zenon
<1> HIDE DEF e
<1>3. QED
  BY <1>1, <1>2, Zenon DEF step

(* Any number of entries can be dealt out.                                 *)
LEMMA DealingExists ==
  ASSUME NEW s
  PROVE  \A n \in Nat : \E d : IsDealing(d, s, n)
<1> DEFINE T == {n \in Nat : ~ \E d : IsDealing(d, s, n)}
           step(d, k) == IF k = 0 THEN NothingDealt ELSE Deal(d[k - 1], s[k])
<1>1. T = {}
  <2> SUFFICES ASSUME T # {} PROVE FALSE
    OBVIOUS
  <2>1. PICK n \in T : \A y \in T : n <= y
    BY LeastElement
  <2>2. n \in Nat /\ ~ \E d : IsDealing(d, s, n)
    OBVIOUS
  <2>3. PICK e : \A k \in 0 .. (n - 1) : e[k] = step(e, k)
    <3>1. CASE n = 0
      BY <3>1
    <3>2. CASE n # 0
      <4>1. n - 1 \in Nat /\ n - 1 \notin T
        BY <2>1, <2>2, <3>2
      <4>2. PICK d : IsDealing(d, s, n - 1)
        BY <4>1
      <4>3. \A k \in 0 .. (n - 1) : d[k] = step(d, k)
        BY <4>2, DealingAt
      <4>4. QED
        BY <4>3
    <3>3. QED
      BY <3>1, <3>2
  <2> DEFINE d == [k \in 0 .. n |-> step(e, k)]
  <2>4. \A k \in 0 .. n : d[k] = step(e, k)
    OBVIOUS
  <2> HIDE DEF d
  <2>5. ASSUME NEW k \in 0 .. n PROVE step(e, k) = step(d, k)
    <3>1. CASE k = 0
      BY <3>1
    <3>2. CASE k # 0
      <4>1. k - 1 \in 0 .. n /\ k - 1 \in 0 .. (n - 1)
        BY <2>2, <3>2
      <4>2. d[k - 1] = e[k - 1]
        BY <2>3, <2>4, <4>1
      <4>3. QED
        BY <3>2, <4>2
    <3>3. QED
      BY <3>1, <3>2
  <2>6. d = [k \in 0 .. n |-> step(d, k)]
    <3>1. [k \in 0 .. n |-> step(e, k)] = [k \in 0 .. n |-> step(d, k)]
      <4> HIDE DEF step
      <4>1. QED
        BY <2>5
    <3>2. QED
      BY <3>1, Zenon DEF d
  <2>7. IsDealing(d, s, n)
    BY <2>6, Zenon DEF IsDealing
  <2>8. QED
    BY <2>2, <2>7
<1>2. QED
  BY <1>1

(* Dealt is such a function.                                               *)
LEMMA DealtIs ==
  ASSUME NEW s, Len(s) \in Nat
  PROVE  \E d : IsDealing(d, s, Len(s)) /\ Dealt(s) = d[Len(s)]
<1> DEFINE d == CHOOSE x : IsDealing(x, s, Len(s))
<1>1. IsDealing(d, s, Len(s))
  BY DealingExists
<1>2. Dealt(s) = d[Len(s)]
  BY Zenon DEF Dealt, IsDealing
<1> HIDE DEF d
<1>3. QED
  BY <1>1, <1>2

(* s and r have the same first n entries.                                  *)
SameEntries(s, r, n) == \A i \in 1 .. n : s[i] = r[i]

(* What is dealt out depends on the entries so far only.                   *)
LEMMA DealingAgrees ==
  ASSUME NEW s, NEW r, NEW m \in Nat, NEW n \in Nat, m <= n,
         NEW d, IsDealing(d, s, m), NEW e, IsDealing(e, r, n), SameEntries(s, r, m)
  PROVE  \A i \in 0 .. m : d[i] = e[i]
<1> DEFINE T == {i \in 0 .. m : d[i] # e[i]}
<1>1. T = {}
  <2> SUFFICES ASSUME T # {} PROVE FALSE
    OBVIOUS
  <2>1. T \subseteq Nat
    OBVIOUS
  <2>2. PICK i \in T : \A y \in T : i <= y
    BY <2>1, LeastElement
  <2>3. i \in 0 .. m /\ i \in 0 .. n /\ d[i] # e[i]
    OBVIOUS
  <2>4. d[i] = IF i = 0 THEN NothingDealt ELSE Deal(d[i - 1], s[i])
    BY <2>3, DealingAt
  <2>5. e[i] = IF i = 0 THEN NothingDealt ELSE Deal(e[i - 1], r[i])
    BY <2>3, DealingAt
  <2>6. CASE i = 0
    BY <2>3, <2>4, <2>5, <2>6
  <2>7. CASE i # 0
    <3>1. i - 1 \in 0 .. m /\ i - 1 \notin T /\ i \in 1 .. m
      BY <2>2, <2>3, <2>7
    <3>2. d[i - 1] = e[i - 1] /\ s[i] = r[i]
      BY <3>1 DEF SameEntries
    <3>3. QED
      BY <2>3, <2>4, <2>5, <2>7, <3>2, Zenon
  <2>8. QED
    BY <2>6, <2>7
<1>2. QED
  BY <1>1

(* An empty batch holds nothing of any lane.                               *)
LEMMA DealtEmpty == Dealt(<< >>) = NothingDealt
<1>1. Len(<< >>) = 0 /\ 0 \in 0 .. 0
  OBVIOUS
<1>2. PICK d : IsDealing(d, << >>, 0) /\ Dealt(<< >>) = d[0]
  BY <1>1, DealtIs
<1>3. d[0] = IF 0 = 0 THEN NothingDealt ELSE Deal(d[0 - 1], << >>[0])
  BY <1>1, <1>2, DealingAt
<1>4. QED
  BY <1>2, <1>3

(* One entry more is one entry more of its lane.                           *)
LEMMA DealtAppend ==
  ASSUME NEW S, NEW s \in Seq(S), NEW e \in S
  PROVE  Dealt(Append(s, e)) = Deal(Dealt(s), e)
<1> DEFINE r == Append(s, e)
           n == Len(s)
<1>1. /\ n \in Nat /\ Len(r) = n + 1 /\ r[n + 1] = e
      /\ \A i \in 1 .. n : s[i] = r[i]
  BY AppendProperties, LenProperties
<1>2. PICK d : IsDealing(d, s, n) /\ Dealt(s) = d[n]
  BY <1>1, DealtIs
<1> HIDE DEF r, n
<1>3. PICK f : IsDealing(f, r, n + 1) /\ Dealt(r) = f[n + 1]
  <2>1. Len(r) \in Nat
    BY <1>1
  <2>2. QED
    BY <1>1, <2>1, DealtIs
<1>4. f[n + 1] = Deal(f[n], e)
  <2>1. n + 1 \in 0 .. (n + 1) /\ n + 1 # 0 /\ (n + 1) - 1 = n
    BY <1>1
  <2>2. f[n + 1] = IF n + 1 = 0 THEN NothingDealt ELSE Deal(f[(n + 1) - 1], r[n + 1])
    BY <1>3, <2>1, DealingAt
  <2>3. QED
    BY <1>1, <2>1, <2>2
<1>5. d[n] = f[n]
  <2>1. n + 1 \in Nat /\ n <= n + 1 /\ n \in 0 .. n
    BY <1>1
  <2>2. SameEntries(s, r, n)
    BY <1>1 DEF SameEntries
  <2>3. \A i \in 0 .. n : d[i] = f[i]
    BY <1>1, <1>2, <1>3, <2>1, <2>2, DealingAgrees
  <2>4. QED
    BY <2>1, <2>3
<1>6. QED
  BY <1>2, <1>3, <1>4, <1>5, Zenon DEF r


-----------------------------------------------------------------------------
(* What the drains leave behind.                                           *)

(* The place of a lane in the order in which lanes are drained.            *)
Rank == [fast |-> 1, std |-> 2, slow |-> 3]
(* The batch dealt out, no room for another entry, the gas of the next.    *)
Hand == Dealt(batch)
Full == Len(batch) >= limits[1]
HeadGas(l) == Gas[Head(lanes[l]).tx]

(* Once a lane's guaranteed drain is over, its next entry overflows the    *)
(* lane's share.                                                           *)
GuaranteeKept(l) ==
  phase > Rank[l] => \/ Full
                     \/ lanes[l] = << >>
                     \/ Hand.gas[l] + HeadGas(l) > Share(l, limits[2])

(* Once its leftover drain is over, its next entry overflows the limit.    *)
NothingUsable(l) ==
  phase > Rank[l] + 3 => \/ Full
                         \/ lanes[l] = << >>
                         \/ spent + HeadGas(l) > limits[2]

(* What the batch holds of a lane while the pop goes on: nothing, what the *)
(* drain in progress took, what fits the share, and then some leftover.    *)
LaneGas(l) ==
  /\ phase < Rank[l] => Hand.gas[l] = 0
  /\ phase = Rank[l] => Hand.gas[l] = used
  /\ phase \in Rank[l] .. (Rank[l] + 2) => Hand.gas[l] <= Share(l, limits[2])
  /\ phase = Rank[l] + 3 => Hand.gas[l] <= Share(l, limits[2]) + used

(* Every entry is in the lane of its score.                                *)
Classified == \A l \in Lanes : \A i \in 1 .. Len(lanes[l]) :
                ClassifyLane(lanes[l][i].score) = l

HandSound ==
  /\ Hand \in [taken : [Lanes -> Seq(Entry)], gas : [Lanes -> Nat]]
  /\ spent = Hand.gas["fast"] + Hand.gas["std"] + Hand.gas["slow"]

Thorough ==
  /\ Free => limits = <<0, 0>>
  /\ phase >= 4 /\ used > 0 => total < limits[2]
  /\ Classified
  /\ HandSound
  /\ \A l \in Lanes : GuaranteeKept(l) /\ NothingUsable(l) /\ LaneGas(l)

(* Nothing has been taken yet: a new pool, a free lock.                    *)
LEMMA NothingTaken ==
  ASSUME batch = << >>, spent = 0
  PROVE  HandSound /\ \A l \in Lanes : Hand.gas[l] = 0
<1>1. Hand = NothingDealt
  BY DealtEmpty, Zenon DEF Hand
<1>2. << >> \in Seq(Entry)
  OBVIOUS
<1>3. QED
  BY <1>1, <1>2 DEF HandSound, NothingDealt, Lanes

(* A new pool.                                                             *)
LEMMA InitThorough == Init => Thorough
<1> SUFFICES ASSUME Init PROVE Thorough
  OBVIOUS
<1>1. /\ phase = 0 /\ limits = <<0, 0>> /\ batch = << >> /\ used = 0 /\ spent = 0
      /\ \A l \in Lanes : Len(lanes[l]) = 0
  BY DEF Init
<1>2. Classified
  BY <1>1 DEF Classified
<1>3. HandSound /\ \A l \in Lanes : Hand.gas[l] = 0
  BY <1>1, NothingTaken
<1>4. \A l \in Lanes : Rank[l] \in 1 .. 3
  BY DEF Rank, Lanes
<1>5. \A l \in Lanes : GuaranteeKept(l) /\ NothingUsable(l) /\ LaneGas(l)
  BY <1>1, <1>3, <1>4 DEF GuaranteeKept, NothingUsable, LaneGas
<1>6. QED
  BY <1>1, <1>2, <1>3, <1>5 DEF Thorough

(* What happens while the lock is free, and its being taken and given up,  *)
(* leaves nothing behind but well sorted lanes.                            *)
LEMMA FreeThorough ==
  ASSUME batch' = << >>, spent' = 0, used' = 0, phase' \in {0, 1}, Classified',
         limits' \in Nat \X UInt,
         phase' = 0 => limits' = <<0, 0>>
  PROVE  Thorough'
<1>1. HandSound' /\ \A l \in Lanes : Hand'.gas[l] = 0
  <2>1. Hand' = NothingDealt
    BY DealtEmpty, Zenon DEF Hand
  <2>2. << >> \in Seq(Entry)
    OBVIOUS
  <2>3. QED
    BY <2>1, <2>2 DEF HandSound, NothingDealt, Lanes
<1>2. \A l \in Lanes : Rank[l] \in 1 .. 3
  BY DEF Rank, Lanes
<1>3. \A l \in Lanes : GuaranteeKept(l)' /\ NothingUsable(l)'
  BY <1>2 DEF GuaranteeKept, NothingUsable
<1>4. \A l \in Lanes : Share(l, limits'[2]) \in Nat
  BY ShareType
<1>5. \A l \in Lanes : LaneGas(l)'
  BY <1>1, <1>2, <1>4 DEF LaneGas
<1>6. QED
  BY <1>1, <1>3, <1>5 DEF Thorough, Free

(* An entry is added to the lane of its score.                             *)
LEMMA AddClassified ==
  ASSUME Consistent, Classified, NEW t \in Tx, NEW score \in Scores, Add(t, score)
  PROVE  Classified'
<1> DEFINE l == ClassifyLane(score)
           e == [tx |-> t, score |-> score]
<1>1. l \in Lanes /\ e \in Entry /\ ClassifyLane(e.score) = l
  BY ClassifyLaneType DEF Entry
<1>2. PICK k \in 0 .. Len(lanes[l]) :
        lanes' = [lanes EXCEPT ![l] = SeqExt!InsertAt(@, k + 1, e)]
  BY DEF Add
<1>3. lanes \in [Lanes -> Seq(Entry)]
  BY DEF Consistent, TypeOK
<1> HIDE DEF l, e
<1>4. Inserted(Entry, lanes[l], k, e, lanes'[l])
  <2>1. lanes'[l] = SeqExt!InsertAt(lanes[l], k + 1, e) /\ lanes[l] \in Seq(Entry)
    BY <1>1, <1>2, <1>3
  <2>2. QED
    BY <1>1, <2>1, InsertAtProperties
<1>5. \A m \in Lanes \ {l} : lanes'[m] = lanes[m]
  BY <1>2, <1>3
<1>6. Len(lanes[l]) \in Nat
  BY <1>1, <1>3, LenProperties
<1>7. ASSUME NEW i \in 1 .. Len(lanes'[l]) PROVE ClassifyLane(lanes'[l][i].score) = l
  <2>1. i \in 1 .. (Len(lanes[l]) + 1)
    BY <1>4 DEF Inserted
  <2>2. CASE i <= k
    <3>1. i \in 1 .. k /\ i \in 1 .. Len(lanes[l])
      BY <1>6, <2>1, <2>2
    <3>2. QED
      BY <1>1, <1>4, <3>1 DEF Inserted, Classified
  <2>3. CASE i = k + 1
    BY <1>1, <1>4, <2>3 DEF Inserted
  <2>4. CASE i > k + 1
    <3>1. i \in (k + 2) .. (Len(lanes[l]) + 1) /\ i - 1 \in 1 .. Len(lanes[l])
      BY <1>6, <2>1, <2>4
    <3>2. lanes'[l][i] = lanes[l][i - 1]
      BY <1>4, <3>1 DEF Inserted
    <3>3. QED
      BY <1>1, <3>1, <3>2 DEF Classified
  <2>5. QED
    BY <1>6, <2>1, <2>2, <2>3, <2>4
<1>8. QED
  BY <1>5, <1>7 DEF Classified

(* The lane and the place an entry is removed from.                        *)
LEMMA RemovesOne ==
  ASSUME Consistent, NEW t \in Tx, Remove(t)
  PROVE  \E l \in Lanes : \E i \in 1 .. Len(lanes[l]) :
           /\ lanes[l][i].tx = t
           /\ lanes' = [lanes EXCEPT ![l] = SeqExt!RemoveAt(@, i)]
<1>1. t \in DOMAIN known /\ known[t] \in Lanes /\ LaneHas(known[t], t)
  BY DEF Consistent, TypeOK, KnownMatchesLanes, Remove
<1>2. \E i \in 1 .. Len(lanes[known[t]]) :
        /\ lanes[known[t]][i].tx = t
        /\ lanes' = [lanes EXCEPT ![known[t]] = SeqExt!RemoveAt(@, i)]
  BY <1>1 DEF Remove
<1>3. QED
  BY <1>1, <1>2

(* Deleting an entry leaves the others in their lanes.                     *)
LEMMA RemoveClassified ==
  ASSUME Consistent, Classified, NEW t \in Tx, Remove(t)
  PROVE  Classified'
<1>0. PICK l \in Lanes : \E k \in 1 .. Len(lanes[l]) :
        lanes' = [lanes EXCEPT ![l] = SeqExt!RemoveAt(@, k)]
  BY RemovesOne
<1>1. PICK k \in 1 .. Len(lanes[l]) :
        lanes' = [lanes EXCEPT ![l] = SeqExt!RemoveAt(@, k)]
  BY <1>0
<1>2. lanes \in [Lanes -> Seq(Entry)]
  BY DEF Consistent, TypeOK
<1>3. Removed(Entry, lanes[l], k, lanes'[l])
  <2>1. lanes'[l] = SeqExt!RemoveAt(lanes[l], k) /\ lanes[l] \in Seq(Entry)
    BY <1>1, <1>2
  <2>2. QED
    BY <2>1, RemoveAtProperties
<1>4. \A m \in Lanes \ {l} : lanes'[m] = lanes[m]
  BY <1>1, <1>2
<1>5. Len(lanes[l]) \in Nat
  BY <1>2, LenProperties
<1>6. ASSUME NEW i \in 1 .. Len(lanes'[l]) PROVE ClassifyLane(lanes'[l][i].score) = l
  <2>1. i \in 1 .. (Len(lanes[l]) - 1)
    BY <1>3 DEF Removed
  <2>2. CASE i < k
    <3>1. i \in 1 .. (k - 1) /\ i \in 1 .. Len(lanes[l])
      BY <1>5, <2>1, <2>2
    <3>2. QED
      BY <1>3, <3>1 DEF Removed, Classified
  <2>3. CASE i >= k
    <3>1. i \in k .. (Len(lanes[l]) - 1) /\ i + 1 \in 1 .. Len(lanes[l])
      BY <1>5, <2>1, <2>3
    <3>2. lanes'[l][i] = lanes[l][i + 1]
      BY <1>3, <3>1 DEF Removed
    <3>3. QED
      BY <3>1, <3>2 DEF Classified
  <2>4. QED
    BY <1>5, <2>1, <2>2, <2>3
<1>7. QED
  BY <1>4, <1>6 DEF Classified


(* Lanes, ranks and phases: which lane a phase drains.                     *)
LEMMA Ranks ==
  ASSUME Draining
  PROVE  /\ phase \in 1 .. 6 /\ Lane \in Lanes
         /\ \A l \in Lanes : Rank[l] \in 1 .. 3
         /\ \A l \in Lanes : Lane = l <=> phase \in {Rank[l], Rank[l] + 3}
  BY DEF Draining, Lane, DrainedLane, Lanes, Rank

(* The gas of any entry, and of the head of a lane that is not empty.      *)
LEMMA HeadGasType ==
  ASSUME Consistent, NEW l \in Lanes, lanes[l] # << >>
  PROVE  Head(lanes[l]) \in Entry /\ Head(lanes[l]).tx \in Tx /\ HeadGas(l) \in Nat
<1>1. lanes[l] \in Seq(Entry)
  BY DEF Consistent, TypeOK
<1>2. Head(lanes[l]) \in Entry
  BY <1>1, HeadTailProperties
<1>3. Head(lanes[l]).tx \in Tx
  BY <1>2 DEF Entry
<1>4. Gas[Head(lanes[l]).tx] \in UInt
  BY <1>3, TxAssumption
<1>5. QED
  BY <1>2, <1>3, <1>4 DEF HeadGas, UInt

(* Taking an entry adds it, and its gas, to its lane's part of the batch.  *)
LEMMA TakeDeals ==
  ASSUME Consistent, HandSound, Classified, Take
  PROVE  LET m == Lane
             e == Head(lanes[m])
         IN  /\ m \in Lanes /\ lanes[m] # << >> /\ e \in Entry
             /\ Hand'.taken = [Hand.taken EXCEPT ![m] = Append(@, e)]
             /\ Hand'.gas = [Hand.gas EXCEPT ![m] = @ + HeadGas(m)]
             /\ HandSound'
<1> DEFINE m == Lane
           e == Head(lanes[m])
<1>1. m \in Lanes /\ lanes[m] # << >> /\ lanes[m] \in Seq(Entry) /\ batch \in Seq(Entry)
  BY LaneType DEF Take, CanTake, Consistent, TypeOK
<1>2. e \in Entry /\ HeadGas(m) \in Nat
  BY <1>1, HeadGasType
<1>3. ClassifyLane(e.score) = m
  <2>1. 1 \in 1 .. Len(lanes[m]) /\ e = lanes[m][1]
    BY <1>1, HeadTailProperties, LenProperties, EmptySeq
  <2>2. QED
    BY <1>1, <2>1 DEF Classified
<1>4. batch' = Append(batch, e) /\ spent' = spent + HeadGas(m)
  BY DEF Take, HeadGas
<1>5. HeadGas(m) = Gas[e.tx]
  BY DEF HeadGas
<1> HIDE DEF m, e
<1>6. Hand' = Deal(Hand, e)
  <2>1. Dealt(Append(batch, e)) = Deal(Dealt(batch), e)
    BY <1>1, <1>2, DealtAppend
  <2>2. QED
    BY <1>4, <2>1, Zenon DEF Hand
<1>7. /\ Hand'.taken = [Hand.taken EXCEPT ![m] = Append(@, e)]
      /\ Hand'.gas = [Hand.gas EXCEPT ![m] = @ + HeadGas(m)]
      /\ Hand' = [taken |-> Hand'.taken, gas |-> Hand'.gas]
  BY <1>3, <1>5, <1>6 DEF Deal
<1>8. HandSound'
  <2>1. Hand.taken \in [Lanes -> Seq(Entry)] /\ Hand.gas \in [Lanes -> Nat]
    BY DEF HandSound
  <2>2. Append(Hand.taken[m], e) \in Seq(Entry)
    BY <1>1, <1>2, <2>1, AppendProperties
  <2>3. Hand'.taken \in [Lanes -> Seq(Entry)]
    BY <1>1, <1>7, <2>1, <2>2
  <2>4. Hand'.gas \in [Lanes -> Nat]
    BY <1>1, <1>2, <1>7, <2>1
  <2>5. Hand' \in [taken : [Lanes -> Seq(Entry)], gas : [Lanes -> Nat]]
    BY <1>7, <2>3, <2>4
  <2>6. spent' = Hand'.gas["fast"] + Hand'.gas["std"] + Hand'.gas["slow"]
    <3>1. spent = Hand.gas["fast"] + Hand.gas["std"] + Hand.gas["slow"]
      BY DEF HandSound
    <3>2. /\ Hand.gas["fast"] \in Nat /\ Hand.gas["std"] \in Nat /\ Hand.gas["slow"] \in Nat
      BY <2>1 DEF Lanes
    <3>3. \A l \in Lanes : Hand'.gas[l] = IF l = m THEN Hand.gas[l] + HeadGas(m) ELSE Hand.gas[l]
      BY <1>7, <2>1
    <3> DEFINE G == HeadGas(m)
    <3>0. G \in Nat /\ spent' = spent + G
      BY <1>2, <1>4
    <3>8. /\ Hand'.gas["fast"] = IF m = "fast" THEN Hand.gas["fast"] + G ELSE Hand.gas["fast"]
          /\ Hand'.gas["std"] = IF m = "std" THEN Hand.gas["std"] + G ELSE Hand.gas["std"]
          /\ Hand'.gas["slow"] = IF m = "slow" THEN Hand.gas["slow"] + G ELSE Hand.gas["slow"]
      BY <3>3 DEF Lanes
    <3> HIDE DEF G
    <3>4. CASE m = "fast"
      BY <3>0, <3>1, <3>2, <3>8, <3>4
    <3>5. CASE m = "std"
      BY <3>0, <3>1, <3>2, <3>8, <3>5
    <3>6. CASE m = "slow"
      BY <3>0, <3>1, <3>2, <3>8, <3>6
    <3>7. QED
      BY <1>1, <3>4, <3>5, <3>6 DEF Lanes
  <2>7. QED
    BY <2>5, <2>6 DEF HandSound
<1>9. QED
  BY <1>1, <1>2, <1>7, <1>8 DEF m, e

(* The leftover a drain is called with, without wrap-around.               *)
LEMMA RemainingIs ==
  ASSUME NoWrap, Consistent, GasAccounted, Draining
  PROVE  /\ limits \in Calls /\ limits[2] \in Nat /\ limits[2] < W
         /\ total \in Nat /\ used \in Nat /\ total <= limits[2]
         /\ remaining = limits[2] - total
<1>1. limits \in Calls /\ limits[2] \in Nat /\ limits[2] < W /\ W \in Nat
  BY LimitsAssumption, WidthAssumption DEF GasAccounted, Draining, UInt
<1>2. total \in Nat /\ used \in Nat /\ total <= limits[2]
  BY <1>1 DEF GasAccounted, Consistent, TypeOK, UInt
<1>3. limits[2] - total \in 0 .. (W - 1)
  BY <1>1, <1>2
<1>4. (limits[2] - total) % W = limits[2] - total
  BY <1>3, WidthAssumption
<1>5. QED
  BY <1>1, <1>2, <1>4 DEF remaining

(* A step of a drain keeps what the drains before it have achieved.        *)
LEMMA TakeThorough ==
  ASSUME NoWrap, Consistent, GasAccounted, Thorough, Take
  PROVE  Thorough'
<1> DEFINE m == Lane
           g == HeadGas(m)
<1>1. /\ phase \in 1 .. 6 /\ m \in Lanes
      /\ \A l \in Lanes : Rank[l] \in 1 .. 3
      /\ \A l \in Lanes : m = l <=> phase \in {Rank[l], Rank[l] + 3}
  BY Ranks DEF Take
<1>2. /\ lanes[m] # << >> /\ HandSound'
      /\ Hand'.gas = [Hand.gas EXCEPT ![m] = @ + g]
  BY TakeDeals DEF Thorough
<1>3. /\ lanes' = [lanes EXCEPT ![m] = Tail(@)] /\ ~Full /\ (phase >= 4 => remaining > 0)
      /\ UNCHANGED <<phase, limits, total>> /\ spent' = spent + g
  <2>1. Len(batch) < limits[1]
    BY DEF Take, CanTake
  <2>2. Len(batch) \in Nat /\ limits[1] \in Nat
    BY LengthTypes DEF Consistent, TypeOK
  <2>3. ~Full
    BY <2>1, <2>2 DEF Full
  <2>4. QED
    BY <2>3 DEF Take, CanTake, HeadGas
<1>4. g \in Nat /\ spent \in Nat /\ lanes \in [Lanes -> Seq(Entry)]
  BY <1>1, <1>2, HeadGasType DEF Consistent, TypeOK
<1>5. Consistent' /\ GasAccounted'
  BY TakeConsistent, TakeGas
<1>6. /\ limits[2] \in Nat /\ total \in Nat /\ used \in Nat /\ limits \in Calls
      /\ total <= limits[2] /\ remaining = limits[2] - total
  BY RemainingIs DEF Take
<1>7. used' = used + g /\ used' <= Budget'
  <2>1. spent = total + used /\ spent' = total' + used'
    BY <1>5 DEF GasAccounted
  <2>2. used' \in Nat
    BY <1>5 DEF Consistent, TypeOK, UInt
  <2>3. Draining'
    BY <1>3 DEF Draining, Take
  <2>4. used' <= Budget'
    BY <1>5, <2>3 DEF GasAccounted
  <2>5. total' = total /\ spent' = spent + g
    BY <1>3
  <2> HIDE DEF m, g
  <2>7. used' = used + g
    <3>1. PICK u \in Nat : u = used'
      BY <2>2
    <3>2. total + u = (total + used) + g
      BY <2>1, <2>5, <3>1, Zenon
    <3>3. u = used + g
      BY <1>4, <1>6, <3>2
    <3>4. QED
      BY <3>1, <3>3
  <2>6. QED
    BY <2>4, <2>7
<1>8. \A l \in Lanes : /\ Share(l, limits[2]) \in Nat /\ Hand.gas[l] \in Nat
                       /\ Hand'.gas[l] = IF l = m THEN Hand.gas[l] + g ELSE Hand.gas[l]
  <2>1. \A l \in Lanes : Share(l, limits[2]) \in Nat
    BY <1>6, SharesFit
  <2>2. Hand.gas \in [Lanes -> Nat]
    BY DEF Thorough, HandSound
  <2>3. QED
    BY <1>1, <1>2, <2>1, <2>2
<1>9. lanes'[m] = Tail(lanes[m]) /\ \A l \in Lanes \ {m} : lanes'[l] = lanes[l]
  BY <1>1, <1>3, <1>4
<1>10. ASSUME NEW l \in Lanes, lanes'[l] # << >> PROVE HeadGas(l)' \in Nat
  <2>1. lanes'[l] \in Seq(Entry)
    BY <1>5 DEF Consistent, TypeOK
  <2>2. Head(lanes'[l]) \in Entry
    BY <1>10, <2>1, HeadTailProperties
  <2>3. \A x \in Entry : Gas[x.tx] \in Nat
    BY TxAssumption DEF Entry, UInt
  <2>4. QED
    BY <2>2, <2>3 DEF HeadGas
<1>11. Budget' = IF phase <= 3 THEN Share(m, limits[2]) ELSE remaining
  BY <1>3 DEF Budget, Lane, remaining
<1>12. Classified'
  <2>1. ASSUME NEW i \in 1 .. Len(lanes'[m]) PROVE ClassifyLane(lanes'[m][i].score) = m
    <3>1. lanes[m] \in Seq(Entry) /\ Len(lanes[m]) \in Nat
      BY <1>1, <1>4, LenProperties
    <3>2. /\ Len(lanes'[m]) = Len(lanes[m]) - 1
          /\ \A k \in 1 .. Len(Tail(lanes[m])) : Tail(lanes[m])[k] = lanes[m][k + 1]
      BY <1>2, <1>9, <3>1, HeadTailProperties
    <3>3. i + 1 \in 1 .. Len(lanes[m]) /\ lanes'[m][i] = lanes[m][i + 1]
      BY <1>9, <3>1, <3>2
    <3>4. QED
      BY <1>1, <3>3 DEF Thorough, Classified
  <2>2. QED
    BY <1>9, <2>1 DEF Classified, Thorough
<1> HIDE DEF m, g
<1>13. ASSUME NEW l \in Lanes PROVE GuaranteeKept(l)' /\ NothingUsable(l)' /\ LaneGas(l)'
  <2>1. GuaranteeKept(l) /\ NothingUsable(l) /\ LaneGas(l)
    BY DEF Thorough
  <2>2. CASE l # m
    <3>1. lanes'[l] = lanes[l] /\ Hand'.gas[l] = Hand.gas[l] /\ HeadGas(l)' = HeadGas(l)
      BY <1>8, <1>9, <2>2 DEF HeadGas
    <3>2. phase # Rank[l] /\ phase # Rank[l] + 3
      BY <1>1, <2>2
    <3>3. GuaranteeKept(l)'
      BY <1>3, <2>1, <3>1 DEF GuaranteeKept
    <3>4. NothingUsable(l)'
      <4>1. lanes[l] # << >> => HeadGas(l) \in Nat
        BY HeadGasType
      <4>2. QED
        BY <1>3, <1>4, <1>6, <2>1, <3>1, <4>1 DEF NothingUsable
    <3>5. LaneGas(l)'
      BY <1>3, <2>1, <3>1, <3>2 DEF LaneGas
    <3>6. QED
      BY <3>3, <3>4, <3>5
  <2>3. CASE l = m
    <3>1. /\ phase = Rank[l] \/ phase = Rank[l] + 3
          /\ Rank[l] \in 1 .. 3
          /\ Hand'.gas[l] = Hand.gas[l] + g /\ Hand.gas[l] \in Nat
          /\ Share(l, limits[2]) \in Nat
      BY <1>1, <1>8, <2>3
    <3>2. NothingUsable(l)'
      BY <1>3, <3>1 DEF NothingUsable
    <3>3. GuaranteeKept(l)'
      <4>1. CASE phase = Rank[l]
        BY <1>3, <3>1, <4>1 DEF GuaranteeKept
      <4>2. CASE phase = Rank[l] + 3
        <5>1. Hand.gas[l] + g > Share(l, limits[2])
          BY <1>2, <1>3, <2>1, <2>3, <3>1, <4>2 DEF GuaranteeKept, g
        <5>2. lanes'[l] # << >> => Hand'.gas[l] + HeadGas(l)' > Share(l, limits[2])
          BY <1>4, <1>10, <2>3, <3>1, <5>1
        <5>3. QED
          BY <1>3, <5>2 DEF GuaranteeKept
      <4>3. QED
        BY <3>1, <4>1, <4>2
    <3>4. LaneGas(l)'
      <4>1. CASE phase = Rank[l]
        <5>1. Hand.gas[l] = used
          BY <2>1, <4>1 DEF LaneGas
        <5>2. Hand'.gas[l] = used' /\ used' <= Share(l, limits[2])
          BY <1>7, <1>11, <2>3, <3>1, <4>1, <5>1
        <5>3. QED
          BY <1>3, <3>1, <4>1, <5>2 DEF LaneGas
      <4>2. CASE phase = Rank[l] + 3
        <5>1. Hand.gas[l] <= Share(l, limits[2]) + used
          BY <2>1, <4>2 DEF LaneGas
        <5>2. Hand'.gas[l] <= Share(l, limits[2]) + used'
          BY <1>4, <1>6, <1>7, <3>1, <5>1
        <5>3. QED
          BY <1>3, <3>1, <4>2, <5>2 DEF LaneGas
      <4>3. QED
        BY <3>1, <4>1, <4>2
    <3>5. QED
      BY <3>2, <3>3, <3>4
  <2>4. QED
    BY <2>2, <2>3
<1>14. QED
  <2>1. Free' => limits' = <<0, 0>>
    BY <1>1, <1>3 DEF Free
  <2>2. phase' >= 4 => total' < limits'[2]
    BY <1>1, <1>3, <1>6
  <2>3. QED
    BY <1>2, <1>12, <1>13, <2>1, <2>2 DEF Thorough


(* A drain that ends has met an empty lane, a full batch or a head that    *)
(* overflows what it may use (lanes.go:183-190).                           *)
LEMMA WhyDrainEnds ==
  ASSUME NoWrap, Consistent, GasAccounted, EndDrain
  PROVE  \/ Full
         \/ lanes[Lane] = << >>
         \/ used + HeadGas(Lane) > Budget
         \/ phase >= 4 /\ total = limits[2]
<1> SUFFICES ASSUME ~Full, lanes[Lane] # << >>, phase >= 4 => total # limits[2]
             PROVE  used + HeadGas(Lane) > Budget
  BY DEF EndDrain
<1>1. Lane \in Lanes /\ phase \in 1 .. 6 /\ ~CanTake /\ Draining
  BY Ranks DEF EndDrain
<1>2. HeadGas(Lane) \in Nat /\ Head(lanes[Lane]).tx \in Tx
  BY <1>1, HeadGasType
<1>3. /\ limits \in Calls /\ limits[2] \in Nat /\ total \in Nat /\ used \in Nat
      /\ total <= limits[2] /\ remaining = limits[2] - total
  BY <1>1, RemainingIs
<1>4. phase >= 4 => remaining > 0
  BY <1>3
<1>5. Len(batch) < limits[1]
  <2>1. Len(batch) \in Nat /\ limits[1] \in Nat
    BY LengthTypes DEF Consistent, TypeOK
  <2>2. QED
    BY <2>1 DEF Full
<1>6. ~((used + HeadGas(Lane)) % W <= Budget)
  BY <1>1, <1>4, <1>5 DEF CanTake, Fits, HeadGas
<1>7. used + HeadGas(Lane) < W
  <2>1. limits[2] + HeadGas(Lane) < W
    BY <1>2, <1>3 DEF NoWrap, HeadGas
  <2>2. used <= limits[2]
    BY <1>3 DEF GasAccounted
  <2>3. QED
    BY <1>2, <1>3, <2>1, <2>2, WidthAssumption
<1>8. (used + HeadGas(Lane)) % W = used + HeadGas(Lane)
  <2>1. used + HeadGas(Lane) \in 0 .. (W - 1)
    BY <1>2, <1>3, <1>7, WidthAssumption
  <2>2. QED
    BY <2>1, WidthAssumption
<1>9. Budget \in Int
  <2>1. Share(Lane, limits[2]) \in Nat
    BY <1>1, <1>3, SharesFit
  <2>2. QED
    BY <1>3, <2>1 DEF Budget
<1>10. QED
  BY <1>2, <1>3, <1>6, <1>8, <1>9

(* The end of a guaranteed drain establishes the lane's guarantee, that of *)
(* a leftover drain that the lane can use nothing more.  A drain that was  *)
(* not even called for lack of gas leaves a head that needs some: it did   *)
(* not fit into the lane's share.                                          *)
LEMMA EndDrainThorough ==
  ASSUME NoWrap, Consistent, GasAccounted, Thorough, EndDrain
  PROVE  Thorough'
<1>1. /\ phase \in 1 .. 6 /\ Lane \in Lanes /\ Draining
      /\ \A l \in Lanes : Rank[l] \in 1 .. 3
      /\ \A l \in Lanes : Lane = l <=> phase \in {Rank[l], Rank[l] + 3}
  BY Ranks DEF EndDrain
<1>2. /\ phase' = phase + 1 /\ used' = 0
      /\ UNCHANGED <<lanes, known, limits, batch, spent>>
  BY DEF EndDrain
<1>3. Hand' = Hand /\ (Full' <=> Full) /\ HandSound' /\ Classified'
  <2>1. Hand' = Hand
    BY <1>2 DEF Hand
  <2>2. Full' <=> Full
    BY <1>2 DEF Full
  <2>3. HandSound' /\ Classified'
    BY <1>2, <2>1 DEF Thorough, HandSound, Classified
  <2>4. QED
    BY <2>1, <2>2, <2>3
<1>4. /\ limits \in Calls /\ limits[2] \in Nat /\ total \in Nat /\ used \in Nat
      /\ total <= limits[2] /\ remaining = limits[2] - total /\ spent = total + used
  BY <1>1, RemainingIs DEF GasAccounted
<1>5. \A l \in Lanes : HeadGas(l)' = HeadGas(l)
  BY <1>2 DEF HeadGas
<1>6. ASSUME NEW l \in Lanes PROVE GuaranteeKept(l)' /\ NothingUsable(l)' /\ LaneGas(l)'
  <2>1. GuaranteeKept(l) /\ NothingUsable(l) /\ LaneGas(l)
    BY DEF Thorough
  <2>2. Hand.gas[l] \in Nat /\ Share(l, limits[2]) \in Nat /\ Rank[l] \in 1 .. 3
    BY <1>1, <1>4, SharesFit DEF Thorough, HandSound
  <2>3. lanes[l] # << >> => HeadGas(l) \in Nat
    BY HeadGasType
  <2>4. GuaranteeKept(l)'
    <3>1. CASE phase > Rank[l]
      BY <1>2, <1>3, <1>5, <2>1, <3>1 DEF GuaranteeKept
    <3>2. CASE phase < Rank[l]
      BY <1>1, <1>2, <2>2, <3>2 DEF GuaranteeKept
    <3>3. CASE phase = Rank[l]
      <4>1. Lane = l /\ phase <= 3 /\ Hand.gas[l] = used
        BY <1>1, <2>1, <2>2, <3>3 DEF LaneGas
      <4>2. Budget = Share(l, limits[2])
        BY <4>1 DEF Budget
      <4>3. Full \/ lanes[l] = << >> \/ used + HeadGas(l) > Share(l, limits[2])
        BY <1>1, <4>1, <4>2, WhyDrainEnds
      <4>4. QED
        BY <1>2, <1>3, <1>5, <4>1, <4>3 DEF GuaranteeKept
    <3>4. QED
      BY <1>1, <2>2, <3>1, <3>2, <3>3
  <2>5. NothingUsable(l)'
    <3>1. CASE phase > Rank[l] + 3
      BY <1>2, <1>3, <1>5, <2>1, <3>1 DEF NothingUsable
    <3>2. CASE phase < Rank[l] + 3
      BY <1>1, <1>2, <2>2, <3>2 DEF NothingUsable
    <3>3. CASE phase = Rank[l] + 3
      <4>1. Lane = l /\ phase >= 4
        BY <1>1, <2>2, <3>3
      <4>2. Budget = limits[2] - total
        BY <1>1, <1>4, <4>1 DEF Budget
      <4>3. ASSUME ~Full, lanes[l] # << >> PROVE spent + HeadGas(l) > limits[2]
        <5>1. CASE used + HeadGas(l) > Budget
          BY <1>4, <2>3, <4>2, <4>3, <5>1
        <5>2. CASE total = limits[2]
          <6>1. used = 0
            BY <1>4, <4>1, <5>2 DEF Thorough
          <6>2. Hand.gas[l] <= Share(l, limits[2])
            BY <2>1, <2>2, <3>3, <6>1 DEF LaneGas
          <6>3. Hand.gas[l] + HeadGas(l) > Share(l, limits[2])
            BY <1>1, <2>1, <2>2, <3>3, <4>3 DEF GuaranteeKept
          <6>4. HeadGas(l) > 0
            BY <2>2, <2>3, <4>3, <6>2, <6>3
          <6>5. QED
            BY <1>4, <2>3, <4>3, <5>2, <6>1, <6>4
        <5>3. QED
          BY <4>1, <4>3, <5>1, <5>2, WhyDrainEnds
      <4>4. QED
        BY <1>2, <1>3, <1>5, <4>3 DEF NothingUsable
    <3>4. QED
      BY <1>1, <2>2, <3>1, <3>2, <3>3
  <2>6. LaneGas(l)'
    <3>1. phase' < Rank[l] => Hand'.gas[l] = 0
      BY <1>1, <1>2, <1>3, <2>1, <2>2 DEF LaneGas
    <3>2. phase' = Rank[l] => Hand'.gas[l] = 0
      BY <1>1, <1>2, <1>3, <2>1, <2>2 DEF LaneGas
    <3>3. phase' \in Rank[l] .. (Rank[l] + 2) => Hand'.gas[l] <= Share(l, limits[2])
      <4>1. CASE phase' = Rank[l]
        BY <2>2, <3>2, <4>1
      <4>2. CASE phase' # Rank[l]
        <5>1. phase' \in Rank[l] .. (Rank[l] + 2) => phase \in Rank[l] .. (Rank[l] + 2)
          BY <1>1, <1>2, <2>2, <4>2
        <5>2. QED
          BY <1>3, <2>1, <5>1 DEF LaneGas
      <4>3. QED
        BY <4>1, <4>2
    <3>4. phase' = Rank[l] + 3 => Hand'.gas[l] <= Share(l, limits[2]) + used'
      <4>1. phase' = Rank[l] + 3 => phase \in Rank[l] .. (Rank[l] + 2)
        BY <1>1, <1>2, <2>2
      <4>2. QED
        BY <1>2, <1>3, <2>1, <2>2, <4>1 DEF LaneGas
    <3>5. QED
      BY <1>2, <3>1, <3>2, <3>3, <3>4 DEF LaneGas
  <2>7. QED
    BY <2>4, <2>5, <2>6
<1>7. QED
  <2>1. ~Free'
    BY <1>1, <1>2 DEF Free
  <2>2. QED
    BY <1>2, <1>3, <1>6, <2>1 DEF Thorough

(* Every step keeps it.                                                    *)
LEMMA NextThorough ==
  ASSUME NoWrap
  PROVE  Consistent /\ GasAccounted /\ Thorough /\ [Next]_vars => Thorough'
<1> SUFFICES ASSUME Consistent, GasAccounted, Thorough, [Next]_vars PROVE Thorough'
  OBVIOUS
<1>1. Classified /\ (Free => limits = <<0, 0>> /\ batch = << >> /\ used = 0 /\ spent = 0)
  BY DEF Thorough, Consistent, Idle
<1>2. ASSUME Free, UNCHANGED popVars, Classified' PROVE Thorough'
  <2>1. limits \in Nat \X UInt
    BY DEF Consistent, TypeOK
  <2>2. QED
    BY <1>1, <1>2, <2>1, FreeThorough DEF Free, popVars
<1>3. ASSUME NEW t \in Tx, NEW s \in Scores, Add(t, s) PROVE Thorough'
  BY <1>1, <1>2, <1>3, AddClassified DEF Add
<1>4. ASSUME NEW t \in Tx, Remove(t) PROVE Thorough'
  BY <1>1, <1>2, <1>4, RemoveClassified DEF Remove
<1>5. CASE Reset
  <2>1. Classified'
    BY <1>5 DEF Reset, Classified
  <2>2. QED
    BY <1>2, <1>5, <2>1 DEF Reset
<1>6. ASSUME NEW c \in Calls, StartPop(c) PROVE Thorough'
  <2>1. Classified'
    BY <1>1, <1>6 DEF StartPop, Classified
  <2>2. c \in Nat \X UInt
    BY LimitsAssumption
  <2>3. QED
    BY <1>1, <1>6, <2>1, <2>2, FreeThorough DEF StartPop
<1>7. CASE Take
  BY <1>7, TakeThorough
<1>8. CASE EndDrain
  BY <1>8, EndDrainThorough
<1>9. CASE Return
  <2>1. Classified'
    BY <1>1, <1>9 DEF Return, poolVars, Classified
  <2>2. <<0, 0>> \in Nat \X UInt
    BY WidthAssumption DEF UInt
  <2>3. QED
    BY <1>9, <2>1, <2>2, FreeThorough DEF Return
<1>10. CASE UNCHANGED vars
  BY <1>10 DEF vars, Thorough, Free, Classified, HandSound, Hand, GuaranteeKept,
               NothingUsable, LaneGas, Full, HeadGas
<1>11. QED
  BY <1>3, <1>4, <1>5, <1>6, <1>7, <1>8, <1>9, <1>10 DEF Next, PopStep


-----------------------------------------------------------------------------
(* The refinement: what PoolContract sees of the pool.                     *)

Pending == [l \in Lanes |-> Undrained(l)]
Handed  == IF phase = 7 THEN batch ELSE << >>

(* Putting a lane together again.                                          *)
LEMMA FrontAndRest ==
  ASSUME NEW S, NEW p \in Seq(S), NEW q \in Seq(S)
  PROVE  /\ Len(p \o q) = Len(p) + Len(q) /\ Len(p) \in Nat /\ Len(q) \in Nat
         /\ SubSeq(p, 1, Len(p)) = SubSeq(p \o q, 1, Len(p))
         /\ SubSeq(p \o q, Len(p) + 1, Len(p \o q)) = q
         /\ q # << >> => (p \o q)[Len(p) + 1] = Head(q)
<1> DEFINE r == p \o q
           m == Len(p)
           n == Len(q)
<1>1. m \in Nat /\ n \in Nat
  BY LenProperties
<1>2. /\ r \in Seq(S) /\ Len(r) = m + n
      /\ \A i \in 1 .. (m + n) : r[i] = IF i <= m THEN p[i] ELSE q[i - m]
  BY ConcatProperties
<1>3. \A i \in 1 .. (m + n) : r[i] \in S
  BY <1>2, ElementOfSeq
<1> HIDE DEF r, m, n
<1>4. SubSeq(r, 1, m) = p
  <2>1. /\ SubSeq(r, 1, m) \in Seq(S) /\ Len(SubSeq(r, 1, m)) = m
        /\ \A i \in 1 .. m : SubSeq(r, 1, m)[i] = r[i]
    <3>1. \A i \in 1 .. m : r[i] \in S
      BY <1>1, <1>3
    <3>2. /\ SubSeq(r, 1, m) \in Seq(S)
          /\ Len(SubSeq(r, 1, m)) = IF 1 <= m THEN (m - 1) + 1 ELSE 0
          /\ \A i \in 1 .. ((m - 1) + 1) : SubSeq(r, 1, m)[i] = r[(1 + i) - 1]
      BY <1>1, <3>1, SubSeqProperties
    <3>3. QED
      BY <1>1, <3>2
  <2>2. \A i \in 1 .. m : SubSeq(r, 1, m)[i] = p[i]
    BY <1>1, <1>2, <2>1
  <2>3. QED
    BY <2>1, <2>2, SeqEqual DEF m
<1>5. SubSeq(p, 1, m) = p
  BY SubSeqFull DEF m
<1>6. SubSeq(r, m + 1, m + n) = q
  <2>1. /\ SubSeq(r, m + 1, m + n) \in Seq(S) /\ Len(SubSeq(r, m + 1, m + n)) = n
        /\ \A i \in 1 .. n : SubSeq(r, m + 1, m + n)[i] = r[m + i]
    <3>1. \A i \in (m + 1) .. (m + n) : r[i] \in S
      BY <1>1, <1>3
    <3>2. /\ SubSeq(r, m + 1, m + n) \in Seq(S)
          /\ Len(SubSeq(r, m + 1, m + n)) =
               IF m + 1 <= m + n THEN ((m + n) - (m + 1)) + 1 ELSE 0
          /\ \A i \in 1 .. (((m + n) - (m + 1)) + 1) :
               SubSeq(r, m + 1, m + n)[i] = r[((m + 1) + i) - 1]
      <4>1. m + 1 \in Int /\ m + n \in Int
        BY <1>1
      <4>2. QED
        BY <3>1, <4>1, SubSeqProperties
    <3>3. ((m + n) - (m + 1)) + 1 = n /\ \A i \in 1 .. n : ((m + 1) + i) - 1 = m + i
      BY <1>1
    <3>4. m + 1 <= m + n \/ n = 0
      BY <1>1
    <3>5. m + 1 <= m + n => n # 0
      BY <1>1
    <3>6. QED
      BY <3>2, <3>3, <3>4, <3>5
  <2>2. \A i \in 1 .. n : SubSeq(r, m + 1, m + n)[i] = q[i]
    <3>1. ASSUME NEW i \in 1 .. n PROVE r[m + i] = q[i]
      <4>1. m + i \in 1 .. (m + n) /\ ~(m + i <= m) /\ (m + i) - m = i
        BY <1>1
      <4>2. QED
        BY <1>2, <4>1
    <3>2. QED
      BY <2>1, <3>1
  <2>3. QED
    BY <2>1, <2>2, SeqEqual DEF n
<1>7. q # << >> => r[m + 1] = Head(q)
  <2>1. q # << >> => n # 0 /\ Head(q) = q[1]
    BY EmptySeq DEF n
  <2>2. n # 0 => m + 1 \in 1 .. (m + n) /\ ~(m + 1 <= m) /\ (m + 1) - m = 1
    BY <1>1
  <2>3. QED
    BY <1>2, <2>1, <2>2
<1>8. QED
  BY <1>1, <1>2, <1>4, <1>5, <1>6, <1>7 DEF r, m, n

(* Moving the head of the rest to the end of the front changes nothing.    *)
LEMMA HeadMoves ==
  ASSUME NEW S, NEW p \in Seq(S), NEW q \in Seq(S), q # << >>
  PROVE  Append(p, Head(q)) \o Tail(q) = p \o q
<1>1. Head(q) \in S /\ Tail(q) \in Seq(S) /\ <<Head(q)>> \in Seq(S)
  BY HeadTailProperties
<1>2. Append(p, Head(q)) = p \o <<Head(q)>>
  BY <1>1, AppendIsConcat
<1>3. <<Head(q)>> \o Tail(q) = q
  <2>1. Len(q) \in Nat /\ Len(q) # 0 /\ Head(q) = q[1]
    BY EmptySeq
  <2>2. Len(<<Head(q)>>) = 1 /\ <<Head(q)>>[1] = Head(q)
    OBVIOUS
  <2>3. /\ <<Head(q)>> \o Tail(q) \in Seq(S)
        /\ Len(<<Head(q)>> \o Tail(q)) = 1 + (Len(q) - 1)
        /\ \A i \in 1 .. (1 + (Len(q) - 1)) : (<<Head(q)>> \o Tail(q))[i] =
             IF i <= 1 THEN <<Head(q)>>[i] ELSE Tail(q)[i - 1]
    <3>1. Len(Tail(q)) = Len(q) - 1
      BY HeadTailProperties
    <3>2. /\ <<Head(q)>> \o Tail(q) \in Seq(S)
          /\ Len(<<Head(q)>> \o Tail(q)) = Len(<<Head(q)>>) + Len(Tail(q))
          /\ \A i \in 1 .. (Len(<<Head(q)>>) + Len(Tail(q))) : (<<Head(q)>> \o Tail(q))[i] =
               IF i <= Len(<<Head(q)>>) THEN <<Head(q)>>[i] ELSE Tail(q)[i - Len(<<Head(q)>>)]
      BY <1>1, ConcatProperties
    <3>3. QED
      BY <2>2, <3>1, <3>2, Zenon
  <2>4. ASSUME NEW i \in 1 .. Len(q) PROVE (<<Head(q)>> \o Tail(q))[i] = q[i]
    <3>1. 1 + (Len(q) - 1) = Len(q)
      BY <2>1
    <3>2. CASE i = 1
      BY <2>1, <2>2, <2>3, <3>1, <3>2
    <3>3. CASE i # 1
      <4>1. ~(i <= 1) /\ i - 1 \in 1 .. (Len(q) - 1) /\ (i - 1) + 1 = i
        BY <2>1, <3>3
      <4>2. Tail(q)[i - 1] = q[i]
        BY <4>1, HeadTailProperties
      <4>3. QED
        BY <2>3, <3>1, <4>1, <4>2
    <3>4. QED
      BY <3>2, <3>3
  <2>5. Len(<<Head(q)>> \o Tail(q)) = Len(q)
    BY <2>1, <2>3
  <2>6. QED
    BY <2>3, <2>4, <2>5, SeqEqual
<1>4. QED
  BY <1>1, <1>2, <1>3, ConcatAssociative


(* The names the contract shares with the pool.                            *)
LEMMA SameNames ==
  /\ Contract!Lanes = Lanes
  /\ \A x : Contract!ClassifyLane(x) = ClassifyLane(x)
  /\ \A l, x : Contract!Share(l, x) = Share(l, x)
  /\ \A q, k, e : Contract!Place(q, k, e) <=> Place(q, k, e)
  /\ \A q, k, e : Contract!SeqExt!InsertAt(q, k, e) = SeqExt!InsertAt(q, k, e)
  /\ \A q, k : Contract!SeqExt!RemoveAt(q, k) = SeqExt!RemoveAt(q, k)
  /\ \A s : Contract!Dealt(s) = Dealt(s)
<1>1. Contract!Lanes = Lanes
  BY DEF Contract!Lanes, Lanes
<1>2. \A x : Contract!ClassifyLane(x) = ClassifyLane(x)
  BY DEF Contract!ClassifyLane, ClassifyLane
<1>3. \A l, x : Contract!Share(l, x) = Share(l, x)
  <2>1. Contract!LaneGasBps = LaneGasBps
    BY DEF Contract!LaneGasBps, LaneGasBps
  <2>2. QED
    BY <2>1, Zenon DEF Contract!Share, Share
<1>4. \A q, k, e : Contract!Place(q, k, e) <=> Place(q, k, e)
  <2>1. \A e : Contract!Priority(e) = Priority(e)
    <3>1. \A t : Contract!GasPriceFactor(t) = GasPriceFactor(t)
      BY DEF Contract!GasPriceFactor, GasPriceFactor
    <3>2. QED
      BY <3>1, Zenon DEF Contract!Priority, Priority
  <2>2. QED
    BY <2>1 DEF Contract!Place, Place
<1>5. \A q, k, e : Contract!SeqExt!InsertAt(q, k, e) = SeqExt!InsertAt(q, k, e)
  BY Zenon DEF Contract!SeqExt!InsertAt, SeqExt!InsertAt
<1>6. \A q, k : Contract!SeqExt!RemoveAt(q, k) = SeqExt!RemoveAt(q, k)
  BY Zenon DEF Contract!SeqExt!RemoveAt, SeqExt!RemoveAt
<1>7. \A s : Contract!Dealt(s) = Dealt(s)
  <2>1. \A d, e : Contract!Deal(d, e) = Deal(d, e)
    BY <1>2 DEF Contract!Deal, Deal
  <2>2. Contract!NothingDealt = NothingDealt
    BY <1>1 DEF Contract!NothingDealt, NothingDealt
  <2>3. QED
    BY <2>1, <2>2 DEF Contract!Dealt, Dealt
<1>8. QED
  BY <1>1, <1>2, <1>3, <1>4, <1>5, <1>6, <1>7

(* A new pool is a new contract.                                           *)
LEMMA InitRefines == Init => Contract!CInit
<1> SUFFICES ASSUME Init PROVE Contract!CInit
  OBVIOUS
<1>1. phase = 0 /\ limits = <<0, 0>> /\ lanes = [l \in Lanes |-> << >>]
  BY DEF Init
<1>2. \A l \in Lanes : Undrained(l) = << >>
  BY <1>1 DEF Undrained, Draining
<1>3. [l \in Lanes |-> Undrained(l)] = [l \in Lanes |-> << >>]
  BY <1>2
<1>4. QED
  BY <1>1, <1>3, SameNames DEF Contract!CInit

(* While the lock is free the contract sees the lanes themselves.          *)
LEMMA FreeView ==
  ASSUME Consistent, Consistent', Free, UNCHANGED popVars
  PROVE  /\ Pending = lanes /\ Pending' = lanes'
         /\ Handed' = Handed /\ limits' = limits
<1>1. phase = 0 /\ phase' = 0 /\ batch' = batch /\ limits' = limits
  BY DEF Free, popVars
<1>2. lanes \in [Lanes -> Seq(Entry)] /\ lanes' \in [Lanes -> Seq(Entry)]
  BY DEF Consistent, TypeOK
<1>3. \A l \in Lanes : Undrained(l) = lanes[l]
  BY <1>1 DEF Undrained, Draining
<1>4. \A l \in Lanes : Undrained(l)' = lanes'[l]
  BY <1>1 DEF Undrained, Draining
<1>5. QED
  BY <1>1, <1>2, <1>3, <1>4 DEF Pending, Handed

(* Add is the contract's Add.                                              *)
LEMMA AddRefines ==
  ASSUME Consistent, NEW t \in Tx, NEW score \in Scores, Add(t, score)
  PROVE  Contract!CAdd(t, score)
<1> DEFINE l == ClassifyLane(score)
           e == [tx |-> t, score |-> score]
<1>1. /\ Pending = lanes /\ Pending' = lanes'
      /\ Handed' = Handed /\ limits' = limits
  <2>1. Consistent' /\ Free /\ UNCHANGED popVars
    BY AddConsistent DEF Add
  <2>2. QED
    BY <2>1, FreeView
<1>2. \A m \in Lanes : \A i \in 1 .. Len(Pending[m]) : Pending[m][i].tx # t
  BY <1>1 DEF Consistent, KnownMatchesLanes, Add, Accepts
<1>3. Len(Pending["fast"]) + Len(Pending["std"]) + Len(Pending["slow"]) < MaxSize
  BY <1>1 DEF Add, Accepts, totalLen
<1>4. \E k \in 0 .. Len(Pending[l]) :
        /\ Place(Pending[l], k, e)
        /\ Pending' = [Pending EXCEPT ![l] = SeqExt!InsertAt(@, k + 1, e)]
  BY <1>1, Zenon DEF Add
<1>5. PICK k \in 0 .. Len(Pending[l]) :
        /\ Contract!Place(Pending[l], k, e)
        /\ Pending' = [Pending EXCEPT ![l] = Contract!SeqExt!InsertAt(@, k + 1, e)]
  BY <1>4, SameNames
<1>6. Contract!ClassifyLane(score) = l /\ Contract!Lanes = Lanes
  BY SameNames
<1> HIDE DEF l
<1>7. QED
  BY <1>1, <1>2, <1>3, <1>5, <1>6, Zenon
     DEF Contract!CAdd, Contract!PendingHas, Contract!Size, Pending, Handed

(* So are Remove ...                                                       *)
LEMMA RemoveRefines ==
  ASSUME Consistent, NEW t \in Tx, Remove(t)
  PROVE  Contract!CRemove(t)
<1>1. /\ Pending = lanes /\ Pending' = lanes'
      /\ Handed' = Handed /\ limits' = limits
  <2>1. Consistent' /\ Free /\ UNCHANGED popVars
    BY RemoveConsistent DEF Remove
  <2>2. QED
    BY <2>1, FreeView
<1>2. \E l \in Lanes : \E i \in 1 .. Len(Pending[l]) :
        /\ Pending[l][i].tx = t
        /\ Pending' = [Pending EXCEPT ![l] = SeqExt!RemoveAt(@, i)]
  BY <1>1, RemovesOne
<1>3. \E l \in Contract!Lanes : \E i \in 1 .. Len(Pending[l]) :
        /\ Pending[l][i].tx = t
        /\ Pending' = [Pending EXCEPT ![l] = Contract!SeqExt!RemoveAt(@, i)]
  BY <1>2, SameNames
<1>4. QED
  BY <1>1, <1>3, Zenon DEF Contract!CRemove, Pending, Handed

(* ... and Reset.                                                          *)
LEMMA ResetRefines ==
  ASSUME Consistent, Reset
  PROVE  Contract!CReset
<1>1. /\ Pending = lanes /\ Pending' = lanes'
      /\ Handed' = Handed /\ limits' = limits
  <2>1. Consistent' /\ Free /\ UNCHANGED popVars
    BY ResetConsistent DEF Reset
  <2>2. QED
    BY <2>1, FreeView
<1>2. Pending' = [l \in Contract!Lanes |-> << >>]
  BY <1>1, SameNames DEF Reset
<1>3. QED
  BY <1>1, <1>2, Zenon DEF Contract!CReset, Pending, Handed


(* Taking the lock is asking the contract for a batch.                     *)
LEMMA StartPopRefines ==
  ASSUME Consistent, Thorough, NEW c \in Calls, StartPop(c)
  PROVE  Contract!CAsk(c)
<1>1. /\ phase = 0 /\ phase' = 1 /\ limits = <<0, 0>> /\ limits' = c
      /\ batch = << >> /\ batch' = << >> /\ lanes' = lanes
  BY DEF StartPop, Free, Thorough, Consistent, Idle
<1>2. Handed = << >> /\ Handed' = << >>
  BY <1>1 DEF Handed
<1>3. Pending' = Pending
  <2>1. ASSUME NEW l \in Lanes PROVE Undrained(l)' = Undrained(l)
    <3>1. Dealt(batch').taken[l] = << >>
      BY <1>1, DealtEmpty DEF NothingDealt
    <3>2. << >> \o lanes[l] = lanes[l]
      BY ConcatEmptySeq DEF Consistent, TypeOK
    <3>3. Undrained(l) = lanes[l]
      BY <1>1 DEF Undrained, Draining
    <3>4. Draining'
      BY <1>1 DEF Draining
    <3>5. Undrained(l)' = Dealt(batch').taken[l] \o lanes'[l]
      BY <3>4, Zenon DEF Undrained
    <3>6. QED
      BY <1>1, <3>1, <3>2, <3>3, <3>5, Zenon
  <2>2. QED
    BY <2>1 DEF Pending
<1>4. QED
  BY <1>1, <1>2, <1>3, Zenon DEF Contract!CAsk, Pending, Handed

(* Draining entries is invisible: what was drained is still seen at the    *)
(* front of its lane.                                                      *)
LEMMA TakeRefines ==
  ASSUME Consistent, Thorough, Take
  PROVE  UNCHANGED <<Pending, Handed, limits>>
<1> DEFINE m == Lane
           e == Head(lanes[m])
<1>1. /\ m \in Lanes /\ lanes[m] # << >>
      /\ Hand'.taken = [Hand.taken EXCEPT ![m] = Append(@, e)]
  BY TakeDeals DEF Thorough
<1>2. /\ lanes' = [lanes EXCEPT ![m] = Tail(@)] /\ phase' = phase /\ limits' = limits
      /\ Draining /\ phase \in 1 .. 6
  BY DEF Take, Draining
<1>3. lanes \in [Lanes -> Seq(Entry)] /\ Hand.taken \in [Lanes -> Seq(Entry)]
  BY DEF Consistent, TypeOK, Thorough, HandSound
<1>4. Handed = << >> /\ Handed' = << >>
  BY <1>2 DEF Handed
<1>5. Draining'
  BY <1>2 DEF Draining
<1> HIDE DEF m
<1>6. Pending' = Pending
  <2>1. ASSUME NEW l \in Lanes PROVE Undrained(l)' = Undrained(l)
    <3>1. Undrained(l) = Hand.taken[l] \o lanes[l]
      BY <1>2 DEF Undrained, Hand
    <3>2. Undrained(l)' = Hand'.taken[l] \o lanes'[l]
      BY <1>5 DEF Undrained, Hand
    <3>3. CASE l # m
      <4>1. Hand'.taken[l] = Hand.taken[l] /\ lanes'[l] = lanes[l]
        BY <1>1, <1>2, <1>3, <3>3
      <4>2. QED
        BY <3>1, <3>2, <4>1
    <3>4. CASE l = m
      <4>1. Hand'.taken[l] = Append(Hand.taken[l], Head(lanes[l])) /\ lanes'[l] = Tail(lanes[l])
        BY <1>1, <1>2, <1>3, <3>4
      <4>2. Append(Hand.taken[l], Head(lanes[l])) \o Tail(lanes[l]) = Hand.taken[l] \o lanes[l]
        BY <1>1, <1>3, <3>4, HeadMoves
      <4>3. QED
        BY <3>1, <3>2, <4>1, <4>2
    <3>5. QED
      BY <3>3, <3>4
  <2>2. QED
    BY <2>1 DEF Pending
<1>7. QED
  BY <1>2, <1>4, <1>6

(* Going on to the next lane is invisible too.                             *)
LEMMA EndDrainRefines ==
  ASSUME Consistent, EndDrain, phase # 6
  PROVE  UNCHANGED <<Pending, Handed, limits>>
<1>1. /\ phase \in 1 .. 6 /\ phase' \in 1 .. 6 /\ UNCHANGED <<lanes, limits, batch>>
  BY DEF EndDrain, Draining
<1>2. Handed' = Handed
  BY <1>1 DEF Handed
<1>3. \A l \in Lanes : Undrained(l)' = Undrained(l)
  BY <1>1 DEF Undrained, Draining
<1>4. QED
  BY <1>1, <1>2, <1>3 DEF Pending

(* When the last drain ends, the batch is one the contract allows.         *)
LEMMA BatchLegal ==
  ASSUME NoWrap, Consistent, GasAccounted, Thorough, EndDrain, phase = 6
  PROVE  Contract!Legal(batch, limits)
<1>1. /\ Draining /\ phase' = 7 /\ UNCHANGED <<lanes, limits, batch, spent>>
  BY DEF EndDrain
<1>2. /\ Hand.taken \in [Lanes -> Seq(Entry)] /\ Hand.gas \in [Lanes -> Nat]
      /\ spent = Hand.gas["fast"] + Hand.gas["std"] + Hand.gas["slow"]
      /\ lanes \in [Lanes -> Seq(Entry)]
  BY DEF Thorough, HandSound, Consistent, TypeOK
<1>3. Len(batch) <= limits[1] /\ spent <= limits[2]
  BY DEF GasAccounted
<1>4. \A l \in Lanes : Pending[l] = Hand.taken[l] \o lanes[l]
  BY <1>1 DEF Pending, Undrained, Hand
<1>5. ASSUME NEW l \in Lanes
      PROVE  /\ Len(Hand.taken[l]) \in Nat /\ Len(lanes[l]) \in Nat
             /\ Len(Pending[l]) = Len(Hand.taken[l]) + Len(lanes[l])
             /\ SubSeq(Hand.taken[l], 1, Len(Hand.taken[l])) =
                  SubSeq(Pending[l], 1, Len(Hand.taken[l]))
             /\ lanes[l] # << >> => Pending[l][Len(Hand.taken[l]) + 1] = Head(lanes[l])
  <2> DEFINE p == Hand.taken[l]
             q == lanes[l]
  <2>1. p \in Seq(Entry) /\ q \in Seq(Entry) /\ Pending[l] = p \o q
    BY <1>2, <1>4
  <2> HIDE DEF p, q, Pending
  <2>2. /\ Len(p \o q) = Len(p) + Len(q) /\ Len(p) \in Nat /\ Len(q) \in Nat
        /\ SubSeq(p, 1, Len(p)) = SubSeq(p \o q, 1, Len(p))
        /\ q # << >> => (p \o q)[Len(p) + 1] = Head(q)
    BY <2>1, FrontAndRest
  <2>3. QED
    BY <2>1, <2>2, Zenon DEF p, q
<1>6. ASSUME NEW l \in Lanes PROVE Contract!SeqExt!IsPrefix(Hand.taken[l], Pending[l])
  <2>1. Len(Hand.taken[l]) <= Len(Pending[l])
    <3>1. \A i, j \in Nat : i <= i + j
      OBVIOUS
    <3>2. QED
      BY <1>5, <3>1, Zenon
  <2>2. QED
    BY <1>5, <2>1, Zenon DEF Contract!SeqExt!IsPrefix
<1>7. ASSUME NEW l \in Lanes, Len(batch) < limits[1],
             Len(Hand.taken[l]) < Len(Pending[l])
      PROVE  /\ Hand.gas[l] + Gas[Pending[l][Len(Hand.taken[l]) + 1].tx] > Share(l, limits[2])
             /\ spent + Gas[Pending[l][Len(Hand.taken[l]) + 1].tx] > limits[2]
  <2>1. lanes[l] # << >> /\ lanes'[l] = lanes[l]
    <3>1. Len(lanes[l]) # 0
      <4>1. \A i, j \in Nat : i < i + j => j # 0
        OBVIOUS
      <4>2. /\ Len(Hand.taken[l]) \in Nat /\ Len(lanes[l]) \in Nat
            /\ Len(Hand.taken[l]) < Len(Hand.taken[l]) + Len(lanes[l])
        BY <1>5, <1>7, Zenon
      <4>3. QED
        BY <4>1, <4>2, Zenon
    <3>2. QED
      BY <1>1, <3>1
  <2>2. Gas[Pending[l][Len(Hand.taken[l]) + 1].tx] = HeadGas(l)
    BY <1>5, <2>1 DEF HeadGas
  <2>3. GuaranteeKept(l)' /\ NothingUsable(l)'
    BY EndDrainThorough DEF Thorough
  <2>4. ~Full' /\ Hand' = Hand /\ HeadGas(l)' = HeadGas(l) /\ Rank[l] \in 1 .. 3
    <3>1. Len(batch) \in Nat /\ limits[1] \in Nat
      BY LengthTypes DEF Consistent, TypeOK
    <3>2. ~Full'
      BY <1>1, <1>7, <3>1 DEF Full
    <3>3. Hand' = Hand /\ HeadGas(l)' = HeadGas(l)
      BY <1>1 DEF Hand, HeadGas
    <3>4. QED
      BY <3>2, <3>3 DEF Rank, Lanes
  <2>5. Hand.gas[l] + HeadGas(l) > Share(l, limits[2])
    BY <1>1, <2>1, <2>3, <2>4 DEF GuaranteeKept
  <2>6. spent + HeadGas(l) > limits[2]
    BY <1>1, <2>1, <2>3, <2>4 DEF NothingUsable
  <2>7. QED
    BY <2>2, <2>5, <2>6
<1>8. Contract!Dealt(batch) = Hand /\ Contract!Lanes = Lanes
  BY SameNames DEF Hand
<1>9. \A l \in Lanes : Contract!Share(l, limits[2]) = Share(l, limits[2])
  BY SameNames
<1> HIDE DEF Pending
<1>10. Contract!Legal(batch, limits) <=>
         /\ Len(batch) <= limits[1] /\ spent <= limits[2]
         /\ \A l \in Lanes : Contract!SeqExt!IsPrefix(Hand.taken[l], Pending[l])
         /\ \A l \in Lanes :
              Len(batch) < limits[1] /\ Len(Hand.taken[l]) < Len(Pending[l]) =>
                /\ Hand.gas[l] + Gas[Pending[l][Len(Hand.taken[l]) + 1].tx] >
                     Contract!Share(l, limits[2])
                /\ spent + Gas[Pending[l][Len(Hand.taken[l]) + 1].tx] > limits[2]
  BY <1>2, <1>8, Zenon DEF Contract!Legal, Pending
<1>11. QED
  BY <1>3, <1>6, <1>7, <1>9, <1>10

(* The end of the last drain is the contract's pop.                        *)
LEMMA LastDrainRefines ==
  ASSUME NoWrap, Consistent, GasAccounted, Thorough, EndDrain, phase = 6
  PROVE  Contract!CPop
<1>1. /\ Draining /\ phase' = 7 /\ UNCHANGED <<lanes, limits, batch, spent>>
  BY DEF EndDrain
<1>2. Handed = << >> /\ Handed' = batch
  BY <1>1 DEF Handed
<1>3. Contract!Legal(Handed', limits)
  BY <1>2, BatchLegal
<1>4. ASSUME NEW l \in Lanes
      PROVE  Undrained(l)' =
               SubSeq(Pending[l], Len(Contract!Dealt(Handed').taken[l]) + 1, Len(Pending[l]))
  <2>1. Contract!Dealt(Handed') = Hand
    BY <1>2, SameNames DEF Hand
  <2>2. Pending[l] = Hand.taken[l] \o lanes[l]
    BY <1>1 DEF Pending, Undrained, Hand
  <2>3. Hand.taken[l] \in Seq(Entry) /\ lanes[l] \in Seq(Entry)
    BY DEF Thorough, HandSound, Consistent, TypeOK
  <2>4. SubSeq(Pending[l], Len(Hand.taken[l]) + 1, Len(Pending[l])) = lanes[l]
    <3> DEFINE p == Hand.taken[l]
               q == lanes[l]
    <3>1. p \in Seq(Entry) /\ q \in Seq(Entry) /\ Pending[l] = p \o q
      BY <2>2, <2>3
    <3> HIDE DEF p, q
    <3>2. SubSeq(p \o q, Len(p) + 1, Len(p \o q)) = q
      BY <3>1, FrontAndRest
    <3>3. QED
      BY <3>1, <3>2, Zenon DEF p, q
  <2>5. Undrained(l)' = lanes[l]
    BY <1>1 DEF Undrained, Draining
  <2>6. QED
    BY <2>1, <2>4, <2>5
<1>5. Pending' = [l \in Contract!Lanes |->
        SubSeq(Pending[l], Len(Contract!Dealt(Handed').taken[l]) + 1, Len(Pending[l]))]
  <2>1. Contract!Lanes = Lanes
    BY SameNames
  <2>2. Pending' = [l \in Lanes |-> Undrained(l)']
    BY DEF Pending
  <2> HIDE DEF Pending
  <2>3. QED
    BY <1>4, <2>1, <2>2
<1>6. QED
  BY <1>1, <1>2, <1>3, <1>5, Zenon DEF Contract!CPop, Pending, Handed

(* The return hands the batch over.                                        *)
LEMMA ReturnRefines ==
  ASSUME Consistent, Return
  PROVE  Contract!CHandOver
<1>1. phase = 7 /\ phase' = 0 /\ limits' = <<0, 0>> /\ lanes' = lanes
  BY DEF Return, poolVars
<1>2. Handed' = << >>
  BY <1>1 DEF Handed
<1>3. Pending' = Pending
  <2>1. \A l \in Lanes : Undrained(l)' = Undrained(l)
    BY <1>1 DEF Undrained, Draining
  <2>2. QED
    BY <2>1 DEF Pending
<1>4. QED
  BY <1>1, <1>2, <1>3, Zenon DEF Contract!CHandOver, Pending, Handed

(* Every step is a step of the contract or leaves what it sees unchanged.  *)
LEMMA NextRefines ==
  ASSUME NoWrap
  PROVE  Consistent /\ GasAccounted /\ Thorough /\ [Next]_vars
           => [Contract!CNext]_(Contract!cvars)
<1> SUFFICES ASSUME Consistent, GasAccounted, Thorough, [Next]_vars
             PROVE  Contract!CNext \/ UNCHANGED Contract!cvars
  OBVIOUS
<1>1. ASSUME UNCHANGED <<Pending, Handed, limits>> PROVE UNCHANGED Contract!cvars
  BY <1>1, Zenon DEF Contract!cvars, Pending, Handed
<1>2. CASE \E t \in Tx, s \in Scores : Add(t, s)
  BY <1>2, AddRefines DEF Contract!CNext
<1>3. CASE \E t \in Tx : Remove(t)
  BY <1>3, RemoveRefines DEF Contract!CNext
<1>4. CASE Reset
  BY <1>4, ResetRefines DEF Contract!CNext
<1>5. CASE \E c \in Calls : StartPop(c)
  BY <1>5, StartPopRefines DEF Contract!CNext
<1>6. CASE Take
  BY <1>1, <1>6, TakeRefines
<1>7. CASE EndDrain /\ phase # 6
  BY <1>1, <1>7, EndDrainRefines
<1>8. CASE EndDrain /\ phase = 6
  BY <1>8, LastDrainRefines DEF Contract!CNext
<1>9. CASE Return
  BY <1>9, ReturnRefines DEF Contract!CNext
<1>10. CASE UNCHANGED vars
  <2>1. UNCHANGED <<Pending, Handed, limits>>
    BY <1>10 DEF vars, Pending, Handed, Undrained, Draining
  <2>2. QED
    BY <1>1, <2>1
<1>11. QED
  BY <1>2, <1>3, <1>4, <1>5, <1>6, <1>7, <1>8, <1>9, <1>10 DEF Next, PopStep

(* PopBatch is atomic: under the lock, the six drains together are one     *)
(* step that takes a prefix of every lane within the limits, honours every *)
(* lane's guaranteed share and leaves no gas that a lane's next entry      *)
(* could use, as long as the gas limit stays clear of 2^64 (NoWrap).       *)
THEOREM PopIsAtomic ==
  ASSUME NoWrap
  PROVE  Spec => ImplementsContract
<1>1. Init => GasAccounted
  BY InitGas
<1>2. Init => Thorough /\ Contract!CInit
  BY InitThorough, InitRefines
<1>3. Spec => Init /\ [][Next]_vars
  BY PTL DEF Spec
<1>4. Consistent /\ GasAccounted /\ [Next]_vars => GasAccounted'
  BY NextGas
<1>5. Consistent /\ GasAccounted /\ Thorough /\ [Next]_vars => Thorough'
  BY NextThorough
<1>6. Consistent /\ GasAccounted /\ Thorough /\ [Next]_vars
        => [Contract!CNext]_(Contract!cvars)
  BY NextRefines
<1>7. Spec => Contract!CSpec
  BY SpecConsistent, <1>1, <1>2, <1>3, <1>4, <1>5, <1>6, PTL DEF Contract!CSpec
<1>8. QED
  BY <1>7 DEF ImplementsContract


-----------------------------------------------------------------------------
(* Priority order.                                                         *)

Sorted(q) == \A i, j \in 1 .. Len(q) : i < j => Priority(q[i]) >= Priority(q[j])

(* A priority is a number.                                                 *)
LEMMA PriorityType ==
  ASSUME NEW e \in Entry
  PROVE  Priority(e) \in Int
<1>1. e.tx \in Tx /\ e.score \in Int /\ Weight \in Int /\ GasPrice[e.tx] \in Nat
  <2>1. e.tx \in Tx /\ e.score \in Scores
    BY DEF Entry
  <2>2. Scores \subseteq Int /\ Weight \in Int /\ \A t \in Tx : GasPrice[t] \in Nat
    BY TxAssumption
  <2>3. QED
    BY <2>1, <2>2
<1>2. GasPriceFactor(e.tx) \in Int /\ 100 - Weight \in Int
  BY <1>1 DEF GasPriceFactor
<1>3. \A a, b, c, d \in Int : a * b + c * d \in Int
  OBVIOUS
<1>4. QED
  BY <1>1, <1>2, <1>3, Zenon DEF Priority

(* A new entry at its place leaves a sorted lane sorted.                   *)
LEMMA InsertSorted ==
  ASSUME NEW s \in Seq(Entry), Sorted(s), NEW e \in Entry, NEW k \in 0 .. Len(s),
         Place(s, k, e), NEW r, Inserted(Entry, s, k, e, r)
  PROVE  Sorted(r)
<1>1. Len(s) \in Nat /\ r \in Seq(Entry) /\ Len(r) = Len(s) + 1 /\ Priority(e) \in Int
  BY LenProperties, PriorityType DEF Inserted
<1>2. \A i \in 1 .. Len(s) : Priority(s[i]) \in Int
  BY ElementOfSeq, PriorityType
<1> SUFFICES ASSUME NEW i \in 1 .. Len(r), NEW j \in 1 .. Len(r), i < j
             PROVE  Priority(r[i]) >= Priority(r[j])
  BY DEF Sorted
<1>3. CASE j <= k
  <2>1. i \in 1 .. k /\ j \in 1 .. k /\ i \in 1 .. Len(s) /\ j \in 1 .. Len(s)
    BY <1>1, <1>3
  <2>2. r[i] = s[i] /\ r[j] = s[j]
    BY <2>1 DEF Inserted
  <2>3. QED
    BY <2>1, <2>2 DEF Sorted
<1>4. CASE j = k + 1
  <2>1. i \in 1 .. k
    BY <1>1, <1>4
  <2>2. r[i] = s[i] /\ r[j] = e
    BY <1>4, <2>1 DEF Inserted
  <2>3. QED
    BY <2>1, <2>2 DEF Place
<1>5. CASE j > k + 1
  <2>1. j \in (k + 2) .. (Len(s) + 1) /\ j - 1 \in (k + 1) .. Len(s) /\ j - 1 \in 1 .. Len(s)
    BY <1>1, <1>5
  <2>2. r[j] = s[j - 1]
    BY <2>1 DEF Inserted
  <2>3. CASE i <= k
    <3>1. i \in 1 .. k /\ i \in 1 .. Len(s) /\ i < j - 1
      BY <1>1, <1>5, <2>3
    <3>2. r[i] = s[i]
      BY <3>1 DEF Inserted
    <3>3. QED
      BY <2>1, <2>2, <3>1, <3>2 DEF Sorted
  <2>4. CASE i = k + 1
    <3>1. r[i] = e
      BY <2>4 DEF Inserted
    <3>2. Priority(s[j - 1]) < Priority(e)
      BY <2>1 DEF Place
    <3>3. QED
      BY <1>1, <1>2, <2>1, <2>2, <3>1, <3>2
  <2>5. CASE i > k + 1
    <3>1. i \in (k + 2) .. (Len(s) + 1) /\ i - 1 \in 1 .. Len(s) /\ i - 1 < j - 1
      BY <1>1, <2>5
    <3>2. r[i] = s[i - 1]
      BY <3>1 DEF Inserted
    <3>3. QED
      BY <2>1, <2>2, <3>1, <3>2 DEF Sorted
  <2>6. QED
    BY <1>1, <2>3, <2>4, <2>5
<1>6. QED
  BY <1>1, <1>3, <1>4, <1>5

(* So does taking one out of the middle.                                   *)
LEMMA RemoveSorted ==
  ASSUME NEW s \in Seq(Entry), Sorted(s), NEW k \in 1 .. Len(s), NEW r, Removed(Entry, s, k, r)
  PROVE  Sorted(r)
<1>1. Len(s) \in Nat /\ Len(r) = Len(s) - 1
  BY LenProperties DEF Removed
<1> SUFFICES ASSUME NEW i \in 1 .. Len(r), NEW j \in 1 .. Len(r), i < j
             PROVE  Priority(r[i]) >= Priority(r[j])
  BY DEF Sorted
<1> DEFINE old(n) == IF n < k THEN n ELSE n + 1
<1>2. \A n \in 1 .. Len(r) : r[n] = s[old(n)] /\ old(n) \in 1 .. Len(s)
  <2> SUFFICES ASSUME NEW n \in 1 .. Len(r) PROVE r[n] = s[old(n)] /\ old(n) \in 1 .. Len(s)
    OBVIOUS
  <2>1. CASE n < k
    <3>1. n \in 1 .. (k - 1)
      BY <1>1, <2>1
    <3>2. QED
      BY <1>1, <2>1, <3>1 DEF Removed
  <2>2. CASE ~(n < k)
    <3>1. n \in k .. (Len(s) - 1)
      BY <1>1, <2>2
    <3>2. QED
      BY <1>1, <2>2, <3>1 DEF Removed
  <2>3. QED
    BY <2>1, <2>2
<1>3. old(i) < old(j)
  BY <1>1
<1> HIDE DEF old
<1>4. QED
  BY <1>2, <1>3 DEF Sorted

(* The head of a sorted lane is its best entry.                            *)
LEMMA TailSorted ==
  ASSUME NEW s \in Seq(Entry), Sorted(s), s # << >>
  PROVE  /\ Sorted(Tail(s)) /\ Head(s) \in Entry
         /\ \A j \in 1 .. Len(Tail(s)) :
              /\ Tail(s)[j] = s[j + 1] /\ j + 1 \in 1 .. Len(s)
              /\ Priority(Head(s)) >= Priority(Tail(s)[j])
<1>1. /\ Head(s) \in Entry /\ Head(s) = s[1] /\ Len(Tail(s)) = Len(s) - 1
      /\ \A j \in 1 .. (Len(s) - 1) : Tail(s)[j] = s[j + 1]
  <2>1. Head(s) \in Entry /\ Tail(s) \in Seq(Entry)
    BY HeadTailProperties
  <2>2. Len(Tail(s)) = Len(s) - 1
    BY HeadTailProperties
  <2>3. \A j \in 1 .. Len(Tail(s)) : Tail(s)[j] = s[j + 1]
    BY HeadTailProperties
  <2>4. QED
    BY <2>1, <2>2, <2>3
<1>2. Len(s) \in Nat /\ Len(s) # 0
  BY LenProperties, EmptySeq
<1>3. \A j \in 1 .. Len(Tail(s)) : j + 1 \in 1 .. Len(s) /\ j \in 1 .. (Len(s) - 1) /\ 1 < j + 1
  BY <1>1, <1>2
<1>4. 1 \in 1 .. Len(s)
  BY <1>2
<1>5. ASSUME NEW j \in 1 .. Len(Tail(s))
      PROVE  /\ Tail(s)[j] = s[j + 1] /\ j + 1 \in 1 .. Len(s)
             /\ Priority(Head(s)) >= Priority(Tail(s)[j])
  BY <1>1, <1>3, <1>4 DEF Sorted
<1>6. ASSUME NEW i \in 1 .. Len(Tail(s)), NEW j \in 1 .. Len(Tail(s)), i < j
      PROVE  Priority(Tail(s)[i]) >= Priority(Tail(s)[j])
  <2>1. i + 1 \in 1 .. Len(s) /\ j + 1 \in 1 .. Len(s) /\ i + 1 < j + 1
    BY <1>3, <1>6
  <2>2. Tail(s)[i] = s[i + 1] /\ Tail(s)[j] = s[j + 1]
    BY <1>5
  <2>3. QED
    BY <2>1, <2>2 DEF Sorted
<1>7. Sorted(Tail(s))
  BY <1>6 DEF Sorted
<1>8. QED
  BY <1>1, <1>5, <1>7

(* There is a place for every entry in a sorted lane.                      *)
LEMMA PlaceExists ==
  ASSUME NEW s \in Seq(Entry), Sorted(s), NEW e \in Entry
  PROVE  \E k \in 0 .. Len(s) : Place(s, k, e)
<1>1. Len(s) \in Nat /\ Priority(e) \in Int /\ \A i \in 1 .. Len(s) : Priority(s[i]) \in Int
  BY LenProperties, ElementOfSeq, PriorityType
<1> DEFINE T == {i \in 1 .. Len(s) : Priority(s[i]) < Priority(e)}
<1>2. CASE T = {}
  <2>1. \A i \in 1 .. Len(s) : Priority(s[i]) >= Priority(e)
    BY <1>1, <1>2
  <2>2. Len(s) \in 0 .. Len(s) /\ (Len(s) + 1) .. Len(s) = {}
    BY <1>1
  <2>3. Place(s, Len(s), e)
    BY <2>1, <2>2 DEF Place
  <2>4. QED
    BY <2>2, <2>3
<1>3. CASE T # {}
  <2>1. T \subseteq Nat
    OBVIOUS
  <2>2. PICK m \in T : \A i \in T : m <= i
    BY <1>3, <2>1, LeastElement
  <2>3. m \in 1 .. Len(s) /\ Priority(s[m]) < Priority(e)
    OBVIOUS
  <2>4. m - 1 \in 0 .. Len(s) /\ (m - 1) + 1 = m
    BY <1>1, <2>3
  <2>5. ASSUME NEW i \in 1 .. (m - 1) PROVE Priority(s[i]) >= Priority(e)
    <3>1. i \in 1 .. Len(s) /\ i \notin T
      BY <1>1, <2>2, <2>3
    <3>2. QED
      BY <1>1, <3>1
  <2>6. ASSUME NEW i \in m .. Len(s) PROVE Priority(s[i]) < Priority(e)
    <3>1. i \in 1 .. Len(s) /\ (i = m \/ m < i)
      BY <1>1, <2>3
    <3>2. i = m \/ Priority(s[m]) >= Priority(s[i])
      BY <2>3, <3>1 DEF Sorted
    <3>3. QED
      BY <1>1, <2>3, <3>1, <3>2
  <2>7. Place(s, m - 1, e)
    BY <2>4, <2>5, <2>6 DEF Place
  <2>8. QED
    BY <2>4, <2>7
<1>4. QED
  BY <1>2, <1>3


(* The invariant: sorted lanes of well classified entries.                 *)
Ranked == Consistent /\ Classified /\ BestFirst

(* A batch that is still empty is in order.                                *)
LEMMA NothingOvertakes ==
  ASSUME batch' = << >>, \A l \in Lanes : Sorted(lanes'[l])
  PROVE  BestFirst'
<1>1. 1 .. Len(batch') = {}
  OBVIOUS
<1>2. QED
  BY <1>1 DEF BestFirst, Sorted

(* Add puts the entry at its place.                                        *)
LEMMA AddRanked ==
  ASSUME Ranked, NEW t \in Tx, NEW score \in Scores, Add(t, score)
  PROVE  BestFirst'
<1> DEFINE l == ClassifyLane(score)
           e == [tx |-> t, score |-> score]
<1>1. l \in Lanes /\ e \in Entry
  BY ClassifyLaneType DEF Entry
<1>2. PICK k \in 0 .. Len(lanes[l]) :
        /\ Place(lanes[l], k, e)
        /\ lanes' = [lanes EXCEPT ![l] = SeqExt!InsertAt(@, k + 1, e)]
  BY DEF Add
<1>3. lanes \in [Lanes -> Seq(Entry)] /\ \A m \in Lanes : Sorted(lanes[m])
  BY DEF Ranked, Consistent, TypeOK, BestFirst, Sorted
<1>4. batch' = << >>
  BY DEF Ranked, Consistent, Idle, Add, popVars
<1> HIDE DEF l, e
<1>5. lanes'[l] = SeqExt!InsertAt(lanes[l], k + 1, e) /\ lanes[l] \in Seq(Entry)
  BY <1>1, <1>2, <1>3
<1>6. Inserted(Entry, lanes[l], k, e, lanes'[l])
  BY <1>1, <1>5, InsertAtProperties
<1>7. Sorted(lanes'[l])
  BY <1>1, <1>2, <1>3, <1>5, <1>6, InsertSorted
<1>8. \A m \in Lanes \ {l} : lanes'[m] = lanes[m]
  BY <1>2, <1>3
<1>9. \A m \in Lanes : Sorted(lanes'[m])
  BY <1>3, <1>7, <1>8
<1>10. QED
  BY <1>4, <1>9, NothingOvertakes

(* Remove takes one out.                                                   *)
LEMMA RemoveRanked ==
  ASSUME Ranked, NEW t \in Tx, Remove(t)
  PROVE  BestFirst'
<1>1. PICK l \in Lanes : \E k \in 1 .. Len(lanes[l]) :
        lanes' = [lanes EXCEPT ![l] = SeqExt!RemoveAt(@, k)]
  BY RemovesOne DEF Ranked
<1>2. PICK k \in 1 .. Len(lanes[l]) : lanes' = [lanes EXCEPT ![l] = SeqExt!RemoveAt(@, k)]
  BY <1>1
<1>3. lanes \in [Lanes -> Seq(Entry)] /\ \A m \in Lanes : Sorted(lanes[m])
  BY DEF Ranked, Consistent, TypeOK, BestFirst, Sorted
<1>4. batch' = << >>
  BY DEF Ranked, Consistent, Idle, Remove, popVars
<1>5. lanes'[l] = SeqExt!RemoveAt(lanes[l], k) /\ lanes[l] \in Seq(Entry)
  BY <1>2, <1>3
<1>6. Removed(Entry, lanes[l], k, lanes'[l])
  BY <1>5, RemoveAtProperties
<1>7. Sorted(lanes'[l])
  BY <1>3, <1>5, <1>6, RemoveSorted
<1>8. \A m \in Lanes \ {l} : lanes'[m] = lanes[m]
  BY <1>2, <1>3
<1>9. \A m \in Lanes : Sorted(lanes'[m])
  BY <1>3, <1>7, <1>8
<1>10. QED
  BY <1>4, <1>9, NothingOvertakes

(* A drain takes the best entry of its lane, which no entry of the lane    *)
(* taken before is worse than; the other lanes are not touched.            *)
LEMMA TakeRanked ==
  ASSUME Ranked, Take
  PROVE  Classified' /\ BestFirst'
<1> DEFINE m == Lane
           e == Head(lanes[m])
           n == Len(batch)
<1>1. /\ m \in Lanes /\ lanes[m] # << >> /\ lanes \in [Lanes -> Seq(Entry)] /\ batch \in Seq(Entry)
      /\ \A l \in Lanes : Sorted(lanes[l])
  BY LaneType DEF Ranked, Take, CanTake, Consistent, TypeOK, BestFirst, Sorted
<1>2. /\ lanes' = [lanes EXCEPT ![m] = Tail(lanes[m])] /\ batch' = Append(batch, e)
  BY DEF Take
<1>3. /\ Sorted(Tail(lanes[m])) /\ e \in Entry
      /\ \A j \in 1 .. Len(Tail(lanes[m])) :
           /\ Tail(lanes[m])[j] = lanes[m][j + 1] /\ j + 1 \in 1 .. Len(lanes[m])
           /\ Priority(e) >= Priority(Tail(lanes[m])[j])
  BY <1>1, TailSorted
<1>4. 1 \in 1 .. Len(lanes[m]) /\ e = lanes[m][1]
  BY <1>1, HeadTailProperties, LenProperties, EmptySeq
<1>5. ClassifyLane(e.score) = m
  BY <1>1, <1>4 DEF Ranked, Classified
<1>6. /\ n \in Nat /\ Len(Append(batch, e)) = n + 1 /\ Append(batch, e)[n + 1] = e
      /\ \A i \in 1 .. n : Append(batch, e)[i] = batch[i]
  BY <1>1, <1>3, AppendProperties, LenProperties
<1> HIDE DEF e, n
<1>7. ASSUME NEW i \in 1 .. n, ClassifyLane(batch[i].score) = m
      PROVE  \A j \in 1 .. Len(lanes[m]) : Priority(batch[i]) >= Priority(lanes[m][j])
  <2>1. i \in 1 .. Len(batch)
    BY DEF n
  <2>2. QED
    BY <1>7, <2>1 DEF Ranked, BestFirst
<1>8. ASSUME NEW l \in Lanes, l # m, NEW i \in 1 .. n, ClassifyLane(batch[i].score) = l
      PROVE  \A j \in 1 .. Len(lanes[l]) : Priority(batch[i]) >= Priority(lanes[l][j])
  <2>1. i \in 1 .. Len(batch)
    BY DEF n
  <2>2. QED
    BY <1>8, <2>1 DEF Ranked, BestFirst
<1>9. \A i, j \in 1 .. n :
        i < j /\ ClassifyLane(batch[i].score) = ClassifyLane(batch[j].score)
          => Priority(batch[i]) >= Priority(batch[j])
  <2> SUFFICES ASSUME NEW i \in 1 .. n, NEW j \in 1 .. n, i < j,
                      ClassifyLane(batch[i].score) = ClassifyLane(batch[j].score)
               PROVE  Priority(batch[i]) >= Priority(batch[j])
    OBVIOUS
  <2>1. i \in 1 .. Len(batch) /\ j \in (i + 1) .. Len(batch)
    BY <1>6 DEF n
  <2>2. QED
    BY <2>1 DEF Ranked, BestFirst
<1> DEFINE q == [lanes EXCEPT ![m] = Tail(lanes[m])]
           b == Append(batch, e)
<1>10. q[m] = Tail(lanes[m]) /\ \A l \in Lanes \ {m} : q[l] = lanes[l]
  BY <1>1
<1>11. /\ Len(b) = n + 1 /\ b[n + 1] = e /\ \A i \in 1 .. n : b[i] = batch[i]
  BY <1>6
<1> HIDE DEF m, q, b
<1>12. \A l \in Lanes : Sorted(q[l])
  BY <1>1, <1>3, <1>10
<1>13. ASSUME NEW i \in 1 .. Len(b), NEW l \in Lanes, ClassifyLane(b[i].score) = l,
              NEW j \in 1 .. Len(q[l])
       PROVE  Priority(b[i]) >= Priority(q[l][j])
  <2>1. CASE i = n + 1
    <3>1. b[i] = e /\ l = m
      BY <1>5, <1>11, <1>13, <2>1
    <3>2. QED
      BY <1>3, <1>10, <1>13, <3>1
  <2>2. CASE i # n + 1
    <3>1. i \in 1 .. n /\ b[i] = batch[i]
      BY <1>6, <1>11, <2>2
    <3>2. CASE l = m
      <4>1. q[l][j] = lanes[m][j + 1] /\ j + 1 \in 1 .. Len(lanes[m])
        BY <1>3, <1>10, <1>13, <3>2
      <4>2. QED
        BY <1>7, <1>13, <3>1, <3>2, <4>1
    <3>3. CASE l # m
      BY <1>8, <1>10, <1>13, <3>1, <3>3
    <3>4. QED
      BY <3>2, <3>3
  <2>3. QED
    BY <2>1, <2>2
<1>14. ASSUME NEW i \in 1 .. Len(b), NEW j \in (i + 1) .. Len(b),
              ClassifyLane(b[j].score) = ClassifyLane(b[i].score)
       PROVE  Priority(b[i]) >= Priority(b[j])
  <2>1. i \in 1 .. n /\ b[i] = batch[i] /\ i < j
    BY <1>6, <1>11
  <2>2. CASE j = n + 1
    <3>1. b[j] = e /\ ClassifyLane(batch[i].score) = m
      BY <1>5, <1>11, <1>14, <2>1, <2>2
    <3>2. QED
      BY <1>4, <1>7, <2>1, <3>1
  <2>3. CASE j # n + 1
    <3>1. j \in 1 .. n /\ b[j] = batch[j]
      BY <1>6, <1>11, <2>1, <2>3
    <3>2. QED
      BY <1>9, <1>14, <2>1, <3>1
  <2>4. QED
    BY <2>2, <2>3
<1>15. \A i \in 1 .. Len(b) : ClassifyLane(b[i].score) \in Lanes
  <2>1. Append(batch, e) \in Seq(Entry)
    BY <1>1, <1>3, AppendProperties
  <2>2. \A i \in 1 .. Len(b) : b[i] \in Entry
    BY <2>1, ElementOfSeq DEF b
  <2>3. QED
    BY <2>2, ClassifyLaneType DEF Entry
<1>16. lanes' = q /\ batch' = b
  BY <1>2 DEF q, b, m
<1>17. BestFirst'
  BY <1>12, <1>13, <1>14, <1>15, <1>16 DEF BestFirst, Sorted
<1>18. \A l \in Lanes : \A i \in 1 .. Len(q[l]) : ClassifyLane(q[l][i].score) = l
  <2> SUFFICES ASSUME NEW l \in Lanes, NEW i \in 1 .. Len(q[l])
               PROVE  ClassifyLane(q[l][i].score) = l
    OBVIOUS
  <2>1. CASE l = m
    <3>1. i \in 1 .. Len(Tail(lanes[m]))
      BY <1>10, <2>1
    <3>2. q[l][i] = lanes[m][i + 1] /\ i + 1 \in 1 .. Len(lanes[m])
      BY <1>3, <1>10, <2>1, <3>1
    <3>3. QED
      BY <2>1, <3>2 DEF Ranked, Classified
  <2>2. CASE l # m
    <3>1. q[l] = lanes[l]
      BY <1>10, <2>2
    <3>2. QED
      BY <3>1 DEF Ranked, Classified
  <2>3. QED
    BY <2>1, <2>2
<1>19. QED
  BY <1>16, <1>17, <1>18 DEF Classified

(* Every step keeps the order.                                             *)
LEMMA NextRanked == Ranked /\ [Next]_vars => Ranked'
<1> SUFFICES ASSUME Ranked, [Next]_vars PROVE Ranked'
  OBVIOUS
<1>0. Consistent /\ Consistent' /\ Classified
  BY NextConsistent DEF Ranked
<1>1. ASSUME NEW t \in Tx, NEW s \in Scores, Add(t, s) PROVE Ranked'
  BY <1>0, <1>1, AddClassified, AddRanked DEF Ranked
<1>2. ASSUME NEW t \in Tx, Remove(t) PROVE Ranked'
  BY <1>0, <1>2, RemoveClassified, RemoveRanked DEF Ranked
<1>3. CASE Reset
  <2>1. \A l \in Lanes : Len(lanes'[l]) = 0
    BY <1>3 DEF Reset
  <2>2. Classified' /\ \A l \in Lanes : Sorted(lanes'[l])
    BY <2>1 DEF Classified, Sorted
  <2>3. batch' = << >>
    BY <1>0, <1>3 DEF Consistent, Idle, Reset, popVars
  <2>4. QED
    BY <1>0, <2>2, <2>3, NothingOvertakes DEF Ranked
<1>4. CASE Take
  BY <1>0, <1>4, TakeRanked DEF Ranked
<1>5. CASE EndDrain \/ UNCHANGED vars \/ \E c \in Calls : StartPop(c)
  <2>1. lanes' = lanes /\ batch' = batch
    BY <1>5 DEF EndDrain, StartPop, vars
  <2>2. QED
    BY <1>0, <2>1 DEF Ranked, Classified, BestFirst
<1>6. CASE Return
  <2>1. lanes' = lanes /\ batch' = << >>
    BY <1>6 DEF Return, poolVars
  <2>2. Classified' /\ \A l \in Lanes : Sorted(lanes'[l])
    BY <1>0, <2>1 DEF Ranked, Classified, BestFirst, Sorted
  <2>3. QED
    BY <1>0, <2>1, <2>2, NothingOvertakes DEF Ranked
<1>7. QED
  BY <1>1, <1>2, <1>3, <1>4, <1>5, <1>6 DEF Next, PopStep

(* A new pool is in order.                                                 *)
LEMMA InitRanked == Init => Ranked
<1> SUFFICES ASSUME Init PROVE Ranked
  OBVIOUS
<1>1. batch = << >> /\ Len(batch) = 0 /\ \A l \in Lanes : Len(lanes[l]) = 0
  BY DEF Init
<1>2. Classified /\ BestFirst
  BY <1>1 DEF Classified, BestFirst
<1>3. QED
  BY <1>2, InitConsistent DEF Ranked

(* It therefore always holds.                                              *)
LEMMA SpecRanked == Spec => []Ranked
<1>1. Init => Ranked
  BY InitRanked
<1>2. Ranked /\ [Next]_vars => Ranked'
  BY NextRanked
<1>3. QED
  BY <1>1, <1>2, PTL DEF Spec

(* Nothing of lower priority overtakes, in a lane or in a batch, for every *)
(* history of arrivals, removals, pops and put-backs; no assumption about  *)
(* gas sums is needed (queue.go:13-20, lanes.go:184-194).                  *)
THEOREM PopsBestFirst == Spec => []BestFirst
<1>1. Ranked => BestFirst
  BY DEF Ranked
<1>2. QED
  BY <1>1, SpecRanked, PTL

(* A transaction the pool accepts has a place in its lane, whatever the    *)
(* lane holds: Add never refuses for a third reason (lanes.go:87-130).     *)
THEOREM AcceptedFindsPlace ==
  Spec => [](\A t \in Tx, s \in Scores :
               \E k \in 0 .. Len(lanes[ClassifyLane(s)]) :
                 Place(lanes[ClassifyLane(s)], k, [tx |-> t, score |-> s]))
<1>1. ASSUME Ranked
      PROVE  \A t \in Tx, s \in Scores :
               \E k \in 0 .. Len(lanes[ClassifyLane(s)]) :
                 Place(lanes[ClassifyLane(s)], k, [tx |-> t, score |-> s])
  <2> SUFFICES ASSUME NEW t \in Tx, NEW s \in Scores
               PROVE  \E k \in 0 .. Len(lanes[ClassifyLane(s)]) :
                        Place(lanes[ClassifyLane(s)], k, [tx |-> t, score |-> s])
    OBVIOUS
  <2> DEFINE l == ClassifyLane(s)
             e == [tx |-> t, score |-> s]
  <2>1. l \in Lanes /\ e \in Entry
    BY ClassifyLaneType DEF Entry
  <2>2. lanes[l] \in Seq(Entry) /\ Sorted(lanes[l])
    BY <1>1, <2>1 DEF Ranked, Consistent, TypeOK, BestFirst, Sorted
  <2> HIDE DEF l, e
  <2>3. \E k \in 0 .. Len(lanes[l]) : Place(lanes[l], k, e)
    BY <2>1, <2>2, PlaceExists
  <2>4. QED
    BY <2>3 DEF l, e
<1>2. QED
  BY <1>1, SpecRanked, PTL


-----------------------------------------------------------------------------
(* A pop ends.                                                             *)

(* How many steps a pop under way can still take.                          *)
StepsLeft == (7 - phase) + totalLen

(* The arithmetic of one step.                                             *)
LEMMA OneLess ==
  ASSUME NEW a \in Nat, NEW b \in Nat, NEW c \in 1 .. 6, NEW d \in Nat, NEW n \in Nat, a <= n,
         (d = c /\ b = a - 1) \/ (d = c + 1 /\ b = a)
  PROVE  /\ (7 - c) + a \in 0 .. (6 + n) /\ (7 - d) + b \in Nat
         /\ (7 - d) + b = ((7 - c) + a) - 1
  OBVIOUS

(* While a pop holds the lock nobody else moves, and every step of its     *)
(* loops uses up an entry or a phase (lanes.go:184).                       *)
LEMMA PopSteps ==
  Consistent /\ CapacityRespected /\ Draining /\ [Next]_vars
    => \/ UNCHANGED vars
       \/ /\ StepsLeft \in 0 .. (6 + MaxSize) /\ StepsLeft' \in Nat
          /\ StepsLeft' = StepsLeft - 1
<1> SUFFICES ASSUME Consistent, CapacityRespected, Draining, [Next]_vars, ~UNCHANGED vars
             PROVE  /\ StepsLeft \in 0 .. (6 + MaxSize) /\ StepsLeft' \in Nat
                    /\ StepsLeft' = StepsLeft - 1
  OBVIOUS
<1>1. Take \/ EndDrain
  <2>1. phase # 0 /\ phase # 7
    BY DEF Draining
  <2>2. ~Free /\ ~Return
    BY <2>1 DEF Free, Return
  <2>3. Next
    OBVIOUS
  <2>4. QED
    BY <2>2, <2>3 DEF Next, PopStep, Add, Remove, Reset, StartPop
<1>2. phase \in 1 .. 6 /\ totalLen \in Nat /\ totalLen <= MaxSize /\ MaxSize \in Nat
  BY LengthTypes, LimitsAssumption DEF Draining, Consistent, CapacityRespected
<1>3. totalLen' \in Nat
  <2>1. lanes' \in [Lanes -> Seq(Entry)]
    BY NextConsistent DEF Consistent, TypeOK
  <2>2. Len(lanes'["fast"]) \in Nat /\ Len(lanes'["std"]) \in Nat /\ Len(lanes'["slow"]) \in Nat
    BY <2>1, LenProperties DEF Lanes
  <2>3. \A a, b, c \in Nat : a + b + c \in Nat
    OBVIOUS
  <2>4. QED
    BY <2>2, <2>3, Zenon DEF totalLen
<1>4. \/ phase' = phase /\ totalLen' = totalLen - 1
      \/ phase' = phase + 1 /\ totalLen' = totalLen
  BY <1>1, TakeLengths DEF Take, EndDrain, totalLen
<1>5. PICK a \in Nat, b \in Nat, c \in Nat :
        /\ a = totalLen /\ b = totalLen' /\ c = phase
        /\ a <= MaxSize /\ c \in 1 .. 6
  BY <1>2, <1>3
<1>6. (phase' = c /\ b = a - 1) \/ (phase' = c + 1 /\ b = a)
  BY <1>4, <1>5, Zenon
<1>7. StepsLeft = (7 - c) + a /\ StepsLeft' = (7 - phase') + b
  BY <1>5, Zenon DEF StepsLeft
<1>8. PICK d \in Nat : d = phase' /\ ((d = c /\ b = a - 1) \/ (d = c + 1 /\ b = a))
  BY <1>6
<1>9. /\ (7 - c) + a \in 0 .. (6 + MaxSize) /\ (7 - d) + b \in Nat
      /\ (7 - d) + b = ((7 - c) + a) - 1
  <2>1. a <= MaxSize /\ c \in 1 .. 6 /\ ((d = c /\ b = a - 1) \/ (d = c + 1 /\ b = a))
    BY <1>5, <1>8, Zenon
  <2>2. MaxSize \in Nat
    BY LimitsAssumption
  <2>3. QED
    BY <2>1, <2>2, OneLess
<1>10. QED
  BY <1>7, <1>8, <1>9, Zenon

(* A pop under way has at most 6 + maxSize steps to take, and each step of *)
(* the pool is one of them: nothing can prolong it, so it returns as soon  *)
(* as its goroutine has run that often (lanes.go:133-196).                 *)
THEOREM PopComesToAnEnd ==
  Spec => [][Draining => /\ StepsLeft \in 0 .. (6 + MaxSize) /\ StepsLeft' \in Nat
                         /\ StepsLeft' = StepsLeft - 1]_vars
<1>1. ASSUME Consistent, CapacityRespected, [Next]_vars
      PROVE  [Draining => /\ StepsLeft \in 0 .. (6 + MaxSize) /\ StepsLeft' \in Nat
                          /\ StepsLeft' = StepsLeft - 1]_vars
  BY <1>1, PopSteps
<1>2. Spec => [][Next]_vars
  BY PTL DEF Spec
<1>3. QED
  BY <1>1, <1>2, SpecConsistent, NeverOverfull, PTL
=============================================================================
