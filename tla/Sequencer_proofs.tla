-------------------------- MODULE Sequencer_proofs --------------------------
(***************************************************************************)
(* A transaction's way through the node is safe for every set of           *)
(* transactions and accounts, every pool size, block limit and score, and  *)
(* every interleaving of clients and the producer.  The pool's own         *)
(* invariant is taken from LanedMempool_proofs.                            *)
(***************************************************************************)
EXTENDS Sequencer, SequenceTheorems, FiniteSetTheorems, TLAPS

PP == INSTANCE LanedMempool_proofs

-----------------------------------------------------------------------------
(* The pool the node runs is the one the theorems of LanedMempool_proofs   *)
(* are about, action by action.                                            *)

LEMMA Assumptions == PP!WidthAssumption /\ PP!TxAssumption /\ PP!LimitsAssumption
  BY WidthAssumption, TxAssumption, LimitsAssumption
     DEF PP!WidthAssumption, PP!TxAssumption, PP!LimitsAssumption, UInt, PP!UInt

(* The names the two instances share.                                      *)
LEMMA SameNames ==
  /\ PP!Lanes = Lanes /\ PP!Entry = Entry /\ PP!UInt = UInt /\ Pool!Lanes = Lanes
  /\ \A s : Pool!ClassifyLane(s) = PP!ClassifyLane(s)
  /\ Pool!totalLen = PP!totalLen /\ Pool!Free = PP!Free
  /\ Pool!TypeOK <=> PP!TypeOK
  BY DEF PP!Lanes, Lanes, Pool!Lanes, PP!Entry, Entry, Pool!Entry, PP!UInt, UInt, Pool!UInt,
         Pool!ClassifyLane, PP!ClassifyLane, Pool!totalLen, PP!totalLen, Pool!Free, PP!Free,
         Pool!TypeOK, PP!TypeOK

(* A new pool.                                                             *)
LEMMA SameInit == Pool!Init => PP!Init
  BY DEF Pool!Init, PP!Init, Pool!Lanes, PP!Lanes

(* Taking a transaction in.                                                *)
LEMMA SameAdd ==
  ASSUME NEW t, NEW s
  PROVE  /\ Pool!Add(t, s) => PP!Add(t, s)
         /\ Pool!Accepts(t) <=> PP!Accepts(t)
<1>1. Pool!Accepts(t) <=> PP!Accepts(t)
  BY DEF Pool!Accepts, PP!Accepts, Pool!totalLen, PP!totalLen
<1>2. \A q, k, e : Pool!SeqExt!InsertAt(q, k, e) = PP!SeqExt!InsertAt(q, k, e)
  BY Zenon DEF Pool!SeqExt!InsertAt, PP!SeqExt!InsertAt
<1>3. \A q, k, e : Pool!Place(q, k, e) <=> PP!Place(q, k, e)
  <2>1. \A e : Pool!Priority(e) = PP!Priority(e)
    BY DEF Pool!Priority, PP!Priority, Pool!GasPriceFactor, PP!GasPriceFactor
  <2>2. QED
    BY <2>1 DEF Pool!Place, PP!Place
<1>4. Pool!ClassifyLane(s) = PP!ClassifyLane(s)
  BY DEF Pool!ClassifyLane, PP!ClassifyLane
<1>5. ASSUME Pool!Add(t, s) PROVE PP!Add(t, s)
  <2> DEFINE l == PP!ClassifyLane(s)
             e == [tx |-> t, score |-> s]
  <2>1. PICK k \in 0 .. Len(lanes[l]) :
          /\ Pool!Place(lanes[l], k, e)
          /\ lanes' = [lanes EXCEPT ![l] = Pool!SeqExt!InsertAt(@, k + 1, e)]
    BY <1>4, <1>5 DEF Pool!Add
  <2>2. /\ PP!Place(lanes[l], k, e)
        /\ lanes' = [lanes EXCEPT ![l] = PP!SeqExt!InsertAt(@, k + 1, e)]
    BY <1>2, <1>3, <2>1
  <2>3. /\ PP!Free /\ PP!Accepts(t) /\ UNCHANGED PP!popVars
        /\ known' = [h \in DOMAIN known \cup {t} |-> IF h = t THEN l ELSE known[h]]
    BY <1>1, <1>4, <1>5 DEF Pool!Add, Pool!Free, PP!Free, Pool!popVars, PP!popVars
  <2> HIDE DEF l
  <2>4. QED
    BY <2>2, <2>3 DEF PP!Add, l
<1>6. QED
  BY <1>1, <1>5

(* Popping a batch.                                                        *)
LEMMA SamePop ==
  /\ \A c : Pool!StartPop(c) => PP!StartPop(c)
  /\ Pool!Take => PP!Take
  /\ Pool!EndDrain => PP!EndDrain
  /\ Pool!Return => PP!Return
<1>1. Pool!CanTake <=> PP!CanTake
  BY DEF Pool!CanTake, PP!CanTake, Pool!Lane, PP!Lane, Pool!DrainedLane, PP!DrainedLane,
         Pool!remaining, PP!remaining, Pool!Fits, PP!Fits, Pool!Budget, PP!Budget,
         Pool!Share, PP!Share, Pool!LaneGasBps, PP!LaneGasBps
<1>2. Pool!Draining <=> PP!Draining
  BY DEF Pool!Draining, PP!Draining
<1>3. Pool!Lane = PP!Lane
  BY DEF Pool!Lane, PP!Lane, Pool!DrainedLane, PP!DrainedLane
<1>4. QED
  BY <1>1, <1>2, <1>3
     DEF Pool!StartPop, PP!StartPop, Pool!Take, PP!Take, Pool!EndDrain, PP!EndDrain,
         Pool!Return, PP!Return, Pool!Free, PP!Free, Pool!poolVars, PP!poolVars


-----------------------------------------------------------------------------
(* Induction: every nonempty set of numbers has a least element.           *)
LEMMA LeastElement ==
  ASSUME NEW T, T \subseteq Nat, T # {}
  PROVE  \E x \in T : \A y \in T : x <= y
<1>1. IsWellFoundedOn({ss \in Nat \X Nat : ss[1] < ss[2]}, Nat)
  <2>1. OpToRel(<, Nat) = {ss \in Nat \X Nat : ss[1] < ss[2]}
    BY Zenon DEF OpToRel
  <2>2. QED
    BY <2>1, NatLessThanWellFounded
<1>2. PICK x \in T : \A y \in T : <<y, x>> \notin {ss \in Nat \X Nat : ss[1] < ss[2]}
  BY <1>1, WFMin
<1>3. ASSUME NEW y \in T, y < x PROVE FALSE
  <2>1. <<y, x>> \in Nat \X Nat /\ <<y, x>>[1] = y /\ <<y, x>>[2] = x
    OBVIOUS
  <2>2. QED
    BY <1>2, <1>3, <2>1
<1>4. QED
  BY <1>3

-----------------------------------------------------------------------------
(* One transaction.                                                        *)

AcctState == [nonce : [Accounts -> Nat], bal : [Accounts -> Nat]]

(* What a transaction is charged is at most the gas it has bought: the     *)
(* refund is capped, whatever the counter holds (evm.go:181-189).          *)
LEMMA ChargedBounds ==
  ASSUME NEW t \in Tx, NEW run, run.refund \in Nat
  PROVE  Charged(run, t) \in Nat /\ Charged(run, t) <= Gas[t] /\ RefundCounter(run, t) \in Nat
<1> DEFINE g == EvmGas[t]
           h == g \div 2
<1>1. g \in Nat /\ g <= Gas[t] /\ Gas[t] \in Nat
  BY ExecutionAssumption, TxAssumption, WidthAssumption DEF UInt
<1>2. RefundCounter(run, t) \in Nat
  BY ExecutionAssumption DEF RefundCounter
<1>3. h \in Nat /\ h <= g
  BY <1>1
<1> HIDE DEF h
<1>4. Charged(run, t) = g - (IF RefundCounter(run, t) > h THEN h ELSE RefundCounter(run, t))
  BY DEF Charged, h
<1> HIDE DEF g
<1>5. QED
  BY <1>1, <1>2, <1>3, <1>4 DEF g

(* Products are monotone.                                                  *)
LEMMA Monotone ==
  ASSUME NEW a \in Nat, NEW b \in Nat, NEW c \in Nat, a <= b
  PROVE  a * c \in Nat /\ b * c \in Nat /\ a * c <= b * c
<1>1. PICK d \in Nat : b = a + d
  <2>1. b - a \in Nat /\ b = a + (b - a)
    OBVIOUS
  <2>2. QED
    BY <2>1
<1>2. b * c = a * c + d * c /\ a * c \in Nat /\ d * c \in Nat
  BY <1>1
<1>3. QED
  BY <1>2

(* What Apply moves: the fee and, unless the EVM run fails, the value.     *)
Moved(t) == IF t \in Reverts THEN 0 ELSE Value[t]

(* A valid transaction can pay for what it moves.                          *)
LEMMA CanPay ==
  ASSUME NEW st \in AcctState, NEW t \in Tx, Valid(st, t), NEW g \in Nat, g <= Gas[t]
  PROVE  /\ g * GasPrice[t] \in Nat /\ Moved(t) \in Nat
         /\ g * GasPrice[t] + Moved(t) <= st.bal[Sender[t]]
<1> DEFINE fee == g * GasPrice[t]
           most == Gas[t] * GasPrice[t]
<1>1. fee \in Nat /\ most \in Nat /\ fee <= most
  <2>1. Gas[t] \in Nat /\ GasPrice[t] \in Nat
    BY TxAssumption, WidthAssumption DEF UInt
  <2>2. QED
    BY <2>1, Monotone
<1>2. Moved(t) \in Nat /\ Moved(t) <= Value[t] /\ Value[t] \in Nat
  BY AccountAssumption DEF Moved
<1>3. st.bal[Sender[t]] >= most + Value[t] /\ st.bal[Sender[t]] \in Nat
  BY AccountAssumption DEF Valid, Cost, AcctState
<1> HIDE DEF fee, most
<1>4. fee + Moved(t) <= st.bal[Sender[t]]
  BY <1>1, <1>2, <1>3
<1>5. QED
  BY <1>1, <1>2, <1>4 DEF fee

(* Between the balances f and g, x has paid p to z and q to y; the three   *)
(* need not be different accounts.                                         *)
Paid(f, g, p, q, x, y, z) ==
  \A a \in Accounts :
    g[a] = f[a] - (IF a = x THEN p + q ELSE 0)
             + ((IF a = y THEN q ELSE 0) + (IF a = z THEN p ELSE 0))

(* The effect of a valid transaction on the accounts: no balance goes      *)
(* below zero (evm.go:131-204).                                            *)
LEMMA ApplyEffect ==
  ASSUME NEW st \in AcctState, NEW t \in Tx, Valid(st, t), NEW g \in Nat, g <= Gas[t]
  PROVE  /\ Apply(st, t, g) \in AcctState
         /\ Apply(st, t, g).nonce = [st.nonce EXCEPT ![Sender[t]] = @ + 1]
         /\ Paid(st.bal, Apply(st, t, g).bal, g * GasPrice[t], Moved(t), Sender[t], To[t], Coinbase)
<1> DEFINE fee == g * GasPrice[t]
           s1  == Apply(st, t, g)
           bal(a) == st.bal[a] - (IF a = Sender[t] THEN fee + Moved(t) ELSE 0)
                       + ((IF a = To[t] THEN Moved(t) ELSE 0)
                           + (IF a = Coinbase THEN fee ELSE 0))
<1>1. /\ fee \in Nat /\ Moved(t) \in Nat /\ fee + Moved(t) <= st.bal[Sender[t]]
  BY CanPay
<1>2. s1 = [nonce |-> [st.nonce EXCEPT ![Sender[t]] = @ + 1], bal |-> [a \in Accounts |-> bal(a)]]
  BY DEF Apply, Moved
<1> HIDE DEF fee, s1
<1>3. st.nonce \in [Accounts -> Nat] /\ st.bal \in [Accounts -> Nat] /\ Sender[t] \in Accounts
  BY AccountAssumption DEF AcctState
<1>4. ASSUME NEW a \in Accounts PROVE bal(a) \in Nat
  <2>1. st.bal[a] \in Nat
    BY <1>3
  <2>2. CASE a = Sender[t]
    <3>1. st.bal[a] - (fee + Moved(t)) \in Nat
      BY <1>1, <2>1, <2>2
    <3>2. QED
      BY <1>1, <2>2, <3>1
  <2>3. CASE a # Sender[t]
    BY <1>1, <2>1, <2>3
  <2>4. QED
    BY <2>2, <2>3
<1> HIDE DEF bal
<1>5. /\ s1 \in AcctState /\ s1.nonce = [st.nonce EXCEPT ![Sender[t]] = @ + 1]
      /\ \A a \in Accounts : s1.bal[a] = bal(a)
  <2>1. [st.nonce EXCEPT ![Sender[t]] = @ + 1] \in [Accounts -> Nat]
    BY <1>3
  <2>2. [a \in Accounts |-> bal(a)] \in [Accounts -> Nat]
    BY <1>4
  <2>3. QED
    BY <1>2, <2>1, <2>2 DEF AcctState
<1>6. Paid(st.bal, s1.bal, fee, Moved(t), Sender[t], To[t], Coinbase)
  BY <1>5 DEF Paid, bal
<1>7. QED
  BY <1>5, <1>6 DEF fee, s1


-----------------------------------------------------------------------------
(* The ledger and the nonces.                                              *)

Mine(L, a) == {i \in DOMAIN L : Sender[L[i]] = a}
Earlier(L, a, i) == {j \in Mine(L, a) : j < i}

(* Every sender's transactions are in nonce order without a gap, and nonce *)
(* counts them.                                                            *)
Ordered(L, nonce) ==
  \A a \in Accounts :
    /\ nonce[a] = Cardinality(Mine(L, a))
    /\ \A i \in Mine(L, a) : Nonce[L[i]] = Cardinality(Earlier(L, a, i))

(* A sender's part of the ledger can be counted.                           *)
LEMMA MineFinite ==
  ASSUME NEW L \in Seq(Tx), NEW a
  PROVE  /\ IsFiniteSet(Mine(L, a)) /\ Cardinality(Mine(L, a)) \in Nat
         /\ \A i : IsFiniteSet(Earlier(L, a, i)) /\ Cardinality(Earlier(L, a, i)) \in Nat
<1>1. Len(L) \in Nat /\ DOMAIN L = 1 .. Len(L)
  BY LenProperties
<1>2. IsFiniteSet(1 .. Len(L))
  BY <1>1, FS_Interval
<1>3. Mine(L, a) \in SUBSET (1 .. Len(L)) /\ \A i : Earlier(L, a, i) \in SUBSET (1 .. Len(L))
  BY <1>1 DEF Mine, Earlier
<1>4. QED
  BY <1>2, <1>3, FS_Subset, FS_CardinalityType

(* Appending a transaction with its sender's nonce keeps the ledger        *)
(* ordered; the nonce moves on (evm.go:124-128, 161).                      *)
LEMMA AppendOrdered ==
  ASSUME NEW L \in Seq(Tx), NEW nonce \in [Accounts -> Nat], Ordered(L, nonce),
         NEW t \in Tx, Nonce[t] = nonce[Sender[t]]
  PROVE  Ordered(Append(L, t), [nonce EXCEPT ![Sender[t]] = @ + 1])
<1> DEFINE M == Append(L, t)
           n == Len(L) + 1
           after == [nonce EXCEPT ![Sender[t]] = @ + 1]
<1>1. /\ Len(L) \in Nat /\ DOMAIN L = 1 .. Len(L) /\ DOMAIN M = 1 .. n /\ M[n] = t
      /\ \A i \in 1 .. Len(L) : M[i] = L[i]
  BY AppendProperties, LenProperties
<1> HIDE DEF M
<1>2. SUFFICES ASSUME NEW a \in Accounts
               PROVE  /\ after[a] = Cardinality(Mine(M, a))
                      /\ \A i \in Mine(M, a) : Nonce[M[i]] = Cardinality(Earlier(M, a, i))
  BY DEF Ordered, M
<1>3. /\ nonce[a] = Cardinality(Mine(L, a)) /\ nonce[a] \in Nat
      /\ \A i \in Mine(L, a) : Nonce[L[i]] = Cardinality(Earlier(L, a, i))
      /\ IsFiniteSet(Mine(L, a)) /\ n \notin Mine(L, a) /\ Sender[t] \in Accounts
  <2>1. IsFiniteSet(Mine(L, a)) /\ nonce[a] \in Nat /\ Sender[t] \in Accounts
    BY MineFinite, AccountAssumption
  <2>2. n \notin Mine(L, a)
    BY <1>1 DEF Mine
  <2>3. QED
    BY <2>1, <2>2 DEF Ordered
<1>4. ASSUME NEW i \in Mine(L, a)
      PROVE  Nonce[M[i]] = Cardinality(Earlier(M, a, i))
  <2>1. i \in 1 .. Len(L) /\ M[i] = L[i]
    BY <1>1 DEF Mine
  <2>2. Earlier(M, a, i) = Earlier(L, a, i)
    BY <1>1, <2>1 DEF Earlier, Mine
  <2>3. QED
    BY <1>3, <2>1, <2>2
<1>5. CASE a = Sender[t]
  <2>1. Mine(M, a) = Mine(L, a) \cup {n}
    BY <1>1, <1>5 DEF Mine
  <2>2. Cardinality(Mine(M, a)) = Cardinality(Mine(L, a)) + 1
    BY <1>3, <2>1, FS_AddElement
  <2>3. after[a] = nonce[a] + 1
    BY <1>3, <1>5
  <2>4. Earlier(M, a, n) = Mine(L, a)
    BY <1>1, <2>1 DEF Earlier, Mine
  <2>5. Nonce[M[n]] = Cardinality(Earlier(M, a, n))
    BY <1>1, <1>3, <1>5, <2>4
  <2> HIDE DEF n, after
  <2>6. QED
    BY <1>3, <1>4, <2>1, <2>2, <2>3, <2>5
<1>6. CASE a # Sender[t]
  <2>1. Mine(M, a) = Mine(L, a)
    BY <1>1, <1>6 DEF Mine
  <2>2. after[a] = nonce[a]
    BY <1>3, <1>6
  <2>3. QED
    BY <1>3, <1>4, <2>1, <2>2
<1>7. QED
  BY <1>5, <1>6

(* An ordered ledger holds no transaction twice: of two places the later   *)
(* one has more of the sender's transactions before it.                    *)
LEMMA OrderedOnce ==
  ASSUME NEW L \in Seq(Tx), NEW nonce, Ordered(L, nonce),
         NEW i \in DOMAIN L, NEW j \in DOMAIN L, L[i] = L[j]
  PROVE  i = j
<1> DEFINE a == Sender[L[i]]
<1>1. DOMAIN L = 1 .. Len(L) /\ Len(L) \in Nat /\ L[i] \in Tx
  BY LenProperties, ElementOfSeq
<1>2. a \in Accounts /\ i \in Mine(L, a) /\ j \in Mine(L, a)
  BY <1>1, AccountAssumption DEF Mine
<1> HIDE DEF a
<1>3. Cardinality(Earlier(L, a, i)) = Cardinality(Earlier(L, a, j))
  BY <1>2 DEF Ordered
<1>4. ASSUME NEW x \in Mine(L, a), NEW y \in Mine(L, a), x < y,
             Cardinality(Earlier(L, a, x)) = Cardinality(Earlier(L, a, y))
      PROVE  FALSE
  <2>1. Earlier(L, a, x) \in SUBSET Earlier(L, a, y)
    BY <1>1, <1>4 DEF Earlier, Mine
  <2>2. x \in Earlier(L, a, y) /\ x \notin Earlier(L, a, x)
    BY <1>1, <1>4 DEF Earlier, Mine
  <2>3. QED
    BY <1>4, <2>1, <2>2, MineFinite, FS_Subset
<1>5. ~(i < j) /\ ~(j < i)
  BY <1>2, <1>3, <1>4
<1>6. QED
  BY <1>1, <1>5


-----------------------------------------------------------------------------
(* The sum of all balances, which Supply computes by choosing one account  *)
(* after the other.                                                        *)

Some(s) == CHOOSE a \in s : TRUE
IsSum(d, f) == d = [s \in SUBSET Accounts |-> IF s = {} THEN 0 ELSE f[Some(s)] + d[s \ {Some(s)}]]

(* Supply is the sum over all accounts.                                    *)
LEMMA SupplyIsSum ==
  ASSUME NEW f
  PROVE  Supply(f) = (CHOOSE d : IsSum(d, f))[Accounts]
  BY DEF Supply, SetExt!MapThenSumSet, SetExt!MapThenFoldSet, IsSum, Some


(* A nonempty set of accounts without the chosen one is smaller.           *)
LEMMA SomeProperties ==
  ASSUME NEW s \in SUBSET Accounts, s # {}
  PROVE  /\ Some(s) \in s /\ Some(s) \in Accounts
         /\ s \ {Some(s)} \in SUBSET Accounts
         /\ Cardinality(s) \in Nat /\ Cardinality(s) > 0
         /\ Cardinality(s \ {Some(s)}) = Cardinality(s) - 1
<1>1. Some(s) \in s /\ Some(s) \in Accounts
  BY DEF Some
<1>2. IsFiniteSet(s)
  BY AccountAssumption, FS_Subset
<1>3. Cardinality(s) \in Nat /\ Cardinality(s) # 0
  BY <1>2, FS_CardinalityType, FS_EmptySet
<1>4. Cardinality(s \ {Some(s)}) = Cardinality(s) - 1
  BY <1>1, <1>2, FS_RemoveElement
<1>5. QED
  BY <1>1, <1>3, <1>4

Small(n) == {s \in SUBSET Accounts : Cardinality(s) <= n}
IsSumTo(d, f, n) ==
  d = [s \in Small(n) |-> IF s = {} THEN 0 ELSE f[Some(s)] + d[s \ {Some(s)}]]

(* The equation of the sum, one set at a time.                             *)
LEMMA SumToAt ==
  ASSUME NEW d, NEW f, NEW n, IsSumTo(d, f, n), NEW s \in Small(n)
  PROVE  d[s] = IF s = {} THEN 0 ELSE f[Some(s)] + d[s \ {Some(s)}]
<1> DEFINE step(u) == IF u = {} THEN 0 ELSE f[Some(u)] + d[u \ {Some(u)}]
           e == [u \in Small(n) |-> step(u)]
<1>1. d = e
  BY Zenon DEF IsSumTo
<1> HIDE DEF step
<1>2. e[s] = step(s)
  BY Zenon
<1> HIDE DEF e
<1>3. QED
  BY <1>1, <1>2, Zenon DEF step

(* A sum over the sets of n accounts extends to those of n + 1.            *)
LEMMA SumExtends ==
  ASSUME NEW f, NEW n \in Nat, NEW m \in Nat, n = m + 1, NEW e, IsSumTo(e, f, m)
  PROVE  \E d : IsSumTo(d, f, n)
<1> DEFINE step(d, s) == IF s = {} THEN 0 ELSE f[Some(s)] + d[s \ {Some(s)}]
           d == [s \in Small(n) |-> step(e, s)]
<1>1. \A s \in Small(n) : d[s] = step(e, s)
  OBVIOUS
<1> HIDE DEF d
<1>2. ASSUME NEW s \in Small(m) PROVE s \in Small(n) /\ d[s] = e[s]
  <2>1. s \in Small(n)
    <3>1. Cardinality(s) \in Int
      BY AccountAssumption, FS_Subset, FS_CardinalityType DEF Small
    <3>2. QED
      BY <3>1 DEF Small
  <2>2. e[s] = step(e, s)
    BY SumToAt
  <2>3. QED
    BY <1>1, <2>1, <2>2
<1>3. ASSUME NEW s \in Small(n) PROVE step(e, s) = step(d, s)
  <2>1. CASE s = {}
    BY <2>1
  <2>2. CASE s # {}
    <3>1. s \ {Some(s)} \in Small(m)
      BY <2>2, SomeProperties DEF Small
    <3>2. QED
      BY <1>2, <2>2, <3>1
  <2>3. QED
    BY <2>1, <2>2
<1>4. d = [s \in Small(n) |-> step(d, s)]
  <2>1. [s \in Small(n) |-> step(e, s)] = [s \in Small(n) |-> step(d, s)]
    <3> HIDE DEF step
    <3>1. QED
      BY <1>3
  <2>2. QED
    BY <2>1, Zenon DEF d
<1>5. IsSumTo(d, f, n)
  BY <1>4, Zenon DEF IsSumTo
<1>6. QED
  BY <1>5

(* There is a sum over all accounts.                                       *)
LEMMA SumExists ==
  ASSUME NEW f
  PROVE  \E d : IsSum(d, f)
<1> DEFINE T == {n \in Nat : ~ \E d : IsSumTo(d, f, n)}
<1>1. T = {}
  <2> SUFFICES ASSUME T # {} PROVE FALSE
    OBVIOUS
  <2>1. PICK n \in T : \A y \in T : n <= y
    BY LeastElement
  <2>2. n \in Nat /\ ~ \E d : IsSumTo(d, f, n)
    OBVIOUS
  <2>3. CASE n = 0
    <3> DEFINE step(d, s) == IF s = {} THEN 0 ELSE f[Some(s)] + d[s \ {Some(s)}]
               d == [s \in Small(0) |-> 0]
    <3>1. ASSUME NEW s \in Small(0) PROVE step(d, s) = 0
      <4>1. s \in SUBSET Accounts /\ Cardinality(s) <= 0
        BY DEF Small
      <4>2. s = {}
        <5> SUFFICES ASSUME s # {} PROVE FALSE
          OBVIOUS
        <5>1. Cardinality(s) \in Nat /\ Cardinality(s) > 0
          BY <4>1, SomeProperties
        <5>2. QED
          BY <4>1, <5>1
      <4>3. QED
        BY <4>2
    <3> HIDE DEF step
    <3>2. d = [s \in Small(0) |-> step(d, s)]
      BY <3>1
    <3> HIDE DEF d
    <3>3. IsSumTo(d, f, 0)
      BY <3>2, Zenon DEF IsSumTo, step
    <3>4. QED
      BY <2>2, <2>3, <3>3
  <2>4. CASE n # 0
    <3>1. n - 1 \in Nat /\ n = (n - 1) + 1 /\ n - 1 \notin T
      BY <2>1, <2>2, <2>4
    <3>2. PICK e : IsSumTo(e, f, n - 1)
      BY <3>1
    <3>3. \E d : IsSumTo(d, f, n)
      BY <2>2, <3>1, <3>2, SumExtends
    <3>4. QED
      BY <2>2, <3>3
  <2>5. QED
    BY <2>3, <2>4
<1>2. Cardinality(Accounts) \in Nat
  BY AccountAssumption, FS_CardinalityType
<1>3. PICK d : IsSumTo(d, f, Cardinality(Accounts))
  BY <1>1, <1>2
<1>4. Small(Cardinality(Accounts)) = SUBSET Accounts
  BY AccountAssumption, FS_Subset DEF Small
<1>5. IsSum(d, f)
  BY <1>3, <1>4 DEF IsSumTo, IsSum
<1>6. QED
  BY <1>5


(* The equation of the sum over all sets of accounts.                      *)
LEMMA SumAt ==
  ASSUME NEW d, NEW f, IsSum(d, f), NEW s \in SUBSET Accounts
  PROVE  d[s] = IF s = {} THEN 0 ELSE f[Some(s)] + d[s \ {Some(s)}]
<1> DEFINE step(u) == IF u = {} THEN 0 ELSE f[Some(u)] + d[u \ {Some(u)}]
           e == [u \in SUBSET Accounts |-> step(u)]
<1>1. d = e
  BY Zenon DEF IsSum
<1> HIDE DEF step
<1>2. e[s] = step(s)
  BY Zenon
<1> HIDE DEF e
<1>3. QED
  BY <1>1, <1>2, Zenon DEF step

(* What x has or owes counts in s if x is in it.                           *)
Part(x, n, s) == IF x \in s THEN n ELSE 0

(* It counts once.                                                         *)
LEMMA PartSplits ==
  ASSUME NEW s, NEW c \in s, NEW x, NEW n \in Int
  PROVE  /\ Part(x, n, s) = Part(x, n, s \ {c}) + (IF c = x THEN n ELSE 0)
         /\ Part(x, n, s \ {c}) \in Int
<1>1. CASE x = c
  BY <1>1 DEF Part
<1>2. CASE x # c
  BY <1>2 DEF Part
<1>3. QED
  BY <1>1, <1>2

(* Payments change the sum over s by what crosses the border of s.         *)
LEMMA SumMoves ==
  ASSUME NEW f \in [Accounts -> Int], NEW g \in [Accounts -> Int], NEW d, NEW e,
         IsSum(d, f), IsSum(e, g),
         NEW p \in Int, NEW q \in Int, NEW x, NEW y, NEW z, Paid(f, g, p, q, x, y, z),
         NEW s \in SUBSET Accounts
  PROVE  /\ d[s] \in Int
         /\ e[s] = d[s] - Part(x, p + q, s) + (Part(y, q, s) + Part(z, p, s))
<1> DEFINE P(u) == /\ d[u] \in Int
                   /\ e[u] = d[u] - Part(x, p + q, u) + (Part(y, q, u) + Part(z, p, u))
           T == {n \in Nat : \E u \in SUBSET Accounts : Cardinality(u) = n /\ ~P(u)}
<1>1. ASSUME NEW u \in SUBSET Accounts, u # {}, P(u \ {Some(u)}) PROVE P(u)
  <2> DEFINE c == Some(u)
             r == u \ {c}
  <2>1. c \in u /\ c \in Accounts /\ r \in SUBSET Accounts
    BY <1>1, SomeProperties
  <2>2. d[u] = f[c] + d[r] /\ e[u] = g[c] + e[r]
    <3>1. d[u] = (IF u = {} THEN 0 ELSE f[c] + d[r]) /\ e[u] = (IF u = {} THEN 0 ELSE g[c] + e[r])
      BY SumAt, Zenon
    <3>2. QED
      BY <1>1, <3>1, Zenon
  <2>3. /\ g[c] = f[c] - (IF c = x THEN p + q ELSE 0)
                    + ((IF c = y THEN q ELSE 0) + (IF c = z THEN p ELSE 0))
        /\ f[c] \in Int
    BY <2>1 DEF Paid
  <2>4. d[r] \in Int /\ e[r] = d[r] - Part(x, p + q, r) + (Part(y, q, r) + Part(z, p, r))
    BY <1>1
  <2>5. p + q \in Int
    OBVIOUS
  <2>6. /\ Part(x, p + q, u) = Part(x, p + q, r) + (IF c = x THEN p + q ELSE 0)
        /\ Part(x, p + q, r) \in Int
    BY <2>1, <2>5, PartSplits
  <2>7. Part(y, q, u) = Part(y, q, r) + (IF c = y THEN q ELSE 0) /\ Part(y, q, r) \in Int
    BY <2>1, PartSplits
  <2>8. Part(z, p, u) = Part(z, p, r) + (IF c = z THEN p ELSE 0) /\ Part(z, p, r) \in Int
    BY <2>1, PartSplits
  <2> HIDE DEF c, r
  <2>9. QED
    BY <2>2, <2>3, <2>4, <2>6, <2>7, <2>8
<1>2. P({})
  <2>1. d[{}] = 0 /\ e[{}] = 0
    BY SumAt, Zenon
  <2>2. QED
    BY <2>1 DEF Part
<1> HIDE DEF P
<1>3. T = {}
  <2> SUFFICES ASSUME T # {} PROVE FALSE
    OBVIOUS
  <2>1. PICK n \in T : \A k \in T : n <= k
    BY LeastElement
  <2>2. PICK u \in SUBSET Accounts : Cardinality(u) = n /\ ~P(u)
    OBVIOUS
  <2>3. u # {}
    BY <1>2, <2>2
  <2>4. /\ u \ {Some(u)} \in SUBSET Accounts /\ n \in Nat /\ n > 0
        /\ Cardinality(u \ {Some(u)}) = n - 1
    BY <2>2, <2>3, SomeProperties
  <2>5. n - 1 \notin T
    BY <2>1, <2>4
  <2>6. P(u \ {Some(u)})
    BY <2>4, <2>5
  <2>7. QED
    BY <1>1, <2>2, <2>3, <2>6
<1>4. Cardinality(s) \in Nat
  BY AccountAssumption, FS_Subset, FS_CardinalityType
<1>5. P(s)
  BY <1>3, <1>4
<1>6. QED
  BY <1>5 DEF P

(* A valid transaction makes and destroys nothing (evm.go:131-204).        *)
LEMMA ApplyConserves ==
  ASSUME NEW st \in AcctState, NEW t \in Tx, Valid(st, t), NEW g \in Nat, g <= Gas[t]
  PROVE  Supply(Apply(st, t, g).bal) = Supply(st.bal)
<1> DEFINE f == st.bal
           h == Apply(st, t, g).bal
           p == g * GasPrice[t]
           q == Moved(t)
<1>1. /\ p \in Nat /\ q \in Nat
  BY CanPay
<1>2. Apply(st, t, g) \in AcctState /\ Paid(f, h, p, q, Sender[t], To[t], Coinbase)
  BY ApplyEffect, Zenon
<1>3. f \in [Accounts -> Int] /\ h \in [Accounts -> Int]
  BY <1>2 DEF AcctState
<1> DEFINE d == CHOOSE d : IsSum(d, f)
           e == CHOOSE e : IsSum(e, h)
<1> HIDE DEF f, h, p, q
<1>4. IsSum(d, f) /\ IsSum(e, h)
  BY SumExists
<1>5. Supply(f) = d[Accounts] /\ Supply(h) = e[Accounts]
  BY SupplyIsSum
<1> HIDE DEF d, e
<1>6. /\ d[Accounts] \in Int
      /\ e[Accounts] = d[Accounts] - Part(Sender[t], p + q, Accounts)
                         + (Part(To[t], q, Accounts) + Part(Coinbase, p, Accounts))
  <2>1. p \in Int /\ q \in Int /\ Accounts \in SUBSET Accounts
    BY <1>1
  <2>2. QED
    BY <1>2, <1>3, <1>4, <2>1, SumMoves
<1>7. Sender[t] \in Accounts /\ To[t] \in Accounts /\ Coinbase \in Accounts
  BY AccountAssumption
<1>8. e[Accounts] = d[Accounts]
  BY <1>1, <1>6, <1>7 DEF Part
<1>9. QED
  BY <1>5, <1>8 DEF f, h


-----------------------------------------------------------------------------
(* ExecuteTransactions.  Its loop is a recursive function on the batch; it *)
(* has to be shown that there is one, and what it computes.                *)

Run == [st : AcctState, gas : Nat, refund : Nat, done : Seq(Tx), skipped : Seq(Entry)]

(* After i transactions of the batch and on top of the ledger L.           *)
RunSound(L, metas, i, r) ==
  /\ r \in Run
  /\ Ordered(L \o r.done, r.st.nonce)
  /\ Supply(r.st.bal) = Supply(Genesis)
  /\ \A j \in 1 .. i : metas[j].tx \in Elems(r.done) \cup TxsOf(r.skipped)

(* What appending adds to the transactions of a sequence.                  *)
LEMMA AppendElems ==
  /\ \A s \in Seq(Tx), t \in Tx : /\ Append(s, t) \in Seq(Tx)
                                  /\ Elems(Append(s, t)) = Elems(s) \cup {t}
  /\ \A s \in Seq(Entry), e \in Entry : /\ Append(s, e) \in Seq(Entry)
                                        /\ TxsOf(Append(s, e)) = TxsOf(s) \cup {e.tx}
<1>1. ASSUME NEW S, NEW s \in Seq(S), NEW x \in S
      PROVE  /\ Append(s, x) \in Seq(S) /\ DOMAIN s = 1 .. Len(s) /\ Len(s) \in Nat
             /\ DOMAIN Append(s, x) = 1 .. (Len(s) + 1) /\ Append(s, x)[Len(s) + 1] = x
             /\ \A i \in 1 .. Len(s) : Append(s, x)[i] = s[i]
  BY AppendProperties, LenProperties
<1>2. ASSUME NEW s \in Seq(Tx), NEW t \in Tx
      PROVE  Append(s, t) \in Seq(Tx) /\ Elems(Append(s, t)) = Elems(s) \cup {t}
  <2> DEFINE r == Append(s, t)
  <2>1. /\ r \in Seq(Tx) /\ DOMAIN s = 1 .. Len(s) /\ Len(s) \in Nat
        /\ DOMAIN r = 1 .. (Len(s) + 1) /\ r[Len(s) + 1] = t
        /\ \A i \in 1 .. Len(s) : r[i] = s[i]
    BY <1>1
  <2> HIDE DEF r
  <2>2. Elems(r) = Elems(s) \cup {t}
    BY <2>1 DEF Elems
  <2>3. QED
    BY <2>1, <2>2 DEF r
<1>3. ASSUME NEW s \in Seq(Entry), NEW e \in Entry
      PROVE  Append(s, e) \in Seq(Entry) /\ TxsOf(Append(s, e)) = TxsOf(s) \cup {e.tx}
  <2> DEFINE r == Append(s, e)
  <2>1. /\ r \in Seq(Entry) /\ DOMAIN s = 1 .. Len(s) /\ Len(s) \in Nat
        /\ DOMAIN r = 1 .. (Len(s) + 1) /\ r[Len(s) + 1] = e
        /\ \A i \in 1 .. Len(s) : r[i] = s[i]
    BY <1>1
  <2> HIDE DEF r
  <2>2. TxsOf(r) = TxsOf(s) \cup {e.tx}
    BY <2>1 DEF TxsOf
  <2>3. QED
    BY <2>1, <2>2 DEF r
<1>4. QED
  BY <1>2, <1>3

(* One turn of the loop (evm.go:54-102).                                   *)
LEMMA TurnKeeps ==
  ASSUME NEW L \in Seq(Tx), NEW metas, NEW i \in Nat, metas[i + 1] \in Entry,
         NEW r, RunSound(L, metas, i, r)
  PROVE  RunSound(L, metas, i + 1, Turn(r, metas[i + 1]))
<1> DEFINE e == metas[i + 1]
           t == e.tx
           n == Turn(r, e)
<1>1. /\ e \in Entry /\ t \in Tx
      /\ r \in Run /\ r.st \in AcctState /\ r.refund \in Nat /\ r.gas \in Nat
      /\ r.done \in Seq(Tx) /\ r.skipped \in Seq(Entry)
  BY DEF RunSound, Run, Entry
<1>2. \A j \in 1 .. i : metas[j].tx \in Elems(r.done) \cup TxsOf(r.skipped)
  BY DEF RunSound
<1>3. ASSUME NEW s \in Run, t \in Elems(s.done) \cup TxsOf(s.skipped),
             Elems(r.done) \subseteq Elems(s.done), TxsOf(r.skipped) \subseteq TxsOf(s.skipped)
      PROVE  \A j \in 1 .. (i + 1) : metas[j].tx \in Elems(s.done) \cup TxsOf(s.skipped)
  <2> SUFFICES ASSUME NEW j \in 1 .. (i + 1)
               PROVE  metas[j].tx \in Elems(s.done) \cup TxsOf(s.skipped)
    OBVIOUS
  <2>1. CASE j \in 1 .. i
    BY <1>2, <1>3, <2>1
  <2>2. CASE j = i + 1
    BY <1>3, <2>2
  <2>3. QED
    BY <2>1, <2>2
<1>4. CASE FitsBlock(r.gas, t) /\ Valid(r.st, t)
  <2> DEFINE g == Charged(r, t)
             s1 == Apply(r.st, t, g)
  <2>1. g \in Nat /\ g <= Gas[t] /\ RefundCounter(r, t) \in Nat
    BY <1>1, ChargedBounds
  <2>2. s1 \in AcctState /\ s1.nonce = [r.st.nonce EXCEPT ![Sender[t]] = @ + 1]
    BY <1>1, <1>4, <2>1, ApplyEffect
  <2>3. Supply(s1.bal) = Supply(r.st.bal)
    BY <1>1, <1>4, <2>1, ApplyConserves
  <2> HIDE DEF g, s1, t
  <2>4. n = [r EXCEPT !.st = s1, !.gas = @ + g, !.refund = RefundCounter(r, t),
                      !.done = Append(@, t)]
    BY <1>4 DEF Turn, Executed, g, s1, t
  <2> HIDE DEF n
  <2>5. /\ Append(r.done, t) \in Seq(Tx) /\ Elems(Append(r.done, t)) = Elems(r.done) \cup {t}
    BY <1>1, AppendElems
  <2>6. /\ n.st = s1 /\ n.done = Append(r.done, t) /\ n.skipped = r.skipped
        /\ n.gas = r.gas + g /\ n.refund = RefundCounter(r, t)
        /\ n \in Run
    <3>1. /\ r = [st |-> r.st, gas |-> r.gas, refund |-> r.refund, done |-> r.done,
                  skipped |-> r.skipped]
      BY <1>1 DEF Run
    <3>2. n = [st |-> s1, gas |-> r.gas + g, refund |-> RefundCounter(r, t),
               done |-> Append(r.done, t), skipped |-> r.skipped]
      BY <2>4, <3>1
    <3>3. r.gas + g \in Nat
      BY <1>1, <2>1
    <3>4. QED
      BY <1>1, <2>1, <2>2, <2>5, <3>2, <3>3 DEF Run
  <2>7. Ordered(L \o n.done, n.st.nonce)
    <3>1. L \o r.done \in Seq(Tx) /\ L \o Append(r.done, t) = Append(L \o r.done, t)
      BY <1>1
    <3>2. Ordered(L \o r.done, r.st.nonce) /\ r.st.nonce \in [Accounts -> Nat]
      BY <1>1 DEF RunSound, AcctState
    <3>3. Nonce[t] = r.st.nonce[Sender[t]]
      BY <1>4 DEF Valid
    <3>4. Ordered(Append(L \o r.done, t), [r.st.nonce EXCEPT ![Sender[t]] = @ + 1])
      BY <1>1, <3>1, <3>2, <3>3, AppendOrdered
    <3>5. QED
      BY <2>2, <2>6, <3>1, <3>4
  <2>8. Supply(n.st.bal) = Supply(Genesis)
    BY <2>3, <2>6 DEF RunSound
  <2>9. t \in Elems(n.done) /\ Elems(r.done) \subseteq Elems(n.done)
    BY <2>5, <2>6
  <2>10. \A j \in 1 .. (i + 1) : metas[j].tx \in Elems(n.done) \cup TxsOf(n.skipped)
    BY <1>3, <2>6, <2>9
  <2>11. QED
    BY <2>6, <2>7, <2>8, <2>10 DEF RunSound, n
<1>5. CASE ~(FitsBlock(r.gas, t) /\ Valid(r.st, t))
  <2>1. n = [r EXCEPT !.skipped = Append(@, e)]
    BY <1>5 DEF Turn
  <2>2. Append(r.skipped, e) \in Seq(Entry) /\ TxsOf(Append(r.skipped, e)) = TxsOf(r.skipped) \cup {t}
    BY <1>1, AppendElems
  <2>3. /\ n.st = r.st /\ n.done = r.done /\ n.skipped = Append(r.skipped, e) /\ n \in Run
    BY <1>1, <2>1, <2>2 DEF Run
  <2> HIDE DEF n, t
  <2>4. \A j \in 1 .. (i + 1) : metas[j].tx \in Elems(n.done) \cup TxsOf(n.skipped)
    BY <1>3, <2>2, <2>3
  <2>5. QED
    BY <2>3, <2>4 DEF RunSound, n
<1>6. QED
  BY <1>4, <1>5


Fresh(st) == [st |-> st, gas |-> 0, refund |-> 0, done |-> << >>, skipped |-> << >>]
IsRun(d, st, metas, n) ==
  d = [i \in 0 .. n |-> IF i = 0 THEN Fresh(st) ELSE Turn(d[i - 1], metas[i])]

(* The equation of the loop, one transaction at a time.                    *)
LEMMA RunAt ==
  ASSUME NEW d, NEW st, NEW metas, NEW n, IsRun(d, st, metas, n), NEW i \in 0 .. n
  PROVE  d[i] = IF i = 0 THEN Fresh(st) ELSE Turn(d[i - 1], metas[i])
<1> DEFINE step(k) == IF k = 0 THEN Fresh(st) ELSE Turn(d[k - 1], metas[k])
           e == [k \in 0 .. n |-> step(k)]
<1>1. d = e
  BY Zenon DEF IsRun
<1> HIDE DEF step
<1>2. e[i] = step(i)
  BY Zenon
<1> HIDE DEF e
<1>3. QED
  BY <1>1, <1>2, Zenon DEF step

(* The loop can be run over every prefix of the batch.                     *)
LEMMA RunExists ==
  ASSUME NEW st, NEW metas
  PROVE  \A n \in Nat : \E d : IsRun(d, st, metas, n)
<1> DEFINE T == {n \in Nat : ~ \E d : IsRun(d, st, metas, n)}
           step(d, k) == IF k = 0 THEN Fresh(st) ELSE Turn(d[k - 1], metas[k])
<1>1. T = {}
  <2> SUFFICES ASSUME T # {} PROVE FALSE
    OBVIOUS
  <2>1. PICK n \in T : \A y \in T : n <= y
    BY LeastElement
  <2>2. n \in Nat /\ ~ \E d : IsRun(d, st, metas, n)
    OBVIOUS
  <2>3. PICK e : \A k \in 0 .. (n - 1) : e[k] = step(e, k)
    <3>1. CASE n = 0
      BY <3>1
    <3>2. CASE n # 0
      <4>1. n - 1 \in Nat /\ n - 1 \notin T
        BY <2>1, <2>2, <3>2
      <4>2. PICK d : IsRun(d, st, metas, n - 1)
        BY <4>1
      <4>3. \A k \in 0 .. (n - 1) : d[k] = step(d, k)
        BY <4>2, RunAt
      <4>4. QED
        BY <4>3
    <3>3. QED
      BY <3>1, <3>2
  <2> DEFINE d == [k \in 0 .. n |-> step(e, k)]
  <2>4. \A k \in 0 .. n : d[k] = step(e, k)
    OBVIOUS
  <2> HIDE DEF d
  <2>5. ASSUME NEW k \in 0 .. n PROVE step(e, k) = step(d, k)
    <3>1. CASE k = 0
      BY <3>1
    <3>2. CASE k # 0
      <4>1. k - 1 \in 0 .. n /\ k - 1 \in 0 .. (n - 1)
        BY <2>2, <3>2
      <4>2. d[k - 1] = e[k - 1]
        BY <2>3, <2>4, <4>1
      <4>3. QED
        BY <3>2, <4>2
    <3>3. QED
      BY <3>1, <3>2
  <2>6. d = [k \in 0 .. n |-> step(d, k)]
    <3>1. [k \in 0 .. n |-> step(e, k)] = [k \in 0 .. n |-> step(d, k)]
      <4> HIDE DEF step
      <4>1. QED
        BY <2>5
    <3>2. QED
      BY <3>1, Zenon DEF d
  <2>7. IsRun(d, st, metas, n)
    BY <2>6, Zenon DEF IsRun
  <2>8. QED
    BY <2>2, <2>7
<1>2. QED
  BY <1>1

(* A block on top of a sound ledger is sound and loses none of its batch.  *)
LEMMA ExecutionSound ==
  ASSUME NEW L \in Seq(Tx), NEW st \in AcctState, NEW metas \in Seq(Entry),
         Ordered(L, st.nonce), Supply(st.bal) = Supply(Genesis)
  PROVE  RunSound(L, metas, Len(metas), ExecuteTransactions(st, metas))
<1> DEFINE n == Len(metas)
           d == CHOOSE x : IsRun(x, st, metas, n)
<1>1. n \in Nat /\ \A i \in 1 .. n : metas[i] \in Entry
  BY LenProperties, ElementOfSeq
<1>2. IsRun(d, st, metas, n)
  BY <1>1, RunExists
<1>3. ExecuteTransactions(st, metas) = d[n]
  BY Zenon DEF ExecuteTransactions, IsRun, Fresh
<1> HIDE DEF d, n
<1> DEFINE T == {i \in 0 .. n : ~RunSound(L, metas, i, d[i])}
<1>4. T = {}
  <2> SUFFICES ASSUME T # {} PROVE FALSE
    OBVIOUS
  <2>1. T \subseteq Nat
    OBVIOUS
  <2>2. PICK i \in T : \A y \in T : i <= y
    BY <2>1, LeastElement
  <2>3. i \in 0 .. n /\ ~RunSound(L, metas, i, d[i])
    OBVIOUS
  <2>4. CASE i = 0
    <3>1. d[0] = Fresh(st)
      BY <1>2, <2>3, <2>4, RunAt, Zenon
    <3>2. /\ << >> \in Seq(Tx) /\ << >> \in Seq(Entry) /\ L \o << >> = L
      BY EmptySeq, ConcatEmptySeq
    <3>3. /\ Fresh(st) \in Run /\ Fresh(st).st = st /\ Fresh(st).done = << >>
      BY <3>2 DEF Fresh, Run
    <3>4. RunSound(L, metas, 0, Fresh(st))
      BY <3>2, <3>3 DEF RunSound
    <3>5. QED
      BY <2>3, <2>4, <3>1, <3>4
  <2>5. CASE i # 0
    <3>1. i - 1 \in Nat /\ i - 1 \in 0 .. n /\ (i - 1) + 1 = i /\ i \in 1 .. n /\ i - 1 \notin T
      BY <1>1, <2>2, <2>3, <2>5
    <3>2. RunSound(L, metas, i - 1, d[i - 1])
      BY <3>1
    <3>3. metas[i] \in Entry
      BY <1>1, <3>1
    <3>4. RunSound(L, metas, i, Turn(d[i - 1], metas[i]))
      BY <3>1, <3>2, <3>3, TurnKeeps
    <3>5. d[i] = Turn(d[i - 1], metas[i])
      <4>1. i \in 0 .. n
        BY <2>3
      <4>2. d[i] = IF i = 0 THEN Fresh(st) ELSE Turn(d[i - 1], metas[i])
        BY <1>2, <4>1, RunAt
      <4>3. QED
        BY <2>5, <4>2
    <3>6. QED
      BY <2>3, <3>4, <3>5
  <2>6. QED
    BY <2>4, <2>5
<1>5. RunSound(L, metas, n, d[n])
  BY <1>1, <1>4
<1>6. QED
  BY <1>3, <1>5 DEF n


-----------------------------------------------------------------------------
(* The receipts of all blocks in a row: FlattenSeq is a recursive function *)
(* on the blocks.                                                          *)

Flat(bs) == SeqExt!FlattenSeq(bs)
IsFlat(d, bs, n) == d = [i \in 1 .. n |-> IF i = 1 THEN bs[i] ELSE d[i - 1] \o bs[i]]

(* The equation of FlattenSeq, one block at a time.                        *)
LEMMA FlatAt ==
  ASSUME NEW d, NEW bs, NEW n, IsFlat(d, bs, n), NEW i \in 1 .. n
  PROVE  d[i] = IF i = 1 THEN bs[i] ELSE d[i - 1] \o bs[i]
<1> DEFINE step(k) == IF k = 1 THEN bs[k] ELSE d[k - 1] \o bs[k]
           e == [k \in 1 .. n |-> step(k)]
<1>1. d = e
  BY Zenon DEF IsFlat
<1> HIDE DEF step
<1>2. e[i] = step(i)
  BY Zenon
<1> HIDE DEF e
<1>3. QED
  BY <1>1, <1>2, Zenon DEF step

(* Any number of blocks can be flattened.                                  *)
LEMMA FlatExists ==
  ASSUME NEW bs
  PROVE  \A n \in Nat : \E d : IsFlat(d, bs, n)
<1> DEFINE T == {n \in Nat : ~ \E d : IsFlat(d, bs, n)}
           step(d, k) == IF k = 1 THEN bs[k] ELSE d[k - 1] \o bs[k]
<1>1. T = {}
  <2> SUFFICES ASSUME T # {} PROVE FALSE
    OBVIOUS
  <2>1. PICK n \in T : \A y \in T : n <= y
    BY LeastElement
  <2>2. n \in Nat /\ ~ \E d : IsFlat(d, bs, n)
    OBVIOUS
  <2>3. PICK e : \A k \in 1 .. (n - 1) : e[k] = step(e, k)
    <3>1. CASE n = 0
      BY <3>1
    <3>2. CASE n # 0
      <4>1. n - 1 \in Nat /\ n - 1 \notin T
        BY <2>1, <2>2, <3>2
      <4>2. PICK d : IsFlat(d, bs, n - 1)
        BY <4>1
      <4>3. \A k \in 1 .. (n - 1) : d[k] = step(d, k)
        BY <4>2, FlatAt
      <4>4. QED
        BY <4>3
    <3>3. QED
      BY <3>1, <3>2
  <2> DEFINE d == [k \in 1 .. n |-> step(e, k)]
  <2>4. \A k \in 1 .. n : d[k] = step(e, k)
    OBVIOUS
  <2> HIDE DEF d
  <2>5. ASSUME NEW k \in 1 .. n PROVE step(e, k) = step(d, k)
    <3>1. CASE k = 1
      BY <3>1
    <3>2. CASE k # 1
      <4>1. k - 1 \in 1 .. n /\ k - 1 \in 1 .. (n - 1)
        BY <2>2, <3>2
      <4>2. d[k - 1] = e[k - 1]
        BY <2>3, <2>4, <4>1
      <4>3. QED
        BY <3>2, <4>2
    <3>3. QED
      BY <3>1, <3>2
  <2>6. d = [k \in 1 .. n |-> step(d, k)]
    <3>1. [k \in 1 .. n |-> step(e, k)] = [k \in 1 .. n |-> step(d, k)]
      <4> HIDE DEF step
      <4>1. QED
        BY <2>5
    <3>2. QED
      BY <3>1, Zenon DEF d
  <2>7. IsFlat(d, bs, n)
    BY <2>6, Zenon DEF IsFlat
  <2>8. QED
    BY <2>2, <2>7
<1>2. QED
  BY <1>1

(* The first m members are blocks, and the same in both.                   *)
SameBlocks(bs, cs, m) == \A i \in 1 .. m : bs[i] = cs[i] /\ bs[i] \in Seq(Tx)

(* It is a sequence of transactions, and depends on the blocks up to i.    *)
LEMMA FlatAgrees ==
  ASSUME NEW bs, NEW cs, NEW m \in Nat, NEW n \in Nat, m <= n,
         NEW d, IsFlat(d, bs, m), NEW e, IsFlat(e, cs, n), SameBlocks(bs, cs, m)
  PROVE  \A i \in 1 .. m : d[i] = e[i] /\ d[i] \in Seq(Tx)
<1> DEFINE T == {i \in 1 .. m : ~(d[i] = e[i] /\ d[i] \in Seq(Tx))}
<1>1. T = {}
  <2> SUFFICES ASSUME T # {} PROVE FALSE
    OBVIOUS
  <2>1. T \subseteq Nat
    OBVIOUS
  <2>2. PICK i \in T : \A y \in T : i <= y
    BY <2>1, LeastElement
  <2>3. i \in 1 .. m /\ i \in 1 .. n /\ ~(d[i] = e[i] /\ d[i] \in Seq(Tx))
    OBVIOUS
  <2>4. /\ d[i] = IF i = 1 THEN bs[i] ELSE d[i - 1] \o bs[i]
        /\ e[i] = IF i = 1 THEN cs[i] ELSE e[i - 1] \o cs[i]
    <3>1. d[i] = IF i = 1 THEN bs[i] ELSE d[i - 1] \o bs[i]
      BY <2>3, FlatAt
    <3>2. e[i] = IF i = 1 THEN cs[i] ELSE e[i - 1] \o cs[i]
      BY <2>3, FlatAt
    <3>3. QED
      BY <3>1, <3>2, Zenon
  <2>5. bs[i] = cs[i] /\ bs[i] \in Seq(Tx)
    BY <2>3 DEF SameBlocks
  <2>6. CASE i = 1
    BY <2>3, <2>4, <2>5, <2>6
  <2>7. CASE i # 1
    <3>1. i - 1 \in 1 .. m /\ i - 1 \notin T
      BY <2>2, <2>3, <2>7
    <3>2. d[i - 1] = e[i - 1] /\ d[i - 1] \in Seq(Tx)
      BY <3>1
    <3>3. d[i - 1] \o bs[i] \in Seq(Tx)
      BY <2>5, <3>2, ConcatProperties
    <3>4. QED
      BY <2>3, <2>4, <2>5, <2>7, <3>2, <3>3
  <2>8. QED
    BY <2>6, <2>7
<1>2. QED
  BY <1>1

(* FlattenSeq itself.                                                      *)
LEMMA FlatIs ==
  ASSUME NEW bs, Len(bs) \in Nat
  PROVE  /\ Len(bs) = 0 => Flat(bs) = bs
         /\ Len(bs) # 0 => \E d : IsFlat(d, bs, Len(bs)) /\ Flat(bs) = d[Len(bs)]
<1> DEFINE d == CHOOSE x : IsFlat(x, bs, Len(bs))
<1>1. IsFlat(d, bs, Len(bs))
  BY FlatExists
<1>2. Len(bs) # 0 => Flat(bs) = d[Len(bs)]
  BY Zenon DEF Flat, SeqExt!FlattenSeq, IsFlat
<1>3. Len(bs) = 0 => Flat(bs) = bs
  BY Zenon DEF Flat, SeqExt!FlattenSeq
<1> HIDE DEF d
<1>4. QED
  BY <1>1, <1>2, <1>3

(* A block more at the end (receipts.go: byBlock).                         *)
LEMMA FlatAppend ==
  ASSUME NEW bs \in Seq(Seq(Tx)), NEW x \in Seq(Tx)
  PROVE  /\ Flat(bs) \in Seq(Tx)
         /\ Flat(Append(bs, x)) = Flat(bs) \o x
<1> DEFINE cs == Append(bs, x)
           n == Len(bs)
<1>1. /\ n \in Nat /\ Len(cs) = n + 1 /\ cs[n + 1] = x
      /\ \A i \in 1 .. n : bs[i] = cs[i] /\ bs[i] \in Seq(Tx)
      /\ cs \in Seq(Seq(Tx))
  BY AppendProperties, LenProperties, ElementOfSeq
<1> HIDE DEF cs, n
<1>2. PICK e : IsFlat(e, cs, n + 1) /\ Flat(cs) = e[n + 1]
  <2>1. Len(cs) \in Nat /\ Len(cs) # 0
    BY <1>1
  <2>2. QED
    BY <1>1, <2>1, FlatIs
<1>3. e[n + 1] = IF n + 1 = 1 THEN x ELSE e[(n + 1) - 1] \o x
  <2>1. n + 1 \in 1 .. (n + 1)
    BY <1>1
  <2>2. QED
    BY <1>1, <1>2, <2>1, FlatAt
<1>4. CASE n = 0
  <2>1. bs = << >> /\ Flat(bs) = bs
    BY <1>1, <1>4, FlatIs, EmptySeq DEF n
  <2>2. << >> \o x = x /\ << >> \in Seq(Tx)
    BY ConcatEmptySeq, EmptySeq
  <2>3. Flat(cs) = x
    BY <1>2, <1>3, <1>4
  <2>4. QED
    BY <2>1, <2>2, <2>3 DEF cs
<1>5. CASE n # 0
  <2>1. PICK d : IsFlat(d, bs, n) /\ Flat(bs) = d[n]
    BY <1>1, <1>5, FlatIs DEF n
  <2>2. n + 1 \in Nat /\ n <= n + 1 /\ n \in 1 .. n /\ (n + 1) - 1 = n /\ n + 1 # 1
    BY <1>1, <1>5
  <2>3. d[n] = e[n] /\ d[n] \in Seq(Tx)
    <3>1. \A i \in 1 .. n : d[i] = e[i] /\ d[i] \in Seq(Tx)
      <4>1. SameBlocks(bs, cs, n)
        BY <1>1 DEF SameBlocks
      <4>2. QED
        BY <1>1, <1>2, <2>1, <2>2, <4>1, FlatAgrees
    <3>2. QED
      BY <2>2, <3>1
  <2>4. e[n + 1] = e[n] \o x
    BY <1>3, <2>2
  <2>5. QED
    BY <1>2, <2>1, <2>3, <2>4 DEF cs
<1>6. QED
  BY <1>4, <1>5

(* One receipt more for the last block (receipts.go: Store).               *)
LEMMA FlatStore ==
  ASSUME NEW bs \in Seq(Seq(Tx)), bs # << >>, NEW t \in Tx
  PROVE  /\ Store(bs, t) \in Seq(Seq(Tx))
         /\ Flat(Store(bs, t)) = Append(Flat(bs), t)
<1> DEFINE n == Len(bs)
           last == bs[n]
           front == [i \in 1 .. (n - 1) |-> bs[i]]
<1>1. n \in Nat /\ n > 0 /\ n \in 1 .. n /\ DOMAIN bs = 1 .. n /\ bs \in [1 .. n -> Seq(Tx)]
  BY LenProperties, EmptySeq
<1>2. last \in Seq(Tx) /\ Append(last, t) \in Seq(Tx)
  BY <1>1, AppendProperties
<1>3. front \in Seq(Seq(Tx)) /\ Len(front) = n - 1
  <2>1. n - 1 \in Nat /\ \A i \in 1 .. (n - 1) : bs[i] \in Seq(Tx)
    BY <1>1
  <2>2. QED
    BY <2>1, IsASeq, LenProperties
<1>4. ASSUME NEW x \in Seq(Tx)
      PROVE  /\ Append(front, x) \in Seq(Seq(Tx)) /\ Len(Append(front, x)) = n
             /\ Append(front, x)[n] = x
             /\ \A i \in 1 .. (n - 1) : Append(front, x)[i] = bs[i]
  <2>1. (n - 1) + 1 = n
    BY <1>1
  <2>2. \A i \in 1 .. (n - 1) : front[i] = bs[i]
    OBVIOUS
  <2> HIDE DEF front, n
  <2>3. /\ Append(front, x) \in Seq(Seq(Tx)) /\ Len(Append(front, x)) = Len(front) + 1
        /\ \A i \in 1 .. Len(front) : Append(front, x)[i] = front[i]
        /\ Append(front, x)[Len(front) + 1] = x
    BY <1>3, AppendProperties
  <2>4. QED
    BY <1>3, <2>1, <2>2, <2>3
<1>5. Store(bs, t) = [bs EXCEPT ![n] = Append(last, t)]
  BY Zenon DEF Store
<1> HIDE DEF n, last, front
<1>6. /\ Store(bs, t) \in Seq(Seq(Tx)) /\ Len(Store(bs, t)) = n
      /\ Store(bs, t)[n] = Append(last, t)
      /\ \A i \in 1 .. (n - 1) : Store(bs, t)[i] = bs[i]
  <2> DEFINE s == [bs EXCEPT ![n] = Append(last, t)]
  <2>1. s \in [1 .. n -> Seq(Tx)]
    BY <1>1, <1>2
  <2>2. s \in Seq(Seq(Tx)) /\ Len(s) = n
    BY <1>1, <2>1
  <2>3. s[n] = Append(last, t) /\ \A i \in 1 .. (n - 1) : s[i] = bs[i]
    BY <1>1
  <2>4. QED
    BY <1>5, <2>2, <2>3
<1>7. bs = Append(front, last)
  <2> DEFINE r == Append(front, last)
  <2>1. /\ r \in Seq(Seq(Tx)) /\ Len(r) = n /\ r[n] = last
        /\ \A i \in 1 .. (n - 1) : r[i] = bs[i]
    BY <1>2, <1>4
  <2> HIDE DEF r
  <2>2. \A i \in 1 .. n : i = n \/ i \in 1 .. (n - 1)
    BY <1>1
  <2>3. \A i \in 1 .. n : bs[i] = r[i]
    BY <2>1, <2>2 DEF last
  <2>4. bs = r
    BY <2>1, <2>3, SeqEqual DEF n
  <2>5. QED
    BY <2>4 DEF r
<1>8. Store(bs, t) = Append(front, Append(last, t))
  <2> DEFINE r == Append(front, Append(last, t))
             s == Store(bs, t)
  <2>1. /\ r \in Seq(Seq(Tx)) /\ Len(r) = n /\ r[n] = Append(last, t)
        /\ \A i \in 1 .. (n - 1) : r[i] = bs[i]
    BY <1>2, <1>4
  <2>2. /\ s \in Seq(Seq(Tx)) /\ Len(s) = n /\ s[n] = Append(last, t)
        /\ \A i \in 1 .. (n - 1) : s[i] = bs[i]
    BY <1>6
  <2> HIDE DEF r, s
  <2>3. \A i \in 1 .. n : i = n \/ i \in 1 .. (n - 1)
    BY <1>1
  <2>4. \A i \in 1 .. n : s[i] = r[i]
    BY <2>1, <2>2, <2>3
  <2>5. s = r
    BY <2>1, <2>2, <2>4, SeqEqual
  <2>6. QED
    BY <2>5 DEF r, s
<1>9. /\ Flat(bs) = Flat(front) \o last /\ Flat(front) \in Seq(Tx)
      /\ Flat(Store(bs, t)) = Flat(front) \o Append(last, t)
  BY <1>2, <1>3, <1>7, <1>8, FlatAppend
<1>10. Flat(front) \o Append(last, t) = Append(Flat(front) \o last, t)
  BY <1>2, <1>9
<1>11. QED
  BY <1>6, <1>9, <1>10


-----------------------------------------------------------------------------
(* The invariant.                                                          *)

(* The pool is consistent, and its size is the number of known hashes.     *)
PoolSound ==
  /\ PP!Consistent
  /\ IsFiniteSet(DOMAIN known) /\ Cardinality(DOMAIN known) = PP!totalLen

NodeTypes ==
  /\ submits \in [Tx -> Nat] /\ \A t \in Tx : submits[t] <= MaxSubmits[t]
  /\ accepted \subseteq Tx /\ byBlock \in Seq(Seq(Tx))
  /\ pc \in {"idle", "popping", "execute", "requeue"}
  /\ held \in Seq(Entry) /\ todo \in Seq(Entry)
  /\ block \in Seq(Tx) /\ ledger \in Seq(Tx)
  /\ acct \in AcctState

(* What produceBlock holds is empty except where it is used: nothing is    *)
(* overwritten that is still needed.                                       *)
Stages ==
  /\ pc # "execute" => held = << >>
  /\ pc # "requeue" => todo = << >> /\ block = << >>
  /\ block # << >> => byBlock # << >>

(* Ledger, accounts and receipts agree.                                    *)
LedgerSound ==
  /\ Ordered(ledger, acct.nonce)
  /\ Supply(acct.bal) = Supply(Genesis)
  /\ Flat(byBlock) \o block = ledger

NodeSound == NodeTypes /\ Stages /\ LedgerSound
IInv == PoolSound /\ NodeSound

-----------------------------------------------------------------------------
(* The pool's steps.                                                       *)

(* Taking a transaction in makes it known.                                 *)
LEMMA AddSound ==
  ASSUME PoolSound, NEW t \in Tx, NEW s \in Scores, Pool!Add(t, s)
  PROVE  PoolSound' /\ DOMAIN known' = DOMAIN known \cup {t} /\ batch' = batch
<1>1. PP!Add(t, s)
  BY SameAdd
<1>2. PP!Consistent' /\ PP!totalLen' = PP!totalLen + 1
  BY <1>1, Assumptions, PP!AddConsistent, PP!AddLengths DEF PoolSound
<1>3. DOMAIN known' = DOMAIN known \cup {t} /\ t \notin DOMAIN known /\ batch' = batch
  BY <1>1 DEF PP!Add, PP!Accepts, PP!popVars
<1>4. /\ IsFiniteSet(DOMAIN known \cup {t})
      /\ Cardinality(DOMAIN known \cup {t}) = Cardinality(DOMAIN known) + 1
  BY <1>3, FS_AddElement DEF PoolSound
<1>5. QED
  BY <1>2, <1>3, <1>4 DEF PoolSound

(* What a drain takes goes from the pool to the batch.                     *)
LEMMA TakeSound ==
  ASSUME PoolSound, Pool!Take
  PROVE  PoolSound' /\ DOMAIN known' \cup TxsOf(batch') = DOMAIN known \cup TxsOf(batch)
<1> DEFINE q == lanes[PP!Lane]
           e == Head(q)
<1>1. PP!Take
  BY SamePop
<1>2. PP!Consistent' /\ PP!totalLen' = PP!totalLen - 1
  <2>1. PP!Consistent
    BY DEF PoolSound
  <2>2. PP!Consistent'
    BY <1>1, <2>1, Assumptions, PP!TakeConsistent
  <2>3. PP!totalLen' = PP!totalLen - 1
    BY <1>1, <2>1, Assumptions, PP!TakeLengths
  <2>4. QED
    BY <2>2, <2>3
<1>3. /\ known' = [h \in DOMAIN known \ {e.tx} |-> known[h]] /\ batch' = Append(batch, e)
      /\ q # << >> /\ PP!Draining
  BY <1>1 DEF PP!Take, PP!CanTake
<1>4. PP!TypeOK /\ PP!KnownMatchesLanes /\ PP!Lane \in Lanes
  BY <1>3, Assumptions, SameNames, PP!LaneType DEF PoolSound, PP!Consistent
<1>5. q \in Seq(Entry) /\ batch \in Seq(Entry)
  BY <1>4, SameNames DEF PP!TypeOK
<1>6. e = q[1] /\ 1 \in 1 .. Len(q) /\ e \in Entry
  BY <1>3, <1>5
<1>7. e.tx \in DOMAIN known
  BY <1>4, <1>6, SameNames DEF PP!KnownMatchesLanes
<1> HIDE DEF e, q
<1>8. DOMAIN known' = DOMAIN known \ {e.tx} /\ TxsOf(batch') = TxsOf(batch) \cup {e.tx}
  BY <1>3, <1>5, <1>6, AppendElems
<1>9. /\ IsFiniteSet(DOMAIN known \ {e.tx})
      /\ Cardinality(DOMAIN known \ {e.tx}) = Cardinality(DOMAIN known) - 1
  BY <1>7, FS_RemoveElement DEF PoolSound
<1>10. PoolSound'
  BY <1>2, <1>8, <1>9 DEF PoolSound
<1>11. QED
  BY <1>7, <1>8, <1>10

(* The other steps of a pop, and steps that are not the pool's, leave the  *)
(* known hashes alone.                                                     *)
LEMMA OtherPoolSteps ==
  ASSUME PoolSound,
         \/ \E c \in Calls : Pool!StartPop(c)
         \/ Pool!EndDrain
         \/ Pool!Return
         \/ UNCHANGED poolVars
  PROVE  PoolSound' /\ known' = known
<1>1. CASE \E c \in Calls : Pool!StartPop(c)
  <2>1. PP!Consistent'
    BY <1>1, SamePop, Assumptions, PP!StartPopConsistent DEF PoolSound
  <2>2. lanes' = lanes /\ known' = known
    BY <1>1 DEF Pool!StartPop
  <2>3. QED
    BY <2>1, <2>2 DEF PoolSound, PP!totalLen
<1>2. CASE Pool!EndDrain
  <2>1. PP!Consistent'
    BY <1>2, SamePop, Assumptions, PP!EndDrainConsistent DEF PoolSound
  <2>2. lanes' = lanes /\ known' = known
    BY <1>2 DEF Pool!EndDrain
  <2>3. QED
    BY <2>1, <2>2 DEF PoolSound, PP!totalLen
<1>3. CASE Pool!Return
  <2>1. PP!Consistent'
    BY <1>3, SamePop, Assumptions, PP!ReturnConsistent DEF PoolSound
  <2>2. lanes' = lanes /\ known' = known
    BY <1>3 DEF Pool!Return, Pool!poolVars
  <2>3. QED
    BY <2>1, <2>2 DEF PoolSound, PP!totalLen
<1>4. CASE UNCHANGED poolVars
  <2>1. UNCHANGED PP!vars /\ lanes' = lanes /\ known' = known
    BY <1>4 DEF poolVars, PP!vars
  <2>2. PP!Consistent'
    BY <2>1, Assumptions, PP!NextConsistent DEF PoolSound
  <2>3. QED
    BY <2>1, <2>2 DEF PoolSound, PP!totalLen
<1>5. QED
  BY <1>1, <1>2, <1>3, <1>4


-----------------------------------------------------------------------------
(* The node's steps.                                                       *)

(* A node with an empty pool and the genesis balances is sound.            *)
LEMMA InitHolds == Init => IInv
<1> SUFFICES ASSUME Init PROVE IInv
  OBVIOUS
<1>1. PP!Init
  BY SameInit DEF Init
<1>2. PoolSound
  <2>1. PP!Consistent
    BY <1>1, Assumptions, PP!InitConsistent
  <2>2. PP!totalLen = 0 /\ DOMAIN known = {}
    BY <1>1 DEF PP!Init, PP!totalLen, PP!Lanes
  <2>3. QED
    BY <2>1, <2>2, FS_EmptySet DEF PoolSound
<1>3. /\ submits = [t \in Tx |-> 0] /\ accepted = {}
      /\ pc = "idle" /\ held = << >> /\ todo = << >> /\ block = << >>
      /\ acct = [nonce |-> [a \in Accounts |-> 0], bal |-> Genesis]
      /\ ledger = << >> /\ byBlock = << >>
  BY DEF Init
<1>4. NodeTypes
  <2>1. acct \in AcctState
    BY <1>3, AccountAssumption DEF AcctState
  <2>2. submits \in [Tx -> Nat] /\ \A t \in Tx : submits[t] <= MaxSubmits[t]
    BY <1>3, SubmitAssumption
  <2>3. QED
    BY <1>3, <2>1, <2>2, EmptySeq DEF NodeTypes
<1>5. Stages
  BY <1>3 DEF Stages
<1>6. LedgerSound
  <2>1. \A a : Mine(<< >>, a) = {}
    BY DEF Mine
  <2>2. Ordered(ledger, acct.nonce)
    BY <1>3, <2>1, FS_EmptySet DEF Ordered
  <2>3. Flat(<< >>) = << >>
    BY FlatIs, EmptySeq
  <2>4. Supply(acct.bal) = Supply(Genesis)
    BY <1>3
  <2>5. Flat(byBlock) \o block = ledger
    BY <1>3, <2>3, ConcatEmptySeq, EmptySeq
  <2>6. QED
    BY <2>2, <2>4, <2>5 DEF LedgerSound
<1>7. QED
  BY <1>2, <1>4, <1>5, <1>6 DEF IInv, NodeSound

(* Ledger and receipts as they were are as sound as they were.             *)
LEMMA ChainUntouched ==
  ASSUME LedgerSound, UNCHANGED <<chainVars, block>>
  PROVE  LedgerSound'
<1>1. acct' = acct /\ ledger' = ledger /\ byBlock' = byBlock /\ block' = block
  BY DEF chainVars
<1>2. QED
  BY <1>1 DEF LedgerSound

(* A client's transaction changes the pool and the client's own record.    *)
LEMMA SendKeeps ==
  ASSUME IInv, NEW t \in Tx, NEW s \in Scores, SendRawTransaction(t, s)
  PROVE  IInv'
<1>1. PoolSound'
  BY AddSound, OtherPoolSteps DEF IInv, SendRawTransaction
<1>2. /\ submits' = [submits EXCEPT ![t] = @ + 1] /\ submits[t] < MaxSubmits[t]
      /\ accepted' \in {accepted, accepted \cup {t}}
      /\ UNCHANGED prodVars /\ UNCHANGED chainVars
  BY DEF SendRawTransaction
<1>3. submits' \in [Tx -> Nat] /\ \A u \in Tx : submits'[u] <= MaxSubmits[u]
  <2>1. submits \in [Tx -> Nat] /\ \A u \in Tx : submits[u] <= MaxSubmits[u]
    BY DEF IInv, NodeSound, NodeTypes
  <2>2. MaxSubmits[t] \in Nat
    BY SubmitAssumption
  <2>3. QED
    BY <1>2, <2>1, <2>2
<1>4. NodeTypes'
  BY <1>2, <1>3 DEF IInv, NodeSound, NodeTypes, prodVars, chainVars
<1>5. Stages'
  BY <1>2 DEF IInv, NodeSound, Stages, prodVars, chainVars
<1>6. LedgerSound'
  BY <1>2, ChainUntouched DEF IInv, NodeSound, prodVars
<1>7. QED
  BY <1>1, <1>4, <1>5, <1>6 DEF IInv, NodeSound

(* Popping a batch moves it from the pool into the producer's hands.       *)
LEMMA PopKeeps ==
  ASSUME IInv, (\E c \in Calls : Tick(c)) \/ Popping \/ Popped \/ Finish
  PROVE  IInv'
<1>1. PoolSound'
  BY TakeSound, OtherPoolSteps DEF IInv, Tick, Popping, Popped, Finish
<1>2. UNCHANGED <<rpcVars, todo, block, chainVars>>
  BY DEF Tick, Popping, Popped, Finish, prodVars
<1>3. batch \in Seq(Entry)
  BY SameNames DEF IInv, PoolSound, PP!Consistent, PP!TypeOK
<1>4. /\ pc' \in {"idle", "popping", "execute", "requeue"} /\ held' \in Seq(Entry)
      /\ pc' # "execute" => held' = << >>
      /\ pc' # "requeue" => todo = << >> /\ block = << >>
  BY <1>3 DEF IInv, NodeSound, NodeTypes, Stages, Tick, Popping, Popped, Finish, prodVars
<1>5. NodeTypes' /\ Stages'
  BY <1>2, <1>4 DEF IInv, NodeSound, NodeTypes, Stages, rpcVars, chainVars
<1>6. LedgerSound'
  BY <1>2, ChainUntouched DEF IInv, NodeSound
<1>7. QED
  BY <1>1, <1>5, <1>6 DEF IInv, NodeSound

(* One re-add.                                                             *)
LEMMA RequeueKeeps ==
  ASSUME IInv, Requeue
  PROVE  IInv'
<1>1. todo \in Seq(Entry) /\ todo # << >> /\ Head(todo) \in Entry /\ Tail(todo) \in Seq(Entry)
  BY HeadTailProperties DEF IInv, NodeSound, NodeTypes, Requeue
<1>2. PoolSound'
  BY <1>1, AddSound, OtherPoolSteps DEF IInv, Requeue, Entry
<1>3. pc = "requeue" /\ todo' = Tail(todo) /\ UNCHANGED <<rpcVars, pc, held, block, chainVars>>
  BY DEF Requeue
<1>4. NodeTypes' /\ Stages'
  BY <1>1, <1>3 DEF IInv, NodeSound, NodeTypes, Stages, rpcVars, chainVars
<1>5. LedgerSound'
  BY <1>3, ChainUntouched DEF IInv, NodeSound
<1>6. QED
  BY <1>2, <1>4, <1>5 DEF IInv, NodeSound

(* A block that fails: the batch goes back with score 0.                   *)
LEMMA FailKeeps ==
  ASSUME IInv, ExecuteFails
  PROVE  IInv' /\ TxsOf(todo') = TxsOf(held)
<1>1. /\ pc = "execute" /\ pc' = "requeue" /\ held' = << >> /\ block' = << >> /\ block = << >>
      /\ todo' = [i \in DOMAIN held |-> [held[i] EXCEPT !.score = 0]]
      /\ UNCHANGED <<poolVars, rpcVars, chainVars>>
  BY DEF ExecuteFails, IInv, NodeSound, Stages
<1>2. held \in Seq(Entry) /\ DOMAIN held = 1 .. Len(held) /\ Len(held) \in Nat
  BY LenProperties DEF IInv, NodeSound, NodeTypes
<1>3. ASSUME NEW i \in 1 .. Len(held)
      PROVE  /\ [held[i] EXCEPT !.score = 0] \in Entry
             /\ [held[i] EXCEPT !.score = 0].tx = held[i].tx
  <2>1. held[i] \in Entry
    BY <1>2, ElementOfSeq
  <2>2. QED
    BY <2>1, SubmitAssumption DEF Entry
<1>4. todo' \in Seq(Entry)
  BY <1>1, <1>2, <1>3, IsASeq
<1>5. TxsOf(todo') = TxsOf(held)
  BY <1>1, <1>2, <1>3 DEF TxsOf
<1>6. PoolSound'
  BY <1>1, OtherPoolSteps DEF IInv
<1>7. NodeTypes' /\ Stages'
  BY <1>1, <1>4, EmptySeq DEF IInv, NodeSound, NodeTypes, Stages, rpcVars, chainVars
<1>8. LedgerSound'
  BY <1>1, ChainUntouched DEF IInv, NodeSound
<1>9. QED
  BY <1>5, <1>6, <1>7, <1>8 DEF IInv, NodeSound


(* A block: the ledger grows by what was executed, and every transaction   *)
(* of the batch was executed or is to be re-added (producer.go:118-146).   *)
LEMMA ExecuteKeeps ==
  ASSUME IInv, Execute
  PROVE  /\ IInv'
         /\ Elems(ledger) \subseteq Elems(ledger')
         /\ TxsOf(held) \subseteq Elems(ledger') \cup TxsOf(todo')
<1> DEFINE run == ExecuteTransactions(acct, held)
<1>1. /\ pc = "execute" /\ acct' = run.st /\ ledger' = ledger \o run.done /\ block' = run.done
      /\ byBlock' = (IF run.done = << >> THEN byBlock ELSE Append(byBlock, << >>))
      /\ todo' = run.skipped /\ pc' = "requeue" /\ held' = << >>
      /\ UNCHANGED <<poolVars, rpcVars>>
  BY DEF Execute
<1>2. /\ ledger \in Seq(Tx) /\ acct \in AcctState /\ held \in Seq(Entry)
      /\ byBlock \in Seq(Seq(Tx)) /\ block = << >>
      /\ Ordered(ledger, acct.nonce) /\ Supply(acct.bal) = Supply(Genesis)
      /\ Flat(byBlock) \o block = ledger
  BY <1>1 DEF IInv, NodeSound, NodeTypes, Stages, LedgerSound
<1>3. RunSound(ledger, held, Len(held), run)
  BY <1>2, ExecutionSound
<1> HIDE DEF run
<1>4. /\ run.st \in AcctState /\ run.done \in Seq(Tx) /\ run.skipped \in Seq(Entry)
      /\ Ordered(ledger \o run.done, run.st.nonce) /\ Supply(run.st.bal) = Supply(Genesis)
      /\ \A j \in 1 .. Len(held) : held[j].tx \in Elems(run.done) \cup TxsOf(run.skipped)
  BY <1>3 DEF RunSound, Run
<1>5. PoolSound'
  BY <1>1, OtherPoolSteps DEF IInv
<1>6. /\ byBlock' \in Seq(Seq(Tx)) /\ Flat(byBlock') = Flat(byBlock) /\ Flat(byBlock) \in Seq(Tx)
      /\ run.done # << >> => byBlock' # << >>
  <2>1. << >> \in Seq(Tx)
    BY EmptySeq
  <2>2. Flat(byBlock) \in Seq(Tx) /\ Flat(Append(byBlock, << >>)) = Flat(byBlock) \o << >>
    BY <1>2, <2>1, FlatAppend
  <2>3. Flat(byBlock) \o << >> = Flat(byBlock)
    BY <2>2, ConcatEmptySeq
  <2>4. Append(byBlock, << >>) \in Seq(Seq(Tx)) /\ Append(byBlock, << >>) # << >>
    BY <1>2, <2>1, AppendProperties
  <2>5. QED
    BY <1>1, <1>2, <2>2, <2>3, <2>4
<1>7. ledger \o run.done \in Seq(Tx)
  BY <1>2, <1>4, ConcatProperties
<1>8. NodeTypes'
  BY <1>1, <1>4, <1>6, <1>7, EmptySeq DEF IInv, NodeSound, NodeTypes, rpcVars
<1>9. Stages'
  BY <1>1, <1>6 DEF Stages
<1>10. LedgerSound'
  <2>1. Flat(byBlock) = ledger
    BY <1>2, <1>6, ConcatEmptySeq
  <2>2. Flat(byBlock') \o block' = ledger'
    BY <1>1, <1>6, <2>1
  <2>3. Ordered(ledger', acct'.nonce)
    BY <1>1, <1>4
  <2>4. Supply(acct'.bal) = Supply(Genesis)
    BY <1>1, <1>4
  <2>5. QED
    BY <2>2, <2>3, <2>4 DEF LedgerSound
<1>11. Elems(ledger') = Elems(ledger) \cup Elems(run.done)
  <2>1. \A s : Elems(s) = Range(s)
    BY DEF Elems, Range
  <2>2. Range(ledger \o run.done) = Range(ledger) \cup Range(run.done)
    BY <1>2, <1>4, RangeConcatenation
  <2>3. QED
    BY <1>1, <2>1, <2>2
<1>12. TxsOf(held) \subseteq Elems(run.done) \cup TxsOf(run.skipped)
  <2>1. DOMAIN held = 1 .. Len(held)
    BY <1>2, LenProperties
  <2>2. QED
    BY <1>4, <2>1 DEF TxsOf
<1>13. QED
  BY <1>1, <1>5, <1>8, <1>9, <1>10, <1>11, <1>12 DEF IInv, NodeSound

(* One compute receipt (producer.go:242).                                  *)
LEMMA ReceiptKeeps ==
  ASSUME IInv, StoreReceipt
  PROVE  IInv'
<1>1. /\ pc = "requeue" /\ block # << >> /\ byBlock' = Store(byBlock, Head(block))
      /\ block' = Tail(block)
      /\ UNCHANGED <<poolVars, rpcVars, pc, held, todo, acct, ledger>>
  BY DEF StoreReceipt
<1>2. /\ block \in Seq(Tx) /\ byBlock \in Seq(Seq(Tx)) /\ byBlock # << >>
      /\ Flat(byBlock) \o block = ledger
  BY <1>1 DEF IInv, NodeSound, NodeTypes, Stages, LedgerSound
<1>3. Head(block) \in Tx /\ Tail(block) \in Seq(Tx) /\ block = <<Head(block)>> \o Tail(block)
  BY <1>1, <1>2
<1>4. /\ byBlock' \in Seq(Seq(Tx)) /\ Flat(byBlock') = Append(Flat(byBlock), Head(block))
      /\ Flat(byBlock) \in Seq(Tx)
  BY <1>1, <1>2, <1>3, FlatStore, FlatAppend, EmptySeq
<1>5. byBlock' # << >>
  <2>1. Flat(<< >>) = << >>
    BY FlatIs, EmptySeq
  <2>2. Append(Flat(byBlock), Head(block)) # << >>
    BY <1>3, <1>4
  <2>3. QED
    BY <1>4, <2>1, <2>2
<1>6. Append(Flat(byBlock), Head(block)) \o Tail(block) = Flat(byBlock) \o block
  <2>1. Append(Flat(byBlock), Head(block)) = Flat(byBlock) \o <<Head(block)>>
    BY <1>3, <1>4, AppendIsConcat
  <2>2. <<Head(block)>> \in Seq(Tx)
    BY <1>3
  <2>3. (Flat(byBlock) \o <<Head(block)>>) \o Tail(block)
          = Flat(byBlock) \o (<<Head(block)>> \o Tail(block))
    BY <1>3, <1>4, <2>2, ConcatAssociative
  <2>4. QED
    BY <1>3, <2>1, <2>3
<1>7. PoolSound'
  BY <1>1, OtherPoolSteps DEF IInv
<1>8. NodeTypes'
  BY <1>1, <1>3, <1>4 DEF IInv, NodeSound, NodeTypes, rpcVars
<1>9. Stages'
  BY <1>1, <1>5 DEF IInv, NodeSound, Stages
<1>10. LedgerSound'
  <2>1. Flat(byBlock') \o block' = ledger'
    BY <1>1, <1>2, <1>4, <1>6
  <2>2. Ordered(ledger', acct'.nonce) /\ Supply(acct'.bal) = Supply(Genesis)
    BY <1>1 DEF IInv, NodeSound, LedgerSound
  <2>3. QED
    BY <2>1, <2>2 DEF LedgerSound
<1>11. QED
  BY <1>7, <1>8, <1>9, <1>10 DEF IInv, NodeSound

(* Every step keeps the invariant.                                         *)
LEMMA NextKeeps == IInv /\ [Next]_vars => IInv'
<1> SUFFICES ASSUME IInv, [Next]_vars PROVE IInv'
  OBVIOUS
<1>1. CASE \E t \in Tx, s \in Scores : SendRawTransaction(t, s)
  BY <1>1, SendKeeps
<1>2. CASE Produce
  BY <1>2, PopKeeps, ExecuteKeeps, RequeueKeeps, ReceiptKeeps DEF Produce
<1>3. CASE ExecuteFails
  BY <1>3, FailKeeps
<1>4. CASE UNCHANGED vars
  <2>1. PoolSound'
    BY <1>4, OtherPoolSteps DEF IInv, vars
  <2>2. NodeTypes' /\ Stages'
    BY <1>4 DEF IInv, NodeSound, NodeTypes, Stages, vars, rpcVars, prodVars, chainVars
  <2>3. LedgerSound'
    BY <1>4, ChainUntouched DEF IInv, NodeSound, vars, prodVars
  <2>4. QED
    BY <2>1, <2>2, <2>3 DEF IInv, NodeSound
<1>5. QED
  BY <1>1, <1>2, <1>3, <1>4 DEF Next

(* It therefore always holds.                                              *)
LEMMA SpecKeeps == Spec => []IInv
<1>1. Init => IInv
  BY InitHolds
<1>2. IInv /\ [Next]_vars => IInv'
  BY NextKeeps
<1>3. QED
  BY <1>1, <1>2, PTL DEF Spec


-----------------------------------------------------------------------------
(* The Merkle root.  What tells two trees apart is how far it is from the  *)
(* root to the leftmost receipt: a node of level k that is not the last    *)
(* has its leftmost receipt exactly k steps down, while a node that moved  *)
(* up without a partner has it nearer.                                     *)

Lst(h) == Len(h) \in Nat /\ Len(h) > 0 /\ h = [i \in 1 .. Len(h) |-> h[i]]

Spine(f, x, k) ==
  /\ f[0] = x
  /\ \A i \in 0 .. (k - 1) : \E z : f[i] = <<f[i + 1], z>>
  /\ \E t \in Tx : f[k] = <<t>>
Deep(x, k) == \E f : Spine(f, x, k)

SoundLevel(h, k) ==
  /\ Lst(h)
  /\ \A i \in 1 .. (Len(h) - 1) : Deep(h[i], k)
  /\ \E j \in 0 .. k : Deep(h[Len(h)], j)

(* A function on 1 .. n is a list of length n.                             *)
LEMMA ListLen ==
  ASSUME NEW n \in Nat, n > 0, NEW h, h = [i \in 1 .. n |-> h[i]]
  PROVE  Lst(h) /\ Len(h) = n
<1> DEFINE S == {h[i] : i \in 1 .. n}
<1>1. h \in [1 .. n -> S]
  BY Zenon
<1> HIDE DEF S
<1>2. Len(h) = n
  BY <1>1
<1>3. QED
  BY <1>2, Zenon DEF Lst

(* The half, in the form the provers need.                                 *)
LEMMA Half ==
  ASSUME NEW n \in Nat, n > 0
  PROVE  /\ (n + 1) \div 2 \in Nat /\ (n + 1) \div 2 > 0
         /\ n = 2 * ((n + 1) \div 2) \/ n = 2 * ((n + 1) \div 2) - 1
  OBVIOUS

(* The next level up.                                                      *)
LEMMA LevelShape ==
  ASSUME NEW h, Lst(h)
  PROVE  \E m \in Nat :
           /\ m > 0 /\ (Len(h) = 2 * m \/ Len(h) = 2 * m - 1)
           /\ Lst(Level(h)) /\ Len(Level(h)) = m
           /\ \A i \in 1 .. m :
                Level(h)[i] = IF 2 * i <= Len(h) THEN <<h[2 * i - 1], h[2 * i]>> ELSE h[2 * i - 1]
<1>1. PICK n \in Nat : n = Len(h) /\ n > 0
  BY DEF Lst
<1>2. PICK m \in Nat : m = (n + 1) \div 2 /\ m > 0 /\ (n = 2 * m \/ n = 2 * m - 1)
  BY <1>1, Half
<1> DEFINE e(i) == IF 2 * i <= Len(h) THEN <<h[2 * i - 1], h[2 * i]>> ELSE h[2 * i - 1]
           u == [i \in 1 .. m |-> e(i)]
<1>3. Level(h) = u
  BY <1>1, <1>2, Zenon DEF Level
<1> HIDE DEF e
<1>4. (\A i \in 1 .. m : u[i] = e(i)) /\ u = [i \in 1 .. m |-> u[i]]
  BY Zenon
<1> HIDE DEF u
<1>5. Lst(u) /\ Len(u) = m
  BY <1>2, <1>4, ListLen
<1>6. \A i \in 1 .. m : Level(h)[i] = e(i)
  BY <1>3, <1>4, Zenon
<1>7. QED
  BY <1>1, <1>2, <1>3, <1>5, <1>6, Zenon DEF e

(* Leaves and nodes.                                                       *)
LEMMA NotANode ==
  ASSUME NEW t, NEW y, NEW z
  PROVE  <<t>> # <<y, z>>
  OBVIOUS

LEMMA SameNode ==
  ASSUME NEW y, NEW z, NEW v, NEW w, <<y, z>> = <<v, w>>
  PROVE  y = v /\ z = w
  OBVIOUS

(* A receipt is a tree of its own.                                         *)
LEMMA LeafDeep ==
  ASSUME NEW t \in Tx
  PROVE  Deep(<<t>>, 0)
<1> DEFINE f == [i \in {0} |-> <<t>>]
<1>1. f[0] = <<t>>
  OBVIOUS
<1> HIDE DEF f
<1>2. 0 .. (0 - 1) = {}
  OBVIOUS
<1>3. Spine(f, <<t>>, 0)
  BY <1>1, <1>2 DEF Spine
<1>4. QED
  BY <1>3 DEF Deep

(* A node is one step further from the receipt below its left child.       *)
LEMMA NodeDeep ==
  ASSUME NEW y, NEW z, NEW k \in Nat, Deep(y, k)
  PROVE  Deep(<<y, z>>, k + 1)
<1>1. PICK f : Spine(f, y, k)
  BY DEF Deep
<1> DEFINE g == [i \in 0 .. (k + 1) |-> IF i = 0 THEN <<y, z>> ELSE f[i - 1]]
<1>2. /\ g[0] = <<y, z>> /\ \A i \in 1 .. (k + 1) : g[i] = f[i - 1]
  OBVIOUS
<1> HIDE DEF g
<1>3. ASSUME NEW i \in 0 .. ((k + 1) - 1) PROVE \E w : g[i] = <<g[i + 1], w>>
  <2>1. CASE i = 0
    <3>1. g[1] = f[0] /\ f[0] = y
      BY <1>1, <1>2 DEF Spine
    <3>2. QED
      BY <1>2, <2>1, <3>1
  <2>2. CASE i # 0
    <3>1. /\ i - 1 \in 0 .. (k - 1) /\ i \in 1 .. (k + 1) /\ i + 1 \in 1 .. (k + 1)
          /\ (i - 1) + 1 = i /\ (i + 1) - 1 = i
      BY <2>2
    <3>2. PICK w : f[i - 1] = <<f[(i - 1) + 1], w>>
      BY <1>1, <3>1, Zenon DEF Spine
    <3>3. g[i] = f[i - 1] /\ g[i + 1] = f[i]
      <4>1. g[i + 1] = f[(i + 1) - 1]
        BY <1>2, <3>1, Zenon
      <4>2. QED
        BY <1>2, <3>1, <4>1
    <3>4. g[i] = <<g[i + 1], w>>
      BY <3>1, <3>2, <3>3
    <3>5. QED
      BY <3>4
  <2>3. QED
    BY <2>1, <2>2
<1>4. \E t \in Tx : g[k + 1] = <<t>>
  <2>1. k + 1 \in 1 .. (k + 1) /\ (k + 1) - 1 = k
    OBVIOUS
  <2>2. g[k + 1] = f[(k + 1) - 1]
    BY <1>2, <2>1, Zenon
  <2>3. g[k + 1] = f[k]
    BY <2>1, <2>2
  <2>4. QED
    BY <1>1, <2>3 DEF Spine
<1>5. Spine(g, <<y, z>>, k + 1)
  BY <1>2, <1>3, <1>4 DEF Spine
<1>6. QED
  BY <1>5 DEF Deep

(* The distance to the leftmost receipt is determined by the tree.         *)
LEMMA DeepUnique ==
  ASSUME NEW x, NEW j \in Nat, NEW k \in Nat, Deep(x, j), Deep(x, k), j < k
  PROVE  FALSE
<1>1. PICK f : Spine(f, x, j)
  BY DEF Deep
<1>2. PICK g : Spine(g, x, k)
  BY DEF Deep
<1> DEFINE T == {i \in 0 .. j : f[i] # g[i]}
<1>3. T = {}
  <2> SUFFICES ASSUME T # {} PROVE FALSE
    OBVIOUS
  <2>1. PICK i \in T : \A n \in T : i <= n
    <3>1. T \subseteq Nat
      OBVIOUS
    <3>2. QED
      BY <3>1, LeastElement
  <2>2. i \in 0 .. j /\ f[i] # g[i]
    OBVIOUS
  <2>3. i # 0
    BY <1>1, <1>2, <2>2 DEF Spine
  <2>4. /\ i - 1 \in 0 .. j /\ i - 1 \in 0 .. (j - 1) /\ i - 1 \in 0 .. (k - 1)
        /\ (i - 1) + 1 = i /\ ~(i <= i - 1)
    BY <2>2, <2>3
  <2>5. f[i - 1] = g[i - 1]
    BY <2>1, <2>4
  <2>6. PICK y : f[i - 1] = <<f[(i - 1) + 1], y>>
    BY <1>1, <2>4, Zenon DEF Spine
  <2>7. PICK z : g[i - 1] = <<g[(i - 1) + 1], z>>
    BY <1>2, <2>4, Zenon DEF Spine
  <2>8. f[(i - 1) + 1] = g[(i - 1) + 1]
    <3>1. <<f[(i - 1) + 1], y>> = <<g[(i - 1) + 1], z>>
      BY <2>5, <2>6, <2>7, Zenon
    <3>2. QED
      BY <3>1, SameNode, Zenon
  <2>9. QED
    BY <2>2, <2>4, <2>8
<1>4. f[j] = g[j] /\ j \in 0 .. (k - 1)
  BY <1>3
<1>5. PICK t \in Tx : f[j] = <<t>>
  BY <1>1 DEF Spine
<1>6. PICK z : g[j] = <<g[j + 1], z>>
  BY <1>2, <1>4, Zenon DEF Spine
<1>7. QED
  BY <1>4, <1>5, <1>6, NotANode

(* Going one level up keeps a level sound.                                 *)
LEMMA LevelSound ==
  ASSUME NEW h, NEW k \in Nat, SoundLevel(h, k)
  PROVE  SoundLevel(Level(h), k + 1)
<1>1. /\ Lst(h) /\ \A i \in 1 .. (Len(h) - 1) : Deep(h[i], k)
      /\ \E j \in 0 .. k : Deep(h[Len(h)], j)
  BY DEF SoundLevel
<1>2. PICK m \in Nat :
        /\ m > 0 /\ (Len(h) = 2 * m \/ Len(h) = 2 * m - 1)
        /\ Lst(Level(h)) /\ Len(Level(h)) = m
        /\ \A i \in 1 .. m :
             Level(h)[i] = IF 2 * i <= Len(h) THEN <<h[2 * i - 1], h[2 * i]>> ELSE h[2 * i - 1]
  BY <1>1, LevelShape
<1>3. PICK n \in Nat : n = Len(h) /\ n > 0 /\ (n = 2 * m \/ n = 2 * m - 1)
  BY <1>1, <1>2 DEF Lst
<1>4. ASSUME NEW i \in 1 .. m, 2 * i <= n PROVE Deep(Level(h)[i], k + 1)
  <2>1. 2 * i - 1 \in 1 .. (n - 1)
    BY <1>3, <1>4
  <2>2. Deep(h[2 * i - 1], k)
    BY <1>1, <1>3, <2>1, Zenon
  <2>3. Deep(<<h[2 * i - 1], h[2 * i]>>, k + 1)
    BY <2>2, NodeDeep, Zenon
  <2>4. QED
    BY <1>2, <1>3, <1>4, <2>3, Zenon
<1>5. \A i \in 1 .. (m - 1) : i \in 1 .. m /\ 2 * i <= n
  BY <1>3
<1>6. \E j \in 0 .. (k + 1) : Deep(Level(h)[m], j)
  <2>1. CASE n = 2 * m
    <3>1. m \in 1 .. m /\ 2 * m <= n /\ k + 1 \in 0 .. (k + 1)
      BY <1>2, <2>1
    <3>2. QED
      BY <1>4, <3>1, Zenon
  <2>2. CASE n = 2 * m - 1
    <3>1. m \in 1 .. m /\ ~(2 * m <= n) /\ \A j \in 0 .. k : j \in 0 .. (k + 1)
      BY <1>2, <2>2
    <3>2. Level(h)[m] = h[2 * m - 1]
      BY <1>2, <1>3, <3>1, Zenon
    <3>3. Level(h)[m] = h[Len(h)]
      BY <1>3, <2>2, <3>2, Zenon
    <3>4. QED
      BY <1>1, <3>1, <3>3, Zenon
  <2>3. QED
    BY <1>3, <2>1, <2>2
<1>7. QED
  BY <1>2, <1>4, <1>5, <1>6, Zenon DEF SoundLevel

(* Nothing is lost on the way up: the level above determines a level, and  *)
(* a receipt that moved up is not mistaken for the hash of two.            *)
LEMMA LevelInjective ==
  ASSUME NEW g, NEW h, NEW k \in Nat, SoundLevel(g, k), SoundLevel(h, k), Level(g) = Level(h)
  PROVE  Len(g) <= Len(h) => g = h
<1> SUFFICES ASSUME Len(g) <= Len(h) PROVE g = h
  OBVIOUS
<1>1. /\ Lst(g) /\ \E j \in 0 .. k : Deep(g[Len(g)], j)
      /\ Lst(h) /\ \A i \in 1 .. (Len(h) - 1) : Deep(h[i], k)
  BY DEF SoundLevel
<1>2. PICK a \in Nat :
        /\ a > 0 /\ (Len(g) = 2 * a \/ Len(g) = 2 * a - 1)
        /\ Lst(Level(g)) /\ Len(Level(g)) = a
        /\ \A i \in 1 .. a :
             Level(g)[i] = IF 2 * i <= Len(g) THEN <<g[2 * i - 1], g[2 * i]>> ELSE g[2 * i - 1]
  BY <1>1, LevelShape
<1>3. PICK m \in Nat :
        /\ m > 0 /\ (Len(h) = 2 * m \/ Len(h) = 2 * m - 1)
        /\ Lst(Level(h)) /\ Len(Level(h)) = m
        /\ \A i \in 1 .. m :
             Level(h)[i] = IF 2 * i <= Len(h) THEN <<h[2 * i - 1], h[2 * i]>> ELSE h[2 * i - 1]
  BY <1>1, LevelShape
<1>4. a = m
  BY <1>2, <1>3, Zenon
<1>5. PICK p \in Nat, n \in Nat :
        /\ p = Len(g) /\ n = Len(h) /\ p <= n
        /\ (p = 2 * m \/ p = 2 * m - 1) /\ (n = 2 * m \/ n = 2 * m - 1)
  BY <1>1, <1>2, <1>3, <1>4 DEF Lst
<1>6. p = n
  <2> SUFFICES ASSUME p # n PROVE FALSE
    OBVIOUS
  <2>1. p = 2 * m - 1 /\ n = 2 * m
    BY <1>5
  <2>2. m \in 1 .. m /\ ~(2 * m <= p) /\ 2 * m <= n /\ 2 * m - 1 \in 1 .. (n - 1)
    BY <1>3, <2>1
  <2>3. Level(g)[m] = g[2 * m - 1]
    BY <1>2, <1>4, <1>5, <2>2, Zenon
  <2>4. Level(h)[m] = <<h[2 * m - 1], h[2 * m]>>
    BY <1>3, <1>5, <2>2, Zenon
  <2>5. Deep(<<h[2 * m - 1], h[2 * m]>>, k + 1)
    BY <1>1, <1>5, <2>2, NodeDeep, Zenon
  <2>6. PICK j \in 0 .. k : Deep(g[Len(g)], j)
    BY <1>1
  <2>7. Deep(<<h[2 * m - 1], h[2 * m]>>, j)
    BY <1>5, <2>1, <2>3, <2>4, <2>6, Zenon
  <2>8. j \in Nat /\ k + 1 \in Nat /\ j < k + 1
    OBVIOUS
  <2>9. QED
    BY <2>5, <2>7, <2>8, DeepUnique, Zenon
<1>7. ASSUME NEW i \in 1 .. n PROVE g[i] = h[i]
  <2>1. PICK c \in 1 .. m : i = 2 * c \/ i = 2 * c - 1
    <3>1. (i + 1) \div 2 \in Nat /\ (i = 2 * ((i + 1) \div 2) \/ i = 2 * ((i + 1) \div 2) - 1)
      BY Half
    <3>2. PICK c \in Nat : i = 2 * c \/ i = 2 * c - 1
      BY <3>1
    <3>3. c \in 1 .. m
      BY <1>5, <3>2
    <3>4. QED
      BY <3>2, <3>3
  <2>2. CASE 2 * c <= n
    <3>1. Level(g)[c] = <<g[2 * c - 1], g[2 * c]>> /\ Level(h)[c] = <<h[2 * c - 1], h[2 * c]>>
      BY <1>2, <1>3, <1>4, <1>5, <1>6, <2>2, Zenon
    <3>2. <<g[2 * c - 1], g[2 * c]>> = <<h[2 * c - 1], h[2 * c]>>
      BY <3>1, Zenon
    <3>3. g[2 * c - 1] = h[2 * c - 1] /\ g[2 * c] = h[2 * c]
      BY <3>2, SameNode, Zenon
    <3>4. QED
      BY <2>1, <3>3, Zenon
  <2>3. CASE ~(2 * c <= n)
    <3>1. i = 2 * c - 1
      BY <2>1, <2>3
    <3>2. Level(g)[c] = g[2 * c - 1] /\ Level(h)[c] = h[2 * c - 1]
      BY <1>2, <1>3, <1>4, <1>5, <1>6, <2>3, Zenon
    <3>3. QED
      BY <3>1, <3>2, Zenon
  <2>4. QED
    BY <2>2, <2>3
<1>8. g = [i \in 1 .. n |-> g[i]] /\ h = [i \in 1 .. n |-> h[i]]
  BY <1>1, <1>5, <1>6, Zenon DEF Lst
<1>9. [i \in 1 .. n |-> g[i]] = [i \in 1 .. n |-> h[i]]
  BY <1>7, Zenon
<1>10. QED
  BY <1>8, <1>9, Zenon

(* The levels of the tree, from the receipts up.                           *)
IsTree(d, hs, n) == d = [k \in 0 .. n |-> IF k = 0 THEN hs ELSE Level(d[k - 1])]

(* The equation of the levels.                                             *)
LEMMA TreeAt ==
  ASSUME NEW d, NEW hs, NEW n, IsTree(d, hs, n), NEW k \in 0 .. n
  PROVE  d[k] = IF k = 0 THEN hs ELSE Level(d[k - 1])
<1> DEFINE step(i) == IF i = 0 THEN hs ELSE Level(d[i - 1])
           e == [i \in 0 .. n |-> step(i)]
<1>1. d = e
  BY Zenon DEF IsTree
<1> HIDE DEF step
<1>2. e[k] = step(k)
  BY Zenon
<1> HIDE DEF e
<1>3. QED
  BY <1>1, <1>2, Zenon DEF step

(* There are as many levels as one asks for.                               *)
LEMMA TreeExists ==
  ASSUME NEW hs
  PROVE  \A n \in Nat : \E d : IsTree(d, hs, n)
<1> DEFINE T == {n \in Nat : ~ \E d : IsTree(d, hs, n)}
           step(d, k) == IF k = 0 THEN hs ELSE Level(d[k - 1])
<1>1. T = {}
  <2> SUFFICES ASSUME T # {} PROVE FALSE
    OBVIOUS
  <2>1. PICK n \in T : \A y \in T : n <= y
    BY LeastElement
  <2>2. n \in Nat /\ ~ \E d : IsTree(d, hs, n)
    OBVIOUS
  <2>3. PICK e : \A k \in 0 .. (n - 1) : e[k] = step(e, k)
    <3>1. CASE n = 0
      BY <3>1
    <3>2. CASE n # 0
      <4>1. n - 1 \in Nat /\ n - 1 \notin T
        BY <2>1, <2>2, <3>2
      <4>2. PICK d : IsTree(d, hs, n - 1)
        BY <4>1
      <4>3. \A k \in 0 .. (n - 1) : d[k] = step(d, k)
        BY <4>2, TreeAt
      <4>4. QED
        BY <4>3
    <3>3. QED
      BY <3>1, <3>2
  <2> DEFINE d == [k \in 0 .. n |-> step(e, k)]
  <2>4. \A k \in 0 .. n : d[k] = step(e, k)
    OBVIOUS
  <2> HIDE DEF d
  <2>5. ASSUME NEW k \in 0 .. n PROVE step(e, k) = step(d, k)
    <3>1. CASE k = 0
      BY <3>1
    <3>2. CASE k # 0
      <4>1. k - 1 \in 0 .. n /\ k - 1 \in 0 .. (n - 1)
        BY <2>2, <3>2
      <4>2. d[k - 1] = e[k - 1]
        BY <2>3, <2>4, <4>1
      <4>3. QED
        BY <3>2, <4>2
    <3>3. QED
      BY <3>1, <3>2
  <2>6. [k \in 0 .. n |-> step(e, k)] = [k \in 0 .. n |-> step(d, k)]
    <3> HIDE DEF step
    <3>1. QED
      BY <2>5
  <2>7. IsTree(d, hs, n)
    BY <2>6, Zenon DEF IsTree, d
  <2>8. QED
    BY <2>2, <2>7
<1>2. QED
  BY <1>1

(* Every level is sound, and each one but a root is shorter than the one   *)
(* below it, so that a tree has no more levels than receipts.              *)
LEMMA TreeSound ==
  ASSUME NEW d, NEW hs, NEW n \in Nat, IsTree(d, hs, n), SoundLevel(hs, 0), NEW k \in 0 .. n
  PROVE  SoundLevel(d[k], k) /\ (Len(d[k]) = 1 \/ Len(d[k]) + k <= Len(hs))
<1> DEFINE P(i) == SoundLevel(d[i], i) /\ (Len(d[i]) = 1 \/ Len(d[i]) + i <= Len(hs))
           T == {i \in 0 .. n : ~P(i)}
<1>1. P(0)
  <2>1. d[0] = hs
    <3>1. 0 \in 0 .. n
      OBVIOUS
    <3>2. QED
      BY <3>1, TreeAt, Zenon
  <2>2. Len(hs) \in Nat
    BY DEF SoundLevel, Lst
  <2>3. QED
    BY <2>1, <2>2
<1>2. ASSUME NEW i \in 0 .. n, i # 0, P(i - 1) PROVE P(i)
  <2>1. d[i] = Level(d[i - 1])
    BY <1>2, TreeAt, Zenon
  <2>2. i - 1 \in Nat /\ (i - 1) + 1 = i
    BY <1>2
  <2>3. SoundLevel(d[i - 1], i - 1)
    BY <1>2, Zenon
  <2>4. SoundLevel(d[i], (i - 1) + 1)
    BY <2>1, <2>2, <2>3, LevelSound, Zenon
  <2>5. Len(d[i]) = 1 \/ Len(d[i]) + i <= Len(hs)
    <3>1. PICK q \in Nat : q = Len(d[i - 1]) /\ q > 0
      BY <2>3 DEF SoundLevel, Lst
    <3>2. PICK m \in Nat : m > 0 /\ (q = 2 * m \/ q = 2 * m - 1) /\ Len(d[i]) = m
      <4>1. Lst(d[i - 1])
        BY <2>3 DEF SoundLevel
      <4>2. PICK m \in Nat :
              /\ m > 0 /\ (Len(d[i - 1]) = 2 * m \/ Len(d[i - 1]) = 2 * m - 1)
              /\ Len(Level(d[i - 1])) = m
        BY <4>1, LevelShape
      <4>3. QED
        BY <2>1, <3>1, <4>2, Zenon
    <3>3. PICK L \in Nat : L = Len(hs)
      BY DEF SoundLevel, Lst
    <3>4. q = 1 \/ q + (i - 1) <= L
      BY <1>2, <3>1, <3>3, Zenon
    <3>5. m = 1 \/ m + i <= L
      <4> HIDE DEF P
      <4>1. i \in Nat
        OBVIOUS
      <4>2. \A a, b, j, l \in Nat :
              /\ j > 0 /\ a > 0 /\ (b = 2 * a \/ b = 2 * a - 1) /\ (b = 1 \/ b + (j - 1) <= l)
              => a = 1 \/ a + j <= l
        OBVIOUS
      <4>3. i > 0
        BY <1>2, <4>1
      <4>4. QED
        BY <3>1, <3>2, <3>4, <4>1, <4>2, <4>3, Zenon
    <3>6. QED
      BY <3>2, <3>3, <3>5, Zenon
  <2>6. QED
    BY <2>2, <2>4, <2>5, Zenon
<1> HIDE DEF P
<1>3. T = {}
  <2> SUFFICES ASSUME T # {} PROVE FALSE
    OBVIOUS
  <2>1. T \subseteq Nat
    OBVIOUS
  <2>2. PICK i \in T : \A y \in T : i <= y
    BY <2>1, LeastElement
  <2>3. i \in 0 .. n /\ ~P(i) /\ i # 0
    BY <1>1
  <2>4. i - 1 \in 0 .. n /\ ~(i <= i - 1)
    BY <2>3
  <2>5. P(i - 1)
    BY <2>2, <2>4
  <2>6. QED
    BY <1>2, <2>3, <2>5
<1>4. P(k)
  BY <1>3
<1>5. QED
  BY <1>4 DEF P

(* A root has no level above it.                                           *)
LEMMA RootStays ==
  ASSUME NEW h, Lst(h), Len(h) = 1
  PROVE  Level(h) = h
<1>1. PICK m \in Nat :
        /\ m > 0 /\ (Len(h) = 2 * m \/ Len(h) = 2 * m - 1)
        /\ Lst(Level(h)) /\ Len(Level(h)) = m
        /\ \A i \in 1 .. m :
             Level(h)[i] = IF 2 * i <= Len(h) THEN <<h[2 * i - 1], h[2 * i]>> ELSE h[2 * i - 1]
  BY LevelShape
<1>2. m = 1 /\ 1 \in 1 .. m /\ ~(2 * 1 <= 1) /\ 2 * 1 - 1 = 1
  BY <1>1
<1>3. Level(h)[1] = h[2 * 1 - 1]
  BY <1>1, <1>2, Zenon
<1>4. Level(h)[1] = h[1]
  BY <1>2, <1>3
<1>5. Level(h) = [i \in 1 .. 1 |-> Level(h)[i]] /\ h = [i \in 1 .. 1 |-> h[i]]
  BY <1>1, <1>2, Zenon DEF Lst
<1>6. \A i \in 1 .. 1 : Level(h)[i] = h[i]
  BY <1>4
<1>7. [i \in 1 .. 1 |-> Level(h)[i]] = [i \in 1 .. 1 |-> h[i]]
  BY <1>6, Zenon
<1>8. QED
  BY <1>5, <1>7, Zenon

(* Two towers of levels over the same receipts agree as far as both go.    *)
LEMMA TreesAgree ==
  ASSUME NEW c, NEW d, NEW hs, NEW m \in Nat, NEW n \in Nat, m <= n,
         IsTree(c, hs, m), IsTree(d, hs, n), NEW k \in 0 .. m
  PROVE  c[k] = d[k]
<1> DEFINE T == {i \in 0 .. m : c[i] # d[i]}
<1>1. T = {}
  <2> SUFFICES ASSUME T # {} PROVE FALSE
    OBVIOUS
  <2>1. T \subseteq Nat
    OBVIOUS
  <2>2. PICK i \in T : \A y \in T : i <= y
    BY <2>1, LeastElement
  <2>3. i \in 0 .. m /\ i \in 0 .. n /\ c[i] # d[i]
    OBVIOUS
  <2>4. c[i] = (IF i = 0 THEN hs ELSE Level(c[i - 1])) /\ d[i] = (IF i = 0 THEN hs ELSE Level(d[i - 1]))
    <3>1. c[i] = IF i = 0 THEN hs ELSE Level(c[i - 1])
      BY <2>3, TreeAt
    <3>2. d[i] = IF i = 0 THEN hs ELSE Level(d[i - 1])
      BY <2>3, TreeAt
    <3>3. QED
      BY <3>1, <3>2, Zenon
  <2>5. i # 0
    BY <2>3, <2>4, Zenon
  <2>6. i - 1 \in 0 .. m /\ ~(i <= i - 1)
    BY <2>3, <2>5
  <2>7. c[i - 1] = d[i - 1]
    BY <2>2, <2>6
  <2>8. QED
    BY <2>3, <2>4, <2>5, <2>7, Zenon
<1>2. QED
  BY <1>1

(* The loop's result is the top of every tower that is high enough.        *)
LEMMA RootAt ==
  ASSUME NEW d, NEW hs, SoundLevel(hs, 0), NEW n \in Nat, Len(hs) <= n, IsTree(d, hs, n)
  PROVE  Lst(d[n]) /\ Len(d[n]) = 1 /\ d[n][1] = computeMerkleRoot(hs)
<1>1. PICK q \in Nat : q = Len(hs) /\ q > 0 /\ q <= n
  BY DEF SoundLevel, Lst
<1> DEFINE up == CHOOSE x : IsTree(x, hs, q)
<1>2. IsTree(up, hs, q)
  BY TreeExists
<1>3. computeMerkleRoot(hs) = up[q][1]
  BY <1>1, Zenon DEF computeMerkleRoot, IsTree
<1> HIDE DEF up
<1>4. up[q] = d[q]
  <2>1. q \in 0 .. q
    OBVIOUS
  <2>2. QED
    BY <1>1, <1>2, <2>1, TreesAgree
<1>5. ASSUME NEW k \in q .. n PROVE Lst(d[k]) /\ Len(d[k]) = 1
  <2>1. k \in 0 .. n /\ k \in Nat /\ k >= q
    BY <1>1
  <2>2. SoundLevel(d[k], k) /\ (Len(d[k]) = 1 \/ Len(d[k]) + k <= Len(hs))
    BY <2>1, TreeSound, Zenon
  <2>3. Lst(d[k]) /\ Len(d[k]) \in Nat /\ Len(d[k]) > 0
    BY <2>2 DEF SoundLevel, Lst
  <2>4. QED
    BY <1>1, <2>1, <2>2, <2>3
<1> DEFINE T == {k \in q .. n : d[k] # d[q]}
<1>6. T = {}
  <2> SUFFICES ASSUME T # {} PROVE FALSE
    OBVIOUS
  <2>1. T \subseteq Nat
    OBVIOUS
  <2>2. PICK i \in T : \A y \in T : i <= y
    BY <2>1, LeastElement
  <2>3. i \in q .. n /\ d[i] # d[q] /\ i # q
    OBVIOUS
  <2>4. i - 1 \in q .. n /\ i \in 0 .. n /\ i # 0 /\ ~(i <= i - 1)
    BY <1>1, <2>3
  <2>5. d[i - 1] = d[q]
    BY <2>2, <2>4
  <2>6. d[i] = Level(d[i - 1])
    BY <2>4, TreeAt, Zenon
  <2>7. Level(d[i - 1]) = d[i - 1]
    BY <1>5, <2>4, RootStays, Zenon
  <2>8. QED
    BY <2>3, <2>5, <2>6, <2>7, Zenon
<1>7. n \in q .. n
  BY <1>1
<1>8. d[n] = d[q] /\ Lst(d[n]) /\ Len(d[n]) = 1
  BY <1>5, <1>6, <1>7
<1>9. d[n][1] = computeMerkleRoot(hs)
  BY <1>3, <1>4, <1>8, Zenon
<1>10. QED
  BY <1>8, <1>9

(* Equal roots, equal hashes: from the root down, level by level.          *)
LEMMA RootInjective ==
  ASSUME NEW g, NEW h, SoundLevel(g, 0), SoundLevel(h, 0),
         computeMerkleRoot(g) = computeMerkleRoot(h)
  PROVE  g = h
<1>1. PICK n \in Nat : Len(g) <= n /\ Len(h) <= n
  <2>1. Len(g) \in Nat /\ Len(h) \in Nat
    BY DEF SoundLevel, Lst
  <2>2. Len(g) + Len(h) \in Nat /\ Len(g) <= Len(g) + Len(h) /\ Len(h) <= Len(g) + Len(h)
    BY <2>1
  <2>3. QED
    BY <2>2
<1>2. PICK c : IsTree(c, g, n)
  BY TreeExists
<1>3. PICK d : IsTree(d, h, n)
  BY TreeExists
<1>4. c[n] = d[n]
  <2>1. Lst(c[n]) /\ Len(c[n]) = 1 /\ c[n][1] = computeMerkleRoot(g)
    BY <1>1, <1>2, RootAt
  <2>2. Lst(d[n]) /\ Len(d[n]) = 1 /\ d[n][1] = computeMerkleRoot(h)
    BY <1>1, <1>3, RootAt
  <2>3. c[n] = [i \in 1 .. 1 |-> c[n][i]] /\ d[n] = [i \in 1 .. 1 |-> d[n][i]]
    BY <2>1, <2>2, Zenon DEF Lst
  <2>4. \A i \in 1 .. 1 : c[n][i] = d[n][i]
    BY <2>1, <2>2
  <2>5. [i \in 1 .. 1 |-> c[n][i]] = [i \in 1 .. 1 |-> d[n][i]]
    BY <2>4, Zenon
  <2>6. QED
    BY <2>3, <2>5, Zenon
<1> DEFINE T == {k \in 0 .. n : c[n - k] # d[n - k]}
<1>5. T = {}
  <2> SUFFICES ASSUME T # {} PROVE FALSE
    OBVIOUS
  <2>1. T \subseteq Nat
    OBVIOUS
  <2>2. PICK k \in T : \A y \in T : k <= y
    BY <2>1, LeastElement
  <2>3. k \in 0 .. n /\ c[n - k] # d[n - k] /\ k # 0
    BY <1>4
  <2>4. /\ k - 1 \in 0 .. n /\ ~(k <= k - 1) /\ n - (k - 1) = (n - k) + 1
        /\ n - k \in 0 .. n /\ n - k \in Nat /\ (n - k) + 1 \in 0 .. n /\ (n - k) + 1 # 0
        /\ ((n - k) + 1) - 1 = n - k
    BY <2>3
  <2>5. c[(n - k) + 1] = d[(n - k) + 1]
    <3>1. c[n - (k - 1)] = d[n - (k - 1)]
      BY <2>2, <2>4
    <3>2. QED
      BY <2>4, <3>1
  <2>6. PICK i \in Nat : i = n - k /\ i \in 0 .. n /\ i + 1 \in 0 .. n /\ i + 1 # 0 /\ (i + 1) - 1 = i
    BY <2>4
  <2>7. c[i + 1] = Level(c[(i + 1) - 1]) /\ d[i + 1] = Level(d[(i + 1) - 1])
    <3>1. c[i + 1] = IF i + 1 = 0 THEN g ELSE Level(c[(i + 1) - 1])
      BY <1>2, <2>6, TreeAt
    <3>2. d[i + 1] = IF i + 1 = 0 THEN h ELSE Level(d[(i + 1) - 1])
      BY <1>3, <2>6, TreeAt
    <3>3. QED
      BY <2>6, <3>1, <3>2, Zenon
  <2>8. Level(c[i]) = Level(d[i])
    BY <2>5, <2>6, <2>7, Zenon
  <2>9. SoundLevel(c[i], i) /\ SoundLevel(d[i], i)
    BY <1>2, <1>3, <2>6, TreeSound, Zenon
  <2>10. Len(c[i]) <= Len(d[i]) \/ Len(d[i]) <= Len(c[i])
    <3>1. Len(c[i]) \in Nat /\ Len(d[i]) \in Nat
      BY <2>9 DEF SoundLevel, Lst
    <3>2. QED
      BY <3>1
  <2>11. c[i] = d[i]
    BY <2>8, <2>9, <2>10, LevelInjective, Zenon
  <2>12. QED
    BY <2>3, <2>6, <2>11, Zenon
<1>6. n \in 0 .. n /\ n - n = 0 /\ 0 \in 0 .. n
  OBVIOUS
<1>7. c[0] = d[0]
  <2>1. c[n - n] = d[n - n]
    BY <1>5, <1>6
  <2>2. QED
    BY <1>6, <2>1
<1>8. c[0] = g /\ d[0] = h
  BY <1>2, <1>3, <1>6, TreeAt, Zenon
<1>9. QED
  BY <1>7, <1>8, Zenon

Hashes(r) == [i \in DOMAIN r |-> computeHash(r[i])]

(* The hashes of the receipts are the lowest level.                        *)
LEMMA HashesSound ==
  ASSUME NEW r \in Seq(Tx), r # << >>
  PROVE  SoundLevel(Hashes(r), 0) /\ Len(Hashes(r)) = Len(r)
<1>1. PICK n \in Nat : n = Len(r) /\ n > 0 /\ DOMAIN r = 1 .. n /\ \A i \in 1 .. n : r[i] \in Tx
  BY LenProperties, EmptySeq, ElementOfSeq
<1> DEFINE u == Hashes(r)
<1>2. u = [i \in 1 .. n |-> computeHash(r[i])]
  BY <1>1, Zenon DEF Hashes
<1>3. (\A i \in 1 .. n : u[i] = <<r[i]>>) /\ u = [i \in 1 .. n |-> u[i]]
  BY <1>2, Zenon DEF computeHash
<1> HIDE DEF u
<1>4. Lst(u) /\ Len(u) = n
  BY <1>1, <1>3, ListLen
<1>5. \A i \in 1 .. n : Deep(u[i], 0)
  BY <1>1, <1>3, LeafDeep, Zenon
<1>6. (\A i \in 1 .. (n - 1) : i \in 1 .. n) /\ n \in 1 .. n /\ 0 \in 0 .. 0
  BY <1>1
<1>7. SoundLevel(u, 0)
  BY <1>4, <1>5, <1>6, Zenon DEF SoundLevel
<1>8. QED
  BY <1>1, <1>4, <1>7, Zenon DEF u

(* A root of some receipts is not the zero hash a block without receipts   *)
(* has.                                                                    *)
LEMMA RootIsATree ==
  ASSUME NEW r \in Seq(Tx), r # << >>
  PROVE  computeMerkleRoot(Hashes(r)) # NoRoot
<1> DEFINE hs == Hashes(r)
<1>1. SoundLevel(hs, 0)
  BY HashesSound
<1> HIDE DEF hs
<1>2. PICK n \in Nat : n = Len(hs)
  BY <1>1 DEF SoundLevel, Lst
<1>3. PICK d : IsTree(d, hs, n)
  BY TreeExists
<1>4. Lst(d[n]) /\ Len(d[n]) = 1 /\ d[n][1] = computeMerkleRoot(hs)
  BY <1>1, <1>2, <1>3, RootAt
<1> DEFINE x == computeMerkleRoot(hs)
<1>5. \E j \in 0 .. n : Deep(x, j)
  <2> HIDE DEF x
  <2>1. n \in 0 .. n
    OBVIOUS
  <2>2. SoundLevel(d[n], n)
    BY <1>1, <1>3, <2>1, TreeSound, Zenon
  <2>3. Len(d[n]) = 1 /\ d[n][1] = x
    BY <1>4, Zenon DEF x
  <2>4. QED
    BY <2>2, <2>3, Zenon DEF SoundLevel
<1>6. x # << >>
  <2> HIDE DEF x
  <2>1. PICK j \in 0 .. n : Deep(x, j)
    BY <1>5
  <2>2. PICK f : Spine(f, x, j)
    BY <2>1 DEF Deep
  <2>3. \A y, z : <<y>> # << >> /\ <<y, z>> # << >>
    OBVIOUS
  <2>4. CASE j = 0
    <3>1. PICK t \in Tx : f[0] = <<t>>
      BY <2>2, <2>4 DEF Spine
    <3>2. QED
      BY <2>2, <2>3, <3>1, Zenon DEF Spine
  <2>5. CASE j # 0
    <3>1. 0 \in 0 .. (j - 1)
      BY <2>5
    <3>2. PICK z : f[0] = <<f[0 + 1], z>>
      BY <2>2, <3>1, Zenon DEF Spine
    <3>3. QED
      BY <2>2, <2>3, <3>2, Zenon DEF Spine
  <2>6. QED
    BY <2>4, <2>5
<1>7. QED
  BY <1>6, Zenon DEF x, hs, NoRoot

(* A root binds to the receipts it was computed from.                      *)
LEMMA RootBinds ==
  ASSUME NEW r \in Seq(Tx), NEW s \in Seq(Tx),
         ComputeBlockReceiptRoot(r) = ComputeBlockReceiptRoot(s)
  PROVE  r = s
<1>1. \A q : ComputeBlockReceiptRoot(q) = IF q = << >> THEN NoRoot ELSE computeMerkleRoot(Hashes(q))
  BY Zenon DEF ComputeBlockReceiptRoot, Hashes
<1>2. CASE r = << >> \/ s = << >>
  BY <1>1, <1>2, RootIsATree, Zenon
<1>3. CASE r # << >> /\ s # << >>
  <2>1. /\ SoundLevel(Hashes(r), 0) /\ Len(Hashes(r)) = Len(r)
        /\ SoundLevel(Hashes(s), 0) /\ Len(Hashes(s)) = Len(s)
    BY <1>3, HashesSound
  <2>2. computeMerkleRoot(Hashes(r)) = computeMerkleRoot(Hashes(s))
    BY <1>1, <1>3, Zenon
  <2>3. Hashes(r) = Hashes(s)
    BY <2>1, <2>2, RootInjective, Zenon
  <2>4. Len(r) = Len(s) /\ Len(r) \in Nat /\ DOMAIN r = 1 .. Len(r) /\ DOMAIN s = 1 .. Len(s)
    BY <2>1, <2>3, LenProperties
  <2>5. ASSUME NEW i \in 1 .. Len(r) PROVE r[i] = s[i]
    <3>1. Hashes(r)[i] = <<r[i]>> /\ Hashes(s)[i] = <<s[i]>>
      <4>1. i \in DOMAIN r /\ i \in DOMAIN s
        BY <2>4
      <4>2. QED
        BY <4>1, Zenon DEF Hashes, computeHash
    <3>2. <<r[i]>> = <<s[i]>>
      BY <2>3, <3>1, Zenon
    <3>3. QED
      BY <3>2
  <2>6. QED
    BY <2>4, <2>5, SeqEqual
<1>4. QED
  BY <1>2, <1>3

-----------------------------------------------------------------------------
(* The theorems.                                                           *)

(* Every variable of the node keeps its type, for any clients, limits and  *)
(* failures; in particular no balance ever goes below zero, although gas   *)
(* is refunded out of a counter that earlier transactions have filled      *)
(* (evm.go:131-204).                                                       *)
THEOREM TypeCorrect == Spec => []TypeOK
<1>1. IInv => TypeOK
  <2> SUFFICES ASSUME IInv PROVE TypeOK
    OBVIOUS
  <2>1. Pool!TypeOK
    BY SameNames DEF IInv, PoolSound, PP!Consistent
  <2>2. ASSUME NEW t \in Tx PROVE submits[t] \in 0 .. MaxSubmits[t]
    <3>1. submits[t] \in Nat /\ MaxSubmits[t] \in Nat /\ submits[t] <= MaxSubmits[t]
      BY SubmitAssumption DEF IInv, NodeSound, NodeTypes
    <3>2. QED
      BY <3>1
  <2>3. QED
    BY <2>1, <2>2 DEF IInv, NodeSound, NodeTypes, TypeOK, AcctState
<1>2. QED
  BY <1>1, SpecKeeps, PTL

(* A sender's transactions enter the ledger in nonce order without a gap,  *)
(* and the committed nonce counts them, whatever order the pool hands      *)
(* them out in and whatever is skipped, re-added or sent again             *)
(* (evm.go:124-128, 161).                                                  *)
THEOREM LedgerInNonceOrder == Spec => []NoncesConsecutive
<1>1. IInv => NoncesConsecutive
  BY DEF IInv, NodeSound, LedgerSound, Ordered, Mine, Earlier, NoncesConsecutive
<1>2. QED
  BY <1>1, SpecKeeps, PTL

(* No transaction is executed twice, although the pool forgets a hash when *)
(* it hands the transaction out and takes it in again: the nonces are      *)
(* guard enough (evm.go:124-128, lanes.go:191).                            *)
THEOREM ExecutedAtMostOnce == Spec => []IncludedOnce
<1>1. IInv => IncludedOnce
  <2> SUFFICES ASSUME IInv, NEW i \in DOMAIN ledger, NEW j \in DOMAIN ledger,
                      ledger[i] = ledger[j]
               PROVE  i = j
    BY DEF IncludedOnce
  <2>1. ledger \in Seq(Tx) /\ Ordered(ledger, acct.nonce)
    BY DEF IInv, NodeSound, NodeTypes, LedgerSound
  <2>2. QED
    BY <2>1, OrderedOnce
<1>2. QED
  BY <1>1, SpecKeeps, PTL

(* The sum of all balances is that of the genesis, for any finite set of   *)
(* accounts and however sender, receiver and coinbase coincide             *)
(* (evm.go:131-204).                                                       *)
THEOREM NoWeiMadeOrLost == Spec => []SupplyConserved
<1>1. IInv => SupplyConserved
  BY DEF IInv, NodeSound, LedgerSound, SupplyConserved
<1>2. QED
  BY <1>1, SpecKeeps, PTL

(* The receipts stored and those still to be stored are together those of  *)
(* the ledger, in its order, and between two blocks none is missing, also  *)
(* after blocks that failed (producer.go:228-243).                         *)
THEOREM ReceiptsFollowLedger == Spec => []ReceiptsComplete
<1>1. IInv => ReceiptsComplete
  BY DEF IInv, NodeSound, LedgerSound, Stages, ReceiptsComplete, Flat
<1>2. QED
  BY <1>1, SpecKeeps, PTL

(* A root binds to the receipts it was computed from: two readers who are  *)
(* told the same root saw the same receipts, for blocks of any length,     *)
(* although an odd receipt moves up unhashed and its level is then read as *)
(* one of a smaller tree (receipts.go:181-198, 223-248).                   *)
THEOREM RootsBind == Spec => []RootsCommit
<1>1. IInv => RootsCommit
  <2> SUFFICES ASSUME IInv, NEW k \in DOMAIN byBlock, NEW m \in DOMAIN byBlock,
                      NEW i \in 0 .. Len(byBlock[k]), NEW j \in 0 .. Len(byBlock[m]),
                      ComputeBlockReceiptRoot(SubSeq(byBlock[k], 1, i))
                        = ComputeBlockReceiptRoot(SubSeq(byBlock[m], 1, j))
               PROVE  SubSeq(byBlock[k], 1, i) = SubSeq(byBlock[m], 1, j)
    BY Zenon DEF RootsCommit
  <2>1. byBlock \in Seq(Seq(Tx))
    BY DEF IInv, NodeSound, NodeTypes
  <2>2. byBlock[k] \in Seq(Tx) /\ byBlock[m] \in Seq(Tx)
    BY <2>1, ElementOfSeq, LenProperties
  <2>3. ASSUME NEW s \in Seq(Tx), NEW n \in 0 .. Len(s) PROVE SubSeq(s, 1, n) \in Seq(Tx)
    BY <2>3
  <2>4. SubSeq(byBlock[k], 1, i) \in Seq(Tx) /\ SubSeq(byBlock[m], 1, j) \in Seq(Tx)
    BY <2>2, <2>3
  <2>5. QED
    BY <2>4, RootBinds, Zenon
<1>2. QED
  BY <1>1, SpecKeeps, PTL

-----------------------------------------------------------------------------
(* Nothing accepted is lost.                                               *)

Outstanding == DOMAIN known \cup TxsOf(batch) \cup TxsOf(held) \cup TxsOf(todo)

(* There is room in the pool for what has been taken out of it.            *)
Roomy == Cardinality(Outstanding) <= MaxSize

Tracked == accepted \subseteq Elems(ledger) \cup Outstanding

(* The transactions of a batch can be counted.                             *)
LEMMA TxsFinite ==
  ASSUME NEW s \in Seq(Entry)
  PROVE  IsFiniteSet(TxsOf(s))
<1> DEFINE f == [i \in 1 .. Len(s) |-> s[i].tx]
<1>1. Len(s) \in Nat /\ DOMAIN s = 1 .. Len(s)
  BY LenProperties
<1>2. f \in Surjection(1 .. Len(s), TxsOf(s))
  BY <1>1 DEF Surjection, TxsOf
<1>3. IsFiniteSet(1 .. Len(s))
  BY <1>1, FS_Interval
<1>4. QED
  BY <1>2, <1>3, FS_Surjection

(* While there is room, Add refuses only what is already in the pool.      *)
LEMMA RefusedIsKnown ==
  ASSUME IInv, Roomy, NEW t \in Outstanding, ~Pool!Accepts(t)
  PROVE  t \in DOMAIN known
<1> SUFFICES ASSUME t \notin DOMAIN known PROVE FALSE
  OBVIOUS
<1>1. ~(PP!totalLen < MaxSize)
  BY SameAdd DEF PP!Accepts
<1>2. IsFiniteSet(DOMAIN known) /\ Cardinality(DOMAIN known) = PP!totalLen
  BY DEF IInv, PoolSound
<1>3. IsFiniteSet(TxsOf(batch)) /\ IsFiniteSet(TxsOf(held)) /\ IsFiniteSet(TxsOf(todo))
  <2>1. batch \in Seq(Entry) /\ held \in Seq(Entry) /\ todo \in Seq(Entry)
    BY SameNames DEF IInv, PoolSound, PP!Consistent, PP!TypeOK, NodeSound, NodeTypes
  <2>2. QED
    BY <2>1, TxsFinite
<1>4. IsFiniteSet(Outstanding)
  BY <1>2, <1>3, FS_Union DEF Outstanding
<1>5. /\ Cardinality(DOMAIN known \cup {t}) = PP!totalLen + 1
      /\ DOMAIN known \cup {t} \in SUBSET Outstanding
  BY <1>2, FS_AddElement DEF Outstanding
<1>6. Cardinality(DOMAIN known \cup {t}) <= Cardinality(Outstanding)
  BY <1>4, <1>5, FS_Subset
<1>7. PP!totalLen \in Nat /\ Cardinality(Outstanding) \in Nat /\ MaxSize \in Nat
  BY <1>2, <1>4, FS_CardinalityType, LimitsAssumption
<1>8. QED
  BY <1>1, <1>5, <1>6, <1>7 DEF Roomy

(* Every step keeps track of every accepted transaction.                   *)
LEMMA NextTracks ==
  ASSUME IInv, Roomy, Tracked, [Next]_vars
  PROVE  Tracked'
<1> USE DEF Tracked, Outstanding
<1>1. ASSUME NEW t \in Tx, NEW s \in Scores, SendRawTransaction(t, s) PROVE Tracked'
  <2>1. UNCHANGED <<held, todo, ledger>>
    BY <1>1 DEF SendRawTransaction, prodVars, chainVars
  <2>2. CASE Pool!Add(t, s) /\ accepted' = accepted \cup {t}
    <3>1. DOMAIN known' = DOMAIN known \cup {t} /\ batch' = batch
      BY <2>2, AddSound DEF IInv
    <3>2. QED
      BY <2>1, <2>2, <3>1
  <2>3. CASE UNCHANGED <<poolVars, accepted>>
    BY <2>1, <2>3 DEF poolVars
  <2>4. QED
    BY <1>1, <2>2, <2>3 DEF SendRawTransaction
<1>2. CASE (\E c \in Calls : Tick(c)) \/ Finish
  BY <1>2, OtherPoolSteps
     DEF IInv, Tick, Finish, Pool!StartPop, poolVars, rpcVars, chainVars
<1>3. CASE Popping
  <2>1. DOMAIN known' \cup TxsOf(batch') = DOMAIN known \cup TxsOf(batch)
    BY <1>3, TakeSound DEF IInv, Popping, Pool!EndDrain
  <2>2. UNCHANGED <<held, todo, ledger, accepted>>
    BY <1>3 DEF Popping, prodVars, chainVars, rpcVars
  <2>3. QED
    BY <2>1, <2>2
<1>4. CASE Popped
  <2>1. /\ held' = batch /\ held = << >> /\ known' = known
        /\ UNCHANGED <<todo, ledger, accepted>>
    BY <1>4 DEF Popped, IInv, NodeSound, Stages, Pool!Return, Pool!poolVars, chainVars, rpcVars
  <2>2. TxsOf(<< >>) = {}
    BY DEF TxsOf
  <2>3. QED
    BY <2>1, <2>2
<1>5. CASE Execute
  <2>1. /\ Elems(ledger) \subseteq Elems(ledger')
        /\ TxsOf(held) \subseteq Elems(ledger') \cup TxsOf(todo')
    BY <1>5, ExecuteKeeps
  <2>2. todo = << >> /\ UNCHANGED <<known, batch, accepted>>
    BY <1>5 DEF Execute, IInv, NodeSound, Stages, poolVars, rpcVars
  <2>3. TxsOf(<< >>) = {}
    BY DEF TxsOf
  <2>4. QED
    BY <2>1, <2>2, <2>3
<1>6. CASE ExecuteFails
  <2>1. TxsOf(todo') = TxsOf(held)
    BY <1>6, FailKeeps
  <2>2. todo = << >> /\ UNCHANGED <<known, batch, accepted, ledger>>
    BY <1>6 DEF ExecuteFails, IInv, NodeSound, Stages, poolVars, rpcVars, chainVars
  <2>3. TxsOf(<< >>) = {}
    BY DEF TxsOf
  <2>4. QED
    BY <2>1, <2>2, <2>3
<1>7. CASE Requeue
  <2> DEFINE e == Head(todo)
  <2>1. /\ todo # << >> /\ todo' = Tail(todo) /\ UNCHANGED <<held, ledger, accepted>>
        /\ Pool!Add(e.tx, e.score) \/ (~Pool!Accepts(e.tx) /\ UNCHANGED poolVars)
    BY <1>7 DEF Requeue, rpcVars, chainVars
  <2>2. todo \in Seq(Entry)
    BY DEF IInv, NodeSound, NodeTypes
  <2>3. e \in Entry /\ TxsOf(todo) = {e.tx} \cup TxsOf(Tail(todo))
    <3>1. /\ Len(todo) \in Nat /\ Len(todo) > 0 /\ DOMAIN todo = 1 .. Len(todo)
          /\ e = todo[1] /\ e \in Entry
          /\ Tail(todo) \in Seq(Entry) /\ Len(Tail(todo)) = Len(todo) - 1
          /\ \A i \in 1 .. Len(Tail(todo)) : Tail(todo)[i] = todo[i + 1]
      BY <2>1, <2>2, HeadTailProperties, LenProperties, EmptySeq
    <3>2. DOMAIN Tail(todo) = 1 .. (Len(todo) - 1)
      BY <3>1, LenProperties
    <3> DEFINE r == Tail(todo)
    <3> HIDE DEF e, r
    <3>3. ASSUME NEW t \in TxsOf(todo) PROVE t \in {e.tx} \cup TxsOf(r)
      <4>1. PICK i \in 1 .. Len(todo) : t = todo[i].tx
        BY <3>1 DEF TxsOf
      <4>2. CASE i = 1
        BY <3>1, <4>1, <4>2
      <4>3. CASE i # 1
        <5>1. i - 1 \in DOMAIN r /\ r[i - 1] = todo[i]
          BY <3>1, <3>2, <4>3 DEF r
        <5>2. QED
          BY <4>1, <5>1 DEF TxsOf
      <4>4. QED
        BY <4>2, <4>3
    <3>4. ASSUME NEW t \in {e.tx} \cup TxsOf(r) PROVE t \in TxsOf(todo)
      <4>1. CASE t = e.tx
        BY <3>1, <4>1 DEF TxsOf
      <4>2. CASE t \in TxsOf(r)
        <5>1. PICK i \in DOMAIN r : t = r[i].tx
          BY <4>2 DEF TxsOf
        <5>2. i + 1 \in DOMAIN todo /\ r[i] = todo[i + 1]
          BY <3>1, <3>2 DEF r
        <5>3. QED
          BY <5>1, <5>2 DEF TxsOf
      <4>3. QED
        BY <4>1, <4>2
    <3>5. QED
      BY <3>1, <3>3, <3>4 DEF r
  <2> HIDE DEF e
  <2>4. CASE Pool!Add(e.tx, e.score)
    <3>1. DOMAIN known' = DOMAIN known \cup {e.tx} /\ batch' = batch
      BY <2>3, <2>4, AddSound DEF IInv, Entry
    <3>2. QED
      BY <2>1, <2>3, <3>1
  <2>5. CASE ~Pool!Accepts(e.tx) /\ UNCHANGED poolVars
    <3>1. e.tx \in DOMAIN known
      BY <2>3, <2>5, RefusedIsKnown
    <3>2. known' = known /\ batch' = batch
      BY <2>5 DEF poolVars
    <3>3. QED
      BY <2>1, <2>3, <3>1, <3>2
  <2>6. QED
    BY <2>1, <2>4, <2>5
<1>8. CASE StoreReceipt \/ UNCHANGED vars
  BY <1>8 DEF StoreReceipt, vars, poolVars, rpcVars, prodVars, chainVars
<1>9. QED
  BY <1>1, <1>2, <1>3, <1>4, <1>5, <1>6, <1>7, <1>8 DEF Next, Produce

(* A transaction a client was given a hash for is in the ledger, in the    *)
(* pool or in the producer's hands, however often blocks fail, as long as  *)
(* pool and producer together never hold more than maxSize transactions.   *)
(* Without room a re-add is refused and the transaction is gone            *)
(* (producer.go:124-146, lanes.go:95).                                     *)
THEOREM AcceptedStaysKnown == Spec /\ []Roomy => []AcceptedNotLost
<1>1. Init => Tracked
  BY DEF Init, Tracked
<1>2. IInv /\ Roomy /\ Tracked /\ [Next]_vars => Tracked'
  BY NextTracks
<1>3. IInv /\ Tracked => AcceptedNotLost
  <2> SUFFICES ASSUME IInv, Tracked, NEW t \in accepted
               PROVE  t \in Elems(ledger) \/ InPool(t) \/ Carried(t)
    BY DEF AcceptedNotLost
  <2>1. CASE t \in DOMAIN known
    <3>1. PP!KnownMatchesLanes /\ PP!TypeOK
      BY DEF IInv, PoolSound, PP!Consistent
    <3>2. known[t] \in Lanes /\ \E i \in 1 .. Len(lanes[known[t]]) : lanes[known[t]][i].tx = t
      BY <2>1, <3>1, SameNames DEF PP!KnownMatchesLanes, PP!TypeOK, PP!LaneHas
    <3>3. DOMAIN lanes[known[t]] = 1 .. Len(lanes[known[t]])
      BY <3>1, <3>2, SameNames, LenProperties DEF PP!TypeOK
    <3>4. QED
      BY <3>2, <3>3 DEF InPool, TxsOf
  <2>2. CASE t \notin DOMAIN known
    BY <2>2 DEF Tracked, Outstanding, Carried
  <2>3. QED
    BY <2>1, <2>2
<1>4. QED
  BY <1>1, <1>2, <1>3, SpecKeeps, PTL DEF Spec


-----------------------------------------------------------------------------
(* The pool inside the node.  LanedMempool's contract is about a pool with *)
(* callers of its own; here its callers are the RPC goroutines and the     *)
(* producer.                                                               *)

(* Whatever the node does is a step of the pool or none of its business.   *)
LEMMA StepIsThePools ==
  ASSUME IInv, [Next]_vars
  PROVE  [PP!Next]_(PP!vars)
<1>1. ASSUME UNCHANGED poolVars PROVE UNCHANGED PP!vars
  BY <1>1 DEF poolVars, PP!vars
<1>2. ASSUME NEW t \in Tx, NEW s \in Scores, Pool!Add(t, s) PROVE PP!Next
  BY <1>2, SameAdd DEF PP!Next
<1>3. ASSUME NEW c \in Calls, Pool!StartPop(c) PROVE PP!Next
  BY <1>3, SamePop DEF PP!Next
<1>4. ASSUME Pool!Take \/ Pool!EndDrain \/ Pool!Return PROVE PP!Next
  BY <1>4, SamePop DEF PP!Next, PP!PopStep
<1>5. CASE \E t \in Tx, s \in Scores : SendRawTransaction(t, s)
  <2>1. PICK t \in Tx, s \in Scores : SendRawTransaction(t, s)
    BY <1>5
  <2>2. Pool!Add(t, s) \/ UNCHANGED poolVars
    BY <2>1 DEF SendRawTransaction
  <2>3. QED
    BY <1>1, <1>2, <2>2
<1>6. CASE \E c \in Calls : Tick(c)
  BY <1>3, <1>6 DEF Tick
<1>7. CASE Popping \/ Popped
  BY <1>4, <1>7 DEF Popping, Popped
<1>8. CASE Requeue
  <2>1. Head(todo).tx \in Tx /\ Head(todo).score \in Scores
    <3>1. todo \in Seq(Entry) /\ todo # << >>
      BY <1>8 DEF IInv, NodeSound, NodeTypes, Requeue
    <3>2. Head(todo) \in Entry
      BY <3>1, HeadTailProperties
    <3>3. QED
      BY <3>2 DEF Entry
  <2>2. Pool!Add(Head(todo).tx, Head(todo).score) \/ UNCHANGED poolVars
    BY <1>8 DEF Requeue
  <2>3. QED
    BY <1>1, <1>2, <2>1, <2>2
<1>9. CASE Execute \/ ExecuteFails \/ StoreReceipt \/ Finish \/ UNCHANGED vars
  BY <1>1, <1>9 DEF Execute, ExecuteFails, StoreReceipt, Finish, vars
<1>10. QED
  BY <1>5, <1>6, <1>7, <1>8, <1>9 DEF Next, Produce

(* The facts about a pool that the node's invariant does not mention.      *)
PoolInOrder == PP!Ranked /\ PP!CapacityRespected
PoolAccounted == PP!GasAccounted /\ PP!Thorough

(* A new pool.                                                             *)
LEMMA PoolInit == Init => PP!Init /\ PoolInOrder /\ PoolAccounted /\ PP!Contract!CInit
<1> SUFFICES ASSUME Init PROVE PP!Init /\ PoolInOrder /\ PoolAccounted /\ PP!Contract!CInit
  OBVIOUS
<1>1. PP!Init
  BY SameInit DEF Init
<1>2. PP!Ranked /\ PP!CapacityRespected
  BY <1>1, Assumptions, PP!InitRanked, PP!InitCapacity
<1>3. PP!GasAccounted
  BY <1>1, Assumptions, PP!InitGas
<1>4. PP!Thorough /\ PP!Contract!CInit
  BY <1>1, Assumptions, PP!InitThorough, PP!InitRefines
<1>5. QED
  BY <1>1, <1>2, <1>3, <1>4 DEF PoolInOrder, PoolAccounted

(* Priority order and capacity survive every step of the node.             *)
LEMMA PoolStaysInOrder == IInv /\ PoolInOrder /\ [Next]_vars => PoolInOrder'
<1> SUFFICES ASSUME IInv, PoolInOrder, [Next]_vars PROVE PoolInOrder'
  OBVIOUS
<1>1. [PP!Next]_(PP!vars) /\ PP!Consistent
  BY StepIsThePools DEF IInv, PoolSound
<1>2. PP!Ranked'
  BY <1>1, Assumptions, PP!NextRanked DEF PoolInOrder
<1>3. PP!CapacityRespected'
  BY <1>1, Assumptions, PP!NextCapacity DEF PoolInOrder
<1>4. QED
  BY <1>2, <1>3 DEF PoolInOrder

(* So do the gas accounts, and every step of the node is one of the        *)
(* contract.                                                               *)
LEMMA NodeKeepsContract ==
  ASSUME PP!NoWrap
  PROVE  IInv /\ PoolAccounted /\ [Next]_vars
           => PoolAccounted' /\ [PP!Contract!CNext]_(PP!Contract!cvars)
<1> SUFFICES ASSUME IInv, PoolAccounted, [Next]_vars
             PROVE  PoolAccounted' /\ [PP!Contract!CNext]_(PP!Contract!cvars)
  OBVIOUS
<1>1. [PP!Next]_(PP!vars) /\ PP!Consistent
  BY StepIsThePools DEF IInv, PoolSound
<1>2. PP!GasAccounted /\ PP!Thorough
  BY DEF PoolAccounted
<1>3. PP!GasAccounted'
  BY <1>1, <1>2, Assumptions, PP!NextGas
<1>4. PP!Thorough'
  BY <1>1, <1>2, Assumptions, PP!NextThorough
<1>5. [PP!Contract!CNext]_(PP!Contract!cvars)
  BY <1>1, <1>2, Assumptions, PP!NextRefines
<1>6. QED
  BY <1>3, <1>4, <1>5 DEF PoolAccounted

(* In the node, too, nothing of lower priority overtakes and the pool does *)
(* not outgrow maxSize: the producer's re-adds of skipped transactions and *)
(* of failed blocks, and clients sending meanwhile, go through the same    *)
(* Add (producer.go:142-152, lanes.go:87-130).                             *)
THEOREM NodePopsBestFirst == Spec => [](PP!BestFirst /\ PP!CapacityRespected)
<1>1. PoolInOrder => PP!BestFirst /\ PP!CapacityRespected
  BY DEF PoolInOrder, PP!Ranked
<1>2. Init => PoolInOrder
  BY PoolInit
<1>3. Spec => Init /\ [][Next]_vars
  BY PTL DEF Spec
<1>4. QED
  BY <1>1, <1>2, <1>3, SpecKeeps, PoolStaysInOrder, PTL

(* The producer meets the pool's contract: what it is handed is a legal    *)
(* answer to its PopBatch, taken in one step between the clients' Adds, as *)
(* long as its gas limit stays clear of 2^64 (producer.go:100-120,         *)
(* lanes.go:133-177).                                                      *)
THEOREM NodeMeetsContract ==
  ASSUME PP!NoWrap
  PROVE  Spec => PP!ImplementsContract
<1>1. Init => PoolAccounted /\ PP!Contract!CInit
  BY PoolInit
<1>2. Spec => Init /\ [][Next]_vars
  BY PTL DEF Spec
<1>3. IInv /\ PoolAccounted /\ [Next]_vars
        => PoolAccounted' /\ [PP!Contract!CNext]_(PP!Contract!cvars)
  BY NodeKeepsContract
<1>4. Spec => PP!Contract!CSpec
  BY <1>1, <1>2, <1>3, SpecKeeps, PTL DEF PP!Contract!CSpec
<1>5. QED
  BY <1>4 DEF PP!ImplementsContract
=============================================================================
