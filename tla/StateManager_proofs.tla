------------------------ MODULE StateManager_proofs ------------------------
(***************************************************************************)
(* Proofs about StateManager, for every set of transactions and payloads,  *)
(* every base of the key digits, and any number of blocks, failed writes,  *)
(* crashes and shutdowns.                                                  *)
(***************************************************************************)
EXTENDS StateManager, SequenceTheorems, WellFoundedInduction, TLAPS

-----------------------------------------------------------------------------
(* Induction.  A set of natural numbers has a least element; a statement   *)
(* about all numbers is proved by looking at the least counterexample.     *)

(* Every nonempty set of numbers has a least element.                      *)
LEMMA LeastElement ==
  ASSUME NEW T, T \subseteq Nat, T # {}
  PROVE  \E x \in T : \A y \in T : x <= y
<1>1. IsWellFoundedOn({ss \in Nat \X Nat : ss[1] < ss[2]}, Nat)
  <2>1. OpToRel(<, Nat) = {ss \in Nat \X Nat : ss[1] < ss[2]}
    BY Zenon DEF OpToRel
  <2>2. QED
    BY <2>1, NatLessThanWellFounded
<1>2. PICK x \in T : \A y \in T : <<y, x>> \notin {ss \in Nat \X Nat : ss[1] < ss[2]}
  BY <1>1, WFMin
<1>3. ASSUME NEW y \in T, y < x PROVE FALSE
  <2>1. <<y, x>> \in Nat \X Nat /\ <<y, x>>[1] = y /\ <<y, x>>[2] = x
    OBVIOUS
  <2>2. QED
    BY <1>2, <1>3, <2>1
<1>4. QED
  BY <1>3

-----------------------------------------------------------------------------
(* Keys.  Digits is a recursive function on 0 .. n for every n; it has to  *)
(* be shown that such functions exist and do not depend on n.              *)

IsDigits(d, n) ==
  d = [k \in 0 .. n |-> IF k = 0 THEN << >> ELSE Append(d[k \div Radix], k % Radix)]

(* What the provers need to know of dividing by the radix.                 *)
LEMMA Division ==
  ASSUME NEW k \in Nat, k > 0
  PROVE  /\ k \div Radix \in 0 .. (k - 1)
         /\ k % Radix \in 0 .. (Radix - 1)
         /\ k = Radix * (k \div Radix) + (k % Radix)
  BY KeyAssumption

(* The equation of Digits, one number at a time.                           *)
LEMMA DigitsAt ==
  ASSUME NEW n \in Nat, NEW d, IsDigits(d, n), NEW k \in 0 .. n
  PROVE  d[k] = IF k = 0 THEN << >> ELSE Append(d[k \div Radix], k % Radix)
<1> DEFINE e == [i \in 0 .. n |-> IF i = 0 THEN << >> ELSE Append(d[i \div Radix], i % Radix)]
<1>1. d = e
  BY Zenon DEF IsDigits
<1>2. e[k] = IF k = 0 THEN << >> ELSE Append(d[k \div Radix], k % Radix)
  BY Zenon
<1> HIDE DEF e
<1>3. QED
  BY <1>1, <1>2, Zenon

(* Two tables of digits agree wherever both are defined.                   *)
LEMMA DigitsAgree ==
  ASSUME NEW m \in Nat, NEW n \in Nat, m <= n,
         NEW f, IsDigits(f, m), NEW g, IsDigits(g, n)
  PROVE  f[m] = g[m]
<1> DEFINE T == {k \in 0 .. m : f[k] # g[k]}
<1>1. T = {}
  <2> SUFFICES ASSUME T # {} PROVE FALSE
    OBVIOUS
  <2>1. PICK k \in T : \A j \in T : k <= j
    <3>1. T \subseteq Nat
      OBVIOUS
    <3> HIDE DEF T
    <3>2. QED
      BY <3>1, LeastElement
  <2>2. k \in 0 .. m /\ k \in 0 .. n /\ f[k] # g[k]
    BY <2>1
  <2>3. k # 0
    BY <2>2, DigitsAt
  <2>4. k \div Radix \in 0 .. (k - 1)
    BY <2>2, <2>3, Division
  <2>5. f[k \div Radix] = g[k \div Radix]
    BY <2>1, <2>2, <2>4
  <2>6. f[k] = Append(f[k \div Radix], k % Radix) /\ g[k] = Append(g[k \div Radix], k % Radix)
    BY <2>2, <2>3, DigitsAt
  <2>7. QED
    BY <2>2, <2>5, <2>6
<1>2. QED
  BY <1>1

(* There is a table of digits up to every number.                          *)
LEMMA DigitsExist == \A n \in Nat : \E d : IsDigits(d, n)
<1> DEFINE T == {n \in Nat : ~ \E d : IsDigits(d, n)}
<1>1. T = {}
  <2> SUFFICES ASSUME T # {} PROVE FALSE
    OBVIOUS
  <2>1. PICK n \in T : \A j \in T : n <= j
    BY LeastElement
  <2>2. n \in Nat /\ ~ \E d : IsDigits(d, n)
    BY <2>1
  <2>3. CASE n = 0
    <3>1. IsDigits([k \in 0 .. 0 |-> << >>], 0)
      BY DEF IsDigits
    <3>2. QED
      BY <2>2, <2>3, <3>1
  <2>4. CASE n > 0
    <3>1. n - 1 \in Nat /\ n - 1 \notin T
      BY <2>1, <2>2, <2>4
    <3>2. PICK d : IsDigits(d, n - 1)
      BY <3>1
    <3> DEFINE e == [k \in 0 .. n |-> IF k = n THEN Append(d[n \div Radix], n % Radix) ELSE d[k]]
    <3>3. \A k \in 0 .. n : e[k] = IF k = 0 THEN << >> ELSE Append(e[k \div Radix], k % Radix)
      <4> SUFFICES ASSUME NEW k \in 0 .. n
                   PROVE  e[k] = IF k = 0 THEN << >> ELSE Append(e[k \div Radix], k % Radix)
        OBVIOUS
      <4>1. CASE k = 0
        BY <2>4, <3>2, <4>1 DEF IsDigits
      <4>2. CASE k > 0
        <5>1. k \div Radix \in 0 .. (k - 1)
          BY <4>2, Division
        <5>2. e[k \div Radix] = d[k \div Radix]
          BY <5>1, <2>2
        <5>3. k # n => d[k] = Append(d[k \div Radix], k % Radix)
          <6>1. ASSUME k # n PROVE k \in 0 .. (n - 1)
            BY <2>2, <6>1
          <6>2. k # 0
            BY <4>2
          <6>3. QED
            BY <3>1, <3>2, <6>1, <6>2, DigitsAt, Zenon
        <5>4. QED
          BY <4>2, <5>2, <5>3
      <4>3. QED
        BY <4>1, <4>2
    <3>4. e = [k \in 0 .. n |-> e[k]]
      OBVIOUS
    <3> HIDE DEF e
    <3>5. IsDigits(e, n)
      BY <3>3, <3>4 DEF IsDigits
    <3>6. QED
      BY <2>2, <3>5
  <2>5. QED
    BY <2>2, <2>3, <2>4
<1>2. QED
  BY <1>1

(* big.Int.Bytes (chaindb.go:61): the last digit and the digits of the     *)
(* rest.                                                                   *)
LEMMA DigitsRecursion ==
  ASSUME NEW n \in Nat
  PROVE  Digits(n) = IF n = 0 THEN << >> ELSE Append(Digits(n \div Radix), n % Radix)
<1> DEFINE d(m) == CHOOSE f : IsDigits(f, m)
<1>1. \A m \in Nat : IsDigits(d(m), m)
  BY DigitsExist
<1>2. \A m \in Nat : Digits(m) = d(m)[m]
  BY DEF Digits, IsDigits
<1> HIDE DEF d
<1>3. CASE n = 0
  BY <1>1, <1>2, <1>3 DEF IsDigits
<1>4. CASE n > 0
  <2>1. n \div Radix \in 0 .. (n - 1)
    BY <1>4, Division
  <2>2. Digits(n) = Append(d(n)[n \div Radix], n % Radix)
    <3>1. n \in 0 .. n /\ n # 0
      BY <1>4
    <3>2. IsDigits(d(n), n)
      BY <1>1
    <3>3. QED
      BY <1>2, <3>1, <3>2, DigitsAt, Zenon
  <2>3. d(n \div Radix)[n \div Radix] = d(n)[n \div Radix]
    BY <1>1, <2>1, DigitsAgree
  <2>4. QED
    BY <1>2, <1>4, <2>1, <2>2, <2>3
<1>5. QED
  BY <1>3, <1>4

Digit == 0 .. (Radix - 1)

(* Digits are digits: every key is a sequence of bytes.                    *)
LEMMA DigitsType == \A n \in Nat : Digits(n) \in Seq(Digit)
<1> DEFINE T == {n \in Nat : Digits(n) \notin Seq(Digit)}
<1>1. T = {}
  <2> SUFFICES ASSUME T # {} PROVE FALSE
    OBVIOUS
  <2>1. PICK n \in T : \A j \in T : n <= j
    BY LeastElement
  <2>2. n \in Nat /\ Digits(n) \notin Seq(Digit)
    BY <2>1
  <2>3. n > 0
    <3>1. Digits(0) = << >>
      BY DigitsRecursion, Zenon
    <3>2. Digits(0) \in Seq(Digit)
      BY <3>1, EmptySeq
    <3>3. n # 0
      BY <2>2, <3>2, Zenon
    <3>4. QED
      BY <2>2, <3>3
  <2>4. n \div Radix \in Nat /\ n \div Radix < n /\ n % Radix \in Digit
    BY <2>2, <2>3, Division DEF Digit
  <2>5. Digits(n \div Radix) \in Seq(Digit)
    BY <2>1, <2>2, <2>4
  <2>6. Digits(n) = Append(Digits(n \div Radix), n % Radix)
    <3>1. n # 0
      BY <2>3
    <3>2. QED
      BY <2>2, <3>1, DigitsRecursion, Zenon
  <2>7. QED
    BY <2>2, <2>4, <2>5, <2>6, AppendProperties
<1>2. QED
  BY <1>1

(* What the last two lemmas say of a number that is not 0.                 *)
LEMMA DigitsStep ==
  ASSUME NEW n \in Nat, n > 0
  PROVE  /\ n \div Radix \in Nat /\ n \div Radix < n /\ n % Radix \in Digit
         /\ n = Radix * (n \div Radix) + (n % Radix)
         /\ Digits(n \div Radix) \in Seq(Digit)
         /\ Digits(n) = Append(Digits(n \div Radix), n % Radix)
         /\ Digits(n) # << >>
<1>1. /\ n \div Radix \in Nat /\ n \div Radix < n /\ n % Radix \in Digit
      /\ n = Radix * (n \div Radix) + (n % Radix)
  BY Division DEF Digit
<1>2. Digits(n) = Append(Digits(n \div Radix), n % Radix)
  <2>1. n # 0
    OBVIOUS
  <2>2. QED
    BY <2>1, DigitsRecursion, Zenon
<1>3. Digits(n \div Radix) \in Seq(Digit)
  BY <1>1, DigitsType
<1>4. QED
  BY <1>1, <1>2, <1>3, AppendProperties

(* The digits determine the last one and the rest.                         *)
LEMMA DigitsSplit ==
  ASSUME NEW n \in Nat, n > 0, NEW s \in Seq(Digit), NEW e \in Digit,
         Digits(n) = Append(s, e)
  PROVE  Digits(n \div Radix) = s /\ n % Radix = e
<1> DEFINE t == Digits(n \div Radix)
           f == n % Radix
<1>1. t \in Seq(Digit) /\ f \in Digit /\ Append(t, f) = Append(s, e)
  BY DigitsStep
<1> HIDE DEF t, f
<1>2. t = s /\ f = e
  BY <1>1, AppendInjective
<1>3. QED
  BY <1>2 DEF t, f

(* Numbers with the same digits are the same (chaindb.go:61).              *)
LEMMA DigitsInjective ==
  ASSUME NEW m \in Nat, NEW n \in Nat, Digits(m) = Digits(n)
  PROVE  m = n
<1> DEFINE T == {k \in Nat : \E j \in Nat : j # k /\ Digits(j) = Digits(k)}
<1>1. T = {}
  <2> SUFFICES ASSUME T # {} PROVE FALSE
    OBVIOUS
  <2>1. PICK k \in T : \A j \in T : k <= j
    BY LeastElement
  <2>2. PICK j \in Nat : j # k /\ Digits(j) = Digits(k)
    BY <2>1
  <2>3. k \in Nat /\ k < j
    BY <2>1, <2>2
  <2>4. j > 0 /\ Digits(j) # << >>
    BY <2>3, DigitsStep
  <2>5. k > 0
    <3>1. Digits(0) = << >>
      BY DigitsRecursion, Zenon
    <3>2. QED
      BY <2>2, <2>3, <2>4, <3>1
  <2>6. /\ Digits(k) = Append(Digits(k \div Radix), k % Radix)
        /\ k % Radix \in Digit /\ Digits(k \div Radix) \in Seq(Digit)
        /\ k \div Radix \in Nat /\ k \div Radix < k
        /\ k = Radix * (k \div Radix) + (k % Radix)
    BY <2>3, <2>5, DigitsStep
  <2>7. /\ Digits(j) = Append(Digits(j \div Radix), j % Radix)
        /\ j % Radix \in Digit /\ Digits(j \div Radix) \in Seq(Digit)
        /\ j \div Radix \in Nat
        /\ j = Radix * (j \div Radix) + (j % Radix)
    BY <2>2, <2>4, DigitsStep
  <2>8. k % Radix = j % Radix /\ Digits(k \div Radix) = Digits(j \div Radix)
    BY <2>2, <2>6, <2>7, AppendInjective
  <2>9. k \div Radix # j \div Radix
    BY <2>2, <2>6, <2>7, <2>8, Zenon
  <2>10. k \div Radix \in T
    BY <2>6, <2>7, <2>8, <2>9, Zenon
  <2>11. QED
    BY <2>1, <2>3, <2>6, <2>10
<1>2. QED
  BY <1>1

(* The digits of block n are those of batch i behind the tag only if n is  *)
(* beyond every number whose digits are the tag and one more.              *)
LEMMA TaggedDigits ==
  ASSUME NEW i \in Nat, NEW n \in Nat, Digits(n) = <<BatchTag>> \o Digits(i)
  PROVE  IF i = 0 THEN n = BatchTag ELSE n > BatchTag * Radix
<1> DEFINE P(k) == \A j \in Nat : Digits(j) = <<BatchTag>> \o Digits(k) =>
                     IF k = 0 THEN j = BatchTag ELSE j > BatchTag * Radix
           T == {k \in Nat : ~P(k)}
<1>0. BatchTag \in Digit /\ <<BatchTag>> \in Seq(Digit) /\ <<BatchTag>> # << >>
  BY KeyAssumption DEF Digit
<1>1. T = {}
  <2> SUFFICES ASSUME T # {} PROVE FALSE
    OBVIOUS
  <2>1. PICK k \in T : \A j \in T : k <= j
    BY LeastElement
  <2>2. PICK j \in Nat : /\ Digits(j) = <<BatchTag>> \o Digits(k)
                         /\ ~ IF k = 0 THEN j = BatchTag ELSE j > BatchTag * Radix
    BY <2>1
  <2>3. k \in Nat /\ Digits(k) \in Seq(Digit)
    BY <2>1, DigitsType
  <2>4. Digits(0) = << >>
    BY DigitsRecursion, Zenon
  <2>5. j > 0
    <3>1. Digits(j) # << >>
      BY <1>0, <2>2, <2>3, ConcatEqualIffEmpty
    <3>2. QED
      BY <2>4, <3>1
  <2>6. /\ Digits(j) = Append(Digits(j \div Radix), j % Radix)
        /\ j % Radix \in Digit /\ Digits(j \div Radix) \in Seq(Digit)
        /\ j \div Radix \in Nat
        /\ j = Radix * (j \div Radix) + (j % Radix)
    BY <2>2, <2>5, DigitsStep
  <2>7. CASE k = 0
    <3>1. Digits(j) = <<BatchTag>> \o << >>
      BY <2>2, <2>4, <2>7, Zenon
    <3>2. <<BatchTag>> \o << >> = Append(<< >>, BatchTag) /\ << >> \in Seq(Digit)
      BY <1>0, EmptySeq
    <3>3. Digits(j \div Radix) = << >> /\ j % Radix = BatchTag
      <4>1. Digits(j) = Append(<< >>, BatchTag)
        BY <3>1, <3>2, Zenon
      <4>2. QED
        BY <1>0, <2>5, <3>2, <4>1, DigitsSplit, Zenon
    <3>4. j \div Radix = 0
      BY <2>4, <2>6, <3>3, DigitsInjective
    <3>5. Radix * 0 + BatchTag = BatchTag
      BY KeyAssumption
    <3>6. QED
      BY <2>2, <2>6, <2>7, <3>3, <3>4, <3>5, Zenon
  <2>8. CASE k > 0
    <3>1. /\ Digits(k) = Append(Digits(k \div Radix), k % Radix)
          /\ k % Radix \in Digit /\ Digits(k \div Radix) \in Seq(Digit)
          /\ k \div Radix \in Nat /\ k \div Radix < k
          /\ k = Radix * (k \div Radix) + (k % Radix)
      BY <2>3, <2>8, DigitsStep
    <3>2. /\ <<BatchTag>> \o Digits(k \div Radix) \in Seq(Digit)
          /\ Digits(j) = Append(<<BatchTag>> \o Digits(k \div Radix), k % Radix)
      <4> DEFINE s == Digits(k \div Radix)
                 e == k % Radix
      <4>1. s \in Seq(Digit) /\ e \in Digit /\ <<e>> \in Seq(Digit)
        BY <3>1
      <4>2. Digits(j) = <<BatchTag>> \o Append(s, e)
        BY <2>2, <3>1
      <4> HIDE DEF s, e
      <4>3. Append(s, e) = s \o <<e>> /\ <<BatchTag>> \o s \in Seq(Digit)
        BY <1>0, <4>1, AppendIsConcat, ConcatProperties
      <4>4. <<BatchTag>> \o (s \o <<e>>) = (<<BatchTag>> \o s) \o <<e>>
        BY <1>0, <4>1, ConcatAssociative
      <4>5. (<<BatchTag>> \o s) \o <<e>> = Append(<<BatchTag>> \o s, e)
        BY <4>1, <4>3, AppendIsConcat
      <4>6. QED
        BY <4>2, <4>3, <4>4, <4>5 DEF s, e
    <3>3. /\ Digits(j \div Radix) = <<BatchTag>> \o Digits(k \div Radix)
          /\ j % Radix = k % Radix
      BY <2>5, <3>1, <3>2, DigitsSplit, Zenon
    <3>4. P(k \div Radix)
      <4>1. k \div Radix \notin T
        <5> HIDE DEF T
        <5>1. QED
          BY <2>1, <2>3, <3>1
      <4>2. QED
        BY <3>1, <4>1, Zenon
    <3>5. IF k \div Radix = 0 THEN j \div Radix = BatchTag
                             ELSE j \div Radix > BatchTag * Radix
      BY <2>6, <3>3, <3>4
    <3>6. ~(j > BatchTag * Radix)
      BY <2>2, <2>8
    <3> DEFINE q == j \div Radix
               r == j % Radix
               h == k \div Radix
               m == BatchTag * Radix
    <3>7. /\ q \in Nat /\ r \in Digit /\ h \in Nat
          /\ j = Radix * q + r /\ k = Radix * h + r
          /\ IF h = 0 THEN q = BatchTag ELSE q > m
      BY <2>6, <3>1, <3>3, <3>5
    <3>a. ~(j > m) /\ m \in Nat /\ m = Radix * BatchTag /\ m >= BatchTag
      BY <3>6, KeyAssumption
    <3> HIDE DEF q, r, h, m
    <3>8. CASE h = 0
      <4>1. r > 0 /\ j = m + r
        BY <2>8, <3>7, <3>8, <3>a, KeyAssumption DEF Digit
      <4>2. QED
        BY <3>7, <3>a, <4>1 DEF Digit
    <3>9. CASE h # 0
      <4>1. q >= BatchTag + 1
        <5>1. q \in Nat /\ q > m
          BY <3>7, <3>9
        <5>2. BatchTag \in Nat /\ m \in Nat /\ m >= BatchTag
          BY <3>a, KeyAssumption
        <5>3. QED
          BY <5>1, <5>2
      <4>2. Radix * q >= Radix * (BatchTag + 1)
        BY <3>7, <4>1, KeyAssumption
      <4>3. Radix * (BatchTag + 1) = m + Radix
        BY <3>a, KeyAssumption
      <4> DEFINE z == Radix * q
      <4>4. z \in Nat /\ z >= m + Radix /\ j = z + r
        <5>1. z \in Nat
          BY <3>7, KeyAssumption
        <5>2. j = z + r
          BY <3>7, Zenon
        <5>3. QED
          BY <4>2, <4>3, <5>1, <5>2, Zenon
      <4> HIDE DEF z
      <4>5. QED
        BY <3>7, <3>a, <4>4, KeyAssumption DEF Digit
    <3>10. QED
      BY <3>8, <3>9
  <2>9. QED
    BY <2>3, <2>7, <2>8
<1>2. QED
  BY <1>1

(* The bytes of keys.                                                      *)
Byte == {"b"} \cup Digit

(* Keys with the same prefix are equal only if their rests are.            *)
LEMMA PrefixCancels ==
  ASSUME NEW p \in Seq(Byte), NEW s \in Seq(Byte), NEW t \in Seq(Byte), p \o s = p \o t
  PROVE  s = t
<1>1. /\ Len(p \o s) = Len(p) + Len(s) /\ Len(p \o t) = Len(p) + Len(t)
      /\ Len(s) \in Nat /\ Len(t) \in Nat /\ Len(p) \in Nat
  BY ConcatProperties, LenProperties
<1>2. Len(s) = Len(t)
  BY <1>1
<1>3. ASSUME NEW i \in 1 .. Len(s) PROVE s[i] = t[i]
  <2>1. (p \o s)[Len(p) + i] = s[i] /\ (p \o t)[Len(p) + i] = t[i]
    BY <1>1, <1>2, <1>3
  <2>2. QED
    BY <2>1
<1>4. QED
  BY <1>2, <1>3, SeqEqual

(* Block and batch keys are sequences of bytes; a batch key is a block     *)
(* prefix followed by the batch tag and the digits.                        *)
LEMMA KeyTypes ==
  ASSUME NEW n \in Nat
  PROVE  /\ Digits(n) \in Seq(Byte)
         /\ <<"b">> \in Seq(Byte) /\ <<BatchTag>> \in Seq(Byte)
         /\ <<"b", BatchTag>> \in Seq(Byte)
         /\ BatchKey(n) = <<"b">> \o (<<BatchTag>> \o Digits(n))
         /\ <<BatchTag>> \o Digits(n) \in Seq(Byte)
<1>1. Digits(n) \in Seq(Byte)
  <2>1. Digits(n) \in Seq(Digit) /\ Digit \subseteq Byte
    BY DigitsType DEF Byte
  <2>2. QED
    BY <2>1, SeqMonotonic
<1>2. <<"b">> \in Seq(Byte) /\ <<BatchTag>> \in Seq(Byte) /\ <<"b", BatchTag>> \in Seq(Byte)
  BY KeyAssumption DEF Byte, Digit
<1>3. <<"b", BatchTag>> = <<"b">> \o <<BatchTag>>
  OBVIOUS
<1>4. BatchKey(n) = <<"b">> \o (<<BatchTag>> \o Digits(n))
  BY <1>1, <1>2, <1>3, ConcatAssociative DEF BatchKey
<1>5. QED
  BY <1>1, <1>2, <1>4, ConcatProperties

(* Different blocks have different keys, and so have different batches     *)
(* (chaindb.go:81, 232).                                                   *)
LEMMA BlockKeyInjective ==
  ASSUME NEW m \in Nat, NEW n \in Nat, BlockKey(m) = BlockKey(n)
  PROVE  m = n
  BY KeyTypes, PrefixCancels, DigitsInjective DEF BlockKey

(* Different batches have different keys (chaindb.go:232).                 *)
LEMMA BatchKeyInjective ==
  ASSUME NEW m \in Nat, NEW n \in Nat, BatchKey(m) = BatchKey(n)
  PROVE  m = n
  BY KeyTypes, PrefixCancels, DigitsInjective DEF BatchKey

(* The key of the latest batch is nobody else's (chaindb.go:46).           *)
LEMMA LatestKeyApart ==
  ASSUME NEW n \in Nat
  PROVE  BlockKey(n) # keyLatestBatch /\ BatchKey(n) # keyLatestBatch
<1>1. BlockKey(n)[1] = "b" /\ BatchKey(n)[1] = "b"
  BY KeyTypes, ConcatProperties DEF BlockKey, BatchKey
<1>2. QED
  BY <1>1 DEF keyLatestBatch

(* The keys of blocks and batches stay apart up to block BatchTag * Radix, *)
(* that is 29696, and no further (chaindb.go:20, 25).                      *)
THEOREM KeysApart ==
  /\ \A n \in 0 .. (BatchTag * Radix) : \A i \in Nat \ {0} : BlockKey(n) # BatchKey(i)
  /\ BatchTag > 0 => BlockKey(BatchTag * Radix + 1) = BatchKey(1)
<1>1. ASSUME NEW n \in 0 .. (BatchTag * Radix), NEW i \in Nat \ {0}, BlockKey(n) = BatchKey(i)
      PROVE  FALSE
  <2>0. BatchTag * Radix \in Nat /\ n \in Nat /\ ~(n > BatchTag * Radix)
    BY KeyAssumption
  <2>1. <<"b">> \o Digits(n) = <<"b">> \o (<<BatchTag>> \o Digits(i))
    BY <1>1, KeyTypes DEF BlockKey
  <2>2. Digits(n) = <<BatchTag>> \o Digits(i)
    BY <2>0, <2>1, KeyTypes, PrefixCancels
  <2>3. IF i = 0 THEN n = BatchTag ELSE n > BatchTag * Radix
    BY <2>0, <2>2, TaggedDigits
  <2>4. QED
    BY <2>0, <2>3
<1>2. ASSUME BatchTag > 0
      PROVE  BlockKey(BatchTag * Radix + 1) = BatchKey(1)
  <2> DEFINE m == BatchTag * Radix + 1
  <2>1. /\ m \in Nat /\ m > 0 /\ BatchTag \in Nat /\ BatchTag < Radix
        /\ m \div Radix = BatchTag /\ m % Radix = 1
        /\ BatchTag \div Radix = 0 /\ BatchTag % Radix = BatchTag
        /\ 1 \div Radix = 0 /\ 1 % Radix = 1
    <3>1. m \in Nat /\ m > 0 /\ BatchTag \in Nat /\ BatchTag < Radix
      BY <1>2, KeyAssumption
    <3>2. m \div Radix = BatchTag
      BY <1>2, KeyAssumption
    <3>3. m % Radix = 1
      <4>1. m = Radix * (m \div Radix) + (m % Radix)
        BY <3>1, Division
      <4>2. m = Radix * BatchTag + (m % Radix) /\ m % Radix \in Nat
        BY <3>1, <3>2, <4>1, Division
      <4> DEFINE z == Radix * BatchTag
                 r == m % Radix
      <4>3. z \in Nat /\ r \in Nat /\ m = z + 1 /\ m = z + r
        BY <4>2, KeyAssumption
      <4> HIDE DEF m, z, r
      <4>4. r = 1
        BY <4>3
      <4>5. QED
        BY <4>4 DEF r
    <3>4. BatchTag \div Radix = 0 /\ BatchTag % Radix = BatchTag
      BY KeyAssumption
    <3>5. 1 \div Radix = 0 /\ 1 % Radix = 1
      BY KeyAssumption
    <3>6. QED
      BY <3>1, <3>2, <3>3, <3>4, <3>5
  <2>2. Digits(0) = << >>
    BY DigitsRecursion, Zenon
  <2> HIDE DEF m
  <2>3. Digits(m) = Append(Digits(BatchTag), 1)
    BY <2>1, DigitsStep
  <2>4. Digits(BatchTag) = Append(Digits(0), BatchTag)
    BY <1>2, <2>1, DigitsStep
  <2>5. Digits(1) = Append(Digits(0), 1)
    <3>1. 1 \in Nat /\ 1 > 0
      OBVIOUS
    <3>2. Digits(1) = Append(Digits(1 \div Radix), 1 % Radix)
      BY <3>1, DigitsStep, Zenon
    <3>3. QED
      BY <2>1, <3>2, Zenon
  <2>6. <<"b">> \o Append(Append(<< >>, BatchTag), 1) = <<"b", BatchTag>> \o Append(<< >>, 1)
    OBVIOUS
  <2>7. QED
    BY <2>2, <2>3, <2>4, <2>5, <2>6 DEF BlockKey, BatchKey, m
<1>3. QED
  BY <1>1, <1>2

-----------------------------------------------------------------------------
(* What a block executes.                                                  *)

IsDone(d, trie, p, n) ==
  d = [i \in 0 .. n |->
         IF i = 0 THEN << >>
         ELSE IF trie.funded /\ p[i] \notin Elems(trie.txs)
              THEN Append(d[i - 1], p[i]) ELSE d[i - 1]]

(* The equation of the loop over a payload, one transaction at a time.     *)
LEMMA DoneAt ==
  ASSUME NEW trie, NEW p, NEW n \in Nat, NEW d, IsDone(d, trie, p, n), NEW i \in 0 .. n
  PROVE  /\ i = 0 => d[i] = << >>
         /\ i # 0 /\ trie.funded /\ p[i] \notin Elems(trie.txs) => d[i] = Append(d[i - 1], p[i])
         /\ i # 0 /\ ~(trie.funded /\ p[i] \notin Elems(trie.txs)) => d[i] = d[i - 1]
<1> DEFINE step(k) == IF k = 0 THEN << >>
                      ELSE IF trie.funded /\ p[k] \notin Elems(trie.txs)
                           THEN Append(d[k - 1], p[k]) ELSE d[k - 1]
           e == [k \in 0 .. n |-> step(k)]
<1>1. d = e
  BY Zenon DEF IsDone
<1> HIDE DEF step
<1>2. e[i] = step(i)
  BY Zenon
<1> HIDE DEF e
<1>3. QED
  BY <1>1, <1>2, Zenon DEF step

(* It starts with nothing.                                                 *)
LEMMA DoneStart ==
  ASSUME NEW trie, NEW p, NEW n \in Nat, NEW d, IsDone(d, trie, p, n)
  PROVE  d[0] = << >>
<1>1. 0 \in 0 .. n
  OBVIOUS
<1>2. QED
  BY <1>1, DoneAt

(* The loop over a payload can be run to every length.                     *)
LEMMA DoneExists ==
  ASSUME NEW trie, NEW p
  PROVE  \A n \in Nat : \E d : IsDone(d, trie, p, n)
<1> DEFINE T == {n \in Nat : ~ \E d : IsDone(d, trie, p, n)}
<1>1. T = {}
  <2> SUFFICES ASSUME T # {} PROVE FALSE
    OBVIOUS
  <2>1. PICK n \in T : \A j \in T : n <= j
    BY LeastElement
  <2>2. n \in Nat /\ ~ \E d : IsDone(d, trie, p, n)
    BY <2>1
  <2>3. CASE n = 0
    <3>1. IsDone([k \in 0 .. 0 |-> << >>], trie, p, 0)
      BY DEF IsDone
    <3>2. QED
      BY <2>2, <2>3, <3>1
  <2>4. CASE n > 0
    <3>1. n - 1 \in Nat /\ n - 1 \notin T
      BY <2>1, <2>2, <2>4
    <3>2. PICK d : IsDone(d, trie, p, n - 1)
      BY <3>1
    <3> DEFINE step(f, k) == IF k = 0 THEN << >>
                             ELSE IF trie.funded /\ p[k] \notin Elems(trie.txs)
                                  THEN Append(f[k - 1], p[k]) ELSE f[k - 1]
               e == [k \in 0 .. n |-> IF k = n THEN step(d, n) ELSE d[k]]
    <3>3. ASSUME NEW k \in 0 .. n PROVE e[k] = step(e, k)
      <4>1. CASE k = 0
        <5>1. 0 \in 0 .. (n - 1) /\ 0 # n
          BY <2>2, <2>4
        <5>2. d[0] = << >>
          <6> HIDE DEF T, step, e
          <6>1. QED
            BY <3>1, <3>2, DoneStart
        <5>3. QED
          BY <4>1, <5>1, <5>2
      <4>2. CASE k # 0
        <5>1. k - 1 \in 0 .. n /\ k - 1 # n
          BY <2>2, <4>2
        <5>2. e[k - 1] = d[k - 1]
          BY <5>1
        <5>3. k # n => k \in 0 .. (n - 1)
          BY <2>2
        <5>4. ASSUME k # n PROVE d[k] = step(d, k)
          <6>1. CASE trie.funded /\ p[k] \notin Elems(trie.txs)
            BY <3>1, <3>2, <4>2, <5>3, <5>4, <6>1, DoneAt
          <6>2. CASE ~(trie.funded /\ p[k] \notin Elems(trie.txs))
            BY <3>1, <3>2, <4>2, <5>3, <5>4, <6>2, DoneAt
          <6>3. QED
            BY <6>1, <6>2
        <5>5. e[k] = step(d, k)
          BY <5>4
        <5>6. QED
          BY <4>2, <5>2, <5>5
      <4>3. QED
        BY <4>1, <4>2
    <3>4. e = [k \in 0 .. n |-> e[k]]
      OBVIOUS
    <3> HIDE DEF e
    <3>5. e = [k \in 0 .. n |-> step(e, k)]
      BY <3>3, <3>4
    <3>6. IsDone(e, trie, p, n)
      BY <3>5, Zenon DEF IsDone
    <3>7. QED
      BY <2>2, <3>6
  <2>5. QED
    BY <2>2, <2>3, <2>4
<1>2. QED
  BY <1>1

(* A block holds transactions of its payload that the state it is executed *)
(* on does not hold yet (evm.go:124-128, by their nonces).                 *)
LEMMA ExecutesFresh ==
  ASSUME NEW trie, NEW p \in Seq(Tx)
  PROVE  /\ Executes(trie, p) \in Seq(Tx)
         /\ \A t \in Elems(Executes(trie, p)) : t \notin Elems(trie.txs)
<1> DEFINE d == CHOOSE f : IsDone(f, trie, p, Len(p))
           Good(s) == s \in Seq(Tx) /\ \A i \in 1 .. Len(s) : s[i] \notin Elems(trie.txs)
           T == {i \in 0 .. Len(p) : ~Good(d[i])}
<1>1. Len(p) \in Nat
  BY LenProperties
<1>2. IsDone(d, trie, p, Len(p))
  BY <1>1, DoneExists
<1>3. Executes(trie, p) = d[Len(p)]
  BY DEF Executes, IsDone
<1> HIDE DEF d
<1>4. T = {}
  <2> SUFFICES ASSUME T # {} PROVE FALSE
    OBVIOUS
  <2>1. T \subseteq Nat
    BY <1>1
  <2>2. PICK i \in T : \A j \in T : i <= j
    <3> HIDE DEF T
    <3>1. QED
      BY <2>1, LeastElement
  <2>3. i \in 0 .. Len(p) /\ ~Good(d[i])
    BY <2>2
  <2>4. i # 0
    <3>1. Good(<< >>)
      BY EmptySeq
    <3>2. d[0] = << >>
      <4>1. 0 \in 0 .. Len(p)
        BY <1>1
      <4> HIDE DEF T, Good
      <4>2. QED
        BY <1>1, <1>2, <4>1, DoneAt
    <3> HIDE DEF Good
    <3>3. QED
      BY <2>3, <3>1, <3>2
  <2>5. i \in 1 .. Len(p) /\ i - 1 \in 0 .. Len(p) /\ i - 1 \notin T
    <3>1. i \in 1 .. Len(p) /\ i - 1 \in 0 .. Len(p) /\ i - 1 < i
      BY <1>1, <2>3, <2>4
    <3> HIDE DEF T
    <3>2. QED
      BY <1>1, <2>2, <3>1
  <2>6. Good(d[i - 1])
    BY <2>5
  <2>7. p[i] \in Tx
    BY <2>5, ElementOfSeq
  <2>8. CASE trie.funded /\ p[i] \notin Elems(trie.txs)
    <3>1. d[i] = Append(d[i - 1], p[i])
      BY <1>1, <1>2, <2>3, <2>4, <2>8, DoneAt
    <3>2. Good(Append(d[i - 1], p[i]))
      BY <2>6, <2>7, <2>8, AppendProperties
    <3> HIDE DEF Good
    <3>3. QED
      BY <2>3, <3>1, <3>2
  <2>9. CASE ~(trie.funded /\ p[i] \notin Elems(trie.txs))
    <3>1. d[i] = d[i - 1]
      BY <1>1, <1>2, <2>3, <2>4, <2>9, DoneAt, Zenon
    <3> HIDE DEF Good
    <3>2. QED
      BY <2>3, <2>6, <3>1
  <2>10. QED
    BY <2>8, <2>9
<1>5. Good(d[Len(p)])
  <2>1. Len(p) \in 0 .. Len(p)
    BY <1>1
  <2> HIDE DEF Good
  <2>2. QED
    BY <1>4, <2>1
<1>6. QED
  BY <1>3, <1>5, LenProperties DEF Elems

-----------------------------------------------------------------------------
(* The inductive invariant, first the part that does not look into the     *)
(* records.                                                                *)

(* What is in memory before the node is up, and where it comes from.       *)
Memory ==
  /\ phase \in {"down", "genesis"} => currentBlock = 0 /\ stage = "idle"
  /\ phase = "down" => stateRoot = EmptyTrie
  /\ phase = "genesis" => stateRoot = GenesisTrie /\ genesisRoot = EmptyTrie
  /\ genesisRoot = EmptyTrie => head.number = 0 /\ phase \in {"down", "genesis"}
  /\ currentBlock = 0 => stateRoot.txs = << >>

(* The block under construction extends the tip with transactions that are *)
(* new to its state; from "write" on its trie is on disk.                  *)
BuildingSound ==
  stage # "idle" =>
    /\ building.number = currentBlock + 1 /\ building.number <= MaxBlocks
    /\ building.txs \in Seq(Tx) /\ building.root \in Trie
    /\ building.root.txs = stateRoot.txs \o building.txs
    /\ building.root.funded = stateRoot.funded
    /\ \A t \in Elems(building.txs) : t \notin Elems(stateRoot.txs)
    /\ stage \in {"write", "publish"} => building.root \in tries

(* The transaction index lists what the head's state holds.                *)
HeadSound ==
  /\ head.number = 0 => head.root = EmptyTrie
  /\ CanOpen(head.root) /\ CanOpen(stateRoot)
  /\ DOMAIN txIndex = Elems(head.root.txs)
  /\ \A t \in DOMAIN txIndex : txIndex[t] <= head.number

Staged == TypeOK /\ Memory /\ BuildingSound /\ HeadSound /\ TipAgrees

(* The two tries without transactions.                                     *)
LEMMA EmptyTries ==
  /\ EmptyTrie \in Trie /\ GenesisTrie \in Trie
  /\ EmptyTrie.txs = << >> /\ GenesisTrie.txs = << >>
  /\ EmptyTrie # GenesisTrie /\ Elems(<< >>) = {}
  BY EmptySeq DEF EmptyTrie, GenesisTrie, Trie, Elems

(* A node without a database starts out sound.                             *)
LEMMA InitStaged == Init => Staged
<1> SUFFICES ASSUME Init PROVE Staged
  OBVIOUS
<1>1. TypeOK
  BY EmptyTries, BoundAssumption DEF Init, TypeOK
<1>2. Memory
  BY EmptyTries DEF Init, Memory
<1>3. HeadSound
  BY EmptyTries DEF Init, HeadSound, CanOpen
<1>4. BuildingSound /\ TipAgrees
  BY DEF Init, BuildingSound, TipAgrees
<1>5. QED
  BY <1>1, <1>2, <1>3, <1>4 DEF Staged

(* NewManager (manager.go:49-125).                                         *)
LEMMA StartStaged == Staged /\ Start => Staged'
<1> SUFFICES ASSUME Staged, Start PROVE Staged'
  OBVIOUS
<1> USE DEF Staged
<1>1. CASE Restore
  <2>1. /\ phase = "down" /\ phase' = "up" /\ currentBlock' = head.number
        /\ stateRoot' = head.root /\ UNCHANGED <<diskVars, stage, building, crashes>>
        /\ genesisRoot # EmptyTrie /\ stage = "idle"
    BY <1>1 DEF Restore, Memory
  <2>2. TypeOK'
    BY <2>1 DEF TypeOK, diskVars
  <2>3. Memory'
    BY <2>1, EmptyTries DEF Memory, HeadSound, diskVars
  <2>4. HeadSound'
    BY <2>1 DEF HeadSound, CanOpen, diskVars
  <2>5. BuildingSound' /\ TipAgrees'
    BY <2>1 DEF BuildingSound, TipAgrees, diskVars
  <2>6. QED
    BY <2>2, <2>3, <2>4, <2>5
<1>2. CASE CommitGenesis
  <2>1. TypeOK'
    BY <1>2, EmptyTries DEF CommitGenesis, TypeOK
  <2>2. Memory'
    BY <1>2, EmptyTries DEF CommitGenesis, Memory
  <2>3. HeadSound'
    BY <1>2 DEF CommitGenesis, HeadSound, CanOpen
  <2>4. BuildingSound' /\ TipAgrees'
    BY <1>2 DEF CommitGenesis, BuildingSound, TipAgrees, Memory
  <2>5. QED
    BY <2>1, <2>2, <2>3, <2>4
<1>3. CASE WriteGenesisRoot
  <2>1. TypeOK'
    BY <1>3, EmptyTries DEF WriteGenesisRoot, TypeOK
  <2>2. Memory'
    BY <1>3, EmptyTries DEF WriteGenesisRoot, Memory
  <2>3. HeadSound'
    BY <1>3 DEF WriteGenesisRoot, HeadSound, CanOpen
  <2>4. BuildingSound' /\ TipAgrees'
    BY <1>3 DEF WriteGenesisRoot, BuildingSound, TipAgrees, Memory
  <2>5. QED
    BY <2>1, <2>2, <2>3, <2>4
<1>4. QED
  BY <1>1, <1>2, <1>3 DEF Start

(* ExecuteAndCommitBlock (manager.go:249-336).                             *)
LEMMA ExecuteStaged ==
  ASSUME Staged, NEW p \in Payloads, Execute(p)
  PROVE  Staged'
<1> USE DEF Staged
<1> DEFINE done == Executes(stateRoot, p)
<1>1. /\ phase = "up" /\ stage = "idle" /\ currentBlock < MaxBlocks /\ stage' = "commit"
      /\ UNCHANGED <<diskVars, phase, currentBlock, stateRoot, crashes>>
  BY DEF Execute
<1>2. done \in Seq(Tx) /\ \A t \in Elems(done) : t \notin Elems(stateRoot.txs)
  BY PayloadAssumption, ExecutesFresh
<1>3. stateRoot \in Trie /\ currentBlock \in Nat /\ MaxBlocks \in Nat
  BY BoundAssumption DEF TypeOK
<1> HIDE DEF done
<1>4. /\ building'.number = currentBlock + 1
      /\ building'.txs = done
      /\ building'.root = [stateRoot EXCEPT !.txs = @ \o done]
      /\ DOMAIN building' = {"number", "parent", "txs", "root", "hash"}
  BY DEF Execute, done
<1>5. /\ building'.root.txs = stateRoot.txs \o done
      /\ building'.root.funded = stateRoot.funded
      /\ building'.root \in Trie
  <2>1. stateRoot.txs \in Seq(Tx) /\ stateRoot.funded \in BOOLEAN
    BY <1>3 DEF Trie
  <2>2. stateRoot.txs \o done \in Seq(Tx)
    BY <1>2, <2>1, ConcatProperties
  <2>3. building'.root = [funded |-> stateRoot.funded, txs |-> stateRoot.txs \o done]
    BY <1>3, <1>4 DEF Trie
  <2>4. QED
    BY <2>1, <2>2, <2>3 DEF Trie
<1>6. building' # NoBlock
  <2>1. DOMAIN NoBlock = {}
    BY DEF NoBlock
  <2>2. QED
    BY <1>4, <2>1
<1>7. TypeOK'
  BY <1>1, <1>6 DEF TypeOK, diskVars
<1>8. BuildingSound'
  BY <1>1, <1>2, <1>3, <1>4, <1>5 DEF BuildingSound, diskVars
<1>9. Memory' /\ HeadSound' /\ TipAgrees'
  BY <1>1 DEF Memory, HeadSound, CanOpen, TipAgrees, diskVars
<1>10. QED
  BY <1>7, <1>8, <1>9

(* Committing the trie touches nothing anybody reads yet.                  *)
LEMMA CommitStaged == Staged /\ CommitState => Staged'
<1> SUFFICES ASSUME Staged, CommitState PROVE Staged'
  OBVIOUS
<1> USE DEF Staged, CommitState
<1>1. TypeOK'
  BY DEF TypeOK, BuildingSound
<1>2. Memory' /\ HeadSound' /\ TipAgrees'
  BY DEF Memory, HeadSound, CanOpen, TipAgrees
<1>3. BuildingSound'
  BY DEF BuildingSound
<1>4. QED
  BY <1>1, <1>2, <1>3

(* The transactions of two payloads together.                              *)
LEMMA ConcatElems ==
  ASSUME NEW s \in Seq(Tx), NEW u \in Seq(Tx)
  PROVE  Elems(s \o u) = Elems(s) \cup Elems(u)
<1>1. /\ Elems(s) = Range(s) /\ Elems(u) = Range(u) /\ Elems(s \o u) = Range(s \o u)
  BY DEF Elems, Range
<1>2. QED
  BY <1>1, RangeConcatenation

(* Before it is written, a block's state extends the head's.               *)
LEMMA BuildsOnHead ==
  ASSUME Staged, phase \in {"up", "closed"}, stage \in {"commit", "write"}
  PROVE  /\ building.number = head.number + 1
         /\ building.root.txs = head.root.txs \o building.txs
         /\ head.number > 0 => building.root.funded = head.root.funded
         /\ Elems(building.root.txs) = DOMAIN txIndex \cup Elems(building.txs)
         /\ \A t \in Elems(building.txs) : t \notin DOMAIN txIndex
<1> USE DEF Staged
<1>1. /\ currentBlock = head.number /\ building.number = currentBlock + 1
      /\ stateRoot \in Trie /\ currentBlock \in Nat
      /\ building.root.txs = stateRoot.txs \o building.txs
      /\ building.root.funded = stateRoot.funded /\ building.txs \in Seq(Tx)
      /\ \A t \in Elems(building.txs) : t \notin Elems(stateRoot.txs)
  <2>1. currentBlock = head.number
    BY DEF TipAgrees
  <2>2. stateRoot \in Trie /\ currentBlock \in Nat
    BY DEF TypeOK
  <2>3. /\ building.number = currentBlock + 1
        /\ building.root.txs = stateRoot.txs \o building.txs
        /\ building.root.funded = stateRoot.funded /\ building.txs \in Seq(Tx)
        /\ \A t \in Elems(building.txs) : t \notin Elems(stateRoot.txs)
    <3>1. stage # "idle"
      OBVIOUS
    <3>2. QED
      BY <3>1, Zenon DEF BuildingSound
  <2>4. QED
    BY <2>1, <2>2, <2>3
<1>2. stateRoot.txs = head.root.txs /\ (head.number > 0 => stateRoot = head.root)
  BY <1>1, EmptyTries DEF TipAgrees, HeadSound, Memory
<1>3. stateRoot.txs \in Seq(Tx)
  BY <1>1 DEF Trie
<1>4. Elems(building.root.txs) = Elems(stateRoot.txs) \cup Elems(building.txs)
  BY <1>1, <1>3, ConcatElems
<1>5. QED
  BY <1>1, <1>2, <1>4 DEF HeadSound

(* Writing the block moves the head to a state that has been committed.    *)
LEMMA WriteStaged == Staged /\ WriteBlock => Staged'
<1> SUFFICES ASSUME Staged, WriteBlock PROVE Staged'
  OBVIOUS
<1> USE DEF Staged
<1>1. /\ phase = "up" /\ stage = "write" /\ stage' = "publish"
      /\ head' = [number |-> building.number, root |-> building.root]
      /\ txIndex' = [t \in DOMAIN txIndex \cup Elems(building.txs) |->
                       IF t \in Elems(building.txs) THEN building.number ELSE txIndex[t]]
      /\ hashIndex' = Put(hashIndex, building.hash, building.number)
      /\ UNCHANGED <<tries, genesisRoot, phase, currentBlock, stateRoot, building, crashes>>
  BY DEF WriteBlock
<1>2. /\ building.number = head.number + 1 /\ building.number \in 1 .. MaxBlocks
      /\ Elems(building.root.txs) = DOMAIN txIndex \cup Elems(building.txs)
      /\ building.root \in Trie /\ building.root \in tries /\ building.txs \in Seq(Tx)
      /\ head.number \in Nat /\ currentBlock = head.number /\ MaxBlocks \in Nat
  <2>1. currentBlock = head.number
    BY <1>1 DEF TipAgrees
  <2>2. head.number \in Nat /\ MaxBlocks \in Nat
    BY BoundAssumption DEF TypeOK
  <2>3. /\ building.number <= MaxBlocks /\ building.txs \in Seq(Tx)
        /\ building.root \in Trie /\ building.root \in tries
    <3>1. stage # "idle" /\ stage \in {"write", "publish"}
      BY <1>1
    <3>2. QED
      BY <3>1, Zenon DEF BuildingSound
  <2>4. /\ building.number = head.number + 1
        /\ Elems(building.root.txs) = DOMAIN txIndex \cup Elems(building.txs)
    BY <1>1, BuildsOnHead
  <2>5. QED
    BY <2>1, <2>2, <2>3, <2>4
<1>3. TypeOK'
  <2>1. \A t \in DOMAIN txIndex' : t \in Tx /\ txIndex'[t] \in 1 .. MaxBlocks
    <3>1. Elems(building.txs) \subseteq Tx
      BY <1>2, ElementOfSeq, LenProperties DEF Elems
    <3>2. QED
      BY <1>1, <1>2, <3>1 DEF TypeOK
  <2>2. \A h \in DOMAIN hashIndex' : hashIndex'[h] \in 1 .. MaxBlocks
    BY <1>1, <1>2 DEF TypeOK, Put
  <2>3. QED
    <3>1. /\ head'.number \in 0 .. MaxBlocks /\ head'.root \in Trie
      BY <1>1, <1>2
    <3>2. QED
      BY <1>1, <2>1, <2>2, <3>1 DEF TypeOK
<1>4. Memory'
  BY <1>1, <1>2 DEF Memory
<1>5. HeadSound'
  <2>1. \A t \in DOMAIN txIndex' : txIndex'[t] <= head'.number
    <3>1. \A t \in DOMAIN txIndex : txIndex[t] \in Nat /\ txIndex[t] <= head.number
      BY DEF TypeOK, HeadSound
    <3>2. head'.number = head.number + 1
      BY <1>1, <1>2
    <3>3. QED
      BY <1>1, <1>2, <3>1, <3>2
  <2>2. QED
    <3>1. head'.number # 0 /\ head'.root = building.root
      BY <1>1, <1>2
    <3>2. DOMAIN txIndex' = Elems(building.root.txs)
      BY <1>1, <1>2
    <3>3. CanOpen(building.root)' /\ CanOpen(stateRoot)'
      BY <1>1, <1>2 DEF HeadSound, CanOpen
    <3>4. QED
      BY <1>1, <2>1, <3>1, <3>2, <3>3 DEF HeadSound, CanOpen
<1>6. BuildingSound' /\ TipAgrees'
  <2>1. BuildingSound'
    BY <1>1 DEF BuildingSound
  <2>2. TipAgrees'
    BY <1>1, <1>2 DEF TipAgrees
  <2>3. QED
    BY <2>1, <2>2
<1>7. QED
  BY <1>3, <1>4, <1>5, <1>6

(* Publishing brings memory to the head on disk.                           *)
LEMMA PublishStaged == Staged /\ Publish => Staged'
<1> SUFFICES ASSUME Staged, Publish PROVE Staged'
  OBVIOUS
<1> USE DEF Staged
<1>0. /\ stage = "publish" /\ stage' = "idle" /\ building' = NoBlock
      /\ currentBlock' = building.number /\ stateRoot' = building.root
      /\ UNCHANGED <<diskVars, phase, crashes>>
  BY DEF Publish
<1>1. /\ phase \in {"up", "closed"}
      /\ head.number = building.number /\ head.root = building.root
      /\ building.number \in 1 .. MaxBlocks /\ building.root \in Trie
  BY <1>0, BoundAssumption DEF TypeOK, Memory, BuildingSound, TipAgrees
<1>2. TypeOK'
  BY <1>0, <1>1 DEF TypeOK, diskVars
<1>3. Memory'
  BY <1>0, <1>1, EmptyTries DEF Memory, diskVars
<1>4. HeadSound'
  BY <1>0, <1>1 DEF HeadSound, CanOpen, diskVars
<1>5. BuildingSound' /\ TipAgrees'
  BY <1>0, <1>1 DEF BuildingSound, TipAgrees, diskVars
<1>6. QED
  BY <1>2, <1>3, <1>4, <1>5

(* An error, a batch record, a crash, a shutdown: the disk keeps what it   *)
(* has (manager.go:281, 327, 415, 435).                                    *)
LEMMA AbandonStaged == Staged /\ Abandon => Staged'
<1> SUFFICES ASSUME Staged, Abandon PROVE Staged'
  OBVIOUS
<1> USE DEF Staged, Abandon, diskVars
<1>1. TypeOK' /\ Memory'
  BY DEF TypeOK, Memory
<1>2. HeadSound' /\ BuildingSound' /\ TipAgrees'
  BY DEF HeadSound, CanOpen, BuildingSound, TipAgrees
<1>3. QED
  BY <1>1, <1>2

(* Batch records do not concern the head.                                  *)
LEMMA AddBatchStaged ==
  ASSUME Staged, NEW b, AddBatch(b)
  PROVE  Staged'
<1> USE DEF Staged, AddBatch, memVars
<1>1. TypeOK' /\ Memory'
  BY DEF TypeOK, Memory
<1>2. HeadSound' /\ BuildingSound' /\ TipAgrees'
  BY DEF HeadSound, CanOpen, BuildingSound, TipAgrees
<1>3. QED
  BY <1>1, <1>2

(* Stopping loses memory and keeps the disk.                               *)
LEMMA StopStaged == Staged /\ (Crash \/ Exit \/ Close) => Staged'
<1> SUFFICES ASSUME Staged, Crash \/ Exit \/ Close PROVE Staged'
  OBVIOUS
<1> USE DEF Staged, diskVars
<1>1. CASE Crash \/ Exit
  <2>1. /\ phase' = "down" /\ currentBlock' = 0 /\ stateRoot' = EmptyTrie
        /\ stage' = "idle" /\ building' = NoBlock /\ crashes' \in 0 .. MaxCrashes
        /\ UNCHANGED diskVars
    BY <1>1, BoundAssumption DEF Crash, Exit, TypeOK
  <2>2. TypeOK'
    BY <2>1, EmptyTries, BoundAssumption DEF TypeOK
  <2>3. Memory'
    BY <2>1, EmptyTries DEF Memory
  <2>4. HeadSound' /\ BuildingSound' /\ TipAgrees'
    BY <2>1 DEF HeadSound, CanOpen, BuildingSound, TipAgrees
  <2>5. QED
    BY <2>2, <2>3, <2>4
<1>2. CASE Close
  <2>1. TypeOK' /\ Memory'
    BY <1>2, BoundAssumption DEF Close, TypeOK, Memory
  <2>2. HeadSound' /\ BuildingSound' /\ TipAgrees'
    BY <1>2 DEF Close, HeadSound, CanOpen, BuildingSound, TipAgrees
  <2>3. QED
    BY <2>1, <2>2
<1>3. QED
  BY <1>1, <1>2

(* Staged depends on the variables alone.                                  *)
LEMMA StutterStaged == Staged /\ UNCHANGED vars => Staged'
  BY DEF Staged, TypeOK, Memory, HeadSound, CanOpen, BuildingSound, TipAgrees,
         vars, diskVars, memVars

(* Every step keeps the invariant about memory and the head on disk.       *)
LEMMA NextStaged == Staged /\ [Next]_vars => Staged'
<1> SUFFICES ASSUME Staged, [Next]_vars PROVE Staged'
  OBVIOUS
<1>1. CASE Start
  BY <1>1, StartStaged
<1>2. CASE Produce
  BY <1>2, ExecuteStaged, CommitStaged, WriteStaged, PublishStaged DEF Produce
<1>3. CASE Abandon \/ Crash \/ Close \/ Exit
  BY <1>3, AbandonStaged, StopStaged
<1>4. CASE \E i \in 1 .. MaxBatches : AddBatch([index |-> i])
  BY <1>4, AddBatchStaged
<1>5. CASE UNCHANGED vars
  BY <1>5, StutterStaged
<1>6. QED
  BY <1>1, <1>2, <1>3, <1>4, <1>5 DEF Next

(* It therefore always holds.                                              *)
LEMMA SpecStaged == Spec => []Staged
<1>1. Init => Staged
  BY InitStaged
<1>2. Staged /\ [Next]_vars => Staged'
  BY NextStaged
<1>3. QED
  BY <1>1, <1>2, PTL DEF Spec

(* Every reachable state is well typed, however keys collide.              *)
THEOREM TypeCorrect == Spec => []TypeOK
<1>1. Staged => TypeOK
  BY DEF Staged
<1>2. QED
  BY <1>1, SpecStaged, PTL

(* While a node is up or shutting down, its tip and state root are those   *)
(* of the head on disk, or of the block before it in the last stage of     *)
(* ExecuteAndCommitBlock (manager.go:327-336).                             *)
THEOREM MemoryFollowsDisk == Spec => []TipAgrees
<1>1. Staged => TipAgrees
  BY DEF Staged
<1>2. QED
  BY <1>1, SpecStaged, PTL

-----------------------------------------------------------------------------
(* The records.  What follows holds for chains of at most BatchTag * Radix *)
(* blocks; KeysApart shows why not for longer ones.                        *)

ShortChain == MaxBlocks <= BatchTag * Radix

Linked ==
  /\ ChainIntact /\ StatesAvailable /\ TxIndexExact
  /\ head.number > 0 => head.root = Block(head.number).root
  /\ stage # "idle" =>
       \A n \in Nat : building.number = n + 1 => building.parent = ReadBlockHash(n)

(* No record of a block of the chain changes.                              *)
Kept ==
  \A n \in 0 .. head.number :
    /\ BlockKey(n) \in DOMAIN records' <=> BlockKey(n) \in DOMAIN records
    /\ BlockKey(n) \in DOMAIN records => records'[BlockKey(n)] = records[BlockKey(n)]

(* A batch record does not touch a block (chaindb.go:232-241).             *)
LEMMA AddBatchKeeps ==
  ASSUME ShortChain, TypeOK, NEW b, b.index \in Nat \ {0}, AddBatch(b)
  PROVE  Kept
<1> SUFFICES ASSUME NEW n \in 0 .. head.number
             PROVE  /\ BlockKey(n) \in DOMAIN records' <=> BlockKey(n) \in DOMAIN records
                    /\ BlockKey(n) \in DOMAIN records => records'[BlockKey(n)] = records[BlockKey(n)]
  BY DEF Kept
<1>1. n \in Nat /\ n \in 0 .. (BatchTag * Radix)
  BY KeyAssumption, BoundAssumption DEF ShortChain, TypeOK
<1>2. BlockKey(n) # BatchKey(b.index) /\ BlockKey(n) # keyLatestBatch
  BY <1>1, KeysApart, LatestKeyApart
<1>3. \/ records' = Put(Put(records, BatchKey(b.index), b), keyLatestBatch, b.index)
      \/ records' = records
  BY DEF AddBatch
<1> HIDE DEF BlockKey, BatchKey, keyLatestBatch
<1>4. QED
  BY <1>2, <1>3 DEF Put

(* The next block is written under a key of its own (chaindb.go:72-118).   *)
LEMMA WriteKeeps == Staged /\ WriteBlock => Kept
<1> SUFFICES ASSUME Staged, WriteBlock, NEW n \in 0 .. head.number
             PROVE  /\ BlockKey(n) \in DOMAIN records' <=> BlockKey(n) \in DOMAIN records
                    /\ BlockKey(n) \in DOMAIN records => records'[BlockKey(n)] = records[BlockKey(n)]
  BY DEF Kept
<1>1. /\ phase = "up" /\ stage = "write"
      /\ records' = Put(records, BlockKey(building.number), building)
  BY DEF WriteBlock
<1>2. head.number \in Nat /\ building.number = head.number + 1
  <2>1. head.number \in Nat
    BY DEF Staged, TypeOK
  <2>2. phase \in {"up", "closed"} /\ stage \in {"commit", "write"}
    BY <1>1
  <2>3. building.number = head.number + 1
    BY <2>2, BuildsOnHead
  <2>4. QED
    BY <2>1, <2>3
<1>3. n \in Nat /\ building.number \in Nat /\ n # building.number
  BY <1>2
<1>4. BlockKey(n) # BlockKey(building.number)
  BY <1>3, BlockKeyInjective
<1> HIDE DEF BlockKey
<1>5. QED
  BY <1>1, <1>4 DEF Put

(* No step writes a block of the chain again.                              *)
LEMMA NextKeeps ==
  ASSUME ShortChain, Staged, [Next]_vars
  PROVE  Kept
<1>1. CASE WriteBlock
  BY <1>1, WriteKeeps
<1>2. CASE \E i \in 1 .. MaxBatches : AddBatch([index |-> i])
  <2>1. PICK i \in 1 .. MaxBatches : AddBatch([index |-> i])
    BY <1>2
  <2>2. i \in Nat \ {0} /\ [index |-> i].index = i
    OBVIOUS
  <2>3. QED
    BY <2>1, <2>2, AddBatchKeeps DEF Staged
<1>3. CASE records' = records
  BY <1>3 DEF Kept
<1>4. QED
  BY <1>1, <1>2, <1>3
     DEF Next, Start, Produce, Restore, CommitGenesis, WriteGenesisRoot, Execute, CommitState,
         Publish, Abandon, Crash, Close, Exit, vars, diskVars

(* Kept records keep the chain up to the old head linked.                  *)
LEMMA KeptBlocks ==
  ASSUME Staged, Linked, Kept
  PROVE  /\ head.number \in Nat
         /\ \A n \in 0 .. head.number : ReadBlockHash(n)' = ReadBlockHash(n)
         /\ \A n \in 1 .. head.number :
              /\ HasBlock(n)' /\ Block(n)' = Block(n)
              /\ Block(n)'.number = n
              /\ Block(n)'.parent = ReadBlockHash(n - 1)'
              /\ Block(n)'.root.txs
                   = (IF n = 1 THEN << >> ELSE Block(n - 1)'.root.txs) \o Block(n)'.txs
              /\ n > 1 => Block(n)'.root.funded = Block(n - 1)'.root.funded
<1>1. head.number \in Nat
  BY DEF Staged, TypeOK
<1>2. \A n \in 0 .. head.number :
        /\ HasBlock(n)' <=> HasBlock(n)
        /\ ReadBlockHash(n)' = ReadBlockHash(n)
        /\ HasBlock(n) => Block(n)' = Block(n)
  <2> HIDE DEF BlockKey
  <2>1. QED
    BY DEF Kept, HasBlock, Block, ReadBlockHash
<1>3. \A n \in 1 .. head.number :
        /\ HasBlock(n) /\ HasBlock(n)' /\ Block(n)' = Block(n)
        /\ n > 1 => Block(n - 1)' = Block(n - 1)
        /\ ReadBlockHash(n - 1)' = ReadBlockHash(n - 1)
  <2> SUFFICES ASSUME NEW n \in 1 .. head.number
               PROVE  /\ HasBlock(n) /\ HasBlock(n)' /\ Block(n)' = Block(n)
                      /\ n > 1 => Block(n - 1)' = Block(n - 1)
                      /\ ReadBlockHash(n - 1)' = ReadBlockHash(n - 1)
    OBVIOUS
  <2>1. n \in 0 .. head.number /\ n - 1 \in 0 .. head.number /\ (n > 1 => n - 1 \in 1 .. head.number)
    BY <1>1
  <2>2. HasBlock(n) /\ (n > 1 => HasBlock(n - 1))
    BY <2>1 DEF Linked, ChainIntact
  <2>3. QED
    BY <1>2, <2>1, <2>2
<1> HIDE DEF HasBlock, Block, ReadBlockHash
<1>4. ASSUME NEW n \in 1 .. head.number
      PROVE  /\ HasBlock(n)' /\ Block(n)' = Block(n)
             /\ Block(n)'.number = n
             /\ Block(n)'.parent = ReadBlockHash(n - 1)'
             /\ Block(n)'.root.txs
                  = (IF n = 1 THEN << >> ELSE Block(n - 1)'.root.txs) \o Block(n)'.txs
             /\ n > 1 => Block(n)'.root.funded = Block(n - 1)'.root.funded
  <2>1. /\ HasBlock(n) /\ Block(n).number = n
        /\ Block(n).parent = ReadBlockHash(n - 1)
        /\ Block(n).root.txs
             = (IF n = 1 THEN << >> ELSE Block(n - 1).root.txs) \o Block(n).txs
        /\ n > 1 => Block(n).root.funded = Block(n - 1).root.funded
    BY DEF Linked, ChainIntact
  <2>2. n = 1 \/ n > 1
    BY <1>1
  <2>3. QED
    BY <1>3, <2>1, <2>2
<1>5. QED
  BY <1>1, <1>2, <1>4

(* Whatever leaves head and index alone and keeps the records keeps the    *)
(* chain linked.                                                           *)
LEMMA KeptLinked ==
  ASSUME Staged, Linked, Staged', Kept, head' = head, txIndex' = txIndex, tries \subseteq tries',
         stage' # "idle" => \/ stage # "idle" /\ building' = building
                            \/ /\ building'.number = head.number + 1
                               /\ building'.parent = ReadBlockHash(head.number)
  PROVE  Linked'
<1>1. head.number \in Nat
  BY KeptBlocks
<1>2. \A n \in 0 .. head.number : ReadBlockHash(n)' = ReadBlockHash(n)
  BY KeptBlocks
<1>3. \A n \in 1 .. head.number : Block(n)' = Block(n)
  BY KeptBlocks
<1> HIDE DEF HasBlock, Block, ReadBlockHash
<1>4. ChainIntact'
  BY KeptBlocks DEF ChainIntact
<1>5. StatesAvailable'
  <2>1. \A r : CanOpen(r) => CanOpen(r)'
    BY DEF CanOpen
  <2>2. CanOpen(head.root)' /\ CanOpen(stateRoot)'
    BY DEF Staged, HeadSound
  <2>3. \A n \in 1 .. head.number : CanOpen(Block(n).root)
    BY DEF Linked, StatesAvailable
  <2> HIDE DEF CanOpen
  <2>4. \A n \in 1 .. head'.number : CanOpen(Block(n).root)'
    BY <1>3, <2>1, <2>3 DEF CanOpen
  <2>5. QED
    BY <2>2, <2>4 DEF StatesAvailable
<1>6. TxIndexExact'
  <2>1. TxIndexExact
    BY DEF Linked
  <2>2. QED
    BY <1>3, <2>1 DEF TxIndexExact, ReadTxBlockNumber
<1>7. (head.number > 0 => head.root = Block(head.number).root)'
  <2>1. head.number > 0 => head.number \in 1 .. head.number /\ head.root = Block(head.number).root
    BY <1>1 DEF Linked
  <2>2. QED
    BY <1>3, <2>1
<1>8. (stage # "idle" =>
         \A n \in Nat : building.number = n + 1 => building.parent = ReadBlockHash(n))'
  <2> SUFFICES ASSUME stage' # "idle", NEW n \in Nat, building'.number = n + 1
               PROVE  building'.parent = ReadBlockHash(n)'
    OBVIOUS
  <2>1. CASE stage # "idle" /\ building' = building
    <3>1. building.parent = ReadBlockHash(n)
      BY <2>1 DEF Linked
    <3>2. building.number = currentBlock + 1 /\ currentBlock \in Nat
      <4>1. building.number = currentBlock + 1
        BY <2>1, Zenon DEF Staged, BuildingSound
      <4>2. currentBlock \in Nat
        BY DEF Staged, TypeOK
      <4>3. QED
        BY <4>1, <4>2
    <3>3. currentBlock <= head.number
      BY <1>1, <2>1 DEF Staged, TipAgrees, Memory, TypeOK
    <3>4. n \in 0 .. head.number
      BY <1>1, <2>1, <3>2, <3>3
    <3>5. QED
      BY <1>2, <2>1, <3>1, <3>4
  <2>2. CASE building'.number = head.number + 1 /\ building'.parent = ReadBlockHash(head.number)
    <3>1. n = head.number /\ n \in 0 .. head.number
      BY <1>1, <2>2
    <3>2. QED
      BY <1>2, <2>2, <3>1
  <2>3. QED
    BY <2>1, <2>2
<1>9. QED
  BY <1>4, <1>5, <1>6, <1>7, <1>8 DEF Linked

(* The block written last extends the chain by one and is indexed.         *)
LEMMA WriteLinked ==
  ASSUME Staged, Linked, Staged', WriteBlock
  PROVE  Linked'
<1>1. /\ phase = "up" /\ stage = "write"
      /\ head' = [number |-> building.number, root |-> building.root]
      /\ records' = Put(records, BlockKey(building.number), building)
      /\ txIndex' = [t \in DOMAIN txIndex \cup Elems(building.txs) |->
                       IF t \in Elems(building.txs) THEN building.number ELSE txIndex[t]]
      /\ UNCHANGED <<tries, building>>
  BY DEF WriteBlock
<1>n. PICK N : N = head.number + 1
  OBVIOUS
<1>2. /\ head.number \in Nat /\ building.number = N
      /\ building.root.txs = head.root.txs \o building.txs
      /\ head.number > 0 => building.root.funded = head.root.funded
      /\ \A t \in Elems(building.txs) : t \notin DOMAIN txIndex
  <2>1. phase \in {"up", "closed"} /\ stage \in {"commit", "write"}
    BY <1>1
  <2>2. head.number \in Nat
    BY DEF Staged, TypeOK
  <2>3. QED
    BY <1>n, <2>1, <2>2, BuildsOnHead
<1>3. head'.number = N /\ head'.root = building.root
  BY <1>1, <1>2
<1>4. Kept
  BY WriteKeeps
<1>5. HasBlock(N)' /\ Block(N)' = building
  <2> HIDE DEF BlockKey
  <2>1. QED
    BY <1>1, <1>2 DEF HasBlock, Block, Put
<1>6. building.parent = ReadBlockHash(head.number)
  <2>1. stage # "idle"
    BY <1>1
  <2>2. QED
    BY <1>n, <1>2, <2>1 DEF Linked
<1>7. N \in Nat /\ N - 1 = head.number /\ head.number \in 0 .. head.number
      /\ (N = 1 <=> head.number = 0) /\ (N > 1 <=> head.number > 0)
  BY <1>n, <1>2
<1>8. \A n \in 1 .. head'.number : n \in 1 .. head.number \/ n = N
  BY <1>n, <1>2, <1>3
<1> HIDE DEF HasBlock, Block, ReadBlockHash
<1>9. ChainIntact'
  <2>1. /\ HasBlock(N)' /\ Block(N)'.number = N
        /\ Block(N)'.parent = ReadBlockHash(N - 1)'
        /\ Block(N)'.root.txs
             = (IF N = 1 THEN << >> ELSE Block(N - 1)'.root.txs) \o Block(N)'.txs
        /\ N > 1 => Block(N)'.root.funded = Block(N - 1)'.root.funded
    <3>1. HasBlock(N)' /\ Block(N)'.number = N
      BY <1>2, <1>5
    <3>2. Block(N)'.parent = ReadBlockHash(N - 1)'
      BY <1>4, <1>5, <1>6, <1>7, KeptBlocks
    <3>3. CASE head.number = 0
      <4>1. head.root.txs = << >>
        BY <3>3, EmptyTries DEF Staged, HeadSound
      <4>2. building.root.txs = << >> \o building.txs
        BY <1>2, <4>1
      <4>3. N = 1 /\ ~(N > 1) /\ Block(N)' = building
        BY <1>5, <1>7, <3>3
      <4>4. QED
        BY <3>1, <3>2, <4>2, <4>3
    <3>4. CASE head.number > 0
      <4>1. head.number \in 1 .. head.number
        BY <1>2, <3>4
      <4>2. Block(N - 1)'.root = head.root
        BY <1>4, <1>7, <3>4, <4>1, KeptBlocks DEF Linked
      <4>3. /\ building.root.txs = Block(N - 1)'.root.txs \o building.txs
            /\ building.root.funded = Block(N - 1)'.root.funded
        BY <1>2, <3>4, <4>2
      <4>4. N # 1 /\ Block(N)' = building
        BY <1>2, <1>5, <1>7, <3>4
      <4>5. QED
        BY <3>1, <3>2, <4>3, <4>4
    <3>5. head.number = 0 \/ head.number > 0
      BY <1>2
    <3>6. QED
      BY <3>3, <3>4, <3>5
  <2>2. QED
    BY <1>4, <1>8, <2>1, KeptBlocks DEF ChainIntact
<1>10. StatesAvailable'
  <2>1. CanOpen(head.root)' /\ CanOpen(stateRoot)'
    BY DEF Staged, HeadSound
  <2>2. \A n \in 1 .. head.number : CanOpen(Block(n).root) /\ Block(n)' = Block(n)
    BY <1>4, KeptBlocks DEF Linked, StatesAvailable
  <2>3. ASSUME NEW n \in 1 .. head'.number PROVE CanOpen(Block(n).root)'
    <3>1. CASE n \in 1 .. head.number
      BY <1>1, <2>2, <3>1 DEF CanOpen
    <3>2. CASE n = N
      BY <1>3, <1>5, <2>1, <3>2 DEF CanOpen
    <3>3. QED
      BY <1>8, <3>1, <3>2
  <2>4. QED
    BY <2>1, <2>3 DEF StatesAvailable
<1>11. TxIndexExact'
  <2> SUFFICES ASSUME NEW t \in Tx
               PROVE  /\ ReadTxBlockNumber(t)' <= head'.number
                      /\ \A k \in 1 .. head'.number :
                           t \in Elems(Block(k)'.txs) <=> k = ReadTxBlockNumber(t)'
    BY DEF TxIndexExact, Elems
  <2>1. /\ ReadTxBlockNumber(t) <= head.number
        /\ \A k \in 1 .. head.number :
             t \in Elems(Block(k).txs) <=> k = ReadTxBlockNumber(t)
    BY DEF Linked, TxIndexExact
  <2>2. ReadTxBlockNumber(t) \in Nat
    BY BoundAssumption DEF Staged, TypeOK, ReadTxBlockNumber
  <2>3. \A k \in 1 .. head.number : Block(k)' = Block(k) /\ k # N
    <3>1. \A k \in 1 .. head.number : Block(k)' = Block(k)
      BY <1>4, KeptBlocks
    <3>2. \A k \in 1 .. head.number : k # N
      BY <1>n, <1>2
    <3>3. QED
      BY <3>1, <3>2
  <2>4. CASE t \in Elems(building.txs)
    <3>1. ReadTxBlockNumber(t)' = N /\ ReadTxBlockNumber(t) = 0
      BY <1>1, <1>2, <2>4 DEF ReadTxBlockNumber
    <3>2. \A k \in 1 .. head.number : t \notin Elems(Block(k)'.txs)
      BY <2>1, <2>3, <3>1
    <3>3. t \in Elems(Block(N)'.txs)
      BY <1>5, <2>4
    <3>4. QED
      BY <1>3, <1>7, <1>8, <2>3, <3>1, <3>2, <3>3
  <2>5. CASE t \notin Elems(building.txs)
    <3>1. ReadTxBlockNumber(t)' = ReadTxBlockNumber(t)
      BY <1>1, <2>5 DEF ReadTxBlockNumber
    <3>2. t \notin Elems(Block(N)'.txs)
      BY <1>5, <2>5
    <3>3. ReadTxBlockNumber(t) # N /\ ReadTxBlockNumber(t) <= N
      BY <1>n, <1>2, <2>1, <2>2
    <3>4. QED
      BY <1>3, <1>8, <2>1, <2>3, <3>1, <3>2, <3>3
  <2>6. QED
    BY <2>4, <2>5
<1>12. (head.number > 0 => head.root = Block(head.number).root)'
  BY <1>3, <1>5
<1>13. (stage # "idle" =>
          \A n \in Nat : building.number = n + 1 => building.parent = ReadBlockHash(n))'
  <2> SUFFICES ASSUME NEW n \in Nat, building'.number = n + 1
               PROVE  building'.parent = ReadBlockHash(n)'
    OBVIOUS
  <2>1. n = head.number /\ building' = building
    BY <1>n, <1>1, <1>2
  <2>2. QED
    BY <1>4, <1>6, <1>7, <2>1, KeptBlocks
<1>14. QED
  BY <1>9, <1>10, <1>11, <1>12, <1>13 DEF Linked


(* Every other step leaves head, index and records alone.                  *)
LEMMA NextLinked ==
  ASSUME ShortChain, Staged, Linked, [Next]_vars
  PROVE  Linked'
<1>1. Staged' /\ Kept
  BY NextStaged, NextKeeps
<1>2. CASE WriteBlock
  BY <1>1, <1>2, WriteLinked
<1>3. CASE \E p \in Payloads : Execute(p)
  <2>1. /\ phase = "up" /\ stage = "idle"
        /\ building'.number = currentBlock + 1
        /\ building'.parent = ReadBlockHash((currentBlock + 1) - 1)
        /\ UNCHANGED diskVars
    <3> HIDE DEF ReadBlockHash, Executes, computeBlockHash, CanOpen
    <3>1. PICK p \in Payloads : Execute(p)
      BY <1>3
    <3>2. /\ phase = "up" /\ stage = "idle" /\ UNCHANGED diskVars
      BY <3>1 DEF Execute
    <3>3. building'.number = currentBlock + 1
      BY <3>1 DEF Execute
    <3>4. building'.parent = ReadBlockHash((currentBlock + 1) - 1)
      BY <3>1 DEF Execute
    <3>5. QED
      BY <3>2, <3>3, <3>4
  <2>2. currentBlock = head.number /\ head.number \in Nat
    BY <2>1 DEF Staged, TipAgrees, TypeOK
  <2>3. (currentBlock + 1) - 1 = head.number
    BY <2>2
  <2>4. building'.number = head.number + 1 /\ building'.parent = ReadBlockHash(head.number)
    BY <2>1, <2>2, <2>3, Zenon
  <2>5. QED
    BY <1>1, <2>1, <2>4, KeptLinked DEF diskVars
<1>4. CASE \/ Start \/ CommitState \/ Publish \/ Abandon \/ Crash \/ Close \/ Exit
           \/ \E i \in 1 .. MaxBatches : AddBatch([index |-> i])
           \/ UNCHANGED vars
  <2>1. /\ head' = head /\ txIndex' = txIndex /\ tries \subseteq tries'
        /\ stage' # "idle" => stage # "idle" /\ building' = building
    <3>1. CASE Start
      BY <3>1 DEF Start, Restore, CommitGenesis, WriteGenesisRoot, diskVars, Staged, Memory
    <3>2. CASE CommitState
      BY <3>2 DEF CommitState
    <3>3. CASE \/ Publish \/ Abandon \/ Crash \/ Close \/ Exit
               \/ \E i \in 1 .. MaxBatches : AddBatch([index |-> i])
               \/ UNCHANGED vars
      BY <3>3 DEF Publish, Abandon, Crash, Close, Exit, AddBatch, diskVars, memVars, vars
    <3>4. QED
      BY <1>4, <3>1, <3>2, <3>3
  <2>2. QED
    BY <1>1, <2>1, KeptLinked
<1>5. QED
  BY <1>2, <1>3, <1>4 DEF Next, Produce

(* The first state has no block.                                           *)
LEMMA InitLinked == Init => Linked
<1> SUFFICES ASSUME Init PROVE Linked
  OBVIOUS
<1>1. head.number = 0 /\ stage = "idle" /\ DOMAIN txIndex = {}
  BY DEF Init
<1>2. ChainIntact
  BY <1>1 DEF ChainIntact
<1>3. StatesAvailable
  BY <1>1, InitStaged DEF StatesAvailable, Staged, HeadSound
<1>4. TxIndexExact
  BY <1>1 DEF TxIndexExact, ReadTxBlockNumber
<1>5. QED
  BY <1>1, <1>2, <1>3, <1>4 DEF Linked

(* On a short chain both invariants always hold.                           *)
LEMMA SpecLinked ==
  ASSUME ShortChain
  PROVE  Spec => [](Staged /\ Linked)
<1>1. Init => Staged /\ Linked
  BY InitStaged, InitLinked
<1>2. (Staged /\ Linked) /\ [Next]_vars => (Staged /\ Linked)'
  BY NextStaged, NextLinked
<1>3. QED
  BY <1>1, <1>2, PTL DEF Spec

(* A chain of at most BatchTag * Radix blocks is intact in every reachable *)
(* state: every block up to the head is on disk, follows from the state    *)
(* its predecessor left and names it, whatever was abandoned, retried,     *)
(* interrupted or shut down (manager.go:249-336).                          *)
THEOREM ChainStaysIntact ==
  ASSUME ShortChain
  PROVE  Spec => []ChainIntact
<1>1. Linked => ChainIntact
  BY DEF Linked
<1>2. QED
  BY <1>1, SpecLinked, PTL

(* Every state a block of the chain, the head or the memory points to can  *)
(* be opened: the trie reached the disk before whatever names it           *)
(* (manager.go:281, 327).                                                  *)
THEOREM StatesStayAvailable ==
  ASSUME ShortChain
  PROVE  Spec => []StatesAvailable
<1>1. Linked => StatesAvailable
  BY DEF Linked
<1>2. QED
  BY <1>1, SpecLinked, PTL

(* The transaction index names exactly the block a transaction is in, so   *)
(* none is in two (chaindb.go:91).                                         *)
THEOREM IndexStaysExact ==
  ASSUME ShortChain
  PROVE  Spec => []TxIndexExact
<1>1. Linked => TxIndexExact
  BY DEF Linked
<1>2. QED
  BY <1>1, SpecLinked, PTL

-----------------------------------------------------------------------------
(* What remains true of a chain of any length.                             *)

Present == \A n \in 1 .. head.number : HasBlock(n)

(* A batch record reaches no block but the one whose key it has            *)
(* (chaindb.go:232-241).                                                   *)
LEMMA AddBatchReaches ==
  ASSUME TypeOK, NEW b, b.index \in Nat \ {0}, AddBatch(b),
         NEW n \in 1 .. head.number, HasBlock(n)
  PROVE  /\ BlockKey(n) \in DOMAIN records'
         /\ \/ records'[BlockKey(n)] = Block(n)
            \/ head' = head /\ Replaces(records'[keyLatestBatch], n)
<1>1. n \in Nat /\ BatchTag * Radix \in Nat
  BY KeyAssumption, BoundAssumption DEF TypeOK
<1>2. BlockKey(n) # keyLatestBatch /\ BatchKey(b.index) # keyLatestBatch
  BY <1>1, LatestKeyApart
<1>3. n > BatchTag * Radix \/ BlockKey(n) # BatchKey(b.index)
  <2>1. n > BatchTag * Radix \/ n \in 0 .. (BatchTag * Radix)
    BY <1>1
  <2>2. QED
    BY <2>1, KeysApart
<1>4. head' = head
  BY DEF AddBatch
<1> HIDE DEF BlockKey, BatchKey, keyLatestBatch
<1>5. CASE records' = records
  BY <1>5 DEF HasBlock, Block
<1>6. CASE records' = Put(Put(records, BatchKey(b.index), b), keyLatestBatch, b.index)
  <2>1. /\ BlockKey(n) \in DOMAIN records'
        /\ records'[keyLatestBatch] = b.index
        /\ BlockKey(n) # BatchKey(b.index) => records'[BlockKey(n)] = records[BlockKey(n)]
    BY <1>2, <1>6 DEF Put, HasBlock
  <2>2. QED
    BY <1>3, <1>4, <2>1 DEF Block, Replaces
<1>7. QED
  BY <1>5, <1>6 DEF AddBatch

(* So it is with every step.                                               *)
LEMMA NextReaches ==
  ASSUME Staged, Present, [Next]_vars, NEW n \in 1 .. head.number
  PROVE  /\ BlockKey(n) \in DOMAIN records'
         /\ \/ records'[BlockKey(n)] = Block(n)
            \/ head' = head /\ Replaces(records'[keyLatestBatch], n)
<1>1. HasBlock(n)
  BY DEF Present
<1>2. CASE WriteBlock
  <2>1. n \in 0 .. head.number
    BY DEF Staged, TypeOK
  <2>2. Kept
    BY <1>2, WriteKeeps
  <2> HIDE DEF BlockKey
  <2>3. QED
    BY <1>1, <2>1, <2>2 DEF Kept, HasBlock, Block
<1>3. CASE \E i \in 1 .. MaxBatches : AddBatch([index |-> i])
  <2>1. PICK i \in 1 .. MaxBatches : AddBatch([index |-> i])
    BY <1>3
  <2>2. i \in Nat \ {0} /\ [index |-> i].index = i
    OBVIOUS
  <2>3. QED
    BY <1>1, <2>1, <2>2, AddBatchReaches DEF Staged
<1>4. CASE records' = records
  BY <1>1, <1>4 DEF HasBlock, Block
<1>5. QED
  BY <1>2, <1>3, <1>4
     DEF Next, Start, Produce, Restore, CommitGenesis, WriteGenesisRoot, Execute, CommitState,
         Publish, Abandon, Crash, Close, Exit, vars, diskVars

(* A block that has been written has a record, of a block or not.          *)
LEMMA NextPresent ==
  ASSUME Staged, Present, [Next]_vars
  PROVE  Present'
<1>1. \A n \in 1 .. head.number : BlockKey(n) \in DOMAIN records'
  BY NextReaches
<1>2. CASE WriteBlock
  <2>1. /\ phase = "up" /\ stage = "write" /\ head'.number = building.number
        /\ records' = Put(records, BlockKey(building.number), building)
    BY <1>2 DEF WriteBlock
  <2>2. building.number = head.number + 1 /\ head.number \in Nat
    <3>1. phase \in {"up", "closed"} /\ stage \in {"commit", "write"}
      BY <2>1
    <3>2. building.number = head.number + 1
      BY <3>1, BuildsOnHead
    <3>3. QED
      BY <3>2 DEF Staged, TypeOK
  <2> HIDE DEF BlockKey
  <2>3. BlockKey(building.number) \in DOMAIN records'
    BY <2>1 DEF Put
  <2>4. \A n \in 1 .. head'.number : n \in 1 .. head.number \/ n = building.number
    BY <2>1, <2>2
  <2>5. QED
    BY <1>1, <2>3, <2>4 DEF Present, HasBlock
<1>3. CASE head' = head
  <2> HIDE DEF BlockKey
  <2>1. QED
    BY <1>1, <1>3 DEF Present, HasBlock
<1>4. WriteBlock \/ head' = head
  BY DEF Next, Start, Produce, Restore, CommitGenesis, WriteGenesisRoot, Execute, CommitState,
         Publish, Abandon, AddBatch, Crash, Close, Exit, vars, diskVars
<1>5. QED
  BY <1>2, <1>3, <1>4

(* However long the chain, no step writes one of its blocks again, not a   *)
(* retry and not a restart, but the adding of the batch whose key one of   *)
(* them has, and none up to block BatchTag * Radix has one                 *)
(* (chaindb.go:72-118, 232-241).                                           *)
THEOREM BlocksStayFinal == Spec => BlocksFinal
<1> DEFINE Final == \A n \in 1 .. head.number :
                      /\ BlockKey(n) \in DOMAIN records'
                      /\ \/ records'[BlockKey(n)] = Block(n)
                         \/ head' = head /\ Replaces(records'[keyLatestBatch], n)
<1>1. Init => Staged /\ Present
  BY InitStaged DEF Init, Present
<1>2. (Staged /\ Present) /\ [Next]_vars => (Staged /\ Present)'
  BY NextStaged, NextPresent
<1>3. Staged /\ Present /\ [Next]_vars => [Final]_vars
  BY NextReaches
<1>4. QED
  BY <1>1, <1>2, <1>3, PTL DEF Spec, BlocksFinal
=============================================================================
