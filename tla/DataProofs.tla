----------------------------- MODULE DataProofs -----------------------------
(***************************************************************************)
(* TLAPS proofs about what the service computes with data: the plan of an  *)
(* object's parts, its checksum, and names and texts, for all of them.     *)
(***************************************************************************)
EXTENDS ObjectProperties, TextProperties, SequenceTheorems, FiniteSetTheorems,
        WellFoundedInduction, TLAPS

-----------------------------------------------------------------------------
(***************************************************************************)
(* Induction.  A set of naturals that has 0 and every successor of its     *)
(* elements has all of them: the least one it lacks could not be there.    *)
(***************************************************************************)
LEMMA LeastOf ==
  ASSUME NEW R, IsWellFoundedOn(R, Nat), \A x, y \in Nat : y < x => <<y, x>> \in R,
         NEW T \in SUBSET Nat, T # {}
  PROVE  \E m \in T : \A k \in T : m <= k
<1>1. PICK m \in T : \A k \in T : ~ (<<k, m>> \in R)
  BY WFMin
<1>2. ASSUME NEW k \in T PROVE m <= k
  <2>1. m \in Nat /\ k \in Nat
    OBVIOUS
  <2>2. ~ (k < m)
    BY <1>1, <2>1
  <2>3. QED BY <2>1, <2>2
<1>3. QED BY <1>2

LEMMA Least == \A T \in SUBSET Nat : T # {} => \E m \in T : \A k \in T : m <= k
<1>1. \E R : IsWellFoundedOn(R, Nat) /\ \A x, y \in Nat : y < x => <<y, x>> \in R
  <2>1. \A x, y \in Nat : y < x => <<y, x>> \in OpToRel(<, Nat)
    BY DEF OpToRel
  <2>2. QED BY <2>1, NatLessThanWellFounded
<1>2. QED BY <1>1, LeastOf

LEMMA Induct ==
  ASSUME NEW S, 0 \in S, \A n \in Nat : n \in S => n + 1 \in S
  PROVE  Nat \subseteq S
<1> SUFFICES ASSUME ~ (Nat \subseteq S) PROVE FALSE
    OBVIOUS
<1>1. PICK m \in Nat \ S : \A k \in Nat \ S : m <= k
  BY Least
<1>2. m # 0 /\ m - 1 \in Nat
  BY <1>1
<1>3. m - 1 \in S
  BY <1>1, <1>2
<1>4. (m - 1) + 1 \in S
  BY <1>2, <1>3
<1>5. QED BY <1>1, <1>4

\* The same up to a bound.
LEMMA InductTo ==
  ASSUME NEW max \in Nat, NEW S, 0 \in S, \A n \in 0..(max - 1) : n \in S => n + 1 \in S
  PROVE  0..max \subseteq S
<1> DEFINE T == {n \in Nat : n > max \/ n \in S}
<1>1. 0 \in T
  OBVIOUS
<1>2. ASSUME NEW n \in Nat, n \in T PROVE n + 1 \in T
  <2>1. CASE n >= max
    BY <2>1
  <2>2. CASE n < max
    <3>1. n \in 0..(max - 1) /\ n \in S
      BY <1>2, <2>2
    <3>2. QED BY <3>1
  <2>3. QED BY <2>1, <2>2
<1>3. Nat \subseteq T
  <2> HIDE DEF T
  <2>1. QED BY <1>1, <1>2, Induct
<1>4. QED BY <1>3

\* What holds at every state of a loop whenever it holds at those that are nearer
\* to the end, holds at all of them.
LEMMA MeasureInduct ==
  ASSUME NEW S, NEW left \in [S -> Nat], NEW Good,
         \A s \in S : (\A t \in S : left[t] < left[s] => t \in Good) => s \in Good
  PROVE  S \subseteq Good
<1> DEFINE T == {n \in Nat : \A s \in S : left[s] < n => s \in Good}
<1>1. 0 \in T
  OBVIOUS
<1>2. ASSUME NEW n \in Nat, n \in T PROVE n + 1 \in T
  <2> SUFFICES ASSUME NEW s \in S, left[s] < n + 1 PROVE s \in Good
      OBVIOUS
  <2>1. \A t \in S : left[t] < left[s] => t \in Good
    <3> SUFFICES ASSUME NEW t \in S, left[t] < left[s] PROVE t \in Good
        OBVIOUS
    <3>1. left[t] < n
      OBVIOUS
    <3>2. QED BY <1>2, <3>1
  <2>2. QED BY <2>1
<1>3. Nat \subseteq T
  <2> HIDE DEF T
  <2>1. QED BY <1>1, <1>2, Induct
<1>4. ASSUME NEW s \in S PROVE s \in Good
  <2>1. left[s] + 1 \in T /\ left[s] < left[s] + 1
    BY <1>3
  <2>2. QED BY <2>1
<1>5. QED BY <1>4

(***************************************************************************)
(* Recursion.  A function that is defined at each state of a loop from its *)
(* value at the next one exists, when the next one is nearer to the end.   *)
(***************************************************************************)
Ending(S, R, left, ends, next, result, combine) ==
  /\ left \in [S -> Nat]  /\ ends \in SUBSET S  /\ next \in [S \ ends -> S]
  /\ result \in [S -> R]  /\ combine \in [S \ ends -> [R -> R]]
  /\ \A s \in S \ ends : left[next[s]] < left[s]

Solves(f, S, R, ends, next, result, combine) ==
  /\ f \in [S -> R]
  /\ \A s \in S : f[s] = IF s \in ends THEN result[s] ELSE combine[s][f[next[s]]]

LEMMA Recursion ==
  ASSUME NEW S, NEW R, NEW left, NEW ends, NEW next, NEW result, NEW combine,
         Ending(S, R, left, ends, next, result, combine)
  PROVE  \E f : Solves(f, S, R, ends, next, result, combine)
<1> USE DEF Ending
<1> DEFINE Value(g, s) == IF s \in ends THEN result[s] ELSE combine[s][g[next[s]]]
           Upto(g, n)  == g \in [S -> R] /\ \A s \in S : left[s] < n => g[s] = Value(g, s)
           Reached     == {n \in Nat : \E g : Upto(g, n)}
<1>1. 0 \in Reached
  <2>1. Upto(result, 0)
    OBVIOUS
  <2>2. QED BY <2>1
<1>2. ASSUME NEW n \in Nat, n \in Reached PROVE n + 1 \in Reached
  <2>1. PICK g : Upto(g, n)
    BY <1>2
  <2> DEFINE h == [s \in S |-> IF left[s] < n THEN g[s] ELSE Value(g, s)]
  <2>2. h \in [S -> R]
    BY <2>1
  <2>3. ASSUME NEW s \in S, left[s] < n + 1 PROVE h[s] = Value(h, s)
    <3>1. h[s] = Value(g, s)
      BY <2>1, <2>3
    <3>2. s \notin ends => h[next[s]] = g[next[s]]
      <4> SUFFICES ASSUME s \notin ends PROVE h[next[s]] = g[next[s]]
          OBVIOUS
      <4>1. next[s] \in S /\ left[next[s]] < left[s]
        OBVIOUS
      <4>2. left[next[s]] < n
        BY <2>3, <4>1
      <4>3. QED BY <4>1, <4>2
    <3> HIDE DEF h
    <3>3. QED BY <3>1, <3>2
  <2> HIDE DEF h
  <2>4. Upto(h, n + 1)
    BY <2>2, <2>3
  <2>5. QED BY <2>4
<1>3. Nat \subseteq Reached
  <2> HIDE DEF Reached
  <2>1. QED BY <1>1, <1>2, Induct
<1>4. PICK g : g \in [Nat -> [S -> R]] /\ \A n \in Nat : Upto(g[n], n)
  <2> DEFINE g == [n \in Nat |-> CHOOSE h : Upto(h, n)]
  <2>1. \A n \in Nat : Upto(g[n], n)
    <3> HIDE DEF Upto
    <3>1. QED BY <1>3
  <2>2. g \in [Nat -> [S -> R]]
    BY <2>1
  <2> HIDE DEF g, Upto
  <2>3. QED BY <2>1, <2>2
<1> DEFINE Same == {s \in S : \A m, n \in Nat : left[s] < m /\ left[s] < n => g[m][s] = g[n][s]}
<1>5. S \subseteq Same
  <2>1. ASSUME NEW s \in S, \A t \in S : left[t] < left[s] => t \in Same PROVE s \in Same
    <3> SUFFICES ASSUME NEW m \in Nat, NEW n \in Nat, left[s] < m, left[s] < n
                 PROVE  g[m][s] = g[n][s]
        OBVIOUS
    <3>1. g[m][s] = Value(g[m], s) /\ g[n][s] = Value(g[n], s)
      BY <1>4
    <3>2. s \notin ends => g[m][next[s]] = g[n][next[s]]
      <4> SUFFICES ASSUME s \notin ends PROVE g[m][next[s]] = g[n][next[s]]
          OBVIOUS
      <4>1. next[s] \in S /\ left[next[s]] < left[s]
        OBVIOUS
      <4>2. next[s] \in Same
        BY <2>1, <4>1
      <4>3. left[next[s]] < m /\ left[next[s]] < n
        BY <4>1
      <4>4. QED BY <4>1, <4>2, <4>3
    <3>3. QED BY <3>1, <3>2
  <2> HIDE DEF Same
  <2>2. QED BY <2>1, MeasureInduct
<1> DEFINE f == [s \in S |-> g[left[s] + 1][s]]
<1>6. f \in [S -> R]
  BY <1>4
<1>7. ASSUME NEW s \in S PROVE f[s] = Value(f, s)
  <2>1. left[s] + 1 \in Nat /\ left[s] < left[s] + 1
    OBVIOUS
  <2>2. f[s] = Value(g[left[s] + 1], s)
    BY <1>4, <2>1
  <2>3. s \notin ends => f[next[s]] = g[left[s] + 1][next[s]]
    <3> SUFFICES ASSUME s \notin ends PROVE f[next[s]] = g[left[s] + 1][next[s]]
        OBVIOUS
    <3>1. next[s] \in S /\ left[next[s]] < left[s]
      OBVIOUS
    <3>2. left[next[s]] + 1 \in Nat /\ left[next[s]] < left[next[s]] + 1 /\ left[next[s]] < left[s] + 1
      BY <3>1
    <3>3. next[s] \in Same
      BY <1>5, <3>1
    <3>4. QED BY <2>1, <3>1, <3>2, <3>3
  <2> HIDE DEF f
  <2>4. QED BY <2>2, <2>3
<1>8. QED BY <1>6, <1>7 DEF Solves

\* A loop that counts: the function of what there is after each number of rounds.
LEMMA Loop ==
  ASSUME NEW R, NEW start \in R, NEW step \in [Nat -> [R -> R]]
  PROVE  \E f \in [Nat -> R] : \A n \in Nat : f[n] = IF n = 0 THEN start ELSE step[n][f[n - 1]]
<1> DEFINE left    == [n \in Nat |-> n]
           ends    == {0}
           next    == [n \in Nat \ {0} |-> n - 1]
           result  == [n \in Nat |-> start]
           combine == [n \in Nat \ {0} |-> step[n]]
<1>1. Ending(Nat, R, left, ends, next, result, combine)
  BY DEF Ending
<1>2. PICK f : Solves(f, Nat, R, ends, next, result, combine)
  <2> HIDE DEF left, ends, next, result, combine
  <2>1. QED BY <1>1, Recursion
<1>3. QED BY <1>2 DEF Solves

Counts(f, R, start, step) ==
  f \in [Nat -> R] /\ \A n \in Nat : f[n] = IF n = 0 THEN start ELSE step[n][f[n - 1]]

LEMMA LoopCounts ==
  ASSUME NEW R, NEW start, NEW step, start \in R, step \in [Nat -> [R -> R]]
  PROVE  \E f : Counts(f, R, start, step)
  BY Loop DEF Counts

LEMMA LoopType ==
  ASSUME NEW R, NEW f, f[0] \in R, \A n \in Nat : f[n] \in R => f[n + 1] \in R
  PROVE  \A n \in Nat : f[n] \in R
<1> DEFINE T == {n \in Nat : f[n] \in R}
<1>1. 0 \in T /\ \A n \in Nat : n \in T => n + 1 \in T
  OBVIOUS
<1>2. Nat \subseteq T
  <2> HIDE DEF T
  <2>1. QED BY <1>1, Induct
<1>3. QED BY <1>2

-----------------------------------------------------------------------------
(***************************************************************************)
(* Words.                                                                  *)
(***************************************************************************)
LEMMA XorType == \A a, b \in Words : Xor(a, b) \in Words
  BY DEF Xor, Words

LEMMA XorRules ==
  ASSUME NEW a, NEW b, NEW c
  PROVE  /\ Xor(a, b) = Xor(b, a)  /\ Xor(a, Xor(b, c)) = Xor(Xor(a, b), c)
         /\ Xor(a, a) = {}  /\ Xor(a, {}) = a  /\ Xor({}, a) = a
         /\ Xor(Xor(a, b), Xor(a, c)) = Xor(b, c)
  BY DEF Xor

LEMMA ShiftType ==
  ASSUME NEW a \in Words, NEW n \in Nat
  PROVE  Shift(a, n) \in Words /\ \A i : i \in Shift(a, n) <=> i \in Nat /\ i + n \in a
<1>1. ASSUME NEW i, i \in Shift(a, n) PROVE i \in Bits /\ i \in Nat /\ i + n \in a
  BY <1>1 DEF Shift, Words, Bits
<1>2. ASSUME NEW i \in Nat, i + n \in a PROVE i \in Shift(a, n)
  <2>1. i + n >= n /\ (i + n) - n = i
    OBVIOUS
  <2>2. QED BY <1>2, <2>1 DEF Shift
<1>3. QED BY <1>1, <1>2 DEF Words

LEMMA ShiftXor ==
  ASSUME NEW a \in Words, NEW b \in Words, NEW n \in Nat
  PROVE  Shift(Xor(a, b), n) = Xor(Shift(a, n), Shift(b, n))
<1>1. Xor(a, b) \in Words
  BY XorType
<1>2. ASSUME NEW i PROVE i \in Shift(Xor(a, b), n) <=> i \in Xor(Shift(a, n), Shift(b, n))
  <2>1. i \in Shift(Xor(a, b), n) <=> i \in Nat /\ i + n \in Xor(a, b)
    BY <1>1, ShiftType
  <2>2. i \in Shift(a, n) <=> i \in Nat /\ i + n \in a
    BY ShiftType
  <2>3. i \in Shift(b, n) <=> i \in Nat /\ i + n \in b
    BY ShiftType
  <2>4. QED BY <2>1, <2>2, <2>3 DEF Xor
<1>3. QED BY <1>2

LEMMA ShiftAgain ==
  ASSUME NEW a \in Words, NEW m \in Nat, NEW n \in Nat
  PROVE  Shift(Shift(a, m), n) = Shift(a, m + n)
<1>1. Shift(a, m) \in Words
  BY ShiftType
<1>2. ASSUME NEW i PROVE i \in Shift(Shift(a, m), n) <=> i \in Shift(a, m + n)
  <2>1. i \in Shift(Shift(a, m), n) <=> i \in Nat /\ i + n \in Shift(a, m)
    BY <1>1, ShiftType
  <2>2. i + n \in Shift(a, m) <=> i + n \in Nat /\ (i + n) + m \in a
    BY ShiftType
  <2>3. m + n \in Nat
    OBVIOUS
  <2>4. i \in Shift(a, m + n) <=> i \in Nat /\ i + (m + n) \in a
    BY <2>3, ShiftType
  <2>5. i \in Nat => i + n \in Nat /\ (i + n) + m = i + (m + n)
    OBVIOUS
  <2>6. QED BY <2>1, <2>2, <2>4, <2>5
<1>3. QED BY <1>2

LEMMA ByteType == \A a, k : Byte(a, k) \in Bytes /\ Byte(a, k) \in Words
  BY DEF Byte, Bytes, Words, Bits

LEMMA PolyType == POLY \in Words
  BY DEF POLY, Words, Bits

LEMMA ShiftBitType == \A a \in Words : ShiftBit(a) \in Words
  BY ShiftType, XorType, PolyType DEF ShiftBit

\* A zero bit after two words is the zero bits after each of them: what the
\* checksum makes of a message is linear.
LEMMA ShiftBitXor ==
  ASSUME NEW a \in Words, NEW b \in Words
  PROVE  ShiftBit(Xor(a, b)) = Xor(ShiftBit(a), ShiftBit(b))
<1>1. Shift(Xor(a, b), 1) = Xor(Shift(a, 1), Shift(b, 1))
  BY ShiftXor
<1>2. 0 \in Xor(a, b) <=> ~ (0 \in a <=> 0 \in b)
  BY DEF Xor
<1> DEFINE s == Shift(a, 1)
           t == Shift(b, 1)
<1>3. /\ Xor(Xor(POLY, s), Xor(POLY, t)) = Xor(s, t)
      /\ Xor(POLY, Xor(s, t)) = Xor(Xor(POLY, s), t)
      /\ Xor(POLY, Xor(s, t)) = Xor(s, Xor(POLY, t))
  BY DEF Xor
<1>4. CASE 0 \in a
  BY <1>1, <1>2, <1>3, <1>4 DEF ShiftBit
<1>5. CASE 0 \notin a
  BY <1>1, <1>2, <1>3, <1>5 DEF ShiftBit
<1>6. QED BY <1>4, <1>5

-----------------------------------------------------------------------------
(***************************************************************************)
(* Zero bits.                                                              *)
(***************************************************************************)
LEMMA ZeroBitsDef ==
  ASSUME NEW a \in Words
  PROVE  /\ ZeroBits(a)[0] = a
         /\ \A k \in Nat : /\ ZeroBits(a)[k] \in Words
                           /\ ZeroBits(a)[k + 1] = ShiftBit(ZeroBits(a)[k])
<1> DEFINE step == [n \in Nat |-> [w \in Words |-> ShiftBit(w)]]
<1>1. step \in [Nat -> [Words -> Words]]
  BY ShiftBitType
<1>2. PICK f \in [Nat -> Words] : \A n \in Nat : f[n] = IF n = 0 THEN a ELSE step[n][f[n - 1]]
  <2> HIDE DEF step
  <2>1. QED BY <1>1, Loop
<1>3. f = [k \in Nat |-> IF k = 0 THEN a ELSE ShiftBit(f[k - 1])]
  <2>1. ASSUME NEW k \in Nat, k # 0 PROVE f[k] = ShiftBit(f[k - 1])
    <3>1. k - 1 \in Nat
      BY <2>1
    <3>2. f[k - 1] \in Words
      BY <3>1
    <3>3. QED BY <1>2, <2>1, <3>2
  <2>2. QED BY <1>2, <2>1
<1> DEFINE z == ZeroBits(a)
<1>4. z = [k \in Nat |-> IF k = 0 THEN a ELSE ShiftBit(z[k - 1])]
  BY <1>3 DEF ZeroBits
<1> HIDE DEF z, step
<1>5. z[0] = a
  BY <1>4
<1>6. ASSUME NEW k \in Nat PROVE z[k + 1] = ShiftBit(z[k])
  <2>1. k + 1 \in Nat /\ k + 1 # 0 /\ (k + 1) - 1 = k
    OBVIOUS
  <2>2. QED BY <1>4, <2>1
<1>7. \A k \in Nat : z[k] \in Words
  BY <1>5, <1>6, LoopType, ShiftBitType
<1>8. QED BY <1>5, <1>6, <1>7 DEF z

LEMMA ZeroBitsXor ==
  ASSUME NEW a \in Words, NEW b \in Words
  PROVE  \A k \in Nat : ZeroBits(Xor(a, b))[k] = Xor(ZeroBits(a)[k], ZeroBits(b)[k])
<1> DEFINE T == {k \in Nat : ZeroBits(Xor(a, b))[k] = Xor(ZeroBits(a)[k], ZeroBits(b)[k])}
<1>1. Xor(a, b) \in Words
  BY XorType
<1>2. 0 \in T
  BY <1>1, ZeroBitsDef
<1>3. ASSUME NEW k \in Nat, k \in T PROVE k + 1 \in T
  BY <1>1, <1>3, ZeroBitsDef, ShiftBitXor
<1>4. Nat \subseteq T
  <2> HIDE DEF T
  <2>1. QED BY <1>2, <1>3, Induct
<1>5. QED BY <1>4

LEMMA ZeroBitsMore ==
  ASSUME NEW a \in Words, NEW m \in Nat
  PROVE  \A k \in Nat : ZeroBits(ZeroBits(a)[m])[k] = ZeroBits(a)[m + k]
<1> DEFINE T == {k \in Nat : ZeroBits(ZeroBits(a)[m])[k] = ZeroBits(a)[m + k]}
<1>1. ZeroBits(a)[m] \in Words
  BY ZeroBitsDef
<1>2. 0 \in T
  BY <1>1, ZeroBitsDef
<1>3. ASSUME NEW k \in Nat, k \in T PROVE k + 1 \in T
  <2>1. m + (k + 1) = (m + k) + 1 /\ m + k \in Nat
    OBVIOUS
  <2>2. QED BY <1>1, <1>3, <2>1, ZeroBitsDef
<1>4. Nat \subseteq T
  <2> HIDE DEF T
  <2>1. QED BY <1>2, <1>3, Induct
<1>5. QED BY <1>4

\* Zero bits after a word whose lowest bits are not set only move the others down.
LEMMA ZeroBitsBelow ==
  ASSUME NEW a \in Words, NEW m \in Nat, \A i \in a : i >= m
  PROVE  \A k \in 0..m : ZeroBits(a)[k] = Shift(a, k)
<1> DEFINE T == {k \in Nat : ZeroBits(a)[k] = Shift(a, k)}
<1>1. 0 \in T
  <2>1. Shift(a, 0) = a
    <3>1. \A i : i \in Shift(a, 0) <=> i \in Nat /\ i + 0 \in a
      BY ShiftType
    <3>2. \A i \in a : i \in Nat /\ i + 0 = i
      BY DEF Words, Bits
    <3>3. ASSUME NEW i PROVE i \in Shift(a, 0) <=> i \in a
      BY <3>1, <3>2
    <3>4. QED BY <3>3
  <2>2. QED BY <2>1, ZeroBitsDef
<1>2. ASSUME NEW k \in 0..(m - 1), k \in T PROVE k + 1 \in T
  <2>1. Shift(a, k) \in Words /\ 0 \notin Shift(a, k)
    BY ShiftType
  <2>2. ShiftBit(Shift(a, k)) = Shift(a, k + 1)
    BY <2>1, ShiftAgain DEF ShiftBit
  <2>3. QED BY <1>2, <2>2, ZeroBitsDef
<1>3. 0..m \subseteq T
  <2> HIDE DEF T
  <2>1. QED BY <1>1, <1>2, InductTo
<1>4. QED BY <1>3
-----------------------------------------------------------------------------
(***************************************************************************)
(* The tables.                                                             *)
(***************************************************************************)
LEMMA BytesAreWords == \A b \in Bytes : b \in Words /\ \A i \in b : i \in 0..7
  BY DEF Bytes, Words, Bits

LEMMA ByteTableDef == \A n \in Bytes : ByteTable[n] = ZeroBits(n)[8] /\ ByteTable[n] \in Words
  BY BytesAreWords, ZeroBitsDef DEF ByteTable

\* Eight zero bits: the lowest byte through the table, the others down.
LEMMA ZeroByte ==
  ASSUME NEW a \in Words
  PROVE  ZeroBits(a)[8] = Xor(ByteTable[Byte(a, 0)], Shift(a, 8))
<1> DEFINE lo == Byte(a, 0)
           hi == {i \in a : i >= 8}
<1>1. lo \in Bytes /\ lo \in Words /\ hi \in Words /\ \A i \in hi : i >= 8
  BY ByteType DEF Words
<1>2. a = Xor(lo, hi)
  <2>1. ASSUME NEW i PROVE i \in a <=> i \in Xor(lo, hi)
    <3>1. i \in a => i \in 0..63
      BY DEF Words, Bits
    <3>2. QED BY <3>1 DEF Xor, Byte
  <2>2. QED BY <2>1
<1>3. ZeroBits(hi)[8] = Shift(hi, 8)
  <2> HIDE DEF hi
  <2>1. QED BY <1>1, ZeroBitsBelow
<1>4. Shift(hi, 8) = Shift(a, 8)
  BY DEF Shift
<1> HIDE DEF lo, hi
<1>5. ZeroBits(Xor(lo, hi))[8] = Xor(ZeroBits(lo)[8], ZeroBits(hi)[8])
  BY <1>1, ZeroBitsXor
<1>6. QED BY <1>1, <1>2, <1>3, <1>4, <1>5, ByteTableDef DEF lo

\* Table[k] has, for each byte, what k + 1 zero bytes make of it.
LEMMA TableDef == \A k \in 0..7 : \A n \in Bytes : Table[k][n] = ZeroBits(n)[8 * (k + 1)]
<1> DEFINE f == [k \in 0..7 |-> [n \in Bytes |-> ZeroBits(n)[8 * (k + 1)]]]
           Next8(w) == Xor(ByteTable[Byte(w, 0)], Shift(w, 8))
<1>1. ASSUME NEW k \in 1..7, NEW n \in Bytes PROVE ZeroBits(n)[8 * (k + 1)] = Next8(ZeroBits(n)[8 * k])
  <2>1. n \in Words /\ ZeroBits(n)[8 * k] \in Words
    BY BytesAreWords, ZeroBitsDef
  <2>2. ZeroBits(n)[8 * k + 8] = ZeroBits(ZeroBits(n)[8 * k])[8]
    BY <2>1, ZeroBitsMore
  <2>3. QED BY <2>1, <2>2, ZeroByte
<1>2. f = [k \in 0..7 |-> IF k = 0 THEN ByteTable ELSE [n \in Bytes |-> Next8(f[k - 1][n])]]
  <2>1. f[0] = ByteTable
    BY DEF ByteTable
  <2>2. ASSUME NEW k \in 1..7 PROVE f[k] = [n \in Bytes |-> Next8(f[k - 1][n])]
    <3>1. k - 1 \in 0..7 /\ (k - 1) + 1 = k
      OBVIOUS
    <3> HIDE DEF Next8
    <3>2. \A n \in Bytes : f[k - 1][n] = ZeroBits(n)[8 * k]
      BY <3>1
    <3>3. f[k] = [n \in Bytes |-> ZeroBits(n)[8 * (k + 1)]]
      OBVIOUS
    <3> HIDE DEF f
    <3>4. QED BY <1>1, <3>2, <3>3
  <2> HIDE DEF Next8
  <2>3. QED BY <2>1, <2>2
<1>3. Table = [k \in 0..7 |-> IF k = 0 THEN ByteTable ELSE [n \in Bytes |-> Next8(Table[k - 1][n])]]
  <2> HIDE DEF f
  <2>1. QED BY <1>2 DEF Table
<1> DEFINE T == {k \in Nat : Table[k] = f[k]}
<1>4. 0 \in T
  BY <1>3 DEF ByteTable
<1>5. ASSUME NEW k \in 0..6, k \in T PROVE k + 1 \in T
  <2>1. k + 1 \in 0..7 /\ k + 1 # 0 /\ (k + 1) - 1 = k
    OBVIOUS
  <2> HIDE DEF Next8, f
  <2>2. Table[k + 1] = [n \in Bytes |-> Next8(Table[k][n])]
    BY <1>3, <2>1
  <2>3. f[k + 1] = [n \in Bytes |-> Next8(f[k][n])]
    BY <1>2, <2>1
  <2>4. QED BY <1>5, <2>2, <2>3
<1>6. 0..7 \subseteq T
  <2> HIDE DEF T
  <2>1. QED BY <1>4, <1>5, InductTo
<1>7. QED BY <1>6

-----------------------------------------------------------------------------
(***************************************************************************)
(* Bytes of a message.                                                     *)
(***************************************************************************)
LEMMA AddByteType == \A a \in Words : \A b : AddByte(a, b) \in Words
  BY ByteType, ByteTableDef, ShiftType, XorType DEF AddByte

LEMMA AddByteDef ==
  ASSUME NEW a \in Words, NEW b \in Bytes
  PROVE  AddByte(a, b) = ZeroBits(Xor(a, b))[8]
<1>1. b \in Words /\ \A i \in b : i \in 0..7
  BY BytesAreWords
<1>2. Shift(b, 8) = {}
  <2>1. ASSUME NEW i, i \in Shift(b, 8) PROVE FALSE
    <3>1. i \in Nat /\ i + 8 \in b
      BY <1>1, <2>1, ShiftType
    <3>2. QED BY <1>1, <3>1
  <2>2. QED BY <2>1
<1>3. Shift(Xor(a, b), 8) = Shift(a, 8)
  <2>1. Shift(Xor(a, b), 8) = Xor(Shift(a, 8), {})
    BY <1>1, <1>2, ShiftXor
  <2>2. QED BY <2>1, XorRules
<1>4. QED BY <1>1, <1>3, XorType, ZeroByte DEF AddByte

LEMMA ByBytesDef ==
  ASSUME NEW a \in Words, NEW buf
  PROVE  /\ ByBytes(a, buf)[0] = a
         /\ \A n \in Nat : /\ ByBytes(a, buf)[n] \in Words
                           /\ ByBytes(a, buf)[n + 1] = AddByte(ByBytes(a, buf)[n], buf[n + 1])
<1> DEFINE step == [n \in Nat |-> [w \in Words |-> AddByte(w, buf[n])]]
<1>1. step \in [Nat -> [Words -> Words]]
  BY AddByteType
<1>2. PICK f \in [Nat -> Words] : \A n \in Nat : f[n] = IF n = 0 THEN a ELSE step[n][f[n - 1]]
  <2> HIDE DEF step
  <2>1. QED BY <1>1, Loop
<1>3. f = [n \in Nat |-> IF n = 0 THEN a ELSE AddByte(f[n - 1], buf[n])]
  <2>1. ASSUME NEW n \in Nat, n # 0 PROVE f[n] = AddByte(f[n - 1], buf[n])
    <3>1. n - 1 \in Nat
      BY <2>1
    <3>2. f[n - 1] \in Words
      BY <3>1
    <3>3. QED BY <1>2, <2>1, <3>2
  <2>2. QED BY <1>2, <2>1
<1> DEFINE z == ByBytes(a, buf)
<1>4. z = [n \in Nat |-> IF n = 0 THEN a ELSE AddByte(z[n - 1], buf[n])]
  BY <1>3 DEF ByBytes
<1> HIDE DEF z, step
<1>5. z[0] = a
  BY <1>4
<1>6. ASSUME NEW n \in Nat PROVE z[n + 1] = AddByte(z[n], buf[n + 1])
  <2>1. n + 1 \in Nat /\ n + 1 # 0 /\ (n + 1) - 1 = n
    OBVIOUS
  <2>2. QED BY <1>4, <2>1
<1>7. \A n \in Nat : z[n] \in Words
  BY <1>5, <1>6, LoopType, AddByteType
<1>8. QED BY <1>5, <1>6, <1>7 DEF z

\* A loop over the end of a buffer goes on where the one over its beginning was.
Continues(more, buf, m, n) == \A i \in 1..n : more[i] = buf[m + i]

LEMMA ByBytesMore ==
  ASSUME NEW a \in Words, NEW buf, NEW m \in Nat, NEW n \in Nat, NEW more,
         Continues(more, buf, m, n)
  PROVE  ByBytes(ByBytes(a, buf)[m], more)[n] = ByBytes(a, buf)[m + n]
<1> USE DEF Continues
<1> DEFINE at == ByBytes(a, buf)[m]
           T  == {k \in Nat : ByBytes(at, more)[k] = ByBytes(a, buf)[m + k]}
<1>1. at \in Words
  BY ByBytesDef
<1>2. 0 \in T
  BY <1>1, ByBytesDef
<1>3. ASSUME NEW k \in 0..(n - 1), k \in T PROVE k + 1 \in T
  <2>1. k \in Nat /\ k + 1 \in 1..n /\ m + (k + 1) = (m + k) + 1 /\ m + k \in Nat
    OBVIOUS
  <2>2. ByBytes(at, more)[k + 1] = AddByte(ByBytes(at, more)[k], more[k + 1])
    BY <1>1, <2>1, ByBytesDef
  <2>3. ByBytes(a, buf)[(m + k) + 1] = AddByte(ByBytes(a, buf)[m + k], buf[(m + k) + 1])
    BY <2>1, ByBytesDef
  <2>4. QED BY <1>3, <2>1, <2>2, <2>3
<1>4. 0..n \subseteq T
  <2> HIDE DEF T
  <2>1. QED BY <1>2, <1>3, InductTo
<1>5. n \in T
  BY <1>4
<1>6. QED BY <1>5
-----------------------------------------------------------------------------
(***************************************************************************)
(* Eight bytes at a time.                                                  *)
(***************************************************************************)
LEMMA ByteOfShift ==
  ASSUME NEW a \in Words, NEW j \in Nat
  PROVE  Byte(Shift(a, 8 * j), 0) = Byte(a, j)
<1>1. ASSUME NEW i \in 0..7 PROVE i + 8 * 0 \in Shift(a, 8 * j) <=> i + 8 * j \in a
  BY ShiftType
<1>2. QED BY <1>1 DEF Byte

\* What is left of a word after j zero bytes, through the rest of the eight.
Left(a, j) == ZeroBits(Shift(a, 8 * j))[8 * (8 - j)]

LEMMA LeftDef ==
  ASSUME NEW a \in Words, NEW j \in 0..7
  PROVE  Left(a, j) = Xor(Table[7 - j][Byte(a, j)], Left(a, j + 1))
<1> DEFINE w == Shift(a, 8 * j)
           k == 8 * (7 - j)
           n == Byte(a, j)
<1>1. w \in Words /\ Byte(w, 0) = n /\ Shift(w, 8) = Shift(a, 8 * (j + 1)) /\ k \in Nat
  <2>1. 8 * j + 8 = 8 * (j + 1) /\ 8 * j \in Nat /\ 8 \in Nat /\ k \in Nat /\ j \in Nat
    OBVIOUS
  <2> HIDE DEF k, n
  <2>2. w \in Words
    BY <2>1, ShiftType
  <2>3. Byte(w, 0) = n
    BY <2>1, ByteOfShift DEF n
  <2>4. Shift(w, 8) = Shift(a, 8 * j + 8)
    BY <2>1, ShiftAgain
  <2>5. QED BY <2>1, <2>2, <2>3, <2>4
<1>2. n \in Bytes /\ n \in Words /\ ByteTable[n] \in Words /\ Shift(w, 8) \in Words
  <2> HIDE DEF w, n
  <2>1. Byte(w, 0) \in Bytes
    BY ByteType
  <2>2. QED BY <1>1, <2>1, BytesAreWords, ByteTableDef, ShiftType
<1>3. Left(a, j) = ZeroBits(w)[8 + k] /\ Left(a, j + 1) = ZeroBits(Shift(w, 8))[k]
  <2>1. 8 * (8 - j) = 8 + k /\ 8 * (8 - (j + 1)) = k
    OBVIOUS
  <2>2. QED BY <1>1, <2>1 DEF Left
<1>4. Table[7 - j][n] = ZeroBits(n)[8 + k]
  <2>1. 7 - j \in 0..7 /\ 8 * ((7 - j) + 1) = 8 + k
    OBVIOUS
  <2> HIDE DEF n, k
  <2>2. QED BY <1>2, <2>1, TableDef
<1> HIDE DEF w, k, n
<1>5. ZeroBits(w)[8 + k] = ZeroBits(Xor(ByteTable[n], Shift(w, 8)))[k]
  <2>1. ZeroBits(ZeroBits(w)[8])[k] = ZeroBits(w)[8 + k]
    BY <1>1, ZeroBitsMore
  <2>2. ZeroBits(w)[8] = Xor(ByteTable[n], Shift(w, 8))
    BY <1>1, ZeroByte
  <2>3. QED BY <2>1, <2>2
<1>6. ZeroBits(Xor(ByteTable[n], Shift(w, 8)))[k] = Xor(ZeroBits(ByteTable[n])[k], ZeroBits(Shift(w, 8))[k])
  BY <1>1, <1>2, ZeroBitsXor
<1>7. ZeroBits(ByteTable[n])[k] = ZeroBits(n)[8 + k]
  <2>1. ZeroBits(ZeroBits(n)[8])[k] = ZeroBits(n)[8 + k]
    BY <1>1, <1>2, ZeroBitsMore
  <2>2. ByteTable[n] = ZeroBits(n)[8]
    BY <1>2, ByteTableDef
  <2>3. QED BY <2>1, <2>2
<1>8. QED BY <1>3, <1>4, <1>5, <1>6, <1>7 DEF n

\* The eight bytes of a word, each through its table.
LEMMA EightZeroBytes ==
  ASSUME NEW c \in Words
  PROVE  LET t(k) == Table[7 - k][Byte(c, k)] IN
           ZeroBits(c)[64] =
             Xor(t(0), Xor(t(1), Xor(t(2), Xor(t(3), Xor(t(4), Xor(t(5), Xor(t(6), t(7))))))))
<1> DEFINE t(k) == Table[7 - k][Byte(c, k)]
<1>1. \A j \in 0..7 : Left(c, j) = Xor(t(j), Left(c, j + 1))
  BY LeftDef
<1>2. Left(c, 0) = ZeroBits(c)[64]
  <2>1. Shift(c, 0) = c
    <3>1. \A i : i \in Shift(c, 0) <=> i \in Nat /\ i + 0 \in c
      BY ShiftType
    <3>2. \A i \in c : i \in Nat /\ i + 0 = i
      BY DEF Words, Bits
    <3>3. ASSUME NEW i PROVE i \in Shift(c, 0) <=> i \in c
      BY <3>1, <3>2
    <3>4. QED BY <3>3
  <2>2. 8 * 0 = 0 /\ 8 * (8 - 0) = 64
    OBVIOUS
  <2>3. QED BY <2>1, <2>2 DEF Left
<1>3. Left(c, 8) = {}
  <2>1. Shift(c, 64) = {}
    <3>1. ASSUME NEW i, i \in Shift(c, 64) PROVE FALSE
      <4>1. i \in Nat /\ i + 64 \in c
        BY <3>1, ShiftType
      <4>2. QED BY <4>1 DEF Words, Bits
    <3>2. QED BY <3>1
  <2>2. 8 * 8 = 64 /\ 8 * (8 - 8) = 0
    OBVIOUS
  <2>3. {} \in Words
    BY DEF Words
  <2>4. ZeroBits({})[0] = {}
    BY <2>3, ZeroBitsDef
  <2>5. QED BY <2>1, <2>2, <2>4 DEF Left
<1> HIDE DEF t
<1>4. /\ Left(c, 0) = Xor(t(0), Left(c, 1))  /\ Left(c, 1) = Xor(t(1), Left(c, 2))
      /\ Left(c, 2) = Xor(t(2), Left(c, 3))  /\ Left(c, 3) = Xor(t(3), Left(c, 4))
      /\ Left(c, 4) = Xor(t(4), Left(c, 5))  /\ Left(c, 5) = Xor(t(5), Left(c, 6))
      /\ Left(c, 6) = Xor(t(6), Left(c, 7))  /\ Left(c, 7) = Xor(t(7), Left(c, 8))
  BY <1>1
<1>5. Xor(t(7), {}) = t(7)
  BY XorRules
<1>6. ZeroBits(c)[64] =
        Xor(t(0), Xor(t(1), Xor(t(2), Xor(t(3), Xor(t(4), Xor(t(5), Xor(t(6), t(7))))))))
  BY <1>2, <1>3, <1>4, <1>5
<1>7. QED BY <1>6 DEF t

LEMMA LowDef ==
  ASSUME NEW buf, \A k \in 1..8 : buf[k] \in Bytes
  PROVE  /\ Low(buf, 0) = {}
         /\ \A m \in 0..8 : \A i \in Low(buf, m) : i \in 0..(8 * m - 1)
         /\ \A m \in 0..7 :
              Low(buf, m + 1) = Xor(Low(buf, m), {i + 8 * m : i \in buf[m + 1]})
<1> DEFINE Part(k) == {i + 8 * (k - 1) : i \in buf[k]}
<1>1. Low(buf, 0) = {}
  BY DEF Low
<1>2. ASSUME NEW k \in 1..8, NEW i \in Part(k) PROVE i \in (8 * (k - 1))..(8 * k - 1)
  <2>1. PICK j \in buf[k] : i = j + 8 * (k - 1)
    OBVIOUS
  <2>2. j \in 0..7
    BY BytesAreWords
  <2>3. QED BY <2>1, <2>2
<1>3. \A m : \A i : i \in Low(buf, m) <=> \E k \in 1..m : i \in Part(k)
  BY DEF Low
<1> HIDE DEF Part
<1>4. ASSUME NEW m \in 0..8, NEW i \in Low(buf, m) PROVE i \in 0..(8 * m - 1)
  <2>1. PICK k \in 1..m : i \in Part(k)
    BY <1>3
  <2>2. k \in 1..8 /\ i \in (8 * (k - 1))..(8 * k - 1)
    BY <1>2, <2>1
  <2>3. QED BY <2>1, <2>2
<1>5. ASSUME NEW m \in 0..7 PROVE Low(buf, m + 1) = Xor(Low(buf, m), Part(m + 1))
  <2>1. ASSUME NEW i PROVE i \in Low(buf, m + 1) <=> i \in Low(buf, m) \/ i \in Part(m + 1)
    <3>1. \A k : k \in 1..(m + 1) <=> k \in 1..m \/ k = m + 1
      OBVIOUS
    <3>2. QED BY <1>3, <3>1
  <2>2. ASSUME NEW i, i \in Low(buf, m), i \in Part(m + 1) PROVE FALSE
    <3>1. i \in 0..(8 * m - 1)
      BY <1>4, <2>2
    <3>2. m + 1 \in 1..8 /\ (m + 1) - 1 = m
      OBVIOUS
    <3>3. i \in (8 * m)..(8 * (m + 1) - 1)
      BY <1>2, <2>2, <3>2
    <3>4. QED BY <3>1, <3>3
  <2>3. QED BY <2>1, <2>2 DEF Xor
<1>6. ASSUME NEW m \in 0..7 PROVE Part(m + 1) = {i + 8 * m : i \in buf[m + 1]}
  <2>1. (m + 1) - 1 = m
    OBVIOUS
  <2>2. QED BY <2>1 DEF Part
<1>7. QED BY <1>1, <1>4, <1>5, <1>6
\* Eight bytes one after the other are the zero bits after the word they make.
LEMMA ByBytesOfWord ==
  ASSUME NEW a \in Words, NEW buf, \A k \in 1..8 : buf[k] \in Bytes
  PROVE  ByBytes(a, buf)[8] = ZeroBits(Xor(a, Low(buf, 8)))[64] /\ Xor(a, Low(buf, 8)) \in Words
<1> DEFINE X(j) == Xor(a, Low(buf, j))
           T    == {j \in Nat : ByBytes(a, buf)[j] = ZeroBits(X(j))[8 * j]}
<1>1. /\ Low(buf, 0) = {}
      /\ \A j \in 0..8 : \A i \in Low(buf, j) : i \in 0..(8 * j - 1)
      /\ \A j \in 0..7 : Low(buf, j + 1) = Xor(Low(buf, j), {i + 8 * j : i \in buf[j + 1]})
  BY LowDef
<1>2. \A j \in 0..8 : X(j) \in Words
  <2>1. ASSUME NEW j \in 0..8 PROVE Low(buf, j) \in Words
    BY <1>1 DEF Words, Bits
  <2>2. QED BY <2>1, XorType
<1>3. 0 \in T
  <2>1. X(0) = a
    BY <1>1, XorRules
  <2>2. QED BY <2>1, ByBytesDef, ZeroBitsDef
<1>4. ASSUME NEW j \in 0..7, j \in T PROVE j + 1 \in T
  <2> DEFINE b == buf[j + 1]
             w == {i + 8 * j : i \in b}
  <2>1. j \in Nat /\ j + 1 \in 1..8 /\ 8 * j \in Nat /\ 8 * j + 8 = 8 * (j + 1) /\ 8 \in Nat
    OBVIOUS
  <2>2. b \in Bytes /\ b \in Words /\ \A i \in b : i \in 0..7
    BY <2>1, BytesAreWords
  <2>3. w \in Words /\ \A i \in w : i >= 8 * j
    BY <2>2 DEF Words, Bits
  <2>4. ZeroBits(w)[8 * j] = b
    <3>1. ZeroBits(w)[8 * j] = Shift(w, 8 * j)
      <4> HIDE DEF w
      <4>1. 8 * j \in 0..(8 * j)
        BY <2>1
      <4>2. QED BY <2>1, <2>3, <4>1, ZeroBitsBelow
    <3>2. ASSUME NEW i PROVE i \in Shift(w, 8 * j) <=> i \in b
      <4>1. i \in Shift(w, 8 * j) <=> i \in Nat /\ i + 8 * j \in w
        <5> HIDE DEF w
        <5>1. QED BY <2>1, <2>3, ShiftType
      <4>2. CASE i \in Nat
        <5>1. \A k \in b : k + 8 * j = i + 8 * j => k = i
          BY <2>2, <4>2
        <5>2. QED BY <4>1, <4>2, <5>1
      <4>3. CASE i \notin Nat
        <5>1. i \notin b
          BY <2>2, <4>3
        <5>2. QED BY <4>1, <4>3, <5>1
      <4>4. QED BY <4>2, <4>3
    <3>3. QED BY <3>1, <3>2
  <2>5. X(j + 1) = Xor(X(j), w)
    <3>1. Low(buf, j + 1) = Xor(Low(buf, j), w)
      BY <1>1
    <3> HIDE DEF w
    <3>2. QED BY <3>1, XorRules
  <2>6. X(j) \in Words /\ X(j + 1) \in Words
    BY <1>2, <2>1
  <2> HIDE DEF b, w, X
  <2>7. ByBytes(a, buf)[j + 1] = ZeroBits(Xor(ZeroBits(X(j))[8 * j], b))[8]
    <3>1. ByBytes(a, buf)[j + 1] = AddByte(ByBytes(a, buf)[j], b)
      BY <2>1, ByBytesDef DEF b
    <3>2. ZeroBits(X(j))[8 * j] \in Words
      BY <2>1, <2>6, ZeroBitsDef
    <3>3. AddByte(ZeroBits(X(j))[8 * j], b) = ZeroBits(Xor(ZeroBits(X(j))[8 * j], b))[8]
      BY <2>2, <3>2, AddByteDef
    <3>4. QED BY <1>4, <3>1, <3>3 DEF X
  <2>8. Xor(ZeroBits(X(j))[8 * j], b) = ZeroBits(X(j + 1))[8 * j]
    BY <2>1, <2>3, <2>4, <2>5, <2>6, ZeroBitsXor
  <2>9. ZeroBits(ZeroBits(X(j + 1))[8 * j])[8] = ZeroBits(X(j + 1))[8 * j + 8]
    BY <2>1, <2>6, ZeroBitsMore
  <2>10. ByBytes(a, buf)[j + 1] = ZeroBits(X(j + 1))[8 * (j + 1)]
    BY <2>1, <2>7, <2>8, <2>9
  <2>11. QED BY <2>10 DEF X
<1>5. 0..8 \subseteq T
  <2> HIDE DEF T
  <2>1. \A j \in 0..(8 - 1) : j \in T => j + 1 \in T
    BY <1>4
  <2>2. QED BY <1>3, <2>1, InductTo
<1>6. 8 \in T /\ X(8) \in Words
  BY <1>2, <1>5
<1>7. QED BY <1>6

LEMMA AddEightDef ==
  ASSUME NEW a \in Words, NEW buf, \A k \in 1..8 : buf[k] \in Bytes
  PROVE  AddEight(a, buf) = ByBytes(a, buf)[8]
<1> DEFINE c == Xor(a, Low(buf, 8))
<1>1. c \in Words /\ ByBytes(a, buf)[8] = ZeroBits(c)[64]
  BY ByBytesOfWord
<1>2. AddEight(a, buf) = ZeroBits(c)[64]
  BY <1>1, EightZeroBytes DEF AddEight
<1>3. QED BY <1>1, <1>2

LEMMA TableType == \A k \in 0..7 : \A n \in Bytes : Table[k][n] \in Words
  BY TableDef, BytesAreWords, ZeroBitsDef

LEMMA AddEightType == \A a, buf : AddEight(a, buf) \in Words
<1> SUFFICES ASSUME NEW a, NEW buf PROVE AddEight(a, buf) \in Words
    OBVIOUS
<1> DEFINE c    == Xor(a, Low(buf, 8))
           t(k) == Table[7 - k][Byte(c, k)]
<1>1. \A k \in 0..7 : t(k) \in Words
  <2>1. \A k \in 0..7 : 7 - k \in 0..7 /\ Byte(c, k) \in Bytes
    BY ByteType
  <2>2. QED BY <2>1, TableType
<1>2. AddEight(a, buf) =
        Xor(t(0), Xor(t(1), Xor(t(2), Xor(t(3), Xor(t(4), Xor(t(5), Xor(t(6), t(7))))))))
  BY DEF AddEight
<1> HIDE DEF t
<1>3. QED BY <1>1, <1>2, XorType
LEMMA ByEightsDef ==
  ASSUME NEW a \in Words, NEW buf
  PROVE  /\ ByEights(a, buf)[0] = a
         /\ \A e \in Nat : ByEights(a, buf)[e + 1]
                             = AddEight(ByEights(a, buf)[e], SubSeq(buf, 8 * e + 1, 8 * e + 8))
<1> DEFINE eight(e) == SubSeq(buf, 8 * e - 7, 8 * e)
           step     == [e \in Nat |-> [w \in Words |-> AddEight(w, eight(e))]]
<1>1. step \in [Nat -> [Words -> Words]]
  <2> HIDE DEF eight
  <2>1. QED BY AddEightType
<1>2. PICK f \in [Nat -> Words] : \A e \in Nat : f[e] = IF e = 0 THEN a ELSE step[e][f[e - 1]]
  <2> HIDE DEF step
  <2>1. QED BY <1>1, Loop
<1>3. f = [e \in Nat |-> IF e = 0 THEN a ELSE AddEight(f[e - 1], eight(e))]
  <2> HIDE DEF eight
  <2>1. ASSUME NEW e \in Nat, e # 0 PROVE f[e] = AddEight(f[e - 1], eight(e))
    <3>1. e - 1 \in Nat
      BY <2>1
    <3>2. f[e - 1] \in Words
      BY <3>1
    <3>3. QED BY <1>2, <2>1, <3>2
  <2>2. QED BY <1>2, <2>1
<1> DEFINE z == ByEights(a, buf)
<1>4. z = [e \in Nat |-> IF e = 0 THEN a ELSE AddEight(z[e - 1], eight(e))]
  BY <1>3 DEF ByEights
<1> HIDE DEF z, step, eight
<1>5. z[0] = a
  BY <1>4
<1>6. ASSUME NEW e \in Nat PROVE z[e + 1] = AddEight(z[e], SubSeq(buf, 8 * e + 1, 8 * e + 8))
  <2>1. e + 1 \in Nat /\ e + 1 # 0 /\ (e + 1) - 1 = e
    OBVIOUS
  <2>2. 8 * (e + 1) - 7 = 8 * e + 1 /\ 8 * (e + 1) = 8 * e + 8
    OBVIOUS
  <2>3. eight(e + 1) = SubSeq(buf, 8 * e + 1, 8 * e + 8)
    BY <2>2 DEF eight
  <2>4. QED BY <1>4, <2>1, <2>3
<1>7. QED BY <1>5, <1>6 DEF z

\* Some bytes of a buffer.
LEMMA SomeBytes ==
  ASSUME NEW buf \in Seq(Bytes), NEW m \in Nat, NEW n \in Nat, m + n <= Len(buf)
  PROVE  /\ SubSeq(buf, m + 1, m + n) \in Seq(Bytes)  /\ Len(SubSeq(buf, m + 1, m + n)) = n
         /\ Continues(SubSeq(buf, m + 1, m + n), buf, m, n)
         /\ \A i \in 1..n : SubSeq(buf, m + 1, m + n)[i] \in Bytes
<1>1. \A i \in (m + 1)..(m + n) : i \in 1..Len(buf)
  OBVIOUS
<1>2. /\ SubSeq(buf, m + 1, m + n) \in Seq(Bytes)
      /\ Len(SubSeq(buf, m + 1, m + n)) = IF m + 1 <= m + n THEN (m + n) - (m + 1) + 1 ELSE 0
      /\ \A i \in 1..((m + n) - (m + 1) + 1) :
           SubSeq(buf, m + 1, m + n)[i] = buf[(m + 1) + i - 1]
  BY <1>1, SubSeqProperties
<1>3. (m + n) - (m + 1) + 1 = n /\ \A i \in 1..n : (m + 1) + i - 1 = m + i /\ m + i \in 1..Len(buf)
  OBVIOUS
<1>4. QED BY <1>2, <1>3 DEF Continues

LEMMA ByEightsAreBytes ==
  ASSUME NEW a \in Words, NEW buf \in Seq(Bytes), NEW n \in Nat, 8 * n <= Len(buf)
  PROVE  ByEights(a, buf)[n] = ByBytes(a, buf)[8 * n]
<1> DEFINE T == {e \in Nat : ByEights(a, buf)[e] = ByBytes(a, buf)[8 * e]}
<1>1. 0 \in T
  <2>1. ByEights(a, buf)[0] = a /\ ByBytes(a, buf)[0] = a /\ 8 * 0 = 0
    BY ByEightsDef, ByBytesDef
  <2>2. QED BY <2>1
<1>2. ASSUME NEW e \in 0..(n - 1), e \in T PROVE e + 1 \in T
  <2> DEFINE part == SubSeq(buf, 8 * e + 1, 8 * e + 8)
             at   == ByBytes(a, buf)[8 * e]
  <2>1. e \in Nat /\ 8 * e \in Nat /\ 8 * e + 8 <= Len(buf) /\ 8 * e + 8 = 8 * (e + 1) /\ 8 \in 0..8
    OBVIOUS
  <2>2. Continues(part, buf, 8 * e, 8) /\ \A i \in 1..8 : part[i] \in Bytes
    BY <2>1, SomeBytes
  <2>3. at \in Words
    BY <2>1, ByBytesDef
  <2>4. ByEights(a, buf)[e + 1] = AddEight(at, part)
    BY <1>2, <2>1, ByEightsDef
  <2> HIDE DEF part
  <2>5. AddEight(at, part) = ByBytes(at, part)[8]
    BY <2>2, <2>3, AddEightDef
  <2>6. ByBytes(at, part)[8] = ByBytes(a, buf)[8 * e + 8]
    BY <2>1, <2>2, ByBytesMore
  <2>7. QED BY <2>1, <2>4, <2>5, <2>6
<1>3. 0..n \subseteq T
  <2> HIDE DEF T
  <2>1. QED BY <1>1, <1>2, InductTo
<1>4. n \in 0..n
  OBVIOUS
<1>5. QED BY <1>3, <1>4

(***************************************************************************)
(* Whatever the address, the three loops of crc64_little are one over the  *)
(* bytes.                                                                  *)
(***************************************************************************)
LEMMA LittleDef ==
  ASSUME NEW a \in Words, NEW buf \in Seq(Bytes), NEW address \in Nat
  PROVE  crc64_little(a, buf, address) = Bits \ ByBytes(Bits \ a, buf)[Len(buf)]
<1> DEFINE len    == Len(buf)
           ahead  == (8 - (address % 8)) % 8
           first  == IF len < ahead THEN len ELSE ahead
           eights == (len - first) \div 8
           rest   == len - first - 8 * eights
           c      == Bits \ a
           head   == ByBytes(c, buf)[first]
           middle == SubSeq(buf, first + 1, len)
           body   == ByEights(head, middle)[eights]
           last   == SubSeq(buf, first + 8 * eights + 1, len)
<1>1. len \in Nat
  OBVIOUS
<1>2. first \in Nat /\ first <= len
  <2>1. address % 8 \in 0..7
    OBVIOUS
  <2>2. ahead \in Nat
    BY <2>1
  <2> HIDE DEF ahead, len
  <2>3. QED BY <1>1, <2>2
<1>3. eights \in Nat /\ 8 * eights <= len - first /\ rest \in Nat
  <2> HIDE DEF len, first
  <2>1. len - first \in Nat
    BY <1>1, <1>2
  <2>2. QED BY <1>1, <1>2, <2>1
<1>4. c \in Words
  BY DEF Words
<1>5. crc64_little(a, buf, address) = Bits \ ByBytes(body, last)[rest]
  BY DEF crc64_little
<1> HIDE DEF ahead, first, eights, rest, c
<1>6. /\ middle \in Seq(Bytes)  /\ 8 * eights <= Len(middle)
      /\ Continues(middle, buf, first, 8 * eights)
  <2> DEFINE n == len - first
  <2>1. n \in Nat /\ first + n = len
    BY <1>1, <1>2
  <2> HIDE DEF n
  <2>2. first + n <= Len(buf)
    BY <1>1, <2>1
  <2> HIDE DEF len
  <2>6. middle = SubSeq(buf, first + 1, first + n)
    BY <2>1
  <2> HIDE DEF middle
  <2>3. middle \in Seq(Bytes) /\ Len(middle) = n /\ Continues(middle, buf, first, n)
    BY <1>2, <2>1, <2>2, <2>6, SomeBytes
  <2>4. 8 * eights <= n /\ \A i \in 1..(8 * eights) : i \in 1..n
    BY <1>3, <2>1 DEF n
  <2>5. QED BY <2>3, <2>4 DEF Continues
<1>7. Continues(last, buf, first + 8 * eights, rest)
  <2> DEFINE m == first + 8 * eights
  <2>1. m + rest = len /\ m \in Nat
    BY <1>1, <1>2, <1>3 DEF rest
  <2>2. last = SubSeq(buf, m + 1, m + rest) /\ m + rest <= Len(buf)
    BY <2>1
  <2> HIDE DEF m, last
  <2>3. Continues(last, buf, m, rest)
    BY <1>3, <2>1, <2>2, SomeBytes
  <2>4. QED BY <2>3 DEF m
<1> HIDE DEF middle, last
<1>8. head \in Words
  BY <1>2, <1>4, ByBytesDef
<1>9. body = ByBytes(head, middle)[8 * eights]
  BY <1>3, <1>6, <1>8, ByEightsAreBytes
<1>10. ByBytes(head, middle)[8 * eights] = ByBytes(c, buf)[first + 8 * eights]
  <2> DEFINE n == 8 * eights
  <2>1. n \in Nat
    BY <1>3
  <2> HIDE DEF n
  <2>2. Continues(middle, buf, first, n)
    BY <1>6 DEF n
  <2>3. ByBytes(head, middle)[n] = ByBytes(c, buf)[first + n]
    BY <1>2, <1>4, <2>1, <2>2, ByBytesMore
  <2>4. QED BY <2>3 DEF n
<1>11. ByBytes(body, last)[rest] = ByBytes(c, buf)[(first + 8 * eights) + rest]
  <2> DEFINE m == first + 8 * eights
  <2>1. m \in Nat
    BY <1>2, <1>3
  <2> HIDE DEF len, body, head
  <2>2. body = ByBytes(c, buf)[m]
    BY <1>9, <1>10
  <2>3. Continues(last, buf, m, rest)
    BY <1>7
  <2> HIDE DEF m
  <2>4. ByBytes(body, last)[rest] = ByBytes(c, buf)[m + rest]
    BY <1>3, <1>4, <2>1, <2>2, <2>3, ByBytesMore
  <2>5. QED BY <2>4 DEF m
<1>12. (first + 8 * eights) + rest = len
  BY <1>1, <1>2, <1>3 DEF rest
<1>13. QED BY <1>5, <1>11, <1>12 DEF c

LEMMA BitwiseDef ==
  ASSUME NEW bytes \in Seq(Bytes)
  PROVE  Bitwise(bytes) = Bits \ ByBytes(Bits, bytes)[Len(bytes)]
<1> DEFINE zero  == [crc \in Words |-> ZeroBits(crc)[8]]
           Step(w, n) == zero[Xor(w, bytes[n])]
           after == CHOOSE after : after = [n \in 0..Len(bytes) |->
                                              IF n = 0 THEN Bits ELSE Step(after[n - 1], n)]
           f     == [n \in 0..Len(bytes) |-> ByBytes(Bits, bytes)[n]]
<1>1. Bits \in Words
  BY DEF Words
<1>2. ASSUME NEW n \in 1..Len(bytes) PROVE f[n] = Step(f[n - 1], n)
  <2>1. n - 1 \in 0..Len(bytes) /\ n - 1 \in Nat /\ (n - 1) + 1 = n /\ n \in 0..Len(bytes)
    OBVIOUS
  <2>2. bytes[n] \in Bytes /\ ByBytes(Bits, bytes)[n - 1] \in Words
    BY <1>1, <2>1, ByBytesDef
  <2>3. ByBytes(Bits, bytes)[n] = AddByte(ByBytes(Bits, bytes)[n - 1], bytes[n])
    BY <1>1, <2>1, ByBytesDef
  <2>4. Xor(ByBytes(Bits, bytes)[n - 1], bytes[n]) \in Words
    BY <2>2, BytesAreWords, XorType
  <2>5. QED BY <2>1, <2>2, <2>3, <2>4, AddByteDef
<1>3. f = [n \in 0..Len(bytes) |-> IF n = 0 THEN Bits ELSE Step(f[n - 1], n)]
  <2>1. f[0] = Bits
    BY <1>1, ByBytesDef
  <2>2. f = [n \in 0..Len(bytes) |-> f[n]]
    OBVIOUS
  <2> HIDE DEF Step, f
  <2>3. \A n \in 0..Len(bytes) : f[n] = IF n = 0 THEN Bits ELSE Step(f[n - 1], n)
    <3>1. \A n \in 0..Len(bytes) : n # 0 => n \in 1..Len(bytes)
      OBVIOUS
    <3>2. QED BY <1>2, <2>1, <3>1
  <2>4. QED BY <2>2, <2>3
<1>4. after = [n \in 0..Len(bytes) |-> IF n = 0 THEN Bits ELSE Step(after[n - 1], n)]
  <2> HIDE DEF f, Step
  <2>1. QED BY <1>3
<1>5. Bitwise(bytes) = Bits \ after[Len(bytes)]
  BY DEF Bitwise
<1> HIDE DEF after, f, Step, zero
<1> DEFINE T == {n \in Nat : after[n] = f[n]}
<1>6. 0 \in T
  BY <1>3, <1>4
<1>7. ASSUME NEW n \in 0..(Len(bytes) - 1), n \in T PROVE n + 1 \in T
  <2>1. n + 1 \in 0..Len(bytes) /\ n + 1 # 0 /\ (n + 1) - 1 = n
    OBVIOUS
  <2>2. after[n + 1] = Step(after[n], n + 1) /\ f[n + 1] = Step(f[n], n + 1)
    BY <1>3, <1>4, <2>1
  <2>3. QED BY <1>7, <2>2
<1>8. 0..Len(bytes) \subseteq T
  <2> HIDE DEF T
  <2>1. QED BY <1>6, <1>7, InductTo
<1>9. Len(bytes) \in 0..Len(bytes) /\ after[Len(bytes)] = f[Len(bytes)]
  <2>1. Len(bytes) \in 0..Len(bytes)
    OBVIOUS
  <2>2. QED BY <1>8, <2>1
<1>10. QED BY <1>5, <1>9 DEF f

(***************************************************************************)
(* For every buffer and address, the checksum computed eight bytes at a    *)
(* time is the CRC of the polynomial, bit by bit.                          *)
(***************************************************************************)
THEOREM LittleIsBitwise ==
  ASSUME NEW bytes \in Seq(Bytes), NEW address \in Nat
  PROVE  crc64_little({}, bytes, address) = Bitwise(bytes)
<1>1. {} \in Words /\ Bits \ {} = Bits
  BY DEF Words
<1>2. QED BY <1>1, LittleDef, BitwiseDef
-----------------------------------------------------------------------------
(***************************************************************************)
(* Checksums that are combined.                                            *)
(***************************************************************************)
SumsUp(f, mat, vec) ==
  /\ f \in [Nat -> Words]  /\ Times(mat, vec) = f[64]  /\ f[0] = {}
  /\ \A n \in Nat : f[n + 1] = IF n \in vec THEN Xor(f[n], mat[n + 1]) ELSE f[n]

\* The rows of the first n bits of a vector in which a bit is 1.
RowsWith(mat, vec, b, n) == {m \in vec : m < n /\ b \in mat[m + 1]}
Odd(T) == Cardinality(T) % 2 = 1

LEMMA OddMore ==
  ASSUME NEW T, IsFiniteSet(T), NEW n, n \notin T
  PROVE  Odd(T \union {n}) <=> ~Odd(T)
<1>1. Cardinality(T) \in Nat /\ Cardinality(T \union {n}) = Cardinality(T) + 1
  BY FS_AddElement, FS_CardinalityType
<1>2. QED BY <1>1 DEF Odd

LEMMA TimesLoop ==
  ASSUME NEW mat \in Matrices, NEW vec \in Words
  PROVE  \E f : SumsUp(f, mat, vec)
<1> DEFINE R(b, n) == RowsWith(mat, vec, b, n)
           f == [n \in Nat |-> {b \in Bits : Odd(R(b, n))}]
<1>1. \A m \in vec : m \in 0..63
  BY DEF Words, Bits
<1>2. ASSUME NEW b, NEW n \in Nat PROVE IsFiniteSet(R(b, n))
  <2>1. R(b, n) \subseteq 0..63
    BY <1>1 DEF RowsWith
  <2>2. IsFiniteSet(0..63)
    <3>1. 0 \in Int /\ 63 \in Int
      OBVIOUS
    <3>2. QED BY <3>1, FS_Interval
  <2>3. QED BY <2>1, <2>2, FS_Subset
<1>3. f \in [Nat -> Words]
  BY DEF Words
<1>4. Times(mat, vec) = f[64]
  <2>1. ASSUME NEW b PROVE R(b, 64) = {n \in vec : b \in mat[n + 1]}
    BY <1>1 DEF RowsWith
  <2>2. f[64] = {b \in Bits : Odd(R(b, 64))}
    OBVIOUS
  <2>3. QED BY <2>1, <2>2 DEF Times, Odd
<1>5. f[0] = {}
  <2>1. ASSUME NEW b PROVE ~Odd(R(b, 0))
    <3>1. R(b, 0) = {}
      BY <1>1 DEF RowsWith
    <3>2. Cardinality({}) = 0
      BY FS_EmptySet
    <3>3. QED BY <3>1, <3>2 DEF Odd
  <2>2. QED BY <2>1
<1>6. ASSUME NEW n \in Nat PROVE f[n + 1] = IF n \in vec THEN Xor(f[n], mat[n + 1]) ELSE f[n]
  <2>1. /\ f[n] = {b \in Bits : Odd(R(b, n))}
        /\ f[n + 1] = {b \in Bits : Odd(R(b, n + 1))}
    OBVIOUS
  <2>2. ASSUME NEW b PROVE R(b, n + 1) = IF n \in vec /\ b \in mat[n + 1] THEN R(b, n) \union {n} ELSE R(b, n)
    <3>1. \A m \in vec : m < n + 1 <=> m < n \/ m = n
      BY <1>1
    <3>2. QED BY <3>1 DEF RowsWith
  <2>3. CASE n \notin vec
    BY <2>1, <2>2, <2>3
  <2>4. CASE n \in vec
    <3>1. mat[n + 1] \subseteq Bits
      <4>1. n + 1 \in 1..64
        BY <1>1, <2>4
      <4>2. QED BY <4>1 DEF Matrices, Words
    <3>2. ASSUME NEW b PROVE Odd(R(b, n + 1)) <=> IF b \in mat[n + 1] THEN ~Odd(R(b, n)) ELSE Odd(R(b, n))
      <4>0. n \notin R(b, n)
        BY DEF RowsWith
      <4>1. IsFiniteSet(R(b, n)) /\ n \notin R(b, n)
        BY <1>2, <4>0
      <4>2. R(b, n + 1) = IF b \in mat[n + 1] THEN R(b, n) \union {n} ELSE R(b, n)
        BY <2>2, <2>4
      <4> HIDE DEF R
      <4>3. QED BY <4>1, <4>2, OddMore
    <3> HIDE DEF f, R
    <3>3. ASSUME NEW b PROVE b \in f[n + 1] <=> b \in Xor(f[n], mat[n + 1])
      BY <2>1, <3>1, <3>2 DEF Xor
    <3>4. f[n + 1] = Xor(f[n], mat[n + 1])
      BY <3>3
    <3>5. QED BY <2>4, <3>4
  <2>5. QED BY <2>3, <2>4
<1> HIDE DEF f
<1>7. QED BY <1>3, <1>4, <1>5, <1>6 DEF SumsUp

LEMMA TimesType == \A mat \in Matrices : \A vec \in Words : Times(mat, vec) \in Words
<1> SUFFICES ASSUME NEW mat \in Matrices, NEW vec \in Words PROVE Times(mat, vec) \in Words
    OBVIOUS
<1>1. PICK f : SumsUp(f, mat, vec)
  BY TimesLoop
<1>2. QED BY <1>1 DEF SumsUp

LEMMA SquareType == \A mat \in Matrices : Square(mat) \in Matrices
  BY TimesType DEF Square, Matrices

\* The matrix of k zero bits.
Zeros(k) == [n \in 1..64 |-> ZeroBits({n - 1})[k]]

LEMMA BitsAreWords == \A n \in 1..64 : {n - 1} \in Words
  BY DEF Words, Bits

LEMMA ZerosType == \A k \in Nat : Zeros(k) \in Matrices
  BY BitsAreWords, ZeroBitsDef DEF Zeros, Matrices

LEMMA TimesZeros ==
  ASSUME NEW k \in Nat, NEW vec \in Words
  PROVE  Times(Zeros(k), vec) = ZeroBits(vec)[k]
<1> DEFINE Below(n) == {i \in vec : i < n}
<1>0. PICK f : SumsUp(f, Zeros(k), vec)
  BY ZerosType, TimesLoop
<1>1. /\ Times(Zeros(k), vec) = f[64]  /\ f[0] = {}
      /\ \A n \in Nat : f[n + 1] = IF n \in vec THEN Xor(f[n], Zeros(k)[n + 1]) ELSE f[n]
  BY <1>0 DEF SumsUp
<1> DEFINE Same == {n \in Nat : f[n] = ZeroBits(Below(n))[k]}
<1>2. \A n \in Nat : Below(n) \in Words
  BY DEF Words
<1>3. 0 \in Same
  <2>1. Below(0) = {}
    <3>1. \A i \in vec : ~ (i < 0)
      BY DEF Words, Bits
    <3>2. QED BY <3>1
  <2>2. {} \in Words /\ Xor({}, {}) = {}
    BY DEF Words, Xor
  <2>3. ZeroBits(Xor({}, {}))[k] = Xor(ZeroBits({})[k], ZeroBits({})[k])
    BY <2>2, ZeroBitsXor
  <2>4. ZeroBits({})[k] = {}
    BY <2>2, <2>3, XorRules
  <2>5. QED BY <1>1, <2>1, <2>4
<1>4. ASSUME NEW n \in 0..63, n \in Same PROVE n + 1 \in Same
  <2>1. n \in Nat /\ n + 1 \in Nat /\ n + 1 \in 1..64 /\ (n + 1) - 1 = n
    OBVIOUS
  <2>2. CASE n \in vec
    <3>1. Below(n + 1) = Xor(Below(n), {n})
      <4>1. \A i \in vec : i < n + 1 <=> i < n \/ i = n
        BY <2>1 DEF Words, Bits
      <4>2. n \notin Below(n)
        BY <2>1
      <4>3. QED BY <2>2, <4>1, <4>2 DEF Xor
    <3>2. {n} \in Words /\ Zeros(k)[n + 1] = ZeroBits({n})[k]
      BY <2>1, BitsAreWords DEF Zeros
    <3>3. f[n + 1] = Xor(f[n], ZeroBits({n})[k])
      BY <1>1, <2>1, <2>2, <3>2
    <3>4. ZeroBits(Xor(Below(n), {n}))[k] = Xor(ZeroBits(Below(n))[k], ZeroBits({n})[k])
      <4> HIDE DEF Below
      <4>1. QED BY <1>2, <2>1, <3>2, ZeroBitsXor
    <3>5. QED BY <1>4, <2>1, <3>1, <3>3, <3>4
  <2>3. CASE n \notin vec
    <3>1. Below(n + 1) = Below(n)
      <4>1. \A i \in vec : i < n + 1 <=> i < n \/ i = n
        BY <2>1 DEF Words, Bits
      <4>2. QED BY <2>3, <4>1
    <3>2. QED BY <1>1, <1>4, <2>1, <2>3, <3>1
  <2>4. QED BY <2>2, <2>3
<1>5. 0..64 \subseteq Same
  <2> HIDE DEF Same
  <2>1. \A n \in 0..(64 - 1) : n \in Same => n + 1 \in Same
    BY <1>4
  <2>2. QED BY <1>3, <2>1, InductTo
<1>6. Below(64) = vec
  <2>1. \A i \in vec : i < 64
    BY DEF Words, Bits
  <2>2. QED BY <2>1
<1>7. f[64] = ZeroBits(Below(64))[k]
  BY <1>5
<1>8. QED BY <1>1, <1>6, <1>7

LEMMA SquareZeros == \A k \in Nat : Square(Zeros(k)) = Zeros(k + k)
<1> SUFFICES ASSUME NEW k \in Nat PROVE Square(Zeros(k)) = Zeros(k + k)
    OBVIOUS
<1>1. ASSUME NEW n \in 1..64 PROVE Times(Zeros(k), Zeros(k)[n]) = Zeros(k + k)[n]
  <2> DEFINE bit == {n - 1}
  <2>0. bit \in Words /\ k + k \in Nat
    <3>1. k + k \in Nat
      OBVIOUS
    <3>2. bit \in Words
      BY BitsAreWords
    <3>3. QED BY <3>1, <3>2
  <2>1. {n - 1} \in Words /\ ZeroBits({n - 1})[k] \in Words /\ k + k \in Nat
    <3>1. bit \in Words
      BY <2>0
    <3> HIDE DEF bit
    <3>2. ZeroBits(bit)[k] \in Words
      BY <3>1, ZeroBitsDef
    <3>3. QED BY <2>0, <3>2 DEF bit
  <2>2. Zeros(k)[n] = ZeroBits({n - 1})[k] /\ Zeros(k + k)[n] = ZeroBits({n - 1})[k + k]
    BY DEF Zeros
  <2>3. Times(Zeros(k), ZeroBits({n - 1})[k]) = ZeroBits(ZeroBits({n - 1})[k])[k]
    BY <2>1, TimesZeros
  <2>4. QED BY <2>1, <2>2, <2>3, ZeroBitsMore
<1>2. Zeros(k + k) = [n \in 1..64 |-> Zeros(k + k)[n]]
  BY DEF Zeros
<1>3. QED BY <1>1, <1>2 DEF Square

LEMMA OneZeroByteDef == OneZeroByte = Zeros(8)
<1>1. OneZeroBit = Zeros(1)
  <2>1. ASSUME NEW n \in 1..64 PROVE ZeroBits({n - 1})[1] = IF n = 1 THEN POLY ELSE {n - 2}
    <3>1. ZeroBits({n - 1})[1] = ShiftBit({n - 1})
      <4>1. 0 \in Nat /\ 0 + 1 = 1
        OBVIOUS
      <4>2. QED BY <4>1, BitsAreWords, ZeroBitsDef
    <3>2. CASE n = 1
      <4>1. Shift({0}, 1) = {}
        BY DEF Shift
      <4>2. ShiftBit({0}) = POLY
        BY <4>1, XorRules DEF ShiftBit
      <4>3. n - 1 = 0
        BY <3>2
      <4>4. QED BY <3>1, <3>2, <4>2, <4>3
    <3>3. CASE n # 1
      <4>1. Shift({n - 1}, 1) = {n - 2}
        BY <3>3 DEF Shift
      <4>2. 0 \notin {n - 1}
        BY <3>3
      <4>3. QED BY <3>1, <3>3, <4>1, <4>2 DEF ShiftBit
    <3>4. QED BY <3>2, <3>3
  <2>2. QED BY <2>1 DEF OneZeroBit, Zeros
<1>2. Square(Zeros(1)) = Zeros(2) /\ Square(Zeros(2)) = Zeros(4) /\ Square(Zeros(4)) = Zeros(8)
  <2>1. 1 \in Nat /\ 1 + 1 = 2 /\ 2 \in Nat /\ 2 + 2 = 4 /\ 4 \in Nat /\ 4 + 4 = 8
    OBVIOUS
  <2>2. QED BY <2>1, SquareZeros
<1>3. QED BY <1>1, <1>2 DEF OneZeroByte, FourZeroBits, TwoZeroBits

\* The next state of the loop of crc64_combine.
Half(l) == [len |-> l.len \div 2,
            crc |-> IF l.len % 2 = 1 THEN Times(l.mat, l.crc) ELSE l.crc,
            mat |-> Square(l.mat)]

LEMMA HalfType == \A l \in Rests : l.len # 0 => Half(l) \in Rests /\ Half(l).len < l.len
<1> SUFFICES ASSUME NEW l \in Rests, l.len # 0 PROVE Half(l) \in Rests /\ Half(l).len < l.len
    OBVIOUS
<1>1. l.len \in Nat /\ l.crc \in Words /\ l.mat \in Matrices
  BY DEF Rests
<1>2. l.len \div 2 \in Nat /\ l.len \div 2 < l.len
  BY <1>1
<1>3. Times(l.mat, l.crc) \in Words /\ Square(l.mat) \in Matrices
  BY <1>1, TimesType, SquareType
<1>4. QED BY <1>1, <1>2, <1>3 DEF Half, Rests

LEMMA AddZerosDef == \A l \in Rests : AddZeros[l] = IF l.len = 0 THEN l.crc ELSE AddZeros[Half(l)]
<1> DEFINE left    == [l \in Rests |-> l.len]
           ends    == {l \in Rests : l.len = 0}
           next    == [l \in Rests \ ends |-> Half(l)]
           result  == [l \in Rests |-> l.crc]
           combine == [l \in Rests \ ends |-> [w \in Words |-> w]]
<1>1. Ending(Rests, Words, left, ends, next, result, combine)
  <2>1. left \in [Rests -> Nat] /\ ends \in SUBSET Rests /\ result \in [Rests -> Words]
    BY DEF Rests
  <2>2. next \in [Rests \ ends -> Rests]
    BY HalfType
  <2>3. combine \in [Rests \ ends -> [Words -> Words]]
    OBVIOUS
  <2>4. \A l \in Rests \ ends : left[next[l]] < left[l]
    BY HalfType
  <2> HIDE DEF left, ends, next, result, combine
  <2>5. QED BY <2>1, <2>2, <2>3, <2>4 DEF Ending
<1>2. PICK f : Solves(f, Rests, Words, ends, next, result, combine)
  <2> HIDE DEF left, ends, next, result, combine
  <2>1. QED BY <1>1, Recursion
<1>3. f \in [Rests -> Words] /\ \A l \in Rests : f[l] = IF l.len = 0 THEN l.crc ELSE f[Half(l)]
  <2>1. f \in [Rests -> Words]
    BY <1>2 DEF Solves
  <2>2. ASSUME NEW l \in Rests, l.len = 0 PROVE f[l] = l.crc
    BY <1>2, <2>2 DEF Solves
  <2>3. ASSUME NEW l \in Rests, l.len # 0 PROVE f[l] = f[Half(l)]
    <3>1. f[l] = combine[l][f[next[l]]] /\ l \in Rests \ ends
      BY <1>2, <2>3 DEF Solves
    <3>2. next[l] = Half(l) /\ f[Half(l)] \in Words
      BY <2>1, <2>3, <3>1, HalfType
    <3>3. QED BY <3>1, <3>2
  <2>4. QED BY <2>1, <2>2, <2>3
<1>4. f = [l \in Rests |-> IF l.len = 0 THEN l.crc ELSE f[Half(l)]]
  BY <1>3
<1>5. AddZeros = [l \in Rests |-> IF l.len = 0 THEN l.crc ELSE AddZeros[Half(l)]]
  BY <1>4 DEF AddZeros, Rests, Half, Matrices
<1>6. QED BY <1>5

\* With the matrix of k zero bits the loop adds k zero bits for each of the length.
LEMMA AddZerosAdds ==
  ASSUME NEW len \in Nat, NEW crc \in Words, NEW k \in Nat
  PROVE  AddZeros[[len |-> len, crc |-> crc, mat |-> Zeros(k)]] = ZeroBits(crc)[k * len]
<1> DEFINE left == [l \in Rests |-> l.len]
           Good == {l \in Rests : \A i \in Nat : l.mat = Zeros(i) =>
                                    AddZeros[l] = ZeroBits(l.crc)[i * l.len]}
<1>1. ASSUME NEW l \in Rests, \A t \in Rests : left[t] < left[l] => t \in Good
      PROVE  l \in Good
  <2> SUFFICES ASSUME NEW i \in Nat, l.mat = Zeros(i)
               PROVE  AddZeros[l] = ZeroBits(l.crc)[i * l.len]
      OBVIOUS
  <2>1. l.len \in Nat /\ l.crc \in Words
    BY DEF Rests
  <2>2. CASE l.len = 0
    <3>1. i * l.len = 0
      BY <2>2
    <3>2. QED BY <2>1, <2>2, <3>1, AddZerosDef, ZeroBitsDef
  <2>3. CASE l.len # 0
    <3> DEFINE h == l.len \div 2
    <3>1. Half(l) \in Rests /\ Half(l).len < l.len /\ AddZeros[l] = AddZeros[Half(l)]
      BY <2>3, HalfType, AddZerosDef
    <3>2. Half(l) \in Good
      BY <1>1, <3>1
    <3>3. Half(l).mat = Zeros(i + i) /\ i + i \in Nat /\ Half(l).len = h
      BY SquareZeros DEF Half
    <3>4. AddZeros[Half(l)] = ZeroBits(Half(l).crc)[(i + i) * h]
      BY <3>2, <3>3
    <3>5. h \in Nat /\ (i + i) * h \in Nat
      BY <2>1
    <3>6. CASE l.len % 2 = 1
      <4>1. Half(l).crc = ZeroBits(l.crc)[i]
        BY <2>1, <3>6, TimesZeros DEF Half
      <4>2. ZeroBits(ZeroBits(l.crc)[i])[(i + i) * h] = ZeroBits(l.crc)[i + (i + i) * h]
        BY <2>1, <3>5, ZeroBitsMore
      <4>3. i + (i + i) * h = i * l.len
        <5>1. l.len = 2 * h + 1
          BY <2>1, <3>6
        <5> HIDE DEF h
        <5>2. i * (2 * h + 1) = i + (i + i) * h
          BY <3>5
        <5>3. QED BY <5>1, <5>2
      <4>4. QED BY <3>1, <3>4, <4>1, <4>2, <4>3
    <3>7. CASE l.len % 2 # 1
      <4>1. Half(l).crc = l.crc
        BY <3>7 DEF Half
      <4>2. (i + i) * h = i * l.len
        <5>1. l.len = 2 * h
          BY <2>1, <3>7
        <5> HIDE DEF h
        <5>2. i * (2 * h) = (i + i) * h
          BY <3>5
        <5>3. QED BY <5>1, <5>2
      <4>3. QED BY <3>1, <3>4, <4>1, <4>2
    <3>8. QED BY <3>6, <3>7
  <2>4. QED BY <2>2, <2>3
<1>2. left \in [Rests -> Nat]
  BY DEF Rests
<1>3. Rests \subseteq Good
  <2> HIDE DEF left, Good
  <2>1. QED BY <1>1, <1>2, MeasureInduct
<1> DEFINE l == [len |-> len, crc |-> crc, mat |-> Zeros(k)]
<1>4. l \in Rests /\ l.mat = Zeros(k) /\ l.len = len /\ l.crc = crc
  BY ZerosType DEF Rests
<1>5. l \in Good
  BY <1>3, <1>4
<1> HIDE DEF l
<1>6. AddZeros[l] = ZeroBits(l.crc)[k * l.len]
  BY <1>4, <1>5
<1>7. QED BY <1>4, <1>6 DEF l

LEMMA CombineDef ==
  ASSUME NEW crc1 \in Words, NEW crc2 \in Words, NEW len2 \in Nat
  PROVE  len2 # 0 => CombineCRC(crc1, crc2, len2) = Xor(ZeroBits(crc1)[8 * len2], crc2)
<1>1. 8 \in Nat
  OBVIOUS
<1>2. AddZeros[[len |-> len2, crc |-> crc1, mat |-> Zeros(8)]] = ZeroBits(crc1)[8 * len2]
  BY <1>1, AddZerosAdds
<1>3. QED BY <1>2, OneZeroByteDef DEF CombineCRC

\* What a change of the first word changes in the checksum of the bytes after it.
LEMMA ByBytesXor ==
  ASSUME NEW a \in Words, NEW d \in Words, NEW buf \in Seq(Bytes)
  PROVE  \A m \in 0..Len(buf) :
           ByBytes(Xor(a, d), buf)[m] = Xor(ByBytes(a, buf)[m], ZeroBits(d)[8 * m])
<1> DEFINE T == {m \in Nat :
                   ByBytes(Xor(a, d), buf)[m] = Xor(ByBytes(a, buf)[m], ZeroBits(d)[8 * m])}
<1>1. Xor(a, d) \in Words
  BY XorType
<1>2. 0 \in T
  <2>1. 8 * 0 = 0
    OBVIOUS
  <2>2. QED BY <1>1, <2>1, ByBytesDef, ZeroBitsDef
<1>3. ASSUME NEW m \in 0..(Len(buf) - 1), m \in T PROVE m + 1 \in T
  <2> DEFINE x == ByBytes(a, buf)[m]
             z == ZeroBits(d)[8 * m]
             b == buf[m + 1]
  <2>1. m \in Nat /\ m + 1 \in 1..Len(buf) /\ 8 * m \in Nat /\ 8 * m + 8 = 8 * (m + 1) /\ 8 \in Nat
    OBVIOUS
  <2>2. b \in Bytes /\ x \in Words /\ z \in Words
    <3>1. b \in Bytes
      BY <2>1
    <3>2. x \in Words
      BY <2>1, ByBytesDef
    <3>3. z \in Words
      BY <2>1, ZeroBitsDef
    <3>4. QED BY <3>1, <3>2, <3>3
  <2>3. ByBytes(Xor(a, d), buf)[m + 1] = AddByte(Xor(x, z), b)
    <3>1. ByBytes(Xor(a, d), buf)[m + 1] = AddByte(ByBytes(Xor(a, d), buf)[m], buf[m + 1])
      BY <1>1, <2>1, ByBytesDef
    <3>2. ByBytes(Xor(a, d), buf)[m] = Xor(x, z)
      BY <1>3
    <3>3. QED BY <3>1, <3>2
  <2>4. ByBytes(a, buf)[m + 1] = AddByte(x, b)
    BY <2>1, ByBytesDef
  <2>5. ZeroBits(z)[8] = ZeroBits(d)[8 * (m + 1)]
    <3>1. ZeroBits(ZeroBits(d)[8 * m])[8] = ZeroBits(d)[8 * m + 8]
      BY <2>1, ZeroBitsMore
    <3>2. QED BY <2>1, <3>1
  <2> HIDE DEF x, z, b
  <2>6. b \in Words /\ Xor(x, z) \in Words /\ Xor(x, b) \in Words
    BY <2>2, BytesAreWords, XorType
  <2>7. Xor(Xor(x, z), b) = Xor(Xor(x, b), z)
    BY DEF Xor
  <2>8. ZeroBits(Xor(Xor(x, b), z))[8] = Xor(ZeroBits(Xor(x, b))[8], ZeroBits(z)[8])
    BY <2>1, <2>2, <2>6, ZeroBitsXor
  <2>9. AddByte(Xor(x, z), b) = ZeroBits(Xor(Xor(x, z), b))[8] /\ AddByte(x, b) = ZeroBits(Xor(x, b))[8]
    BY <2>2, <2>6, AddByteDef
  <2>10. AddByte(Xor(x, z), b) = Xor(AddByte(x, b), ZeroBits(z)[8])
    BY <2>7, <2>8, <2>9
  <2>11. QED BY <2>3, <2>4, <2>5, <2>10
<1>4. 0..Len(buf) \subseteq T
  <2> HIDE DEF T
  <2>1. Len(buf) \in Nat
    OBVIOUS
  <2>2. QED BY <1>2, <1>3, <2>1, InductTo
<1>5. QED BY <1>4
LEMMA PartCrcDef ==
  ASSUME NEW bytes \in Seq(Bytes), NEW m \in Nat, NEW n \in Nat, m + n <= Len(bytes)
  PROVE  PartCrc(bytes, m + 1, m + n) = Bits \ ByBytes(Bits, SubSeq(bytes, m + 1, m + n))[n]
<1> DEFINE more == SubSeq(bytes, m + 1, m + n)
<1>1. more \in Seq(Bytes) /\ Len(more) = n
  BY SomeBytes
<1>2. {} \in Words /\ Bits \ {} = Bits /\ m + 1 \in Nat
  BY DEF Words
<1>3. PartCrc(bytes, m + 1, m + n) = crc64_little({}, more, m + 1)
  BY DEF PartCrc
<1> HIDE DEF more
<1>4. crc64_little({}, more, m + 1) = Bits \ ByBytes(Bits \ {}, more)[Len(more)]
  BY <1>1, <1>2, LittleDef
<1>5. QED BY <1>1, <1>2, <1>3, <1>4 DEF more

\* The checksum of the first bytes of an object.
FirstCrc(bytes, k) == Bits \ ByBytes(Bits, bytes)[k]

LEMMA WholeCrc ==
  ASSUME NEW bytes \in Seq(Bytes), NEW k \in 0..Len(bytes)
  PROVE  PartCrc(bytes, 1, k) = FirstCrc(bytes, k)
<1> DEFINE more == SubSeq(bytes, 0 + 1, 0 + k)
<1>1. k \in Nat /\ 0 \in Nat /\ 0 + k <= Len(bytes) /\ 0 + 1 = 1 /\ 0 + k = k
  OBVIOUS
<1>2. Bits \in Words
  BY DEF Words
<1>3. Continues(more, bytes, 0, k)
  BY <1>1, SomeBytes
<1>4. PartCrc(bytes, 0 + 1, 0 + k) = Bits \ ByBytes(Bits, more)[k]
  BY <1>1, PartCrcDef
<1> HIDE DEF more
<1>5. ByBytes(ByBytes(Bits, bytes)[0], more)[k] = ByBytes(Bits, bytes)[0 + k]
  BY <1>1, <1>2, <1>3, ByBytesMore
<1>6. ByBytes(Bits, bytes)[0] = Bits
  BY <1>2, ByBytesDef
<1>7. QED BY <1>1, <1>4, <1>5, <1>6 DEF FirstCrc

\* The checksum of the first bytes combined with that of the next ones.
LEMMA CombineNext ==
  ASSUME NEW bytes \in Seq(Bytes), NEW m \in Nat, NEW n \in Nat, m + n <= Len(bytes)
  PROVE  CombineCRC(FirstCrc(bytes, m), PartCrc(bytes, m + 1, m + n), n) = FirstCrc(bytes, m + n)
<1> DEFINE w    == ByBytes(Bits, bytes)[m]
           d    == Bits \ w
           more == SubSeq(bytes, m + 1, m + n)
           x    == ByBytes(Bits, more)[n]
           z    == ZeroBits(d)[8 * n]
<1>1. CASE n = 0
  <2>1. CombineCRC(FirstCrc(bytes, m), PartCrc(bytes, m + 1, m + n), n) = FirstCrc(bytes, m)
    BY <1>1 DEF CombineCRC
  <2>2. m + n = m
    BY <1>1
  <2>3. QED BY <2>1, <2>2
<1>2. CASE n # 0
  <2>0. 8 * n \in Nat /\ n \in 0..n
    OBVIOUS
  <2>1. Bits \in Words /\ w \in Words /\ d \in Words
    <3>1. Bits \in Words
      BY DEF Words
    <3>2. w \in Words
      BY <3>1, ByBytesDef
    <3>3. QED BY <3>1, <3>2 DEF Words
  <2>2. more \in Seq(Bytes) /\ Len(more) = n /\ Continues(more, bytes, m, n)
    BY SomeBytes
  <2>3. PartCrc(bytes, m + 1, m + n) = Bits \ x
    BY PartCrcDef
  <2>4. ByBytes(w, more)[n] = ByBytes(Bits, bytes)[m + n]
    <3> HIDE DEF more
    <3>1. QED BY <2>1, <2>2, ByBytesMore
  <2>5. Xor(Bits, d) = w
    <3> HIDE DEF w
    <3>1. QED BY <2>1 DEF Xor, Words
  <2>6. ByBytes(Xor(Bits, d), more)[n] = Xor(x, z)
    <3> HIDE DEF d, more
    <3>1. QED BY <2>0, <2>1, <2>2, ByBytesXor
  <2>7. x \in Words /\ z \in Words
    <3> HIDE DEF d, more
    <3>1. x \in Words
      BY <2>1, ByBytesDef
    <3>2. z \in Words
      BY <2>0, <2>1, ZeroBitsDef
    <3>3. QED BY <3>1, <3>2
  <2>8. Bits \ x \in Words
    BY <2>7 DEF Words
  <2> HIDE DEF w, more, x
  <2>9. CombineCRC(d, Bits \ x, n) = Xor(z, Bits \ x)
    <3> HIDE DEF d
    <3>1. QED BY <1>2, <2>1, <2>8, CombineDef
  <2>10. FirstCrc(bytes, m) = d
    BY DEF FirstCrc, w
  <2>11. FirstCrc(bytes, m + n) = Bits \ Xor(x, z)
    BY <2>4, <2>5, <2>6 DEF FirstCrc
  <2> HIDE DEF d, z
  <2>12. Xor(z, Bits \ x) = Bits \ Xor(x, z)
    BY <2>7 DEF Xor, Words
  <2>13. QED BY <2>3, <2>9, <2>10, <2>11, <2>12
<1>3. QED BY <1>1, <1>2

(***************************************************************************)
(* For every object and place to cut it, the checksums of its two parts    *)
(* combine to that of the whole.                                           *)
(***************************************************************************)
THEOREM CombineTwo ==
  ASSUME NEW bytes \in Seq(Bytes), NEW k \in 0..Len(bytes)
  PROVE  LET n == Len(bytes) IN
           CombineCRC(PartCrc(bytes, 1, k), PartCrc(bytes, k + 1, n), n - k) = PartCrc(bytes, 1, n)
<1> DEFINE n    == Len(bytes)
           rest == n - k
<1>1. n \in Nat /\ n \in 0..Len(bytes) /\ k \in Nat /\ rest \in Nat /\ k + rest = n
  OBVIOUS
<1>2. PartCrc(bytes, 1, k) = FirstCrc(bytes, k) /\ PartCrc(bytes, 1, n) = FirstCrc(bytes, n)
  BY <1>1, WholeCrc
<1> HIDE DEF rest
<1>3. k + rest <= Len(bytes)
  BY <1>1
<1>4. CombineCRC(FirstCrc(bytes, k), PartCrc(bytes, k + 1, k + rest), rest) = FirstCrc(bytes, k + rest)
  BY <1>1, <1>3, CombineNext
<1>5. QED BY <1>1, <1>2, <1>4 DEF rest

\* A plan whose parts follow each other to the end of an object.
Tiles(plan, object) ==
  LET n == Len(plan) IN
    /\ n \in Nat  /\ object \in Nat
    /\ n > 0 => plan[1].offset = 0 /\ plan[n].offset + plan[n].size = object
    /\ \A p \in 1..n : /\ plan[p].offset \in Nat  /\ plan[p].size \in Nat
                      /\ plan[p].offset + plan[p].size <= object
    /\ \A p \in 1..(n - 1) : plan[p + 1].offset = plan[p].offset + plan[p].size

LEMMA CombineAll ==
  ASSUME NEW bytes \in Seq(Bytes), NEW plan, Tiles(plan, Len(bytes)), Len(plan) > 0
  PROVE  Combined(bytes, plan) = PartCrc(bytes, 1, Len(bytes))
<1> DEFINE n == Len(plan)
           Crc(i) == PartCrc(bytes, plan[i].offset + 1, plan[i].offset + plan[i].size)
           Step(crc, i) == CombineCRC(crc, Crc(i), plan[i].size)
           upto == CHOOSE upto : upto = [i \in 1..n |-> IF i = 1 THEN Crc(1) ELSE Step(upto[i - 1], i)]
           f    == [i \in 1..n |-> FirstCrc(bytes, plan[i].offset + plan[i].size)]
<1>1. Combined(bytes, plan) = upto[n]
  BY DEF Combined
<1>2. n \in Nat /\ n > 0
  BY DEF Tiles
<1>3. ASSUME NEW i \in 2..n PROVE f[i] = Step(f[i - 1], i)
  <2>1. i - 1 \in 1..(n - 1) /\ (i - 1) + 1 = i /\ i - 1 \in 1..n /\ i \in 1..n
    BY <1>2
  <2>2. plan[i].offset = plan[i - 1].offset + plan[i - 1].size
    BY <2>1 DEF Tiles
  <2>3. f[i - 1] = FirstCrc(bytes, plan[i].offset) /\ f[i] = FirstCrc(bytes, plan[i].offset + plan[i].size)
    BY <2>1, <2>2
  <2>4. /\ plan[i].offset \in Nat  /\ plan[i].size \in Nat
        /\ plan[i].offset + plan[i].size <= Len(bytes)
    BY <2>1 DEF Tiles
  <2>5. CombineCRC(FirstCrc(bytes, plan[i].offset), Crc(i), plan[i].size)
          = FirstCrc(bytes, plan[i].offset + plan[i].size)
    BY <2>4, CombineNext
  <2>6. QED BY <2>3, <2>5
<1>4. f[1] = Crc(1)
  <2> DEFINE k == plan[1].size
  <2>1. 1 \in 1..n /\ plan[1].offset = 0
    BY <1>2 DEF Tiles
  <2>2. k \in Nat /\ 0 + k <= Len(bytes)
    BY <2>1 DEF Tiles
  <2>3. k \in 0..Len(bytes) /\ 0 + 1 = 1 /\ 0 + k = k
    BY <2>2
  <2>4. PartCrc(bytes, 1, k) = FirstCrc(bytes, k)
    BY <2>3, WholeCrc
  <2>5. f[1] = FirstCrc(bytes, 0 + k) /\ Crc(1) = PartCrc(bytes, 0 + 1, 0 + k)
    BY <2>1
  <2>6. QED BY <2>3, <2>4, <2>5
<1>5. f = [i \in 1..n |-> IF i = 1 THEN Crc(1) ELSE Step(f[i - 1], i)]
  <2>1. f = [i \in 1..n |-> f[i]]
    OBVIOUS
  <2> HIDE DEF Crc, Step, f, n
  <2>2. \A i \in 1..n : i # 1 => i \in 2..n
    BY <1>2
  <2>3. \A i \in 1..n : f[i] = IF i = 1 THEN Crc(1) ELSE Step(f[i - 1], i)
    BY <1>3, <1>4, <2>2
  <2>4. QED BY <2>1, <2>3
<1>6. upto = [i \in 1..n |-> IF i = 1 THEN Crc(1) ELSE Step(upto[i - 1], i)]
  <2> HIDE DEF f, Crc, Step, n
  <2>1. QED BY <1>5
<1> HIDE DEF upto, f, Crc, Step, n
<1> DEFINE T == {i \in Nat : upto[i + 1] = f[i + 1]}
<1>7. 0 \in T
  <2>1. 1 \in 1..n /\ 0 + 1 = 1
    BY <1>2
  <2>2. QED BY <1>5, <1>6, <2>1
<1>8. ASSUME NEW i \in 0..((n - 1) - 1), i \in T PROVE i + 1 \in T
  <2>1. (i + 1) + 1 \in 1..n /\ (i + 1) + 1 # 1 /\ ((i + 1) + 1) - 1 = i + 1 /\ i + 1 \in Nat
    BY <1>2
  <2>2. /\ upto[(i + 1) + 1] = Step(upto[i + 1], (i + 1) + 1)
        /\ f[(i + 1) + 1] = Step(f[i + 1], (i + 1) + 1)
    BY <1>5, <1>6, <2>1
  <2>3. QED BY <1>8, <2>1, <2>2
<1>9. 0..(n - 1) \subseteq T
  <2> HIDE DEF T
  <2>1. n - 1 \in Nat
    BY <1>2
  <2>2. QED BY <1>7, <1>8, <2>1, InductTo
<1>10. upto[n] = f[n]
  <2>1. n - 1 \in 0..(n - 1) /\ (n - 1) + 1 = n
    BY <1>2
  <2>2. QED BY <1>9, <2>1
<1>11. f[n] = FirstCrc(bytes, Len(bytes))
  <2>1. n \in 1..n /\ plan[n].offset + plan[n].size = Len(bytes)
    BY <1>2 DEF Tiles, n
  <2>2. QED BY <2>1 DEF f
<1>12. PartCrc(bytes, 1, Len(bytes)) = FirstCrc(bytes, Len(bytes))
  <2>1. Len(bytes) \in 0..Len(bytes)
    OBVIOUS
  <2>2. QED BY <2>1, WholeCrc
<1>13. QED BY <1>1, <1>10, <1>11, <1>12
-----------------------------------------------------------------------------
(***************************************************************************)
(* The plan of an object's parts, for every size of object and part.       *)
(***************************************************************************)
\* What the quotient of a division is.
LEMMA Division ==
  ASSUME NEW a \in Nat, NEW b \in Nat \ {0}
  PROVE  a \div b \in Nat /\ b * (a \div b) <= a /\ a < b * (a \div b) + b
<1>1. a \div b \in Nat
  OBVIOUS
<1>2. b * (a \div b) <= a
  OBVIOUS
<1>3. a < b * (a \div b) + b
  OBVIOUS
<1>4. QED BY <1>1, <1>2, <1>3

\* The parts of a plan, without division.
LEMMA PlannedParts ==
  ASSUME NEW object \in Nat \ {0}, NEW part \in Nat \ {0}
  PROVE  LET plan == UploadPlan(object, part)
             n    == Count(object, part) IN
           /\ n \in Nat \ {0}  /\ DOMAIN plan = 1..n  /\ object - part * (n - 1) \in 1..part
           /\ part * (n - 1) \in Nat
           /\ \A p \in 1..n : /\ plan[p].offset = part * (p - 1)
                             /\ plan[p].size = IF p = n THEN object - part * (n - 1) ELSE part
<1> DEFINE q    == (object - 1) \div part
           plan == UploadPlan(object, part)
           n    == Count(object, part)
<1>1. object - 1 \in Nat
  OBVIOUS
<1>2. q \in Nat /\ part * q <= object - 1 /\ object - 1 < part * q + part
  BY <1>1, Division
<1>3. n = q + 1
  BY DEF Count
<1> HIDE DEF q
<1>4. n \in Nat \ {0} /\ n - 1 = q
  BY <1>2, <1>3
<1>5. plan = [p \in 1..n |-> [offset |-> part * (p - 1),
                             size |-> IF p = n THEN object - part * (n - 1) ELSE part]]
  BY DEF UploadPlan
<1> HIDE DEF n, plan
<1>6. part * q \in Nat /\ object - part * q \in 1..part
  BY <1>2
<1>7. QED BY <1>4, <1>5, <1>6 DEF n, plan

(***************************************************************************)
(* The parts of an upload begin at the start of the object, follow each    *)
(* other, end with it, and none is empty or larger than the part size.     *)
(***************************************************************************)
THEOREM PartsFollow ==
  ASSUME NEW object \in Nat \ {0}, NEW part \in Nat \ {0}
  PROVE  LET plan == UploadPlan(object, part)
             n    == Count(object, part) IN
           /\ n \in Nat \ {0}  /\ DOMAIN plan = 1..n
           /\ plan[1].offset = 0  /\ plan[n].offset + plan[n].size = object
           /\ \A p \in 1..n : plan[p].size \in 1..part
           /\ \A p \in 1..(n - 1) : plan[p + 1].offset = plan[p].offset + plan[p].size
<1> DEFINE plan == UploadPlan(object, part)
           n    == Count(object, part)
<1>1. /\ n \in Nat \ {0}  /\ DOMAIN plan = 1..n  /\ object - part * (n - 1) \in 1..part
      /\ part * (n - 1) \in Nat
      /\ \A p \in 1..n : /\ plan[p].offset = part * (p - 1)
                        /\ plan[p].size = IF p = n THEN object - part * (n - 1) ELSE part
  BY PlannedParts
<1> HIDE DEF n, plan
<1>2. 1 \in 1..n /\ n \in 1..n /\ part * (1 - 1) = 0
  BY <1>1
<1>3. plan[1].offset = 0 /\ plan[n].offset + plan[n].size = object
  <2>1. plan[1].offset = 0
    BY <1>1, <1>2
  <2>2. plan[n].offset = part * (n - 1) /\ plan[n].size = object - part * (n - 1)
    BY <1>1, <1>2
  <2>3. QED BY <1>1, <2>1, <2>2
<1>4. ASSUME NEW p \in 1..n PROVE plan[p].size \in 1..part
  <2>1. plan[p].size = IF p = n THEN object - part * (n - 1) ELSE part
    BY <1>1
  <2>2. part \in 1..part
    OBVIOUS
  <2>3. QED BY <1>1, <2>1, <2>2
<1>5. ASSUME NEW p \in 1..(n - 1) PROVE plan[p + 1].offset = plan[p].offset + plan[p].size
  <2>1. p \in 1..n /\ p + 1 \in 1..n /\ p # n /\ p \in Nat \ {0} /\ (p + 1) - 1 = p
    BY <1>1
  <2>2. part * p = part * (p - 1) + part
    BY <2>1
  <2>3. QED BY <1>1, <2>1, <2>2
<1>6. QED BY <1>1, <1>3, <1>4, <1>5 DEF n, plan

(***************************************************************************)
(* Every byte of the object is read for exactly one part, by whichever     *)
(* thread takes that part.                                                 *)
(***************************************************************************)
THEOREM ByteInOnePart ==
  ASSUME NEW object \in Nat \ {0}, NEW part \in Nat \ {0}, NEW byte \in 0..(object - 1)
  PROVE  LET plan == UploadPlan(object, part)
             In(p) == plan[p].offset <= byte /\ byte < plan[p].offset + plan[p].size IN
           \E p \in DOMAIN plan : In(p) /\ \A r \in DOMAIN plan : In(r) => r = p
<1> DEFINE plan == UploadPlan(object, part)
           n    == Count(object, part)
           q    == byte \div part
           In(p) == plan[p].offset <= byte /\ byte < plan[p].offset + plan[p].size
<1>1. /\ n \in Nat \ {0}  /\ DOMAIN plan = 1..n  /\ object - part * (n - 1) \in 1..part
      /\ part * (n - 1) \in Nat
      /\ \A p \in 1..n : /\ plan[p].offset = part * (p - 1)
                        /\ plan[p].size = IF p = n THEN object - part * (n - 1) ELSE part
  BY PlannedParts
<1>2. byte \in Nat /\ byte < object
  OBVIOUS
<1>3. q \in Nat /\ part * q <= byte /\ byte < part * q + part
  BY <1>2, Division
<1> HIDE DEF n, plan, q
<1>4. \A i, j \in Nat : i < j => part * i + part <= part * j
  <2> SUFFICES ASSUME NEW i \in Nat, NEW j \in Nat, i < j PROVE part * i + part <= part * j
      OBVIOUS
  <2>1. PICK d \in Nat : j = i + 1 + d
    <3>1. j - (i + 1) \in Nat /\ j = i + 1 + (j - (i + 1))
      OBVIOUS
    <3>2. QED BY <3>1
  <2>2. part * j = part * i + part + part * d /\ part * d \in Nat /\ part * i \in Nat
    BY <2>1
  <2>3. QED BY <2>2
<1>5. q <= n - 1
  <2> SUFFICES ASSUME n - 1 < q PROVE FALSE
      BY <1>1, <1>3
  <2>1. part * (n - 1) + part <= part * q
    BY <1>1, <1>3, <1>4
  <2>2. part * q \in Nat
    BY <1>3
  <2>3. part * (n - 1) + part >= object
    BY <1>1
  <2>4. part * (n - 1) \in Nat
    BY <1>1
  <2> DEFINE before == part * (n - 1)
             upto   == part * q
  <2>5. before + part <= upto /\ upto <= byte /\ before + part >= object
    BY <1>3, <2>1, <2>3
  <2>6. before \in Nat /\ upto \in Nat
    BY <2>2, <2>4
  <2> HIDE DEF before, upto
  <2>7. QED BY <1>2, <2>5, <2>6
<1>6. q + 1 \in 1..n /\ In(q + 1)
  <2>0. part * q \in Nat
    BY <1>3
  <2>1. q + 1 \in 1..n /\ (q + 1) - 1 = q /\ part * q \in Nat
    <3>1. n \in Nat /\ q \in Nat /\ q <= n - 1
      BY <1>1, <1>3, <1>5
    <3>2. QED BY <2>0, <3>1
  <2>2. plan[q + 1].offset = part * q
    BY <1>1, <2>1
  <2>3. CASE q + 1 = n
    <3>1. plan[q + 1].size = object - part * q
      BY <1>1, <2>1, <2>3
    <3>2. QED BY <1>2, <1>3, <2>1, <2>2, <3>1
  <2>4. CASE q + 1 # n
    <3>1. plan[q + 1].size = part
      BY <1>1, <2>1, <2>4
    <3>2. QED BY <1>2, <1>3, <2>1, <2>2, <3>1
  <2>5. QED BY <2>3, <2>4
<1>7. ASSUME NEW r \in 1..n, In(r) PROVE r = q + 1
  <2>1. r - 1 \in Nat /\ part * (r - 1) \in Nat /\ part * q \in Nat
    BY <1>1, <1>3
  <2>2. plan[r].size \in 1..part /\ plan[r].offset = part * (r - 1)
    BY PartsFollow, <1>1 DEF plan, n
  <2>3. part * (r - 1) <= byte /\ byte < part * (r - 1) + part
    BY <1>2, <1>7, <2>1, <2>2
  <2>4. ~(r - 1 < q)
    BY <1>2, <1>3, <1>4, <2>1, <2>3
  <2>5. ~(q < r - 1)
    BY <1>2, <1>3, <1>4, <2>1, <2>3
  <2>6. QED BY <1>1, <1>3, <2>1, <2>4, <2>5
<1>8. \A r \in 1..n : In(r) => r = q + 1
  BY <1>7
<1>9. \E p \in DOMAIN plan : In(p) /\ \A r \in DOMAIN plan : In(r) => r = p
  <2> HIDE DEF In
  <2>1. QED BY <1>1, <1>6, <1>8
<1>10. QED BY <1>9 DEF plan
\* The parts of an upload, as a sequence.
Planned == [offset : Nat, size : Nat]

LEMMA UploadPlanTiles ==
  ASSUME NEW object \in Nat \ {0}, NEW part \in Nat \ {0}
  PROVE  LET plan == UploadPlan(object, part) IN
           plan \in Seq(Planned) /\ Len(plan) = Count(object, part) /\ Tiles(plan, object)
<1> DEFINE plan == UploadPlan(object, part)
           n    == Count(object, part)
           last == part * (n - 1)
<1>1. /\ n \in Nat \ {0}  /\ DOMAIN plan = 1..n  /\ object - last \in 1..part  /\ last \in Nat
      /\ \A p \in 1..n : /\ plan[p].offset = part * (p - 1)
                        /\ plan[p].size = IF p = n THEN object - last ELSE part
  BY PlannedParts
<1>2. /\ plan[1].offset = 0  /\ plan[n].offset + plan[n].size = object
      /\ \A p \in 1..(n - 1) : plan[p + 1].offset = plan[p].offset + plan[p].size
  BY PartsFollow
<1>3. plan = [p \in 1..n |-> [offset |-> part * (p - 1),
                              size |-> IF p = n THEN object - last ELSE part]]
  BY DEF UploadPlan
<1> HIDE DEF plan, n, last
<1>4. ASSUME NEW p \in 1..n PROVE part * (p - 1) \in Nat /\ part * (p - 1) <= last
  <2>1. p - 1 \in Nat /\ n - p \in Nat
    BY <1>1
  <2>2. part * (p - 1) \in Nat /\ part * (n - p) \in Nat
    BY <2>1
  <2>3. last = part * (p - 1) + part * (n - p)
    BY <1>1, <2>1 DEF last
  <2>4. QED BY <2>2, <2>3
<1>5. plan \in [1..n -> Planned]
  <2>1. ASSUME NEW p \in 1..n
        PROVE  [offset |-> part * (p - 1), size |-> IF p = n THEN object - last ELSE part] \in Planned
    <3>1. part * (p - 1) \in Nat /\ object - last \in Nat
      BY <1>1, <1>4
    <3>2. QED BY <3>1 DEF Planned
  <2>2. QED BY <1>3, <2>1
<1>6. plan \in Seq(Planned) /\ Len(plan) = n
  BY <1>1, <1>5
<1>7. ASSUME NEW p \in 1..n
      PROVE  plan[p].offset \in Nat /\ plan[p].size \in Nat /\ plan[p].offset + plan[p].size <= object
  <2>1. plan[p].offset = part * (p - 1) /\ part * (p - 1) \in Nat /\ part * (p - 1) <= last
    BY <1>1, <1>4
  <2>2. CASE p = n
    <3>1. plan[p].size = object - last
      BY <1>1, <2>2
    <3>2. QED BY <1>1, <2>1, <3>1
  <2>3. CASE p # n
    <3>1. plan[p].size = part
      BY <1>1, <2>3
    <3>2. p + 1 \in 1..n /\ (p + 1) - 1 = p /\ p \in Nat
      BY <1>1, <2>3
    <3>3. part * ((p + 1) - 1) <= last
      BY <1>4, <3>2
    <3>4. part * p = part * (p - 1) + part
      BY <3>2
    <3>5. QED BY <1>1, <2>1, <3>1, <3>2, <3>3, <3>4
  <2>4. QED BY <2>2, <2>3
<1>8. Tiles(plan, object)
  BY <1>1, <1>2, <1>6, <1>7 DEF Tiles
<1>9. QED BY <1>6, <1>8 DEF plan, n

(***************************************************************************)
(* For every object and part size, the checksums of the parts of an upload *)
(* combine to that of the object.                                          *)
(***************************************************************************)
THEOREM CombineParts ==
  ASSUME NEW bytes \in Seq(Bytes), bytes # << >>, NEW part \in Nat \ {0}
  PROVE  Combined(bytes, UploadPlan(Len(bytes), part)) = PartCrc(bytes, 1, Len(bytes))
<1>1. Len(bytes) \in Nat \ {0}
  BY EmptySeq
<1>2. Count(Len(bytes), part) \in Nat \ {0}
  BY <1>1, PlannedParts
<1>3. Tiles(UploadPlan(Len(bytes), part), Len(bytes)) /\ Len(UploadPlan(Len(bytes), part)) > 0
  BY <1>1, <1>2, UploadPlanTiles
<1>4. QED BY <1>3, CombineAll

\* The doubled part size is large enough, and no larger than needed.
Enough(object, limit, size, part) ==
  /\ size \in Nat \ {0}  /\ Count(object, size) <= limit
  /\ size = part \/ (size \div 2 \in Nat \ {0} /\ Count(object, size \div 2) > limit)

LEMMA CountFalls ==
  ASSUME NEW object \in Nat \ {0}, NEW limit \in Nat \ {0}, NEW part \in Nat \ {0},
         Count(object, part) > limit
  PROVE  part < object
<1> SUFFICES ASSUME part >= object PROVE FALSE
    OBVIOUS
<1>1. object - 1 \in Nat /\ object - 1 < part
  OBVIOUS
<1>2. (object - 1) \div part = 0
  <2> DEFINE q == (object - 1) \div part
  <2>1. q \in Nat /\ part * q <= object - 1
    BY <1>1, Division
  <2> HIDE DEF q
  <2>2. q = 0
    <3> SUFFICES ASSUME q # 0 PROVE FALSE
        OBVIOUS
    <3>1. q - 1 \in Nat /\ part * (q - 1) \in Nat
      BY <2>1
    <3>2. part * q = part * (q - 1) + part
      BY <2>1
    <3>3. QED BY <1>1, <2>1, <3>1, <3>2
  <2>3. QED BY <2>2 DEF q
<1>3. QED BY <1>2 DEF Count

(***************************************************************************)
(* determinePartSize ends, for every object and limit, with a part size    *)
(* that is large enough, and is the given one or twice one too small.      *)
(***************************************************************************)
THEOREM PartSizeIsEnough ==
  ASSUME NEW object \in Nat \ {0}, NEW part \in Nat \ {0}, NEW limit \in Nat \ {0}
  PROVE  Enough(object, limit, PartSize(object, part, limit), part)
<1> DEFINE S       == Nat \ {0}
           many(s) == Count(object, s) > limit
           left    == [s \in S |-> IF many(s) THEN object - s ELSE 0]
           ends    == {s \in S : ~many(s)}
           next    == [s \in S \ ends |-> 2 * s]
           result  == [s \in S |-> s]
           combine == [s \in S \ ends |-> [r \in S |-> r]]
           enough  == CHOOSE enough : enough = [s \in S |-> IF many(s) THEN enough[2 * s] ELSE s]
<1>1. \A s \in S : many(s) => s < object
  BY CountFalls
<1>2. left \in [S -> Nat]
  <2> HIDE DEF many
  <2>1. QED BY <1>1
<1>3. ASSUME NEW s \in S, many(s) PROVE 2 * s \in S /\ left[2 * s] < left[s]
  <2>1. 2 * s \in S /\ 2 * s > s /\ s < object
    BY <1>1, <1>3
  <2> HIDE DEF many
  <2>2. QED BY <1>3, <2>1
<1>4. Ending(S, S, left, ends, next, result, combine)
  <2>1. ends \in SUBSET S /\ result \in [S -> S] /\ combine \in [S \ ends -> [S -> S]]
    OBVIOUS
  <2> HIDE DEF many, left
  <2>2. next \in [S \ ends -> S]
    BY <1>3
  <2>3. \A s \in S \ ends : left[next[s]] < left[s]
    BY <1>3
  <2> HIDE DEF S, ends, next, result, combine
  <2>4. QED BY <1>2, <2>1, <2>2, <2>3 DEF Ending
<1>5. PICK f : Solves(f, S, S, ends, next, result, combine)
  <2> HIDE DEF S, left, ends, next, result, combine
  <2>1. QED BY <1>4, Recursion
<1>6. f = [s \in S |-> IF many(s) THEN f[2 * s] ELSE s]
  <2> HIDE DEF many
  <2>1. f \in [S -> S]
    BY <1>5 DEF Solves
  <2>2. ASSUME NEW s \in S, ~many(s) PROVE f[s] = s
    BY <1>5, <2>2 DEF Solves
  <2>3. ASSUME NEW s \in S, many(s) PROVE f[s] = f[2 * s]
    <3>1. f[s] = combine[s][f[next[s]]] /\ s \in S \ ends
      BY <1>5, <2>3 DEF Solves
    <3>2. next[s] = 2 * s /\ f[2 * s] \in S
      BY <1>3, <2>1, <2>3, <3>1
    <3>3. QED BY <3>1, <3>2
  <2>4. QED BY <2>1, <2>2, <2>3
<1>7. enough = [s \in S |-> IF many(s) THEN enough[2 * s] ELSE s]
  <2> HIDE DEF many, S
  <2>1. QED BY <1>6
<1>8. PartSize(object, part, limit) = enough[part]
  BY DEF PartSize
<1> HIDE DEF enough, left
<1> DEFINE Good == {s \in S : Enough(object, limit, enough[s], s)}
<1>9. ASSUME NEW s \in S, \A t \in S : left[t] < left[s] => t \in Good PROVE s \in Good
  <2>0. Count(object, s) \in Nat
    BY PlannedParts
  <2>1. CASE ~many(s)
    <3>1. enough[s] = s
      <4> HIDE DEF many
      <4>1. QED BY <1>7, <2>1
    <3>2. Count(object, s) <= limit
      BY <2>0, <2>1
    <3>3. QED BY <3>1, <3>2 DEF Enough
  <2>2. CASE many(s)
    <3>1. enough[s] = enough[2 * s]
      <4> HIDE DEF many
      <4>1. QED BY <1>7, <2>2
    <3>2. 2 * s \in Good
      BY <1>3, <1>9, <2>2
    <3>3. Enough(object, limit, enough[s], 2 * s)
      BY <3>1, <3>2
    <3>4. (2 * s) \div 2 = s
      OBVIOUS
    <3>5. QED BY <2>2, <3>3, <3>4 DEF Enough
  <2>3. QED BY <2>1, <2>2
<1>10. S \subseteq Good
  <2> HIDE DEF S, Good
  <2>1. QED BY <1>2, <1>9, MeasureInduct
<1>11. QED BY <1>8, <1>10

(***************************************************************************)
(* getPartsToDownload cuts every object, one part after the other, into    *)
(* the parts that getPartsToUpload computes.                               *)
(***************************************************************************)
THEOREM DownloadIsUpload ==
  ASSUME NEW object \in Nat \ {0}, NEW part \in Nat \ {0}
  PROVE  DownloadPlan(object, part) = UploadPlan(object, part)
<1> DEFINE end     == object - 1
           Cut(o)  == [offset |-> o, size |-> IF o + part > end THEN end - o + 1 ELSE part]
           done(o) == o >= end + 1
           left    == [o \in Nat |-> IF done(o) THEN 0 ELSE object - o]
           ends    == {o \in Nat : done(o)}
           next    == [o \in Nat \ ends |-> o + part]
           result  == [o \in Nat |-> << >>]
           combine == [o \in Nat \ ends |-> [plan \in Seq(Planned) |-> <<Cut(o)>> \o plan]]
           from    == CHOOSE from : from = [o \in Nat |-> IF done(o) THEN << >>
                                                         ELSE <<Cut(o)>> \o from[o + part]]
<1>1. end \in Nat /\ end + 1 = object /\ \A o \in Nat : done(o) <=> o >= object
  OBVIOUS
<1>2. left \in [Nat -> Nat] /\ \A o \in Nat : ~done(o) => left[o + part] < left[o]
  OBVIOUS
<1>3. \A o \in Nat : ~done(o) => Cut(o) \in Planned
  BY DEF Planned
<1> HIDE DEF end, done, Cut
<1>4. Ending(Nat, Seq(Planned), left, ends, next, result, combine)
  <2>1. ends \in SUBSET Nat /\ next \in [Nat \ ends -> Nat] /\ result \in [Nat -> Seq(Planned)]
    OBVIOUS
  <2>2. combine \in [Nat \ ends -> [Seq(Planned) -> Seq(Planned)]]
    <3> SUFFICES ASSUME NEW o \in Nat \ ends, NEW plan \in Seq(Planned)
                 PROVE  <<Cut(o)>> \o plan \in Seq(Planned)
        OBVIOUS
    <3>1. Cut(o) \in Planned
      BY <1>3
    <3>2. QED BY <3>1
  <2>3. \A o \in Nat \ ends : left[next[o]] < left[o]
    <3> HIDE DEF left
    <3>1. QED BY <1>2
  <2> HIDE DEF left, ends, next, result, combine
  <2>4. QED BY <1>2, <2>1, <2>2, <2>3 DEF Ending
<1>5. PICK f : Solves(f, Nat, Seq(Planned), ends, next, result, combine)
  <2> HIDE DEF left, ends, next, result, combine
  <2>1. QED BY <1>4, Recursion
<1>6. f = [o \in Nat |-> IF done(o) THEN << >> ELSE <<Cut(o)>> \o f[o + part]]
  <2>1. f \in [Nat -> Seq(Planned)]
    BY <1>5 DEF Solves
  <2>2. ASSUME NEW o \in Nat, done(o) PROVE f[o] = << >>
    BY <1>5, <2>2 DEF Solves
  <2>3. ASSUME NEW o \in Nat, ~done(o) PROVE f[o] = <<Cut(o)>> \o f[o + part]
    <3>1. f[o] = combine[o][f[next[o]]] /\ o \in Nat \ ends
      BY <1>5, <2>3 DEF Solves
    <3>2. next[o] = o + part /\ f[o + part] \in Seq(Planned)
      BY <2>1, <3>1
    <3>3. combine[o] = [plan \in Seq(Planned) |-> <<Cut(o)>> \o plan]
      BY <3>1
    <3>4. QED BY <3>1, <3>2, <3>3
  <2>4. QED BY <2>1, <2>2, <2>3
<1>7. from = [o \in Nat |-> IF done(o) THEN << >> ELSE <<Cut(o)>> \o from[o + part]]
  BY <1>6
<1>8. DownloadPlan(object, part) = from[0]
  BY DEF DownloadPlan, end, done, Cut
<1> DEFINE plan == UploadPlan(object, part)
           n    == Count(object, part)
<1>9. /\ n \in Nat \ {0}  /\ object - part * (n - 1) \in 1..part  /\ part * (n - 1) \in Nat
      /\ \A p \in 1..n : plan[p] = [offset |-> part * (p - 1),
                                    size |-> IF p = n THEN object - part * (n - 1) ELSE part]
  <2>1. n \in Nat \ {0} /\ object - part * (n - 1) \in 1..part /\ part * (n - 1) \in Nat
    BY PlannedParts
  <2>2. QED BY <2>1 DEF UploadPlan
<1>10. plan \in Seq(Planned) /\ Len(plan) = n
  BY UploadPlanTiles
<1> HIDE DEF from, left, plan, n
<1> DEFINE Good == {o \in Nat : \A j \in 0..n : o = part * j => from[o] = SubSeq(plan, j + 1, n)}
<1>11. ASSUME NEW o \in Nat, \A t \in Nat : left[t] < left[o] => t \in Good PROVE o \in Good
  <2> SUFFICES ASSUME NEW j \in 0..n, o = part * j PROVE from[o] = SubSeq(plan, j + 1, n)
      OBVIOUS
  <2>1. CASE j = n
    <3>1. part * n = part * (n - 1) + part
      BY <1>9
    <3>2. o >= object
      BY <1>9, <2>1, <3>1
    <3>3. from[o] = << >>
      BY <1>1, <1>7, <3>2
    <3>4. SubSeq(plan, n + 1, n) = << >>
      BY <1>9, SubSeqEmpty
    <3>5. QED BY <2>1, <3>3, <3>4
  <2>2. CASE j # n
    <3>1. j \in Nat /\ n - 1 - j \in Nat /\ j + 1 \in 1..n /\ (j + 1) - 1 = j
      BY <1>9, <2>2
    <3>2. part * (n - 1) = part * j + part * (n - 1 - j) /\ part * (n - 1 - j) \in Nat
      BY <1>9, <3>1
    <3>3. o <= part * (n - 1)
      BY <3>2
    <3>4. o < object
      BY <1>9, <3>3
    <3>5. ~done(o) /\ left[o + part] < left[o] /\ o + part \in Nat
      BY <1>1, <1>2, <3>4
    <3>6. from[o] = <<Cut(o)>> \o from[o + part]
      BY <1>7, <3>5
    <3>7. o + part = part * (j + 1) /\ j + 1 \in 0..n
      BY <3>1
    <3>8. from[o + part] = SubSeq(plan, (j + 1) + 1, n)
      BY <1>11, <3>5, <3>7
    <3>9. plan[j + 1] = Cut(o)
      <4>1. plan[j + 1] = [offset |-> o, size |-> IF j + 1 = n THEN object - part * (n - 1) ELSE part]
        BY <1>9, <3>1
      <4>2. CASE j + 1 = n
        <5>1. part * (n - 1) = o
          BY <4>2, <3>1
        <5>2. o + part > end /\ end - o + 1 = object - o
          BY <1>1, <1>9, <5>1
        <5>3. QED BY <4>1, <4>2, <5>1, <5>2 DEF Cut
      <4>3. CASE j + 1 # n
        <5>1. n - 1 - (j + 1) \in Nat
          BY <1>9, <3>1, <4>3
        <5>2. part * (n - 1) = part * (j + 1) + part * (n - 1 - (j + 1)) /\ part * (n - 1 - (j + 1)) \in Nat
          BY <1>9, <3>1, <5>1
        <5>3. o + part <= part * (n - 1)
          BY <3>7, <5>2
        <5>4. ~(o + part > end)
          BY <1>1, <1>9, <5>3
        <5>5. QED BY <4>1, <4>3, <5>4 DEF Cut
      <4>4. QED BY <4>2, <4>3
    <3>10. SubSeq(plan, j + 1, n) = <<plan[j + 1]>> \o SubSeq(plan, (j + 1) + 1, n)
      <4>1. j + 1 \in 1..Len(plan) /\ n \in (j + 1)..Len(plan)
        BY <1>9, <1>10, <3>1
      <4>2. QED BY <1>10, <4>1, SubSeqRecursiveFirst
    <3>11. QED BY <3>6, <3>8, <3>9, <3>10
  <2>3. QED BY <2>1, <2>2
<1>12. Nat \subseteq Good
  <2> HIDE DEF Good
  <2>1. left \in [Nat -> Nat]
    BY <1>2
  <2>2. QED BY <1>11, <2>1, MeasureInduct
<1>13. from[0] = SubSeq(plan, 0 + 1, n)
  <2>1. 0 \in Good
    BY <1>12
  <2>2. 0 \in 0..n /\ 0 = part * 0
    BY <1>9
  <2>3. QED BY <2>1, <2>2
<1>14. SubSeq(plan, 1, n) = plan
  BY <1>10, SubSeqFull
<1>15. QED BY <1>8, <1>13, <1>14 DEF plan

(***************************************************************************)
(* The plan of every transfer: parts without gap, overlap or excess, no    *)
(* more than the server takes, the same for upload and download.           *)
(***************************************************************************)
THEOREM TransferTiles ==
  ASSUME NEW object \in Nat \ {0}, NEW part \in Nat \ {0}, NEW limit \in Nat \ {0}
  PROVE  LET size == PartSize(object, part, limit)
             plan == UploadPlan(object, size)
             n == Len(plan) IN
           /\ n <= limit  /\ plan = DownloadPlan(object, size)
           /\ plan[1].offset = 0  /\ plan[n].offset + plan[n].size = object
           /\ \A p \in 1..n : plan[p].size \in 1..size
           /\ \A p \in 1..(n - 1) : plan[p + 1].offset = plan[p].offset + plan[p].size
           /\ size < 2 * part \/ Count(object, size \div 2) > limit
<1> DEFINE size == PartSize(object, part, limit)
<1>1. Enough(object, limit, size, part)
  BY PartSizeIsEnough
<1> HIDE DEF size
<1>2. size \in Nat \ {0} /\ Count(object, size) <= limit
  BY <1>1 DEF Enough
<1>3. size < 2 * part \/ Count(object, size \div 2) > limit
  BY <1>1 DEF Enough
<1>4. Len(UploadPlan(object, size)) = Count(object, size)
  BY <1>2, UploadPlanTiles
<1>5. UploadPlan(object, size) = DownloadPlan(object, size)
  BY <1>2, DownloadIsUpload
<1> DEFINE plan == UploadPlan(object, size)
           n    == Count(object, size)
<1>6. /\ plan[1].offset = 0  /\ plan[n].offset + plan[n].size = object
      /\ \A p \in 1..n : plan[p].size \in 1..size
      /\ \A p \in 1..(n - 1) : plan[p + 1].offset = plan[p].offset + plan[p].size
  BY <1>2, PartsFollow
<1>7. Len(plan) = n /\ n <= limit /\ plan = DownloadPlan(object, size)
  BY <1>2, <1>4, <1>5
<1> HIDE DEF plan, n
<1>8. QED BY <1>3, <1>6, <1>7 DEF plan, size

-----------------------------------------------------------------------------
(***************************************************************************)
(* Every object the client of the storage transfers is what its parts are: *)
(* by its plan, and by its checksum, in whatever way it is computed.       *)
(***************************************************************************)
THEOREM ObjectsAreTheirParts == SampleSpec => []ObjectIsItsParts
<1> USE ObjectAssumption
<1>1. ChecksumIsBitwise
  <2> SUFFICES ASSUME sample \in Buffers
               PROVE  crc64_little({}, sample.bytes, sample.address) = Bitwise(sample.bytes)
      BY DEF ChecksumIsBitwise
  <2>1. sample.bytes \in Seq(Bytes) /\ sample.address \in Nat
    BY DEF ObjectAssumption
  <2>2. QED BY <2>1, LittleIsBitwise
<1>2. PartsCombine
  <2> SUFFICES ASSUME sample \in Objects PROVE PartsCombine
      BY DEF PartsCombine
  <2>1. sample.bytes \in Seq(Bytes) /\ sample.bytes # << >> /\ sample.part \in Nat \ {0}
    BY DEF ObjectAssumption
  <2>2. Combined(sample.bytes, UploadPlan(Len(sample.bytes), sample.part))
          = PartCrc(sample.bytes, 1, Len(sample.bytes))
    BY <2>1, CombineParts
  <2>3. \A k \in 0..Len(sample.bytes) :
          CombineCRC(PartCrc(sample.bytes, 1, k), PartCrc(sample.bytes, k + 1, Len(sample.bytes)),
                     Len(sample.bytes) - k) = PartCrc(sample.bytes, 1, Len(sample.bytes))
    BY <2>1, CombineTwo
  <2>4. QED BY <2>2, <2>3 DEF PartsCombine
<1>3. PartsTile
  <2> SUFFICES ASSUME sample \in Transfers PROVE PartsTile
      BY DEF PartsTile
  <2>1. sample.object \in Nat \ {0} /\ sample.size \in Nat \ {0} /\ sample.limit \in Nat \ {0}
    BY DEF ObjectAssumption
  <2>2. QED BY <2>1, TransferTiles DEF PartsTile
<1>4. ObjectIsItsParts
  BY <1>1, <1>2, <1>3 DEF ObjectIsItsParts
<1>5. QED BY <1>4, PTL DEF SampleSpec
-----------------------------------------------------------------------------
(***************************************************************************)
(* Paths.                                                                  *)
(***************************************************************************)
LEMMA MaxIs ==
  ASSUME NEW T \in SUBSET Nat, NEW m \in T, \A k \in T : k <= m
  PROVE  Max(T) = m
<1>1. Max(T) \in T /\ \A k \in T : Max(T) >= k
  <2>1. \A k \in T : m >= k
    OBVIOUS
  <2>2. QED BY <2>1 DEF Max
<1>2. Max(T) \in Nat /\ m \in Nat /\ Max(T) <= m /\ Max(T) >= m
  BY <1>1
<1>3. QED BY <1>2

LEMMA MinIs ==
  ASSUME NEW T \in SUBSET Nat, NEW m \in T, \A k \in T : m <= k
  PROVE  Min(T) = m
<1>1. Min(T) \in T /\ \A k \in T : Min(T) <= k
  BY DEF Min
<1>2. Min(T) \in Nat /\ m \in Nat /\ Min(T) <= m /\ Min(T) >= m
  BY <1>1
<1>3. QED BY <1>2

\* The characters of a path made of a stem, a slash and a name.
LEMMA PathCharacters ==
  ASSUME NEW S, SLASH \in S, NEW stem \in Seq(S), NEW b \in Seq(S)
  PROVE  LET path == stem \o <<SLASH>> \o b  n == Len(stem) IN
           /\ path \in Seq(S)  /\ n \in Nat  /\ Len(b) \in Nat  /\ Len(path) = n + 1 + Len(b)
           /\ \A i \in 1..n : path[i] = stem[i]
           /\ path[n + 1] = SLASH
           /\ \A i \in 1..Len(b) : path[n + 1 + i] = b[i]
<1> DEFINE n    == Len(stem)
           head == stem \o <<SLASH>>
           path == head \o b
<1>1. n \in Nat /\ Len(b) \in Nat
  BY LenProperties
<1>2. head \in Seq(S) /\ Len(head) = n + 1 /\ head[n + 1] = SLASH /\ \A i \in 1..n : head[i] = stem[i]
  <2>1. <<SLASH>> \in Seq(S) /\ Len(<<SLASH>>) = 1 /\ <<SLASH>>[1] = SLASH
    OBVIOUS
  <2>2. /\ head \in Seq(S)  /\ Len(head) = n + 1
        /\ \A i \in 1..(n + 1) : head[i] = IF i <= n THEN stem[i] ELSE <<SLASH>>[i - n]
    BY <2>1, ConcatProperties
  <2>3. n + 1 \in 1..(n + 1) /\ ~(n + 1 <= n) /\ (n + 1) - n = 1 /\ \A i \in 1..n : i \in 1..(n + 1) /\ i <= n
    BY <1>1
  <2>4. QED BY <2>1, <2>2, <2>3
<1> HIDE DEF head
<1>3. /\ path \in Seq(S)  /\ Len(path) = n + 1 + Len(b)
      /\ \A i \in 1..(n + 1 + Len(b)) : path[i] = IF i <= n + 1 THEN head[i] ELSE b[i - (n + 1)]
  <2>1. /\ path \in Seq(S)  /\ Len(path) = Len(head) + Len(b)
        /\ \A i \in 1..(Len(head) + Len(b)) :
             path[i] = IF i <= Len(head) THEN head[i] ELSE b[i - Len(head)]
    BY <1>2, ConcatProperties
  <2> HIDE DEF path
  <2>2. QED BY <1>2, <2>1
<1> HIDE DEF path
<1>4. \A i \in 1..n : path[i] = stem[i]
  BY <1>1, <1>2, <1>3
<1>5. path[n + 1] = SLASH
  BY <1>1, <1>2, <1>3
<1>6. \A i \in 1..Len(b) : path[n + 1 + i] = b[i]
  BY <1>1, <1>3
<1>7. QED BY <1>1, <1>3, <1>4, <1>5, <1>6 DEF path, head

LEMMA NameFound ==
  ASSUME NEW S, SLASH \in S, NEW stem \in Seq(S), NEW b \in Seq(S), b # << >>, SLASH \notin ToSet(b)
  PROVE  LET path == stem \o <<SLASH>> \o b IN
           get_last_path(path) = b /\ get_parent_path(path) = stem
<1> DEFINE n    == Len(stem)
           path == stem \o <<SLASH>> \o b
           kept == {i \in 1..Len(path) : path[i] # SLASH}
           at   == {i \in 1..Len(path) : path[i] = SLASH}
<1>1. /\ path \in Seq(S)  /\ n \in Nat  /\ Len(path) = n + 1 + Len(b)
      /\ \A i \in 1..n : path[i] = stem[i]
      /\ path[n + 1] = SLASH
      /\ \A i \in 1..Len(b) : path[n + 1 + i] = b[i]
  BY PathCharacters
<1>2. Len(b) \in Nat \ {0} /\ \A i \in 1..Len(b) : b[i] # SLASH
  BY EmptySeq, LenProperties DEF ToSet
<1> HIDE DEF path
<1>3. \A i \in 1..Len(b) : path[n + 1 + i] # SLASH
  BY <1>1, <1>2
<1>4. Max(kept) = Len(path) /\ kept # {}
  <2>1. n + 1 + Len(b) = Len(path) /\ Len(b) \in 1..Len(b) /\ Len(path) \in 1..Len(path)
    BY <1>1, <1>2
  <2>2. Len(path) \in kept
    BY <1>3, <2>1
  <2>3. kept \in SUBSET Nat /\ \A k \in kept : k <= Len(path)
    BY <2>1
  <2> HIDE DEF kept
  <2>4. QED BY <2>2, <2>3, MaxIs
<1>5. Max(at) = n + 1 /\ at # {}
  <2>1. n + 1 \in at
    BY <1>1, <1>2
  <2>2. ASSUME NEW k \in at PROVE k <= n + 1
    <3> SUFFICES ASSUME k > n + 1 PROVE FALSE
        BY <1>1, <1>2
    <3>1. k - (n + 1) \in 1..Len(b) /\ n + 1 + (k - (n + 1)) = k
      BY <1>1, <1>2
    <3>2. path[n + 1 + (k - (n + 1))] # SLASH
      BY <1>3, <3>1
    <3>3. QED BY <3>1, <3>2
  <2>3. at \in SUBSET Nat
    BY <1>1, <1>2
  <2> HIDE DEF at
  <2>4. QED BY <2>1, <2>2, <2>3, MaxIs
<1>6. trim_slash(path) = path
  BY <1>1, <1>4, SubSeqFull DEF trim_slash
<1>7. rfind(path, SLASH) = n + 1 /\ n + 1 # NPOS
  BY <1>1, <1>5 DEF rfind, NPOS
<1>8. SubSeq(path, (n + 1) + 1, Len(path)) = b
  <2> DEFINE sub == SubSeq(path, (n + 1) + 1, Len(path))
  <2>1. \A i \in ((n + 1) + 1)..Len(path) : path[i] \in S
    BY <1>1
  <2>2. /\ sub \in Seq(S)
        /\ Len(sub) = IF (n + 1) + 1 <= Len(path) THEN Len(path) - ((n + 1) + 1) + 1 ELSE 0
        /\ \A i \in 1..(Len(path) - ((n + 1) + 1) + 1) : sub[i] = path[((n + 1) + 1) + i - 1]
    BY <1>1, <1>2, <2>1, SubSeqProperties
  <2>3. /\ (n + 1) + 1 <= Len(path)  /\ Len(path) - ((n + 1) + 1) + 1 = Len(b)
        /\ \A i \in 1..Len(b) : ((n + 1) + 1) + i - 1 = n + 1 + i
    BY <1>1, <1>2
  <2> HIDE DEF sub
  <2>4. sub \in Seq(S) /\ Len(sub) = Len(b) /\ \A i \in 1..Len(sub) : sub[i] = b[i]
    BY <1>1, <2>2, <2>3
  <2>5. sub = b
    BY <2>4, SeqEqual
  <2>6. QED BY <2>5 DEF sub
<1>9. SubSeq(path, 1, (n + 1) - 1) = stem
  <2> DEFINE sub == SubSeq(path, 1, n)
  <2>1. \A i \in 1..n : path[i] \in S
    BY <1>1, <1>2
  <2>2. /\ sub \in Seq(S)  /\ Len(sub) = IF 1 <= n THEN n - 1 + 1 ELSE 0
        /\ \A i \in 1..(n - 1 + 1) : sub[i] = path[1 + i - 1]
    BY <1>1, <2>1, SubSeqProperties
  <2>3. n - 1 + 1 = n /\ (n + 1) - 1 = n /\ (~(1 <= n) => n = 0) /\ \A i \in 1..n : 1 + i - 1 = i
    BY <1>1
  <2> HIDE DEF sub
  <2>4. sub \in Seq(S) /\ Len(sub) = n /\ \A i \in 1..Len(sub) : sub[i] = stem[i]
    BY <1>1, <2>2, <2>3
  <2>5. sub = stem
    BY <2>4, SeqEqual
  <2>6. QED BY <2>3, <2>5 DEF sub
<1>10. get_last_path(path) = b
  BY <1>6, <1>7, <1>8 DEF get_last_path, substr
<1>11. get_parent_path(path) = stem
  BY <1>6, <1>7, <1>9 DEF get_parent_path
<1>12. QED BY <1>10, <1>11 DEF path

\* The path that a name is under, without the slash before the name.
Stem(a) == IF a # << >> /\ Last(a) = SLASH THEN Front(a) ELSE a

LEMMA ComposedWithSlash ==
  ASSUME NEW S, SLASH \in S, NEW a \in Seq(S), NEW b \in Seq(S), b # << >>, SLASH \notin ToSet(b),
         NEW name \in {b, <<SLASH>> \o b}
  PROVE  compose_path(a, name) = Stem(a) \o <<SLASH>> \o b /\ Stem(a) \in Seq(S)
<1> DEFINE ends == a # << >> /\ Last(a) = SLASH
<1>0. <<SLASH>> \in Seq(S)
  OBVIOUS
<1>1. ends => Front(a) \in Seq(S) /\ a = Front(a) \o <<SLASH>>
  <2> SUFFICES ASSUME ends PROVE Front(a) \in Seq(S) /\ a = Front(a) \o <<SLASH>>
      OBVIOUS
  <2>1. Len(a) \in Nat \ {0} /\ 1 \in 1..Len(a) /\ Len(a) \in 1..Len(a)
    BY EmptySeq
  <2>2. SubSeq(a, 1, Len(a)) = SubSeq(a, 1, Len(a) - 1) \o <<a[Len(a)]>>
    BY <2>1, SubSeqRecursiveSecond
  <2>3. SubSeq(a, 1, Len(a)) = a
    BY SubSeqFull
  <2>4. SubSeq(a, 1, Len(a) - 1) \in Seq(S)
    BY <2>1, SubSeqProperties
  <2>5. QED BY <2>2, <2>3, <2>4 DEF Front, Last
<1>2. Stem(a) \in Seq(S)
  BY <1>1 DEF Stem
<1>3. CASE name = b
  <2>1. name # << >> /\ Head(name) # SLASH
    <3>1. 1 \in DOMAIN b /\ Head(b) = b[1]
      BY EmptySeq
    <3>2. QED BY <1>3, <3>1 DEF ToSet
  <2>2. compose_path(a, name) = IF ends THEN a \o b ELSE a \o <<SLASH>> \o b
    BY <1>3, <2>1 DEF compose_path
  <2>3. QED BY <1>1, <1>2, <2>2 DEF Stem
<1>4. CASE name = <<SLASH>> \o b
  <2>1. name # << >> /\ Head(name) = SLASH /\ Tail(name) = b
    BY <1>4
  <2>2. compose_path(a, name) = IF ends THEN a \o b ELSE a \o name
    BY <2>1 DEF compose_path
  <2>3. a \o (<<SLASH>> \o b) = (a \o <<SLASH>>) \o b
    BY <1>0, ConcatAssociative
  <2>4. QED BY <1>1, <1>2, <1>4, <2>2, <2>3 DEF Stem
<1>5. QED BY <1>3, <1>4

\* What the name and the path before it are, in the path of both.
NameIsFound(a, b, name) ==
  /\ get_last_path(compose_path(a, name)) = b
  /\ get_parent_path(compose_path(a, name)) = Stem(a)

(***************************************************************************)
(* A name put under any path is found again, and the path before it, with  *)
(* or without a slash between the two.                                     *)
(***************************************************************************)
THEOREM NamesAreFound ==
  ASSUME NEW S, NEW a \in Seq(S), NEW b \in Seq(S), b # << >>, SLASH \notin ToSet(b),
         NEW name \in {b, <<SLASH>> \o b}
  PROVE  NameIsFound(a, b, name)
<1> DEFINE T == S \union {SLASH}
<1>1. S \subseteq T /\ SLASH \in T
  OBVIOUS
<1> HIDE DEF T
<1>2. a \in Seq(T) /\ b \in Seq(T)
  BY <1>1, SeqMonotonic
<1>3. compose_path(a, name) = Stem(a) \o <<SLASH>> \o b /\ Stem(a) \in Seq(T)
  BY <1>1, <1>2, ComposedWithSlash
<1>4. /\ get_last_path(Stem(a) \o <<SLASH>> \o b) = b
      /\ get_parent_path(Stem(a) \o <<SLASH>> \o b) = Stem(a)
  BY <1>1, <1>2, <1>3, NameFound
<1>5. QED BY <1>3, <1>4 DEF NameIsFound
-----------------------------------------------------------------------------
(***************************************************************************)
(* Strings.                                                                *)
(***************************************************************************)
\* A string has another one at a place.
Occurs(s, d, i) ==
  i \in Nat \ {0} /\ i + Len(d) <= Len(s) + 1 /\ \A k \in 1..Len(d) : s[i + k - 1] = d[k]

LEMMA SubSeqTyped ==
  ASSUME NEW S, NEW s \in Seq(S), NEW i \in Nat \ {0}, NEW n \in Nat, i + n <= Len(s) + 1
  PROVE  /\ SubSeq(s, i, i + n - 1) \in Seq(S)  /\ Len(SubSeq(s, i, i + n - 1)) = n
         /\ \A k \in 1..n : SubSeq(s, i, i + n - 1)[k] = s[i + k - 1]
<1>0. Len(s) \in Nat
  BY LenProperties
<1>1. \A k \in i..(i + n - 1) : s[k] \in S
  <2>1. \A k \in i..(i + n - 1) : k \in 1..Len(s)
    BY <1>0
  <2>2. QED BY <2>1, ElementOfSeq
<1>2. i \in Int /\ i + n - 1 \in Int
  OBVIOUS
<1>3. /\ SubSeq(s, i, i + n - 1) \in Seq(S)
      /\ Len(SubSeq(s, i, i + n - 1)) = IF i <= i + n - 1 THEN (i + n - 1) - i + 1 ELSE 0
      /\ \A k \in 1..((i + n - 1) - i + 1) : SubSeq(s, i, i + n - 1)[k] = s[i + k - 1]
  BY <1>1, <1>2, SubSeqProperties
<1>4. (i + n - 1) - i + 1 = n /\ (~(i <= i + n - 1) => n = 0)
  OBVIOUS
<1>5. QED BY <1>3, <1>4

LEMMA OccursDef ==
  ASSUME NEW S, NEW s \in Seq(S), NEW d \in Seq(S), NEW i \in Nat \ {0}, i + Len(d) <= Len(s) + 1
  PROVE  SubSeq(s, i, i + Len(d) - 1) = d <=> Occurs(s, d, i)
<1> DEFINE sub == SubSeq(s, i, i + Len(d) - 1)
<1>1. Len(d) \in Nat
  BY LenProperties
<1>2. sub \in Seq(S) /\ Len(sub) = Len(d) /\ \A k \in 1..Len(d) : sub[k] = s[i + k - 1]
  BY <1>1, SubSeqTyped
<1> HIDE DEF sub
<1>3. sub = d => Occurs(s, d, i)
  <2> SUFFICES ASSUME sub = d PROVE \A k \in 1..Len(d) : s[i + k - 1] = d[k]
      BY DEF Occurs
  <2>1. QED BY <1>2
<1>4. Occurs(s, d, i) => sub = d
  <2> SUFFICES ASSUME Occurs(s, d, i) PROVE sub = d
      OBVIOUS
  <2>1. \A k \in 1..Len(sub) : sub[k] = d[k]
    BY <1>2 DEF Occurs
  <2>2. QED BY <1>2, <2>1, SeqEqual
<1>5. QED BY <1>3, <1>4 DEF sub

\* What find finds: the first place from a position on.
Finds(s, d, from, at) ==
  \/ at = NPOS /\ \A i \in Nat : i >= from => ~Occurs(s, d, i)
  \/ /\ at \in Nat \ {0}  /\ at >= from  /\ Occurs(s, d, at)
     /\ \A i \in Nat : i >= from /\ i < at => ~Occurs(s, d, i)

LEMMA FindDef ==
  ASSUME NEW S, NEW s \in Seq(S), NEW d \in Seq(S), NEW from \in Nat \ {0}
  PROVE  Finds(s, d, from, find(s, d, from))
<1> DEFINE at == {i \in from..(Len(s) - Len(d) + 1) : SubSeq(s, i, i + Len(d) - 1) = d}
<1>1. Len(s) \in Nat /\ Len(d) \in Nat
  BY LenProperties
<1>2. ASSUME NEW i PROVE i \in at <=> i \in Nat /\ i >= from /\ Occurs(s, d, i)
  <2>1. i \in from..(Len(s) - Len(d) + 1) <=> i \in Nat /\ i >= from /\ i + Len(d) <= Len(s) + 1
    BY <1>1
  <2>2. i \in Nat /\ i >= from => i \in Nat \ {0}
    OBVIOUS
  <2>3. CASE i \in Nat /\ i >= from /\ i + Len(d) <= Len(s) + 1
    <3>1. SubSeq(s, i, i + Len(d) - 1) = d <=> Occurs(s, d, i)
      BY <2>2, <2>3, OccursDef
    <3>2. QED BY <2>1, <2>3, <3>1
  <2>4. CASE ~(i \in Nat /\ i >= from /\ i + Len(d) <= Len(s) + 1)
    BY <2>1, <2>4 DEF Occurs
  <2>5. QED BY <2>3, <2>4
<1>3. find(s, d, from) = IF at = {} THEN NPOS ELSE Min(at)
  BY DEF find
<1> HIDE DEF at
<1>4. CASE at = {}
  BY <1>2, <1>3, <1>4 DEF Finds
<1>5. CASE at # {}
  <2>1. at \in SUBSET Nat
    BY <1>2
  <2>2. PICK m \in at : \A k \in at : m <= k
    BY <1>5, <2>1, Least
  <2>3. Min(at) = m
    BY <2>1, <2>2, MinIs
  <2>4. m \in Nat \ {0} /\ m >= from /\ Occurs(s, d, m)
    BY <1>2
  <2>5. ASSUME NEW i \in Nat, i >= from, i < m PROVE ~Occurs(s, d, i)
    <3> SUFFICES ASSUME Occurs(s, d, i) PROVE FALSE
        OBVIOUS
    <3>1. i \in at
      BY <1>2, <2>5
    <3>2. m <= i
      BY <2>2, <3>1
    <3>3. QED BY <2>4, <2>5, <3>2
  <2>6. QED BY <1>3, <1>5, <2>3, <2>4, <2>5 DEF Finds
<1>6. QED BY <1>4, <1>5

\* There is only one such place.
LEMMA FindsOnce ==
  ASSUME NEW s, NEW d, NEW from \in Nat \ {0}, NEW i, NEW j, Finds(s, d, from, i), Finds(s, d, from, j)
  PROVE  i = j
<1>1. CASE i = NPOS
  BY <1>1 DEF Finds, NPOS
<1>2. CASE j = NPOS
  BY <1>2 DEF Finds, NPOS
<1>3. CASE i # NPOS /\ j # NPOS
  <2>1. i \in Nat /\ j \in Nat /\ i >= from /\ j >= from /\ ~(i < j) /\ ~(j < i)
    BY <1>3 DEF Finds
  <2>2. QED BY <2>1
<1>4. QED BY <1>1, <1>2, <1>3

\* The end of a string from a position.
LEMMA EndOf ==
  ASSUME NEW S, NEW s \in Seq(S), NEW pos \in 1..(Len(s) + 1)
  PROVE  /\ substr(s, pos) \in Seq(S)  /\ Len(substr(s, pos)) = Len(s) + 1 - pos
         /\ \A k \in 1..(Len(s) + 1 - pos) : substr(s, pos)[k] = s[pos + k - 1]
<1>1. Len(s) \in Nat
  BY LenProperties
<1> DEFINE n == Len(s) + 1 - pos
<1>2. n \in Nat /\ pos + n <= Len(s) + 1 /\ pos + n - 1 = Len(s) /\ pos \in Nat \ {0}
  BY <1>1
<1> HIDE DEF n
<1>3. /\ SubSeq(s, pos, pos + n - 1) \in Seq(S)  /\ Len(SubSeq(s, pos, pos + n - 1)) = n
      /\ \A k \in 1..n : SubSeq(s, pos, pos + n - 1)[k] = s[pos + k - 1]
  BY <1>2, SubSeqTyped
<1>4. QED BY <1>2, <1>3 DEF substr, n

-----------------------------------------------------------------------------
(***************************************************************************)
(* Strings put together.                                                   *)
(***************************************************************************)
Joins(f, S, entries, d) ==
  /\ f \in [1..Len(entries) -> Seq(S)]  /\ Joined(entries, d) = f[1]
  /\ f[Len(entries)] = entries[Len(entries)]
  /\ \A i \in 1..(Len(entries) - 1) : f[i] = entries[i] \o d \o f[i + 1]

LEMMA JoinedDef ==
  ASSUME NEW S, NEW d \in Seq(S), NEW entries \in Seq(Seq(S)), entries # << >>
  PROVE  \E f : Joins(f, S, entries, d)
<1> DEFINE n       == Len(entries)
           D       == 1..n
           left    == [i \in D |-> n - i]
           ends    == {n}
           next    == [i \in D \ ends |-> i + 1]
           result  == [i \in D |-> entries[i]]
           combine == [i \in D \ ends |-> [w \in Seq(S) |-> entries[i] \o d \o w]]
           from    == CHOOSE from : from = [i \in D |-> IF i = n THEN entries[i]
                                                       ELSE entries[i] \o d \o from[i + 1]]
<1>1. n \in Nat \ {0} /\ \A i \in D : entries[i] \in Seq(S)
  BY EmptySeq, ElementOfSeq
<1>2. Joined(entries, d) = from[1]
  BY DEF Joined
<1> HIDE DEF n
<1>3. \A i \in D \ ends : i + 1 \in D /\ n - (i + 1) < n - i
  BY <1>1
<1>4. Ending(D, Seq(S), left, ends, next, result, combine)
  <2>1. left \in [D -> Nat] /\ ends \in SUBSET D /\ result \in [D -> Seq(S)]
    BY <1>1
  <2>2. next \in [D \ ends -> D] /\ \A i \in D \ ends : left[next[i]] < left[i]
    BY <1>1, <1>3
  <2>3. combine \in [D \ ends -> [Seq(S) -> Seq(S)]]
    <3> SUFFICES ASSUME NEW i \in D \ ends, NEW w \in Seq(S) PROVE entries[i] \o d \o w \in Seq(S)
        OBVIOUS
    <3>1. QED BY <1>1, ConcatProperties
  <2> HIDE DEF D, left, ends, next, result, combine
  <2>4. QED BY <2>1, <2>2, <2>3 DEF Ending
<1>5. PICK f : Solves(f, D, Seq(S), ends, next, result, combine)
  <2> HIDE DEF D, left, ends, next, result, combine
  <2>1. QED BY <1>4, Recursion
<1>6. f = [i \in D |-> IF i = n THEN entries[i] ELSE entries[i] \o d \o f[i + 1]]
  <2>1. f \in [D -> Seq(S)]
    BY <1>5 DEF Solves
  <2>2. f[n] = entries[n] /\ n \in D
    <3>1. n \in D /\ n \in ends /\ result[n] = entries[n]
      BY <1>1
    <3> HIDE DEF D, ends, result
    <3>2. f[n] = result[n]
      BY <1>5, <3>1 DEF Solves
    <3>3. QED BY <3>1, <3>2
  <2>3. ASSUME NEW i \in D, i # n PROVE f[i] = entries[i] \o d \o f[i + 1]
    <3>1. f[i] = combine[i][f[next[i]]] /\ i \in D \ ends
      BY <1>5, <2>3 DEF Solves
    <3>2. next[i] = i + 1 /\ f[i + 1] \in Seq(S)
      BY <1>3, <2>1, <3>1
    <3>3. combine[i] = [w \in Seq(S) |-> entries[i] \o d \o w]
      BY <3>1
    <3>4. QED BY <3>1, <3>2, <3>3
  <2> HIDE DEF D
  <2>4. QED BY <2>1, <2>2, <2>3
<1>7. from = [i \in D |-> IF i = n THEN entries[i] ELSE entries[i] \o d \o from[i + 1]]
  <2> HIDE DEF D
  <2>1. QED BY <1>6
<1> HIDE DEF from
<1> DEFINE Good == {i \in D : from[i] \in Seq(S)}
<1>8. ASSUME NEW i \in D, \A t \in D : left[t] < left[i] => t \in Good PROVE i \in Good
  <2>1. CASE i = n
    BY <1>1, <1>7, <2>1
  <2>2. CASE i # n
    <3>1. i + 1 \in D /\ left[i + 1] < left[i]
      BY <1>1, <2>2
    <3>2. from[i + 1] \in Seq(S)
      BY <1>8, <3>1
    <3> DEFINE first == entries[i] \o d
    <3>3. from[i] = first \o from[i + 1]
      <4> HIDE DEF D
      <4>1. QED BY <1>7, <2>2
    <3>4. first \in Seq(S)
      BY <1>1, ConcatProperties
    <3> HIDE DEF first, D
    <3>5. from[i] \in Seq(S)
      BY <3>2, <3>3, <3>4, ConcatProperties
    <3>6. QED BY <3>5
  <2>3. QED BY <2>1, <2>2
<1>9. D \subseteq Good
  <2>1. left \in [D -> Nat]
    BY <1>1
  <2> HIDE DEF D, left, Good
  <2>2. QED BY <1>8, <2>1, MeasureInduct
<1>10. from \in [D -> Seq(S)]
  <2> HIDE DEF D
  <2>1. QED BY <1>7, <1>9
<1>11. from[n] = entries[n]
  BY <1>1, <1>7
<1>12. ASSUME NEW i \in 1..(n - 1) PROVE from[i] = entries[i] \o d \o from[i + 1]
  <2>1. i \in D /\ i # n
    BY <1>1
  <2> HIDE DEF D
  <2>2. QED BY <1>7, <2>1
<1>13. QED BY <1>2, <1>10, <1>11, <1>12 DEF Joins, n

LEMMA JoinedOne ==
  ASSUME NEW S, NEW d \in Seq(S), NEW x \in Seq(S)
  PROVE  Joined(<<x>>, d) = x
<1>1. <<x>> \in Seq(Seq(S)) /\ Len(<<x>>) = 1 /\ <<x>>[1] = x /\ <<x>> # << >>
  OBVIOUS
<1> DEFINE e == <<x>>
<1> HIDE DEF e
<1>2. PICK f : Joins(f, S, e, d)
  BY <1>1, JoinedDef DEF e
<1>3. Len(e) = 1 /\ e[1] = x
  BY <1>1 DEF e
<1>4. QED BY <1>2, <1>3 DEF Joins, e

LEMMA JoinedMore ==
  ASSUME NEW S, NEW d \in Seq(S), NEW x \in Seq(S), NEW entries \in Seq(Seq(S)), entries # << >>
  PROVE  Joined(<<x>> \o entries, d) = x \o d \o Joined(entries, d)
<1> DEFINE n    == Len(entries)
           more == <<x>> \o entries
<1>1. n \in Nat \ {0}
  BY EmptySeq
<1>2. /\ more \in Seq(Seq(S))  /\ Len(more) = n + 1  /\ more[1] = x
      /\ \A i \in 1..n : more[i + 1] = entries[i]
  <2>1. <<x>> \in Seq(Seq(S)) /\ Len(<<x>>) = 1 /\ <<x>>[1] = x
    OBVIOUS
  <2>2. /\ more \in Seq(Seq(S))  /\ Len(more) = 1 + n
        /\ \A i \in 1..(1 + n) : more[i] = IF i <= 1 THEN <<x>>[i] ELSE entries[i - 1]
    BY <2>1, ConcatProperties
  <2> HIDE DEF more
  <2>3. more[1] = x
    BY <1>1, <2>1, <2>2
  <2>4. ASSUME NEW i \in 1..n PROVE more[i + 1] = entries[i]
    <3>1. i + 1 \in 1..(1 + n) /\ ~(i + 1 <= 1) /\ (i + 1) - 1 = i
      BY <1>1
    <3>2. QED BY <2>2, <3>1
  <2>5. QED BY <1>1, <2>2, <2>3, <2>4
<1> HIDE DEF more
<1>3. more # << >>
  BY <1>1, <1>2
<1>4. PICK f : Joins(f, S, entries, d)
  BY JoinedDef
<1>5. PICK g : Joins(g, S, more, d)
  BY <1>2, <1>3, JoinedDef
<1> DEFINE T == {k \in Nat : g[(n - k) + 1] = f[n - k]}
<1>6. 0 \in T
  <2>1. g[n + 1] = more[n + 1] /\ f[n] = entries[n]
    BY <1>2, <1>4, <1>5 DEF Joins
  <2>2. n \in 1..n /\ n - 0 = n
    BY <1>1
  <2>3. QED BY <1>2, <2>1, <2>2
<1>7. ASSUME NEW k \in 0..((n - 1) - 1), k \in T PROVE k + 1 \in T
  <2> DEFINE i == n - (k + 1)
  <2>1. i \in 1..(n - 1) /\ i + 1 = n - k /\ i + 1 \in 1..((n + 1) - 1) /\ i \in 1..n
    BY <1>1
  <2> HIDE DEF i
  <2>2. f[i] = entries[i] \o d \o f[i + 1]
    BY <1>4, <2>1 DEF Joins
  <2>3. g[i + 1] = more[i + 1] \o d \o g[(i + 1) + 1]
    BY <1>2, <1>5, <2>1 DEF Joins
  <2>4. g[(i + 1) + 1] = f[i + 1]
    BY <1>7, <2>1
  <2>5. g[i + 1] = f[i]
    BY <1>2, <2>1, <2>2, <2>3, <2>4
  <2>6. QED BY <2>5 DEF i
<1>8. 0..(n - 1) \subseteq T
  <2> HIDE DEF T
  <2>1. n - 1 \in Nat
    BY <1>1
  <2>2. QED BY <1>6, <1>7, <2>1, InductTo
<1>9. g[2] = f[1]
  <2>1. n - 1 \in 0..(n - 1) /\ n - (n - 1) = 1 /\ (n - (n - 1)) + 1 = 2
    BY <1>1
  <2> DEFINE k == n - 1
  <2>2. k \in T
    BY <1>8, <2>1
  <2> HIDE DEF k
  <2>3. g[(n - k) + 1] = f[n - k]
    BY <2>2
  <2>4. QED BY <2>1, <2>3 DEF k
<1>10. g[1] = more[1] \o d \o g[1 + 1]
  <2>1. 1 \in 1..(Len(more) - 1)
    BY <1>1, <1>2
  <2>2. QED BY <1>5, <2>1 DEF Joins
<1>11. Joined(more, d) = g[1] /\ Joined(entries, d) = f[1]
  BY <1>4, <1>5 DEF Joins
<1>12. Joined(more, d) = x \o d \o Joined(entries, d)
  <2>1. 1 + 1 = 2
    OBVIOUS
  <2>2. QED BY <1>2, <1>9, <1>10, <1>11, <2>1
<1>13. QED BY <1>12 DEF more
-----------------------------------------------------------------------------
(***************************************************************************)
(* Splitting.                                                              *)
(***************************************************************************)
Found(source, d, pos) == find(source, d, pos) # NPOS
After(source, d, pos) == find(source, d, pos) + Len(d)
Before(source, d, pos) == SubSeq(source, pos, find(source, d, pos) - 1)

\* What is before, at and after the first place of a delimiter.
LEMMA AroundDelimiter ==
  ASSUME NEW S, NEW source \in Seq(S), NEW d \in Seq(S), d # << >>,
         NEW pos \in 1..(Len(source) + 1), Found(source, d, pos)
  PROVE  /\ find(source, d, pos) \in Nat \ {0}  /\ find(source, d, pos) >= pos
         /\ Occurs(source, d, find(source, d, pos))
         /\ After(source, d, pos) \in 1..(Len(source) + 1)  /\ After(source, d, pos) > pos
         /\ Before(source, d, pos) \in Seq(S)
         /\ Len(Before(source, d, pos)) = find(source, d, pos) - pos
         /\ \A k \in 1..(find(source, d, pos) - pos) : Before(source, d, pos)[k] = source[pos + k - 1]
<1> DEFINE at == find(source, d, pos)
           n  == at - pos
<1>1. Len(source) \in Nat /\ Len(d) \in Nat \ {0} /\ pos \in Nat \ {0}
  BY LenProperties, EmptySeq
<1>2. at \in Nat \ {0} /\ at >= pos /\ Occurs(source, d, at)
  <2>1. Finds(source, d, pos, at)
    BY <1>1, FindDef
  <2> HIDE DEF at
  <2>2. at # NPOS
    BY DEF Found, at
  <2>3. QED BY <2>1, <2>2 DEF Finds
<1>3. at + Len(d) <= Len(source) + 1
  BY <1>2 DEF Occurs
<1> HIDE DEF at
<1>4. n \in Nat /\ pos + n <= Len(source) + 1 /\ pos + n - 1 = at - 1
  BY <1>1, <1>2, <1>3
<1> HIDE DEF n
<1>5. /\ SubSeq(source, pos, pos + n - 1) \in Seq(S)  /\ Len(SubSeq(source, pos, pos + n - 1)) = n
      /\ \A k \in 1..n : SubSeq(source, pos, pos + n - 1)[k] = source[pos + k - 1]
  BY <1>1, <1>4, SubSeqTyped
<1>6. at + Len(d) \in 1..(Len(source) + 1) /\ at + Len(d) > pos
  BY <1>1, <1>2, <1>3
<1>7. QED BY <1>2, <1>4, <1>5, <1>6 DEF at, n, After, Before

\* At the end of a string nothing is found.
LEMMA NothingAtEnd ==
  ASSUME NEW S, NEW source \in Seq(S), NEW d \in Seq(S), d # << >>
  PROVE  ~Found(source, d, Len(source) + 1) /\ substr(source, Len(source) + 1) = << >>
<1>1. Len(source) \in Nat /\ Len(source) + 1 \in 1..(Len(source) + 1)
  BY LenProperties
<1>2. ~Found(source, d, Len(source) + 1)
  <2> SUFFICES ASSUME Found(source, d, Len(source) + 1) PROVE FALSE
      OBVIOUS
  <2> DEFINE pos == Len(source) + 1
  <2>1. pos \in 1..(Len(source) + 1) /\ Found(source, d, pos)
    BY <1>1
  <2> HIDE DEF pos
  <2>2. After(source, d, pos) \in 1..(Len(source) + 1) /\ After(source, d, pos) > pos
    BY <2>1, AroundDelimiter
  <2>3. QED BY <1>1, <2>2 DEF pos
<1>3. SubSeq(source, Len(source) + 1, Len(source)) = << >>
  BY <1>1, SubSeqEmpty
<1>4. QED BY <1>2, <1>3 DEF substr

Splits(e, S, source, d) ==
  \A pos \in 1..(Len(source) + 1) :
    /\ e[pos] \in Seq(Seq(S)) \ {<< >>}
    /\ e[pos] = IF Found(source, d, pos) THEN <<Before(source, d, pos)>> \o e[After(source, d, pos)]
                ELSE <<substr(source, pos)>>

LEMMA TwoEntries == ASSUME NEW x, NEW y PROVE <<x>> \o <<y>> = <<x, y>>
<1> DEFINE S == {x, y}
<1>1. /\ <<x>> \in Seq(S)  /\ Len(<<x>>) = 1  /\ <<x>>[1] = x
      /\ <<y>> \in Seq(S)  /\ Len(<<y>>) = 1  /\ <<y>>[1] = y
      /\ <<x, y>> \in Seq(S)  /\ Len(<<x, y>>) = 2  /\ <<x, y>>[1] = x  /\ <<x, y>>[2] = y
  OBVIOUS
<1> DEFINE a == <<x>>  b == <<y>>  c == <<x, y>>
<1> HIDE DEF S, a, b, c
<1>2. /\ a \o b \in Seq(S)  /\ Len(a \o b) = Len(a) + Len(b)
      /\ \A i \in 1..(Len(a) + Len(b)) : (a \o b)[i] = IF i <= Len(a) THEN a[i] ELSE b[i - Len(a)]
  BY <1>1, ConcatProperties DEF a, b
<1>3. Len(a) = 1 /\ Len(b) = 1 /\ Len(c) = 2 /\ a[1] = x /\ b[1] = y /\ c[1] = x /\ c[2] = y /\ c \in Seq(S)
  BY <1>1 DEF a, b, c
<1>4. a \o b = c
  <2>1. \A i \in 1..2 : (a \o b)[i] = c[i]
    BY <1>2, <1>3
  <2>2. QED BY <1>2, <1>3, <2>1, SeqEqual
<1>5. QED BY <1>4 DEF a, b, c

LEMMA SplitDef ==
  ASSUME NEW S, NEW source \in Seq(S), NEW d \in Seq(S), d # << >>
  PROVE  Splits(SplitFrom(source, d), S, source, d)
<1> DEFINE D         == 1..(Len(source) + 1)
           R         == Seq(Seq(S)) \ {<< >>}
           Last2(pos) == Found(source, d, pos) /\ After(source, d, pos) > Len(source)
           Ends(pos) == ~Found(source, d, pos) \/ Last2(pos)
           End(pos)  == IF Found(source, d, pos) THEN <<Before(source, d, pos), << >> >>
                        ELSE <<substr(source, pos)>>
           left      == [pos \in D |-> Len(source) + 1 - pos]
           ends      == {pos \in D : Ends(pos)}
           next      == [pos \in D \ ends |-> After(source, d, pos)]
           result    == [pos \in D |-> End(pos)]
           combine   == [pos \in D \ ends |-> [w \in R |-> <<Before(source, d, pos)>> \o w]]
           Value(f, pos) == IF ~Found(source, d, pos) THEN <<substr(source, pos)>>
                            ELSE IF After(source, d, pos) > Len(source)
                                   THEN <<Before(source, d, pos), << >> >>
                            ELSE <<Before(source, d, pos)>> \o f[After(source, d, pos)]
           e         == CHOOSE e : e = [pos \in D |-> Value(e, pos)]
<1>1. Len(source) \in Nat
  BY LenProperties
<1>2. \A pos \in D : Found(source, d, pos) =>
        /\ After(source, d, pos) \in D  /\ After(source, d, pos) > pos
        /\ Before(source, d, pos) \in Seq(S)
  BY AroundDelimiter
<1>3. \A pos \in D : substr(source, pos) \in Seq(S)
  BY EndOf
<1>4. ASSUME NEW x \in Seq(S) PROVE <<x>> \in R /\ <<x, << >> >> \in R /\ \A w \in R : <<x>> \o w \in R
  <2>1. <<x>> \in Seq(Seq(S)) /\ <<x, << >> >> \in Seq(Seq(S))
    OBVIOUS
  <2>2. Len(<<x>>) = 1
    OBVIOUS
  <2>3. ASSUME NEW w \in R PROVE <<x>> \o w \in R
    <3>1. <<x>> \o w \in Seq(Seq(S))
      BY <2>1, ConcatProperties
    <3>2. <<x>> \o w # << >>
      <4>1. <<x>> # << >>
        OBVIOUS
      <4>2. QED BY <2>1, <4>1, ConcatEqualIffEmpty
    <3>3. QED BY <3>1, <3>2
  <2>4. QED BY <2>1, <2>3
<1>5. SplitFrom(source, d) = e
  BY DEF SplitFrom, Found, After, Before
<1>6. Ending(D, R, left, ends, next, result, combine)
  <2>1. left \in [D -> Nat] /\ ends \in SUBSET D
    BY <1>1
  <2>2. result \in [D -> R]
    <3> SUFFICES ASSUME NEW pos \in D PROVE End(pos) \in R
        OBVIOUS
    <3> HIDE DEF D, R
    <3>1. QED BY <1>2, <1>3, <1>4
  <2>3. next \in [D \ ends -> D] /\ \A pos \in D \ ends : left[next[pos]] < left[pos]
    BY <1>1, <1>2
  <2>4. combine \in [D \ ends -> [R -> R]]
    <3> SUFFICES ASSUME NEW pos \in D \ ends, NEW w \in R PROVE <<Before(source, d, pos)>> \o w \in R
        OBVIOUS
    <3>1. Before(source, d, pos) \in Seq(S)
      BY <1>2
    <3> HIDE DEF R
    <3>2. QED BY <1>4, <3>1
  <2> HIDE DEF D, R, left, ends, next, result, combine
  <2>5. QED BY <2>1, <2>2, <2>3, <2>4 DEF Ending
<1>7. PICK f : Solves(f, D, R, ends, next, result, combine)
  <2> HIDE DEF D, R, left, ends, next, result, combine
  <2>1. QED BY <1>6, Recursion
<1>8. f \in [D -> R] /\ \A pos \in D : f[pos] = Value(f, pos)
  <2>1. f \in [D -> R]
    BY <1>7 DEF Solves
  <2>2. ASSUME NEW pos \in D, Ends(pos) PROVE f[pos] = Value(f, pos)
    <3>1. pos \in ends /\ result[pos] = End(pos) /\ Value(f, pos) = End(pos)
      BY <2>2
    <3> HIDE DEF D, ends, result, Value
    <3>2. QED BY <1>7, <3>1 DEF Solves
  <2>3. ASSUME NEW pos \in D, ~Ends(pos) PROVE f[pos] = Value(f, pos)
    <3>1. pos \in D \ ends /\ next[pos] = After(source, d, pos) /\ After(source, d, pos) \in D
      BY <1>2, <2>3
    <3>2. combine[pos] = [w \in R |-> <<Before(source, d, pos)>> \o w]
      BY <3>1
    <3>3. Value(f, pos) = <<Before(source, d, pos)>> \o f[After(source, d, pos)]
      BY <2>3
    <3>4. f[pos] = combine[pos][f[next[pos]]]
      <4> HIDE DEF D, R, ends, next, result, combine
      <4>1. QED BY <1>7, <3>1 DEF Solves
    <3>5. f[After(source, d, pos)] \in R
      BY <2>1, <3>1
    <3> HIDE DEF D, R, ends, next, combine, Value
    <3>6. QED BY <3>1, <3>2, <3>3, <3>4, <3>5
  <2>4. QED BY <2>1, <2>2, <2>3
<1>9. f = [pos \in D |-> Value(f, pos)]
  <2> HIDE DEF D, Value
  <2>1. QED BY <1>8
<1>10. e = [pos \in D |-> Value(e, pos)]
  <2> HIDE DEF D
  <2>1. QED BY <1>9
<1> HIDE DEF e
<1>11. ASSUME NEW pos \in D
       PROVE  e[pos] = IF Found(source, d, pos) THEN <<Before(source, d, pos)>> \o e[After(source, d, pos)]
                       ELSE <<substr(source, pos)>>
  <2>1. e[pos] = Value(e, pos)
    <3> HIDE DEF D, Value
    <3>1. QED BY <1>10
  <2>2. CASE Last2(pos)
    <3> DEFINE end == Len(source) + 1
    <3>1. After(source, d, pos) = end /\ end \in D
      BY <1>1, <1>2, <2>2
    <3>2. ~Found(source, d, end) /\ substr(source, end) = << >>
      BY NothingAtEnd
    <3>3. e[end] = Value(e, end)
      <4> HIDE DEF D, Value, end
      <4>1. QED BY <1>10, <3>1
    <3>4. e[end] = << << >> >>
      <4> HIDE DEF end
      <4>1. QED BY <3>2, <3>3
    <3>5. e[pos] = <<Before(source, d, pos), << >> >>
      BY <2>1, <2>2
    <3>6. <<Before(source, d, pos)>> \o << << >> >> = <<Before(source, d, pos), << >> >>
      BY TwoEntries
    <3> HIDE DEF end
    <3>7. QED BY <2>2, <3>1, <3>4, <3>5, <3>6
  <2>3. CASE ~Last2(pos)
    BY <2>1, <2>3
  <2>4. QED BY <2>2, <2>3
<1> DEFINE Good == {pos \in D : e[pos] \in R}
<1>12. ASSUME NEW pos \in D, \A t \in D : left[t] < left[pos] => t \in Good PROVE pos \in Good
  <2>1. CASE Found(source, d, pos)
    <3>1. After(source, d, pos) \in D /\ left[After(source, d, pos)] < left[pos]
      BY <1>1, <1>2, <2>1
    <3>2. e[After(source, d, pos)] \in R
      BY <1>12, <3>1
    <3>3. Before(source, d, pos) \in Seq(S)
      BY <1>2, <2>1
    <3> HIDE DEF D, R
    <3>4. QED BY <1>4, <1>11, <2>1, <3>2, <3>3
  <2>2. CASE ~Found(source, d, pos)
    <3> HIDE DEF D, R
    <3>1. QED BY <1>3, <1>4, <1>11, <2>2
  <2>3. QED BY <2>1, <2>2
<1>13. D \subseteq Good
  <2>1. left \in [D -> Nat]
    BY <1>1
  <2> HIDE DEF D, left, Good
  <2>2. QED BY <1>12, <2>1, MeasureInduct
<1>14. QED BY <1>5, <1>11, <1>13 DEF Splits
LEMMA NoneFound ==
  ASSUME NEW S, NEW s \in Seq(S), NEW d \in Seq(S), \A i \in Nat \ {0} : ~Occurs(s, d, i)
  PROVE  find(s, d, 1) = NPOS
<1>1. 1 \in Nat \ {0}
  OBVIOUS
<1>2. Finds(s, d, 1, find(s, d, 1))
  BY <1>1, FindDef
<1>3. QED BY <1>2 DEF Finds

\* The pieces of a string at a delimiter.
LEMMA Pieces ==
  ASSUME NEW S, NEW source \in Seq(S), NEW d \in Seq(S), d # << >>,
         NEW pos \in 1..(Len(source) + 1), Found(source, d, pos)
  PROVE  /\ substr(source, pos) = Before(source, d, pos) \o d \o substr(source, After(source, d, pos))
         /\ find(Before(source, d, pos), d, 1) = NPOS
<1> DEFINE at     == find(source, d, pos)
           before == Before(source, d, pos)
           after  == After(source, d, pos)
           len    == Len(source)
<1>1. len \in Nat /\ Len(d) \in Nat \ {0} /\ pos \in Nat \ {0}
  BY LenProperties, EmptySeq
<1>2. /\ at \in Nat \ {0}  /\ at >= pos  /\ Occurs(source, d, at)
      /\ after \in 1..(len + 1)  /\ after > pos  /\ before \in Seq(S)  /\ Len(before) = at - pos
      /\ \A k \in 1..(at - pos) : before[k] = source[pos + k - 1]
  BY AroundDelimiter
<1>3. after = at + Len(d) /\ before = SubSeq(source, pos, at - 1) /\ at + Len(d) <= Len(source) + 1
  BY <1>2 DEF After, Before, Occurs
<1>4. \A i \in Nat : i >= pos /\ i < at => ~Occurs(source, d, i)
  <2>1. Finds(source, d, pos, at)
    BY <1>1, FindDef
  <2>2. at # NPOS
    BY DEF Found
  <2>3. QED BY <2>1, <2>2 DEF Finds
<1>5. SubSeq(source, at, after - 1) = d
  <2> HIDE DEF at, after, before, len
  <2>1. at \in Nat \ {0} /\ Occurs(source, d, at) /\ at + Len(d) <= Len(source) + 1
    BY <1>2, <1>3
  <2>2. SubSeq(source, at, at + Len(d) - 1) = d
    BY <2>1, OccursDef
  <2>3. Len(d) \in Nat /\ after = at + Len(d)
    BY <1>1, <1>3
  <2>4. after - 1 = at + Len(d) - 1
    BY <2>1, <2>3
  <2>5. QED BY <2>2, <2>4
<1> HIDE DEF at, before, after
<1>6. before \o d = SubSeq(source, pos, after - 1)
  <2>1. /\ pos \in 1..Len(source) + 1  /\ at - 1 \in pos - 1..Len(source)
        /\ after - 1 \in (at - 1)..Len(source)  /\ (at - 1) + 1 = at
    BY <1>1, <1>2, <1>3
  <2>2. SubSeq(source, pos, at - 1) \o SubSeq(source, (at - 1) + 1, after - 1) = SubSeq(source, pos, after - 1)
    BY <2>1, ConcatAdjacentSubSeq
  <2>3. QED BY <1>3, <1>5, <2>1, <2>2
<1>7. SubSeq(source, pos, after - 1) \o substr(source, after) = substr(source, pos)
  <2>1. /\ pos \in 1..Len(source) + 1  /\ after - 1 \in pos - 1..Len(source)
        /\ Len(source) \in (after - 1)..Len(source)  /\ (after - 1) + 1 = after
    BY <1>1, <1>2
  <2>2. SubSeq(source, pos, after - 1) \o SubSeq(source, (after - 1) + 1, Len(source))
          = SubSeq(source, pos, Len(source))
    BY <2>1, ConcatAdjacentSubSeq
  <2>3. QED BY <2>1, <2>2 DEF substr
<1>8. ASSUME NEW i \in Nat \ {0}, Occurs(before, d, i) PROVE FALSE
  <2>1. i + Len(d) <= (at - pos) + 1 /\ \A k \in 1..Len(d) : before[i + k - 1] = d[k]
    BY <1>2, <1>8 DEF Occurs
  <2>2. pos + i - 1 \in Nat \ {0} /\ pos + i - 1 >= pos /\ pos + i - 1 < at
    BY <1>1, <1>2, <2>1
  <2>3. (pos + i - 1) + Len(d) <= Len(source) + 1
    BY <1>1, <1>2, <1>3, <2>1
  <2>4. ASSUME NEW k \in 1..Len(d) PROVE source[(pos + i - 1) + k - 1] = d[k]
    <3>1. i + k - 1 \in 1..(at - pos) /\ pos + (i + k - 1) - 1 = (pos + i - 1) + k - 1
      BY <1>1, <1>2, <2>1
    <3>2. before[i + k - 1] = source[pos + (i + k - 1) - 1]
      BY <1>2, <3>1
    <3>3. QED BY <2>1, <3>1, <3>2
  <2>5. Occurs(source, d, pos + i - 1)
    BY <2>2, <2>3, <2>4 DEF Occurs
  <2>6. QED BY <1>4, <2>2, <2>5
<1>9. find(before, d, 1) = NPOS
  BY <1>2, <1>8, NoneFound
<1>10. QED BY <1>6, <1>7, <1>9 DEF before, after

LEMMA LastPiece ==
  ASSUME NEW S, NEW source \in Seq(S), NEW d \in Seq(S),
         NEW pos \in 1..(Len(source) + 1), ~Found(source, d, pos)
  PROVE  find(substr(source, pos), d, 1) = NPOS
<1> DEFINE rest == substr(source, pos)
           n    == Len(source) + 1 - pos
<1>1. Len(source) \in Nat /\ Len(d) \in Nat /\ pos \in Nat \ {0}
  BY LenProperties
<1>2. rest \in Seq(S) /\ Len(rest) = n /\ \A k \in 1..n : rest[k] = source[pos + k - 1]
  BY EndOf
<1>3. \A i \in Nat : i >= pos => ~Occurs(source, d, i)
  <2>1. Finds(source, d, pos, find(source, d, pos))
    BY <1>1, FindDef
  <2>2. QED BY <2>1 DEF Finds, Found, NPOS
<1> HIDE DEF rest
<1>4. ASSUME NEW i \in Nat \ {0}, Occurs(rest, d, i) PROVE FALSE
  <2>1. i + Len(d) <= n + 1 /\ \A k \in 1..Len(d) : rest[i + k - 1] = d[k]
    BY <1>2, <1>4 DEF Occurs
  <2>2. pos + i - 1 \in Nat \ {0} /\ pos + i - 1 >= pos /\ (pos + i - 1) + Len(d) <= Len(source) + 1
    BY <1>1, <2>1
  <2>3. ASSUME NEW k \in 1..Len(d) PROVE source[(pos + i - 1) + k - 1] = d[k]
    <3>1. i + k - 1 \in 1..n /\ pos + (i + k - 1) - 1 = (pos + i - 1) + k - 1
      BY <1>1, <2>1
    <3>2. rest[i + k - 1] = source[pos + (i + k - 1) - 1]
      BY <1>2, <3>1
    <3>3. QED BY <2>1, <3>1, <3>2
  <2>4. Occurs(source, d, pos + i - 1)
    BY <2>2, <2>3 DEF Occurs
  <2>5. QED BY <1>3, <2>2, <2>4
<1>5. QED BY <1>2, <1>4, NoneFound DEF rest

\* Entries from a position on, put together, are the string from there.
Whole(entries, s, d) ==
  Joined(entries, d) = s /\ \A i \in 1..Len(entries) : find(entries[i], d, 1) = NPOS

LEMMA SplitWhole ==
  ASSUME NEW S, NEW source \in Seq(S), NEW d \in Seq(S), d # << >>
  PROVE  \A pos \in 1..(Len(source) + 1) : Whole(SplitFrom(source, d)[pos], substr(source, pos), d)
<1> DEFINE D    == 1..(Len(source) + 1)
           e    == SplitFrom(source, d)
           left == [pos \in D |-> Len(source) + 1 - pos]
           Good == {pos \in D : Whole(e[pos], substr(source, pos), d)}
<1>1. Len(source) \in Nat
  BY LenProperties
<1>2. Splits(e, S, source, d)
  BY SplitDef
<1> HIDE DEF e
<1>3. ASSUME NEW pos \in D, \A t \in D : left[t] < left[pos] => t \in Good PROVE pos \in Good
  <2>1. CASE Found(source, d, pos)
    <3> DEFINE before == Before(source, d, pos)
               after  == After(source, d, pos)
               rest   == e[after]
    <3>1. before \in Seq(S) /\ after \in D /\ after > pos
      BY <2>1, AroundDelimiter
    <3>2. Whole(rest, substr(source, after), d)
      <4>1. left[after] < left[pos]
        BY <1>1, <3>1
      <4> HIDE DEF after, left
      <4>2. QED BY <1>3, <3>1, <4>1
    <3>3. e[pos] = <<before>> \o rest
      BY <1>2, <2>1 DEF Splits
    <3>4. rest \in Seq(Seq(S)) /\ rest # << >>
      <4> HIDE DEF after
      <4>1. QED BY <1>2, <3>1 DEF Splits
    <3>5. substr(source, pos) = before \o d \o substr(source, after) /\ find(before, d, 1) = NPOS
      BY <2>1, Pieces
    <3> HIDE DEF before, after, rest
    <3>6. Joined(e[pos], d) = substr(source, pos)
      <4>1. Joined(<<before>> \o rest, d) = before \o d \o Joined(rest, d)
        BY <3>1, <3>4, JoinedMore
      <4>2. QED BY <3>2, <3>3, <3>5, <4>1 DEF Whole
    <3>7. ASSUME NEW i \in 1..Len(e[pos]) PROVE find(e[pos][i], d, 1) = NPOS
      <4>1. <<before>> \in Seq(Seq(S)) /\ Len(<<before>>) = 1 /\ <<before>>[1] = before
        BY <3>1
      <4>2. /\ Len(e[pos]) = 1 + Len(rest)
            /\ \A k \in 1..(1 + Len(rest)) : e[pos][k] = IF k <= 1 THEN <<before>>[k] ELSE rest[k - 1]
        BY <3>3, <3>4, <4>1, ConcatProperties
      <4>3. Len(rest) \in Nat
        BY <3>4, LenProperties
      <4>4. CASE i = 1
        <5>1. e[pos][i] = before
          BY <4>1, <4>2, <4>3, <4>4
        <5>2. QED BY <3>5, <5>1
      <4>5. CASE i # 1
        <5>1. i - 1 \in 1..Len(rest) /\ e[pos][i] = rest[i - 1]
          BY <4>2, <4>3, <4>5
        <5>2. QED BY <3>2, <5>1 DEF Whole
      <4>6. QED BY <4>4, <4>5
    <3>8. QED BY <3>6, <3>7 DEF Whole
  <2>2. CASE ~Found(source, d, pos)
    <3> DEFINE rest == substr(source, pos)
    <3>1. e[pos] = <<rest>>
      BY <1>2, <2>2 DEF Splits
    <3>2. rest \in Seq(S)
      BY EndOf
    <3>3. find(rest, d, 1) = NPOS
      BY <2>2, LastPiece
    <3> HIDE DEF rest
    <3>4. Joined(<<rest>>, d) = rest
      BY <3>2, JoinedOne
    <3>5. Len(<<rest>>) = 1 /\ <<rest>>[1] = rest
      OBVIOUS
    <3>6. Whole(e[pos], rest, d)
      BY <3>1, <3>3, <3>4, <3>5 DEF Whole
    <3>7. QED BY <3>6 DEF rest
  <2>3. QED BY <2>1, <2>2
<1>4. D \subseteq Good
  <2>1. left \in [D -> Nat]
    BY <1>1
  <2> HIDE DEF D, left, Good
  <2>2. QED BY <1>3, <2>1, MeasureInduct
<1>5. QED BY <1>4 DEF e

(***************************************************************************)
(* The entries of every string, put together again, are the string, and no *)
(* entry has the delimiter.                                                *)
(***************************************************************************)
THEOREM EntriesAreWhole ==
  ASSUME NEW S, NEW source \in Seq(S), NEW d \in Seq(S), d # << >>
  PROVE  LET entries == split_string(source, d) IN
           /\ Joined(entries, d) = source
           /\ \A i \in 1..Len(entries) : find(entries[i], d, 1) = NPOS
<1>1. 1 \in 1..(Len(source) + 1)
  BY LenProperties
<1>2. Whole(SplitFrom(source, d)[1], substr(source, 1), d)
  BY <1>1, SplitWhole
<1>3. substr(source, 1) = source
  BY SubSeqFull DEF substr
<1>4. QED BY <1>2, <1>3 DEF Whole, split_string
-----------------------------------------------------------------------------
(***************************************************************************)
(* Replacing.                                                              *)
(***************************************************************************)
LEMMA JoinedType ==
  ASSUME NEW S, NEW d \in Seq(S), NEW entries \in Seq(Seq(S)), entries # << >>
  PROVE  Joined(entries, d) \in Seq(S)
<1>1. PICK f : Joins(f, S, entries, d)
  BY JoinedDef
<1>2. 1 \in 1..Len(entries)
  BY EmptySeq
<1>3. QED BY <1>1, <1>2 DEF Joins

\* A text of which something is done and the end of the source is left.
Partly(made, S, source, done, q) ==
  /\ done \in Seq(S)  /\ q \in 1..(Len(source) + 1)  /\ made = done \o substr(source, q)

LEMMA PartlyDef ==
  ASSUME NEW S, NEW source \in Seq(S), NEW made, NEW done, NEW q, Partly(made, S, source, done, q)
  PROVE  /\ Len(source) \in Nat  /\ Len(done) \in Nat  /\ q \in Nat \ {0}  /\ q <= Len(source) + 1
         /\ made \in Seq(S)  /\ Len(made) = Len(done) + (Len(source) + 1 - q)
         /\ \A k \in 1..Len(done) : made[k] = done[k]
         /\ \A k \in 1..(Len(source) + 1 - q) : made[Len(done) + k] = source[q + k - 1]
<1> DEFINE rest == substr(source, q)
           m    == Len(done)
           n    == Len(source) + 1 - q
<1>0. done \in Seq(S) /\ q \in 1..(Len(source) + 1) /\ made = done \o rest
  BY DEF Partly
<1>1. Len(source) \in Nat /\ m \in Nat /\ q \in Nat \ {0} /\ q <= Len(source) + 1 /\ n \in Nat
  BY <1>0, LenProperties
<1>2. rest \in Seq(S) /\ Len(rest) = n /\ \A k \in 1..n : rest[k] = source[q + k - 1]
  BY <1>0, EndOf
<1> HIDE DEF rest
<1>3. /\ made \in Seq(S)  /\ Len(made) = m + Len(rest)
      /\ \A k \in 1..(m + Len(rest)) : made[k] = IF k <= m THEN done[k] ELSE rest[k - m]
  BY <1>0, <1>2, ConcatProperties
<1> HIDE DEF m, n
<1>4. \A k \in 1..m : made[k] = done[k]
  BY <1>1, <1>2, <1>3
<1>5. ASSUME NEW k \in 1..n PROVE made[m + k] = source[q + k - 1]
  <2>1. m + k \in 1..(m + n) /\ ~(m + k <= m) /\ (m + k) - m = k
    BY <1>1
  <2>2. QED BY <1>2, <1>3, <2>1
<1>6. QED BY <1>1, <1>2, <1>3, <1>4, <1>5 DEF m, n

LEMMA OccursShift ==
  ASSUME NEW S, NEW source \in Seq(S), NEW made, NEW done, NEW q, Partly(made, S, source, done, q),
         NEW d \in Seq(S), NEW j \in Nat \ {0}
  PROVE  Occurs(made, d, Len(done) + j) <=> Occurs(source, d, q + j - 1)
<1> DEFINE m == Len(done)
           n == Len(source) + 1 - q
<1>1. /\ Len(source) \in Nat  /\ m \in Nat  /\ q \in Nat \ {0}  /\ q <= Len(source) + 1
      /\ Len(made) = m + n  /\ \A k \in 1..n : made[m + k] = source[q + k - 1]
  BY PartlyDef
<1>2. Len(d) \in Nat
  BY LenProperties
<1> HIDE DEF m
<1>3. m + j \in Nat \ {0} /\ q + j - 1 \in Nat \ {0}
  BY <1>1
<1>4. (m + j) + Len(d) <= Len(made) + 1 <=> (q + j - 1) + Len(d) <= Len(source) + 1
  BY <1>1, <1>2
<1>5. ASSUME NEW k \in 1..Len(d), (m + j) + Len(d) <= Len(made) + 1
      PROVE  made[(m + j) + k - 1] = source[(q + j - 1) + k - 1]
  <2>1. /\ j + k - 1 \in 1..n  /\ m + (j + k - 1) = (m + j) + k - 1
        /\ q + (j + k - 1) - 1 = (q + j - 1) + k - 1
    BY <1>1, <1>2, <1>5
  <2>2. made[m + (j + k - 1)] = source[q + (j + k - 1) - 1]
    BY <1>1, <2>1
  <2>3. QED BY <2>1, <2>2
<1>6. QED BY <1>3, <1>4, <1>5 DEF Occurs, m

\* What the loop finds in such a made is what a split of the source finds.
LEMMA FindShift ==
  ASSUME NEW S, NEW source \in Seq(S), NEW made, NEW done, NEW q, Partly(made, S, source, done, q),
         NEW d \in Seq(S)
  PROVE  find(made, d, Len(done) + 1)
           = IF Found(source, d, q) THEN Len(done) + (find(source, d, q) - q) + 1 ELSE NPOS
<1> DEFINE m  == Len(done)
           at == find(source, d, q)
<1>1. /\ Len(source) \in Nat  /\ m \in Nat  /\ q \in Nat \ {0}  /\ q <= Len(source) + 1
      /\ made \in Seq(S)
  BY PartlyDef
<1>2. \A j \in Nat \ {0} : Occurs(made, d, m + j) <=> Occurs(source, d, q + j - 1)
  BY OccursShift
<1>3. Finds(source, d, q, at)
  BY <1>1, FindDef
<1>4. Finds(made, d, m + 1, find(made, d, m + 1)) /\ m + 1 \in Nat \ {0}
  <2>1. m + 1 \in Nat \ {0}
    BY <1>1
  <2> HIDE DEF m
  <2>2. QED BY <1>1, <2>1, FindDef
<1> HIDE DEF m, at
<1>5. CASE at = NPOS
  <2>1. ASSUME NEW i \in Nat, i >= m + 1 PROVE ~Occurs(made, d, i)
    <3> DEFINE j == i - m
    <3>1. j \in Nat \ {0} /\ m + j = i /\ q + j - 1 \in Nat /\ q + j - 1 >= q
      BY <1>1, <2>1
    <3> HIDE DEF j
    <3>2. ~Occurs(source, d, q + j - 1)
      BY <1>3, <1>5, <3>1 DEF Finds, NPOS
    <3>3. ~Occurs(made, d, m + j)
      BY <1>2, <3>1, <3>2
    <3>4. QED BY <3>1, <3>3
  <2>2. Finds(made, d, m + 1, NPOS)
    BY <2>1 DEF Finds
  <2>3. find(made, d, m + 1) = NPOS
    BY <1>4, <2>2, FindsOnce
  <2>4. QED BY <1>5, <2>3 DEF Found, at, m
<1>6. CASE at # NPOS
  <2>1. /\ at \in Nat \ {0}  /\ at >= q  /\ Occurs(source, d, at)
        /\ \A i \in Nat : i >= q /\ i < at => ~Occurs(source, d, i)
    BY <1>3, <1>6 DEF Finds
  <2> DEFINE there == m + (at - q) + 1
  <2>2. there \in Nat \ {0} /\ there >= m + 1
    BY <1>1, <2>1
  <2>3. Occurs(made, d, there)
    <3> DEFINE j == (at - q) + 1
    <3>1. j \in Nat \ {0} /\ m + j = there /\ q + j - 1 = at
      BY <1>1, <2>1
    <3> HIDE DEF j, there
    <3>2. Occurs(made, d, m + j)
      BY <1>2, <2>1, <3>1
    <3>3. QED BY <3>1, <3>2
  <2>4. ASSUME NEW i \in Nat, i >= m + 1, i < there PROVE ~Occurs(made, d, i)
    <3> DEFINE j == i - m
    <3>1. j \in Nat \ {0} /\ m + j = i /\ q + j - 1 \in Nat /\ q + j - 1 >= q /\ q + j - 1 < at
      BY <1>1, <2>1, <2>4
    <3> HIDE DEF j
    <3>2. ~Occurs(source, d, q + j - 1)
      BY <2>1, <3>1
    <3>3. ~Occurs(made, d, m + j)
      BY <1>2, <3>1, <3>2
    <3>4. QED BY <3>1, <3>3
  <2> HIDE DEF there
  <2>5. Finds(made, d, m + 1, there)
    BY <2>2, <2>3, <2>4 DEF Finds
  <2>6. find(made, d, m + 1) = there
    BY <1>4, <2>5, FindsOnce
  <2>7. QED BY <1>6, <2>6 DEF Found, at, m, there
<1>7. QED BY <1>5, <1>6

\* A string cut where its first part ends.
LEMMA CutAt ==
  ASSUME NEW S, NEW u \in Seq(S), NEW v \in Seq(S)
  PROVE  SubSeq(u \o v, 1, Len(u)) = u /\ substr(u \o v, Len(u) + 1) = v
<1> DEFINE w == u \o v
           m == Len(u)
           n == Len(v)
<1>1. m \in Nat /\ n \in Nat
  BY LenProperties
<1>2. /\ w \in Seq(S)  /\ Len(w) = m + n
      /\ \A k \in 1..(m + n) : w[k] = IF k <= m THEN u[k] ELSE v[k - m]
  BY ConcatProperties
<1> HIDE DEF w
<1>3. SubSeq(w, 1, m) = u
  <2> DEFINE s == SubSeq(w, 1, m)
  <2>1. 1 + m <= Len(w) + 1 /\ 1 + m - 1 = m /\ \A k \in 1..m : 1 + k - 1 = k
    BY <1>1, <1>2
  <2>2. /\ SubSeq(w, 1, 1 + m - 1) \in Seq(S)  /\ Len(SubSeq(w, 1, 1 + m - 1)) = m
        /\ \A k \in 1..m : SubSeq(w, 1, 1 + m - 1)[k] = w[1 + k - 1]
    <3> HIDE DEF m
    <3>1. QED BY <1>1, <1>2, <2>1, SubSeqTyped
  <2>3. s \in Seq(S) /\ Len(s) = m /\ \A k \in 1..m : s[k] = w[k]
    BY <2>1, <2>2
  <2> HIDE DEF s
  <2>4. \A k \in 1..m : s[k] = u[k]
    <3>1. \A k \in 1..m : k \in 1..(m + n) /\ k <= m
      BY <1>1
    <3>2. QED BY <1>2, <2>3, <3>1
  <2>5. QED BY <2>3, <2>4, SeqEqual DEF s
<1>4. substr(w, m + 1) = v
  <2> DEFINE s == substr(w, m + 1)
  <2>1. m + 1 \in 1..(Len(w) + 1) /\ Len(w) + 1 - (m + 1) = n
    BY <1>1, <1>2
  <2>2. /\ s \in Seq(S)  /\ Len(s) = Len(w) + 1 - (m + 1)
        /\ \A k \in 1..(Len(w) + 1 - (m + 1)) : s[k] = w[(m + 1) + k - 1]
    <3> HIDE DEF m
    <3>1. QED BY <1>2, <2>1, EndOf
  <2> HIDE DEF s
  <2>3. \A k \in 1..n : s[k] = v[k]
    <3>1. \A k \in 1..n : (m + 1) + k - 1 = m + k /\ m + k \in 1..(m + n) /\ ~(m + k <= m) /\ (m + k) - m = k
      BY <1>1
    <3>2. QED BY <1>2, <2>1, <2>2, <3>1
  <2>4. QED BY <2>1, <2>2, <2>3, SeqEqual DEF s
<1>5. QED BY <1>3, <1>4 DEF w

Associative(a, b, c) == (a \o b) \o c = a \o (b \o c)

LEMMA Associate ==
  ASSUME NEW S, NEW a \in Seq(S), NEW b \in Seq(S), NEW c \in Seq(S)
  PROVE  Associative(a, b, c)
<1>1. (a \o b) \o c = a \o (b \o c)
  BY ConcatAssociative
<1>2. QED BY <1>1 DEF Associative

Regrouped(a, b, c, d) ==
  /\ a \o (b \o c \o d) = (a \o b) \o (c \o d)
  /\ (a \o b) \o (c \o d) = ((a \o b) \o c) \o d

LEMMA Regroup ==
  ASSUME NEW S, NEW a \in Seq(S), NEW b \in Seq(S), NEW c \in Seq(S), NEW d \in Seq(S)
  PROVE  Regrouped(a, b, c, d)
<1> DEFINE ab == a \o b
           cd == c \o d
<1>1. ab \in Seq(S) /\ cd \in Seq(S)
  BY ConcatProperties
<1>2. Associative(b, c, d) /\ Associative(a, b, cd) /\ Associative(ab, c, d)
  <2> HIDE DEF ab, cd
  <2>1. QED BY <1>1, Associate
<1>3. QED BY <1>2 DEF Regrouped, Associative

\* What a round of the loop makes of it.
LEMMA ReplaceShift ==
  ASSUME NEW S, NEW source \in Seq(S), NEW made, NEW done, NEW q, Partly(made, S, source, done, q),
         NEW old \in Seq(S), old # << >>, NEW new \in Seq(S), Found(source, old, q)
  PROVE  LET at    == find(made, old, Len(done) + 1)
             after == After(source, old, q)
             more  == done \o Before(source, old, q) \o new IN
           /\ at # NPOS
           /\ Partly(SubSeq(made, 1, at - 1) \o new \o substr(made, at + Len(old)), S, source, more, after)
           /\ at + Len(new) = Len(more) + 1
<1> DEFINE at     == find(made, old, Len(done) + 1)
           after  == After(source, old, q)
           before == Before(source, old, q)
           rest   == substr(source, after)
           u      == done \o before
<1>1. q \in 1..(Len(source) + 1) /\ done \in Seq(S) /\ made = done \o substr(source, q)
  BY DEF Partly
<1>2. /\ after \in 1..(Len(source) + 1)  /\ before \in Seq(S)
      /\ Len(before) = find(source, old, q) - q
  BY <1>1, AroundDelimiter
<1>3. rest \in Seq(S)
  BY <1>2, EndOf
<1>4. substr(source, q) = before \o old \o rest
  BY <1>1, Pieces
<1>5. at = Len(done) + Len(before) + 1
  BY <1>2, FindShift
<1>6. Len(done) \in Nat /\ Len(before) \in Nat /\ Len(old) \in Nat /\ Len(new) \in Nat
  BY <1>1, <1>2, LenProperties
<1> HIDE DEF at, after, before, rest
<1>7. u \in Seq(S) /\ Len(u) = Len(done) + Len(before)
  BY <1>1, <1>2, ConcatProperties
<1>8. made = u \o (old \o rest) /\ made = (u \o old) \o rest
  <2>1. done \in Seq(S) /\ before \in Seq(S)
    BY <1>1, <1>2
  <2>2. Regrouped(done, before, old, rest)
    BY <1>3, <2>1, Regroup
  <2>3. QED BY <1>1, <1>4, <2>2 DEF u, Regrouped
<1> HIDE DEF u
<1>9. /\ old \o rest \in Seq(S)
      /\ u \o old \in Seq(S)  /\ Len(u \o old) = Len(u) + Len(old)
      /\ u \o new \in Seq(S)  /\ Len(u \o new) = Len(u) + Len(new)
  BY <1>3, <1>7, ConcatProperties
<1>10. SubSeq(made, 1, at - 1) = u
  <2>1. at - 1 = Len(u)
    BY <1>5, <1>6, <1>7
  <2>2. SubSeq(u \o (old \o rest), 1, Len(u)) = u
    BY <1>7, <1>9, CutAt
  <2>3. QED BY <1>8, <2>1, <2>2
<1>11. substr(made, at + Len(old)) = rest
  <2>1. at + Len(old) = Len(u \o old) + 1
    BY <1>5, <1>6, <1>7, <1>9
  <2>2. substr((u \o old) \o rest, Len(u \o old) + 1) = rest
    BY <1>3, <1>9, CutAt
  <2>3. QED BY <1>8, <2>1, <2>2
<1>12. at # NPOS /\ at + Len(new) = Len(u \o new) + 1
  BY <1>5, <1>6, <1>7, <1>9 DEF NPOS
<1>13. Partly(SubSeq(made, 1, at - 1) \o new \o substr(made, at + Len(old)), S, source, u \o new, after)
  BY <1>2, <1>9, <1>10, <1>11 DEF Partly, rest
<1>14. QED BY <1>12, <1>13 DEF at, after, before, u
\* The first rounds of a loop that counts.
CountsTo(f, max, start, step) ==
  f = [n \in 0..max |-> IF n = 0 THEN start ELSE step[n][f[n - 1]]]

LEMMA LoopTo ==
  ASSUME NEW R, NEW max, NEW start, NEW step, max \in Nat, start \in R, step \in [1..max -> [R -> R]]
  PROVE  \E f : CountsTo(f, max, start, step)
<1> DEFINE all == [n \in Nat |-> IF n \in 1..max THEN step[n] ELSE [w \in R |-> w]]
<1>1. all \in [Nat -> [R -> R]]
  OBVIOUS
<1>2. PICK g : Counts(g, R, start, all)
  <2> HIDE DEF all
  <2>1. QED BY <1>1, LoopCounts
<1> DEFINE f == [n \in 0..max |-> g[n]]
<1>3. ASSUME NEW n \in 0..max, n # 0 PROVE f[n] = step[n][f[n - 1]]
  <2>1. n \in Nat /\ n \in 1..max /\ n - 1 \in 0..max
    BY <1>3
  <2>2. g[n] = all[n][g[n - 1]]
    <3> HIDE DEF all
    <3>1. QED BY <1>2, <1>3, <2>1 DEF Counts
  <2>3. all[n] = step[n] /\ f[n] = g[n] /\ f[n - 1] = g[n - 1]
    BY <2>1
  <2>4. QED BY <2>2, <2>3
<1>4. f[0] = start
  <2>1. g[0] = start
    BY <1>2 DEF Counts
  <2>2. QED BY <2>1
<1>5. DOMAIN f = 0..max /\ f = [n \in 0..max |-> f[n]]
  OBVIOUS
<1> HIDE DEF f
<1>6. CountsTo(f, max, start, step)
  BY <1>3, <1>4, <1>5 DEF CountsTo
<1>7. QED BY <1>6

ReplaceStates(S) == [source : Seq(S), pos : Nat \ {0}]

LEMMA ReplaceNextType ==
  ASSUME NEW S, NEW old \in Seq(S), NEW new \in Seq(S), NEW loop \in ReplaceStates(S)
  PROVE  ReplaceNext(loop, old, new) \in ReplaceStates(S)
<1> DEFINE made == loop.source
           at   == find(made, old, loop.pos)
<1>1. made \in Seq(S) /\ loop.pos \in Nat \ {0} /\ Len(made) \in Nat /\ Len(old) \in Nat /\ Len(new) \in Nat
  BY LenProperties DEF ReplaceStates
<1>2. Finds(made, old, loop.pos, at)
  BY <1>1, FindDef
<1> HIDE DEF made, at
<1>3. CASE at = NPOS
  BY <1>3 DEF ReplaceNext, made, at
<1>4. CASE at # NPOS
  <2>1. at \in Nat \ {0} /\ at + Len(old) <= Len(made) + 1
    BY <1>2, <1>4 DEF Finds, Occurs
  <2> DEFINE first == SubSeq(made, 1, at - 1)
             last  == substr(made, at + Len(old))
  <2>2. first \in Seq(S)
    <3> DEFINE n == at - 1
    <3>1. n \in Nat /\ 1 + n <= Len(made) + 1 /\ 1 + n - 1 = n /\ 1 \in Nat \ {0}
      BY <1>1, <2>1
    <3> HIDE DEF n
    <3>2. SubSeq(made, 1, 1 + n - 1) \in Seq(S)
      BY <1>1, <3>1, SubSeqTyped
    <3>3. QED BY <3>1, <3>2 DEF n
  <2>3. last \in Seq(S)
    <3>1. at + Len(old) \in 1..(Len(made) + 1)
      BY <1>1, <2>1
    <3>2. QED BY <1>1, <3>1, EndOf
  <2> HIDE DEF first, last
  <2>4. first \o new \o last \in Seq(S) /\ at + Len(new) \in Nat \ {0}
    BY <1>1, <2>1, <2>2, <2>3, ConcatProperties
  <2>5. ReplaceNext(loop, old, new) = [source |-> first \o new \o last, pos |-> at + Len(new)]
    BY <1>4 DEF ReplaceNext, made, at, first, last
  <2>6. QED BY <2>4, <2>5 DEF ReplaceStates
<1>5. QED BY <1>3, <1>4

\* What the loop has after each number of rounds.
LEMMA ReplaceRounds ==
  ASSUME NEW S, NEW source \in Seq(S), NEW old \in Seq(S), NEW new \in Seq(S)
  PROVE  /\ ReplaceLoop(source, old, new)[0] = [source |-> source, pos |-> 1]
         /\ \A n \in 0..(Len(source) - 1) :
              ReplaceLoop(source, old, new)[n + 1] = ReplaceNext(ReplaceLoop(source, old, new)[n], old, new)
<1> DEFINE max   == Len(source)
           R     == ReplaceStates(S)
           start == [source |-> source, pos |-> 1]
           step  == [n \in 1..max |-> [w \in R |-> ReplaceNext(w, old, new)]]
           loop  == ReplaceLoop(source, old, new)
<1>1. max \in Nat
  BY LenProperties
<1>2. start \in R
  BY DEF ReplaceStates
<1>3. step \in [1..max -> [R -> R]]
  BY ReplaceNextType
<1>4. PICK f : f = [n \in 0..max |-> IF n = 0 THEN start ELSE step[n][f[n - 1]]]
  <2> HIDE DEF max, R, start, step
  <2>1. \E f : CountsTo(f, max, start, step)
    BY <1>1, <1>2, <1>3, LoopTo
  <2>2. QED BY <2>1 DEF CountsTo
<1>5. \A n \in 0..max : f[n] \in R
  <2> DEFINE T == {n \in 0..max : f[n] \in R}
  <2>1. 0 \in T
    <3> HIDE DEF R, start, step
    <3>1. QED BY <1>1, <1>2, <1>4
  <2>2. ASSUME NEW n \in 0..(max - 1), n \in T PROVE n + 1 \in T
    <3>1. n + 1 \in 0..max /\ n + 1 \in 1..max /\ n + 1 # 0 /\ (n + 1) - 1 = n
      BY <1>1
    <3> HIDE DEF R, start, step
    <3>2. f[n + 1] = step[n + 1][f[n]]
      BY <1>4, <3>1
    <3>3. QED BY <1>3, <2>2, <3>1, <3>2
  <2>3. 0..max \subseteq T
    <3> HIDE DEF T, max
    <3>1. QED BY <1>1, <2>1, <2>2, InductTo
  <2>4. QED BY <2>3
<1>6. ASSUME NEW n \in 0..max, n # 0 PROVE f[n] = ReplaceNext(f[n - 1], old, new)
  <2>1. n - 1 \in 0..max /\ n \in 1..max
    BY <1>1, <1>6
  <2>2. f[n - 1] \in R
    BY <1>5, <2>1
  <2>3. f[n] = step[n][f[n - 1]]
    <3> HIDE DEF step, start, R, max
    <3>1. QED BY <1>4, <1>6
  <2> HIDE DEF R
  <2>4. QED BY <2>1, <2>2, <2>3
<1>7. f = [n \in 0..Len(source) |-> IF n = 0 THEN [source |-> source, pos |-> 1]
                                    ELSE ReplaceNext(f[n - 1], old, new)]
  <2>1. f[0] = start
    <3> HIDE DEF start, step
    <3>1. QED BY <1>1, <1>4
  <2>2. f = [n \in 0..max |-> f[n]]
    <3> HIDE DEF start, step
    <3>1. QED BY <1>4
  <2> HIDE DEF step
  <2>3. QED BY <1>6, <2>1, <2>2
<1>8. loop = [n \in 0..Len(source) |-> IF n = 0 THEN [source |-> source, pos |-> 1]
                                       ELSE ReplaceNext(loop[n - 1], old, new)]
  BY <1>7 DEF ReplaceLoop
<1> HIDE DEF loop
<1>9. loop[0] = [source |-> source, pos |-> 1]
  BY <1>1, <1>8
<1>10. ASSUME NEW n \in 0..(max - 1) PROVE loop[n + 1] = ReplaceNext(loop[n], old, new)
  <2>1. n + 1 \in 0..max /\ n + 1 # 0 /\ (n + 1) - 1 = n
    BY <1>1
  <2>2. QED BY <1>8, <2>1
<1>11. QED BY <1>9, <1>10 DEF loop
\* After some rounds: what is done joins with the entries that are left.
RoundsDone(loop, n, S, source, old, new, done, q) ==
  /\ Partly(loop.source, S, source, done, q)
  /\ loop.pos = Len(done) + 1
  /\ done \o Joined(SplitFrom(source, old)[q], new) = Joined(SplitFrom(source, old)[1], new)
  /\ q > n \/ ~Found(source, old, q)

LEMMA RoundsNext ==
  ASSUME NEW S, NEW source \in Seq(S), NEW old \in Seq(S), old # << >>, NEW new \in Seq(S),
         NEW loop, NEW n \in Nat, NEW done, NEW q,
         RoundsDone(loop, n, S, source, old, new, done, q)
  PROVE  \E more, r : RoundsDone(ReplaceNext(loop, old, new), n + 1, S, source, old, new, more, r)
<1> DEFINE e == SplitFrom(source, old)
<1>1. Partly(loop.source, S, source, done, q) /\ loop.pos = Len(done) + 1
  BY DEF RoundsDone
<1>2. done \in Seq(S) /\ q \in 1..(Len(source) + 1) /\ q \in Nat
  <2>1. done \in Seq(S) /\ q \in 1..(Len(source) + 1)
    BY <1>1 DEF Partly
  <2>2. QED BY <2>1, LenProperties
<1>3. Splits(e, S, source, old)
  BY SplitDef
<1>4. done \o Joined(e[q], new) = Joined(e[1], new)
  BY DEF RoundsDone
<1> HIDE DEF e
<1>5. CASE ~Found(source, old, q)
  <2>1. find(loop.source, old, loop.pos) = NPOS
    BY <1>1, <1>5, FindShift
  <2>2. ReplaceNext(loop, old, new) = loop
    BY <2>1 DEF ReplaceNext
  <2>3. RoundsDone(loop, n + 1, S, source, old, new, done, q)
    BY <1>5 DEF RoundsDone
  <2>4. QED BY <2>2, <2>3
<1>6. CASE Found(source, old, q)
  <2> DEFINE at     == find(loop.source, old, Len(done) + 1)
             before == Before(source, old, q)
             after  == After(source, old, q)
             more   == done \o before \o new
             made   == SubSeq(loop.source, 1, at - 1) \o new \o substr(loop.source, at + Len(old))
             next   == [source |-> made, pos |-> at + Len(new)]
  <2>1. at # NPOS /\ Partly(made, S, source, more, after) /\ at + Len(new) = Len(more) + 1
    BY <1>1, <1>6, ReplaceShift
  <2>2. ReplaceNext(loop, old, new) = next
    BY <1>1, <2>1 DEF ReplaceNext
  <2>3. after \in 1..(Len(source) + 1) /\ after > q /\ before \in Seq(S)
    BY <1>2, <1>6, AroundDelimiter
  <2>4. q > n
    BY <1>6 DEF RoundsDone
  <2>5. after > n + 1
    <3>1. after \in Nat
      BY <2>3, LenProperties
    <3> HIDE DEF after
    <3>2. QED BY <1>2, <2>3, <2>4, <3>1
  <2>6. e[q] = <<before>> \o e[after] /\ e[after] \in Seq(Seq(S)) /\ e[after] # << >>
    <3>1. e[q] = <<before>> \o e[after]
      BY <1>2, <1>3, <1>6 DEF Splits
    <3> HIDE DEF after
    <3>2. QED BY <1>3, <2>3, <3>1 DEF Splits
  <2>7. next.source = made /\ next.pos = at + Len(new)
    OBVIOUS
  <2> HIDE DEF at, before, after, made, next
  <2>8. more \o Joined(e[after], new) = Joined(e[1], new)
    <3> DEFINE j == Joined(e[after], new)
    <3>1. j \in Seq(S)
      BY <2>6, JoinedType
    <3>2. Joined(e[q], new) = before \o new \o j
      BY <2>3, <2>6, JoinedMore
    <3> HIDE DEF j
    <3>3. Regrouped(done, before, new, j)
      BY <1>2, <2>3, <3>1, Regroup
    <3>4. (done \o before \o new) \o j = done \o (before \o new \o j)
      BY <3>3 DEF Regrouped
    <3>5. QED BY <1>4, <3>2, <3>4 DEF j
  <2> HIDE DEF more
  <2>9. RoundsDone(next, n + 1, S, source, old, new, more, after)
    BY <2>1, <2>5, <2>7, <2>8 DEF RoundsDone, e
  <2>10. QED BY <2>2, <2>9
<1>7. QED BY <1>5, <1>6

(***************************************************************************)
(* In every string each place of the old value is replaced once: what the  *)
(* loop makes is the entries at the old value, put together with the new   *)
(* one, and what is put in is never looked at.                             *)
(***************************************************************************)
THEOREM ReplaceOnce ==
  ASSUME NEW S, NEW source \in Seq(S), NEW old \in Seq(S), old # << >>, NEW new \in Seq(S)
  PROVE  replace_string(source, old, new) = Joined(split_string(source, old), new)
<1> DEFINE loop == ReplaceLoop(source, old, new)
           max  == Len(source)
           e    == SplitFrom(source, old)
           Good == {n \in 0..max : \E done, q : RoundsDone(loop[n], n, S, source, old, new, done, q)}
<1>1. max \in Nat
  BY LenProperties
<1>2. loop[0] = [source |-> source, pos |-> 1] /\ \A n \in 0..(max - 1) : loop[n + 1] = ReplaceNext(loop[n], old, new)
  BY ReplaceRounds
<1>3. Splits(e, S, source, old)
  BY SplitDef
<1>4. \A q \in 1..(max + 1) : e[q] \in Seq(Seq(S)) /\ e[q] # << >>
  BY <1>3 DEF Splits
<1> HIDE DEF loop, e
<1>5. 0 \in Good
  <2>1. 1 \in 1..(max + 1)
    BY <1>1
  <2>2. << >> \in Seq(S) /\ Len(<< >>) = 0
    BY EmptySeq
  <2>3. substr(source, 1) = source
    BY SubSeqFull DEF substr
  <2>4. << >> \o source = source
    BY ConcatEmptySeq
  <2>5. Joined(e[1], new) \in Seq(S)
    <3>1. e[1] \in Seq(Seq(S)) /\ e[1] # << >>
      BY <1>4, <2>1
    <3>2. QED BY <3>1, JoinedType
  <2>6. << >> \o Joined(e[1], new) = Joined(e[1], new)
    BY <2>5, ConcatEmptySeq
  <2>7. Partly(source, S, source, << >>, 1)
    BY <2>1, <2>2, <2>3, <2>4 DEF Partly
  <2>8. loop[0].source = source /\ loop[0].pos = Len(<< >>) + 1
    BY <1>2, <2>2
  <2>9. RoundsDone(loop[0], 0, S, source, old, new, << >>, 1)
    BY <2>6, <2>7, <2>8 DEF RoundsDone, e
  <2>10. QED BY <1>1, <2>9
<1>6. ASSUME NEW n \in 0..(max - 1), n \in Good PROVE n + 1 \in Good
  <2>1. n \in Nat /\ n + 1 \in 0..max
    BY <1>1
  <2>2. PICK done, q : RoundsDone(loop[n], n, S, source, old, new, done, q)
    BY <1>6
  <2>3. \E more, r : RoundsDone(ReplaceNext(loop[n], old, new), n + 1, S, source, old, new, more, r)
    BY <2>1, <2>2, RoundsNext
  <2>4. QED BY <1>2, <2>1, <2>3
<1>7. max \in Good
  <2>1. 0..max \subseteq Good
    <3> HIDE DEF Good, max
    <3>1. QED BY <1>1, <1>5, <1>6, InductTo
  <2>2. QED BY <1>1, <2>1
<1>8. PICK done, q : RoundsDone(loop[max], max, S, source, old, new, done, q)
  BY <1>7
<1>9. Partly(loop[max].source, S, source, done, q) /\ done \o Joined(e[q], new) = Joined(e[1], new)
  BY <1>8 DEF RoundsDone, e
<1>10. q \in 1..(max + 1) /\ loop[max].source = done \o substr(source, q)
  BY <1>9 DEF Partly
<1>11. ~Found(source, old, q)
  <2>1. CASE q > max
    <3>1. q = max + 1
      BY <1>1, <1>10, <2>1
    <3>2. QED BY <3>1, NothingAtEnd
  <2>2. QED BY <1>8, <2>1 DEF RoundsDone
<1>12. e[q] = <<substr(source, q)>>
  BY <1>3, <1>10, <1>11 DEF Splits
<1>13. Joined(e[q], new) = substr(source, q)
  <2>1. substr(source, q) \in Seq(S)
    BY <1>10, EndOf
  <2>2. QED BY <1>12, <2>1, JoinedOne
<1>14. loop[max].source = Joined(e[1], new)
  BY <1>9, <1>10, <1>13
<1>15. QED BY <1>14 DEF replace_string, split_string, loop, e
-----------------------------------------------------------------------------
(***************************************************************************)
(* The dump of a block.                                                    *)
(***************************************************************************)
DisplayStates == [result : Seq(Nat), buffer : Seq(Nat), most : Nat]

\* What the buffer of some room holds between two bytes, and what was shown so far.
Fits(x, room) == x \in DisplayStates /\ x.most <= room /\ Len(x.buffer) <= room - 8
Shown(x) == x.result \o x.buffer
Shows(i, byte, size) == <<byte \div 16, byte % 16>> \o Gap(i, size)

LEMMA GapType ==
  ASSUME NEW i, NEW size
  PROVE  Gap(i, size) \in Seq(Nat) /\ Len(Gap(i, size)) <= 2
<1>1. NEWLINE \in Nat /\ SPACE \in Nat
  BY DEF NEWLINE, SPACE
<1> HIDE DEF NEWLINE, SPACE
<1> DEFINE Short(s) == s \in Seq(Nat) /\ Len(s) <= 2
<1>2. Short(<<NEWLINE>>) /\ Short(<<SPACE, SPACE>>) /\ Short(<<SPACE>>)
  BY <1>1
<1>3. Short(<< >>)
  BY EmptySeq
<1>4. \/ Gap(i, size) = <<NEWLINE>>  \/ Gap(i, size) = <<SPACE, SPACE>>
      \/ Gap(i, size) = <<SPACE>>  \/ Gap(i, size) = << >>
  BY DEF Gap
<1> HIDE DEF Short
<1>5. Short(Gap(i, size))
  BY <1>2, <1>3, <1>4
<1>6. QED BY <1>5 DEF Short

LEMMA DigitsType ==
  ASSUME NEW byte \in 0..255
  PROVE  <<byte \div 16, byte % 16>> \in Seq(Nat) /\ Len(<<byte \div 16, byte % 16>>) = 2
<1> DEFINE high == byte \div 16
           low  == byte % 16
<1>1. high \in Nat /\ low \in Nat
  OBVIOUS
<1> HIDE DEF high, low
<1>2. <<high, low>> \in Seq(Nat) /\ Len(<<high, low>>) = 2
  BY <1>1
<1>3. QED BY <1>2 DEF high, low

\* What is kept when a byte is shown.
Stepped(y, x, i, byte, size, room) ==
  /\ Fits(y, room)
  /\ Shown(y) = Shown(x) \o Shows(i, byte, size)
  /\ i = size => y.buffer = << >>

LEMMA DisplayStep ==
  ASSUME NEW room \in Nat, room >= 8, NEW x, Fits(x, room), NEW byte \in 0..255, NEW i, NEW size
  PROVE  Stepped(DisplayByte(x, i, byte, size, room), x, i, byte, size, room)
<1> DEFINE digits == <<byte \div 16, byte % 16>>
           gap    == Gap(i, size)
           old    == x.buffer
           buffer == old \o digits \o gap
           empty  == i = size \/ FewLeft(buffer, room)
           shown  == x.result
           most   == x.most
           more   == IF Len(buffer) > most THEN Len(buffer) ELSE most
           y      == DisplayByte(x, i, byte, size, room)
<1>1. shown \in Seq(Nat) /\ old \in Seq(Nat) /\ most \in Nat /\ most <= room /\ Len(old) <= room - 8
  BY DEF Fits, DisplayStates
<1>2. digits \in Seq(Nat) /\ Len(digits) = 2
  BY DigitsType
<1>3. gap \in Seq(Nat) /\ Len(gap) <= 2
  BY GapType
<1>4. y = [result |-> IF empty THEN shown \o buffer ELSE shown,
           buffer |-> IF empty THEN << >> ELSE buffer, most |-> more]
  <2>1. x = [result |-> shown, buffer |-> old, most |-> most]
    BY DEF Fits, DisplayStates
  <2> HIDE DEF shown, old, most
  <2>2. y = [x EXCEPT !.result = IF empty THEN @ \o buffer ELSE @,
                      !.buffer = IF empty THEN << >> ELSE buffer,
                      !.most   = IF Len(buffer) > @ THEN Len(buffer) ELSE @]
    BY <2>1 DEF DisplayByte, old, shown, most
  <2> HIDE DEF y, buffer, empty
  <2>3. y = [result |-> IF empty THEN shown \o buffer ELSE shown,
             buffer |-> IF empty THEN << >> ELSE buffer,
             most   |-> IF Len(buffer) > most THEN Len(buffer) ELSE most]
    BY <2>1, <2>2
  <2>4. QED BY <2>3
<1> HIDE DEF digits, gap, old, shown, most, y
<1>5. buffer \in Seq(Nat) /\ Len(buffer) = Len(old) + Len(digits) + Len(gap)
  <2> DEFINE first == old \o digits
  <2>1. first \in Seq(Nat) /\ Len(first) = Len(old) + Len(digits)
    BY <1>1, <1>2, ConcatProperties
  <2> HIDE DEF first
  <2>2. first \o gap \in Seq(Nat) /\ Len(first \o gap) = Len(first) + Len(gap)
    BY <1>3, <2>1, ConcatProperties
  <2>3. QED BY <2>1, <2>2 DEF first
<1>6. Len(old) \in Nat /\ Len(gap) \in Nat /\ Len(buffer) \in Nat /\ Len(buffer) <= room
  <2>1. Len(old) \in Nat /\ Len(gap) \in Nat
    BY <1>1, <1>3, LenProperties
  <2>2. QED BY <1>1, <1>2, <1>3, <1>5, <2>1
<1>7. Regrouped(shown, old, digits, gap)
  BY <1>1, <1>2, <1>3, Regroup
<1>8. shown \o buffer = (shown \o old) \o (digits \o gap)
  BY <1>7 DEF Regrouped
<1>9. Shown(x) \o Shows(i, byte, size) = shown \o buffer
  BY <1>8 DEF Shown, Shows, shown, old, digits, gap
<1> HIDE DEF buffer
<1>10. more \in Nat /\ more <= room
  BY <1>1, <1>6
<1> HIDE DEF more
<1>11. << >> \in Seq(Nat) /\ Len(<< >>) = 0
  BY EmptySeq
<1>12. CASE empty
  <2>1. shown \o buffer \in Seq(Nat)
    BY <1>1, <1>5, ConcatProperties
  <2> DEFINE all == shown \o buffer
  <2>2. y = [result |-> all, buffer |-> << >>, most |-> more]
    BY <1>4, <1>12
  <2>3. y.result = all /\ y.buffer = << >> /\ y.most = more
    BY <2>2
  <2> HIDE DEF all, empty
  <2>4. y \in DisplayStates
    BY <1>10, <1>11, <2>1, <2>2 DEF DisplayStates, all
  <2>5. Fits(y, room)
    BY <1>10, <1>11, <2>3, <2>4 DEF Fits
  <2>6. all \o << >> = all
    BY <2>1, ConcatEmptySeq DEF all
  <2>7. Shown(y) = all
    BY <2>3, <2>6 DEF Shown
  <2>8. QED BY <1>9, <2>3, <2>5, <2>7 DEF y, all, Stepped
<1>13. CASE ~empty
  <2>1. i # size /\ Len(buffer) <= room - 8
    BY <1>6, <1>13 DEF FewLeft
  <2>2. y = [result |-> shown, buffer |-> buffer, most |-> more]
    BY <1>4, <1>13
  <2> HIDE DEF empty
  <2>3. y.result = shown /\ y.buffer = buffer /\ y.most = more
    BY <2>2
  <2>4. y \in DisplayStates
    BY <1>1, <1>5, <1>10, <2>2 DEF DisplayStates
  <2>5. Fits(y, room)
    BY <1>10, <2>1, <2>3, <2>4 DEF Fits
  <2>6. Shown(y) = shown \o buffer
    BY <2>3 DEF Shown
  <2>7. QED BY <1>9, <2>1, <2>5, <2>6 DEF y, Stepped
<1>14. QED BY <1>12, <1>13
LEMMA DisplayRounds ==
  ASSUME NEW data \in Seq(0..255), NEW room \in Nat, room >= 8
  PROVE  /\ DisplayLoop(data, room)[0] = [result |-> << >>, buffer |-> << >>, most |-> 0]
         /\ \A i \in 0..(Len(data) - 1) :
              DisplayLoop(data, room)[i + 1]
                = DisplayByte(DisplayLoop(data, room)[i], i + 1, data[i + 1], Len(data), room)
         /\ \A i \in 0..Len(data) : Fits(DisplayLoop(data, room)[i], room)
<1> DEFINE max   == Len(data)
           R     == {x \in DisplayStates : Fits(x, room)}
           start == [result |-> << >>, buffer |-> << >>, most |-> 0]
           Next(x, i) == DisplayByte(x, i, data[i], max, room)
           step  == [i \in 1..max |-> [x \in R |-> Next(x, i)]]
           loop  == DisplayLoop(data, room)
<1>1. max \in Nat
  BY LenProperties
<1>2. start \in R
  <2>1. << >> \in Seq(Nat) /\ Len(<< >>) = 0
    BY EmptySeq
  <2>2. start \in DisplayStates
    BY <2>1 DEF DisplayStates
  <2>3. QED BY <2>1, <2>2 DEF Fits
<1>3. ASSUME NEW i \in 1..max, NEW x \in R PROVE Next(x, i) \in R
  <2>1. data[i] \in 0..255
    BY ElementOfSeq
  <2>2. Fits(x, room)
    OBVIOUS
  <2> DEFINE y == Next(x, i)
  <2>3. Fits(y, room)
    BY <2>1, <2>2, DisplayStep DEF Stepped
  <2> HIDE DEF y
  <2>4. y \in R
    BY <2>3 DEF Fits
  <2>5. QED BY <2>4 DEF y
<1>4. step \in [1..max -> [R -> R]]
  <2> HIDE DEF R, Next
  <2>1. QED BY <1>3
<1>5. PICK f : f = [i \in 0..max |-> IF i = 0 THEN start ELSE step[i][f[i - 1]]]
  <2> HIDE DEF max, R, start, step
  <2>1. \E f : CountsTo(f, max, start, step)
    BY <1>1, <1>2, <1>4, LoopTo
  <2>2. QED BY <2>1 DEF CountsTo
<1>6. \A i \in 0..max : f[i] \in R
  <2> DEFINE T == {i \in 0..max : f[i] \in R}
  <2> HIDE DEF R, start, step
  <2>1. 0 \in T
    BY <1>1, <1>2, <1>5
  <2>2. ASSUME NEW i \in 0..(max - 1), i \in T PROVE i + 1 \in T
    <3>1. i + 1 \in 0..max /\ i + 1 \in 1..max /\ i + 1 # 0 /\ (i + 1) - 1 = i
      BY <1>1
    <3>2. f[i + 1] = step[i + 1][f[i]]
      BY <1>5, <3>1
    <3>3. QED BY <1>4, <2>2, <3>1, <3>2
  <2>3. 0..max \subseteq T
    <3> HIDE DEF T, max
    <3>1. QED BY <1>1, <2>1, <2>2, InductTo
  <2>4. QED BY <2>3
<1>7. ASSUME NEW i \in 0..max, i # 0 PROVE f[i] = Next(f[i - 1], i)
  <2>1. i - 1 \in 0..max /\ i \in 1..max
    BY <1>1, <1>7
  <2>2. f[i - 1] \in R
    BY <1>6, <2>1
  <2>3. f[i] = step[i][f[i - 1]]
    <3> HIDE DEF step, start, R, max, Next
    <3>1. QED BY <1>5, <1>7
  <2> HIDE DEF R, Next
  <2>4. QED BY <2>1, <2>2, <2>3
<1>8. f = [i \in 0..Len(data) |-> IF i = 0 THEN [result |-> << >>, buffer |-> << >>, most |-> 0]
                                  ELSE DisplayByte(f[i - 1], i, data[i], Len(data), room)]
  <2>1. f[0] = start
    <3> HIDE DEF start, step
    <3>1. QED BY <1>1, <1>5
  <2>2. f = [i \in 0..max |-> f[i]]
    <3> HIDE DEF start, step
    <3>1. QED BY <1>5
  <2> HIDE DEF step
  <2>3. QED BY <1>7, <2>1, <2>2
<1>9. /\ loop = [i \in 0..Len(data) |-> IF i = 0 THEN [result |-> << >>, buffer |-> << >>, most |-> 0]
                                        ELSE DisplayByte(loop[i - 1], i, data[i], Len(data), room)]
  BY <1>8 DEF DisplayLoop
<1> HIDE DEF loop
<1>10. loop[0] = start
  BY <1>1, <1>9
<1>11. ASSUME NEW i \in 0..(max - 1) PROVE loop[i + 1] = Next(loop[i], i + 1)
  <2>1. i + 1 \in 0..max /\ i + 1 # 0 /\ (i + 1) - 1 = i
    BY <1>1
  <2>2. QED BY <1>9, <2>1
<1>12. \A i \in 0..max : loop[i] \in R
  <2> DEFINE T == {i \in 0..max : loop[i] \in R}
  <2> HIDE DEF R, Next, start
  <2>1. 0 \in T
    BY <1>1, <1>2, <1>10
  <2>2. ASSUME NEW i \in 0..(max - 1), i \in T PROVE i + 1 \in T
    <3>1. i + 1 \in 0..max /\ i + 1 \in 1..max
      BY <1>1
    <3>2. QED BY <1>3, <1>11, <2>2, <3>1
  <2>3. 0..max \subseteq T
    <3> HIDE DEF T, max
    <3>1. QED BY <1>1, <2>1, <2>2, InductTo
  <2>4. QED BY <2>3
<1>13. QED BY <1>10, <1>11, <1>12 DEF loop

(***************************************************************************)
(* The dump of every block is the same whatever room the buffer has, if it *)
(* has 8 bytes or more, and no more is ever in the buffer than its room.   *)
(***************************************************************************)
THEOREM DumpsAreTheSame ==
  ASSUME NEW data \in Seq(0..255), NEW room \in Nat, room >= 8, NEW other \in Nat, other >= 8
  PROVE  LET dump == hex_display_string(data, room) IN
           dump.most <= room /\ dump.result = hex_display_string(data, other).result
<1> DEFINE max == Len(data)
           one == DisplayLoop(data, room)
           two == DisplayLoop(data, other)
           Same(i) == /\ Shown(one[i]) = Shown(two[i])
                      /\ i = max => one[i].buffer = << >> /\ two[i].buffer = << >>
           Good == {i \in 0..max : Same(i)}
<1>1. max \in Nat
  BY LenProperties
<1>2. /\ one[0] = [result |-> << >>, buffer |-> << >>, most |-> 0]
      /\ \A i \in 0..(max - 1) : one[i + 1] = DisplayByte(one[i], i + 1, data[i + 1], max, room)
      /\ \A i \in 0..max : Fits(one[i], room)
  BY DisplayRounds
<1>3. /\ two[0] = [result |-> << >>, buffer |-> << >>, most |-> 0]
      /\ \A i \in 0..(max - 1) : two[i + 1] = DisplayByte(two[i], i + 1, data[i + 1], max, other)
      /\ \A i \in 0..max : Fits(two[i], other)
  BY DisplayRounds
<1> HIDE DEF one, two
<1>4. 0 \in Good
  BY <1>1, <1>2, <1>3
<1>5. ASSUME NEW i \in 0..(max - 1), i \in Good PROVE i + 1 \in Good
  <2> DEFINE j    == i + 1
             byte == data[j]
  <2>1. j \in 0..max /\ j \in 1..max /\ i \in 0..max
    BY <1>1
  <2>2. byte \in 0..255
    BY <2>1, ElementOfSeq
  <2> DEFINE x == DisplayByte(one[i], j, byte, max, room)
             y == DisplayByte(two[i], j, byte, max, other)
  <2>3. one[j] = x /\ two[j] = y
    BY <1>2, <1>3
  <2>4. Shown(x) = Shown(one[i]) \o Shows(j, byte, max) /\ (j = max => x.buffer = << >>)
    <3> DEFINE w == one[i]
    <3>1. Fits(w, room)
      BY <1>2, <2>1
    <3> HIDE DEF j, byte, max, w
    <3>2. Stepped(DisplayByte(w, j, byte, max, room), w, j, byte, max, room)
      BY <2>2, <3>1, DisplayStep
    <3>3. QED BY <3>2 DEF w, Stepped
  <2>5. Shown(y) = Shown(two[i]) \o Shows(j, byte, max) /\ (j = max => y.buffer = << >>)
    <3> DEFINE w == two[i]
    <3>1. Fits(w, other)
      BY <1>3, <2>1
    <3> HIDE DEF j, byte, max, w
    <3>2. Stepped(DisplayByte(w, j, byte, max, other), w, j, byte, max, other)
      BY <2>2, <3>1, DisplayStep
    <3>3. QED BY <3>2 DEF w, Stepped
  <2>6. Shown(one[i]) = Shown(two[i])
    BY <1>5
  <2> HIDE DEF x, y, byte
  <2>7. Same(j)
    BY <2>3, <2>4, <2>5, <2>6
  <2>8. QED BY <2>1, <2>7
<1>6. Same(max)
  <2>1. 0..max \subseteq Good
    <3> HIDE DEF Good, max
    <3>1. QED BY <1>1, <1>4, <1>5, InductTo
  <2>2. QED BY <1>1, <2>1
<1>7. max \in 0..max
  BY <1>1
<1>8. one[max].most <= room /\ one[max].result \in Seq(Nat) /\ two[max].result \in Seq(Nat)
  BY <1>2, <1>3, <1>7 DEF Fits, DisplayStates
<1>9. Shown(one[max]) = one[max].result \o << >> /\ Shown(two[max]) = two[max].result \o << >>
  BY <1>6 DEF Shown
<1>10. one[max].result \o << >> = one[max].result /\ two[max].result \o << >> = two[max].result
  BY <1>8, ConcatEmptySeq
<1>11. one[max].result = two[max].result
  BY <1>6, <1>9, <1>10
<1>12. QED BY <1>8, <1>11 DEF hex_display_string, one, two
(***************************************************************************)
(* Names and texts keep what they are made of, whatever the strings and    *)
(* blocks that are looked at: paths, entries, replaced values and dumps    *)
(* (path_string.cpp, string.cpp).                                          *)
(***************************************************************************)
THEOREM TextsAreKept == TextSpec => []TextIsKept
<1>0. text \in Texts => text.first \in Seq(Chars) /\ text.second \in Seq(Chars) /\ text.third \in Seq(Chars)
  BY TextAssumption
<1>1. PathsCompose
  <2> SUFFICES ASSUME text \in Texts PROVE PathsCompose
      BY DEF PathsCompose
  <2> DEFINE a == text.first
             b == text.second
  <2>1. a \in Seq(Chars) /\ b \in Seq(Chars)
    BY <1>0
  <2> SUFFICES ASSUME b # << >>, SLASH \notin ToSet(b), NEW name \in {b, <<SLASH>> \o b}
               PROVE  /\ get_last_path(compose_path(a, name)) = b
                      /\ get_parent_path(compose_path(a, name))
                           = IF a # << >> /\ Last(a) = SLASH THEN Front(a) ELSE a
      BY DEF PathsCompose
  <2> HIDE DEF a, b
  <2>2. name = b \/ name = <<SLASH>> \o b
    OBVIOUS
  <2>3. NameIsFound(a, b, name)
    <3>1. ASSUME name = b PROVE NameIsFound(a, b, name)
      <4>1. NameIsFound(a, b, b)
        BY <2>1, NamesAreFound
      <4>2. QED BY <3>1, <4>1
    <3>2. ASSUME name = <<SLASH>> \o b PROVE NameIsFound(a, b, name)
      <4>1. NameIsFound(a, b, <<SLASH>> \o b)
        BY <2>1, NamesAreFound
      <4>2. QED BY <3>2, <4>1
    <3>3. QED BY <2>2, <3>1, <3>2
  <2>4. QED BY <2>3 DEF NameIsFound, Stem
<1>2. SplitIsWhole
  <2> SUFFICES ASSUME text \in Texts, text.second # << >> PROVE SplitIsWhole
      BY DEF SplitIsWhole
  <2> DEFINE s       == text.first
             d       == text.second
             entries == split_string(s, d)
  <2>1. s \in Seq(Chars) /\ d \in Seq(Chars) /\ d # << >>
    BY <1>0
  <2>2. Joined(entries, d) = s /\ \A i \in 1..Len(entries) : find(entries[i], d, 1) = NPOS
    <3> HIDE DEF s, d
    <3>1. QED BY <2>1, EntriesAreWhole
  <2>3. QED BY <2>2 DEF SplitIsWhole
<1>3. ReplaceIsOnce
  <2> SUFFICES ASSUME text \in Texts, text.second # << >> PROVE ReplaceIsOnce
      BY DEF ReplaceIsOnce
  <2> DEFINE s   == text.first
             old == text.second
             new == text.third
  <2>1. s \in Seq(Chars) /\ old \in Seq(Chars) /\ new \in Seq(Chars) /\ old # << >>
    BY <1>0
  <2>2. replace_string(s, old, new) = Joined(split_string(s, old), new)
    <3> HIDE DEF s, old, new
    <3>1. QED BY <2>1, ReplaceOnce
  <2>3. QED BY <2>2 DEF ReplaceIsOnce
<1>4. DisplayFits
  <2> SUFFICES ASSUME text \in Blocks PROVE DisplayFits
      BY DEF DisplayFits
  <2> DEFINE data == text.data
  <2>1. data \in Seq(0..255)
    BY TextAssumption
  <2>2. 40 \in Nat /\ 40 >= 8 /\ 1024 \in Nat /\ 1024 >= 8
    OBVIOUS
  <2>3. /\ hex_display_string(data, 40).most <= 40
        /\ hex_display_string(data, 40).result = hex_display_string(data, 1024).result
    <3> HIDE DEF data
    <3>1. QED BY <2>1, <2>2, DumpsAreTheSame
  <2>4. QED BY <2>3 DEF DisplayFits
<1>5. TextIsKept
  BY <1>1, <1>2, <1>3, <1>4 DEF TextIsKept
<1>6. QED BY <1>5, PTL DEF TextSpec
=============================================================================
