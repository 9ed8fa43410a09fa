--------------------------- MODULE ComponentProofs ---------------------------
(***************************************************************************)
(* Proofs about the components that are proved alone.  The retarget, for   *)
(* any base and width of a difficulty, any windows and any times.  The     *)
(* mailbox of the processor, for any number of messages and starts: the    *)
(* thread, mutex and condition variable implement the abstract mailbox.    *)
(* The pool of pending transactions, for every set of transactions, every  *)
(* assignment of inputs and every capacity of at least one.                *)
(***************************************************************************)
EXTENDS DifficultyAdjust, MessageProcessor, Mempool, SequenceTheorems, FiniteSetTheorems, NatSetInduction, TLAPS

-----------------------------------------------------------------------------
(* The retarget.  Numbers and their rows of bytes.                         *)

LEMMA BaseFacts == Base \in Nat /\ Base >= 2 /\ Width \in Nat /\ Width >= 1
BY DifficultyAssumption

\* Arithmetic.
LEMMA Divide ==
  ASSUME NEW v \in Nat
  PROVE  /\ v \div Base \in Nat /\ v % Base \in 0 .. Base - 1
         /\ (v \div Base) * Base + (v % Base) = v
<1>1. v % Base = v - (Base * (v \div Base))
  BY BaseFacts
<1>2. v \div Base \in Nat /\ v % Base \in 0 .. Base - 1
  BY BaseFacts
<1>3. ASSUME NEW q \in Nat, NEW d \in Nat, d = v - Base * q PROVE q * Base + d = v
  BY <1>3, BaseFacts
<1> DEFINE q == v \div Base
           d == v % Base
<1>4. q \in Nat /\ d \in Nat /\ d = v - Base * q
  BY <1>1, <1>2
<1> HIDE DEF q, d
<1>5. q * Base + d = v
  BY <1>3, <1>4
<1> QED BY <1>2, <1>5 DEF q, d

LEMMA Digit ==
  ASSUME NEW q \in Nat, NEW d \in 0 .. Base - 1
  PROVE  /\ q * Base + d \in Nat
         /\ (q * Base + d) \div Base = q /\ (q * Base + d) % Base = d
<1>1. q * Base \in Nat
  BY BaseFacts
<1> DEFINE v == q * Base + d
<1>2. v \in Nat
  BY <1>1, BaseFacts
<1>3. v \div Base = q /\ v % Base = d
  <2> DEFINE a == v \div Base
             b == v % Base
  <2>1. a \in Nat /\ b \in 0 .. Base - 1 /\ a * Base + b = v
    <3> HIDE DEF v
    <3> QED BY <1>2, Divide
  <2> HIDE DEF a, b
  <2>2. ASSUME a < q PROVE FALSE
    <3>1. (a + 1) * Base <= q * Base
      BY <2>1, <2>2, BaseFacts
    <3>2. (a + 1) * Base = a * Base + Base
      BY <2>1, BaseFacts
    <3>3. a * Base \in Nat
      BY <2>1, BaseFacts
    <3> QED BY <1>1, <2>1, <3>1, <3>2, <3>3, BaseFacts
  <2>3. ASSUME q < a PROVE FALSE
    <3>1. (q + 1) * Base <= a * Base
      BY <2>1, <2>3, BaseFacts
    <3>2. (q + 1) * Base = q * Base + Base
      BY BaseFacts
    <3>3. a * Base \in Nat
      BY <2>1, BaseFacts
    <3> QED BY <1>1, <2>1, <3>1, <3>2, <3>3, BaseFacts
  <2>4. a = q
    BY <2>1, <2>2, <2>3
  <2> QED BY <1>1, <2>1, <2>4 DEF a, b
<1> QED BY <1>2, <1>3

\* The values of the first bytes of a row.
IsValue(f, bytes, w) ==
  /\ f \in [0 .. w -> Nat] /\ f[0] = 0
  /\ \A i \in 1 .. w : f[i] = f[i - 1] * Base + bytes[i]
HasValue(bytes, w) == \E f : IsValue(f, bytes, w) /\ ValueOf(bytes) = f[w]

LEMMA ValueIs ==
  ASSUME NEW w \in Nat, NEW bytes \in [1 .. w -> Nat]
  PROVE  HasValue(bytes, w)
<1> DEFINE F == [k \in 1 .. w |-> [x \in Nat |-> x * Base + bytes[k]]]
           Body(f) == [i \in 0 .. w |-> IF i = 0 THEN 0 ELSE f[i - 1] * Base + bytes[i]]
           g == CHOOSE f : f = Body(f)
<1>1. Len(bytes) = w
  OBVIOUS
<1>2. ValueOf(bytes) = g[w]
  BY <1>1, Zenon DEF ValueOf
<1>3. F \in [1 .. w -> [Nat -> Nat]]
  BY BaseFacts
<1>4. PICK f : Recursive(f, w, Nat, 0, F)
  <2> HIDE DEF F
  <2> QED BY <1>3, RecursionExists DEF Recursion
<1>5. IsValue(f, bytes, w)
  <2>1. f \in [0 .. w -> Nat] /\ f[0] = 0 /\ \A k \in 1 .. w : f[k] = F[k][f[k - 1]]
    BY <1>4 DEF Recursive
  <2>2. \A k \in 1 .. w : k - 1 \in 0 .. w
    OBVIOUS
  <2> QED BY <2>1, <2>2 DEF IsValue
<1>6. ASSUME NEW h, h = Body(h) PROVE \A i \in 0 .. w : h[i] = f[i]
  <2> DEFINE S == {i \in 0 .. w : h[i] = f[i]}
  <2>1. h[0] = 0 /\ \A i \in 1 .. w : h[i] = h[i - 1] * Base + bytes[i]
    <3>1. 0 \in 0 .. w /\ \A i \in 1 .. w : i \in 0 .. w /\ i # 0
      OBVIOUS
    <3> QED BY <1>6, <3>1, Zenon
  <2>2. 0 \in S
    BY <1>5, <2>1 DEF IsValue
  <2>3. \A i \in 1 .. w : i - 1 \in S => i \in S
    BY <1>5, <2>1 DEF IsValue
  <2> HIDE DEF S
  <2>4. 0 .. w \subseteq S
    BY <2>2, <2>3, BoundedInduction
  <2> QED BY <2>4 DEF S
<1>7. f = Body(f)
  <2>1. f \in [0 .. w -> Nat] /\ f[0] = 0 /\ \A i \in 1 .. w : f[i] = f[i - 1] * Base + bytes[i]
    BY <1>5 DEF IsValue
  <2>2. \A i \in 0 .. w : i = 0 \/ i \in 1 .. w
    OBVIOUS
  <2>3. \A i \in 0 .. w : f[i] = IF i = 0 THEN 0 ELSE f[i - 1] * Base + bytes[i]
    BY <2>1, <2>2
  <2> QED BY <2>1, <2>3
<1>8. g = Body(g)
  BY <1>7
<1> HIDE DEF g, Body
<1>9. g[w] = f[w]
  BY <1>6, <1>8
<1> QED BY <1>2, <1>5, <1>9 DEF HasValue

\* The quotients of a number by the powers of the base, and its bytes.
IsRest(f, v, w) ==
  /\ f \in [0 .. w -> Nat] /\ f[0] = v
  /\ \A i \in 1 .. w : f[i] = f[i - 1] \div Base
HasBytes(v, w) ==
  \E f : IsRest(f, v, w) /\ BytesOf(v, w) = [i \in 1 .. w |-> f[w - i] % Base]

LEMMA BytesAre ==
  ASSUME NEW w \in Nat, NEW v \in Nat
  PROVE  HasBytes(v, w)
<1> DEFINE F == [k \in 1 .. w |-> [x \in Nat |-> x \div Base]]
           Body(f) == [i \in 0 .. w |-> IF i = 0 THEN v ELSE f[i - 1] \div Base]
           g == CHOOSE f : f = Body(f)
<1>2. BytesOf(v, w) = [i \in 1 .. w |-> g[w - i] % Base]
  BY Zenon DEF BytesOf
<1>3. F \in [1 .. w -> [Nat -> Nat]]
  BY Divide
<1>4. PICK f : Recursive(f, w, Nat, v, F)
  <2> HIDE DEF F
  <2> QED BY <1>3, RecursionExists DEF Recursion
<1>5. IsRest(f, v, w)
  <2>1. f \in [0 .. w -> Nat] /\ f[0] = v /\ \A k \in 1 .. w : f[k] = F[k][f[k - 1]]
    BY <1>4 DEF Recursive
  <2>2. \A k \in 1 .. w : k - 1 \in 0 .. w
    OBVIOUS
  <2> QED BY <2>1, <2>2 DEF IsRest
<1>6. ASSUME NEW h, h = Body(h) PROVE \A i \in 0 .. w : h[i] = f[i]
  <2> DEFINE S == {i \in 0 .. w : h[i] = f[i]}
  <2>1. h[0] = v /\ \A i \in 1 .. w : h[i] = h[i - 1] \div Base
    <3>1. 0 \in 0 .. w /\ \A i \in 1 .. w : i \in 0 .. w /\ i # 0
      OBVIOUS
    <3> QED BY <1>6, <3>1, Zenon
  <2>2. 0 \in S
    BY <1>5, <2>1 DEF IsRest
  <2>3. \A i \in 1 .. w : i - 1 \in S => i \in S
    BY <1>5, <2>1 DEF IsRest
  <2> HIDE DEF S
  <2>4. 0 .. w \subseteq S
    BY <2>2, <2>3, BoundedInduction
  <2> QED BY <2>4 DEF S
<1>7. f = Body(f)
  <2>1. f \in [0 .. w -> Nat] /\ f[0] = v /\ \A i \in 1 .. w : f[i] = f[i - 1] \div Base
    BY <1>5 DEF IsRest
  <2>2. \A i \in 0 .. w : i = 0 \/ i \in 1 .. w
    OBVIOUS
  <2>3. \A i \in 0 .. w : f[i] = IF i = 0 THEN v ELSE f[i - 1] \div Base
    BY <2>1, <2>2
  <2> QED BY <2>1, <2>3
<1>8. g = Body(g)
  BY <1>7
<1> HIDE DEF g, Body
<1>9. \A i \in 1 .. w : g[w - i] = f[w - i]
  <2>1. \A i \in 1 .. w : w - i \in 0 .. w
    OBVIOUS
  <2> QED BY <1>6, <1>8, <2>1
<1>10. [i \in 1 .. w |-> g[w - i] % Base] = [i \in 1 .. w |-> f[w - i] % Base]
  BY <1>9
<1> QED BY <1>2, <1>5, <1>10 DEF HasBytes

LEMMA BytesType ==
  ASSUME NEW w \in Nat, NEW v \in Nat
  PROVE  BytesOf(v, w) \in [1 .. w -> 0 .. Base - 1]
<1>1. PICK f : IsRest(f, v, w) /\ BytesOf(v, w) = [i \in 1 .. w |-> f[w - i] % Base]
  BY BytesAre DEF HasBytes
<1>2. \A i \in 1 .. w : w - i \in 0 .. w /\ f[w - i] \in Nat
  BY <1>1 DEF IsRest
<1>3. \A i \in 1 .. w : f[w - i] % Base \in 0 .. Base - 1
  BY <1>2, Divide
<1> QED BY <1>1, <1>3

\* The powers of the base.
IsPower(p) == p \in [Nat -> Nat] /\ p[0] = 1 /\ \A k \in Nat : p[k + 1] = p[k] * Base

LEMMA PowerExists == \E p : IsPower(p)
<1> DEFINE F == [k \in Nat \ {0} |-> [x \in Nat |-> x * Base]]
<1>1. F \in [Nat \ {0} -> [Nat -> Nat]] /\ 1 \in Nat
  BY BaseFacts
<1>2. PICK p \in [Nat -> Nat] : p[0] = 1 /\ \A k \in Nat : p[k + 1] = F[k + 1][p[k]]
  <2> HIDE DEF F
  <2>1. Endless(Nat, 1, F)
    BY <1>1, EndlessExists
  <2> QED BY <2>1 DEF Endless
<1>3. \A k \in Nat : p[k + 1] = p[k] * Base
  <2>1. \A k \in Nat : k + 1 \in Nat \ {0} /\ p[k] \in Nat
    BY <1>2
  <2> QED BY <1>2, <2>1
<1> QED BY <1>2, <1>3 DEF IsPower

LEMMA Below ==
  ASSUME NEW a \in Nat, NEW b \in Nat, a < b, NEW d \in 0 .. Base - 1
  PROVE  a * Base + d < b * Base
<1>1. (a + 1) * Base <= b * Base
  BY BaseFacts
<1>2. (a + 1) * Base = a * Base + Base /\ a * Base \in Nat /\ b * Base \in Nat
  BY BaseFacts
<1> QED BY <1>1, <1>2, BaseFacts

LEMMA ValueIsBelow ==
  ASSUME NEW p, IsPower(p), NEW w \in Nat, NEW bytes \in [1 .. w -> 0 .. Base - 1],
         NEW f, IsValue(f, bytes, w)
  PROVE  \A i \in 0 .. w : f[i] < p[i]
<1> DEFINE S == {i \in 0 .. w : f[i] < p[i]}
<1>1. 0 \in S
  BY DEF IsValue, IsPower
<1>2. ASSUME NEW i \in 1 .. w, i - 1 \in S PROVE i \in S
  <2>1. i - 1 \in Nat /\ (i - 1) + 1 = i /\ i - 1 \in 0 .. w /\ i \in 0 .. w
    OBVIOUS
  <2>2. /\ f[i] = f[i - 1] * Base + bytes[i] /\ p[i] = p[i - 1] * Base
        /\ f[i - 1] \in Nat /\ p[i - 1] \in Nat /\ bytes[i] \in 0 .. Base - 1 /\ f[i - 1] < p[i - 1]
    BY <1>2, <2>1 DEF IsValue, IsPower
  <2>3. f[i] < p[i]
    BY <2>2, Below
  <2> QED BY <2>1, <2>3
<1>3. 0 .. w \subseteq S
  <2> HIDE DEF S
  <2> QED BY <1>1, <1>2, BoundedInduction
<1> QED BY <1>3

LEMMA QuotientIsBelow ==
  ASSUME NEW v \in Nat, NEW b \in Nat, v < b * Base
  PROVE  v \div Base < b
<1> DEFINE q == v \div Base
           d == v % Base
<1>1. q \in Nat /\ d \in 0 .. Base - 1 /\ q * Base + d = v
  BY Divide
<1> HIDE DEF q, d
<1>2. ASSUME b <= q PROVE FALSE
  <2>1. b * Base <= q * Base
    BY <1>1, <1>2, BaseFacts
  <2>2. q * Base \in Nat /\ b * Base \in Nat
    BY <1>1, BaseFacts
  <2> QED BY <1>1, <2>1, <2>2, BaseFacts
<1> QED BY <1>1, <1>2 DEF q

LEMMA RestIsBelow ==
  ASSUME NEW p, IsPower(p), NEW w \in Nat, NEW v \in Nat, v < p[w], NEW f, IsRest(f, v, w)
  PROVE  \A i \in 0 .. w : f[i] < p[w - i]
<1> DEFINE S == {i \in 0 .. w : f[i] < p[w - i]}
<1>1. 0 \in S
  <2>1. w - 0 = w /\ 0 \in 0 .. w
    OBVIOUS
  <2> QED BY <2>1 DEF IsRest
<1>2. ASSUME NEW i \in 1 .. w, i - 1 \in S PROVE i \in S
  <2>1. w - i \in Nat /\ (w - i) + 1 = w - (i - 1) /\ i - 1 \in 0 .. w /\ i \in 0 .. w
    OBVIOUS
  <2>2. /\ f[i] = f[i - 1] \div Base /\ p[w - (i - 1)] = p[w - i] * Base
        /\ f[i - 1] \in Nat /\ p[w - i] \in Nat /\ f[i - 1] < p[w - (i - 1)]
    BY <1>2, <2>1 DEF IsRest, IsPower
  <2>3. f[i] < p[w - i]
    BY <2>2, QuotientIsBelow
  <2> QED BY <2>1, <2>3
<1>3. 0 .. w \subseteq S
  <2> HIDE DEF S
  <2> QED BY <1>1, <1>2, BoundedInduction
<1> QED BY <1>3

\* A number of so many bytes is read back.
LEMMA ReadBack ==
  ASSUME NEW p, IsPower(p), NEW w \in Nat, NEW v \in Nat, v < p[w]
  PROVE  ValueOf(BytesOf(v, w)) = v
<1> DEFINE bytes == BytesOf(v, w)
<1>1. PICK r : IsRest(r, v, w) /\ bytes = [i \in 1 .. w |-> r[w - i] % Base]
  BY BytesAre DEF HasBytes
<1>2. \A i \in 1 .. w : bytes[i] = r[w - i] % Base
  BY <1>1
<1>3. bytes \in [1 .. w -> Nat]
  <2>1. bytes \in [1 .. w -> 0 .. Base - 1]
    BY BytesType
  <2> QED BY <2>1, BaseFacts
<1>4. PICK f : IsValue(f, bytes, w) /\ ValueOf(bytes) = f[w]
  BY <1>3, ValueIs DEF HasValue
<1> HIDE DEF bytes
<1>5. r[w] = 0
  <2>1. w - w = 0 /\ w \in 0 .. w
    OBVIOUS
  <2>2. r[w] < p[0] /\ r[w] \in Nat
    BY <1>1, <2>1, RestIsBelow DEF IsRest
  <2> QED BY <2>2 DEF IsPower
<1> DEFINE S == {i \in 0 .. w : f[i] = r[w - i]}
<1>6. 0 \in S
  <2>1. w - 0 = w /\ 0 \in 0 .. w
    OBVIOUS
  <2> QED BY <1>4, <1>5, <2>1 DEF IsValue
<1>7. ASSUME NEW i \in 1 .. w, i - 1 \in S PROVE i \in S
  <2> DEFINE x == r[w - i]
             y == r[w - (i - 1)]
  <2>1. w - (i - 1) \in 1 .. w /\ w - (i - 1) - 1 = w - i /\ w - i \in 0 .. w /\ i \in 0 .. w
    OBVIOUS
  <2>2. y = x \div Base /\ x \in Nat
    BY <1>1, <2>1 DEF IsRest
  <2>3. f[i] = f[i - 1] * Base + bytes[i] /\ f[i - 1] = y /\ bytes[i] = x % Base
    BY <1>2, <1>4, <1>7 DEF IsValue
  <2> HIDE DEF x, y
  <2>4. f[i] = x
    BY <2>2, <2>3, Divide
  <2> QED BY <2>1, <2>4 DEF x
<1>8. 0 .. w \subseteq S
  <2> HIDE DEF S
  <2> QED BY <1>6, <1>7, BoundedInduction
<1>9. f[w] = r[0]
  <2>1. w - w = 0 /\ w \in 0 .. w
    OBVIOUS
  <2> QED BY <1>8, <2>1
<1> QED BY <1>1, <1>4, <1>9 DEF IsRest, bytes

\* And a row is written back.
LEMMA WriteBack ==
  ASSUME NEW w \in Nat, NEW bytes \in [1 .. w -> 0 .. Base - 1]
  PROVE  ValueOf(bytes) \in Nat /\ BytesOf(ValueOf(bytes), w) = bytes
<1> DEFINE v == ValueOf(bytes)
<1>1. bytes \in [1 .. w -> Nat]
  BY BaseFacts
<1>2. PICK f : IsValue(f, bytes, w) /\ v = f[w]
  BY <1>1, ValueIs DEF HasValue
<1>3. v \in Nat
  BY <1>2 DEF IsValue
<1> HIDE DEF v
<1>4. PICK r : IsRest(r, v, w) /\ BytesOf(v, w) = [i \in 1 .. w |-> r[w - i] % Base]
  BY <1>3, BytesAre DEF HasBytes
<1> DEFINE S == {i \in 0 .. w : r[i] = f[w - i]}
<1>5. 0 \in S
  <2>1. w - 0 = w /\ 0 \in 0 .. w
    OBVIOUS
  <2> QED BY <1>2, <1>4, <2>1 DEF IsRest
<1>6. \A i \in 1 .. w : /\ f[i - 1] \in Nat /\ bytes[i] \in 0 .. Base - 1
                        /\ f[i] \div Base = f[i - 1] /\ f[i] % Base = bytes[i]
  <2> SUFFICES ASSUME NEW i \in 1 .. w
               PROVE  /\ f[i - 1] \in Nat /\ bytes[i] \in 0 .. Base - 1
                      /\ f[i] \div Base = f[i - 1] /\ f[i] % Base = bytes[i]
    OBVIOUS
  <2>1. f[i] = f[i - 1] * Base + bytes[i] /\ f[i - 1] \in Nat /\ bytes[i] \in 0 .. Base - 1
    BY <1>2 DEF IsValue
  <2> QED BY <2>1, Digit
<1>7. ASSUME NEW i \in 1 .. w, i - 1 \in S PROVE i \in S
  <2>1. w - (i - 1) \in 1 .. w /\ w - (i - 1) - 1 = w - i /\ i \in 0 .. w
    OBVIOUS
  <2>2. r[i] = f[w - (i - 1)] \div Base
    BY <1>4, <1>7 DEF IsRest
  <2> QED BY <1>6, <2>1, <2>2
<1>8. 0 .. w \subseteq S
  <2> HIDE DEF S
  <2> QED BY <1>5, <1>7, BoundedInduction
<1>9. ASSUME NEW i \in 1 .. w PROVE r[w - i] % Base = bytes[i]
  <2>1. w - i \in 0 .. w /\ w - (w - i) = i
    OBVIOUS
  <2> QED BY <1>6, <1>8, <2>1
<1> QED BY <1>3, <1>4, <1>9 DEF v

LEMMA ValueType ==
  ASSUME NEW p, IsPower(p), NEW w \in Nat, NEW bytes \in [1 .. w -> 0 .. Base - 1]
  PROVE  ValueOf(bytes) \in Nat /\ ValueOf(bytes) < p[w]
<1>1. bytes \in [1 .. w -> Nat]
  BY BaseFacts
<1>2. PICK f : IsValue(f, bytes, w) /\ ValueOf(bytes) = f[w]
  BY <1>1, ValueIs DEF HasValue
<1>3. w \in 0 .. w
  OBVIOUS
<1>4. f[w] < p[w]
  BY <1>2, <1>3, ValueIsBelow
<1>5. f[w] \in Nat
  BY <1>2, <1>3 DEF IsValue
<1> QED BY <1>2, <1>4, <1>5
-----------------------------------------------------------------------------
(* The sum of difficulties and its mean.                                   *)

\* A chain: rows for difficulties, numbers that count down to the first block.
IsChain(c) ==
  /\ c \in Seq([number : Nat, time : Int, difficulty : Rows])
  /\ \A i \in DOMAIN c : c[i].number = Len(c) - i

IsSum(f, c, s, n) ==
  /\ f \in [0 .. n -> Nat] /\ f[0] = 0
  /\ \A k \in 1 .. n : f[k] = f[k - 1] + ValueOf(c[s + k - 1].difficulty)
HasSum(c, s, n) == \E f : IsSum(f, c, s, n) /\ SumOf(c, s, n) = f[n]

LEMMA SumIs ==
  ASSUME NEW c, NEW s, NEW n \in Nat,
         \A k \in 1 .. n : ValueOf(c[s + k - 1].difficulty) \in Nat
  PROVE  HasSum(c, s, n)
<1> DEFINE V == [k \in 1 .. n |-> ValueOf(c[s + k - 1].difficulty)]
           F == [k \in 1 .. n |-> [x \in Nat |-> x + V[k]]]
           Body(f) == [k \in 0 .. n |->
                         IF k = 0 THEN 0 ELSE f[k - 1] + ValueOf(c[s + k - 1].difficulty)]
           g == CHOOSE f : f = Body(f)
<1>1. \A k \in 1 .. n : V[k] = ValueOf(c[s + k - 1].difficulty) /\ V[k] \in Nat
  OBVIOUS
<1>2. SumOf(c, s, n) = g[n]
  BY Zenon DEF SumOf
<1> HIDE DEF V
<1>3. F \in [1 .. n -> [Nat -> Nat]]
  BY <1>1
<1>4. PICK f : Recursive(f, n, Nat, 0, F)
  <2> HIDE DEF F
  <2> QED BY <1>3, RecursionExists DEF Recursion
<1>5. /\ f \in [0 .. n -> Nat] /\ f[0] = 0
      /\ \A k \in 1 .. n : f[k] = f[k - 1] + V[k]
  <2>1. f \in [0 .. n -> Nat] /\ f[0] = 0 /\ \A k \in 1 .. n : f[k] = F[k][f[k - 1]]
    BY <1>4 DEF Recursive
  <2>2. \A k \in 1 .. n : k - 1 \in 0 .. n
    OBVIOUS
  <2> QED BY <2>1, <2>2
<1>6. ASSUME NEW h, h = Body(h) PROVE \A k \in 0 .. n : h[k] = f[k]
  <2> DEFINE S == {k \in 0 .. n : h[k] = f[k]}
  <2>1. h[0] = 0 /\ \A k \in 1 .. n : h[k] = h[k - 1] + V[k]
    <3>1. 0 \in 0 .. n /\ \A k \in 1 .. n : k \in 0 .. n /\ k # 0
      OBVIOUS
    <3> QED BY <1>1, <1>6, <3>1, Zenon
  <2>2. 0 \in S
    BY <1>5, <2>1
  <2>3. \A k \in 1 .. n : k - 1 \in S => k \in S
    BY <1>5, <2>1
  <2> HIDE DEF S
  <2>4. 0 .. n \subseteq S
    BY <2>2, <2>3, BoundedInduction
  <2> QED BY <2>4 DEF S
<1>7. f = Body(f)
  <2>1. \A k \in 0 .. n : k = 0 \/ k \in 1 .. n
    OBVIOUS
  <2>2. \A k \in 0 .. n : f[k] = IF k = 0 THEN 0 ELSE f[k - 1] + ValueOf(c[s + k - 1].difficulty)
    BY <1>1, <1>5, <2>1
  <2> QED BY <1>5, <2>2
<1>8. g = Body(g)
  BY <1>7
<1> HIDE DEF g, Body
<1>9. g[n] = f[n]
  BY <1>6, <1>8
<1>10. IsSum(f, c, s, n)
  BY <1>1, <1>5 DEF IsSum
<1> QED BY <1>2, <1>9, <1>10 DEF HasSum

\* A sum of n rows is less than n times what a row can hold.
LEMMA SumIsBelow ==
  ASSUME NEW p, IsPower(p), NEW c, NEW s, NEW n \in Nat \ {0},
         \A k \in 1 .. n : c[s + k - 1].difficulty \in Rows
  PROVE  SumOf(c, s, n) \in Nat /\ SumOf(c, s, n) < n * p[Width]
<1> DEFINE P == p[Width]
           V(k) == ValueOf(c[s + k - 1].difficulty)
<1>1. P \in Nat
  BY BaseFacts DEF IsPower
<1>2. \A k \in 1 .. n : V(k) \in Nat /\ V(k) < P
  BY BaseFacts, ValueType DEF Rows
<1>3. HasSum(c, s, n)
  BY <1>2, SumIs
<1>4. PICK f : IsSum(f, c, s, n) /\ SumOf(c, s, n) = f[n]
  BY <1>3 DEF HasSum
<1>5. /\ f \in [0 .. n -> Nat] /\ f[0] = 0
      /\ \A k \in 1 .. n : f[k] = f[k - 1] + V(k)
  BY <1>4 DEF IsSum
<1> HIDE DEF V, P
<1> DEFINE S == {k \in 0 .. n : f[k] + k <= k * P}
<1>6. 0 \in S
  BY <1>1, <1>5
<1>7. ASSUME NEW k \in 1 .. n, k - 1 \in S PROVE k \in S
  <2>1. f[k - 1] \in Nat /\ f[k - 1] + (k - 1) <= (k - 1) * P /\ f[k] = f[k - 1] + V(k)
    BY <1>5, <1>7
  <2>2. (k - 1) * P = k * P - P /\ k * P \in Int
    BY <1>1
  <2> QED BY <1>1, <1>2, <2>1, <2>2
<1>8. 0 .. n \subseteq S
  <2> HIDE DEF S
  <2> QED BY <1>6, <1>7, BoundedInduction
<1>9. n \in S /\ n * P \in Nat
  BY <1>1, <1>8
<1> QED BY <1>4, <1>5, <1>9 DEF P

\* A quotient by any divisor.
LEMMA DivideBy ==
  ASSUME NEW d \in Nat \ {0}, NEW v \in Nat
  PROVE  /\ v \div d \in Nat /\ v % d \in 0 .. d - 1
         /\ (v \div d) * d + (v % d) = v
<1>1. v % d = v - (d * (v \div d))
  OBVIOUS
<1>2. v \div d \in Nat /\ v % d \in 0 .. d - 1
  OBVIOUS
<1>3. ASSUME NEW q \in Nat, NEW r \in Nat, r = v - d * q PROVE q * d + r = v
  BY <1>3
<1> DEFINE q == v \div d
           r == v % d
<1>4. q \in Nat /\ r \in Nat /\ r = v - d * q
  BY <1>1, <1>2
<1> HIDE DEF q, r
<1>5. q * d + r = v
  BY <1>3, <1>4
<1> QED BY <1>2, <1>5 DEF q, r

LEMMA QuotientIs ==
  ASSUME NEW d \in Nat \ {0}, NEW q \in Nat, NEW v \in Nat, v = q * d
  PROVE  v \div d = q
<1> DEFINE a == v \div d
           b == v % d
<1>1. a \in Nat /\ b \in 0 .. d - 1 /\ a * d + b = q * d
  BY DivideBy
<1> HIDE DEF a, b
<1>2. ASSUME a < q PROVE FALSE
  <2>1. (a + 1) * d <= q * d
    BY <1>1, <1>2
  <2>2. (a + 1) * d = a * d + d /\ a * d \in Nat /\ q * d \in Nat
    BY <1>1
  <2> QED BY <1>1, <2>1, <2>2
<1>3. ASSUME q < a PROVE FALSE
  <2>1. (q + 1) * d <= a * d
    BY <1>1, <1>3
  <2>2. (q + 1) * d = q * d + d /\ a * d \in Nat /\ q * d \in Nat
    BY <1>1
  <2> QED BY <1>1, <2>1, <2>2
<1> QED BY <1>1, <1>2, <1>3 DEF a

LEMMA QuotientBelow ==
  ASSUME NEW d \in Nat \ {0}, NEW b \in Nat, NEW v \in Nat, v < d * b
  PROVE  v \div d < b
<1> DEFINE q == v \div d
           r == v % d
<1>1. q \in Nat /\ r \in 0 .. d - 1 /\ q * d + r = v
  BY DivideBy
<1> HIDE DEF q, r
<1>2. ASSUME b <= q PROVE FALSE
  <2>1. d * b <= q * d
    BY <1>1, <1>2
  <2>2. q * d \in Nat /\ d * b \in Nat
    BY <1>1
  <2> QED BY <1>1, <2>1, <2>2
<1> QED BY <1>1, <1>2 DEF q

LEMMA BlockType ==
  ASSUME NEW c, IsChain(c)
  PROVE  \A i \in DOMAIN c : /\ c[i].number = Len(c) - i /\ c[i].time \in Int
                            /\ c[i].difficulty \in Rows
<1> DEFINE B == [number : Nat, time : Int, difficulty : Rows]
<1>1. c \in Seq(B)
  BY DEF IsChain
<1> HIDE DEF B
<1>2. \A i \in DOMAIN c : c[i] \in B
  BY <1>1
<1>3. \A i \in DOMAIN c : c[i].time \in Int /\ c[i].difficulty \in Rows
  BY <1>2 DEF B
<1> QED BY <1>3 DEF IsChain

\* What of count blocks from s on the chain has lies in it.
LEMMA TakenIsHeld ==
  ASSUME NEW c, IsChain(c), NEW s \in DOMAIN c, NEW count \in Int
  PROVE  /\ Taken(c, s, count) \in Int
         /\ Taken(c, s, count) <= count
         /\ count >= 1 => Taken(c, s, count) >= 1
         /\ \A k \in 1 .. Taken(c, s, count) : c[s + k - 1].difficulty \in Rows
<1>1. Len(c) \in Nat /\ DOMAIN c = 1 .. Len(c)
  BY DEF IsChain
<1>2. \A i \in DOMAIN c : c[i].difficulty \in Rows
  BY BlockType
<1>3. \A k \in 1 .. Taken(c, s, count) : s + k - 1 \in DOMAIN c
  BY <1>1 DEF Taken
<1> QED BY <1>1, <1>2, <1>3 DEF Taken

LEMMA EasiestIsRow == Easiest \in Rows
BY BaseFacts DEF Easiest, Rows

LEMMA AverageType ==
  ASSUME NEW c, IsChain(c), NEW s \in DOMAIN c, NEW count \in Int
  PROVE  AverageDifficulty(c, s, count) \in Rows
<1> DEFINE n == Taken(c, s, count)
           sum == SumOf(c, s, n)
           total == BytesOf(sum, Width + 1)
<1>1. n \in Int
  BY TakenIsHeld
<1>2. CASE n <= 0
  BY <1>2, EasiestIsRow DEF AverageDifficulty
<1>3. CASE ~ (n <= 0)
  <2>1. n \in Nat \ {0} /\ \A k \in 1 .. n : c[s + k - 1].difficulty \in Rows
    BY <1>1, <1>3, TakenIsHeld
  <2> HIDE DEF n
  <2>2. PICK p : IsPower(p)
    BY PowerExists
  <2>3. sum \in Nat
    BY <2>1, <2>2, SumIsBelow
  <2> HIDE DEF sum
  <2>4. total \in [1 .. Width + 1 -> 0 .. Base - 1] /\ Width + 1 \in Nat
    BY <2>3, BaseFacts, BytesType
  <2> HIDE DEF total
  <2>5. ValueOf(total) \in Nat
    BY <2>2, <2>4, ValueType
  <2>6. ValueOf(total) \div n \in Nat
    BY <2>1, <2>5, DivideBy
  <2>7. BytesOf(ValueOf(total) \div n, Width) \in Rows
    BY <2>6, BaseFacts, BytesType DEF Rows
  <2>8. AverageDifficulty(c, s, count) = BytesOf(ValueOf(total) \div n, Width)
    BY <1>3 DEF AverageDifficulty, total, sum, n
  <2> QED BY <2>7, <2>8
<1> QED BY <1>2, <1>3

\* Over at most Base blocks nothing is lost of the sum, and the mean fits a row.
LEMMA MeanIs ==
  ASSUME NEW c, IsChain(c), NEW s \in DOMAIN c, NEW count \in 1 .. Base
  PROVE  LET n == Taken(c, s, count)
         IN  /\ AverageDifficulty(c, s, count) = BytesOf(SumOf(c, s, n) \div n, Width)
             /\ ValueOf(AverageDifficulty(c, s, count)) = SumOf(c, s, n) \div n
<1> DEFINE n == Taken(c, s, count)
           sum == SumOf(c, s, n)
           mean == sum \div n
<1>1. n \in 1 .. Base /\ \A k \in 1 .. n : c[s + k - 1].difficulty \in Rows
  BY BaseFacts, TakenIsHeld
<1>2. AverageDifficulty(c, s, count) = BytesOf(ValueOf(BytesOf(sum, Width + 1)) \div n, Width)
  BY <1>1 DEF AverageDifficulty
<1> HIDE DEF n
<1>3. PICK p : IsPower(p)
  BY PowerExists
<1>4. p[Width] \in Nat /\ p[Width + 1] = p[Width] * Base /\ Width + 1 \in Nat
  BY <1>3, BaseFacts DEF IsPower
<1>5. sum \in Nat /\ sum < n * p[Width]
  BY <1>1, <1>3, BaseFacts, SumIsBelow
<1> HIDE DEF sum
<1>6. sum < p[Width + 1]
  <2> DEFINE P == p[Width]
  <2>1. P \in Nat /\ p[Width + 1] = P * Base
    BY <1>4
  <2> HIDE DEF P
  <2>2. n * P <= P * Base /\ n * P \in Nat /\ P * Base \in Nat
    BY <1>1, <2>1, BaseFacts
  <2> QED BY <1>5, <2>1, <2>2 DEF P
<1>7. ValueOf(BytesOf(sum, Width + 1)) = sum
  BY <1>3, <1>4, <1>5, <1>6, ReadBack
<1>8. mean \in Nat /\ mean < p[Width]
  <2>1. n \in Nat \ {0} /\ p[Width] \in Nat
    BY <1>1, <1>4, BaseFacts
  <2> QED BY <1>5, <2>1, DivideBy, QuotientBelow
<1> HIDE DEF mean
<1>9. ValueOf(BytesOf(mean, Width)) = mean
  BY <1>3, <1>8, BaseFacts, ReadBack
<1>10. AverageDifficulty(c, s, count) = BytesOf(mean, Width)
  BY <1>2, <1>7 DEF mean
<1> QED BY <1>9, <1>10 DEF mean, sum, n
-----------------------------------------------------------------------------
(* The product with a ratio.                                               *)

\* The value at each byte, counted from the least significant.
IsDue(f, bytes, num, den) ==
  /\ f \in [0 .. Width -> Nat] /\ f[0] = 0
  /\ \A k \in 1 .. Width : f[k] = bytes[Width + 1 - k] * num + (f[k - 1] % den) * Base
HasDue(bytes, num, den) ==
  \E f : /\ IsDue(f, bytes, num, den)
         /\ MulRational(bytes, num, den)
              = [i \in 1 .. Width |-> (f[Width + 1 - i] \div den) % Base]

LEMMA DueIs ==
  ASSUME NEW bytes \in [1 .. Width -> Nat], NEW num \in Nat, NEW den \in Nat \ {0}
  PROVE  HasDue(bytes, num, den)
<1> DEFINE V == [k \in 1 .. Width |-> bytes[Width + 1 - k] * num]
           F == [k \in 1 .. Width |-> [x \in Nat |-> V[k] + (x % den) * Base]]
           Body(d) == [i \in 1 .. Width |->
                         bytes[i] * num + IF i = Width THEN 0 ELSE (d[i + 1] % den) * Base]
           g == CHOOSE d : d = Body(d)
<1>1. \A k \in 1 .. Width : V[k] = bytes[Width + 1 - k] * num /\ V[k] \in Nat
  <2>1. \A k \in 1 .. Width : bytes[Width + 1 - k] \in Nat
    BY BaseFacts
  <2>2. \A x \in Nat : x * num \in Nat
    OBVIOUS
  <2> QED BY <2>1, <2>2
<1>2. MulRational(bytes, num, den) = [i \in 1 .. Width |-> (g[i] \div den) % Base]
  BY Zenon DEF MulRational
<1> HIDE DEF V
<1>3. F \in [1 .. Width -> [Nat -> Nat]]
  <2>1. \A x \in Nat : (x % den) * Base \in Nat
    <3>1. \A x \in Nat : x % den \in Nat
      OBVIOUS
    <3>2. \A y \in Nat : y * Base \in Nat
      BY BaseFacts
    <3> QED BY <3>1, <3>2
  <2>2. \A k \in 1 .. Width, x \in Nat : V[k] + (x % den) * Base \in Nat
    <3>1. \A y \in Nat, z \in Nat : y + z \in Nat
      OBVIOUS
    <3> QED BY <1>1, <2>1, <3>1
  <2>3. \A k \in 1 .. Width : [x \in Nat |-> V[k] + (x % den) * Base] \in [Nat -> Nat]
    BY <2>2
  <2> QED BY <2>3
<1>4. PICK f : Recursive(f, Width, Nat, 0, F)
  <2> HIDE DEF F
  <2> QED BY <1>3, BaseFacts, RecursionExists DEF Recursion
<1>5. /\ f \in [0 .. Width -> Nat] /\ f[0] = 0
      /\ \A k \in 1 .. Width : f[k] = V[k] + (f[k - 1] % den) * Base
  <2>1. f \in [0 .. Width -> Nat] /\ f[0] = 0 /\ \A k \in 1 .. Width : f[k] = F[k][f[k - 1]]
    BY <1>4 DEF Recursive
  <2>2. \A k \in 1 .. Width : k - 1 \in 0 .. Width
    BY BaseFacts
  <2> QED BY <2>1, <2>2
<1> DEFINE e == [i \in 1 .. Width |-> f[Width + 1 - i]]
           Step(d, i) == bytes[i] * num + IF i = Width THEN 0 ELSE (d[i + 1] % den) * Base
<1>6. ASSUME NEW i \in 1 .. Width PROVE e[i] = Step(e, i)
  <2>1. Width + 1 - i \in 1 .. Width /\ Width + 1 - (Width + 1 - i) = i
        /\ Width + 1 - i - 1 = Width - i
    BY BaseFacts
  <2>2. e[i] = bytes[i] * num + (f[Width - i] % den) * Base
    <3>1. PICK k \in 1 .. Width : k = Width + 1 - i
      BY <2>1
    <3>2. e[i] = f[k] /\ Width + 1 - k = i /\ k - 1 = Width - i
      BY <2>1, <3>1, BaseFacts
    <3>3. f[k] = V[k] + (f[k - 1] % den) * Base /\ V[k] = bytes[Width + 1 - k] * num
      BY <1>1, <1>5
    <3> QED BY <3>2, <3>3
  <2>3. CASE i = Width
    <3>1. f[Width - i] = 0 /\ (0 % den) * Base = 0
      BY <1>5, <2>3, BaseFacts
    <3> QED BY <2>2, <2>3, <3>1
  <2>4. CASE i # Width
    <3>1. i + 1 \in 1 .. Width /\ Width + 1 - (i + 1) = Width - i
      BY <2>4, BaseFacts
    <3>2. e[i + 1] = f[Width - i]
      BY <3>1
    <3> QED BY <2>2, <2>4, <3>2
  <2> QED BY <2>3, <2>4
<1>7. e = Body(e)
  BY <1>6
<1>8. g = Body(g)
  <2> HIDE DEF e, Body
  <2> QED BY <1>7
<1>9. \A k \in 1 .. Width : g[Width + 1 - k] = f[k]
  <2> HIDE DEF g, e
  <2> DEFINE S == {0} \cup {k \in 1 .. Width : g[Width + 1 - k] = f[k]}
  <2>1. \A i \in 1 .. Width : g[i] = Step(g, i)
    BY <1>8, Zenon
  <2> HIDE DEF Body
  <2>2. ASSUME NEW k \in 1 .. Width, k - 1 \in S PROVE k \in S
    <3>1. Width + 1 - k \in 1 .. Width /\ f[k] = bytes[Width + 1 - k] * num + (f[k - 1] % den) * Base
      BY <1>1, <1>5, BaseFacts
    <3>2. g[Width + 1 - k] = Step(g, Width + 1 - k)
      BY <2>1, <3>1
    <3>3. CASE k = 1
      <4>1. Width + 1 - k = Width /\ f[k - 1] = 0 /\ (0 % den) * Base = 0
        BY <1>5, <3>3, BaseFacts
      <4> QED BY <3>1, <3>2, <4>1
    <3>4. CASE k # 1
      <4>1. Width + 1 - k # Width /\ Width + 1 - k + 1 = Width + 1 - (k - 1) /\ k - 1 \in 1 .. Width
        BY <3>4, BaseFacts
      <4>2. g[Width + 1 - (k - 1)] = f[k - 1]
        BY <2>2, <4>1
      <4> QED BY <3>1, <3>2, <4>1, <4>2
    <3> QED BY <3>3, <3>4
  <2>3. 0 .. Width \subseteq S
    <3>1. 0 \in S
      OBVIOUS
    <3> HIDE DEF S
    <3> QED BY <2>2, <3>1, BaseFacts, BoundedInduction
  <2> QED BY <2>3
<1> HIDE DEF g, e, Body, Step
<1>10. \A i \in 1 .. Width : g[i] = f[Width + 1 - i]
  <2>1. \A i \in 1 .. Width : Width + 1 - i \in 1 .. Width /\ Width + 1 - (Width + 1 - i) = i
    BY BaseFacts
  <2> QED BY <1>9, <2>1
<1>11. [i \in 1 .. Width |-> (g[i] \div den) % Base]
         = [i \in 1 .. Width |-> (f[Width + 1 - i] \div den) % Base]
  BY <1>10
<1>12. IsDue(f, bytes, num, den)
  BY <1>1, <1>5 DEF IsDue
<1> QED BY <1>2, <1>11, <1>12 DEF HasDue

LEMMA ProductType ==
  ASSUME NEW bytes \in Rows, NEW num \in Nat, NEW den \in Nat \ {0}
  PROVE  MulRational(bytes, num, den) \in Rows
<1>1. bytes \in [1 .. Width -> Nat]
  BY BaseFacts DEF Rows
<1>2. PICK f : /\ IsDue(f, bytes, num, den)
               /\ MulRational(bytes, num, den)
                    = [i \in 1 .. Width |-> (f[Width + 1 - i] \div den) % Base]
  BY <1>1, DueIs DEF HasDue
<1>3. \A i \in 1 .. Width : f[Width + 1 - i] \in Nat
  <2>1. \A i \in 1 .. Width : Width + 1 - i \in 0 .. Width
    BY BaseFacts
  <2> QED BY <1>2, <2>1 DEF IsDue
<1>4. \A i \in 1 .. Width : f[Width + 1 - i] \div den \in Nat
  BY <1>3, DivideBy
<1>5. \A i \in 1 .. Width : (f[Width + 1 - i] \div den) % Base \in 0 .. Base - 1
  BY <1>4, Divide
<1> QED BY <1>2, <1>5 DEF Rows

\* Where no byte leaves a remainder or exceeds a byte the product is exact.
LEMMA ExactBytes ==
  ASSUME NEW bytes \in Rows, NEW num \in Nat, NEW den \in Nat \ {0},
         \A k \in 1 .. Width : (bytes[k] * num) % den = 0 /\ bytes[k] * num < den * Base
  PROVE  \A i \in 1 .. Width : MulRational(bytes, num, den)[i] * den = bytes[i] * num
<1>1. bytes \in [1 .. Width -> Nat]
  BY BaseFacts DEF Rows
<1>2. PICK f : /\ IsDue(f, bytes, num, den)
               /\ MulRational(bytes, num, den)
                    = [i \in 1 .. Width |-> (f[Width + 1 - i] \div den) % Base]
  BY <1>1, DueIs DEF HasDue
<1> DEFINE S == {k \in 0 .. Width : f[k] % den = 0}
<1>3. \A k \in 1 .. Width : Width + 1 - k \in 1 .. Width /\ Width + 1 - (Width + 1 - k) = k
  BY BaseFacts
<1>4. \A k \in 1 .. Width :
        k - 1 \in S => f[k] = bytes[Width + 1 - k] * num /\ f[k] % den = 0
  <2> SUFFICES ASSUME NEW k \in 1 .. Width, k - 1 \in S
               PROVE  f[k] = bytes[Width + 1 - k] * num /\ f[k] % den = 0
    OBVIOUS
  <2>1. f[k] = bytes[Width + 1 - k] * num + (f[k - 1] % den) * Base /\ f[k - 1] % den = 0
    BY <1>2 DEF IsDue
  <2>2. PICK i \in 1 .. Width : i = Width + 1 - k
    BY <1>3
  <2>3. bytes[i] * num \in Nat /\ (bytes[i] * num) % den = 0
    BY <1>1
  <2>4. 0 * Base = 0
    BY BaseFacts
  <2> QED BY <2>1, <2>2, <2>3, <2>4
<1>5. 0 .. Width \subseteq S
  <2>1. 0 \in S
    <3>1. f[0] = 0 /\ 0 % den = 0 /\ 0 \in 0 .. Width
      BY <1>2, BaseFacts DEF IsDue
    <3> QED BY <3>1
  <2>2. \A k \in 1 .. Width : k - 1 \in S => k \in S
    BY <1>4
  <2> HIDE DEF S
  <2> QED BY <2>1, <2>2, BaseFacts, BoundedInduction
<1>6. ASSUME NEW i \in 1 .. Width
      PROVE  MulRational(bytes, num, den)[i] * den = bytes[i] * num
  <2> DEFINE v == bytes[i] * num
             q == v \div den
  <2>1. PICK k \in 1 .. Width : k = Width + 1 - i /\ Width + 1 - k = i
    BY <1>3
  <2>2. k - 1 \in 0 .. Width
    BY BaseFacts
  <2>3. f[k] = v
    BY <1>4, <1>5, <2>1, <2>2
  <2>4. v \in Nat /\ v % den = 0 /\ v < den * Base
    BY <1>1
  <2>5. MulRational(bytes, num, den)[i] = (f[k] \div den) % Base
    BY <1>2, <2>1
  <2> HIDE DEF v
  <2>6. q \in Nat /\ q * den = v /\ q < Base
    <3>1. q \in Nat /\ q * den + 0 = v
      BY <2>4, DivideBy
    <3>2. q < Base
      BY <2>4, BaseFacts, QuotientBelow
    <3>3. q * den \in Nat
      BY <3>1
    <3> QED BY <3>1, <3>2, <3>3
  <2>7. MulRational(bytes, num, den)[i] = q % Base
    BY <2>3, <2>5
  <2> HIDE DEF q
  <2>8. q % Base = q
    BY <2>6, BaseFacts
  <2> QED BY <2>6, <2>7, <2>8 DEF v
<1> QED BY <1>6

LEMMA ExactValue ==
  ASSUME NEW bytes \in Rows, NEW out \in Rows, NEW num \in Nat, NEW den \in Nat,
         \A i \in 1 .. Width : out[i] * den = bytes[i] * num
  PROVE  ValueOf(out) * den = ValueOf(bytes) * num
<1>1. bytes \in [1 .. Width -> Nat] /\ out \in [1 .. Width -> Nat]
  BY BaseFacts DEF Rows
<1>2. PICK f : IsValue(f, bytes, Width) /\ ValueOf(bytes) = f[Width]
  BY <1>1, BaseFacts, ValueIs DEF HasValue
<1>3. PICK g : IsValue(g, out, Width) /\ ValueOf(out) = g[Width]
  BY <1>1, BaseFacts, ValueIs DEF HasValue
<1> DEFINE S == {i \in 0 .. Width : g[i] * den = f[i] * num}
<1>4. 0 \in S
  BY <1>2, <1>3, BaseFacts DEF IsValue
<1>5. ASSUME NEW i \in 1 .. Width, i - 1 \in S PROVE i \in S
  <2> DEFINE x == f[i - 1]
             y == g[i - 1]
             a == bytes[i]
             b == out[i]
  <2>1. x \in Nat /\ y \in Nat /\ a \in Nat /\ b \in Nat
    BY <1>1, <1>2, <1>3, <1>5 DEF IsValue
  <2>2. f[i] = x * Base + a /\ g[i] = y * Base + b
    BY <1>2, <1>3 DEF IsValue
  <2>3. y * den = x * num /\ b * den = a * num
    BY <1>5
  <2> HIDE DEF x, y, a, b
  <2>4. (y * Base + b) * den = (y * den) * Base + b * den
    BY <2>1, BaseFacts
  <2>5. (x * Base + a) * num = (x * num) * Base + a * num
    BY <2>1, BaseFacts
  <2> QED BY <2>2, <2>3, <2>4, <2>5
<1>6. 0 .. Width \subseteq S
  <2> HIDE DEF S
  <2> QED BY <1>4, <1>5, BaseFacts, BoundedInduction
<1>7. Width \in S
  BY <1>6, BaseFacts
<1> QED BY <1>2, <1>3, <1>7

\* A ratio of one changes nothing.
LEMMA RatioOfOne ==
  ASSUME NEW bytes \in Rows, NEW d \in Nat \ {0}
  PROVE  MulRational(bytes, d, d) = bytes
<1> DEFINE out == MulRational(bytes, d, d)
<1>1. ASSUME NEW k \in 1 .. Width PROVE (bytes[k] * d) % d = 0 /\ bytes[k] * d < d * Base
  <2> DEFINE b == bytes[k]
             v == b * d
             q == v \div d
             r == v % d
  <2>1. b \in Nat /\ b < Base
    BY BaseFacts DEF Rows
  <2> HIDE DEF b
  <2>2. v \in Nat
    BY <2>1
  <2>3. v < d * Base
    <3>1. (b + 1) * d <= Base * d
      BY <2>1, BaseFacts
    <3>2. (b + 1) * d = v + d /\ Base * d = d * Base
      BY <2>1, BaseFacts
    <3>3. d * Base \in Nat
      BY BaseFacts
    <3> HIDE DEF v
    <3> QED BY <2>2, <3>1, <3>2, <3>3
  <2>4. q = b
    BY <2>1, <2>2, QuotientIs
  <2>5. q * d + r = v /\ r \in 0 .. d - 1
    <3> HIDE DEF v
    <3> QED BY <2>2, DivideBy
  <2>6. r = 0
    <3> HIDE DEF q, r
    <3>1. v + r = v
      BY <2>4, <2>5
    <3> HIDE DEF v
    <3> QED BY <2>2, <2>5, <3>1
  <2> QED BY <2>3, <2>6 DEF b
<1>2. \A i \in 1 .. Width : out[i] * d = bytes[i] * d
  BY <1>1, ExactBytes
<1>3. out \in Rows
  BY ProductType
<1> HIDE DEF out
<1>4. \A i \in 1 .. Width : out[i] = bytes[i]
  <2>1. ASSUME NEW x \in Nat, NEW y \in Nat, x * d = y * d PROVE x = y
    <3>1. (x * d) \div d = x /\ (y * d) \div d = y
      <4>1. x * d \in Nat /\ y * d \in Nat
        OBVIOUS
      <4> QED BY <4>1, QuotientIs
    <3> QED BY <2>1, <3>1
  <2>2. \A i \in 1 .. Width : out[i] \in Nat /\ bytes[i] \in Nat
    BY <1>3, BaseFacts DEF Rows
  <2> QED BY <1>2, <2>1, <2>2
<1>5. out \in [1 .. Width -> 0 .. Base - 1] /\ bytes \in [1 .. Width -> 0 .. Base - 1]
  BY <1>3 DEF Rows
<1>6. out = bytes
  <2>1. out = [i \in 1 .. Width |-> out[i]] /\ bytes = [i \in 1 .. Width |-> bytes[i]]
    BY <1>5, Zenon
  <2>2. [i \in 1 .. Width |-> out[i]] = [i \in 1 .. Width |-> bytes[i]]
    BY <1>4, Zenon
  <2> QED BY <2>1, <2>2, Zenon
<1> QED BY <1>6 DEF out
-----------------------------------------------------------------------------
(* The median.                                                             *)

HasTimes(c) == c \in Seq([number : Nat, time : Int, difficulty : Rows])

LEMMA TimeType ==
  ASSUME NEW c, HasTimes(c)
  PROVE  Len(c) \in Nat /\ DOMAIN c = 1 .. Len(c) /\ \A i \in DOMAIN c : c[i].time \in Int
<1> DEFINE B == [number : Nat, time : Int, difficulty : Rows]
<1>1. c \in Seq(B)
  BY DEF HasTimes
<1> HIDE DEF B
<1>2. Len(c) \in Nat /\ DOMAIN c = 1 .. Len(c) /\ \A i \in DOMAIN c : c[i] \in B
  BY <1>1
<1> QED BY <1>2 DEF B

\* The blocks of a set before one of them.
Before(c, w, i) == {j \in w : Earlier(c, j, i)}

LEMMA EarlierIsOrder ==
  ASSUME NEW c, HasTimes(c), NEW i \in DOMAIN c, NEW j \in DOMAIN c
  PROVE  /\ ~ Earlier(c, i, i)
         /\ i = j \/ Earlier(c, i, j) \/ Earlier(c, j, i)
         /\ \A k \in DOMAIN c : Earlier(c, i, j) /\ Earlier(c, j, k) => Earlier(c, i, k)
         /\ Earlier(c, i, j) => c[i].time <= c[j].time
<1>1. \A k \in DOMAIN c : k \in Int /\ c[k].time \in Int
  BY TimeType
<1> QED BY <1>1 DEF Earlier

LEMMA StrictlyFewer ==
  ASSUME NEW S, NEW T, IsFiniteSet(T), S \subseteq T, S # T
  PROVE  IsFiniteSet(S) /\ Cardinality(S) < Cardinality(T)
<1>1. IsFiniteSet(S) /\ Cardinality(S) <= Cardinality(T) /\ Cardinality(S) # Cardinality(T)
  BY FS_Subset
<1>2. Cardinality(S) \in Nat /\ Cardinality(T) \in Nat
  BY <1>1, FS_CardinalityType
<1> QED BY <1>1, <1>2

\* Of a finite set of blocks, one has any given number of them before it.
LEMMA RankExists ==
  ASSUME NEW c, HasTimes(c), NEW w \in SUBSET DOMAIN c, IsFiniteSet(w),
         NEW r \in 0 .. Cardinality(w) - 1
  PROVE  \E i \in w : Cardinality(Before(c, w, i)) = r
<1> DEFINE N == Cardinality(w)
           rank == [i \in w |-> Cardinality(Before(c, w, i))]
<1>1. N \in Nat
  BY FS_CardinalityType
<1>2. \A i \in w : /\ IsFiniteSet(Before(c, w, i)) /\ Before(c, w, i) \subseteq w
                   /\ i \notin Before(c, w, i)
  <2>1. \A i \in w : Before(c, w, i) \subseteq w /\ i \notin Before(c, w, i)
    BY EarlierIsOrder DEF Before
  <2> QED BY <2>1, FS_Subset
<1>3. \A i \in w : rank[i] \in 0 .. N - 1
  <2> SUFFICES ASSUME NEW i \in w PROVE Cardinality(Before(c, w, i)) \in 0 .. N - 1
    OBVIOUS
  <2>1. Before(c, w, i) # w
    BY <1>2
  <2>2. Cardinality(Before(c, w, i)) \in Nat
    BY <1>2, FS_CardinalityType
  <2>3. Cardinality(Before(c, w, i)) < N
    BY <1>1, <1>2, <2>1, <2>2, StrictlyFewer
  <2> QED BY <1>1, <2>2, <2>3
<1>4. ASSUME NEW i \in w, NEW j \in w, Earlier(c, i, j) PROVE rank[i] < rank[j]
  <2>1. Before(c, w, i) \subseteq Before(c, w, j)
    BY <1>4, EarlierIsOrder DEF Before
  <2>2. i \in Before(c, w, j) /\ i \notin Before(c, w, i)
    BY <1>2, <1>4 DEF Before
  <2>3. Cardinality(Before(c, w, i)) < Cardinality(Before(c, w, j))
    BY <1>2, <2>1, <2>2, StrictlyFewer
  <2> QED BY <2>3
<1>5. \A i, j \in w : rank[i] = rank[j] => i = j
  <2> SUFFICES ASSUME NEW i \in w, NEW j \in w, i # j PROVE rank[i] # rank[j]
    OBVIOUS
  <2>1. Earlier(c, i, j) \/ Earlier(c, j, i)
    BY EarlierIsOrder
  <2>2. rank[i] < rank[j] \/ rank[j] < rank[i]
    BY <1>4, <2>1
  <2>3. rank[i] \in Nat /\ rank[j] \in Nat
    BY <1>3
  <2> HIDE DEF rank
  <2> QED BY <2>2, <2>3
<1>6. rank \in Injection(w, 0 .. N - 1)
  <2>1. rank \in [w -> 0 .. N - 1]
    BY <1>3
  <2> HIDE DEF rank, N
  <2> QED BY <1>5, <2>1 DEF Injection, IsInjective
<1>7. IsFiniteSet(0 .. N - 1) /\ Cardinality(0 .. N - 1) = N
  BY <1>1, FS_Interval
<1>8. rank \in Surjection(w, 0 .. N - 1)
  <2> HIDE DEF rank
  <2> QED BY <1>6, <1>7, FS_Injection
<1>9. \E i \in w : rank[i] = r
  <2> HIDE DEF rank
  <2> QED BY <1>8 DEF Surjection
<1> QED BY <1>9

\* The median of a window is one of its blocks, with half the others before it.
LEMMA MedianIs ==
  ASSUME NEW c, HasTimes(c), NEW s \in DOMAIN c
  PROVE  LET w == MedianWindow(c, s)
         IN  /\ MedianIndex(c, s) \in w /\ w \subseteq DOMAIN c /\ IsFiniteSet(w)
             /\ Cardinality(Before(c, w, MedianIndex(c, s))) = Cardinality(w) \div 2
<1> DEFINE w == MedianWindow(c, s)
           n == Cardinality(w)
<1>1. w \subseteq DOMAIN c /\ s \in w
  BY TimeType, DifficultyAssumption DEF MedianWindow
<1>2. IsFiniteSet(w)
  <2>1. Len(c) \in Int /\ w \subseteq 1 .. Len(c)
    BY <1>1, TimeType
  <2>2. IsFiniteSet(1 .. Len(c))
    BY <2>1, FS_Interval
  <2> HIDE DEF w
  <2> QED BY <2>1, <2>2, FS_Subset
<1>3. MedianIndex(c, s) = CHOOSE i \in w : Cardinality(Before(c, w, i)) = n \div 2
  BY Zenon DEF MedianIndex, Before
<1> HIDE DEF w
<1>4. n \in Nat /\ n # 0
  BY <1>1, <1>2, FS_CardinalityType, FS_EmptySet
<1>5. n \div 2 \in 0 .. n - 1
  BY <1>4
<1>6. \E i \in w : Cardinality(Before(c, w, i)) = n \div 2
  BY <1>1, <1>2, <1>5, RankExists
<1> QED BY <1>1, <1>2, <1>3, <1>6 DEF w

\* A window the chain fills, as those of the retarget are once it has enough.
LEMMA WindowIs ==
  ASSUME NEW c, HasTimes(c), Enough(c), NEW s \in {1, 1 + SpeedCalc}
  PROVE  /\ MedianWindow(c, s) = s .. s + MedianCalc - 1 /\ s \in DOMAIN c
         /\ Cardinality(MedianWindow(c, s)) = MedianCalc
<1>1. /\ Len(c) \in Nat /\ DOMAIN c = 1 .. Len(c) /\ Len(c) >= SpeedCalc + 2 * MedianCalc
      /\ SpeedCalc \in Nat /\ SpeedCalc >= 1 /\ MedianCalc \in Nat /\ MedianCalc >= 3
  BY TimeType, DifficultyAssumption DEF Enough
<1>2. s \in Nat /\ s >= 1 /\ s <= 1 + SpeedCalc
  BY <1>1
<1>3. MedianWindow(c, s) = s .. s + MedianCalc - 1 /\ s \in DOMAIN c
  BY <1>1, <1>2 DEF MedianWindow
<1>4. Cardinality(s .. s + MedianCalc - 1) = MedianCalc
  <2>1. s \in Int /\ s + MedianCalc - 1 \in Int /\ ~ (s > s + MedianCalc - 1)
        /\ (s + MedianCalc - 1) - s + 1 = MedianCalc
    BY <1>1, <1>2
  <2> QED BY <2>1, FS_Interval
<1> QED BY <1>3, <1>4

\* On both sides of the median of a full window there is a block.
LEMMA MedianIsBetween ==
  ASSUME NEW c, HasTimes(c), Enough(c), NEW s \in {1, 1 + SpeedCalc}
  PROVE  LET w == MedianWindow(c, s)
             m == MedianIndex(c, s)
         IN  /\ m \in w
             /\ \E j \in w : Earlier(c, j, m)
             /\ \E j \in w : Earlier(c, m, j)
<1> DEFINE w == MedianWindow(c, s)
           m == MedianIndex(c, s)
           B == Before(c, w, m)
<1>1. s \in DOMAIN c /\ Cardinality(w) = MedianCalc /\ MedianCalc \in Nat /\ MedianCalc >= 3
  BY WindowIs, DifficultyAssumption
<1>2. m \in w /\ w \subseteq DOMAIN c /\ IsFiniteSet(w) /\ Cardinality(B) = MedianCalc \div 2
  BY <1>1, MedianIs
<1>3. MedianCalc \div 2 >= 1 /\ MedianCalc \div 2 + 1 < MedianCalc
  BY <1>1
<1> HIDE DEF w, m
<1>4. B \subseteq w /\ IsFiniteSet(B) /\ m \notin B
  <2>1. B \subseteq w /\ m \notin B
    BY <1>2, EarlierIsOrder DEF Before
  <2> QED BY <1>2, <2>1, FS_Subset
<1>5. \E j \in w : Earlier(c, j, m)
  <2>1. B # {}
    <3> HIDE DEF B
    <3> SUFFICES ASSUME B = {} PROVE FALSE
      OBVIOUS
    <3>1. Cardinality({}) = 0
      BY FS_EmptySet
    <3>2. Cardinality(B) # 0
      BY <1>1, <1>2, <1>3
    <3> QED BY <3>1, <3>2, Zenon
  <2> QED BY <2>1 DEF Before
<1>6. \E j \in w : Earlier(c, m, j)
  <2>1. Cardinality(B \cup {m}) = MedianCalc \div 2 + 1
    BY <1>2, <1>4, FS_AddElement
  <2>2. B \cup {m} # w
    BY <1>1, <1>3, <2>1
  <2>3. PICK j \in w : j \notin B /\ j # m
    BY <1>2, <1>4, <2>2
  <2>4. ~ Earlier(c, j, m)
    BY <2>3 DEF Before
  <2>5. Earlier(c, m, j)
    BY <1>2, <2>3, <2>4, EarlierIsOrder
  <2> QED BY <2>5
<1> QED BY <1>2, <1>5, <1>6 DEF w, m

LEMMA ChainHasTimes ==
  ASSUME NEW c, IsChain(c)
  PROVE  HasTimes(c)
BY DEF IsChain, HasTimes

LEMMA AlteredType ==
  ASSUME IsChain(summaries), Enough(summaries), NEW i \in DOMAIN summaries, NEW t \in Int
  PROVE  /\ HasTimes(Altered(i, t)) /\ Enough(Altered(i, t))
         /\ DOMAIN Altered(i, t) = DOMAIN summaries
         /\ \A s : MedianWindow(Altered(i, t), s) = MedianWindow(summaries, s)
         /\ \A j \in DOMAIN summaries : j # i => Altered(i, t)[j].time = summaries[j].time
<1> DEFINE B == [number : Nat, time : Int, difficulty : Rows]
           c == Altered(i, t)
<1>1. summaries \in Seq(B)
  BY DEF IsChain
<1>2. summaries[i] \in B
  <2> HIDE DEF B
  <2> QED BY <1>1
<1>3. [summaries[i] EXCEPT !.time = t] \in B /\ [summaries[i] EXCEPT !.time = t].number = summaries[i].number
  BY <1>2
<1>4. c = [summaries EXCEPT ![i] = [summaries[i] EXCEPT !.time = t]]
  BY DEF Altered
<1> HIDE DEF B
<1>5. c \in Seq(B) /\ DOMAIN c = DOMAIN summaries /\ Len(c) = Len(summaries)
  BY <1>1, <1>3, <1>4
<1>6. \A j \in DOMAIN summaries :
        c[j] = IF j = i THEN [summaries[i] EXCEPT !.time = t] ELSE summaries[j]
  BY <1>4
<1>7. c[1].number = summaries[1].number /\ c # <<>>
  <2>1. 1 \in DOMAIN summaries
    BY <1>1 DEF Enough
  <2>2. c[1].number = summaries[1].number
    BY <1>3, <1>6, <2>1
  <2> QED BY <1>5, <2>1, <2>2
<1> HIDE DEF c
<1>8. HasTimes(c) /\ Enough(c)
  BY <1>5, <1>7 DEF HasTimes, Enough, B
<1>9. \A s : MedianWindow(c, s) = MedianWindow(summaries, s)
  BY <1>5 DEF MedianWindow
<1> QED BY <1>5, <1>6, <1>8, <1>9 DEF c

LEMMA ClocksAreOutvoted ==
  ASSUME IsChain(summaries), Enough(summaries)
  PROVE  OneClockIsOutvoted
<1> SUFFICES ASSUME NEW s \in Starts, NEW i \in MedianWindow(summaries, s),
                    NEW t \in Times \cup {-1, 1000}
             PROVE  LET others == {summaries[j].time : j \in MedianWindow(summaries, s) \ {i}}
                        median == Altered(i, t)[MedianIndex(Altered(i, t), s)].time
                    IN  \E lo, hi \in others : lo <= median /\ median <= hi
  BY DEF OneClockIsOutvoted
<1> DEFINE w == MedianWindow(summaries, s)
           c == Altered(i, t)
           m == MedianIndex(c, s)
           others == {summaries[j].time : j \in w \ {i}}
<1>1. w \subseteq DOMAIN summaries /\ i \in DOMAIN summaries
  BY DEF MedianWindow
<1>2. \A j \in DOMAIN summaries : summaries[j].time \in Int
  BY BlockType
<1>3. t \in Int
  BY <1>2 DEF Times
<1>4. /\ HasTimes(c) /\ Enough(c) /\ DOMAIN c = DOMAIN summaries /\ MedianWindow(c, s) = w
      /\ \A j \in DOMAIN summaries : j # i => c[j].time = summaries[j].time
  BY <1>1, <1>3, AlteredType
<1> HIDE DEF c
<1>5. /\ m \in w
      /\ \E j \in w : Earlier(c, j, m)
      /\ \E j \in w : Earlier(c, m, j)
  BY <1>4, MedianIsBetween DEF Starts
<1> HIDE DEF w, m
<1>6. CASE m # i
  <2>1. c[m].time \in others /\ c[m].time \in Int
    BY <1>1, <1>2, <1>4, <1>5, <1>6
  <2>2. c[m].time <= c[m].time
    BY <2>1
  <2> QED BY <2>1, <2>2 DEF w, c, m
<1>7. CASE m = i
  <2>1. PICK j \in w : Earlier(c, j, m)
    BY <1>5
  <2>2. PICK k \in w : Earlier(c, m, k)
    BY <1>5
  <2>3. j # i /\ k # i /\ c[j].time <= c[m].time /\ c[m].time <= c[k].time
    BY <1>1, <1>4, <1>5, <1>7, <2>1, <2>2, EarlierIsOrder
  <2>4. c[j].time \in others /\ c[k].time \in others
    BY <1>1, <1>4, <2>3
  <2> QED BY <2>3, <2>4 DEF w, c, m
<1> QED BY <1>6, <1>7
-----------------------------------------------------------------------------
(* The retarget.                                                           *)

LEMMA RatioType ==
  ASSUME NEW timeDiff \in Int, timeDiff > 0, NEW blockDiff \in Int
  PROVE  Ratio(timeDiff, blockDiff) \in [num : Nat, den : Nat \ {0}]
<1> DEFINE target == TargetTime * blockDiff
<1>1. target \in Int /\ MaxBound \in Nat /\ MaxBound # 0
  BY DifficultyAssumption
<1>2. Ratio(timeDiff, blockDiff) =
        IF timeDiff >= MaxBound * target THEN [num |-> MaxBound, den |-> 1]
        ELSE IF MaxBound * timeDiff <= target THEN [num |-> 1, den |-> MaxBound]
        ELSE [num |-> timeDiff, den |-> target]
  BY DEF Ratio
<1> HIDE DEF target
<1>3. ASSUME ~ (timeDiff >= MaxBound * target) PROVE target > 0
  <2>1. target <= 0 => MaxBound * target <= 0
    BY <1>1
  <2>2. MaxBound * target \in Int
    BY <1>1
  <2> QED BY <1>1, <1>3, <2>1, <2>2
<1> QED BY <1>1, <1>2, <1>3

LEMMA CalculateType ==
  ASSUME NEW c, IsChain(c)
  PROVE  Calculate(c) \in Rows
<1> DEFINE first == MedianIndex(c, 1)
           last == MedianIndex(c, 1 + SpeedCalc)
           blockDiff == c[first].number - c[last].number
           timeDiff == c[first].time - c[last].time
           ratio == Ratio(timeDiff, blockDiff)
           average == AverageDifficulty(c, last, blockDiff)
<1>1. CASE ~ Enough(c)
  BY <1>1, EasiestIsRow DEF Calculate
<1>2. CASE Enough(c)
  <2>1. HasTimes(c)
    BY ChainHasTimes
  <2>2. 1 \in DOMAIN c /\ 1 + SpeedCalc \in DOMAIN c
    BY <1>2, <2>1, WindowIs
  <2>3. first \in DOMAIN c /\ last \in DOMAIN c
    BY <2>1, <2>2, MedianIs
  <2>4. Calculate(c) = IF blockDiff = 0 \/ timeDiff <= 0 THEN c[1].difficulty
                       ELSE MulRational(average, ratio.num, ratio.den)
    BY <1>2 DEF Calculate
  <2> HIDE DEF first, last
  <2>5. blockDiff \in Int /\ timeDiff \in Int /\ c[1].difficulty \in Rows
    <3>1. Len(c) \in Nat /\ DOMAIN c \subseteq Int
      BY <2>1, TimeType
    <3>2. c[first].number = Len(c) - first /\ c[first].time \in Int
      BY <2>3, BlockType
    <3>3. c[last].number = Len(c) - last /\ c[last].time \in Int
      BY <2>3, BlockType
    <3>4. c[1].difficulty \in Rows
      BY <2>2, BlockType
    <3>5. first \in Int /\ last \in Int
      BY <2>3, <3>1
    <3> QED BY <3>1, <3>2, <3>3, <3>4, <3>5
  <2> HIDE DEF blockDiff, timeDiff
  <2>6. average \in Rows
    BY <2>3, <2>5, AverageType
  <2>7. timeDiff > 0 => ratio \in [num : Nat, den : Nat \ {0}]
    BY <2>5, RatioType
  <2> HIDE DEF average, ratio
  <2>8. timeDiff > 0 => ratio.num \in Nat /\ ratio.den \in Nat \ {0}
    BY <2>7
  <2>9. ~ (timeDiff <= 0) => MulRational(average, ratio.num, ratio.den) \in Rows
    BY <2>5, <2>6, <2>8, ProductType
  <2> QED BY <2>4, <2>5, <2>9
<1> QED BY <1>1, <1>2

\* Where the blocks come in the target time and share their difficulty.
OnTarget(c) ==
  \A i \in 1 .. Len(c) - 1 : /\ c[i].time = c[i + 1].time + TargetTime
                             /\ c[i].difficulty = c[i + 1].difficulty

LEMMA OnTargetTimes ==
  ASSUME NEW c, IsChain(c), OnTarget(c), c # <<>>
  PROVE  \A i \in DOMAIN c : /\ c[i].time = c[1].time - (i - 1) * TargetTime
                             /\ c[i].difficulty = c[1].difficulty
<1> DEFINE T == TargetTime
           N == Len(c) - 1
           S == {k \in 0 .. N : /\ c[k + 1].time = c[1].time - k * T
                                /\ c[k + 1].difficulty = c[1].difficulty}
<1>1. T \in Nat /\ N \in Nat /\ DOMAIN c = 1 .. N + 1 /\ 1 \in DOMAIN c
  <2>1. Len(c) \in Nat /\ DOMAIN c = 1 .. Len(c) /\ Len(c) # 0
    BY DEF IsChain
  <2> QED BY <2>1, DifficultyAssumption
<1>2. \A i \in DOMAIN c : c[i].time \in Int
  BY BlockType
<1>3. \A k \in 1 .. N : c[k].time = c[k + 1].time + T /\ c[k].difficulty = c[k + 1].difficulty
  BY DEF OnTarget
<1> HIDE DEF T, N
<1>4. 0 \in S
  <2>1. 0 * T = 0 /\ 0 + 1 = 1 /\ 0 \in 0 .. N /\ c[1].time - 0 = c[1].time
    BY <1>1, <1>2
  <2> QED BY <2>1
<1>5. ASSUME NEW k \in 1 .. N, k - 1 \in S PROVE k \in S
  <2>1. c[k].time = c[1].time - (k - 1) * T /\ c[k].difficulty = c[1].difficulty
    <3>1. (k - 1) + 1 = k
      OBVIOUS
    <3> QED BY <1>5, <3>1
  <2>2. c[k + 1].time = c[k].time - T /\ c[k + 1].difficulty = c[k].difficulty
    <3>1. c[k + 1].time \in Int
      BY <1>1, <1>2
    <3> QED BY <1>1, <1>3, <3>1
  <2>3. (k - 1) * T = k * T - T /\ k * T \in Int /\ c[1].time \in Int
    BY <1>1, <1>2
  <2>4. c[k + 1].time = c[1].time - k * T
    BY <1>1, <2>1, <2>2, <2>3
  <2>5. k \in 0 .. N
    BY <1>1
  <2> QED BY <2>1, <2>2, <2>4, <2>5
<1>6. 0 .. N \subseteq S
  <2> HIDE DEF S
  <2> QED BY <1>1, <1>4, <1>5, BoundedInduction
<1>7. ASSUME NEW i \in DOMAIN c
      PROVE  c[i].time = c[1].time - (i - 1) * T /\ c[i].difficulty = c[1].difficulty
  <2>1. i - 1 \in 0 .. N /\ (i - 1) + 1 = i
    BY <1>1
  <2>2. i - 1 \in S
    BY <1>6, <2>1
  <2> QED BY <2>1, <2>2
<1> QED BY <1>7 DEF T

\* There the block before is the one after, and the median the middle one.
LEMMA OnTargetMedian ==
  ASSUME NEW c, IsChain(c), OnTarget(c), Enough(c), NEW s \in {1, 1 + SpeedCalc}
  PROVE  MedianIndex(c, s) = s + MedianCalc - 1 - (MedianCalc \div 2)
<1> DEFINE w == MedianWindow(c, s)
           m == MedianIndex(c, s)
           T == TargetTime
           h == MedianCalc \div 2
<1>1. HasTimes(c) /\ c # <<>>
  BY ChainHasTimes DEF Enough
<1>2. w = s .. s + MedianCalc - 1 /\ s \in DOMAIN c /\ Cardinality(w) = MedianCalc
  BY <1>1, WindowIs
<1>3. m \in w /\ w \subseteq DOMAIN c /\ Cardinality(Before(c, w, m)) = h
  BY <1>1, <1>2, MedianIs
<1>4. DOMAIN c \subseteq Int /\ \A i \in DOMAIN c : c[i].time \in Int
  BY <1>1, TimeType
<1>5. \A i, j \in DOMAIN c : Earlier(c, j, i) <=> j > i
  <2> SUFFICES ASSUME NEW i \in DOMAIN c, NEW j \in DOMAIN c PROVE Earlier(c, j, i) <=> j > i
    OBVIOUS
  <2> DEFINE a == c[1].time
             x == i - 1
             y == j - 1
  <2>1. c[i].time = a - x * T /\ c[j].time = a - y * T
    BY <1>1, OnTargetTimes
  <2>2. a \in Int /\ x \in Int /\ y \in Int /\ T \in Nat /\ T # 0
    <3>1. 1 \in DOMAIN c
      BY <1>1, TimeType DEF Enough
    <3> QED BY <1>4, <3>1, DifficultyAssumption
  <2>3. i \in Int /\ j \in Int
    BY <1>4
  <2>4. j > i <=> y > x
    BY <2>3
  <2>5. Earlier(c, j, i) <=> (a - y * T < a - x * T \/ (a - y * T = a - x * T /\ j < i))
    BY <2>1, Zenon DEF Earlier
  <2>6. j < i <=> y < x
    BY <2>3
  <2> HIDE DEF a, x, y, T
  <2>7. x * T \in Int /\ y * T \in Int
    BY <2>2
  <2>8. y > x => y * T > x * T
    <3> SUFFICES ASSUME y > x PROVE y * T > x * T
      OBVIOUS
    <3>1. y * T >= (x + 1) * T
      BY <2>2
    <3>2. (x + 1) * T = x * T + T
      BY <2>2
    <3> QED BY <2>2, <2>7, <3>1, <3>2
  <2>9. x > y => x * T > y * T
    <3> SUFFICES ASSUME x > y PROVE x * T > y * T
      OBVIOUS
    <3>1. x * T >= (y + 1) * T
      BY <2>2
    <3>2. (y + 1) * T = y * T + T
      BY <2>2
    <3> QED BY <2>2, <2>7, <3>1, <3>2
  <2>10. x = y => x * T = y * T
    OBVIOUS
  <2> QED BY <2>2, <2>4, <2>5, <2>6, <2>7, <2>8, <2>9, <2>10
<1>6. Before(c, w, m) = m + 1 .. s + MedianCalc - 1
  <2> HIDE DEF m, w
  <2>1. \A j \in w : Earlier(c, j, m) <=> j > m
    BY <1>3, <1>5
  <2>2. Before(c, w, m) = {j \in w : j > m}
    BY <2>1 DEF Before
  <2>3. s \in Int /\ MedianCalc \in Int /\ m \in s .. s + MedianCalc - 1
    BY <1>2, <1>3, <1>4, DifficultyAssumption
  <2> DEFINE e == s + MedianCalc - 1
  <2>4. w = s .. e /\ e \in Int /\ s \in Int /\ m \in s .. e
    BY <1>2, <2>3
  <2> HIDE DEF e
  <2>5. {j \in s .. e : j > m} = m + 1 .. e
    BY <2>4
  <2> QED BY <2>2, <2>4, <2>5 DEF e
<1>7. s \in Int /\ MedianCalc \in Nat /\ m \in Int /\ h \in Nat /\ h >= 1
  <2>1. s \in Int /\ MedianCalc \in Nat \ {0, 1, 2}
    BY <1>2, <1>4, DifficultyAssumption
  <2>2. m \in Int
    <3> HIDE DEF m, w
    <3> QED BY <1>3, <1>4
  <2> QED BY <2>1, <2>2
<1> HIDE DEF m, w, h
<1>8. m + 1 \in Int /\ s + MedianCalc - 1 \in Int
  BY <1>7
<1>9. h = IF m + 1 > s + MedianCalc - 1 THEN 0 ELSE (s + MedianCalc - 1) - (m + 1) + 1
  BY <1>3, <1>6, <1>8, FS_Interval
<1> QED BY <1>7, <1>9 DEF m, h

\* The sum of equal rows is so many times the one.
LEMMA SumOfEqual ==
  ASSUME NEW c, NEW s, NEW n \in Nat, NEW d \in Rows,
         \A k \in 1 .. n : c[s + k - 1].difficulty = d
  PROVE  ValueOf(d) \in Nat /\ SumOf(c, s, n) = ValueOf(d) * n
<1> DEFINE v == ValueOf(d)
<1>1. v \in Nat
  BY BaseFacts, WriteBack DEF Rows
<1>2. \A k \in 1 .. n : ValueOf(c[s + k - 1].difficulty) = v
  OBVIOUS
<1> HIDE DEF v
<1>3. PICK f : IsSum(f, c, s, n) /\ SumOf(c, s, n) = f[n]
  <2>1. HasSum(c, s, n)
    BY <1>1, <1>2, SumIs
  <2> QED BY <2>1 DEF HasSum
<1>4. f \in [0 .. n -> Nat] /\ f[0] = 0 /\ \A k \in 1 .. n : f[k] = f[k - 1] + v
  BY <1>2, <1>3 DEF IsSum
<1> DEFINE S == {k \in 0 .. n : f[k] = v * k}
<1>5. 0 \in S
  BY <1>1, <1>4
<1>6. ASSUME NEW k \in 1 .. n, k - 1 \in S PROVE k \in S
  <2>1. f[k] = v * (k - 1) + v
    BY <1>4, <1>6
  <2>2. v * (k - 1) = v * k - v /\ v * k \in Int
    BY <1>1
  <2> QED BY <1>1, <2>1, <2>2
<1>7. 0 .. n \subseteq S
  <2> HIDE DEF S
  <2> QED BY <1>5, <1>6, BoundedInduction
<1>8. n \in S
  BY <1>7
<1> QED BY <1>1, <1>3, <1>8 DEF v

\* A chain on target keeps its difficulty.
LEMMA OnTargetKeeps ==
  ASSUME NEW c, IsChain(c), OnTarget(c), Enough(c)
  PROVE  Calculate(c) = c[1].difficulty
<1> DEFINE h == MedianCalc \div 2
           first == MedianIndex(c, 1)
           last == MedianIndex(c, 1 + SpeedCalc)
           blockDiff == c[first].number - c[last].number
           timeDiff == c[first].time - c[last].time
           ratio == Ratio(timeDiff, blockDiff)
           average == AverageDifficulty(c, last, blockDiff)
           d == c[1].difficulty
           n == Taken(c, last, SpeedCalc)
<1>1. /\ SpeedCalc \in 1 .. Base /\ MedianCalc \in Nat /\ MedianCalc >= 3
      /\ h \in Nat /\ h >= 1 /\ h < MedianCalc /\ SpeedCalc \in Nat /\ SpeedCalc >= 1
      /\ TargetTime \in Nat /\ TargetTime >= 1 /\ MaxBound \in Nat /\ MaxBound >= 1
  BY DifficultyAssumption
<1>2. c # <<>> /\ HasTimes(c) /\ 1 \in DOMAIN c /\ Len(c) \in Nat /\ DOMAIN c = 1 .. Len(c)
  <2>1. HasTimes(c)
    BY ChainHasTimes
  <2> QED BY <2>1, TimeType, WindowIs DEF Enough
<1> HIDE DEF h
<1>3. first = MedianCalc - h /\ last = SpeedCalc + MedianCalc - h
  <2>1. first = 1 + MedianCalc - 1 - h /\ last = 1 + SpeedCalc + MedianCalc - 1 - h
    BY OnTargetMedian DEF h
  <2> HIDE DEF first, last
  <2> QED BY <1>1, <2>1
<1>4. first \in DOMAIN c /\ last \in DOMAIN c
  <2> HIDE DEF first, last
  <2>1. Len(c) >= SpeedCalc + 2 * MedianCalc
    BY DEF Enough
  <2> QED BY <1>1, <1>2, <1>3, <2>1
<1>5. d \in Rows /\ c[1].time \in Int
  BY <1>2, BlockType
<1>6. Calculate(c) = IF blockDiff = 0 \/ timeDiff <= 0 THEN d
                     ELSE MulRational(average, ratio.num, ratio.den)
  BY DEF Calculate
<1> HIDE DEF first, last
<1>7. blockDiff = SpeedCalc
  <2>1. c[first].number = Len(c) - first /\ c[last].number = Len(c) - last
    BY <1>4, BlockType
  <2> QED BY <1>1, <1>2, <1>3, <2>1
<1>8. timeDiff = TargetTime * SpeedCalc
  <2> DEFINE a == c[1].time
             T == TargetTime
             x == first - 1
  <2>1. c[first].time = a - x * T /\ c[last].time = a - (last - 1) * T
    BY <1>2, <1>4, OnTargetTimes
  <2>2. last - 1 = x + SpeedCalc /\ x \in Int
    BY <1>1, <1>3
  <2>3. (x + SpeedCalc) * T = x * T + T * SpeedCalc /\ x * T \in Int /\ T * SpeedCalc \in Int
    BY <1>1, <2>2
  <2>4. a \in Int
    BY <1>5
  <2> HIDE DEF a, x, T
  <2>5. timeDiff = (a - x * T) - (a - (x * T + T * SpeedCalc))
    BY <2>1, <2>2, <2>3
  <2> QED BY <2>3, <2>4, <2>5 DEF T
<1>9. timeDiff \in Nat /\ timeDiff >= 1
  <2>1. TargetTime * SpeedCalc \in Nat /\ TargetTime * SpeedCalc >= 1
    BY <1>1
  <2> QED BY <1>8, <2>1
<1>10. \E r \in Nat \ {0} : ratio.num = r /\ ratio.den = r
  <2> DEFINE v == TargetTime * SpeedCalc
  <2>1. v \in Nat /\ v >= 1
    BY <1>8, <1>9
  <2>2. ratio = IF v >= MaxBound * v THEN [num |-> MaxBound, den |-> 1]
                ELSE IF MaxBound * v <= v THEN [num |-> 1, den |-> MaxBound]
                ELSE [num |-> v, den |-> v]
    BY <1>7, <1>8 DEF Ratio
  <2> HIDE DEF v, ratio
  <2>3. MaxBound # 1 => ~ (v >= MaxBound * v) /\ ~ (MaxBound * v <= v)
    <3> SUFFICES ASSUME MaxBound # 1 PROVE MaxBound * v > v
      <4>1. MaxBound * v \in Int
        BY <1>1, <2>1
      <4> QED BY <2>1, <4>1
    <3>1. MaxBound * v >= 2 * v
      BY <1>1, <2>1
    <3>2. MaxBound * v \in Int
      BY <1>1, <2>1
    <3> QED BY <2>1, <3>1, <3>2
  <2>4. CASE MaxBound = 1
    <3>1. MaxBound * v = v
      BY <2>1, <2>4
    <3>2. ratio = [num |-> 1, den |-> 1]
      BY <2>1, <2>2, <2>4, <3>1
    <3> QED BY <3>2
  <2>5. CASE MaxBound # 1
    <3>1. ratio = [num |-> v, den |-> v]
      BY <2>2, <2>3, <2>5
    <3> QED BY <2>1, <3>1
  <2> QED BY <2>4, <2>5
<1>11. average = d
  <2>1. n \in 1 .. Base /\ \A k \in 1 .. n : last + k - 1 \in DOMAIN c
    BY <1>1, <1>2, <1>4, BaseFacts DEF Taken
  <2>2. \A k \in 1 .. n : c[last + k - 1].difficulty = d
    BY <1>2, <2>1, OnTargetTimes
  <2>3. n \in Nat \ {0}
    BY <2>1
  <2>4. average = BytesOf(SumOf(c, last, n) \div n, Width)
    BY <1>1, <1>4, <1>7, MeanIs
  <2> HIDE DEF n, d, average
  <2>5. ValueOf(d) \in Nat /\ SumOf(c, last, n) = ValueOf(d) * n
    <3>1. n \in Nat /\ d \in Rows
      BY <1>5, <2>3
    <3> QED BY <2>2, <3>1, SumOfEqual
  <2>6. ValueOf(d) * n \in Nat /\ (ValueOf(d) * n) \div n = ValueOf(d)
    <3>1. \A x \in Nat : x * n \in Nat
      BY <2>3
    <3> QED BY <2>3, <2>5, <3>1, QuotientIs
  <2>7. average = BytesOf(ValueOf(d), Width)
    BY <2>4, <2>5, <2>6
  <2> QED BY <1>5, <2>7, BaseFacts, WriteBack DEF Rows
<1> HIDE DEF ratio, average
<1>12. MulRational(average, ratio.num, ratio.den) = d
  BY <1>5, <1>10, <1>11, RatioOfOne
<1> QED BY <1>6, <1>12
-----------------------------------------------------------------------------
(* The chain the retarget builds.                                          *)

LEMMA ExtendedChain ==
  ASSUME IsChain(summaries), NEW gap \in Gaps, ExtendChain(gap)
  PROVE  IsChain(summaries)'
<1> DEFINE B == [number : Nat, time : Int, difficulty : Rows]
           n == Len(summaries)
           time == gap + IF summaries = <<>> THEN 0 ELSE summaries[1].time
           b == [number |-> n, time |-> time, difficulty |-> Calculate(summaries)]
           c == <<b>> \o summaries
<1>1. summaries' = c
  BY DEF ExtendChain
<1>2. summaries \in Seq(B) /\ n \in Nat /\ \A i \in DOMAIN summaries : summaries[i].number = n - i
  BY DEF IsChain
<1>3. time \in Int
  <2>1. summaries # <<>> => 1 \in DOMAIN summaries
    BY <1>2
  <2>2. summaries # <<>> => summaries[1].time \in Int
    BY <2>1, BlockType
  <2> QED BY <2>2, DifficultyAssumption
<1>4. b \in B /\ b.number = n
  BY <1>2, <1>3, CalculateType
<1> HIDE DEF b, B, n
<1>5. /\ c \in Seq(B) /\ Len(c) = n + 1
      /\ \A i \in DOMAIN c : /\ c[i] = IF i = 1 THEN b ELSE summaries[i - 1]
                             /\ i # 1 => i - 1 \in DOMAIN summaries
  BY <1>2, <1>4 DEF n
<1> HIDE DEF c
<1>6. \A i \in DOMAIN c : c[i].number = (n + 1) - i
  <2> SUFFICES ASSUME NEW i \in DOMAIN c PROVE c[i].number = (n + 1) - i
    OBVIOUS
  <2>1. i \in Int
    BY <1>5
  <2>2. CASE i = 1
    BY <1>2, <1>4, <1>5, <2>2
  <2>3. CASE i # 1
    <3>1. c[i] = summaries[i - 1] /\ summaries[i - 1].number = n - (i - 1)
      BY <1>2, <1>5, <2>3
    <3> QED BY <1>2, <2>1, <3>1
  <2> QED BY <2>2, <2>3
<1>7. IsChain(c)
  <2>1. c \in Seq([number : Nat, time : Int, difficulty : Rows])
    BY <1>5, Zenon DEF B
  <2>2. \A i \in DOMAIN c : c[i].number = Len(c) - i
    <3>1. Len(c) = n + 1
      BY <1>5
    <3> QED BY <1>6, <3>1, Zenon
  <2> QED BY <2>1, <2>2, Zenon DEF IsChain
<1> QED BY <1>1, <1>7 DEF IsChain

\* The chain is one whose numbers count and whose difficulties are rows: what
\* DifficultyAdjust::calculate is given, as long as it has given what it returned.
THEOREM ChainIsDue == DifficultySpec => []IsChain(summaries)
<1>1. DifficultyInit => IsChain(summaries)
  BY DEF DifficultyInit, IsChain
<1>2. IsChain(summaries) /\ [DifficultyNext]_summaries => IsChain(summaries)'
  <2> SUFFICES ASSUME IsChain(summaries), [DifficultyNext]_summaries
               PROVE  IsChain(summaries)'
    OBVIOUS
  <2>1. CASE UNCHANGED summaries
    BY <2>1 DEF IsChain
  <2>2. CASE DifficultyNext
    BY <2>2, ExtendedChain DEF DifficultyNext
  <2> QED BY <2>1, <2>2
<1> QED BY <1>1, <1>2, PTL DEF DifficultySpec

LEMMA DueIsKept ==
  ASSUME IsChain(summaries)
  PROVE  RetargetIsDue
<1> SUFFICES ASSUME Enough(summaries)
             PROVE  /\ OneClockIsOutvoted /\ AverageIsMean /\ ProductIsExact
                    /\ OnTarget(summaries) => Calculate(summaries) = summaries[1].difficulty
  BY DEF RetargetIsDue, OnTarget
<1>1. AverageIsMean
  BY MeanIs DEF AverageIsMean
<1>2. ProductIsExact
  <2> SUFFICES ASSUME NEW i \in DOMAIN summaries, NEW num \in 1 .. MaxBound, NEW den \in 1 .. MaxBound,
                      \A k \in 1 .. Width :
                        /\ (summaries[i].difficulty[k] * num) % den = 0
                        /\ summaries[i].difficulty[k] * num < den * Base
               PROVE  ValueOf(MulRational(summaries[i].difficulty, num, den)) * den
                        = ValueOf(summaries[i].difficulty) * num
    BY DEF ProductIsExact
  <2> DEFINE bytes == summaries[i].difficulty
             out == MulRational(bytes, num, den)
  <2>1. bytes \in Rows /\ num \in Nat /\ den \in Nat \ {0} /\ den \in Nat
    BY BlockType, DifficultyAssumption
  <2>2. out \in Rows
    BY <2>1, ProductType
  <2>3. \A k \in 1 .. Width : out[k] * den = bytes[k] * num
    BY <2>1, ExactBytes
  <2> HIDE DEF bytes, out
  <2>4. ValueOf(out) * den = ValueOf(bytes) * num
    BY <2>1, <2>2, <2>3, ExactValue
  <2> QED BY <2>4 DEF bytes, out
<1> QED BY <1>1, <1>2, ClocksAreOutvoted, OnTargetKeeps

\* The retarget is due, for any base and width of a difficulty, any windows, and
\* any times between blocks, those of a clock that goes back among them.
THEOREM RetargetIsAlwaysDue == DifficultySpec => []RetargetIsDue
<1>1. IsChain(summaries) => RetargetIsDue
  BY DueIsKept
<1> QED BY <1>1, ChainIsDue, PTL
-----------------------------------------------------------------------------
(* The mailbox: its inductive invariant.                                   *)

USE MaxStartsAssumption

\* The flag is up between start() and the first line of stop().
FlagFollowsOwner == running <=> owner = "started"

\* The worker holds the mutex from a lock to the next unlock.
LockFollowsWorker == locked <=> worker \in {"predicate", "blocking", "drain"}

\* A message is in hand while it is handled and at no other time.
HandFollowsWorker == (worker = "handling") <=> (inHand # <<>>)

\* No message can come between a predicate that was false and the sleep: the
\* mutex is held.  This is what makes NoSleepOnMail inductive.
BlockingIsEmpty == worker = "blocking" /\ running => queue = <<>>

Inv ==
  /\ TypeOK
  /\ FlagFollowsOwner /\ LockFollowsWorker /\ HandFollowsWorker
  /\ BlockingIsEmpty /\ NoSleepOnMail /\ QuietAfterStop

LEMMA InvInit == Init => Inv
<1> SUFFICES ASSUME Init PROVE Inv
  OBVIOUS
<1>1. TypeOK
  <2>1. <<>> \in Seq(Messages)
    OBVIOUS
  <2>2. starts \in 0 .. MaxStarts
    BY DEF Init
  <2> QED BY <2>1, <2>2, Zenon DEF Init, TypeOK
<1>2. FlagFollowsOwner /\ LockFollowsWorker
  BY DEF Init, FlagFollowsOwner, LockFollowsWorker
<1>3. HandFollowsWorker /\ BlockingIsEmpty
  BY DEF Init, HandFollowsWorker, BlockingIsEmpty
<1>4. NoSleepOnMail /\ QuietAfterStop
  BY DEF Init, NoSleepOnMail, QuietAfterStop
<1> QED BY <1>1, <1>2, <1>3, <1>4 DEF Inv

-----------------------------------------------------------------------------
(* Type correctness of a step.                                             *)

LEMMA TypeStep ==
  ASSUME TypeOK, [Next]_vars
  PROVE  TypeOK'
<1>1. CASE UNCHANGED vars
  BY <1>1 DEF vars, TypeOK
<1>2. CASE Start
  BY <1>2 DEF Start, TypeOK
<1>3. CASE StopClear \/ StopNotify \/ StopJoin
  BY <1>3 DEF StopClear, StopNotify, StopJoin, Woken, TypeOK
<1>4. ASSUME NEW m \in Messages, Push(m) PROVE TypeOK'
  <2>1. Append(queue, m) \in Seq(Messages)
    BY AppendProperties DEF TypeOK
  <2> QED BY <1>4, <2>1 DEF Push, TypeOK
<1>5. ASSUME NEW m \in Messages, Notify(m) PROVE TypeOK'
  BY <1>5 DEF Notify, Woken, TypeOK
<1>6. CASE LoopTest \/ Lock \/ TestPredicate \/ Sleep \/ DrainDone \/ Relock
           \/ SpuriousWakeup
  BY <1>6 DEF LoopTest, Lock, TestPredicate, Sleep, DrainDone, Relock,
              SpuriousWakeup, Others, TypeOK
<1>7. CASE Take
  <2>1. Head(queue) \in Messages /\ Tail(queue) \in Seq(Messages)
    BY <1>7, HeadTailProperties DEF Take, CanTake, TypeOK
  <2>2. <<Head(queue)>> \in Seq(Messages)
    BY <2>1
  <2> QED BY <1>7, <2>1, <2>2 DEF Take, Others, TypeOK
<1>8. CASE Handle
  <2>1. handled \o inHand \in Seq(Messages) /\ <<>> \in Seq(Messages)
    BY ConcatProperties DEF TypeOK
  <2> QED BY <1>8, <2>1 DEF Handle, TypeOK
<1> QED
  BY <1>1, <1>2, <1>3, <1>4, <1>5, <1>6, <1>7, <1>8 DEF Next, Stopping, Poster, Worker

-----------------------------------------------------------------------------
(* The other parts.  Each action disturbs a few of them.                   *)

LEMMA InvStep ==
  ASSUME Inv, [Next]_vars
  PROVE  Inv'
<1>0. TypeOK'
  BY TypeStep DEF Inv
<1> DEFINE Parts == /\ FlagFollowsOwner /\ LockFollowsWorker /\ HandFollowsWorker
                    /\ BlockingIsEmpty /\ NoSleepOnMail /\ QuietAfterStop
<1> SUFFICES Parts'
  BY <1>0 DEF Inv
<1> USE DEF Inv, TypeOK, FlagFollowsOwner, LockFollowsWorker, HandFollowsWorker,
            BlockingIsEmpty, NoSleepOnMail, QuietAfterStop
<1>1. CASE UNCHANGED vars
  BY <1>1 DEF vars
<1>2. CASE Start
  BY <1>2 DEF Start
<1>3. CASE StopClear
  BY <1>3 DEF StopClear
<1>4. CASE StopNotify
  BY <1>4 DEF StopNotify, Woken
<1>5. CASE StopJoin
  BY <1>5 DEF StopJoin
<1>6. ASSUME NEW m \in Messages, Push(m) PROVE Parts'
  \* The poster that has pushed is the one that will notify.
  <2>1. poster'[m] = "pushed"
    BY <1>6 DEF Push
  <2>2. worker # "blocking"
    BY <1>6 DEF Push
  <2> QED BY <1>6, <2>1, <2>2 DEF Push
<1>7. ASSUME NEW m \in Messages, Notify(m) PROVE Parts'
  \* After the notification the worker is awake, or it blocks on an empty queue.
  <2>1. worker' # "asleep" /\ (worker' = "blocking" => worker = "blocking")
    BY <1>7 DEF Notify, Woken
  <2> QED BY <1>7, <2>1 DEF Notify, Woken
<1>8. CASE LoopTest
  BY <1>8 DEF LoopTest, Others
<1>9. CASE Lock
  BY <1>9 DEF Lock, Others
<1>10. CASE TestPredicate
  BY <1>10 DEF TestPredicate, WaitOver, Others
<1>11. CASE Sleep
  BY <1>11 DEF Sleep, Others
<1>12. CASE Take
  BY <1>12 DEF Take, Others
<1>13. CASE DrainDone
  BY <1>13 DEF DrainDone, Others
<1>14. CASE Handle
  BY <1>14 DEF Handle
<1>15. CASE Relock
  BY <1>15 DEF Relock, Others
<1>16. CASE SpuriousWakeup
  BY <1>16 DEF SpuriousWakeup, Others
<1> QED
  BY <1>1, <1>2, <1>3, <1>4, <1>5, <1>6, <1>7, <1>8, <1>9, <1>10, <1>11, <1>12,
     <1>13, <1>14, <1>15, <1>16 DEF Next, Stopping, Poster, Worker

LEMMA AlwaysInv == Spec => []Inv
  BY InvInit, InvStep, PTL DEF Spec
-----------------------------------------------------------------------------
(* What a user of the queue may rely on.                                   *)

\* Every variable keeps its type.
THEOREM TypeCorrect == Spec => []TypeOK
  BY AlwaysInv, PTL DEF Inv

\* The worker never sleeps on a message nobody is about to announce.
THEOREM NeverSleepsOnMail == Spec => []NoSleepOnMail
  BY AlwaysInv, PTL DEF Inv

\* Nothing is being handled, and no worker exists, once stop() has returned.
THEOREM QuietOnceStopped == Spec => []QuietAfterStop
  BY AlwaysInv, PTL DEF Inv
-----------------------------------------------------------------------------
(* Refinement.                                                             *)

LEMMA MailboxStep ==
  ASSUME Inv, [Next]_vars
  PROVE  [Abstract!Next]_(Abstract!vars)
<1> USE DEF Abstract!vars
\* Steps of the threads that the outside does not see.
<1>1. CASE UNCHANGED vars
  BY <1>1 DEF vars
<1>2. CASE StopNotify \/ StopJoin
  BY <1>2 DEF StopNotify, StopJoin
<1>3. ASSUME NEW m \in Messages, Notify(m) PROVE UNCHANGED Abstract!vars
  BY <1>3 DEF Notify
<1>4. CASE LoopTest \/ Lock \/ TestPredicate \/ Sleep \/ DrainDone \/ Relock
           \/ SpuriousWakeup
  BY <1>4 DEF LoopTest, Lock, TestPredicate, Sleep, DrainDone, Relock,
              SpuriousWakeup, Others
\* Steps it does see.
<1>5. CASE Start
  <2>1. inHand = <<>>
    BY <1>5 DEF Start, Inv, QuietAfterStop
  <2>2. Abstract!Open
    BY <1>5, <2>1 DEF Start, Abstract!Open
  <2> QED BY <2>2 DEF Abstract!Next
<1>6. CASE StopClear
  BY <1>6 DEF StopClear, Abstract!Close, Abstract!Next
<1>7. ASSUME NEW m \in Messages, Push(m) PROVE Abstract!Next
  <2>1. Abstract!Post(m)
    BY <1>7 DEF Push, Abstract!Post
  <2> QED BY <2>1 DEF Abstract!Next
<1>8. CASE Take
  <2>1. inHand = <<>>
    BY <1>8 DEF Take, Inv, HandFollowsWorker
  <2>2. Abstract!Take
    BY <1>8, <2>1 DEF Take, CanTake, Others, Abstract!Take
  <2> QED BY <2>2 DEF Abstract!Next
<1>9. CASE Handle
  <2>1. inHand # <<>>
    BY <1>9 DEF Handle, Inv, HandFollowsWorker
  <2>2. Abstract!Finish
    BY <1>9, <2>1 DEF Handle, Abstract!Finish
  <2> QED BY <2>2 DEF Abstract!Next
<1> QED
  BY <1>1, <1>2, <1>3, <1>4, <1>5, <1>6, <1>7, <1>8, <1>9
     DEF Next, Stopping, Poster, Worker

\* Whoever posts may think of a mailbox: messages are handled at most once, in
\* the order they were posted, and taken only while the processor is open.
THEOREM IsMailbox == Spec => ImplementsMailbox
<1>1. Init => Abstract!Init
  BY DEF Init, Abstract!Init
<1>2. Inv /\ [Next]_vars => [Abstract!Next]_(Abstract!vars)
  BY MailboxStep
<1> QED
  BY <1>1, <1>2, AlwaysInv, PTL DEF Spec, ImplementsMailbox, Abstract!Spec

-----------------------------------------------------------------------------
(* The pool of pending transactions.                                       *)

USE InputsAssumption, CapacityAssumption

-----------------------------------------------------------------------------
(* Erasing entries of the deque.                                           *)

Lists(K, n) == UNION {[1 .. m -> K] : m \in 0 .. n}

\* Every set of numbers up to n can be listed in increasing order.
LEMMA EnumerationExists ==
  ASSUME NEW n \in Nat, NEW K \in SUBSET (1 .. n)
  PROVE  \E h \in Lists(K, n) : Enumerates(h, K)
<1> DEFINE S == {m \in Nat : \A L \in SUBSET (1 .. m) :
                               \E h \in Lists(L, m) : Enumerates(h, L)}
<1>1. 0 \in S
  <2> SUFFICES ASSUME NEW L \in SUBSET (1 .. 0)
               PROVE  \E h \in Lists(L, 0) : Enumerates(h, L)
    OBVIOUS
  <2> DEFINE h == [i \in 1 .. 0 |-> 0]
  <2>1. L = {} /\ 1 .. 0 = {}
    OBVIOUS
  <2>2. h \in [1 .. 0 -> L] /\ DOMAIN h = {}
    BY <2>1
  <2> HIDE DEF h
  <2>3. Enumerates(h, L)
    BY <2>1, <2>2 DEF Enumerates, Range
  <2>4. h \in Lists(L, 0)
    BY <2>2 DEF Lists
  <2> QED BY <2>3, <2>4
<1>2. ASSUME NEW m \in S PROVE m + 1 \in S
  <2> SUFFICES ASSUME NEW L \in SUBSET (1 .. (m + 1))
               PROVE  \E h \in Lists(L, m + 1) : Enumerates(h, L)
    OBVIOUS
  <2>1. m \in Nat
    OBVIOUS
  <2> DEFINE L0 == L \ {m + 1}
  <2>2. L0 \in SUBSET (1 .. m)
    BY <2>1
  <2>3. PICK h \in Lists(L0, m) : Enumerates(h, L0)
    BY <2>2
  <2>4. PICK k \in 0 .. m : h \in [1 .. k -> L0]
    BY <2>3 DEF Lists
  <2>5. CASE m + 1 \notin L
    <3>1. L0 = L /\ k \in 0 .. (m + 1)
      BY <2>5, <2>1
    <3>2. h \in Lists(L, m + 1)
      BY <3>1, <2>4 DEF Lists
    <3> QED BY <3>1, <3>2, <2>3
  <2>6. CASE m + 1 \in L
    <3> DEFINE g == [i \in 1 .. (k + 1) |-> IF i = k + 1 THEN m + 1 ELSE h[i]]
    <3>1. k \in Nat /\ k + 1 \in 0 .. (m + 1)
      BY <2>1
    <3>2. \A i \in 1 .. k : h[i] \in L0 /\ h[i] \in L /\ h[i] <= m /\ h[i] \in Nat
      <4>1. \A i \in 1 .. k : h[i] \in L0
        BY <2>4
      <4>2. \A e \in L0 : e \in L /\ e <= m /\ e \in Nat
        BY <2>2, <2>1
      <4> QED BY <4>1, <4>2
    <3>3. g \in [1 .. (k + 1) -> L]
      BY <2>6, <3>1, <3>2
    <3>4. DOMAIN g = 1 .. (k + 1) /\ DOMAIN h = 1 .. k
      BY <2>4
    <3>5. g[k + 1] = m + 1 /\ \A i \in 1 .. k : g[i] = h[i]
      BY <3>1
    <3> HIDE DEF g
    <3>6. \A i, j \in DOMAIN g : i < j => g[i] < g[j]
      <4> SUFFICES ASSUME NEW i \in 1 .. (k + 1), NEW j \in 1 .. (k + 1), i < j
                   PROVE  g[i] < g[j]
        BY <3>4
      <4>1. i \in 1 .. k
        BY <3>1
      <4>2. CASE j = k + 1
        BY <4>1, <4>2, <3>5, <3>2, <2>1
      <4>3. CASE j \in 1 .. k
        BY <4>1, <4>3, <3>4, <3>5, <2>3 DEF Enumerates
      <4> QED BY <4>2, <4>3, <3>1
    <3>7. Range(g) = L
      <4>1. Range(g) \subseteq L
        BY <3>3, <3>4 DEF Range
      <4>2. ASSUME NEW e \in L PROVE \E i \in 1 .. (k + 1) : g[i] = e
        <5>1. CASE e = m + 1
          BY <5>1, <3>1, <3>5
        <5>2. CASE e # m + 1
          <6>1. e \in Range(h)
            BY <5>2, <2>3 DEF Enumerates
          <6>2. PICK i \in 1 .. k : h[i] = e
            BY <6>1, <3>4 DEF Range
          <6>3. i \in 1 .. (k + 1)
            BY <3>1
          <6> QED BY <6>2, <6>3, <3>5
        <5> QED BY <5>1, <5>2
      <4> QED BY <4>1, <4>2, <3>4 DEF Range
    <3>8. g \in Lists(L, m + 1)
      BY <3>1, <3>3 DEF Lists
    <3> QED BY <3>6, <3>7, <3>8 DEF Enumerates
  <2> QED BY <2>5, <2>6
<1> HIDE DEF S
<1>3. S = Nat
  <2>1. S \in SUBSET Nat
    BY DEF S
  <2> QED BY <1>1, <1>2, <2>1, SetInduction
<1> QED BY <1>3 DEF S

\* What erasing leaves: the other entries, once each and in their order.
LEMMA WithoutFacts ==
  ASSUME NEW s \in Seq(Txns), IsInjective(s), NEW gone
  PROVE  /\ Without(s, gone) \in Seq(Txns)
         /\ Range(Without(s, gone)) = Range(s) \ gone
         /\ IsInjective(Without(s, gone))
         /\ Len(Without(s, gone)) <= Len(s)
         /\ s # <<>> /\ Head(s) \in gone => Len(Without(s, gone)) < Len(s)
         /\ \A i, j \in DOMAIN Without(s, gone) : i < j =>
              \E k, l \in DOMAIN s : /\ k < l
                                     /\ Without(s, gone)[i] = s[k]
                                     /\ Without(s, gone)[j] = s[l]
<1> DEFINE K == Kept(s, gone)
           h == Positions(s, gone)
           w == Without(s, gone)
<1>1. K \in SUBSET (1 .. Len(s)) /\ Len(s) \in Nat
  BY DEF Kept
<1>2. h \in Lists(K, Len(s)) /\ Enumerates(h, K)
  <2>1. \E g \in Lists(K, Len(s)) : Enumerates(g, K)
    BY <1>1, EnumerationExists
  <2> QED BY <2>1 DEF Lists, Positions
<1>3. PICK n \in 0 .. Len(s) : h \in [1 .. n -> K]
  BY <1>2 DEF Lists
<1>4. w = [i \in 1 .. n |-> s[h[i]]]
  BY <1>3 DEF Without
<1>5. \A i \in 1 .. n : h[i] \in 1 .. Len(s) /\ s[h[i]] \notin gone /\ s[h[i]] \in Txns
  <2>1. \A i \in 1 .. n : h[i] \in K
    BY <1>3
  <2> QED BY <2>1, <1>1 DEF Kept
<1>6. \A i, j \in 1 .. n : i < j => h[i] < h[j]
  BY <1>2, <1>3 DEF Enumerates
<1>7. \A k \in K : \E i \in 1 .. n : h[i] = k
  <2>1. DOMAIN h = 1 .. n
    BY <1>3
  <2> QED BY <1>2, <2>1 DEF Enumerates, Range
<1> HIDE DEF h, w, K
<1>8. n \in Nat /\ n <= Len(s)
  BY <1>1
<1>9. w \in Seq(Txns) /\ Len(w) = n /\ DOMAIN w = 1 .. n
  BY <1>4, <1>5, <1>8
<1>10. Range(w) = Range(s) \ gone
  <2>1. ASSUME NEW x \in Range(w) PROVE x \in Range(s) \ gone
    BY <2>1, <1>4, <1>5, <1>9 DEF Range
  <2>2. ASSUME NEW x \in Range(s) \ gone PROVE x \in Range(w)
    <3>1. PICK k \in DOMAIN s : s[k] = x
      BY DEF Range
    <3>2. k \in K
      BY <3>1 DEF K, Kept
    <3> QED BY <3>1, <3>2, <1>4, <1>7, <1>9 DEF Range
  <2> QED BY <2>1, <2>2
<1>11. IsInjective(w)
  <2> SUFFICES ASSUME NEW i \in 1 .. n, NEW j \in 1 .. n, w[i] = w[j] PROVE i = j
    BY <1>9 DEF IsInjective
  <2>1. h[i] = h[j]
    BY <1>4, <1>5 DEF IsInjective
  <2>2. h[i] \in Int /\ h[j] \in Int
    BY <1>5
  <2> QED BY <2>1, <2>2, <1>6, <1>8
<1>12. s # <<>> /\ Head(s) \in gone => n < Len(s)
  <2> SUFFICES ASSUME s # <<>>, Head(s) \in gone PROVE n < Len(s)
    OBVIOUS
  <2>1. \A i \in 1 .. n : h[i] # 1
    BY <1>5
  \* The i-th surviving position is beyond i.
  <2> DEFINE S == {m \in Nat : m + 1 \in 1 .. n => h[m + 1] >= m + 2}
  <2>2. 0 \in S
    BY <2>1, <1>5
  <2>3. ASSUME NEW m \in S PROVE m + 1 \in S
    <3> SUFFICES ASSUME (m + 1) + 1 \in 1 .. n PROVE h[(m + 1) + 1] >= (m + 1) + 2
      OBVIOUS
    <3>1. m \in Nat /\ m + 1 \in 1 .. n /\ m + 1 < (m + 1) + 1
      BY <1>8
    <3>2. h[m + 1] >= m + 2
      BY <3>1
    <3>3. h[m + 1] < h[(m + 1) + 1]
      BY <3>1, <1>6
    <3>4. h[m + 1] \in Int /\ h[(m + 1) + 1] \in Int
      BY <3>1, <1>5
    <3> QED BY <3>1, <3>2, <3>3, <3>4
  <2> HIDE DEF S
  <2>4. S = Nat
    <3>1. S \in SUBSET Nat
      BY DEF S
    <3> QED BY <2>2, <2>3, <3>1, SetInduction
  <2>5. CASE n = 0
    BY <2>5, <1>1
  <2>6. CASE n # 0
    <3>1. n - 1 \in Nat /\ (n - 1) + 1 = n /\ n \in 1 .. n
      BY <2>6, <1>8
    <3>2. n - 1 \in S
      BY <3>1, <2>4
    <3>3. h[n] >= (n - 1) + 2
      BY <3>1, <3>2 DEF S
    <3> QED BY <3>1, <3>3, <1>1, <1>5
  <2> QED BY <2>5, <2>6
<1>13. ASSUME NEW i \in 1 .. n, NEW j \in 1 .. n, i < j
       PROVE  \E k, l \in DOMAIN s : k < l /\ w[i] = s[k] /\ w[j] = s[l]
  <2>1. h[i] \in DOMAIN s /\ h[j] \in DOMAIN s /\ h[i] < h[j]
    BY <1>5, <1>6, <1>13
  <2> QED BY <2>1, <1>4
<1> QED BY <1>8, <1>9, <1>10, <1>11, <1>12, <1>13 DEF w

-----------------------------------------------------------------------------
(* The operations keep a pool consistent.                                  *)

Consistent(p) ==
  /\ \A x, y \in p.byID : x # y => Inputs[x] \cap Inputs[y] = {}
  /\ p.spentInPool = CoinsOf(p.byID)
  /\ Range(p.order) = p.byID /\ IsInjective(p.order)

LEMMA EvictConsistent ==
  ASSUME NEW p \in Pools, Consistent(p), NEW gone
  PROVE  /\ Evict(p, gone) \in Pools
         /\ Consistent(Evict(p, gone))
         /\ Evict(p, gone).byID = p.byID \ gone
         /\ Len(Evict(p, gone).order) <= Len(p.order)
         /\ p.order # <<>> /\ Head(p.order) \in gone
              => Len(Evict(p, gone).order) < Len(p.order)
<1> DEFINE out == gone \cap p.byID
           q == Evict(p, gone)
<1>1. /\ q.byID = p.byID \ out
      /\ q.spentInPool = p.spentInPool \ CoinsOf(out)
      /\ q.order = Without(p.order, out)
      /\ q = [byID |-> q.byID, spentInPool |-> q.spentInPool, order |-> q.order]
  BY DEF Evict
<1>2. p.order \in Seq(Txns) /\ p.byID \subseteq Txns /\ p.spentInPool \subseteq Coins
  BY DEF Pools
<1>3. IsInjective(p.order) /\ Range(p.order) = p.byID
  BY DEF Consistent
<1> HIDE DEF q, out
<1>4. /\ q.order \in Seq(Txns)
      /\ Range(q.order) = Range(p.order) \ out
      /\ IsInjective(q.order)
      /\ Len(q.order) <= Len(p.order)
      /\ p.order # <<>> /\ Head(p.order) \in out => Len(q.order) < Len(p.order)
  <2>1. /\ Without(p.order, out) \in Seq(Txns)
        /\ Range(Without(p.order, out)) = Range(p.order) \ out
        /\ IsInjective(Without(p.order, out))
        /\ Len(Without(p.order, out)) <= Len(p.order)
        /\ p.order # <<>> /\ Head(p.order) \in out
             => Len(Without(p.order, out)) < Len(p.order)
    BY <1>2, <1>3, WithoutFacts
  <2> QED BY <1>1, <2>1
<1>5. q \in Pools
  <2>1. q.byID \in SUBSET Txns /\ q.spentInPool \in SUBSET Coins
    BY <1>1, <1>2
  <2> QED BY <1>1, <1>4, <2>1 DEF Pools
<1>6. q.spentInPool = CoinsOf(q.byID)
  <2>1. p.spentInPool = CoinsOf(p.byID)
    BY DEF Consistent
  \* Inputs of different pending transactions are disjoint, so nothing an
  \* evicted one releases is needed by another.
  <2>2. ASSUME NEW x \in p.byID \ out, NEW y \in out PROVE Inputs[x] \cap Inputs[y] = {}
    BY DEF Consistent, out
  <2> QED BY <1>1, <2>1, <2>2 DEF CoinsOf
<1>7. Consistent(q)
  BY <1>1, <1>3, <1>4, <1>6 DEF Consistent
<1>8. p.order # <<>> /\ Head(p.order) \in gone => Head(p.order) \in out
  BY <1>2, <1>3 DEF Range, out
<1> QED BY <1>1, <1>4, <1>5, <1>7, <1>8 DEF q, out

LEMMA MakeRoomConsistent ==
  ASSUME NEW p \in Pools, Consistent(p), Len(p.order) <= Capacity
  PROVE  /\ MakeRoom(p) \in Pools
         /\ Consistent(MakeRoom(p))
         /\ MakeRoom(p).byID \subseteq p.byID
         /\ Len(MakeRoom(p).order) < Capacity
<1>1. p.order \in Seq(Txns) /\ Len(p.order) \in Nat
  BY DEF Pools
<1>2. CASE Len(p.order) >= Capacity
  <2>1. p.order # <<>>
    BY <1>1, <1>2
  <2> DEFINE q == Evict(p, {Head(p.order)})
  <2>2. /\ q \in Pools /\ Consistent(q) /\ q.byID \subseteq p.byID
        /\ Len(q.order) < Len(p.order)
    BY <2>1, EvictConsistent
  <2>3. Len(q.order) \in Nat
    BY <2>2 DEF Pools
  <2>4. MakeRoom(p) = q
    BY <1>2 DEF MakeRoom
  <2> HIDE DEF q
  <2> QED BY <1>1, <2>2, <2>3, <2>4
<1>3. CASE ~ (Len(p.order) >= Capacity)
  BY <1>1, <1>3 DEF MakeRoom
<1> QED BY <1>2, <1>3

LEMMA InsertConsistent ==
  ASSUME NEW p \in Pools, Consistent(p), NEW tx \in Txns, ~ Refuses(p, tx),
         Len(p.order) < Capacity
  PROVE  /\ Insert(p, tx) \in Pools
         /\ Consistent(Insert(p, tx))
         /\ Len(Insert(p, tx).order) <= Capacity
<1> DEFINE q == Insert(p, tx)
<1>1. /\ q.byID = p.byID \cup {tx}
      /\ q.spentInPool = p.spentInPool \cup Inputs[tx]
      /\ q.order = Append(p.order, tx)
      /\ q = [byID |-> q.byID, spentInPool |-> q.spentInPool, order |-> q.order]
  BY DEF Insert
<1>2. /\ p.order \in Seq(Txns) /\ p.byID \subseteq Txns /\ p.spentInPool \subseteq Coins
      /\ Inputs[tx] \subseteq Coins /\ tx \notin p.byID
      /\ Inputs[tx] \cap p.spentInPool = {}
  BY DEF Pools, Refuses
<1> HIDE DEF q
<1>3. q \in Pools
  <2>1. q.order \in Seq(Txns)
    BY <1>1, <1>2
  <2> QED BY <1>1, <1>2, <2>1 DEF Pools
<1>4. /\ Len(q.order) = Len(p.order) + 1
      /\ \A i \in 1 .. Len(p.order) : q.order[i] = p.order[i]
      /\ q.order[Len(p.order) + 1] = tx
      /\ DOMAIN q.order = 1 .. (Len(p.order) + 1) /\ DOMAIN p.order = 1 .. Len(p.order)
      /\ Len(p.order) \in Nat
  BY <1>1, <1>2
<1>5. Range(p.order) = p.byID /\ IsInjective(p.order)
  BY DEF Consistent
<1>6. Range(q.order) = q.byID
  <2>1. ASSUME NEW x \in Range(q.order) PROVE x \in q.byID
    <3>1. PICK i \in 1 .. (Len(p.order) + 1) : q.order[i] = x
      BY <1>4 DEF Range
    <3>2. CASE i = Len(p.order) + 1
      BY <3>1, <3>2, <1>1, <1>4
    <3>3. CASE i \in 1 .. Len(p.order)
      <4>1. x \in Range(p.order)
        BY <3>1, <3>3, <1>4 DEF Range
      <4> QED BY <4>1, <1>1, <1>5
    <3> QED BY <3>2, <3>3, <1>4
  <2>2. ASSUME NEW x \in q.byID PROVE \E i \in DOMAIN q.order : q.order[i] = x
    <3>1. CASE x = tx
      BY <3>1, <1>4
    <3>2. CASE x # tx
      <4>1. PICK i \in 1 .. Len(p.order) : p.order[i] = x
        BY <3>2, <1>1, <1>4, <1>5 DEF Range
      <4>2. i \in DOMAIN q.order
        BY <1>4
      <4>3. q.order[i] = x
        BY <1>4, <4>1
      <4> QED BY <4>2, <4>3
    <3> QED BY <3>1, <3>2
  <2> QED BY <2>1, <2>2 DEF Range
<1>7. IsInjective(q.order)
  <2>1. \A i \in 1 .. Len(p.order) : p.order[i] # tx
    BY <1>2, <1>4, <1>5 DEF Range
  <2>2. \A i, j \in 1 .. Len(p.order) : p.order[i] = p.order[j] => i = j
    BY <1>4, <1>5 DEF IsInjective
  <2> SUFFICES ASSUME NEW i \in 1 .. (Len(p.order) + 1), NEW j \in 1 .. (Len(p.order) + 1),
                      q.order[i] = q.order[j]
               PROVE  i = j
    BY <1>4 DEF IsInjective
  <2>3. CASE i = Len(p.order) + 1
    BY <2>1, <2>3, <1>4
  <2>4. CASE j = Len(p.order) + 1
    BY <2>1, <2>4, <1>4
  <2>5. CASE i \in 1 .. Len(p.order) /\ j \in 1 .. Len(p.order)
    BY <2>2, <2>5, <1>4
  <2> QED BY <2>3, <2>4, <2>5, <1>4
<1>8. q.spentInPool = CoinsOf(q.byID)
  <2>1. p.spentInPool = CoinsOf(p.byID)
    BY DEF Consistent
  <2> QED BY <1>1, <2>1 DEF CoinsOf
<1>9. \A x, y \in q.byID : x # y => Inputs[x] \cap Inputs[y] = {}
  <2>1. \A x \in p.byID : Inputs[x] \cap Inputs[tx] = {}
    BY <1>2 DEF Consistent, CoinsOf
  <2> QED BY <1>1, <2>1 DEF Consistent
<1>10. Len(q.order) <= Capacity
  BY <1>4
<1> QED BY <1>3, <1>6, <1>7, <1>8, <1>9, <1>10 DEF Consistent, q

-----------------------------------------------------------------------------
(* The theorems.                                                           *)

\* The containers agree, pending transactions do not share inputs, and the
\* pool is within its capacity.  Each part needs the others: eviction frees
\* the right coins only because inputs are disjoint, and makes room only
\* because the oldest entry of the deque is a pending transaction.
PoolInv == PoolTypeOK /\ Consistent(pool) /\ WithinCapacity

LEMMA PoolInvInit == PoolInit => PoolInv
<1> SUFFICES ASSUME PoolInit PROVE PoolInv
  OBVIOUS
<1>1. pool.byID = {} /\ pool.spentInPool = {} /\ pool.order = <<>> /\ pool \in Pools
  BY DEF PoolInit, EmptyPool, Pools
<1>2. Consistent(pool)
  BY <1>1 DEF Consistent, CoinsOf, Range, IsInjective
<1>3. WithinCapacity
  BY <1>1 DEF WithinCapacity
<1> QED BY <1>1, <1>2, <1>3 DEF PoolInv, PoolTypeOK

LEMMA EvictKeepsPoolInv ==
  ASSUME PoolInv, NEW gone, pool' = Evict(pool, gone)
  PROVE  PoolInv'
<1>1. /\ pool' \in Pools /\ Consistent(pool')
      /\ Len(pool'.order) <= Len(pool.order)
  BY EvictConsistent DEF PoolInv, PoolTypeOK
<1>2. Len(pool'.order) \in Nat /\ Len(pool.order) \in Nat
  BY <1>1 DEF Pools, PoolInv, PoolTypeOK
<1> QED BY <1>1, <1>2 DEF PoolInv, PoolTypeOK, WithinCapacity

LEMMA PoolInvNext == PoolInv /\ [PoolNext]_pool => PoolInv'
<1> SUFFICES ASSUME PoolInv, [PoolNext]_pool PROVE PoolInv'
  OBVIOUS
<1>1. ASSUME NEW tx \in Txns, Add(tx) PROVE PoolInv'
  <2>1. CASE Refuses(pool, tx)
    BY <1>1, <2>1 DEF Add, AddTo, PoolInv, PoolTypeOK, WithinCapacity
  <2>2. CASE ~ Refuses(pool, tx)
    <3> DEFINE p == MakeRoom(pool)
    <3>1. pool' = Insert(p, tx)
      BY <1>1, <2>2 DEF Add, AddTo
    <3>2. p \in Pools /\ Consistent(p) /\ p.byID \subseteq pool.byID /\ Len(p.order) < Capacity
      BY MakeRoomConsistent DEF PoolInv, PoolTypeOK, WithinCapacity
    <3> HIDE DEF p
    <3>3. ~ Refuses(p, tx)
      BY <2>2, <3>2 DEF Refuses, Consistent, CoinsOf, PoolInv
    <3>4. pool' \in Pools /\ Consistent(pool') /\ Len(pool'.order) <= Capacity
      BY <3>1, <3>2, <3>3, InsertConsistent
    <3> QED BY <3>4 DEF PoolInv, PoolTypeOK, WithinCapacity
  <2> QED BY <2>1, <2>2
<1>2. ASSUME NEW tx \in Txns, Remove(tx) PROVE PoolInv'
  BY <1>2, EvictKeepsPoolInv DEF Remove
<1>3. ASSUME NEW coins \in SUBSET Coins, OnBlockAccepted(coins) PROVE PoolInv'
  BY <1>3, EvictKeepsPoolInv DEF OnBlockAccepted
<1>4. CASE UNCHANGED pool
  BY <1>4 DEF PoolInv, PoolTypeOK, WithinCapacity
<1> QED BY <1>1, <1>2, <1>3, <1>4 DEF PoolNext

\* Type correctness of every reachable pool.
THEOREM PoolTypeCorrect == PoolSpec => []PoolTypeOK
<1>1. PoolInv => PoolTypeOK
  BY DEF PoolInv
<1> QED BY <1>1, PoolInvInit, PoolInvNext, PTL DEF PoolSpec

\* No two pending transactions ever spend the same coin.
THEOREM PoolNeverDoubleSpends == PoolSpec => []NoDoubleSpend
<1>1. PoolInv => NoDoubleSpend
  BY DEF PoolInv, Consistent, NoDoubleSpend
<1> QED BY <1>1, PoolInvInit, PoolInvNext, PTL DEF PoolSpec

\* The reserved coins are always exactly the inputs of the pending ones.
THEOREM ReservationsExact == PoolSpec => []SpentIsExact
<1>1. PoolInv => SpentIsExact
  BY DEF PoolInv, Consistent, SpentIsExact
<1> QED BY <1>1, PoolInvInit, PoolInvNext, PTL DEF PoolSpec

\* The deque and the map always hold the same ids, each once.
THEOREM OrderAlwaysMatches == PoolSpec => []OrderMatches
<1>1. PoolInv => OrderMatches
  BY DEF PoolInv, Consistent, OrderMatches
<1> QED BY <1>1, PoolInvInit, PoolInvNext, PTL DEF PoolSpec

\* The pool never outgrows its capacity.
THEOREM PoolBounded == PoolSpec => []WithinCapacity
<1>1. PoolInv => WithinCapacity
  BY DEF PoolInv
<1> QED BY <1>1, PoolInvInit, PoolInvNext, PTL DEF PoolSpec

-----------------------------------------------------------------------------
(* First in, first out.                                                    *)

\* What AgesKept asks of one step, from the pool p to the pool q.
AgesKeptFrom(p, q) ==
  \A x \in p.byID \cap q.byID, y \in q.byID :
    IF y \in p.byID THEN Older(p, x, y) <=> Older(q, x, y) ELSE Older(q, x, y)

\* Erasing entries keeps the order of the others: a deque lists each of them
\* once, so two positions of the new deque that were swapped in the old one
\* would be two positions of one transaction.
LEMMA EvictKeepsAges ==
  ASSUME NEW p \in Pools, Consistent(p), NEW gone, NEW q, q = Evict(p, gone),
         NEW x \in q.byID, NEW y \in q.byID
  PROVE  Older(p, x, y) <=> Older(q, x, y)
<1> DEFINE s == p.order
           w == q.order
<1>1. s \in Seq(Txns) /\ IsInjective(s)
  BY DEF Pools, Consistent
<1>2. w = Without(s, gone \cap p.byID)
  BY DEF Evict
<1>3. Range(w) = q.byID
  <2>1. Consistent(q)
    BY EvictConsistent
  <2> QED BY <2>1 DEF Consistent
<1> HIDE DEF s, w
<1>4. \A i, j \in DOMAIN w : i < j => \E k, l \in DOMAIN s : k < l /\ w[i] = s[k] /\ w[j] = s[l]
  BY <1>1, <1>2, WithoutFacts
<1>5. \A k, l \in DOMAIN s : s[k] = s[l] => k = l
  BY <1>1 DEF IsInjective
<1>6. w \in Seq(Txns)
  BY <1>1, <1>2, WithoutFacts
<1>7. ASSUME NEW i \in DOMAIN w, NEW j \in DOMAIN w, i < j, w[i] = x, w[j] = y
      PROVE  \E k, l \in DOMAIN s : k < l /\ s[k] = x /\ s[l] = y
  BY <1>4, <1>7
<1>8. ASSUME NEW k \in DOMAIN s, NEW l \in DOMAIN s, k < l, s[k] = x, s[l] = y
      PROVE  \E i, j \in DOMAIN w : i < j /\ w[i] = x /\ w[j] = y
  <2>1. PICK i \in DOMAIN w, j \in DOMAIN w : w[i] = x /\ w[j] = y
    BY <1>3 DEF Range
  <2>2. i \in Int /\ j \in Int /\ k \in Int /\ l \in Int
    BY <1>1, <1>6
  <2>3. CASE i = j
    BY <1>5, <1>8, <2>1, <2>2, <2>3
  <2>4. CASE j < i
    <3>1. PICK a \in DOMAIN s, b \in DOMAIN s : a < b /\ w[j] = s[a] /\ w[i] = s[b]
      BY <1>4, <2>4
    <3>2. a = l /\ b = k
      BY <1>5, <1>8, <2>1, <3>1
    <3> QED BY <1>8, <2>2, <3>1, <3>2
  <2> QED BY <2>1, <2>2, <2>3, <2>4
<1> QED BY <1>7, <1>8 DEF Older, s, w

\* A new entry goes behind all others and moves none of them.
LEMMA InsertKeepsAges ==
  ASSUME NEW p \in Pools, Consistent(p), NEW tx \in Txns, tx \notin p.byID,
         NEW q, q = Insert(p, tx), NEW x \in p.byID
  PROVE  /\ \A y \in p.byID : Older(p, x, y) <=> Older(q, x, y)
         /\ Older(q, x, tx)
<1> DEFINE s == p.order
           w == q.order
           n == Len(s)
<1>1. s \in Seq(Txns) /\ Range(s) = p.byID
  BY DEF Pools, Consistent
<1>2. w = Append(s, tx)
  BY DEF Insert
<1> HIDE DEF s, w
<1>3. /\ n \in Nat /\ DOMAIN s = 1 .. n /\ DOMAIN w = 1 .. n + 1
      /\ w[n + 1] = tx /\ \A i \in 1 .. n : w[i] = s[i]
  BY <1>1, <1>2
<1> HIDE DEF n
<1>4. \A i \in 1 .. n + 1 : i \in 1 .. n \/ i = n + 1
  BY <1>3
<1>5. \A i \in 1 .. n : i \in 1 .. n + 1 /\ i < n + 1
  BY <1>3
<1>6. Older(q, x, tx)
  <2>1. PICK i \in 1 .. n : s[i] = x
    BY <1>1, <1>3 DEF Range
  <2>2. n + 1 \in 1 .. n + 1
    BY <1>3
  <2> QED BY <1>3, <1>5, <2>1, <2>2 DEF Older, w
<1>7. ASSUME NEW y \in p.byID PROVE Older(p, x, y) <=> Older(q, x, y)
  <2>1. x # tx /\ y # tx
    BY <1>7
  <2>2. Older(p, x, y) <=> \E i, j \in 1 .. n : i < j /\ s[i] = x /\ s[j] = y
    BY <1>3 DEF Older, s
  <2>3. Older(q, x, y) <=> \E i, j \in 1 .. n + 1 : i < j /\ w[i] = x /\ w[j] = y
    BY <1>3 DEF Older, w
  <2>4. \A i \in 1 .. n + 1 : w[i] = x \/ w[i] = y => i \in 1 .. n
    BY <1>3, <1>4, <2>1
  <2> QED BY <1>3, <1>5, <2>2, <2>3, <2>4
<1> QED BY <1>6, <1>7

LEMMA AgesKeptInStep == PoolInv /\ PoolNext => AgesKeptFrom(pool, pool')
<1> SUFFICES ASSUME PoolInv, PoolNext PROVE AgesKeptFrom(pool, pool')
  OBVIOUS
<1>1. pool \in Pools /\ Consistent(pool) /\ Len(pool.order) <= Capacity
  BY DEF PoolInv, PoolTypeOK, WithinCapacity
<1>2. ASSUME NEW gone, pool' = Evict(pool, gone) PROVE AgesKeptFrom(pool, pool')
  <2>1. pool'.byID \subseteq pool.byID
    BY <1>2 DEF Evict
  <2>2. \A x, y \in pool'.byID : Older(pool, x, y) <=> Older(pool', x, y)
    BY <1>1, <1>2, EvictKeepsAges
  <2> QED BY <2>1, <2>2 DEF AgesKeptFrom
<1>3. ASSUME NEW tx \in Txns, Add(tx) PROVE AgesKeptFrom(pool, pool')
  <2>1. CASE Refuses(pool, tx)
    BY <1>3, <2>1 DEF Add, AddTo, AgesKeptFrom
  <2>2. CASE ~ Refuses(pool, tx)
    <3> DEFINE p == MakeRoom(pool)
    <3>1. pool' = Insert(p, tx)
      BY <1>3, <2>2 DEF Add, AddTo
    <3>2. p \in Pools /\ Consistent(p) /\ p.byID \subseteq pool.byID
      BY <1>1, MakeRoomConsistent
    <3>3. \A x, y \in p.byID : Older(pool, x, y) <=> Older(p, x, y)
      <4>1. CASE p = pool
        BY <4>1
      <4>2. CASE p = Evict(pool, {Head(pool.order)})
        <5> HIDE DEF p
        <5> QED BY <1>1, <4>2, EvictKeepsAges
      <4> QED BY <4>1, <4>2 DEF MakeRoom
    <3> HIDE DEF p
    <3>4. tx \notin pool.byID /\ tx \notin p.byID /\ pool'.byID = p.byID \cup {tx}
      BY <2>2, <3>1, <3>2 DEF Refuses, Insert
    <3>5. ASSUME NEW x \in p.byID
          PROVE  (\A y \in p.byID : Older(p, x, y) <=> Older(pool', x, y)) /\ Older(pool', x, tx)
      BY <3>1, <3>2, <3>4, InsertKeepsAges
    <3>6. ASSUME NEW x \in pool.byID \cap pool'.byID, NEW y \in pool'.byID
          PROVE  IF y \in pool.byID THEN Older(pool, x, y) <=> Older(pool', x, y)
                                    ELSE Older(pool', x, y)
      <4>1. x \in p.byID
        BY <3>4
      <4>2. CASE y = tx
        BY <3>4, <3>5, <4>1, <4>2
      <4>3. CASE y # tx
        <5>1. y \in p.byID /\ y \in pool.byID
          BY <3>2, <3>4, <4>3
        <5> QED BY <3>3, <3>5, <4>1, <5>1
      <4> QED BY <4>2, <4>3
    <3> QED BY <3>6 DEF AgesKeptFrom
  <2> QED BY <2>1, <2>2
<1> QED BY <1>2, <1>3 DEF PoolNext, Remove, OnBlockAccepted

\* Eviction is first in, first out over any history of removals: transactions
\* that stay pending keep their relative age and a new one is the youngest.
THEOREM FirstInFirstOut == PoolSpec => AgesKept
<1>1. PoolInv /\ [PoolNext]_pool => [AgesKeptFrom(pool, pool')]_pool
  BY AgesKeptInStep
<1>2. [][AgesKeptFrom(pool, pool')]_pool => AgesKept
  BY PTL DEF AgesKeptFrom, AgesKept
<1> QED BY <1>1, <1>2, PoolInvInit, PoolInvNext, PTL DEF PoolSpec
=============================================================================
